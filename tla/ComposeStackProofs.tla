-------------------------- MODULE ComposeStackProofs --------------------------
(***************************************************************************)
(* Proofs about ComposeStack for any catalog, any overrides, any bounds    *)
(* and any behaviour of the other processes.                               *)
(***************************************************************************)
EXTENDS ComposeStack, FiniteSetTheorems, SequenceTheorems, WellFoundedInduction, TLAPS

(* Sequences of sequences.                                                 *)

Less == {ss \in Nat \X Nat : ss[1] < ss[2]}

\* A set of natural numbers that is not empty has a least element.
LEMMA LeastElement ==
    ASSUME NEW S, S \subseteq Nat, S # {}
    PROVE  \E x \in S : \A y \in S : x <= y
<1>1. Less = OpToRel(<, Nat)
  BY Zenon DEF Less, OpToRel
<1>2. IsWellFoundedOn(Less, Nat)
  BY NatLessThanWellFounded, <1>1, Zenon
<1>3. PICK x \in S : \A y \in S : <<y, x>> \notin Less
  BY <1>2, WFMin
<1>4. \A x1, y \in Nat : y < x1 => <<y, x1>> \in Less
  BY SMT DEF Less
<1>5. \A y \in S : ~(y < x)
  BY <1>3, <1>4, Zenon
<1>6. QED
  BY <1>5

LEMMA MinProperties ==
    ASSUME NEW S, S \subseteq Nat, S # {}
    PROVE  Min(S) \in S /\ \A y \in S : Min(S) <= y
<1>1. PICK x \in S : \A y \in S : x <= y
  BY LeastElement
<1>2. QED
  BY <1>1 DEF Min

\* A set of numbers up to n that holds 0 and, with k < n, k + 1, holds them all.
LEMMA UpTo ==
    ASSUME NEW n \in Nat, NEW P, 0 \in P, \A k \in 0..(n - 1) : k \in P => k + 1 \in P
    PROVE  0..n \subseteq P
<1> DEFINE T == 0..n \ P
<1>1. SUFFICES ASSUME T # {} PROVE FALSE
  OBVIOUS
<1>2. T \subseteq Nat
  OBVIOUS
<1>3. PICK x \in T : \A y \in T : x <= y
  BY <1>1, <1>2, LeastElement, Zenon
<1>4. x # 0 /\ x - 1 \in 0..(n - 1) /\ x - 1 \notin T
  BY <1>3
<1>5. x - 1 \in P
  BY <1>4
<1>6. (x - 1) + 1 \in P
  BY <1>4, <1>5
<1>7. QED
  BY <1>3, <1>6

\* The prefixes that FlattenSeq puts together, one for each sequence.
Stacked(seqs, g, k) ==
    \A i \in 1..k : g[i] = IF i = 1 THEN seqs[i] ELSE g[i - 1] \o seqs[i]

LEMMA StackedExists ==
    ASSUME NEW S, NEW seqs \in Seq(Seq(S))
    PROVE  \E g \in [1..Len(seqs) -> Seq(S)] : Stacked(seqs, g, Len(seqs))
<1> DEFINE n == Len(seqs)
           P == {k \in Nat : \E g \in [1..k -> Seq(S)] : Stacked(seqs, g, k)}
<1>1. n \in Nat /\ \A i \in 1..n : seqs[i] \in Seq(S)
  BY LenProperties, ElementOfSeq
<1>2. 0 \in P
  <2> DEFINE g == [i \in 1..0 |-> <<>>]
  <2>1. g \in [1..0 -> Seq(S)] /\ Stacked(seqs, g, 0)
    BY DEF Stacked
  <2>2. QED
    BY <2>1
<1>3. ASSUME NEW k \in 0..(n - 1), k \in P PROVE k + 1 \in P
  <2>1. PICK g \in [1..k -> Seq(S)] : Stacked(seqs, g, k)
    BY <1>3
  <2> DEFINE last == IF k = 0 THEN seqs[1] ELSE g[k] \o seqs[k + 1]
             h == [i \in 1..(k + 1) |-> IF i = k + 1 THEN last ELSE g[i]]
  <2>2. k \in Nat /\ seqs[k + 1] \in Seq(S)
    BY <1>1
  <2>3. last \in Seq(S)
    <3>1. k # 0 => g[k] \in Seq(S)
      BY <2>2
    <3>2. QED
      BY <2>2, <3>1, ConcatProperties
  <2>4. h \in [1..(k + 1) -> Seq(S)]
    BY <2>2, <2>3
  <2>5. Stacked(seqs, h, k + 1)
    <3> SUFFICES ASSUME NEW i \in 1..(k + 1)
                 PROVE  h[i] = IF i = 1 THEN seqs[i] ELSE h[i - 1] \o seqs[i]
      BY DEF Stacked
    <3>1. CASE i = k + 1
      BY <2>2, <3>1
    <3>2. CASE i # k + 1
      <4>1. i \in 1..k /\ h[i] = g[i] /\ (i # 1 => h[i - 1] = g[i - 1])
        BY <2>2, <3>2
      <4>2. g[i] = IF i = 1 THEN seqs[i] ELSE g[i - 1] \o seqs[i]
        BY <2>1, <4>1 DEF Stacked
      <4>3. QED
        BY <4>1, <4>2
    <3>3. QED
      BY <3>1, <3>2
  <2>6. \E g1 \in [1..(k + 1) -> Seq(S)] : Stacked(seqs, g1, k + 1)
    <3> HIDE DEF h
    <3>1. QED
      BY <2>4, <2>5
  <2>7. QED
    BY <2>2, <2>6
<1>4. n \in P
  <2> HIDE DEF P
  <2>1. 0..n \subseteq P
    BY <1>1, <1>2, <1>3, UpTo
  <2>2. QED
    BY <1>1, <2>1
<1>5. QED
  BY <1>4

\* FlattenSeq is the last prefix.
LEMMA FlattenIsPrefix ==
    ASSUME NEW S, NEW seqs \in Seq(Seq(S)), Len(seqs) # 0
    PROVE  \E g \in [1..Len(seqs) -> Seq(S)] :
              Stacked(seqs, g, Len(seqs)) /\ FlattenSeq(seqs) = g[Len(seqs)]
<1> DEFINE n == Len(seqs)
           Rec(g) == g = [i \in 1..n |-> IF i = 1 THEN seqs[i] ELSE g[i - 1] \o seqs[i]]
           f == CHOOSE g : Rec(g)
<1>1. FlattenSeq(seqs) = f[n]
  BY Zenon DEF FlattenSeq
<1>2. PICK g \in [1..n -> Seq(S)] : Stacked(seqs, g, n)
  BY StackedExists
<1>3. Rec(g)
  BY <1>2 DEF Stacked
<1>4. Rec(f)
  BY <1>3, Zenon
<1>5. QED
  <2> HIDE DEF f
  <2>1. DOMAIN f = 1..n /\ Stacked(seqs, f, n)
    BY <1>4 DEF Stacked
  <2> DEFINE P == {k \in Nat : k <= n => \A i \in 1..k : f[i] = g[i]}
  <2>2. n \in Nat
    BY LenProperties
  <2>3. 0 \in P
    OBVIOUS
  <2>4. ASSUME NEW k \in 0..(n - 1), k \in P PROVE k + 1 \in P
    <3>1. k + 1 \in 1..n /\ \A i \in 1..k : f[i] = g[i]
      BY <2>2, <2>4
    <3>2. f[k + 1] = g[k + 1]
      <4>1. f[k + 1] = IF k + 1 = 1 THEN seqs[k + 1] ELSE f[(k + 1) - 1] \o seqs[k + 1]
        BY <2>1, <3>1 DEF Stacked
      <4>2. g[k + 1] = IF k + 1 = 1 THEN seqs[k + 1] ELSE g[(k + 1) - 1] \o seqs[k + 1]
        BY <1>2, <3>1 DEF Stacked
      <4>3. k + 1 = 1 \/ f[(k + 1) - 1] = g[(k + 1) - 1]
        BY <3>1
      <4>4. QED
        BY <4>1, <4>2, <4>3
    <3>3. QED
      BY <2>2, <3>1, <3>2
  <2>5. 0..n \subseteq P
    <3> HIDE DEF P
    <3>1. QED
      BY <2>2, <2>3, <2>4, UpTo
  <2>6. \A i \in 1..n : f[i] = g[i]
    <3>1. n \in P
      <4> HIDE DEF P
      <4>1. QED
        BY <2>2, <2>5
    <3>2. QED
      BY <2>2, <3>1
  <2>7. f[n] = g[n]
    BY <2>2, <2>6
  <2>8. QED
    BY <1>1, <1>2, <2>7

\* The same, with the lengths L of the sequences and G of the prefixes named.
Laid(n, L, G, seqs, g) ==
    /\ G[1] = L[1]
    /\ \A k \in 1..L[1] : g[1][k] = seqs[1][k]
    /\ \A i \in 2..n : /\ G[i] = G[i - 1] + L[i]
                       /\ \A a \in 1..G[i - 1] : g[i][a] = g[i - 1][a]
                       /\ \A k \in 1..L[i] : g[i][G[i - 1] + k] = seqs[i][k]

\* Prefix j goes on from every prefix before it.
Inside(G, g, j) ==
    \A i \in 1..j : G[i] <= G[j] /\ \A a \in 1..G[i] : g[j][a] = g[i][a]

LEMMA LaidInside ==
    ASSUME NEW n \in Nat, NEW L \in [1..n -> Nat], NEW G \in [1..n -> Nat], NEW seqs, NEW g,
           Laid(n, L, G, seqs, g)
    PROVE  \A j \in 1..n : Inside(G, g, j)
<1> DEFINE P == {m \in Nat : m \in 1..n => Inside(G, g, m)}
<1>1. 0 \in P
  OBVIOUS
<1>2. ASSUME NEW m \in 0..(n - 1), m \in P PROVE m + 1 \in P
  <2>1. m \in Nat /\ m + 1 \in 1..n /\ (m # 0 => m \in 1..n /\ m + 1 \in 2..n)
    OBVIOUS
  <2>2. m # 0 => Inside(G, g, m)
    BY <1>2, <2>1
  <2>3. m # 0 => G[m + 1] = G[m] + L[m + 1] /\ \A a \in 1..G[m] : g[m + 1][a] = g[m][a]
    <3>1. m # 0 => /\ G[m + 1] = G[(m + 1) - 1] + L[m + 1]
                   /\ \A a \in 1..G[(m + 1) - 1] : g[m + 1][a] = g[(m + 1) - 1][a]
      BY <2>1 DEF Laid
    <3>2. (m + 1) - 1 = m
      BY <2>1
    <3>3. QED
      BY <3>1, <3>2
  <2>4. ASSUME NEW i \in 1..(m + 1)
        PROVE  G[i] <= G[m + 1] /\ \A a \in 1..G[i] : g[m + 1][a] = g[i][a]
    <3>1. CASE i = m + 1
      BY <2>1, <3>1
    <3>2. CASE i # m + 1
      <4>1. m # 0 /\ i \in 1..m /\ i \in 1..n
        BY <2>1, <3>2
      <4>2. G[i] <= G[m] /\ \A a \in 1..G[i] : g[m][a] = g[i][a]
        BY <2>2, <4>1 DEF Inside
      <4>3. G[i] \in Nat /\ G[m] \in Nat /\ L[m + 1] \in Nat
        BY <2>1, <4>1
      <4>4. \A a \in 1..G[i] : a \in 1..G[m]
        BY <4>2, <4>3
      <4>5. G[i] <= G[m + 1]
        BY <2>3, <4>1, <4>2, <4>3
      <4>6. QED
        BY <2>3, <4>1, <4>2, <4>4, <4>5, Zenon
    <3>3. QED
      BY <3>1, <3>2
  <2>5. Inside(G, g, m + 1)
    BY <2>4, Zenon DEF Inside
  <2>6. m + 1 \in Nat
    BY <2>1
  <2>7. QED
    BY <2>5, <2>6
<1>3. 0..n \subseteq P
  <2> HIDE DEF P
  <2>1. QED
    BY <1>1, <1>2, UpTo
<1>4. QED
  <2> SUFFICES ASSUME NEW j \in 1..n PROVE Inside(G, g, j)
    BY Zenon
  <2>1. j \in 0..n
    OBVIOUS
  <2>2. QED
    BY <1>3, <2>1

\* Every position of a prefix lies in one of the sequences put together.
LEMMA LaidCovered ==
    ASSUME NEW n \in Nat, NEW L \in [1..n -> Nat], NEW G \in [1..n -> Nat], NEW seqs, NEW g,
           Laid(n, L, G, seqs, g)
    PROVE  \A j \in 1..n : \A a \in 1..G[j] : \E i \in 1..j : \E k \in 1..L[i] : a = (G[i] - L[i]) + k
<1> DEFINE In(a, i) == \E k \in 1..L[i] : a = (G[i] - L[i]) + k
           Cover(j) == \A a \in 1..G[j] : \E i \in 1..j : In(a, i)
           P == {m \in Nat : m \in 1..n => Cover(m)}
<1>1. 0 \in P
  OBVIOUS
<1>2. ASSUME NEW m \in 0..(n - 1), m \in P PROVE m + 1 \in P
  <2>1. /\ m \in Nat /\ m + 1 \in 1..n /\ (m # 0 => m \in 1..n /\ m + 1 \in 2..n) /\ (m + 1) - 1 = m
        /\ G[m + 1] \in Nat /\ L[m + 1] \in Nat /\ (m # 0 => G[m] \in Nat)
    OBVIOUS
  <2>2. m # 0 => Cover(m)
    <3> HIDE DEF Cover
    <3>1. QED
      BY <1>2, <2>1
  <2>3. /\ m = 0 => G[m + 1] = L[m + 1]
        /\ m # 0 => G[m + 1] = G[m] + L[m + 1]
    BY <2>1 DEF Laid
  <2>4. ASSUME NEW a \in 1..G[m + 1] PROVE \E i \in 1..(m + 1) : In(a, i)
    <3>1. CASE m # 0 /\ a <= G[m]
      <4>1. a \in 1..G[m]
        BY <2>1, <3>1
      <4>2. PICK i \in 1..m : In(a, i)
        <5> HIDE DEF In
        <5>1. QED
          BY <2>2, <3>1, <4>1
      <4>3. i \in 1..(m + 1)
        BY <2>1
      <4> HIDE DEF In
      <4>4. QED
        BY <4>2, <4>3
    <3>2. CASE ~(m # 0 /\ a <= G[m])
      <4> DEFINE k == a - (G[m + 1] - L[m + 1])
      <4>1. k \in 1..L[m + 1] /\ a = (G[m + 1] - L[m + 1]) + k
        <5> DEFINE x == G[m + 1]
                   y == L[m + 1]
                   z == G[m]
        <5>1. x \in Nat /\ y \in Nat /\ a \in 1..x
          BY <2>1
        <5>2. \/ x = y
              \/ z \in Nat /\ x = z + y /\ ~(a <= z)
          BY <2>1, <2>3, <3>2
        <5> HIDE DEF x, y, z
        <5>3. a - (x - y) \in 1..y /\ a = (x - y) + (a - (x - y))
          BY <5>1, <5>2
        <5>4. QED
          BY <5>3 DEF x, y
      <4>2. In(a, m + 1)
        <5> HIDE DEF k
        <5>1. QED
          BY <4>1
      <4>3. m + 1 \in 1..(m + 1)
        BY <2>1
      <4> HIDE DEF In
      <4>4. QED
        BY <4>2, <4>3
    <3>3. QED
      BY <3>1, <3>2
  <2>5. Cover(m + 1)
    BY <2>4, Zenon
  <2>6. QED
    <3> HIDE DEF Cover
    <3>1. m + 1 \in Nat
      BY <2>1
    <3>2. QED
      BY <2>5, <3>1
<1>3. 0..n \subseteq P
  <2> HIDE DEF P
  <2>1. QED
    BY <1>1, <1>2, UpTo
<1>4. QED
  <2> SUFFICES ASSUME NEW j \in 1..n PROVE Cover(j)
    BY Zenon
  <2> HIDE DEF Cover
  <2>1. j \in 0..n
    OBVIOUS
  <2>2. QED
    BY <1>3, <2>1

\* Each sequence is found in the flattened one after an offset `at', in order
\* and without overlap, and nothing else is.
Blocks(seqs, flat, at) ==
    /\ \A i \in 1..Len(seqs) : \A k \in 1..Len(seqs[i]) :
         at[i] + k \in 1..Len(flat) /\ flat[at[i] + k] = seqs[i][k]
    /\ \A i, j \in 1..Len(seqs) : i < j => at[i] + Len(seqs[i]) <= at[j]
    /\ \A a \in 1..Len(flat) : \E i \in 1..Len(seqs) : \E k \in 1..Len(seqs[i]) : a = at[i] + k

LEMMA Flattened ==
    ASSUME NEW S, NEW seqs \in Seq(Seq(S))
    PROVE  /\ FlattenSeq(seqs) \in Seq(S)
           /\ \E at \in [1..Len(seqs) -> Nat] : Blocks(seqs, FlattenSeq(seqs), at)
<1> DEFINE n == Len(seqs)
<1>1. n \in Nat /\ \A i \in 1..n : seqs[i] \in Seq(S) /\ Len(seqs[i]) \in Nat
  BY LenProperties, ElementOfSeq
<1>2. CASE n = 0
  <2>1. FlattenSeq(seqs) = seqs /\ seqs = <<>>
    BY <1>2, EmptySeq DEF FlattenSeq
  <2>2. FlattenSeq(seqs) \in Seq(S) /\ Len(FlattenSeq(seqs)) = 0
    BY <1>2, <2>1, EmptySeq
  <2> DEFINE at == [i \in 1..n |-> 0]
  <2>3. at \in [1..n -> Nat] /\ Blocks(seqs, FlattenSeq(seqs), at)
    BY <1>2, <2>2 DEF Blocks
  <2>4. QED
    BY <2>2, <2>3
<1>3. CASE n # 0
  <2>1. PICK g \in [1..n -> Seq(S)] : Stacked(seqs, g, n) /\ FlattenSeq(seqs) = g[n]
    BY <1>3, FlattenIsPrefix
  <2> DEFINE L == [i \in 1..n |-> Len(seqs[i])]
             G == [i \in 1..n |-> Len(g[i])]
             at == [i \in 1..n |-> G[i] - L[i]]
  <2>2. /\ \A i \in 1..n : g[i] \in Seq(S) /\ Len(g[i]) \in Nat
        /\ L \in [1..n -> Nat] /\ G \in [1..n -> Nat]
        /\ \A i \in 1..n : L[i] = Len(seqs[i]) /\ G[i] = Len(g[i])
    BY <1>1, LenProperties
  <2>3. at = [i \in 1..n |-> at[i]] /\ \A i \in 1..n : at[i] = G[i] - L[i]
    <3> HIDE DEF G, L
    <3>1. QED
      OBVIOUS
  <2> HIDE DEF L, G, at
  <2>4. Laid(n, L, G, seqs, g)
    <3>1. 1 \in 1..n /\ g[1] = seqs[1]
      <4>1. 1 \in 1..n
        BY <1>1, <1>3
      <4>2. QED
        BY <2>1, <4>1 DEF Stacked
    <3>2. ASSUME NEW i \in 2..n
          PROVE  /\ G[i] = G[i - 1] + L[i]
                 /\ \A a \in 1..G[i - 1] : g[i][a] = g[i - 1][a]
                 /\ \A k \in 1..L[i] : g[i][G[i - 1] + k] = seqs[i][k]
      <4>1. i - 1 \in 1..n /\ i \in 1..n /\ i # 1
        BY <1>1
      <4>2. g[i] = g[i - 1] \o seqs[i]
        BY <2>1, <4>1 DEF Stacked
      <4> DEFINE s == g[i - 1]
                 t == seqs[i]
                 ls == G[i - 1]
                 lt == L[i]
      <4>3. /\ s \in Seq(S) /\ t \in Seq(S) /\ Len(s) = ls /\ Len(t) = lt
            /\ ls \in Nat /\ lt \in Nat /\ Len(g[i]) = G[i]
        BY <1>1, <2>2, <4>1
      <4>4. g[i] = s \o t
        BY <4>2
      <4> HIDE DEF s, t, ls, lt
      <4>5. /\ Len(s \o t) = ls + lt
            /\ \A a \in 1..(ls + lt) : (s \o t)[a] = IF a <= ls THEN s[a] ELSE t[a - ls]
        <5>1. /\ Len(s \o t) = Len(s) + Len(t)
              /\ \A a \in 1..(Len(s) + Len(t)) : (s \o t)[a] = IF a <= Len(s) THEN s[a] ELSE t[a - Len(s)]
          BY <4>3, ConcatProperties, Zenon
        <5>2. QED
          BY <4>3, <5>1, Zenon
      <4> DEFINE u == s \o t
      <4>6. Len(u) = ls + lt /\ \A a \in 1..(ls + lt) : u[a] = IF a <= ls THEN s[a] ELSE t[a - ls]
        BY <4>5, Zenon
      <4>7. g[i] = u
        BY <4>4
      <4> HIDE DEF u
      <4>8. \A a \in 1..ls : u[a] = s[a]
        <5>1. \A a \in 1..ls : a \in 1..(ls + lt) /\ a <= ls
          BY <4>3
        <5>2. QED
          BY <4>6, <5>1
      <4>9. \A k \in 1..lt : u[ls + k] = t[k]
        <5>1. \A k \in 1..lt : ls + k \in 1..(ls + lt) /\ ~(ls + k <= ls) /\ (ls + k) - ls = k
          BY <4>3
        <5>2. QED
          BY <4>6, <5>1
      <4>10. G[i] = ls + lt
        BY <4>3, <4>6, <4>7
      <4>11. QED
        BY <4>7, <4>8, <4>9, <4>10, Zenon DEF s, t, ls, lt
    <3>3. G[1] = L[1]
      BY <2>2, <3>1
    <3>4. QED
      BY <3>1, <3>2, <3>3, Zenon DEF Laid
  <2>5. \A j \in 1..n : Inside(G, g, j)
    <3>1. n \in Nat /\ L \in [1..n -> Nat] /\ G \in [1..n -> Nat]
      BY <1>1, <2>2
    <3>2. QED
      BY <2>4, <3>1, LaidInside, Zenon
  <2>6. \A j \in 1..n : \A a \in 1..G[j] : \E i \in 1..j : \E k \in 1..L[i] : a = (G[i] - L[i]) + k
    BY <1>1, <2>2, <2>4, LaidCovered, Zenon
  <2>7. ASSUME NEW j \in 2..n PROVE j \in 1..n /\ j - 1 \in 1..n /\ at[j] = G[j - 1] /\ G[j] = at[j] + L[j]
    <3>1. j \in 1..n /\ j - 1 \in 1..n
      BY <1>1
    <3>2. G[j] = G[j - 1] + L[j] /\ at[j] = G[j] - L[j]
      BY <2>3, <2>4, <3>1 DEF Laid
    <3>3. G[j - 1] \in Nat /\ L[j] \in Nat
      BY <2>2, <3>1
    <3>4. QED
      BY <3>1, <3>2, <3>3
  <2>8. 1 \in 1..n /\ n \in 1..n /\ at[1] = 0 /\ G[1] = at[1] + L[1]
    <3>1. 1 \in 1..n /\ n \in 1..n
      BY <1>1, <1>3
    <3>2. G[1] = L[1] /\ at[1] = G[1] - L[1] /\ L[1] \in Nat
      BY <2>2, <2>3, <2>4, <3>1 DEF Laid
    <3>3. QED
      BY <3>1, <3>2
  <2>9. ASSUME NEW i \in 1..n
        PROVE  at[i] \in Nat /\ G[i] = at[i] + L[i] /\ \A k \in 1..L[i] : g[i][at[i] + k] = seqs[i][k]
    <3>1. CASE i = 1
      <4>1. \A k \in 1..L[1] : g[1][k] = seqs[1][k]
        BY <2>4 DEF Laid
      <4>2. \A k \in 1..L[1] : at[1] + k = k
        BY <2>2, <2>8
      <4>3. QED
        BY <2>8, <3>1, <4>1, <4>2
    <3>2. CASE i # 1
      <4>1. i \in 2..n
        BY <1>1, <3>2
      <4>2. at[i] = G[i - 1] /\ i - 1 \in 1..n /\ G[i] = at[i] + L[i]
        BY <2>7, <4>1
      <4>3. \A k \in 1..L[i] : g[i][G[i - 1] + k] = seqs[i][k]
        BY <2>4, <4>1 DEF Laid
      <4>4. QED
        BY <2>2, <4>2, <4>3
    <3>3. QED
      BY <3>1, <3>2
  <2>10. at \in [1..n -> Nat]
    BY <2>3, <2>9
  <2>11. ASSUME NEW i \in 1..n, NEW k \in 1..L[i]
         PROVE  at[i] + k \in 1..G[n] /\ g[n][at[i] + k] = seqs[i][k]
    <3>1. i \in 1..n /\ G[i] <= G[n] /\ \A a \in 1..G[i] : g[n][a] = g[i][a]
      BY <2>5, <2>8 DEF Inside
    <3>2. at[i] \in Nat /\ L[i] \in Nat /\ G[i] \in Nat /\ G[n] \in Nat /\ G[i] = at[i] + L[i]
      BY <2>2, <2>8, <2>9
    <3>3. at[i] + k \in 1..G[i] /\ at[i] + k \in 1..G[n]
      <4> DEFINE x == at[i]
                 y == L[i]
                 z == G[i]
                 w == G[n]
      <4>1. x \in Nat /\ y \in Nat /\ z \in Nat /\ w \in Nat /\ z = x + y /\ z <= w /\ k \in 1..y
        BY <3>1, <3>2
      <4> HIDE DEF x, y, z, w
      <4>2. x + k \in 1..z /\ x + k \in 1..w
        BY <4>1
      <4>3. QED
        BY <4>2 DEF x, z, w
    <3>4. g[i][at[i] + k] = seqs[i][k]
      BY <2>9
    <3>5. QED
      BY <3>1, <3>3, <3>4, Zenon
  <2>12. ASSUME NEW i \in 1..n, NEW j \in 1..n, i < j PROVE at[i] + L[i] <= at[j]
    <3>1. j \in 2..n /\ i \in 1..(j - 1)
      BY <1>1, <2>12
    <3>2. at[j] = G[j - 1] /\ j - 1 \in 1..n
      BY <2>7, <3>1
    <3>3. G[i] <= G[j - 1]
      BY <2>5, <3>1, <3>2 DEF Inside
    <3>4. QED
      BY <2>9, <3>2, <3>3
  <2>13. ASSUME NEW a \in 1..G[n] PROVE \E i \in 1..n : \E k \in 1..L[i] : a = at[i] + k
    <3>1. PICK i \in 1..n : \E k \in 1..L[i] : a = (G[i] - L[i]) + k
      BY <2>6, <2>8
    <3>2. QED
      BY <2>3, <3>1
  <2>14. Blocks(seqs, g[n], at)
    <3>1. G[n] = Len(g[n])
      BY <2>2, <2>8
    <3>2. \A i \in 1..n : \A k \in 1..Len(seqs[i]) : at[i] + k \in 1..Len(g[n]) /\ g[n][at[i] + k] = seqs[i][k]
      BY <2>2, <2>11, <3>1, Zenon
    <3>3. \A i, j \in 1..n : i < j => at[i] + Len(seqs[i]) <= at[j]
      BY <2>2, <2>12, Zenon
    <3>4. \A a \in 1..Len(g[n]) : \E i \in 1..n : \E k \in 1..Len(seqs[i]) : a = at[i] + k
      <4> SUFFICES ASSUME NEW a \in 1..Len(g[n]) PROVE \E i \in 1..n : \E k \in 1..Len(seqs[i]) : a = at[i] + k
        BY Zenon
      <4>1. PICK i \in 1..n : \E k \in 1..L[i] : a = at[i] + k
        BY <2>13, <3>1
      <4>2. QED
        BY <2>2, <4>1, Zenon
    <3>5. QED
      BY <3>2, <3>3, <3>4, Zenon DEF Blocks
  <2>15. g[n] \in Seq(S)
    BY <2>2, <2>8
  <2>16. QED
    BY <2>1, <2>10, <2>14, <2>15, Zenon
<1>4. QED
  BY <1>2, <1>3

------------------------------------------------------------------------------
(* The bindings of an application.                                         *)

Bindings ==
    [service : STRING, ip : {"all", "loopback"}, host : Nat, container : Nat,
     protocol : {"tcp", "udp"}]

\* How many host ports a declaration publishes.
Width(port) == EntryOf(port).hi - EntryOf(port).lo + 1

\* The host ports of a declaration are those of its compose entry, in order.
LEMMA PortBindingsAre ==
    ASSUME NEW port \in PortDeclarations, PortOK(port)
    PROVE  /\ EntryOf(port).lo \in 1..MaxPort /\ EntryOf(port).hi \in 1..MaxPort
           /\ EntryOf(port).lo <= EntryOf(port).hi
           /\ PortBindings(port) \in Seq(Bindings) /\ Len(PortBindings(port)) = Width(port)
           /\ \A k \in 1..Width(port) :
                /\ PortBindings(port)[k].host = EntryOf(port).lo + k - 1
                /\ PortBindings(port)[k].protocol = EntryOf(port).protocol
                /\ PortBindings(port)[k].ip = EntryOf(port).ip
<1> USE PortAssumption
<1>0. /\ port.service \in STRING /\ port.host \in Nat /\ port.container \in Nat /\ port.hostRange \in Seq(Nat)
      /\ port.containerRange \in Seq(Nat) /\ port.protocol \in {"tcp", "udp"} /\ HostIP(port) \in {"all", "loopback"}
  BY DEF PortDeclarations, HostIP
<1>1. CASE IsRange(port)
  <2> DEFINE lo == port.hostRange[1]
             hi == port.hostRange[2]
             clo == port.containerRange[1]
  <2>1. /\ lo \in 1..MaxPort /\ hi \in 1..MaxPort /\ lo <= hi /\ clo \in 1..MaxPort
        /\ EntryOf(port).lo = lo /\ EntryOf(port).hi = hi
        /\ EntryOf(port).protocol = port.protocol /\ EntryOf(port).ip = HostIP(port)
    <3>1. ParsePortRangeOK(port.hostRange) /\ ParsePortRangeOK(port.containerRange)
      BY <1>1 DEF PortOK, RangePortOK
    <3>2. lo \in Nat /\ hi \in Nat /\ clo \in Nat
      BY <1>0, <3>1, ElementOfSeq DEF ParsePortRangeOK
    <3>3. QED
      BY <1>1, <3>1, <3>2 DEF ParsePortRangeOK, InPortBounds, EntryOf
  <2>2. PortBindings(port) = [k \in 1..(hi - lo + 1) |-> BindingAt(port, lo + k - 1, clo + k - 1)]
    BY <1>1 DEF PortBindings, RangePortBindings
  <2>3. Width(port) = hi - lo + 1 /\ Width(port) \in Nat
    BY <2>1 DEF Width
  <2> DEFINE w == hi - lo + 1
  <2>4. w \in Nat /\ Width(port) = w
    BY <2>3
  <2> HIDE DEF lo, hi, clo, w
  <2>5. PortBindings(port) = [k \in 1..w |-> BindingAt(port, lo + k - 1, clo + k - 1)]
    BY <2>2 DEF w
  <2>6. \A k \in 1..w : BindingAt(port, lo + k - 1, clo + k - 1) \in Bindings
    <3> SUFFICES ASSUME NEW k \in 1..w PROVE BindingAt(port, lo + k - 1, clo + k - 1) \in Bindings
      OBVIOUS
    <3>1. lo + k - 1 \in Nat /\ clo + k - 1 \in Nat
      BY <2>1, <2>4
    <3>2. QED
      BY <1>0, <3>1 DEF BindingAt, Bindings
  <2>7. PortBindings(port) \in Seq(Bindings) /\ Len(PortBindings(port)) = w
    BY <2>4, <2>5, <2>6
  <2>8. \A k \in 1..w : /\ PortBindings(port)[k].host = lo + k - 1
                        /\ PortBindings(port)[k].protocol = port.protocol
                        /\ PortBindings(port)[k].ip = HostIP(port)
    BY <2>5 DEF BindingAt
  <2>9. QED
    BY <2>1, <2>4, <2>7, <2>8
<1>2. CASE ~IsRange(port)
  <2>1. /\ port.host \in 1..MaxPort
        /\ EntryOf(port).lo = port.host /\ EntryOf(port).hi = port.host
        /\ EntryOf(port).protocol = port.protocol /\ EntryOf(port).ip = HostIP(port)
    BY <1>0, <1>2 DEF PortOK, InPortBounds, EntryOf
  <2>2. Width(port) = 1
    BY <2>1 DEF Width
  <2> DEFINE b == BindingAt(port, port.host, port.container)
  <2>3. PortBindings(port) = <<b>>
    BY <1>2 DEF PortBindings
  <2>4. b \in Bindings /\ b.host = port.host /\ b.protocol = port.protocol /\ b.ip = HostIP(port)
    BY <1>0 DEF BindingAt, Bindings
  <2> HIDE DEF b
  <2>5. QED
    BY <2>1, <2>2, <2>3, <2>4
<1>3. QED
  BY <1>1, <1>2

\* `at' tells where the bindings of each declaration are among those of the
\* application.
Indexed(app, at) ==
    /\ BaseBindings(app) \in Seq(Bindings)
    /\ at \in [DOMAIN app.ports -> Nat]
    /\ \A i \in DOMAIN app.ports : \A k \in 1..Width(app.ports[i]) :
         /\ at[i] + k \in DOMAIN BaseBindings(app)
         /\ BaseBindings(app)[at[i] + k] = PortBindings(app.ports[i])[k]
    /\ \A i, j \in DOMAIN app.ports : i # j =>
         \A k \in 1..Width(app.ports[i]), l \in 1..Width(app.ports[j]) : at[i] + k # at[j] + l
    /\ \A a \in DOMAIN BaseBindings(app) :
         \E i \in DOMAIN app.ports : \E k \in 1..Width(app.ports[i]) : a = at[i] + k

LEMMA BaseIndexed ==
    ASSUME NEW app \in Applications, \A i \in DOMAIN app.ports : PortOK(app.ports[i])
    PROVE  \E at : Indexed(app, at)
<1> DEFINE n == Len(app.ports)
           seqs == [i \in 1..n |-> PortBindings(app.ports[i])]
           base == BaseBindings(app)
<1>1. /\ n \in Nat /\ DOMAIN app.ports = 1..n
      /\ \A i \in 1..n : app.ports[i] \in PortDeclarations /\ PortOK(app.ports[i])
  <2>1. app.ports \in Seq(PortDeclarations)
    BY DEF Applications
  <2>2. QED
    BY <2>1, LenProperties, ElementOfSeq
<1>2. \A i \in 1..n : PortBindings(app.ports[i]) \in Seq(Bindings) /\ Len(PortBindings(app.ports[i])) = Width(app.ports[i])
  BY <1>1, PortBindingsAre
<1>3. /\ seqs \in Seq(Seq(Bindings)) /\ Len(seqs) = n
      /\ \A i \in 1..n : seqs[i] = PortBindings(app.ports[i])
  BY <1>1, <1>2
<1>4. base = FlattenSeq(seqs)
  BY Zenon DEF BaseBindings
<1> HIDE DEF n, seqs, base
<1>5. base \in Seq(Bindings) /\ \E at \in [1..n -> Nat] : Blocks(seqs, base, at)
  BY <1>3, <1>4, Flattened
<1>6. PICK at \in [1..n -> Nat] : Blocks(seqs, base, at)
  BY <1>5
<1>7. \A i \in 1..n : Len(seqs[i]) = Width(app.ports[i]) /\ Width(app.ports[i]) \in Nat
  <2>1. \A i \in 1..n : Len(PortBindings(app.ports[i])) \in Nat
    BY <1>2, LenProperties
  <2>2. QED
    BY <1>2, <1>3, <2>1
<1>8. DOMAIN base = 1..Len(base)
  BY <1>5, LenProperties
<1>9. \A i \in 1..n : \A k \in 1..Width(app.ports[i]) :
         at[i] + k \in DOMAIN base /\ base[at[i] + k] = PortBindings(app.ports[i])[k]
  <2> SUFFICES ASSUME NEW i \in 1..n, NEW k \in 1..Width(app.ports[i])
               PROVE  at[i] + k \in DOMAIN base /\ base[at[i] + k] = PortBindings(app.ports[i])[k]
    OBVIOUS
  <2>1. at[i] + k \in 1..Len(base) /\ base[at[i] + k] = seqs[i][k]
    BY <1>3, <1>6, <1>7, Zenon DEF Blocks
  <2>2. QED
    BY <1>3, <1>8, <2>1
<1>10. ASSUME NEW i \in 1..n, NEW j \in 1..n, i < j,
              NEW k \in 1..Width(app.ports[i]), NEW l \in 1..Width(app.ports[j])
       PROVE  at[i] + k < at[j] + l
  <2> DEFINE x == at[i]
             y == at[j]
             w == Width(app.ports[i])
             v == Width(app.ports[j])
  <2>1. x \in Nat /\ y \in Nat /\ w \in Nat /\ v \in Nat /\ k \in 1..w /\ l \in 1..v
    BY <1>6, <1>7
  <2>2. at[i] + Len(seqs[i]) <= at[j]
    BY <1>3, <1>6, <1>10, Zenon DEF Blocks
  <2>3. x + w <= y
    BY <1>7, <2>2
  <2> HIDE DEF x, y, w, v
  <2>4. x + k < y + l
    BY <2>1, <2>3
  <2>5. QED
    BY <2>4 DEF x, y
<1>11. ASSUME NEW i \in 1..n, NEW j \in 1..n, i # j,
              NEW k \in 1..Width(app.ports[i]), NEW l \in 1..Width(app.ports[j])
       PROVE  at[i] + k # at[j] + l
  <2>1. i < j \/ j < i
    BY <1>1, <1>11
  <2>2. at[i] + k \in Int /\ at[j] + l \in Int
    BY <1>6, <1>7
  <2>3. at[i] + k < at[j] + l \/ at[j] + l < at[i] + k
    BY <1>10, <2>1
  <2>4. QED
    BY <2>2, <2>3
<1>12. ASSUME NEW a \in DOMAIN base PROVE \E i \in 1..n : \E k \in 1..Width(app.ports[i]) : a = at[i] + k
  <2>1. PICK i \in 1..n : \E k \in 1..Len(seqs[i]) : a = at[i] + k
    BY <1>3, <1>6, <1>8, Zenon DEF Blocks
  <2>2. QED
    BY <1>7, <2>1
<1>13. Indexed(app, at)
  <2>1. BaseBindings(app) \in Seq(Bindings) /\ at \in [DOMAIN app.ports -> Nat]
    BY <1>1, <1>5 DEF base
  <2>2. \A i \in DOMAIN app.ports : \A k \in 1..Width(app.ports[i]) :
          /\ at[i] + k \in DOMAIN BaseBindings(app)
          /\ BaseBindings(app)[at[i] + k] = PortBindings(app.ports[i])[k]
    BY <1>1, <1>9, Zenon DEF base
  <2>3. \A i, j \in DOMAIN app.ports : i # j =>
          \A k \in 1..Width(app.ports[i]), l \in 1..Width(app.ports[j]) : at[i] + k # at[j] + l
    BY <1>1, <1>11
  <2>4. \A a \in DOMAIN BaseBindings(app) :
          \E i \in DOMAIN app.ports : \E k \in 1..Width(app.ports[i]) : a = at[i] + k
    BY <1>1, <1>12, Zenon DEF base
  <2>5. QED
    BY <2>1, <2>2, <2>3, <2>4, Zenon DEF Indexed
<1>14. QED
  BY <1>13

------------------------------------------------------------------------------
(* The inductive invariant.                                                *)

\* Override maps as the command line gives them, and as --auto-port extends
\* them.
PortMap(ov) == DOMAIN ov \subseteq Nat /\ ov \in [DOMAIN ov -> Nat]

\* The request and the plan are records of their fields, whatever the step.
Shaped ==
    /\ plan = [overrides |-> plan.overrides, bound |-> plan.bound, attempt |-> plan.attempt,
               entries |-> plan.entries, guidance |-> plan.guidance]
    /\ req = [drift |-> req.drift, overrides |-> req.overrides, auto |-> req.auto]
    /\ PortMap(plan.overrides) /\ PortMap(req.overrides)

\* What each step of an install leaves established for the next ones: the
\* catalog was usable, the bound ports are the overridden ones, the compose
\* file is the rewritten template and has passed its verification.
Established ==
    /\ pc # "idle" => CatalogPortBindingsOK(App) /\ req.drift \in 0 .. Len(App.ports)
    /\ pc \in {"planned", "rendered", "deploy"} =>
         /\ ApplyPortOverridesOK(App, BaseBindings(App), plan.overrides)
         /\ plan.bound = Planned
    /\ pc \in {"rendered", "deploy"} =>
         /\ plan.entries = RewriteComposeHostPorts(Template(App, req.drift), plan.overrides)
         /\ VerifyPublicBinds(App, plan.entries)
         /\ plan.guidance = GuidancePort(App, plan.bound, plan.overrides)

Inv == TypeOK /\ Shaped /\ Established /\ PublicExactlyAsDeclared

LEMMA AppTyped ==
    ASSUME NEW v \in DOMAIN Apps
    PROVE  Apps[v] \in Applications /\ v \in 1..Len(Apps) /\ Len(Apps) \in Nat
BY StackAssumption, LenProperties, ElementOfSeq

LEMMA AutoPortIsNat ==
    ASSUME NEW taken0, NEW b, b.host \in Nat, NEW planned
    PROVE  SuggestFreePort(b, planned, taken0) \in Nat
<1> DEFINE start == IF b.host + 1 <= Privileged THEN Privileged + 1 ELSE b.host + 1
           last  == Min({start + PortSuggestScanWindow - 1, MaxPort})
           free  == {p \in start .. last :
                       /\ \A i \in DOMAIN planned : planned[i].host # p
                       /\ [protocol |-> b.protocol, port |-> p] \notin taken0}
<1>1. start \in Nat
  BY PortAssumption
<1> HIDE DEF start, last
<1>2. free \subseteq Nat
  BY <1>1
<1>3. free # {} => Min(free) \in Nat
  <2> HIDE DEF free
  <2>1. QED
    BY <1>2, MinProperties
<1>4. SuggestFreePort(b, planned, taken0) = IF free = {} THEN 0 ELSE Min(free)
  BY Zenon DEF SuggestFreePort, free, start, last
<1>5. QED
  BY <1>3, <1>4

LEMMA OverriddenAre ==
    ASSUME NEW base \in Seq(Bindings), NEW ov, PortMap(ov)
    PROVE  /\ Overridden(base, ov) \in [DOMAIN base -> Bindings]
           /\ \A i \in DOMAIN base :
                /\ Overridden(base, ov)[i].ip = base[i].ip
                /\ Overridden(base, ov)[i].protocol = base[i].protocol
                /\ Overridden(base, ov)[i].host =
                     IF base[i].host \in DOMAIN ov /\ FirstOn(base, base[i].host) = i
                     THEN ov[base[i].host] ELSE base[i].host
<1>1. \A i \in DOMAIN base : base[i] \in Bindings /\ base[i].host \in Nat
  <2>1. \A i \in DOMAIN base : base[i] \in Bindings
    BY ElementOfSeq, LenProperties
  <2>2. \A b \in Bindings : b.host \in Nat
    BY DEF Bindings
  <2>3. QED
    BY <2>1, <2>2
<1>2. \A i \in DOMAIN base :
         Overridden(base, ov)[i] =
           IF base[i].host \in DOMAIN ov /\ FirstOn(base, base[i].host) = i
           THEN [base[i] EXCEPT !.host = ov[base[i].host]] ELSE base[i]
  BY DEF Overridden
<1>3. ASSUME NEW i \in DOMAIN base
      PROVE  /\ Overridden(base, ov)[i] \in Bindings
             /\ Overridden(base, ov)[i].ip = base[i].ip
             /\ Overridden(base, ov)[i].protocol = base[i].protocol
             /\ Overridden(base, ov)[i].host =
                  IF base[i].host \in DOMAIN ov /\ FirstOn(base, base[i].host) = i
                  THEN ov[base[i].host] ELSE base[i].host
  <2>1. CASE base[i].host \in DOMAIN ov /\ FirstOn(base, base[i].host) = i
    <3>1. ov[base[i].host] \in Nat
      BY <2>1 DEF PortMap
    <3>2. Overridden(base, ov)[i] = [base[i] EXCEPT !.host = ov[base[i].host]]
      BY <1>2, <2>1
    <3>3. QED
      BY <1>1, <2>1, <3>1, <3>2 DEF Bindings
  <2>2. CASE ~(base[i].host \in DOMAIN ov /\ FirstOn(base, base[i].host) = i)
    BY <1>1, <1>2, <2>2
  <2>3. QED
    BY <2>1, <2>2
<1>4. DOMAIN Overridden(base, ov) = DOMAIN base /\ Overridden(base, ov) = [i \in DOMAIN base |-> Overridden(base, ov)[i]]
  BY DEF Overridden
<1>5. QED
  BY <1>3, <1>4

\* The conflict --auto-port answers is a binding, and what it answers a port.
LEMMA ConflictAt ==
    ASSUME TypeOK, Shaped, CatalogPortBindingsOK(App), Conflicts # {}
    PROVE  /\ BaseBindings(App) \in Seq(Bindings) /\ DOMAIN Planned = DOMAIN BaseBindings(App)
           /\ Min(Conflicts) \in Conflicts /\ Min(Conflicts) \in DOMAIN BaseBindings(App)
           /\ BaseBindings(App)[Min(Conflicts)] \in Bindings
           /\ AutoPort(Min(Conflicts)) \in Nat
<1> DEFINE base == BaseBindings(App)
           c == Min(Conflicts)
<1>1. App \in Applications
  BY AppTyped DEF TypeOK, App
<1>2. base \in Seq(Bindings)
  <2>1. PICK at : Indexed(App, at)
    BY <1>1, BaseIndexed DEF CatalogPortBindingsOK
  <2>2. QED
    BY <2>1 DEF Indexed
<1> HIDE DEF base
<1>3. Planned \in [DOMAIN base -> Bindings]
  BY <1>2, OverriddenAre DEF Planned, Shaped, base
<1>4. DOMAIN base = 1..Len(base) /\ Len(base) \in Nat
  BY <1>2, LenProperties
<1>5. Conflicts \subseteq Nat /\ Conflicts \subseteq DOMAIN base
  BY <1>3, <1>4 DEF Conflicts
<1>6. c \in Conflicts /\ c \in DOMAIN base
  BY <1>5, MinProperties
<1> HIDE DEF c
<1>7. base[c] \in Bindings
  BY <1>2, <1>4, <1>6, ElementOfSeq
<1>8. Planned[c].host \in Nat
  BY <1>3, <1>6 DEF Bindings
<1>9. AutoPort(c) \in Nat
  BY <1>8, AutoPortIsNat DEF AutoPort
<1>10. QED
  BY <1>2, <1>3, <1>6, <1>7, <1>9 DEF base, c

LEMMA InvInit == Init => Inv
<1> SUFFICES ASSUME Init PROVE Inv
  OBVIOUS
<1>1. catalog \in DOMAIN Apps /\ Len(Apps) \in Nat
  <2>1. DOMAIN Apps = 1..Len(Apps) /\ Len(Apps) \in Nat
    BY LenProperties, StackAssumption
  <2>2. QED
    BY <2>1, StackAssumption DEF Init
<1>2. TypeOK
  BY <1>1, StackAssumption DEF Init, TypeOK, NoPlan, NoStack
<1>3. Shaped
  BY DEF Init, Shaped, NoPlan, NoReq, PortMap
<1>4. Established
  BY DEF Init, Established
<1>5. PublicExactlyAsDeclared
  BY DEF Init, PublicExactlyAsDeclared
<1>6. QED
  BY <1>2, <1>3, <1>4, <1>5 DEF Inv

\* The operations that end an install forget its request and its plan.
LEMMA EndedPlan ==
    ASSUME EndInstall
    PROVE  /\ Shaped' /\ Established' /\ plan'.attempt = 0 /\ pc' = "idle"
<1>1. plan' = NoPlan /\ req' = NoReq /\ pc' = "idle"
  BY DEF EndInstall
<1>2. Shaped'
  BY <1>1 DEF Shaped, NoPlan, NoReq, PortMap
<1>3. Established'
  BY <1>1 DEF Established
<1>4. QED
  BY <1>1, <1>2, <1>3 DEF NoPlan

\* Steps that leave the install and its catalog version alone.
LEMMA PlanKept ==
    ASSUME Shaped, Established, UNCHANGED <<pc, req, plan>>, UNCHANGED catalog \/ pc = "idle"
    PROVE  Shaped' /\ Established'
<1>0. pc' = pc /\ req' = req /\ plan' = plan
  OBVIOUS
<1>1. Shaped'
  BY <1>0 DEF Shaped
<1>2. CASE pc = "idle"
  <2>1. Established'
    BY <1>0, <1>2, Zenon DEF Established
  <2>2. QED
    BY <1>1, <2>1
<1>3. CASE UNCHANGED catalog
  <2>1. App' = App /\ Planned' = Planned
    BY <1>0, <1>3 DEF App, Planned
  <2>2. Established'
    BY <1>0, <2>1, Zenon DEF Established
  <2>3. QED
    BY <1>1, <2>2
<1>4. QED
  BY <1>2, <1>3

LEMMA InvStep ==
    ASSUME Inv, Next
    PROVE  Inv'
<1> USE DEF Inv
<1>1. catalog \in 1..Len(Apps) /\ Len(Apps) \in Nat /\ DOMAIN Apps = 1..Len(Apps) /\ MaxMoves \in Nat
      /\ AutoPortMaxAttempts \in Nat
  BY StackAssumption, LenProperties DEF TypeOK
<1>2. CASE TakePort
  <2>1. TypeOK'
    BY <1>1, <1>2 DEF TakePort, TypeOK
  <2>2. Shaped' /\ Established'
    BY <1>2, PlanKept DEF TakePort
  <2>3. PublicExactlyAsDeclared'
    BY <1>2 DEF TakePort, PublicExactlyAsDeclared
  <2>4. QED
    BY <2>1, <2>2, <2>3
<1>3. CASE FreePort
  <2>1. TypeOK'
    BY <1>1, <1>3 DEF FreePort, TypeOK
  <2>2. Shaped' /\ Established'
    BY <1>3, PlanKept DEF FreePort
  <2>3. PublicExactlyAsDeclared'
    BY <1>3 DEF FreePort, PublicExactlyAsDeclared
  <2>4. QED
    BY <2>1, <2>2, <2>3
<1>4. CASE AdvanceCatalog
  <2>1. TypeOK'
    BY <1>1, <1>4 DEF AdvanceCatalog, TypeOK
  <2>2. Shaped' /\ Established'
    BY <1>4, PlanKept DEF AdvanceCatalog
  <2>3. PublicExactlyAsDeclared'
    BY <1>4 DEF AdvanceCatalog, PublicExactlyAsDeclared
  <2>4. QED
    BY <2>1, <2>2, <2>3
<1>5. CASE BeginInstall
  <2>1. PICK d \in 0 .. Len(App.ports), ov \in Overrides, a \in BOOLEAN :
          /\ req' = [drift |-> d, overrides |-> ov, auto |-> a]
          /\ plan' = [NoPlan EXCEPT !.overrides = ov]
    BY <1>5 DEF BeginInstall
  <2>2. plan' = [overrides |-> ov, bound |-> <<>>, attempt |-> 0, entries |-> {}, guidance |-> 0]
    BY <2>1 DEF NoPlan
  <2>3. TypeOK'
    BY <1>1, <1>5, <2>2 DEF BeginInstall, TypeOK
  <2>4. Shaped'
    BY <2>1, <2>2, StackAssumption DEF Shaped, PortMap
  <2>5. Established'
    <3>1. App' = App /\ pc' = "planning" /\ CatalogPortBindingsOK(App)
      BY <1>5 DEF BeginInstall, App
    <3>2. QED
      BY <2>1, <3>1 DEF Established
  <2>6. PublicExactlyAsDeclared'
    BY <1>5 DEF BeginInstall, PublicExactlyAsDeclared
  <2>7. QED
    BY <2>3, <2>4, <2>5, <2>6
<1>6. CASE PlanRefused
  <2>1. Shaped' /\ Established' /\ plan'.attempt = 0 /\ pc' = "idle"
    BY <1>6, EndedPlan DEF PlanRefused
  <2>2. TypeOK'
    BY <1>1, <1>6, <2>1 DEF PlanRefused, TypeOK
  <2>3. PublicExactlyAsDeclared'
    BY <1>6 DEF PlanRefused, PublicExactlyAsDeclared
  <2>4. QED
    BY <2>1, <2>2, <2>3
<1>7. CASE PlanBound
  <2> DEFINE b == Planned
  <2>0. plan' = [plan EXCEPT !.bound = b]
    BY <1>7 DEF PlanBound
  <2> HIDE DEF b
  <2>1. plan' = [overrides |-> plan.overrides, bound |-> b, attempt |-> plan.attempt,
                 entries |-> plan.entries, guidance |-> plan.guidance]
    BY <2>0 DEF Shaped
  <2>2. TypeOK'
    BY <1>1, <1>7, <2>1 DEF PlanBound, TypeOK
  <2>3. Shaped'
    BY <1>7, <2>1 DEF PlanBound, Shaped
  <2>4. Established'
    <3>1. App' = App /\ Planned' = Planned /\ pc' = "planned" /\ pc = "planning" /\ req' = req
      BY <1>7, <2>1 DEF PlanBound, App, Planned
    <3>2. ApplyPortOverridesOK(App, BaseBindings(App), plan.overrides)
      BY <1>7 DEF PlanBound
    <3>3. plan'.overrides = plan.overrides /\ plan'.bound = Planned
      BY <2>1 DEF b
    <3>4. QED
      BY <3>1, <3>2, <3>3 DEF Established
  <2>5. PublicExactlyAsDeclared'
    BY <1>7 DEF PlanBound, PublicExactlyAsDeclared
  <2>6. QED
    BY <2>2, <2>3, <2>4, <2>5
<1>8. CASE PlanConflict
  <2> DEFINE c == Min(Conflicts)
             p == BaseBindings(App)[c].host
             q == AutoPort(c)
  <2>0. pc = "planning" /\ Conflicts # {} /\ CatalogPortBindingsOK(App)
    BY <1>8 DEF PlanConflict, Established
  <2>1. p \in Nat /\ q \in Nat
    BY <2>0, ConflictAt DEF Bindings
  <2>2. CASE q = 0
    <3>1. EndInstall
      BY <1>8, <2>2 DEF PlanConflict
    <3>2. Shaped' /\ Established' /\ plan'.attempt = 0 /\ pc' = "idle"
      BY <3>1, EndedPlan
    <3>3. TypeOK'
      BY <1>1, <1>8, <3>2 DEF PlanConflict, TypeOK
    <3>4. PublicExactlyAsDeclared'
      BY <1>8 DEF PlanConflict, PublicExactlyAsDeclared
    <3>5. QED
      BY <3>2, <3>3, <3>4
  <2>3. CASE q # 0
    <3>1. plan.attempt < AutoPortMaxAttempts
      BY <2>3 DEF AutoPort
    <3>2. /\ plan' = [plan EXCEPT
               !.overrides = [x \in DOMAIN @ \cup {p} |-> IF x = p THEN q ELSE @[x]],
               !.attempt = @ + 1]
          /\ UNCHANGED <<pc, req>>
      BY <1>8, <2>3 DEF PlanConflict
    <3> HIDE DEF p, q
    <3> DEFINE ov == [x \in DOMAIN plan.overrides \cup {p} |-> IF x = p THEN q ELSE plan.overrides[x]]
    <3>3. plan' = [overrides |-> ov, bound |-> plan.bound, attempt |-> plan.attempt + 1,
                   entries |-> plan.entries, guidance |-> plan.guidance]
      BY <3>2 DEF Shaped
    <3>4. PortMap(ov)
      BY <2>1 DEF Shaped, PortMap
    <3> HIDE DEF ov
    <3>5. TypeOK'
      BY <1>1, <1>8, <3>1, <3>2, <3>3 DEF PlanConflict, TypeOK
    <3>6. Shaped'
      <4>1. plan' = [overrides |-> plan'.overrides, bound |-> plan'.bound, attempt |-> plan'.attempt,
                     entries |-> plan'.entries, guidance |-> plan'.guidance]
        BY <3>3
      <4>2. PortMap(plan'.overrides)
        BY <3>3, <3>4
      <4>3. QED
        BY <3>2, <4>1, <4>2 DEF Shaped, PortMap
    <3>7. Established'
      <4>1. App' = App /\ pc' = "planning" /\ req' = req
        BY <1>8, <2>0, <3>2 DEF PlanConflict, App
      <4>2. QED
        BY <2>0, <4>1 DEF Established
    <3>8. PublicExactlyAsDeclared'
      BY <1>8 DEF PlanConflict, PublicExactlyAsDeclared
    <3>9. QED
      BY <3>5, <3>6, <3>7, <3>8
  <2>4. QED
    BY <2>2, <2>3
<1>9. CASE RenderInstall
  <2> DEFINE tpl == Template(App, req.drift)
             new == RewriteComposeHostPorts(tpl, plan.overrides)
             gp == GuidancePort(App, plan.bound, plan.overrides)
  <2>0. PublicExactlyAsDeclared'
    BY <1>9 DEF RenderInstall, PublicExactlyAsDeclared
  <2>1. CASE MatchedOverrides(tpl, plan.overrides) /\ VerifyPublicBinds(App, new)
    <3>1. /\ plan' = [plan EXCEPT !.entries = new, !.guidance = gp]
          /\ pc = "planned" /\ pc' = "rendered" /\ UNCHANGED <<req, catalog, taken, moves, disk, running>>
      BY <1>9, <2>1 DEF RenderInstall
    <3>2. VerifyPublicBinds(App, new)
      BY <2>1
    <3> HIDE DEF new, gp
    <3>3. plan' = [overrides |-> plan.overrides, bound |-> plan.bound, attempt |-> plan.attempt,
                   entries |-> new, guidance |-> gp]
      BY <3>1 DEF Shaped
    <3>4. TypeOK'
      BY <1>1, <3>1, <3>3 DEF TypeOK
    <3>5. Shaped'
      BY <3>1, <3>3 DEF Shaped
    <3>6. Established'
      <4>1. App' = App /\ Planned' = Planned
        BY <3>1, <3>3 DEF App, Planned
      <4>2. plan'.overrides = plan.overrides /\ plan'.bound = plan.bound /\ plan'.entries = new /\ plan'.guidance = gp
        BY <3>3
      <4>3. QED
        BY <3>1, <3>2, <4>1, <4>2 DEF Established, new, gp
    <3>7. QED
      BY <2>0, <3>4, <3>5, <3>6
  <2>2. CASE ~(MatchedOverrides(tpl, plan.overrides) /\ VerifyPublicBinds(App, new))
    <3>1. EndInstall /\ UNCHANGED <<catalog, taken, moves, disk, running>>
      BY <1>9, <2>2 DEF RenderInstall
    <3>2. Shaped' /\ Established' /\ plan'.attempt = 0 /\ pc' = "idle"
      BY <3>1, EndedPlan
    <3>3. TypeOK'
      BY <1>1, <3>1, <3>2 DEF TypeOK
    <3>4. QED
      BY <2>0, <3>2, <3>3
  <2>3. QED
    BY <2>1, <2>2
<1>10. CASE RecheckPorts
  <2>0. PublicExactlyAsDeclared' /\ UNCHANGED <<catalog, taken, moves, disk, running>> /\ pc = "rendered"
    BY <1>10 DEF RecheckPorts, PublicExactlyAsDeclared
  <2>1. CASE EndInstall
    <3>1. Shaped' /\ Established' /\ plan'.attempt = 0 /\ pc' = "idle"
      BY <2>1, EndedPlan
    <3>2. TypeOK'
      BY <1>1, <2>0, <3>1 DEF TypeOK
    <3>3. QED
      BY <2>0, <3>1, <3>2
  <2>2. CASE pc' = "deploy" /\ UNCHANGED <<req, plan>>
    <3>1. TypeOK' /\ Shaped'
      BY <1>1, <2>0, <2>2 DEF TypeOK, Shaped
    <3>2. Established'
      <4>1. App' = App /\ Planned' = Planned
        BY <2>0, <2>2 DEF App, Planned
      <4>2. QED
        BY <2>0, <2>2, <4>1 DEF Established
    <3>3. QED
      BY <2>0, <3>1, <3>2
  <2>3. QED
    BY <1>10, <2>1, <2>2 DEF RecheckPorts
<1>11. CASE InstallUp
  <2>1. Shaped' /\ Established' /\ plan'.attempt = 0 /\ pc' = "idle"
    BY <1>11, EndedPlan DEF InstallUp
  <2>2. RenderedPublicBinds(plan.entries) = DeclaredPublicBinds(Apps[catalog])
    BY <1>11 DEF InstallUp, Established, VerifyPublicBinds, App
  <2>3. CASE UNCHANGED <<disk, running>>
    <3>1. TypeOK'
      BY <1>1, <1>11, <2>1, <2>3 DEF InstallUp, TypeOK
    <3>2. PublicExactlyAsDeclared'
      BY <2>3 DEF PublicExactlyAsDeclared
    <3>3. QED
      BY <2>1, <3>1, <3>2
  <2>4. CASE disk' = [entries |-> plan.entries, version |-> catalog] /\ running' = disk'
    <3>1. TypeOK'
      BY <1>1, <1>11, <2>1, <2>4 DEF InstallUp, TypeOK
    <3>2. PublicExactlyAsDeclared'
      BY <2>2, <2>4 DEF PublicExactlyAsDeclared
    <3>3. QED
      BY <2>1, <3>1, <3>2
  <2>5. QED
    BY <1>11, <2>3, <2>4 DEF InstallUp
<1>12. CASE UpdateStack
  <2>1. PICK d \in 0 .. Len(App.ports) : \E ov \in PreserveOverrides(Template(App, d), disk.entries) :
          LET new == RewriteComposeHostPorts(Template(App, d), ov)
          IN /\ VerifyPublicBinds(App, new)
             /\ disk' = [entries |-> new, version |-> catalog] /\ running' = disk'
    BY <1>12 DEF UpdateStack
  <2>a. PICK ov \in PreserveOverrides(Template(App, d), disk.entries) :
          LET new == RewriteComposeHostPorts(Template(App, d), ov)
          IN /\ VerifyPublicBinds(App, new)
             /\ disk' = [entries |-> new, version |-> catalog] /\ running' = disk'
    BY <2>1
  <2> DEFINE new == RewriteComposeHostPorts(Template(App, d), ov)
  <2>2. VerifyPublicBinds(App, new) /\ disk' = [entries |-> new, version |-> catalog] /\ running' = disk'
    BY <2>a
  <2> HIDE DEF new
  <2>3. TypeOK'
    BY <1>1, <1>12, <2>2 DEF UpdateStack, TypeOK
  <2>4. Shaped' /\ Established'
    BY <1>12, PlanKept DEF UpdateStack
  <2>5. PublicExactlyAsDeclared'
    BY <1>12, <2>2 DEF UpdateStack, PublicExactlyAsDeclared, VerifyPublicBinds, App
  <2>6. QED
    BY <2>3, <2>4, <2>5
<1>13. CASE RewireStack
  <2>1. PICK d \in 0 .. Len(App.ports) : RewireRenderOK(Template(App, d)) /\ ApplyRewire(Template(App, d))
    BY <1>13 DEF RewireStack
  <2> DEFINE new == Template(App, d)
  <2>2. VerifyPublicBinds(App, new) /\ disk' = [entries |-> new, version |-> catalog] /\ running' = running
    BY <2>1 DEF RewireRenderOK, ApplyRewire
  <2> HIDE DEF new
  <2>3. TypeOK'
    BY <1>1, <1>13, <2>2 DEF RewireStack, TypeOK
  <2>4. Shaped' /\ Established'
    BY <1>13, PlanKept DEF RewireStack
  <2>5. PublicExactlyAsDeclared'
    BY <1>13, <2>2 DEF RewireStack, PublicExactlyAsDeclared, VerifyPublicBinds, App
  <2>6. QED
    BY <2>3, <2>4, <2>5
<1>14. CASE Redeploy
  <2>1. TypeOK'
    BY <1>1, <1>14 DEF Redeploy, TypeOK
  <2>2. Shaped' /\ Established'
    BY <1>14, PlanKept DEF Redeploy
  <2>3. PublicExactlyAsDeclared'
    BY <1>14 DEF Redeploy, PublicExactlyAsDeclared
  <2>4. QED
    BY <2>1, <2>2, <2>3
<1>15. QED
  BY <1>2, <1>3, <1>4, <1>5, <1>6, <1>7, <1>8, <1>9, <1>10, <1>11, <1>12, <1>13, <1>14 DEF Next

LEMMA InvStutter ==
    ASSUME Inv, UNCHANGED vars
    PROVE  Inv'
<1>1. App' = App /\ Planned' = Planned
  BY DEF vars, App, Planned
<1>2. QED
  BY <1>1 DEF Inv, vars, TypeOK, Shaped, Established, PublicExactlyAsDeclared

LEMMA InvHolds == Spec => []Inv
<1>1. Inv /\ [Next]_vars => Inv'
  BY InvStep, InvStutter
<1>2. QED
  BY InvInit, <1>1, PTL DEF Spec

\* Every variable holds a value of its type in every reachable state, whatever
\* the catalog, the requests and the other processes; an install never plans
\* more often than autoPortMaxAttempts allows (planPorts).
THEOREM TypeCorrect == Spec => []TypeOK
<1>1. Inv => TypeOK
  BY DEF Inv
<1>2. QED
  BY InvHolds, <1>1, PTL

\* Whatever was overridden, preserved or rewired, the compose file on disk and
\* the one in use bind exactly the public ports their catalog version declares
\* (verifyPublicBindsMatchCatalog).
THEOREM PublicAsDeclared == Spec => []PublicExactlyAsDeclared
<1>1. Inv => PublicExactlyAsDeclared
  BY DEF Inv
<1>2. QED
  BY InvHolds, <1>1, PTL

------------------------------------------------------------------------------
(* What is planned is what compose publishes.                              *)

WellFormed(app) == \A i \in DOMAIN app.ports : PortOK(app.ports[i])

LEMMA BindingIs ==
    ASSUME NEW app \in Applications, WellFormed(app), NEW at, Indexed(app, at),
           NEW i \in DOMAIN app.ports, NEW k \in 1..Width(app.ports[i])
    PROVE  /\ at[i] + k \in DOMAIN BaseBindings(app)
           /\ BaseBindings(app)[at[i] + k].host = EntryOf(app.ports[i]).lo + k - 1
           /\ BaseBindings(app)[at[i] + k].protocol = EntryOf(app.ports[i]).protocol
           /\ BaseBindings(app)[at[i] + k].ip = EntryOf(app.ports[i]).ip
<1>1. app.ports[i] \in PortDeclarations /\ PortOK(app.ports[i])
  <2>1. app.ports \in Seq(PortDeclarations)
    BY DEF Applications
  <2>2. QED
    BY <2>1, ElementOfSeq, LenProperties DEF WellFormed
<1>2. at[i] + k \in DOMAIN BaseBindings(app) /\ BaseBindings(app)[at[i] + k] = PortBindings(app.ports[i])[k]
  BY DEF Indexed
<1>3. QED
  BY <1>1, <1>2, PortBindingsAre

\* An entry of the template is a declaration: its bounds, and one of its
\* bindings at least.
LEMMA EntryIs ==
    ASSUME NEW app \in Applications, WellFormed(app), NEW i \in DOMAIN app.ports
    PROVE  /\ app.ports[i] \in PortDeclarations /\ PortOK(app.ports[i])
           /\ EntryOf(app.ports[i]).lo \in 1..MaxPort /\ EntryOf(app.ports[i]).hi \in 1..MaxPort
           /\ EntryOf(app.ports[i]).lo <= EntryOf(app.ports[i]).hi
           /\ Width(app.ports[i]) \in Nat /\ 1 \in 1..Width(app.ports[i])
           /\ EntryOf(app.ports[i]).ip = (IF app.ports[i].public THEN "all" ELSE "loopback")
           /\ app.ports[i].public \in BOOLEAN
<1>1. app.ports[i] \in PortDeclarations /\ PortOK(app.ports[i])
  <2>1. app.ports \in Seq(PortDeclarations)
    BY DEF Applications
  <2>2. QED
    BY <2>1, ElementOfSeq, LenProperties DEF WellFormed
<1>2. /\ EntryOf(app.ports[i]).lo \in 1..MaxPort /\ EntryOf(app.ports[i]).hi \in 1..MaxPort
      /\ EntryOf(app.ports[i]).lo <= EntryOf(app.ports[i]).hi
  BY <1>1, PortBindingsAre
<1>3. Width(app.ports[i]) \in Nat /\ 1 \in 1..Width(app.ports[i])
  BY <1>2, PortAssumption DEF Width
<1>4. EntryOf(app.ports[i]).ip = (IF app.ports[i].public THEN "all" ELSE "loopback")
  BY DEF EntryOf, HostIP
<1>5. app.ports[i].public \in BOOLEAN
  BY <1>1 DEF PortDeclarations
<1>6. QED
  BY <1>1, <1>2, <1>3, <1>4, <1>5

\* Two declarations on one port of one protocol are refused.
LEMMA NoTwins ==
    ASSUME NEW app \in Applications, CatalogPortBindingsOK(app),
           NEW i \in DOMAIN app.ports, NEW j \in DOMAIN app.ports,
           EntryOf(app.ports[i]).protocol = EntryOf(app.ports[j]).protocol,
           EntryOf(app.ports[i]).lo = EntryOf(app.ports[j]).lo
    PROVE  i = j
<1> DEFINE base == BaseBindings(app)
<1>1. SUFFICES ASSUME i # j PROVE FALSE
  OBVIOUS
<1>2. WellFormed(app) /\ ~HasDuplicate(base)
  BY DEF CatalogPortBindingsOK, WellFormed
<1>3. PICK at : Indexed(app, at)
  BY <1>2, BaseIndexed DEF WellFormed
<1>4. 1 \in 1..Width(app.ports[i]) /\ 1 \in 1..Width(app.ports[j])
  BY <1>2, EntryIs
<1>5. /\ at[i] + 1 \in DOMAIN base /\ base[at[i] + 1].host = EntryOf(app.ports[i]).lo + 1 - 1
      /\ base[at[i] + 1].protocol = EntryOf(app.ports[i]).protocol
  BY <1>2, <1>3, <1>4, BindingIs
<1>6. /\ at[j] + 1 \in DOMAIN base /\ base[at[j] + 1].host = EntryOf(app.ports[j]).lo + 1 - 1
      /\ base[at[j] + 1].protocol = EntryOf(app.ports[j]).protocol
  BY <1>2, <1>3, <1>4, BindingIs
<1>7. at[i] + 1 # at[j] + 1
  BY <1>1, <1>3, <1>4 DEF Indexed
<1>8. HasDuplicate(base)
  <2> DEFINE a == at[i] + 1
             b == at[j] + 1
  <2>1. a \in DOMAIN base /\ b \in DOMAIN base /\ a # b /\ base[a].host = base[b].host /\ base[a].protocol = base[b].protocol
    BY <1>5, <1>6, <1>7
  <2> HIDE DEF a, b
  <2>2. QED
    BY <2>1, Zenon DEF HasDuplicate
<1>9. QED
  BY <1>2, <1>8

\* A template that disagrees with its catalog in one port's interface never
\* passes the verification.
LEMMA NoDrift ==
    ASSUME NEW app \in Applications, CatalogPortBindingsOK(app), NEW d \in 0 .. Len(app.ports), NEW ov,
           VerifyPublicBinds(app, RewriteComposeHostPorts(Template(app, d), ov))
    PROVE  d = 0
<1> DEFINE tpl == Template(app, d)
           new == RewriteComposeHostPorts(tpl, ov)
           e == EntryOf(app.ports[d])
<1>1. SUFFICES ASSUME d # 0 PROVE FALSE
  OBVIOUS
<1>2. d \in DOMAIN app.ports
  <2>1. app.ports \in Seq(PortDeclarations)
    BY DEF Applications
  <2>2. QED
    BY <1>1, <2>1, LenProperties
<1>3. WellFormed(app)
  BY DEF CatalogPortBindingsOK, WellFormed
<1>4. tpl = (TemplateOf(app) \ {e}) \cup {FlipIP(e)}
  BY <1>1 DEF Template
<1>5. RenderedPublicBinds(new) = DeclaredPublicBinds(app)
  BY DEF VerifyPublicBinds
<1>6. /\ e.ip = (IF app.ports[d].public THEN "all" ELSE "loopback") /\ app.ports[d].public \in BOOLEAN
      /\ FlipIP(e).ip = (IF e.ip = "all" THEN "loopback" ELSE "all")
      /\ FlipIP(e).lo = e.lo /\ FlipIP(e).hi = e.hi /\ FlipIP(e).protocol = e.protocol
  <2>1. e.ip = (IF app.ports[d].public THEN "all" ELSE "loopback") /\ app.ports[d].public \in BOOLEAN
    BY <1>2, <1>3, EntryIs
  <2>2. QED
    BY <2>1 DEF FlipIP, EntryOf
<1>7. CASE app.ports[d].public
  <2>1. <<e.protocol, e.lo, e.hi>> \in DeclaredPublicBinds(app)
    BY <1>2, <1>7 DEF DeclaredPublicBinds
  <2>2. PICK x \in new : x.ip # "loopback" /\ <<e.protocol, e.lo, e.hi>> = <<x.protocol, x.lo, x.hi>>
    BY <1>5, <2>1 DEF RenderedPublicBinds
  <2>3. PICK y \in tpl : x = RewriteEntry(y, ov)
    BY <2>2 DEF RewriteComposeHostPorts
  <2>4. x = y
    <3>1. CASE Rewritable(y) /\ y.lo \in DOMAIN ov
      <4>1. x = [y EXCEPT !.lo = ov[y.lo], !.hi = ov[y.lo]] /\ y.ip = "loopback"
        BY <2>3, <3>1 DEF RewriteEntry, Rewritable
      <4>2. y \in TemplateOf(app) \/ y = FlipIP(e)
        BY <1>4
      <4>3. x.ip = "loopback"
        BY <4>1, <4>2 DEF TemplateOf, EntryOf, FlipIP
      <4>4. QED
        BY <2>2, <4>3
    <3>2. CASE ~(Rewritable(y) /\ y.lo \in DOMAIN ov)
      BY <2>3, <3>2 DEF RewriteEntry
    <3>3. QED
      BY <3>1, <3>2
  <2>5. y \in TemplateOf(app) /\ y # e
    BY <1>4, <1>6, <1>7, <2>2, <2>4
  <2>6. PICK j \in DOMAIN app.ports : y = EntryOf(app.ports[j])
    BY <2>5 DEF TemplateOf
  <2>7. j = d
    BY <1>2, <2>2, <2>4, <2>6, NoTwins
  <2>8. QED
    BY <2>5, <2>6, <2>7
<1>8. CASE ~app.ports[d].public
  <2> DEFINE f == FlipIP(e)
  <2>1. f.ip = "all" /\ f.lo = e.lo /\ f.hi = e.hi /\ f.protocol = e.protocol
    BY <1>6, <1>8
  <2>2. f \in tpl
    BY <1>4
  <2> HIDE DEF f
  <2>3. RewriteEntry(f, ov) = f
    BY <2>1 DEF RewriteEntry, Rewritable
  <2>4. f \in new
    BY <2>2, <2>3 DEF RewriteComposeHostPorts
  <2>5. <<e.protocol, e.lo, e.hi>> \in RenderedPublicBinds(new)
    <3> HIDE DEF new, e
    <3>1. QED
      BY <2>1, <2>4 DEF RenderedPublicBinds
  <2>6. <<e.protocol, e.lo, e.hi>> \in DeclaredPublicBinds(app)
    BY <1>5, <2>5
  <2>7. PICK j \in DOMAIN app.ports :
           app.ports[j].public /\ <<e.protocol, e.lo, e.hi>> =
             <<EntryOf(app.ports[j]).protocol, EntryOf(app.ports[j]).lo, EntryOf(app.ports[j]).hi>>
    BY <2>6 DEF DeclaredPublicBinds
  <2>8. j = d
    BY <1>2, <2>7, NoTwins
  <2>9. QED
    BY <1>8, <2>7, <2>8
<1>9. QED
  BY <1>7, <1>8

\* An override names a single port that is not public.
LEMMA OverrideIsSingle ==
    ASSUME NEW app \in Applications, WellFormed(app), NEW at, Indexed(app, at), NEW ov,
           ApplyPortOverridesOK(app, BaseBindings(app), ov),
           NEW i \in DOMAIN app.ports, NEW k \in 1..Width(app.ports[i]),
           BaseBindings(app)[at[i] + k].host \in DOMAIN ov
    PROVE  /\ ~IsRange(app.ports[i]) /\ ~app.ports[i].public
           /\ EntryOf(app.ports[i]).hi = EntryOf(app.ports[i]).lo /\ k = 1
           /\ EntryOf(app.ports[i]).ip = "loopback"
           /\ BaseBindings(app)[at[i] + k].host = EntryOf(app.ports[i]).lo
<1> DEFINE port == app.ports[i]
           pb == PortBindings(port)
           q == BaseBindings(app)[at[i] + k].host
<1>1. port \in PortDeclarations /\ PortOK(port)
  BY EntryIs
<1>2. pb \in Seq(Bindings) /\ Len(pb) = Width(port)
  BY <1>1, PortBindingsAre
<1>3. k \in DOMAIN pb
  BY <1>2, LenProperties
<1>4. q = pb[k].host
  BY DEF Indexed
<1>5. pb[k] \in Range(pb)
  BY <1>3 DEF Range
<1> HIDE DEF pb, q
<1>6. q \in {b.host : b \in Range(pb)}
  BY <1>4, <1>5
<1>7. q \notin RangeHostPorts(app) /\ q \notin PublicPorts(app)
  BY DEF ApplyPortOverridesOK, q
<1>8. ~IsRange(port)
  BY <1>6, <1>7 DEF RangeHostPorts, pb
<1>9. ~port.public
  BY <1>6, <1>7 DEF PublicPorts, pb
<1>10. EntryOf(port).lo = port.host /\ EntryOf(port).hi = port.host /\ EntryOf(port).ip = "loopback"
  BY <1>8, <1>9 DEF EntryOf, HostIP
<1>11. port.host \in Nat
  BY <1>1 DEF PortDeclarations
<1>12. Width(port) = 1
  BY <1>10, <1>11 DEF Width
<1>13. k = 1
  BY <1>12
<1>14. q = EntryOf(port).lo
  <2>1. q = EntryOf(port).lo + k - 1
    BY BindingIs DEF q
  <2>2. QED
    BY <1>10, <1>11, <1>13, <2>1
<1>15. QED
  BY <1>8, <1>9, <1>10, <1>13, <1>14 DEF q

\* The ports one entry publishes.
Publishes(e) == {[protocol |-> e.protocol, port |-> p] : p \in e.lo .. e.hi}

\* Once rewritten, the entry of a declaration publishes the bindings planned
\* for it.
LEMMA EntryPublishes ==
    ASSUME NEW app \in Applications, WellFormed(app), NumbersDistinct(app), NEW at, Indexed(app, at),
           NEW ov, PortMap(ov), ApplyPortOverridesOK(app, BaseBindings(app), ov), NEW i \in DOMAIN app.ports
    PROVE  Publishes(RewriteEntry(EntryOf(app.ports[i]), ov))
             = {Socket(Overridden(BaseBindings(app), ov)[at[i] + k]) : k \in 1..Width(app.ports[i])}
<1> DEFINE base == BaseBindings(app)
           bound == Overridden(base, ov)
           e == EntryOf(app.ports[i])
           w == Width(app.ports[i])
<1>1. /\ base \in Seq(Bindings) /\ e.lo \in 1..MaxPort /\ e.hi \in 1..MaxPort /\ e.lo <= e.hi
      /\ w = e.hi - e.lo + 1 /\ w \in Nat /\ 1 \in 1..w
  BY EntryIs DEF Indexed, Width
<1>2. \A k \in 1..w : /\ at[i] + k \in DOMAIN base /\ base[at[i] + k].host = e.lo + k - 1
                      /\ base[at[i] + k].protocol = e.protocol /\ base[at[i] + k].ip = e.ip
  BY BindingIs
<1>3. \A a \in DOMAIN base :
        /\ bound[a].protocol = base[a].protocol
        /\ bound[a].host = IF base[a].host \in DOMAIN ov /\ FirstOn(base, base[a].host) = a
                           THEN ov[base[a].host] ELSE base[a].host
  BY <1>1, OverriddenAre
<1>4. DOMAIN base = 1..Len(base) /\ Len(base) \in Nat
  BY <1>1, LenProperties
<1>5. CASE Rewritable(e) /\ e.lo \in DOMAIN ov
  <2> DEFINE a == at[i] + 1
             S == {x \in DOMAIN base : base[x].host = e.lo}
  <2>1. w = 1 /\ e.ip = "loopback" /\ e.hi = e.lo
    BY <1>1, <1>5 DEF Rewritable
  <2>2. a \in DOMAIN base /\ base[a].host = e.lo /\ base[a].protocol = e.protocol /\ base[a].ip = "loopback"
    <3>1. base[a].host = e.lo + 1 - 1 /\ a \in DOMAIN base /\ base[a].protocol = e.protocol /\ base[a].ip = e.ip
      BY <1>1, <1>2
    <3>2. e.lo + 1 - 1 = e.lo
      BY <1>1
    <3>3. QED
      BY <2>1, <3>1, <3>2
  <2> HIDE DEF a, base
  <2>3. S = {a}
    <3>1. \A x \in DOMAIN base : x # a => base[x].host # e.lo
      BY <2>2, Zenon DEF NumbersDistinct, base
    <3>2. QED
      BY <2>2, <3>1
  <2>4. FirstOn(base, e.lo) = a
    <3>1. S \subseteq Nat /\ S # {}
      BY <1>4, <2>2
    <3>2. Min(S) \in S
      <4> HIDE DEF S
      <4>1. QED
        BY <3>1, MinProperties
    <3>3. Min(S) = a
      BY <2>3, <3>2
    <3>4. FirstOn(base, e.lo) = Min(S)
      BY DEF FirstOn
    <3>5. QED
      BY <3>3, <3>4
  <2>5. bound[a].host = ov[e.lo] /\ bound[a].protocol = e.protocol
    BY <1>3, <1>5, <2>2, <2>4
  <2> HIDE DEF bound
  <2>6. {Socket(bound[at[i] + k]) : k \in 1..w} = {Socket(bound[a])}
    BY <2>1 DEF a
  <2>7. Socket(bound[a]) = [protocol |-> e.protocol, port |-> ov[e.lo]]
    BY <2>5 DEF Socket
  <2>8. RewriteEntry(e, ov) = [e EXCEPT !.lo = ov[e.lo], !.hi = ov[e.lo]]
    BY <1>5 DEF RewriteEntry
  <2>9. /\ RewriteEntry(e, ov).lo = ov[e.lo] /\ RewriteEntry(e, ov).hi = ov[e.lo]
        /\ RewriteEntry(e, ov).protocol = e.protocol
    BY <2>8 DEF EntryOf
  <2>10. ov[e.lo] \in Nat
    BY <1>5 DEF PortMap
  <2>11. Publishes(RewriteEntry(e, ov)) = {[protocol |-> e.protocol, port |-> ov[e.lo]]}
    <3> HIDE DEF e
    <3> DEFINE f == RewriteEntry(e, ov)
               v == ov[e.lo]
    <3>1. f.lo = v /\ f.hi = v /\ f.protocol = e.protocol /\ v \in Nat
      BY <2>9, <2>10
    <3> HIDE DEF f, v
    <3>2. f.lo .. f.hi = {v}
      BY <3>1
    <3>3. Publishes(f) = {[protocol |-> e.protocol, port |-> v]}
      BY <3>1, <3>2 DEF Publishes
    <3>4. QED
      BY <3>3 DEF f, v
  <2>12. QED
    BY <2>6, <2>7, <2>11 DEF bound, base
<1>6. CASE ~(Rewritable(e) /\ e.lo \in DOMAIN ov)
  <2>1. RewriteEntry(e, ov) = e
    BY <1>6 DEF RewriteEntry
  <2>2. ASSUME NEW k \in 1..w PROVE Socket(bound[at[i] + k]) = [protocol |-> e.protocol, port |-> e.lo + k - 1]
    <3>1. base[at[i] + k].host \notin DOMAIN ov
      <4> SUFFICES ASSUME base[at[i] + k].host \in DOMAIN ov PROVE FALSE
        OBVIOUS
      <4>1. e.hi = e.lo /\ e.ip = "loopback" /\ base[at[i] + k].host = e.lo
        BY OverrideIsSingle
      <4>2. QED
        BY <1>6, <4>1 DEF Rewritable
    <3>2. bound[at[i] + k].host = e.lo + k - 1 /\ bound[at[i] + k].protocol = e.protocol
      BY <1>2, <1>3, <3>1
    <3>3. QED
      BY <3>2 DEF Socket
  <2> HIDE DEF bound
  <2>3. {Socket(bound[at[i] + k]) : k \in 1..w} = {[protocol |-> e.protocol, port |-> e.lo + k - 1] : k \in 1..w}
    BY <2>2
  <2>4. {[protocol |-> e.protocol, port |-> e.lo + k - 1] : k \in 1..w} = Publishes(e)
    <3> DEFINE lo == e.lo
               hi == e.hi
               pr == e.protocol
    <3>1. lo \in Nat /\ hi \in Nat /\ w = hi - lo + 1
      BY <1>1, PortAssumption
    <3>2. Publishes(e) = {[protocol |-> pr, port |-> p] : p \in lo .. hi}
      BY DEF Publishes
    <3> HIDE DEF lo, hi, pr, w
    <3>3. \A k \in 1..w : lo + k - 1 \in lo..hi
      BY <3>1
    <3>4. \A p \in lo..hi : (p - lo) + 1 \in 1..w /\ lo + ((p - lo) + 1) - 1 = p
      BY <3>1
    <3>5. {[protocol |-> pr, port |-> lo + k - 1] : k \in 1..w} = {[protocol |-> pr, port |-> p] : p \in lo .. hi}
      <4>1. {lo + k - 1 : k \in 1..w} = lo..hi
        BY <3>3, <3>4
      <4>2. QED
        BY <4>1
    <3>6. QED
      BY <3>2, <3>5 DEF lo, hi, pr
  <2>5. QED
    BY <2>1, <2>3, <2>4 DEF bound
<1>7. QED
  BY <1>5, <1>6

LEMMA PublishedIsPlanned ==
    ASSUME NEW app \in Applications, WellFormed(app), NumbersDistinct(app), NEW ov, PortMap(ov),
           ApplyPortOverridesOK(app, BaseBindings(app), ov)
    PROVE  Published(RewriteComposeHostPorts(TemplateOf(app), ov))
             = {Socket(Overridden(BaseBindings(app), ov)[a]) : a \in DOMAIN Overridden(BaseBindings(app), ov)}
<1> DEFINE base == BaseBindings(app)
           bound == Overridden(base, ov)
           new == RewriteComposeHostPorts(TemplateOf(app), ov)
<1>1. PICK at : Indexed(app, at)
  BY BaseIndexed DEF WellFormed
<1>2. DOMAIN bound = DOMAIN base
  BY DEF Overridden
<1>3. \A i \in DOMAIN app.ports :
         Publishes(RewriteEntry(EntryOf(app.ports[i]), ov)) = {Socket(bound[at[i] + k]) : k \in 1..Width(app.ports[i])}
  BY <1>1, EntryPublishes
<1>4. \A i \in DOMAIN app.ports : \A k \in 1..Width(app.ports[i]) : at[i] + k \in DOMAIN base
  BY <1>1 DEF Indexed
<1>5. \A a \in DOMAIN base : \E i \in DOMAIN app.ports : \E k \in 1..Width(app.ports[i]) : a = at[i] + k
  BY <1>1 DEF Indexed
<1>6. new = {RewriteEntry(EntryOf(app.ports[i]), ov) : i \in DOMAIN app.ports}
  BY DEF RewriteComposeHostPorts, TemplateOf
<1> HIDE DEF base, bound, new
<1>7. Published(new) = UNION {Publishes(e) : e \in new}
  BY DEF Published, Publishes
<1>8. ASSUME NEW s \in Published(new) PROVE s \in {Socket(bound[a]) : a \in DOMAIN bound}
  <2>1. PICK e \in new : s \in Publishes(e)
    BY <1>7
  <2>2. PICK i \in DOMAIN app.ports : e = RewriteEntry(EntryOf(app.ports[i]), ov)
    BY <1>6
  <2>3. PICK k \in 1..Width(app.ports[i]) : s = Socket(bound[at[i] + k])
    BY <1>3, <2>1, <2>2
  <2>4. QED
    BY <1>2, <1>4, <2>3
<1>9. ASSUME NEW a \in DOMAIN bound PROVE Socket(bound[a]) \in Published(new)
  <2>1. PICK i \in DOMAIN app.ports : \E k \in 1..Width(app.ports[i]) : a = at[i] + k
    BY <1>2, <1>5
  <2>2. Socket(bound[a]) \in Publishes(RewriteEntry(EntryOf(app.ports[i]), ov))
    BY <1>3, <2>1
  <2>3. RewriteEntry(EntryOf(app.ports[i]), ov) \in new
    BY <1>6
  <2>4. QED
    BY <1>7, <2>2, <2>3
<1>10. Published(new) = {Socket(bound[a]) : a \in DOMAIN bound}
  BY <1>8, <1>9
<1>11. QED
  BY <1>10 DEF new, bound, base

\* The URL shown for an application names a port the application declares.
TargetDeclared(app) ==
    app.target # 0 => \E i \in DOMAIN BaseBindings(app) : BaseBindings(app)[i].host = app.target

LEMMA GuidanceIsBound ==
    ASSUME NEW app, NEW base \in Seq(Bindings), NEW ov, PortMap(ov),
           \A p \in DOMAIN ov : ov[p] \notin DOMAIN ov,
           app.target # 0 => \E i \in DOMAIN base : base[i].host = app.target,
           Overridden(base, ov) # <<>>
    PROVE  \E i \in DOMAIN base :
              /\ Overridden(base, ov)[i].host = GuidancePort(app, Overridden(base, ov), ov)
              /\ app.target # 0 => base[i].host = app.target
<1> DEFINE bound == Overridden(base, ov)
<1>1. DOMAIN base = 1..Len(base) /\ Len(base) \in Nat
  BY LenProperties
<1>2. /\ bound \in [DOMAIN base -> Bindings]
      /\ \A i \in DOMAIN base : bound[i].host =
            IF base[i].host \in DOMAIN ov /\ FirstOn(base, base[i].host) = i THEN ov[base[i].host] ELSE base[i].host
  BY OverriddenAre
<1>3. ASSUME NEW i \in DOMAIN base
      PROVE  LET f == FirstOn(base, base[i].host)
             IN f \in DOMAIN base /\ base[f].host = base[i].host /\ f <= i
  <2> DEFINE S == {x \in DOMAIN base : base[x].host = base[i].host}
  <2>1. S \subseteq Nat /\ i \in S
    BY <1>1
  <2>2. FirstOn(base, base[i].host) = Min(S)
    BY DEF FirstOn
  <2>3. Min(S) \in S /\ Min(S) <= i
    <3> HIDE DEF S
    <3>1. QED
      BY <2>1, MinProperties
  <2>4. QED
    BY <2>2, <2>3
<1> HIDE DEF bound
<1>4. CASE app.target # 0
  <2>1. PICK i \in DOMAIN base : base[i].host = app.target
    BY <1>4
  <2>2. GuidancePort(app, bound, ov) = IF app.target \in DOMAIN ov THEN ov[app.target] ELSE app.target
    BY <1>4 DEF GuidancePort, RemapGuidanceURL, LocalTargetPort
  <2> DEFINE f == FirstOn(base, base[i].host)
  <2>3. f \in DOMAIN base /\ base[f].host = app.target /\ f = FirstOn(base, base[f].host)
    BY <1>3, <2>1
  <2> HIDE DEF f
  <2>4. bound[f].host = GuidancePort(app, bound, ov)
    BY <1>2, <2>2, <2>3
  <2>5. QED
    BY <2>3, <2>4 DEF bound
<1>5. CASE app.target = 0
  <2>1. Len(base) # 0
    <3> SUFFICES ASSUME Len(base) = 0 PROVE FALSE
      OBVIOUS
    <3>1. bound \in [1..0 -> Bindings]
      BY <1>1, <1>2
    <3>2. bound = <<>>
      BY <3>1
    <3>3. QED
      BY <3>2 DEF bound
  <2>2. 1 \in DOMAIN base
    BY <1>1, <2>1
  <2>3. LocalTargetPort(app, bound) = bound[1].host
    BY <1>5 DEF LocalTargetPort, bound
  <2>4. FirstOn(base, base[1].host) = 1
    <3>1. FirstOn(base, base[1].host) \in DOMAIN base /\ FirstOn(base, base[1].host) <= 1
      BY <1>3, <2>2
    <3>2. QED
      BY <1>1, <3>1
  <2>5. bound[1].host \notin DOMAIN ov
    BY <1>2, <2>2, <2>4
  <2>6. GuidancePort(app, bound, ov) = bound[1].host
    BY <2>3, <2>5 DEF GuidancePort, RemapGuidanceURL
  <2>7. QED
    BY <1>5, <2>2, <2>6 DEF bound
<1>6. QED
  BY <1>4, <1>5

\* What an install probes, shows for confirmation and records is what compose
\* binds, and the URL shown afterwards names the port the service answers on
\* (planPorts, rewriteComposeHostPorts, remapGuidanceURL), for any catalog whose
\* URL templates name declared ports.
THEOREM PlannedPublished ==
    ASSUME \A v \in DOMAIN Apps : TargetDeclared(Apps[v])
    PROVE  Spec => []PlannedIsPublished
<1>1. ASSUME Inv PROVE PlannedIsPublished
  <2> DEFINE ov == plan.overrides
             base == BaseBindings(App)
             chained == \E p \in DOMAIN plan.overrides : plan.overrides[p] \in DOMAIN plan.overrides
  <2> SUFFICES ASSUME pc \in {"rendered", "deploy"}
               PROVE  /\ NumbersDistinct(App) =>
                           Published(plan.entries) = {Socket(plan.bound[i]) : i \in DOMAIN plan.bound}
                      /\ ~chained /\ plan.bound # <<>> =>
                           \E i \in DOMAIN plan.bound :
                              /\ plan.bound[i].host = plan.guidance
                              /\ (App.target # 0 => BaseBindings(App)[i].host = App.target)
    BY DEF PlannedIsPublished
  <2>1. /\ CatalogPortBindingsOK(App) /\ req.drift \in 0 .. Len(App.ports)
        /\ ApplyPortOverridesOK(App, base, ov) /\ plan.bound = Overridden(base, ov)
        /\ plan.entries = RewriteComposeHostPorts(Template(App, req.drift), ov)
        /\ VerifyPublicBinds(App, plan.entries)
        /\ plan.guidance = GuidancePort(App, plan.bound, ov)
    BY <1>1 DEF Inv, Established, Planned
  <2>2. App \in Applications /\ WellFormed(App) /\ PortMap(ov) /\ TargetDeclared(App)
    BY <1>1, <2>1, AppTyped DEF Inv, TypeOK, App, Shaped, CatalogPortBindingsOK, WellFormed
  <2>3. req.drift = 0
    BY <2>1, <2>2, NoDrift
  <2>4. plan.entries = RewriteComposeHostPorts(TemplateOf(App), ov)
    BY <2>1, <2>3 DEF Template
  <2>5. NumbersDistinct(App) => Published(plan.entries) = {Socket(plan.bound[i]) : i \in DOMAIN plan.bound}
    BY <2>1, <2>2, <2>4, PublishedIsPlanned
  <2>6. base \in Seq(Bindings)
    <3>1. PICK at : Indexed(App, at)
      BY <2>2, BaseIndexed DEF WellFormed
    <3>2. QED
      BY <3>1 DEF Indexed
  <2>7. DOMAIN plan.bound = DOMAIN base
    BY <2>1 DEF Overridden
  <2>8. ASSUME ~chained, plan.bound # <<>>
        PROVE  \E i \in DOMAIN plan.bound :
                  /\ plan.bound[i].host = plan.guidance
                  /\ (App.target # 0 => base[i].host = App.target)
    <3>1. \A p \in DOMAIN ov : ov[p] \notin DOMAIN ov
      BY <2>8
    <3>2. App.target # 0 => \E i \in DOMAIN base : base[i].host = App.target
      BY <2>2 DEF TargetDeclared
    <3> HIDE DEF base, ov
    <3>3. \E i \in DOMAIN base :
            /\ Overridden(base, ov)[i].host = GuidancePort(App, Overridden(base, ov), ov)
            /\ App.target # 0 => base[i].host = App.target
      BY <2>1, <2>2, <2>6, <2>8, <3>1, <3>2, GuidanceIsBound
    <3>4. QED
      BY <2>1, <2>7, <3>3
  <2>9. QED
    BY <2>5, <2>8
<1>2. Inv => PlannedIsPublished
  BY <1>1
<1>3. QED
  BY InvHolds, <1>2, PTL

------------------------------------------------------------------------------
(* An update keeps the ports.                                              *)

\* No two declarations of an application share service, container port, protocol
\* and spelling: what an update recognises a binding by.
KeysDistinct(app) ==
    \A i, j \in DOMAIN app.ports :
        BindingKey(EntryOf(app.ports[i])) = BindingKey(EntryOf(app.ports[j])) =>
            EntryOf(app.ports[i]) = EntryOf(app.ports[j])

\* A compose file records one loopback port for each such binding.
OneRecorded(entries) ==
    \A e, f \in LoopbackEntries(entries) : BindingKey(e) = BindingKey(f) => e.lo = f.lo

\* Where the entries of a template come from.
LEMMA TemplateEntry ==
    ASSUME NEW app \in Applications, NEW d \in 0 .. Len(app.ports), NEW t \in Template(app, d)
    PROVE  \E i \in DOMAIN app.ports :
              LET e == EntryOf(app.ports[i])
              IN /\ \/ t = e /\ (d # 0 => e # EntryOf(app.ports[d]))
                    \/ t = FlipIP(e) /\ d = i
                 /\ BindingKey(t) = BindingKey(e) /\ t.lo = e.lo /\ t.hi = e.hi
<1>1. CASE t \in TemplateOf(app) /\ (d # 0 => t # EntryOf(app.ports[d]))
  BY <1>1 DEF TemplateOf
<1>2. CASE d # 0 /\ t = FlipIP(EntryOf(app.ports[d]))
  <2>1. d \in DOMAIN app.ports
    <3>1. app.ports \in Seq(PortDeclarations)
      BY DEF Applications
    <3>2. QED
      BY <1>2, <3>1, LenProperties
  <2> DEFINE e == EntryOf(app.ports[d])
  <2>2. BindingKey(t) = BindingKey(e) /\ t.lo = e.lo /\ t.hi = e.hi
    BY <1>2 DEF FlipIP, EntryOf, BindingKey
  <2>3. QED
    BY <1>2, <2>1, <2>2
<1>3. QED
  BY <1>1, <1>2 DEF Template

LEMMA TemplateKeys ==
    ASSUME NEW app \in Applications, KeysDistinct(app), NEW d \in 0 .. Len(app.ports),
           NEW t \in Template(app, d), NEW u \in Template(app, d), BindingKey(t) = BindingKey(u)
    PROVE  t = u
<1>1. PICK i \in DOMAIN app.ports :
         /\ \/ t = EntryOf(app.ports[i]) /\ (d # 0 => EntryOf(app.ports[i]) # EntryOf(app.ports[d]))
            \/ t = FlipIP(EntryOf(app.ports[i])) /\ d = i
         /\ BindingKey(t) = BindingKey(EntryOf(app.ports[i]))
  BY TemplateEntry
<1>2. PICK j \in DOMAIN app.ports :
         /\ \/ u = EntryOf(app.ports[j]) /\ (d # 0 => EntryOf(app.ports[j]) # EntryOf(app.ports[d]))
            \/ u = FlipIP(EntryOf(app.ports[j])) /\ d = j
         /\ BindingKey(u) = BindingKey(EntryOf(app.ports[j]))
  BY TemplateEntry
<1>3. EntryOf(app.ports[i]) = EntryOf(app.ports[j])
  BY <1>1, <1>2 DEF KeysDistinct
<1>4. d = i \/ d = j => d # 0
  <2>1. app.ports \in Seq(PortDeclarations)
    BY DEF Applications
  <2>2. QED
    BY <2>1, LenProperties
<1>5. QED
  BY <1>1, <1>2, <1>3, <1>4

\* Rewriting moves a loopback port and nothing else.
LEMMA RewrittenEntry ==
    ASSUME NEW app \in Applications, NEW d \in 0 .. Len(app.ports), NEW ov,
           NEW f \in RewriteComposeHostPorts(Template(app, d), ov)
    PROVE  \E t \in Template(app, d) :
              /\ BindingKey(f) = BindingKey(t)
              /\ f = RewriteEntry(t, ov)
              /\ Rewritable(f) => /\ Rewritable(t)
                                  /\ f.lo = IF t.lo \in DOMAIN ov THEN ov[t.lo] ELSE t.lo
<1>1. PICK t \in Template(app, d) : f = RewriteEntry(t, ov)
  BY DEF RewriteComposeHostPorts
<1>2. PICK i \in DOMAIN app.ports : t = EntryOf(app.ports[i]) \/ t = FlipIP(EntryOf(app.ports[i]))
  BY TemplateEntry
<1>3. CASE Rewritable(t) /\ t.lo \in DOMAIN ov
  <2> DEFINE v == ov[t.lo]
  <2>1. f = [t EXCEPT !.lo = v, !.hi = v]
    BY <1>1, <1>3 DEF RewriteEntry
  <2> HIDE DEF v
  <2>2. f.lo = v /\ BindingKey(f) = BindingKey(t)
    BY <1>2, <2>1 DEF EntryOf, FlipIP, BindingKey
  <2>3. QED
    BY <1>1, <1>3, <2>2 DEF v
<1>4. CASE ~(Rewritable(t) /\ t.lo \in DOMAIN ov)
  <2>1. f = t
    BY <1>1, <1>4 DEF RewriteEntry
  <2>2. QED
    BY <1>1, <1>4, <2>1
<1>5. QED
  BY <1>3, <1>4

LEMMA RewrittenRecordsOne ==
    ASSUME NEW app \in Applications, KeysDistinct(app), NEW d \in 0 .. Len(app.ports), NEW ov
    PROVE  OneRecorded(RewriteComposeHostPorts(Template(app, d), ov)) /\ OneRecorded(Template(app, d))
<1> DEFINE new == RewriteComposeHostPorts(Template(app, d), ov)
<1>1. OneRecorded(Template(app, d))
  BY TemplateKeys DEF OneRecorded, LoopbackEntries
<1>2. ASSUME NEW e \in new, NEW f \in new, BindingKey(e) = BindingKey(f) PROVE e = f
  <2>1. PICK t \in Template(app, d) : BindingKey(e) = BindingKey(t) /\ e = RewriteEntry(t, ov)
    BY RewrittenEntry
  <2>2. PICK u \in Template(app, d) : BindingKey(f) = BindingKey(u) /\ f = RewriteEntry(u, ov)
    BY RewrittenEntry
  <2>3. t = u
    BY <1>2, <2>1, <2>2, TemplateKeys
  <2>4. QED
    BY <2>1, <2>2, <2>3
<1> HIDE DEF new
<1>3. OneRecorded(new)
  BY <1>2 DEF OneRecorded, LoopbackEntries
<1>4. QED
  BY <1>1, <1>3 DEF new

\* Two loopback entries of a template are on different numbers.
LEMMA TemplateNumbers ==
    ASSUME NEW app \in Applications, WellFormed(app), NumbersDistinct(app), NEW d \in 0 .. Len(app.ports),
           NEW t \in LoopbackEntries(Template(app, d)), NEW u \in LoopbackEntries(Template(app, d)), t.lo = u.lo
    PROVE  t = u
<1> DEFINE base == BaseBindings(app)
<1>0. t \in Template(app, d) /\ u \in Template(app, d) /\ t.ip = "loopback" /\ u.ip = "loopback"
  BY DEF LoopbackEntries, Rewritable
<1>1. PICK i \in DOMAIN app.ports :
         /\ t = EntryOf(app.ports[i]) \/ (t = FlipIP(EntryOf(app.ports[i])) /\ d = i)
         /\ t.lo = EntryOf(app.ports[i]).lo
  BY <1>0, TemplateEntry
<1>2. PICK j \in DOMAIN app.ports :
         /\ u = EntryOf(app.ports[j]) \/ (u = FlipIP(EntryOf(app.ports[j])) /\ d = j)
         /\ u.lo = EntryOf(app.ports[j]).lo
  BY <1>0, TemplateEntry
<1>3. PICK at : Indexed(app, at)
  BY BaseIndexed DEF WellFormed
<1>4. /\ at[i] + 1 \in DOMAIN base /\ base[at[i] + 1].host = EntryOf(app.ports[i]).lo + 1 - 1
      /\ base[at[i] + 1].ip = EntryOf(app.ports[i]).ip /\ 1 \in 1..Width(app.ports[i])
  BY <1>3, BindingIs, EntryIs
<1>5. /\ at[j] + 1 \in DOMAIN base /\ base[at[j] + 1].host = EntryOf(app.ports[j]).lo + 1 - 1
      /\ base[at[j] + 1].ip = EntryOf(app.ports[j]).ip /\ 1 \in 1..Width(app.ports[j])
  BY <1>3, BindingIs, EntryIs
<1>6. CASE i # j
  <2>1. at[i] + 1 # at[j] + 1
    <3>1. 1 \in 1..Width(app.ports[i]) /\ 1 \in 1..Width(app.ports[j])
      BY <1>4, <1>5
    <3>2. QED
      BY <1>3, <1>6, <3>1 DEF Indexed
  <2>2. base[at[i] + 1].host = base[at[j] + 1].host
    BY <1>1, <1>2, <1>4, <1>5
  <2> DEFINE a == at[i] + 1
             b == at[j] + 1
  <2>3. a \in DOMAIN base /\ b \in DOMAIN base /\ a # b /\ base[a].host = base[b].host
    BY <1>4, <1>5, <2>1, <2>2
  <2>4. base[a].ip = "all" /\ base[b].ip = "all"
    <3> HIDE DEF a, b
    <3>1. QED
      BY <2>3, Zenon DEF NumbersDistinct
  <2>5. EntryOf(app.ports[i]).ip = "all" /\ EntryOf(app.ports[j]).ip = "all"
    BY <1>4, <1>5, <2>4
  <2>6. d = i /\ d = j
    BY <1>0, <1>1, <1>2, <2>5
  <2>7. QED
    BY <1>6, <2>6
<1>7. CASE i = j
  <2> DEFINE e == EntryOf(app.ports[i])
  <2>1. (t = e \/ t = FlipIP(e)) /\ (u = e \/ u = FlipIP(e))
    BY <1>1, <1>2, <1>7
  <2>2. FlipIP(e).ip # e.ip
    BY DEF FlipIP, EntryOf
  <2> HIDE DEF e
  <2>3. QED
    BY <1>0, <2>1, <2>2
<1>8. QED
  BY <1>6, <1>7

\* preserveUpdateHostPorts overrides exactly the defaults of the bindings that
\* are recorded elsewhere, each with a recorded port of such a binding.
LEMMA PreserveIs ==
    ASSUME NEW tpl, NEW recorded, NEW ov \in PreserveOverrides(tpl, recorded)
    PROVE  /\ \A k \in DOMAIN ov : \E t \in LoopbackEntries(tpl), r \in LoopbackEntries(recorded) :
                 BindingKey(r) = BindingKey(t) /\ t.lo = k /\ r.lo = ov[k]
           /\ \A t \in LoopbackEntries(tpl), r \in LoopbackEntries(recorded) :
                 BindingKey(r) = BindingKey(t) /\ r.lo # t.lo => t.lo \in DOMAIN ov
<1> DEFINE moved(d) == {r \in LoopbackEntries(recorded) : BindingKey(r) = BindingKey(d) /\ r.lo # d.lo}
           pairs == UNION {{<<d.lo, r.lo>> : r \in moved(d)} : d \in LoopbackEntries(tpl)}
           keys == {pr[1] : pr \in pairs}
<1>1. ov \in [keys -> {pr[2] : pr \in pairs}] /\ \A k \in keys : <<k, ov[k]>> \in pairs
  BY Zenon DEF PreserveOverrides
<1>2. \A x, y : <<x, y>> \in pairs => \E t \in LoopbackEntries(tpl), r \in LoopbackEntries(recorded) :
         BindingKey(r) = BindingKey(t) /\ t.lo = x /\ r.lo = y
  OBVIOUS
<1>3. \A t \in LoopbackEntries(tpl), r \in LoopbackEntries(recorded) :
         BindingKey(r) = BindingKey(t) /\ r.lo # t.lo => <<t.lo, r.lo>> \in pairs
  OBVIOUS
<1> HIDE DEF pairs
<1>4. DOMAIN ov = keys
  BY <1>1
<1>5. \A x, y : <<x, y>> \in pairs => x \in keys
  <2> SUFFICES ASSUME NEW x, NEW y, <<x, y>> \in pairs PROVE x \in keys
    OBVIOUS
  <2>1. <<x, y>>[1] = x
    OBVIOUS
  <2>2. QED
    BY <2>1
<1> HIDE DEF keys
<1>6. QED
  <2>1. ASSUME NEW k \in DOMAIN ov
        PROVE  \E t \in LoopbackEntries(tpl), r \in LoopbackEntries(recorded) :
                 BindingKey(r) = BindingKey(t) /\ t.lo = k /\ r.lo = ov[k]
    <3>1. <<k, ov[k]>> \in pairs
      BY <1>1, <1>4
    <3>2. QED
      BY <1>2, <3>1
  <2>2. \A t \in LoopbackEntries(tpl), r \in LoopbackEntries(recorded) :
          BindingKey(r) = BindingKey(t) /\ r.lo # t.lo => t.lo \in DOMAIN ov
    BY <1>3, <1>4, <1>5
  <2>3. QED
    BY <2>1, <2>2

LEMMA UpdateKeepsThem ==
    ASSUME NEW app \in Applications, WellFormed(app), NumbersDistinct(app), NEW d \in 0 .. Len(app.ports),
           NEW recorded, OneRecorded(recorded), NEW ov \in PreserveOverrides(Template(app, d), recorded),
           NEW e \in LoopbackEntries(recorded),
           NEW f \in LoopbackEntries(RewriteComposeHostPorts(Template(app, d), ov)), BindingKey(e) = BindingKey(f)
    PROVE  e.lo = f.lo
<1> DEFINE tpl == Template(app, d)
<1>1. f \in RewriteComposeHostPorts(tpl, ov) /\ Rewritable(f)
  BY DEF LoopbackEntries
<1>2. PICK t \in tpl : /\ BindingKey(f) = BindingKey(t) /\ Rewritable(t)
                       /\ f.lo = IF t.lo \in DOMAIN ov THEN ov[t.lo] ELSE t.lo
  BY <1>1, RewrittenEntry
<1>3. t \in LoopbackEntries(tpl)
  BY <1>2 DEF LoopbackEntries
<1>4. CASE t.lo \in DOMAIN ov
  <2>1. PICK u \in LoopbackEntries(tpl), r \in LoopbackEntries(recorded) :
           BindingKey(r) = BindingKey(u) /\ u.lo = t.lo /\ r.lo = ov[t.lo]
    BY <1>4, PreserveIs
  <2>2. u = t
    BY <1>3, <2>1, TemplateNumbers
  <2>3. r.lo = e.lo
    BY <1>2, <2>1, <2>2 DEF OneRecorded
  <2>4. QED
    BY <1>2, <1>4, <2>1, <2>3
<1>5. CASE t.lo \notin DOMAIN ov
  <2>1. e.lo = t.lo
    BY <1>2, <1>3, <1>5, PreserveIs
  <2>2. QED
    BY <1>2, <1>5, <2>1
<1>6. QED
  BY <1>4, <1>5

\* An update never moves a loopback port of a service that both versions have,
\* however it came by it: by --port, by --auto-port, or by an earlier catalog
\* version (preserveUpdateHostPorts).  For any catalog whose versions declare
\* well-formed ports that service, container port, protocol and its spelling tell
\* apart.
THEOREM UpdateKeeps ==
    ASSUME \A v \in DOMAIN Apps : WellFormed(Apps[v]) /\ KeysDistinct(Apps[v])
    PROVE  Spec => UpdateKeepsPorts
<1> DEFINE Recorded == OneRecorded(disk.entries)
           Kept == \A e \in LoopbackEntries(disk.entries), f \in LoopbackEntries(disk'.entries) :
                      NumbersDistinct(App) /\ BindingKey(e) = BindingKey(f) => e.lo = f.lo
<1>1. Init => Recorded
  BY DEF Init, NoStack, OneRecorded, LoopbackEntries
<1>2. ASSUME Inv, Recorded, [Next]_vars PROVE Recorded'
  <2>1. App \in Applications /\ KeysDistinct(App)
    BY <1>2, AppTyped DEF Inv, TypeOK, App
  <2>2. CASE InstallUp
    <3>1. req.drift \in 0 .. Len(App.ports)
          /\ plan.entries = RewriteComposeHostPorts(Template(App, req.drift), plan.overrides)
      BY <1>2, <2>2 DEF InstallUp, Inv, Established
    <3>2. OneRecorded(plan.entries)
      BY <2>1, <3>1, RewrittenRecordsOne
    <3>3. disk'.entries = plan.entries \/ disk' = disk
      BY <2>2 DEF InstallUp
    <3>4. QED
      BY <1>2, <3>2, <3>3
  <2>3. CASE UpdateStack
    <3>1. PICK d \in 0 .. Len(App.ports) : \E ov : disk'.entries = RewriteComposeHostPorts(Template(App, d), ov)
      BY <2>3 DEF UpdateStack
    <3>2. QED
      BY <2>1, <3>1, RewrittenRecordsOne
  <2>4. CASE RewireStack
    <3>1. PICK d \in 0 .. Len(App.ports) : disk'.entries = Template(App, d)
      BY <2>4 DEF RewireStack, ApplyRewire
    <3>2. QED
      BY <2>1, <3>1, RewrittenRecordsOne
  <2>5. CASE UNCHANGED disk
    BY <1>2, <2>5
  <2>6. QED
    BY <1>2, <2>2, <2>3, <2>4, <2>5 DEF Next, vars, TakePort, FreePort, AdvanceCatalog, BeginInstall,
       PlanRefused, PlanBound, PlanConflict, RenderInstall, RecheckPorts, Redeploy
<1>3. ASSUME Inv, Recorded, UpdateStack PROVE Kept
  <2>1. App \in Applications /\ WellFormed(App)
    BY <1>3, AppTyped DEF Inv, TypeOK, App
  <2>2. PICK d \in 0 .. Len(App.ports) : \E ov \in PreserveOverrides(Template(App, d), disk.entries) :
           disk'.entries = RewriteComposeHostPorts(Template(App, d), ov)
    BY <1>3 DEF UpdateStack
  <2>3. QED
    BY <1>3, <2>1, <2>2, UpdateKeepsThem
<1>4. Inv /\ Recorded => [UpdateStack => Kept]_vars
  BY <1>3
<1>5. Inv /\ Recorded /\ [Next]_vars => Recorded'
  BY <1>2
<1> HIDE DEF Recorded
<1>6. QED
  BY InvHolds, <1>1, <1>4, <1>5, PTL DEF Spec, UpdateKeepsPorts

------------------------------------------------------------------------------
(* --auto-port converges.                                                  *)

\* The bindings --auto-port may move, those it has moved, and those of them
\* whose new port another process has taken since.
Movable == {i \in DOMAIN BaseBindings(App) : Remappable(App, BaseBindings(App)[i])}
Moved == {i \in DOMAIN BaseBindings(App) :
             BaseBindings(App)[i].host \in DOMAIN plan.overrides \ DOMAIN req.overrides}
Hit == {i \in Moved : Socket(Planned[i]) \in taken}

\* Every attempt either moved another binding or answered a change another
\* process made; a moved binding is alone on its new port.
Accounted ==
    pc # "idle" /\ NumbersDistinct(App) =>
        /\ Moved \subseteq Movable
        /\ \A i, j \in Moved : i # j => Socket(Planned[i]) # Socket(Planned[j])
        /\ plan.attempt + Cardinality(Hit) <= moves + Cardinality(Moved)

\* A loopback binding shares its number with no other.
LEMMA AloneOnNumber ==
    ASSUME NEW app, NumbersDistinct(app), NEW c \in DOMAIN BaseBindings(app),
           BaseBindings(app)[c].ip = "loopback", NEW i \in DOMAIN BaseBindings(app),
           BaseBindings(app)[i].host = BaseBindings(app)[c].host
    PROVE  i = c
BY Zenon DEF NumbersDistinct

\* One more override moves one binding.
Extended(ov, p, q) == [x \in DOMAIN ov \cup {p} |-> IF x = p THEN q ELSE ov[x]]
MovesOne(base, c, ov, ov2, q) ==
    /\ PortMap(ov2) /\ DOMAIN ov2 = DOMAIN ov \cup {base[c].host}
    /\ \A i \in DOMAIN base : i # c => Socket(Overridden(base, ov2)[i]) = Socket(Overridden(base, ov)[i])
    /\ Overridden(base, ov2)[c].host = q
    /\ \A i \in DOMAIN base : Overridden(base, ov2)[i].protocol = base[i].protocol
    /\ base[c].host \notin DOMAIN ov => Overridden(base, ov)[c].host = base[c].host

LEMMA MoveOne ==
    ASSUME NEW base \in Seq(Bindings), NEW ov, PortMap(ov), NEW c \in DOMAIN base, NEW q \in Nat,
           \A i \in DOMAIN base : base[i].host = base[c].host => i = c
    PROVE  MovesOne(base, c, ov, Extended(ov, base[c].host, q), q)
<1> DEFINE p == base[c].host
           ov2 == Extended(ov, p, q)
           old == Overridden(base, ov)
           new == Overridden(base, ov2)
<1>1. DOMAIN base = 1..Len(base) /\ Len(base) \in Nat /\ p \in Nat
  <2>1. base[c] \in Bindings /\ DOMAIN base = 1..Len(base) /\ Len(base) \in Nat
    BY ElementOfSeq, LenProperties
  <2>2. QED
    BY <2>1 DEF Bindings
<1>2. PortMap(ov2) /\ DOMAIN ov2 = DOMAIN ov \cup {p}
  BY <1>1 DEF PortMap, Extended
<1>3. \A i \in DOMAIN base :
        /\ old[i].ip = base[i].ip /\ old[i].protocol = base[i].protocol
        /\ old[i].host = IF base[i].host \in DOMAIN ov /\ FirstOn(base, base[i].host) = i
                         THEN ov[base[i].host] ELSE base[i].host
  BY OverriddenAre
<1>4. \A i \in DOMAIN base :
        /\ new[i].protocol = base[i].protocol
        /\ new[i].host = IF base[i].host \in DOMAIN ov2 /\ FirstOn(base, base[i].host) = i
                         THEN ov2[base[i].host] ELSE base[i].host
  BY <1>2, OverriddenAre
<1>5. FirstOn(base, p) = c
  <2> DEFINE S == {x \in DOMAIN base : base[x].host = p}
  <2>1. S \subseteq Nat /\ S # {} /\ S \subseteq {c}
    BY <1>1
  <2>2. Min(S) \in S
    <3> HIDE DEF S
    <3>1. QED
      BY <2>1, MinProperties
  <2>3. FirstOn(base, p) = Min(S)
    BY DEF FirstOn
  <2>4. QED
    BY <2>1, <2>2, <2>3
<1>6. ov2[p] = q /\ p \in DOMAIN ov2 /\ base[c].host = p
  BY <1>2 DEF Extended
<1>a. \A x \in DOMAIN ov : x # p => ov2[x] = ov[x]
  BY DEF Extended
<1> HIDE DEF old, new, p, ov2
<1>7. new[c].host = q
  BY <1>4, <1>5, <1>6
<1>8. ASSUME NEW i \in DOMAIN base, i # c PROVE Socket(new[i]) = Socket(old[i])
  <2>1. base[i].host # p
    BY <1>8 DEF p
  <2>2. base[i].host \in DOMAIN ov => ov2[base[i].host] = ov[base[i].host]
    BY <1>a, <2>1
  <2>3. base[i].host \in DOMAIN ov2 <=> base[i].host \in DOMAIN ov
    BY <1>2, <2>1
  <2>4. new[i].host = old[i].host /\ new[i].protocol = old[i].protocol
    BY <1>3, <1>4, <2>2, <2>3
  <2>5. QED
    BY <2>4 DEF Socket
<1>9. p \notin DOMAIN ov => old[c].host = p
  BY <1>3, <1>6
<1>10. QED
  BY <1>2, <1>3, <1>4, <1>6, <1>7, <1>8, <1>9 DEF MovesOne, old, new, ov2, p

\* A suggestion is free and not planned.
LEMMA SuggestionIsFree ==
    ASSUME NEW b, b.host \in Nat, NEW planned, NEW busy, SuggestFreePort(b, planned, busy) # 0
    PROVE  /\ \A i \in DOMAIN planned : planned[i].host # SuggestFreePort(b, planned, busy)
           /\ [protocol |-> b.protocol, port |-> SuggestFreePort(b, planned, busy)] \notin busy
<1> DEFINE start == IF b.host + 1 <= Privileged THEN Privileged + 1 ELSE b.host + 1
           last  == Min({start + PortSuggestScanWindow - 1, MaxPort})
           free  == {p \in start .. last :
                       /\ \A i \in DOMAIN planned : planned[i].host # p
                       /\ [protocol |-> b.protocol, port |-> p] \notin busy}
<1>1. start \in Nat
  BY PortAssumption
<1> HIDE DEF start, last
<1>2. free \subseteq Nat
  BY <1>1
<1>3. free # {} => Min(free) \in free
  <2> HIDE DEF free
  <2>1. QED
    BY <1>2, MinProperties
<1>4. SuggestFreePort(b, planned, busy) = IF free = {} THEN 0 ELSE Min(free)
  BY Zenon DEF SuggestFreePort, free, start, last
<1>5. SuggestFreePort(b, planned, busy) \in free
  <2> HIDE DEF free
  <2>1. QED
    BY <1>3, <1>4
<1>6. QED
  BY <1>5

LEMMA MovedFinite ==
    ASSUME Inv, pc # "idle"
    PROVE  /\ BaseBindings(App) \in Seq(Bindings) /\ IsFiniteSet(DOMAIN BaseBindings(App))
           /\ IsFiniteSet(Movable) /\ IsFiniteSet(Moved) /\ IsFiniteSet(Hit)
           /\ Cardinality(Movable) \in Nat /\ Cardinality(Moved) \in Nat /\ Cardinality(Hit) \in Nat
<1>1. App \in Applications /\ WellFormed(App)
  BY AppTyped DEF Inv, TypeOK, App, Established, CatalogPortBindingsOK, WellFormed
<1>2. BaseBindings(App) \in Seq(Bindings)
  <2>1. PICK at : Indexed(App, at)
    BY <1>1, BaseIndexed DEF WellFormed
  <2>2. QED
    BY <2>1 DEF Indexed
<1>3. IsFiniteSet(DOMAIN BaseBindings(App))
  <2>1. DOMAIN BaseBindings(App) = 1..Len(BaseBindings(App)) /\ Len(BaseBindings(App)) \in Nat
    BY <1>2, LenProperties
  <2>2. QED
    BY <2>1, FS_Interval
<1>4. Movable \subseteq DOMAIN BaseBindings(App) /\ Moved \subseteq DOMAIN BaseBindings(App) /\ Hit \subseteq Moved
  BY DEF Movable, Moved, Hit
<1>5. IsFiniteSet(Movable) /\ IsFiniteSet(Moved)
  BY <1>3, <1>4, FS_Subset
<1>6. IsFiniteSet(Hit)
  BY <1>4, <1>5, FS_Subset
<1>7. QED
  BY <1>2, <1>3, <1>5, <1>6, FS_CardinalityType

\* Steps that leave the overrides, the request and the catalog alone.
LEMMA AccountKept ==
    ASSUME Inv, Accounted, pc # "idle", UNCHANGED <<catalog, req, plan>> \/ (UNCHANGED <<catalog, req>> /\
              plan'.overrides = plan.overrides /\ plan'.attempt = plan.attempt),
           UNCHANGED <<taken, moves>>
    PROVE  Accounted'
<1>1. /\ catalog' = catalog /\ req' = req /\ plan'.overrides = plan.overrides /\ plan'.attempt = plan.attempt
      /\ taken' = taken /\ moves' = moves
  OBVIOUS
<1>2. App' = App /\ Planned' = Planned
  BY <1>1 DEF App, Planned
<1>3. Moved' = Moved /\ Movable' = Movable
  BY <1>1, <1>2 DEF Moved, Movable
<1>4. Hit' = Hit
  BY <1>1, <1>2, <1>3 DEF Hit
<1>5. QED
  BY <1>1, <1>2, <1>3, <1>4 DEF Accounted

\* Another process takes or frees one port: at most one moved binding is hit.
LEMMA AccountOthers ==
    ASSUME Inv, Accounted, pc # "idle", TakePort \/ FreePort
    PROVE  Accounted'
<1> SUFFICES ASSUME NumbersDistinct(App)' PROVE
               /\ (Moved \subseteq Movable)'
               /\ (\A i, j \in Moved : i # j => Socket(Planned[i]) # Socket(Planned[j]))'
               /\ (plan.attempt + Cardinality(Hit) <= moves + Cardinality(Moved))'
  BY DEF Accounted
<1>1. catalog' = catalog /\ req' = req /\ plan' = plan /\ moves' = moves + 1 /\ moves \in Nat
      /\ plan.attempt \in Nat
  BY StackAssumption DEF TakePort, FreePort, Inv, TypeOK
<1>2. App' = App /\ Planned' = Planned
  BY <1>1 DEF App, Planned
<1>3. Moved' = Moved /\ Movable' = Movable
  BY <1>1, <1>2 DEF Moved, Movable
<1>4. /\ Moved \subseteq Movable
      /\ \A i, j \in Moved : i # j => Socket(Planned[i]) # Socket(Planned[j])
      /\ plan.attempt + Cardinality(Hit) <= moves + Cardinality(Moved)
  BY <1>2 DEF Accounted
<1>5. IsFiniteSet(Hit) /\ Cardinality(Hit) \in Nat /\ Cardinality(Moved) \in Nat
  BY MovedFinite
<1>6. Hit' = {i \in Moved : Socket(Planned[i]) \in taken'}
  BY <1>2, <1>3 DEF Hit
<1>7. Cardinality(Hit') \in Nat /\ Cardinality(Hit') <= Cardinality(Hit) + 1
  <2>1. CASE FreePort
    <3>1. taken' \subseteq taken
      BY <2>1 DEF FreePort
    <3>2. Hit' \subseteq Hit
      BY <1>6, <3>1 DEF Hit
    <3>3. QED
      BY <1>5, <3>2, FS_Subset, FS_CardinalityType
  <2>2. CASE TakePort
    <3>1. PICK s : taken' = taken \cup {s}
      BY <2>2 DEF TakePort
    <3>2. CASE \E i \in Moved : Socket(Planned[i]) = s
      <4>1. PICK i \in Moved : Socket(Planned[i]) = s
        BY <3>2
      <4>2. Hit' = Hit \cup {i}
        BY <1>4, <1>6, <3>1, <4>1 DEF Hit
      <4>3. QED
        BY <1>5, <4>2, FS_AddElement
    <3>3. CASE ~\E i \in Moved : Socket(Planned[i]) = s
      <4>1. Hit' = Hit
        BY <1>6, <3>1, <3>3 DEF Hit
      <4>2. QED
        BY <1>5, <4>1
    <3>4. QED
      BY <3>2, <3>3
  <2>3. QED
    BY <2>1, <2>2
<1>8. QED
  BY <1>1, <1>2, <1>3, <1>4, <1>5, <1>7

\* --auto-port moves the first conflict: a binding not moved before, or one
\* whose new port was taken.
LEMMA AccountMove ==
    ASSUME Inv, Accounted, PlanConflict, pc' # "idle"
    PROVE  Accounted'
<1> DEFINE base == BaseBindings(App)
           c == Min(Conflicts)
           p == base[c].host
           q == AutoPort(c)
           ov == plan.overrides
<1>0. pc = "planning" /\ Conflicts # {} /\ CatalogPortBindingsOK(App) /\ TypeOK /\ Shaped
  BY DEF PlanConflict, Inv, Established
<1>1. /\ base \in Seq(Bindings) /\ DOMAIN Planned = DOMAIN base /\ c \in Conflicts /\ c \in DOMAIN base
      /\ base[c] \in Bindings /\ q \in Nat
  BY <1>0, ConflictAt
<1>2. /\ q # 0 /\ UNCHANGED <<catalog, taken, moves, req>>
      /\ plan' = [plan EXCEPT
               !.overrides = [x \in DOMAIN @ \cup {p} |-> IF x = p THEN q ELSE @[x]],
               !.attempt = @ + 1]
  BY DEF PlanConflict, EndInstall
<1> DEFINE ov2 == [x \in DOMAIN ov \cup {p} |-> IF x = p THEN q ELSE ov[x]]
<1>3. plan'.overrides = ov2 /\ plan'.attempt = plan.attempt + 1
  <2> HIDE DEF p, q
  <2>1. QED
    BY <1>0, <1>2 DEF Shaped
<1>4. App' = App /\ Planned = Overridden(base, ov) /\ Planned' = Overridden(base, ov2)
  BY <1>2, <1>3 DEF App, Planned
<1>5. /\ p \notin DOMAIN req.overrides /\ Probe(Planned[c]) # "eacces" /\ Remappable(App, Planned[c])
      /\ q = SuggestFreePort(Planned[c], Planned, taken \cup [protocol : {"tcp", "udp"}, port : DeniedPorts])
  BY <1>2 DEF AutoPort
<1>6. Socket(Planned[c]) \in taken
  <2>1. Probe(Planned[c]) # "free"
    BY <1>1 DEF Conflicts
  <2>2. QED
    BY <1>5, <2>1 DEF Probe
<1>7. PortMap(ov)
  BY <1>0 DEF Shaped
<1>8. /\ Planned \in [DOMAIN base -> Bindings]
      /\ Planned[c].host \in Nat /\ Planned[c].ip = base[c].ip /\ Planned[c].protocol = base[c].protocol
  <2>1. Planned \in [DOMAIN base -> Bindings] /\ Planned[c].ip = base[c].ip /\ Planned[c].protocol = base[c].protocol
    BY <1>1, <1>4, <1>7, OverriddenAre
  <2>2. Planned[c] \in Bindings
    BY <1>1, <2>1
  <2>3. QED
    BY <2>1, <2>2 DEF Bindings
<1>9. /\ \A i \in DOMAIN base : Planned[i].host # q
      /\ [protocol |-> base[c].protocol, port |-> q] \notin taken
  <2>1. /\ \A i \in DOMAIN Planned : Planned[i].host # q
        /\ [protocol |-> Planned[c].protocol, port |-> q]
              \notin taken \cup [protocol : {"tcp", "udp"}, port : DeniedPorts]
    <3> DEFINE b == Planned[c]
               pl == Planned
               busy == taken \cup [protocol : {"tcp", "udp"}, port : DeniedPorts]
    <3>1. b.host \in Nat /\ q = SuggestFreePort(b, pl, busy) /\ q # 0
      BY <1>2, <1>5, <1>8
    <3> HIDE DEF b, pl, busy, q
    <3>2. (\A i \in DOMAIN pl : pl[i].host # q) /\ [protocol |-> b.protocol, port |-> q] \notin busy
      BY <3>1, SuggestionIsFree
    <3>3. QED
      BY <3>2 DEF b, pl, busy
  <2>2. QED
    BY <1>1, <1>8, <2>1
<1> SUFFICES ASSUME NumbersDistinct(App)' PROVE
               /\ (Moved \subseteq Movable)'
               /\ (\A i, j \in Moved : i # j => Socket(Planned[i]) # Socket(Planned[j]))'
               /\ (plan.attempt + Cardinality(Hit) <= moves + Cardinality(Moved))'
  BY DEF Accounted
<1>10. NumbersDistinct(App)
  BY <1>4
<1>11. /\ Moved \subseteq Movable
       /\ \A i, j \in Moved : i # j => Socket(Planned[i]) # Socket(Planned[j])
       /\ plan.attempt + Cardinality(Hit) <= moves + Cardinality(Moved)
  BY <1>0, <1>10 DEF Accounted
<1>12. \A i \in DOMAIN base : base[i].host = p => i = c
  <2>1. base[c].ip = "loopback"
    BY <1>5, <1>8 DEF Remappable
  <2>2. QED
    BY <1>1, <1>10, <2>1, AloneOnNumber
<1> HIDE DEF base, c, q
<1>13. /\ DOMAIN ov2 = DOMAIN ov \cup {p}
       /\ \A i \in DOMAIN base : i # c => Socket(Overridden(base, ov2)[i]) = Socket(Overridden(base, ov)[i])
       /\ Overridden(base, ov2)[c].host = q
       /\ Overridden(base, ov2)[c].protocol = base[c].protocol
       /\ p \notin DOMAIN ov => Overridden(base, ov)[c].host = p
  <2>1. ov2 = Extended(ov, base[c].host, q)
    BY DEF Extended
  <2>2. \A i \in DOMAIN base : base[i].host = base[c].host => i = c
    BY <1>12
  <2> HIDE DEF ov, ov2
  <2>3. MovesOne(base, c, ov, Extended(ov, base[c].host, q), q)
    BY <1>1, <1>7, <2>2, MoveOne
  <2>4. MovesOne(base, c, ov, ov2, q)
    BY <2>1, <2>3
  <2>5. QED
    BY <1>1, <2>4 DEF MovesOne
<1> HIDE DEF p, ov2
<1>14. /\ \A i \in DOMAIN base : i # c => Socket(Planned'[i]) = Socket(Planned[i])
       /\ Socket(Planned'[c]) = [protocol |-> base[c].protocol, port |-> q]
       /\ p \notin DOMAIN ov => Planned[c].host = p
  BY <1>4, <1>13 DEF Socket
<1>15. Moved = {i \in DOMAIN base : base[i].host \in DOMAIN ov \ DOMAIN req.overrides} /\ Movable' = Movable
  BY <1>4 DEF Moved, base, Movable
<1>16. Moved' = Moved \cup {c}
  <2>1. Moved' = {i \in DOMAIN base : base[i].host \in DOMAIN ov2 \ DOMAIN req.overrides}
    BY <1>2, <1>3, <1>4 DEF Moved, base
  <2>2. base[c].host = p
    BY DEF p
  <2>3. QED
    BY <1>1, <1>5, <1>12, <1>13, <1>15, <2>1, <2>2
<1>17. Hit' = Hit \ {c}
  <2>1. Hit' = {i \in Moved \cup {c} : Socket(Planned'[i]) \in taken}
    BY <1>2, <1>16 DEF Hit
  <2>2. Socket(Planned'[c]) \notin taken
    BY <1>9, <1>14
  <2>3. \A i \in Moved : i \in DOMAIN base
    BY <1>15
  <2>4. QED
    BY <1>14, <2>1, <2>2, <2>3 DEF Hit
<1>18. /\ IsFiniteSet(Moved) /\ IsFiniteSet(Hit) /\ Cardinality(Moved) \in Nat /\ Cardinality(Hit) \in Nat
       /\ plan.attempt \in Nat /\ moves \in Nat
  BY <1>0, MovedFinite, StackAssumption DEF TypeOK
<1>19. Moved' \subseteq Movable'
  <2>1. CASE c \in Moved
    BY <1>11, <1>15, <1>16, <2>1
  <2>2. CASE c \notin Moved
    <3>1. p \notin DOMAIN ov
      BY <1>1, <1>5, <1>15, <2>2 DEF p
    <3>2. Planned[c].host = base[c].host /\ Planned[c].ip = base[c].ip
      BY <1>8, <1>14, <3>1 DEF p
    <3>3. Remappable(App, base[c])
      BY <1>5, <3>2 DEF Remappable
    <3>4. c \in Movable
      BY <1>1, <3>3 DEF Movable, base
    <3>5. QED
      BY <1>11, <1>15, <1>16, <3>4
  <2>3. QED
    BY <2>1, <2>2
<1>20. \A i, j \in Moved' : i # j => Socket(Planned'[i]) # Socket(Planned'[j])
  <2>1. \A i \in Moved : i # c => Socket(Planned'[i]) = Socket(Planned[i]) /\ Planned[i].host # q
    BY <1>9, <1>14, <1>15
  <2>2. \A i \in Moved : i # c => Socket(Planned'[i]) # Socket(Planned'[c])
    <3>1. \A i \in Moved : i # c => Socket(Planned'[i]).port # q
      BY <2>1 DEF Socket
    <3>2. Socket(Planned'[c]).port = q
      BY <1>14
    <3>3. QED
      BY <3>1, <3>2
  <2>3. QED
    BY <1>11, <1>16, <2>1, <2>2
<1>21. (plan.attempt + 1) + Cardinality(Hit') <= moves + Cardinality(Moved')
  <2>1. CASE c \in Moved
    <3>1. c \in Hit /\ Moved' = Moved
      BY <1>6, <1>16, <2>1 DEF Hit
    <3>2. Cardinality(Hit') = Cardinality(Hit) - 1
      BY <1>17, <1>18, <3>1, FS_RemoveElement
    <3>3. QED
      BY <1>11, <1>18, <3>1, <3>2
  <2>2. CASE c \notin Moved
    <3>1. Hit' = Hit
      BY <1>17, <2>2 DEF Hit
    <3>2. Cardinality(Moved') = Cardinality(Moved) + 1
      BY <1>16, <1>18, <2>2, FS_AddElement
    <3>3. QED
      BY <1>11, <1>18, <3>1, <3>2
  <2>3. QED
    BY <2>1, <2>2
<1>22. QED
  BY <1>2, <1>3, <1>19, <1>20, <1>21

LEMMA AccountStep ==
    ASSUME Inv, Accounted, [Next]_vars
    PROVE  Accounted'
<1>1. CASE pc' = "idle"
  BY <1>1 DEF Accounted
<1>2. CASE pc' # "idle" /\ pc # "idle"
  <2>1. CASE TakePort \/ FreePort
    BY <1>2, <2>1, AccountOthers
  <2>2. CASE PlanConflict
    BY <1>2, <2>2, AccountMove
  <2>3. CASE PlanBound
    <3>1. plan'.overrides = plan.overrides /\ plan'.attempt = plan.attempt
      <4> DEFINE b == Planned
      <4>1. plan' = [plan EXCEPT !.bound = b]
        BY <2>3 DEF PlanBound
      <4> HIDE DEF b
      <4>2. QED
        BY <4>1 DEF Inv, Shaped
    <3>2. QED
      BY <1>2, <2>3, <3>1, AccountKept DEF PlanBound
  <2>4. CASE RenderInstall
    <3> DEFINE new == RewriteComposeHostPorts(Template(App, req.drift), plan.overrides)
               gp == GuidancePort(App, plan.bound, plan.overrides)
    <3>1. plan' = [plan EXCEPT !.entries = new, !.guidance = gp] /\ UNCHANGED req
      BY <1>2, <2>4 DEF RenderInstall, EndInstall
    <3> HIDE DEF new, gp
    <3>2. plan'.overrides = plan.overrides /\ plan'.attempt = plan.attempt
      BY <3>1 DEF Inv, Shaped
    <3>3. QED
      BY <1>2, <2>4, <3>1, <3>2, AccountKept DEF RenderInstall
  <2>5. CASE RecheckPorts
    <3>1. UNCHANGED <<catalog, req, plan, taken, moves>>
      BY <1>2, <2>5 DEF RecheckPorts, EndInstall
    <3>2. QED
      BY <1>2, <3>1, AccountKept
  <2>6. CASE UNCHANGED vars
    <3>1. UNCHANGED <<catalog, req, plan, taken, moves>>
      BY <2>6 DEF vars
    <3>2. QED
      BY <1>2, <3>1, AccountKept
  <2>7. QED
    BY <1>2, <2>1, <2>2, <2>3, <2>4, <2>5, <2>6 DEF Next, AdvanceCatalog, BeginInstall, PlanRefused,
       InstallUp, EndInstall, UpdateStack, RewireStack, Redeploy, Installed
<1>3. CASE pc' # "idle" /\ pc = "idle"
  <2>1. BeginInstall
    BY <1>3 DEF Next, vars, TakePort, FreePort, AdvanceCatalog, PlanRefused, PlanBound, PlanConflict,
       RenderInstall, RecheckPorts, InstallUp, EndInstall, UpdateStack, RewireStack, Redeploy
  <2>2. PICK d \in 0 .. Len(App.ports), o \in Overrides, a \in BOOLEAN :
          /\ req' = [drift |-> d, overrides |-> o, auto |-> a]
          /\ plan' = [NoPlan EXCEPT !.overrides = o]
    BY <2>1 DEF BeginInstall
  <2>3. plan'.overrides = o /\ plan'.attempt = 0 /\ req'.overrides = o
    BY <2>2 DEF NoPlan
  <2>4. Moved' = {} /\ Hit' = {}
    BY <2>3 DEF Moved, Hit
  <2>5. moves' \in Nat
    BY <2>1, StackAssumption DEF BeginInstall, Inv, TypeOK
  <2>6. Cardinality(Moved') = 0 /\ Cardinality(Hit') = 0
    BY <2>4, FS_EmptySet
  <2>7. QED
    BY <2>3, <2>4, <2>5, <2>6 DEF Accounted
<1>4. QED
  BY <1>1, <1>2, <1>3

\* --auto-port needs one attempt for each port it may move and one more for
\* each change another process makes, for any number of ports, processes and
\* attempts allowed (planPorts, suggestFreePort).
THEOREM AutoPortEnds == Spec => []AutoPortConverges
<1>1. Init => Accounted
  BY DEF Init, Accounted
<1>2. Inv /\ Accounted /\ [Next]_vars => Accounted'
  BY AccountStep
<1>3. ASSUME Inv, Accounted PROVE AutoPortConverges
  <2> SUFFICES ASSUME pc # "idle", NumbersDistinct(App)
               PROVE  plan.attempt <= moves + Cardinality(Movable)
    BY DEF AutoPortConverges, Movable
  <2>1. Moved \subseteq Movable /\ plan.attempt + Cardinality(Hit) <= moves + Cardinality(Moved)
    BY <1>3 DEF Accounted
  <2>2. /\ IsFiniteSet(Movable) /\ Cardinality(Movable) \in Nat /\ Cardinality(Moved) \in Nat
        /\ Cardinality(Hit) \in Nat /\ plan.attempt \in Nat /\ moves \in Nat
    BY <1>3, MovedFinite, StackAssumption DEF Inv, TypeOK
  <2>3. Cardinality(Moved) <= Cardinality(Movable)
    BY <2>1, <2>2, FS_Subset
  <2>4. QED
    BY <2>1, <2>2, <2>3
<1>4. Inv /\ Accounted => AutoPortConverges
  BY <1>3
<1>5. QED
  BY InvHolds, <1>1, <1>2, <1>4, PTL DEF Spec
=============================================================================
