-------------------------- MODULE StackValuesProofs --------------------------
(***************************************************************************)
(* Proofs about StackValues for any catalog, any releases, any requests    *)
(* and any hosts.  What is deployed is compared with the catalog it was    *)
(* last checked against; what .env holds is followed from the operation    *)
(* that put it there through every file rendered from it later.            *)
(***************************************************************************)
EXTENDS StackValues, FiniteSetTheorems, WellFoundedInduction, TLAPS

BuiltinNames == {"UID", "DOCKER_SOCKET_SOURCE"}
Dimensions == {"mem", "cpus", "pids"}

-----------------------------------------------------------------------------
(* The invariant. *)

\* Before the install there are no values.
Blank == ~installed => DOMAIN env = {} /\ DOMAIN limits = {}

\* The compose file is the template of the version it was rendered from, and it
\* has passed the checks of the version it was last verified by.
Checked ==
  installed => doc = Catalogs[renderedBy].doc /\ VerifyDocument(Catalogs[verifiedBy], doc)

\* No operation overwrites a supplied value by a built-in one.
Own == DOMAIN supplied \cap BuiltinNames = {}

\* Each limit knows the version that admitted it.
Dated == setBy \in [DOMAIN limits -> [Dimensions -> DOMAIN Catalogs]]

Inv ==
  /\ TypeOK /\ Blank /\ Checked /\ PublicFilesHoldNoSecret
  /\ Own /\ Dated /\ EscapedOnce /\ SuppliedSurvives

-----------------------------------------------------------------------------
(* Finite sets of numbers, and sums.  What holds of every subset of a finite *)
(* set is shown by a smallest one of which it does not hold.               *)

Less == {ss \in Nat \X Nat : ss[1] < ss[2]}

\* A set of natural numbers that is not empty has a least element.
LEMMA LeastElement ==
  ASSUME NEW S, S \subseteq Nat, S # {}
  PROVE  \E x \in S : \A y \in S : x <= y
<1>1. Less = OpToRel(<, Nat)
  BY Zenon DEF Less, OpToRel
<1>2. IsWellFoundedOn(Less, Nat)
  BY NatLessThanWellFounded, <1>1, Zenon
<1>3. PICK x \in S : \A y \in S : <<y, x>> \notin Less
  BY <1>2, WFMin
<1>4. \A x1, y \in Nat : y < x1 => <<y, x1>> \in Less
  BY SMT DEF Less
<1>5. \A y \in S : ~(y < x)
  BY <1>3, <1>4, Zenon
<1>6. QED
  BY <1>5

\* A bounded set of numbers that is not empty has a greatest element.
LEMMA MaxProperties ==
  ASSUME NEW n \in Nat, NEW S, S \subseteq 1..n, S # {}
  PROVE  Max(S) \in S /\ \A y \in S : y <= Max(S)
<1> DEFINE T == {n - x : x \in S}
<1>1. T \subseteq Nat /\ T # {}
  <2>1. \A x \in S : n - x \in Nat
    OBVIOUS
  <2>2. QED
    BY <2>1
<1>2. PICK t \in T : \A u \in T : t <= u
  BY <1>1, LeastElement, Zenon
<1>3. PICK x \in S : t = n - x
  BY <1>2
<1>4. \A y \in S : n - x <= n - y
  BY <1>2, <1>3
<1>5. \A y \in S : x >= y
  BY <1>4
<1>6. QED
  BY <1>3, <1>5 DEF Max

\* Of the subsets of a finite set with some property, one has it and loses it
\* with any of its elements.
LEMMA Smallest ==
  ASSUME NEW S, IsFiniteSet(S), NEW B, B \subseteq SUBSET S, B # {}
  PROVE  \E s \in B : IsFiniteSet(s) /\ \A x \in s : s \ {x} \notin B
<1>1. \A s \in B : IsFiniteSet(s) /\ Cardinality(s) \in Nat
  BY FS_Subset, FS_CardinalityType
<1> DEFINE C == {Cardinality(s) : s \in B}
<1>2. C \subseteq Nat /\ C # {}
  BY <1>1
<1>3. PICK c \in C : \A d \in C : c <= d
  BY <1>2, LeastElement, Zenon
<1>4. PICK s \in B : c = Cardinality(s)
  BY <1>3
<1>5. ASSUME NEW x \in s, s \ {x} \in B PROVE FALSE
  <2>1. Cardinality(s \ {x}) = Cardinality(s) - 1
    BY <1>1, <1>5, FS_RemoveElement
  <2>2. Cardinality(s) <= Cardinality(s \ {x})
    BY <1>3, <1>4, <1>5
  <2>3. QED
    BY <1>1, <2>1, <2>2
<1>6. QED
  BY <1>1, <1>5

\* A set of numbers up to n that holds 0 and, with k < n, k + 1, holds them all.
LEMMA UpTo ==
  ASSUME NEW n \in Nat, NEW P, 0 \in P, \A k \in 0..(n - 1) : k \in P => k + 1 \in P
  PROVE  n \in P
<1> DEFINE T == 0..n \ P
<1>1. SUFFICES ASSUME T # {} PROVE FALSE
  OBVIOUS
<1>2. T \subseteq Nat
  OBVIOUS
<1>3. PICK x \in T : \A y \in T : x <= y
  BY <1>1, <1>2, LeastElement, Zenon
<1>4. x # 0 /\ x - 1 \in 0..(n - 1) /\ x - 1 \notin T
  BY <1>3
<1>5. (x - 1) + 1 \in P
  BY <1>4
<1>6. QED
  BY <1>3, <1>5

\* The sum over a set: one element's value, and the sum over the rest.
AnyOf(s) == CHOOSE x \in s : TRUE
Adds(w, C, g) == \A s \in C : g[s] = IF s = {} THEN 0 ELSE w[AnyOf(s)] + g[s \ {AnyOf(s)}]

LEMMA AnyOne == \A s : s # {} => AnyOf(s) \in s
BY DEF AnyOf

LEMMA SumsExist ==
  ASSUME NEW S, IsFiniteSet(S), NEW w, \A x \in S : w[x] \in Nat
  PROVE  \E g \in [SUBSET S -> Nat] : Adds(w, SUBSET S, g)
<1> DEFINE Upto(k) == {s \in SUBSET S : Cardinality(s) <= k}
           P == {k \in Nat : \E g \in [Upto(k) -> Nat] : Adds(w, Upto(k), g)}
           n == Cardinality(S)
<1>1. /\ n \in Nat
      /\ \A s \in SUBSET S : IsFiniteSet(s) /\ Cardinality(s) \in Nat /\ Cardinality(s) <= n
  BY FS_Subset, FS_CardinalityType
<1>2. 0 \in P
  <2> DEFINE g == [s \in Upto(0) |-> 0]
  <2>1. Upto(0) \subseteq {{}}
    <3>1. \A s \in Upto(0) : Cardinality(s) = 0
      BY <1>1
    <3>2. QED
      BY <1>1, <3>1, FS_EmptySet
  <2>2. g \in [Upto(0) -> Nat] /\ Adds(w, Upto(0), g)
    BY <2>1 DEF Adds
  <2>3. QED
    BY <2>2
<1>3. ASSUME NEW k \in 0..(n - 1), k \in P PROVE k + 1 \in P
  <2>1. PICK g \in [Upto(k) -> Nat] : Adds(w, Upto(k), g)
    BY <1>3
  <2> DEFINE h == [s \in Upto(k + 1) |-> IF s \in Upto(k) THEN g[s] ELSE w[AnyOf(s)] + g[s \ {AnyOf(s)}]]
  <2>2. k \in Nat /\ Upto(k) \subseteq Upto(k + 1)
    BY <1>1
  <2>3. ASSUME NEW s \in Upto(k + 1), s # {}
        PROVE  AnyOf(s) \in S /\ s \ {AnyOf(s)} \in Upto(k) /\ w[AnyOf(s)] \in Nat
    <3>1. AnyOf(s) \in s
      BY <2>3, AnyOne
    <3>2. Cardinality(s \ {AnyOf(s)}) = Cardinality(s) - 1
      BY <1>1, <3>1, FS_RemoveElement
    <3>3. QED
      BY <1>1, <2>2, <3>1, <3>2
  <2>4. {} \in Upto(k)
    BY <2>2, FS_EmptySet
  <2>5. h \in [Upto(k + 1) -> Nat]
    <3>1. ASSUME NEW s \in Upto(k + 1) PROVE h[s] \in Nat
      <4>1. CASE s \in Upto(k)
        BY <2>1, <4>1
      <4>2. CASE s \notin Upto(k)
        <5>1. s # {} /\ h[s] = w[AnyOf(s)] + g[s \ {AnyOf(s)}]
          BY <2>4, <4>2
        <5>2. w[AnyOf(s)] \in Nat /\ g[s \ {AnyOf(s)}] \in Nat
          BY <2>1, <2>3, <5>1
        <5>3. QED
          BY <5>1, <5>2
      <4>3. QED
        BY <4>1, <4>2
    <3>2. QED
      BY <3>1
  <2>6. Adds(w, Upto(k + 1), h)
    <3> SUFFICES ASSUME NEW s \in Upto(k + 1)
                 PROVE  h[s] = IF s = {} THEN 0 ELSE w[AnyOf(s)] + h[s \ {AnyOf(s)}]
      BY DEF Adds
    <3>1. s # {} => h[s \ {AnyOf(s)}] = g[s \ {AnyOf(s)}]
      BY <2>2, <2>3
    <3>2. CASE s \in Upto(k)
      BY <2>1, <3>1, <3>2 DEF Adds
    <3>3. CASE s \notin Upto(k)
      BY <2>4, <3>1, <3>3
    <3>4. QED
      BY <3>2, <3>3
  <2> HIDE DEF h
  <2>7. k + 1 \in Nat /\ \E g1 \in [Upto(k + 1) -> Nat] : Adds(w, Upto(k + 1), g1)
    <3> HIDE DEF Upto
    <3>1. QED
      BY <2>2, <2>5, <2>6
  <2>8. QED
    BY <2>7
<1>4. n \in P
  <2> HIDE DEF P
  <2>1. QED
    BY <1>1, <1>2, <1>3, UpTo
<1>5. Upto(n) = SUBSET S
  BY <1>1
<1>6. QED
  BY <1>4, <1>5

Splits(w, S, g) == \A s \in SUBSET S : \A y \in s : g[s] = w[y] + g[s \ {y}]

\* The order of adding does not matter.
LEMMA SumSplits ==
  ASSUME NEW S, IsFiniteSet(S), NEW w, \A x \in S : w[x] \in Nat,
         NEW g \in [SUBSET S -> Nat], Adds(w, SUBSET S, g)
  PROVE  Splits(w, S, g)
<1> DEFINE B == {s \in SUBSET S : \E y \in s : g[s] # w[y] + g[s \ {y}]}
<1>1. ASSUME B # {} PROVE FALSE
  <2>1. PICK s \in B : \A x \in s : s \ {x} \notin B
    BY <1>1, Smallest, Zenon
  <2>2. PICK y \in s : g[s] # w[y] + g[s \ {y}]
    BY <2>1
  <2> DEFINE x == AnyOf(s)
  <2>3. x \in s /\ s \in SUBSET S
    BY <2>1, <2>2, AnyOne
  <2>4. g[s] = w[x] + g[s \ {x}]
    BY <2>2, <2>3 DEF Adds
  <2> HIDE DEF x
  <2>5. x # y
    BY <2>2, <2>4
  <2>6. g[s \ {x}] = w[y] + g[(s \ {x}) \ {y}]
    <3>1. s \ {x} \in SUBSET S /\ s \ {x} \notin B /\ y \in s \ {x}
      BY <2>1, <2>2, <2>3, <2>5
    <3>2. QED
      BY <3>1
  <2>7. g[s \ {y}] = w[x] + g[(s \ {y}) \ {x}]
    <3>1. s \ {y} \in SUBSET S /\ s \ {y} \notin B /\ x \in s \ {y}
      BY <2>1, <2>2, <2>3, <2>5
    <3>2. QED
      BY <3>1
  <2>8. (s \ {x}) \ {y} = (s \ {y}) \ {x} /\ (s \ {x}) \ {y} \in SUBSET S
    BY <2>3
  <2>9. w[x] \in Nat /\ w[y] \in Nat /\ g[(s \ {x}) \ {y}] \in Nat
    BY <2>2, <2>3, <2>8
  <2> DEFINE rest == g[(s \ {x}) \ {y}]
  <2>10. g[s] = w[x] + (w[y] + rest) /\ g[s \ {y}] = w[x] + rest /\ rest \in Nat
    BY <2>4, <2>6, <2>7, <2>8, <2>9
  <2> HIDE DEF rest
  <2>11. QED
    BY <2>2, <2>9, <2>10
<1>2. QED
  BY <1>1 DEF Splits

\* SumFunctionOnSet is the sum over the whole set.
LEMMA SumIs ==
  ASSUME NEW S, IsFiniteSet(S), NEW w, \A x \in S : w[x] \in Nat
  PROVE  \E g \in [SUBSET S -> Nat] : g[{}] = 0 /\ Splits(w, S, g) /\ SumFunctionOnSet(w, S) = g[S]
<1> DEFINE Rec(g) == g = [s \in SUBSET S |-> IF s = {} THEN 0 ELSE w[AnyOf(s)] + g[s \ {AnyOf(s)}]]
           f == CHOOSE g : Rec(g)
<1>1. SumFunctionOnSet(w, S) = f[S]
  BY Zenon DEF SumFunctionOnSet, FoldFunctionOnSet, MapThenFoldSet, AnyOf
<1>2. PICK g \in [SUBSET S -> Nat] : Adds(w, SUBSET S, g)
  BY SumsExist
<1>3. Rec(g)
  BY <1>2 DEF Adds
<1>4. Rec(f)
  BY <1>3, Zenon
<1>5. \A s \in SUBSET S : f[s] = IF s = {} THEN 0 ELSE w[AnyOf(s)] + f[s \ {AnyOf(s)}]
  <2> HIDE DEF f
  <2>1. QED
    BY <1>4
<1> HIDE DEF f
<1>6. ASSUME NEW B, B = {s \in SUBSET S : f[s] # g[s]}, B # {} PROVE FALSE
  <2>1. PICK s \in B : \A x \in s : s \ {x} \notin B
    BY <1>6, Smallest
  <2>2. s # {} => f[s \ {AnyOf(s)}] = g[s \ {AnyOf(s)}]
    BY <1>6, <2>1, AnyOne
  <2>3. QED
    BY <1>2, <1>5, <1>6, <2>1, <2>2 DEF Adds
<1>7. f[S] = g[S]
  <2>1. {s \in SUBSET S : f[s] # g[s]} = {}
    BY <1>6, Zenon
  <2>2. QED
    BY <2>1
<1>8. Splits(w, S, g)
  BY <1>2, SumSplits
<1>9. g[{}] = 0
  BY <1>2 DEF Adds
<1>10. QED
  BY <1>1, <1>2, <1>7, <1>8, <1>9

\* The sum of natural numbers is one.
LEMMA SumNat ==
  ASSUME NEW S, IsFiniteSet(S), NEW w, \A x \in S : w[x] \in Nat
  PROVE  SumFunctionOnSet(w, S) \in Nat
<1>1. PICK g \in [SUBSET S -> Nat] : SumFunctionOnSet(w, S) = g[S]
  BY SumIs
<1>2. QED
  BY <1>1

LEMMA ModSmall ==
  ASSUME NEW x \in Nat, NEW m \in Nat, x < m
  PROVE  x % m = x
OBVIOUS

\* A set whose elements have, each, one of another set with the same value has no
\* larger a sum.
LEMMA SumThrough ==
  ASSUME NEW S, NEW T, IsFiniteSet(T),
         NEW w, NEW v, \A y \in T : v[y] \in Nat,
         NEW h \in [S -> T], \A x, y \in S : h[x] = h[y] => x = y,
         \A x \in S : w[x] = v[h[x]]
  PROVE  IsFiniteSet(S) /\ SumFunctionOnSet(w, S) <= SumFunctionOnSet(v, T)
<1>0. IsFiniteSet(S)
  <2>1. h \in Injection(S, T)
    BY DEF Injection, IsInjective
  <2>2. QED
    BY <2>1, FS_Injection
<1>1. \A x \in S : w[x] \in Nat
  OBVIOUS
<1>2. PICK g \in [SUBSET S -> Nat] : g[{}] = 0 /\ Splits(w, S, g) /\ SumFunctionOnSet(w, S) = g[S]
  BY <1>0, <1>1, SumIs
<1>3. PICK f \in [SUBSET T -> Nat] : f[{}] = 0 /\ Splits(v, T, f) /\ SumFunctionOnSet(v, T) = f[T]
  BY SumIs
<1>4. \A t \in SUBSET T : \A y \in t : f[t] = v[y] + f[t \ {y}]
  BY <1>3 DEF Splits
<1> DEFINE Image(s) == {h[x] : x \in s}
           B == {s \in SUBSET S : f[Image(s)] # g[s]}
           C == {t \in SUBSET T : Image(S) \subseteq t /\ ~(f[Image(S)] <= f[t])}
<1>5. ASSUME B # {} PROVE FALSE
  <2>1. PICK s \in B : \A x \in s : s \ {x} \notin B
    <3>1. B \subseteq SUBSET S
      OBVIOUS
    <3> HIDE DEF B
    <3>2. QED
      BY <1>0, <1>5, <3>1, Smallest, Zenon
  <2>2. CASE s = {}
    <3>1. Image(s) = {} /\ g[s] = 0 /\ f[Image(s)] = 0
      BY <1>2, <1>3, <2>2
    <3>2. QED
      BY <2>1, <3>1
  <2>3. CASE s # {}
    <3>1. PICK x \in s : g[s] = w[x] + g[s \ {x}]
      BY <1>2, <2>1, <2>3 DEF Splits
    <3>2. f[Image(s)] = v[h[x]] + f[Image(s) \ {h[x]}]
      BY <1>4, <2>1, <3>1
    <3>3. Image(s) \ {h[x]} = Image(s \ {x})
      BY <2>1, <3>1
    <3>4. f[Image(s \ {x})] = g[s \ {x}]
      BY <2>1, <3>1
    <3>5. QED
      BY <2>1, <3>1, <3>2, <3>3, <3>4
  <2>4. QED
    BY <2>2, <2>3
<1>6. ASSUME C # {} PROVE FALSE
  <2>1. PICK t \in C : \A y \in t : t \ {y} \notin C
    <3>1. C \subseteq SUBSET T
      OBVIOUS
    <3> HIDE DEF C
    <3>2. QED
      BY <1>6, <3>1, Smallest, Zenon
  <2>2. t # Image(S)
    <3>1. Image(S) \in SUBSET T /\ f[Image(S)] \in Nat
      BY <1>3
    <3>2. f[Image(S)] <= f[Image(S)]
      BY <3>1
    <3>3. QED
      BY <2>1, <3>2
  <2>3. PICK y \in t : y \notin Image(S)
    BY <2>1, <2>2
  <2>4. f[t] = v[y] + f[t \ {y}]
    BY <1>4, <2>1, <2>3
  <2>5. f[Image(S)] <= f[t \ {y}]
    BY <2>1, <2>3
  <2>6. v[y] \in Nat /\ f[t \ {y}] \in Nat /\ f[Image(S)] \in Nat /\ f[t] \in Nat
    BY <1>3, <2>1, <2>3
  <2>7. QED
    BY <2>1, <2>4, <2>5, <2>6
<1>7. f[Image(S)] = g[S]
  BY <1>5
<1>8. f[Image(S)] <= f[T]
  <2>1. T \in SUBSET T /\ Image(S) \subseteq T
    OBVIOUS
  <2>2. T \notin C
    BY <1>6
  <2>3. QED
    BY <2>1, <2>2
<1>9. QED
  BY <1>0, <1>2, <1>3, <1>7, <1>8

-----------------------------------------------------------------------------
(* The operators of the model. *)

\* There is one function on the empty set.
LEMMA EmptyFunction == \A f : DOMAIN f = {} /\ f \in [DOMAIN f -> STRING] => f = << >>
OBVIOUS

\* Built-in values have names of their own.
LEMMA BuiltinDomain == \A host : DOMAIN Builtins(host) = BuiltinNames
BY DEF Builtins, BuiltinNames

\* What is regenerated is a secret.
LEMMA RegeneratedSecret == \A app : Regenerated(app) \subseteq SecretNames(app)
BY DEF Regenerated, SecretNames

\* Secrets are placeholders.
LEMMA SecretNamed == \A app : SecretNames(app) \subseteq Names(app)
BY DEF SecretNames, Names, ToSet

\* The declaration of a name is the one with that name.
LEMMA DeclNamed ==
  ASSUME NEW app, NoDuplicates(app), NEW i \in DOMAIN app.placeholders
  PROVE  Decl(app, app.placeholders[i].name) = app.placeholders[i]
<1> DEFINE j == CHOOSE k \in DOMAIN app.placeholders : app.placeholders[k].name = app.placeholders[i].name
<1>1. j \in DOMAIN app.placeholders /\ app.placeholders[j].name = app.placeholders[i].name
  OBVIOUS
<1>2. j = i
  BY <1>1 DEF NoDuplicates
<1>3. QED
  BY <1>2 DEF Decl

\* What a generated secret is.
LEMMA FreshShape ==
  ASSUME NEW app, NEW n, rounds \in Nat
  PROVE  /\ FreshSecret(app, n).text # Word(Refused)
         /\ FreshSecret(app, n).dollars \in {0, 1}
BY DEF FreshSecret, Word

\* What a given value is.
LEMMA PlainShape ==
  ASSUME NEW t, t # Refused
  PROVE  Plain(t).text # Word(Refused) /\ Plain(t).dollars \in {0, 1}
BY DEF Plain, Word

-----------------------------------------------------------------------------
(* What a document that passed the checks is. *)

\* Capabilities and sysctls are those the catalog declares.
LEMMA Privileges == ASSUME Inv PROVE LeastPrivilege
<1> SUFFICES ASSUME NEW s \in Deployed
             PROVE  LET own == {h \in HardeningOf(Catalogs[verifiedBy]) : h.service = s}
                        caps == CapabilitySet(doc[s].capAdd)
                    IN  /\ caps = UNION {CapabilitySet(h.caps) : h \in own} /\ caps \subseteq AllowedCapabilities
                        /\ caps # {} => CapDropContainsAll(doc[s])
                        /\ \A h \in own : doc[s].sysctls = h.sysctls
                        /\ own = {} => doc[s].sysctls = << >>
                        /\ ~doc[s].privileged /\ ~doc[s].devices
  BY DEF LeastPrivilege
<1> DEFINE app == Catalogs[verifiedBy]
           own == {h \in HardeningOf(app) : h.service = s}
           caps == CapabilitySet(doc[s].capAdd)
<1>1. installed /\ s \in DOMAIN doc
  BY DEF Deployed
<1>2. VerifyPrivilegeBounds(app, doc) /\ VerifyPrivilegeParity(app, doc)
  BY <1>1 DEF Inv, Checked, VerifyDocument, VerifyContainerPrivilege
<1>3. \A h \in own : CapabilitySet(h.caps) = caps /\ doc[s].sysctls = h.sysctls
  BY <1>2 DEF VerifyPrivilegeParity
<1>4. caps \subseteq AllowedCapabilities /\ ~doc[s].devices /\ ~doc[s].privileged
  BY <1>1, <1>2 DEF VerifyPrivilegeBounds
<1>5. caps # {} => CapDropContainsAll(doc[s])
  <2>1. caps # {} => doc[s].capAdd # {}
    BY DEF CapabilitySet
  <2>2. QED
    BY <1>1, <1>2, <2>1 DEF VerifyPrivilegeBounds
<1>6. own = {} => doc[s].capAdd = {} /\ DOMAIN doc[s].sysctls = {}
  BY <1>1, <1>2 DEF VerifyPrivilegeBounds, DeclaredHardeningServices
<1>7. own = {} => doc[s].sysctls = << >>
  <2>1. doc[s].sysctls \in [DOMAIN doc[s].sysctls -> STRING]
    BY <1>1, ValuesAssumption DEF Inv, Checked, TypeOK
  <2>2. QED
    BY <1>6, <2>1, EmptyFunction, Zenon
<1>8. caps = UNION {CapabilitySet(h.caps) : h \in own}
  <2>1. CASE own = {}
    BY <1>6, <2>1 DEF CapabilitySet
  <2>2. CASE own # {}
    BY <1>3, <2>2
  <2>3. QED
    BY <2>1, <2>2
<1>9. QED
  BY <1>3, <1>4, <1>5, <1>7, <1>8

\* Only the declared and enabled proxy has the socket, behind internal networks.
LEMMA Sockets == ASSUME Inv PROVE SocketConfined
<1> SUFFICES ASSUME NEW s \in Deployed, MountsSocket(doc[s])
             PROVE  LET app == Catalogs[verifiedBy]
                    IN  /\ s \in PinnedServices(app)
                        /\ doc[s].netmode # "host"
                        /\ DOMAIN doc[s].nets # {}
                        /\ \A n \in DOMAIN doc[s].nets : \E m \in ToSet(app.networks) : m.name = n /\ m.internal
  BY DEF SocketConfined
<1> DEFINE app == Catalogs[verifiedBy]
<1>1. installed /\ s \in DOMAIN doc
  BY DEF Deployed
<1>2. VerifyNoHostNetwork(doc) /\ VerifySocketPolicy(app, doc)
  BY <1>1 DEF Inv, Checked, VerifyDocument
<1>3. s \in ProxyServices(app)
  BY <1>1, <1>2 DEF VerifySocketPolicy, VerifyNoDirectSocketMount
<1>4. app.proxy.declared /\ s = app.proxy.service /\ s # ""
  BY <1>3 DEF ProxyServices
<1>5. s \in PinnedServices(app)
  BY <1>2, <1>4 DEF VerifySocketPolicy, VerifySocketDeclaration, PinnedServices
<1>6. DOMAIN doc[s].nets # {} /\ DOMAIN doc[s].nets \subseteq InternalNetworkNames(app)
  BY <1>2, <1>3 DEF VerifySocketPolicy, VerifyProxyNetworkInternal
<1>7. \A n \in DOMAIN doc[s].nets : \E m \in ToSet(app.networks) : m.name = n /\ m.internal
  BY <1>6 DEF InternalNetworkNames
<1>8. QED
  BY <1>1, <1>2, <1>5, <1>6, <1>7 DEF VerifyNoHostNetwork

\* The module tree is mounted where it is declared, read-only.
LEMMA Modules == ASSUME Inv PROVE ModulesReadOnly
<1> SUFFICES ASSUME NEW s \in Deployed,
                    \/ {doc[s].volumes[i] : i \in MountsModules(doc[s])} # {}
                    \/ s \in ModuleMountServices(Catalogs[verifiedBy])
             PROVE  /\ s \in ModuleMountServices(Catalogs[verifiedBy])
                    /\ \E v \in {doc[s].volumes[i] : i \in MountsModules(doc[s])} :
                          IsHostModuleSource(v.target) /\ IsReadOnly(v)
  BY DEF ModulesReadOnly
<1>1. installed /\ s \in DOMAIN doc
  BY DEF Deployed
<1>2. VerifyHostModuleMount(Catalogs[verifiedBy], doc)
  BY <1>1 DEF Inv, Checked, VerifyDocument
<1>3. s \in ModuleMountServices(Catalogs[verifiedBy])
  BY <1>1, <1>2 DEF VerifyHostModuleMount, VerifyModuleMountBounds
<1>4. QED
  BY <1>2, <1>3 DEF VerifyHostModuleMount, VerifyModuleMountParity

\* A pinned address has a declaration.
LEMMA Addresses == ASSUME Inv PROVE AddressesDeclared
<1> SUFFICES ASSUME NEW s \in Deployed, NEW n \in DOMAIN doc[s].nets, doc[s].nets[n] # NoAddr
             PROVE  \E m \in ToSet(Catalogs[verifiedBy].networks) :
                      /\ m.name = n /\ m.ipam
                      /\ \E a \in ToSet(m.addresses) : a.service = s /\ a.addr = doc[s].nets[n]
                      /\ InSubnet(m.subnet, doc[s].nets[n])
  BY DEF AddressesDeclared
<1> DEFINE app == Catalogs[verifiedBy]
<1>1. installed /\ s \in DOMAIN doc
  BY DEF Deployed
<1>2. VerifyIPAMDeclarations(app) /\ VerifyIPAMParity(app, doc) /\ VerifyIPAMBounds(app, doc)
  BY <1>1 DEF Inv, Checked, VerifyDocument, VerifyNetworkIPAM
<1>3. PICK d \in DeclaredIPAM(app) : DeclaredNetwork(app, d).name = n /\ DeclaredAddress(app, d).service = s
  BY <1>1, <1>2 DEF VerifyIPAMBounds
<1>4. d \in AddressPlaces(app)
  BY <1>3 DEF DeclaredIPAM
<1>5. PICK i \in DOMAIN app.networks : app.networks[i].ipam /\ \E j \in DOMAIN app.networks[i].addresses : d = <<i, j>>
  BY <1>4 DEF AddressPlaces
<1>6. PICK j \in DOMAIN app.networks[i].addresses : d = <<i, j>>
  BY <1>5
<1> DEFINE m == app.networks[i]
           a == m.addresses[j]
<1>7. DeclaredNetwork(app, d) = m /\ DeclaredAddress(app, d) = a
  BY <1>6 DEF DeclaredNetwork, DeclaredAddress
<1>8. doc[s].nets[n] = a.addr
  BY <1>2, <1>3, <1>7 DEF VerifyIPAMParity
<1>9. m \in ToSet(app.networks) /\ a \in ToSet(m.addresses)
  BY <1>5, <1>6 DEF ToSet
<1>10. InSubnet(m.subnet, a.addr)
  BY <1>2, <1>5, <1>9 DEF VerifyIPAMDeclarations, AddressOK
<1>11. QED
  BY <1>3, <1>5, <1>7, <1>8, <1>9, <1>10

-----------------------------------------------------------------------------
(* The steps. *)

\* What every operation that renders a stack establishes about its files.
LEMMA Written ==
  ASSUME NEW app, app = Catalogs[cat], cat \in DOMAIN Catalogs, NEW values, NEW sized,
         app.envKeys \subseteq DOMAIN values,
         VerifyDocument(app, app.doc),
         NonSecretArtifactsOK(app, values, Texts(values, SecretNames(app) \cup SensitiveNames(app))),
         WriteStack(app, values, sized)
  PROVE  /\ Blank' /\ Checked' /\ PublicFilesHoldNoSecret'
         /\ DOMAIN env' \subseteq DOMAIN values
         /\ \A n \in DOMAIN env' : env'[n] = values[n]
         /\ limits' = sized /\ installed' = TRUE
         /\ renderedBy' \in DOMAIN Catalogs /\ verifiedBy' \in DOMAIN Catalogs
<1>1. /\ installed' = TRUE /\ limits' = sized /\ doc' = app.doc /\ renderedBy' = cat /\ verifiedBy' = cat
      /\ inlined' = Texts(values, app.composeKeys) /\ shown' = Texts(values, PublicFileKeys(app))
  BY DEF WriteStack
<1>2. DOMAIN env' = app.envKeys /\ \A n \in DOMAIN env' : env'[n] = values[n]
  BY DEF WriteStack, Restrict
<1>3. Checked'
  BY <1>1 DEF Checked
<1>4. Texts(env', (SecretNames(app) \cup SensitiveNames(app)) \cap DOMAIN env')
        \subseteq Texts(values, SecretNames(app) \cup SensitiveNames(app))
  BY <1>2 DEF Texts
<1>5. PublicFilesHoldNoSecret'
  BY <1>1, <1>4 DEF PublicFilesHoldNoSecret, NonSecretArtifactsOK
<1>6. Blank'
  BY <1>1 DEF Blank
<1>7. QED
  BY <1>1, <1>2, <1>3, <1>5, <1>6

\* A fresh install.
LEMMA InstallStep ==
  ASSUME Inv, NEW req \in Requests, NEW host \in Hosts, Install(req, host)
  PROVE  Inv'
<1> DEFINE app == App
           user == UserValues(app, req, host)
           values == RenderInput(app, user, host)
<1>1. cat \in DOMAIN Catalogs /\ rounds \in 0..MaxRounds /\ MaxRounds \in Nat
  BY ValuesAssumption DEF Inv, TypeOK
<1>2. /\ rounds < MaxRounds /\ rounds' = rounds + 1 /\ cat' = cat
      /\ PlanPlaceholdersOK(app, req, host)
      /\ supplied' = user
      /\ setBy' = [k \in {p.key : p \in Profiles(app)} |-> [mem |-> cat, cpus |-> cat, pids |-> cat]]
      /\ WriteStack(app, values, Selected(app, req, host))
  BY DEF Install
<1>3. /\ Blank' /\ Checked' /\ PublicFilesHoldNoSecret'
      /\ DOMAIN env' \subseteq DOMAIN values
      /\ \A n \in DOMAIN env' : env'[n] = values[n]
      /\ limits' = Selected(app, req, host) /\ installed' = TRUE
      /\ renderedBy' \in DOMAIN Catalogs /\ verifiedBy' \in DOMAIN Catalogs
  <2>1. /\ app.envKeys \subseteq DOMAIN values
        /\ VerifyDocument(app, app.doc)
        /\ NonSecretArtifactsOK(app, values, Texts(values, SecretNames(app) \cup SensitiveNames(app)))
    BY DEF Install, RenderOK
  <2>2. app = Catalogs[cat]
    BY DEF App
  <2> HIDE DEF app, values
  <2>3. QED
    BY <1>1, <1>2, <2>1, <2>2, Written
<1>4. DOMAIN user = Names(app) \ SecretNames(app) /\ \A n \in DOMAIN user : user[n] # Refused
  BY <1>2 DEF UserValues, PlanPlaceholdersOK
<1>5. DOMAIN user \cap BuiltinNames = {}
  BY <1>2, <1>4, BuiltinDomain DEF PlanPlaceholdersOK, NamesFree
<1>6. /\ DOMAIN values = SecretNames(app) \cup DOMAIN user \cup BuiltinNames
      /\ \A n \in SecretNames(app) : values[n] = FreshSecret(app, n)
      /\ \A n \in DOMAIN user : values[n] = Plain(user[n])
      /\ \A n \in BuiltinNames \ SecretNames(app) : values[n] = Plain(Builtins(host)[n])
  BY <1>4, <1>5, BuiltinDomain DEF RenderInput
<1>7. \A n \in BuiltinNames : Builtins(host)[n] # Refused
  BY ValuesAssumption DEF Builtins, BuiltinNames
<1>8. \A n \in DOMAIN values : values[n].text # Word(Refused) /\ values[n].dollars \in {0, 1}
  <2> HIDE DEF app, user, values
  <2> TAKE n \in DOMAIN values
  <2>1. CASE n \in SecretNames(app)
    BY <1>1, <1>6, <2>1, FreshShape
  <2>2. CASE n \in DOMAIN user
    <3>1. user[n] # Refused /\ values[n] = Plain(user[n])
      BY <1>4, <1>6, <2>2
    <3>2. QED
      BY <3>1, PlainShape
  <2>3. CASE n \in BuiltinNames \ SecretNames(app)
    BY <1>6, <1>7, <2>3, PlainShape
  <2>4. QED
    BY <1>6, <2>1, <2>2, <2>3
<1> HIDE DEF app, user, values
<1>9. Dated' /\ DOMAIN setBy' = DOMAIN limits'
  <2>1. DOMAIN limits' = {p.key : p \in Profiles(app)}
    BY <1>3 DEF Selected
  <2>2. [mem |-> cat, cpus |-> cat, pids |-> cat] \in [Dimensions -> DOMAIN Catalogs]
    BY <1>1 DEF Dimensions
  <2>3. QED
    BY <1>2, <2>1, <2>2 DEF Dated
<1>10. TypeOK'
  <2>1. rounds' \in 0..MaxRounds /\ cat' \in DOMAIN Catalogs
    BY <1>1, <1>2
  <2>2. \A n \in DOMAIN env' : env'[n].text # Word(Refused) /\ env'[n].dollars \in Nat
    BY <1>3, <1>8
  <2>3. QED
    BY <1>3, <1>9, <2>1, <2>2 DEF TypeOK
<1>11. EscapedOnce'
  BY <1>3, <1>8 DEF EscapedOnce
<1>12. SuppliedSurvives'
  BY <1>2, <1>3, <1>6 DEF SuppliedSurvives, Plain
<1>13. Own'
  BY <1>2, <1>5 DEF Own
<1>14. QED
  BY <1>3, <1>9, <1>10, <1>11, <1>12, <1>13 DEF Inv

\* What an update renders with.
LEMMA UpdateValues ==
  ASSUME Inv, NEW host \in Hosts, NEW app
  PROVE  LET values == UpdateInput(app, host)
         IN  /\ DOMAIN values = Regenerated(app) \cup BuiltinNames \cup DOMAIN env
             /\ \A n \in DOMAIN values : values[n].text # Word(Refused) /\ values[n].dollars \in {0, 1}
             /\ \A n \in DOMAIN values \ (Regenerated(app) \cup BuiltinNames) : n \in DOMAIN env /\ values[n] = env[n]
<1> DEFINE values == UpdateInput(app, host)
<1>1. /\ DOMAIN values = Regenerated(app) \cup BuiltinNames \cup DOMAIN env
      /\ \A n \in Regenerated(app) : values[n] = FreshSecret(app, n)
      /\ \A n \in BuiltinNames \ Regenerated(app) : values[n] = Plain(Builtins(host)[n])
      /\ \A n \in DOMAIN env \ (Regenerated(app) \cup BuiltinNames) : values[n] = env[n]
  BY BuiltinDomain DEF UpdateInput, Reused
<1>2. \A n \in BuiltinNames : Builtins(host)[n] # Refused
  BY ValuesAssumption DEF Builtins, BuiltinNames
<1>3. rounds \in Nat
  BY ValuesAssumption DEF Inv, TypeOK
<1> HIDE DEF values
<1>4. ASSUME NEW n \in DOMAIN values PROVE values[n].text # Word(Refused) /\ values[n].dollars \in {0, 1}
  <2>1. CASE n \in Regenerated(app)
    BY <1>1, <1>3, <2>1, FreshShape
  <2>2. CASE n \in BuiltinNames \ Regenerated(app)
    BY <1>1, <1>2, <2>2, PlainShape
  <2>3. CASE n \in DOMAIN env \ (Regenerated(app) \cup BuiltinNames)
    BY <1>1, <2>3 DEF Inv, TypeOK, EscapedOnce
  <2>4. QED
    BY <1>1, <1>4, <2>1, <2>2, <2>3
<1>5. QED
  BY <1>1, <1>4 DEF values

\* An update.
LEMMA UpdateStep ==
  ASSUME Inv, NEW host \in Hosts, UpdateStack(host)
  PROVE  Inv'
<1> DEFINE app == App
           values == UpdateInput(app, host)
           keys == {p.key : p \in Profiles(app)}
<1>1. cat \in DOMAIN Catalogs /\ rounds \in 0..MaxRounds /\ MaxRounds \in Nat
  BY ValuesAssumption DEF Inv, TypeOK
<1>2. /\ rounds < MaxRounds /\ rounds' = rounds + 1 /\ cat' = cat
      /\ keys \subseteq DOMAIN limits
      /\ supplied' = Restrict(supplied, DOMAIN supplied \ SecretNames(app))
      /\ setBy' = Restrict(setBy, keys)
      /\ WriteStack(app, values, Restrict(limits, keys))
  BY DEF UpdateStack
<1>3. /\ Blank' /\ Checked' /\ PublicFilesHoldNoSecret'
      /\ DOMAIN env' \subseteq DOMAIN values
      /\ \A n \in DOMAIN env' : env'[n] = values[n]
      /\ limits' = Restrict(limits, keys) /\ installed' = TRUE
      /\ renderedBy' \in DOMAIN Catalogs /\ verifiedBy' \in DOMAIN Catalogs
  <2>1. /\ app.envKeys \subseteq DOMAIN values
        /\ VerifyDocument(app, app.doc)
        /\ NonSecretArtifactsOK(app, values, Texts(values, SecretNames(app) \cup SensitiveNames(app)))
    BY DEF UpdateStack, RenderOK
  <2>2. app = Catalogs[cat]
    BY DEF App
  <2> HIDE DEF app, values, keys
  <2>3. QED
    BY <1>1, <1>2, <2>1, <2>2, Written
<1>4. /\ DOMAIN values = Regenerated(app) \cup BuiltinNames \cup DOMAIN env
      /\ \A n \in DOMAIN values : values[n].text # Word(Refused) /\ values[n].dollars \in {0, 1}
      /\ \A n \in DOMAIN values \ (Regenerated(app) \cup BuiltinNames) : n \in DOMAIN env /\ values[n] = env[n]
  BY UpdateValues
<1> HIDE DEF app, values, keys
<1>5. Dated' /\ DOMAIN setBy' = DOMAIN limits'
  <2>1. DOMAIN limits' = keys /\ DOMAIN setBy' = keys
    BY <1>2, <1>3 DEF Restrict
  <2>2. \A k \in keys : setBy[k] \in [Dimensions -> DOMAIN Catalogs]
    BY <1>2 DEF Inv, Dated
  <2>3. QED
    BY <1>2, <2>1, <2>2 DEF Dated, Restrict
<1>6. TypeOK'
  <2>1. rounds' \in 0..MaxRounds /\ cat' \in DOMAIN Catalogs
    BY <1>1, <1>2
  <2>2. \A n \in DOMAIN env' : env'[n].text # Word(Refused) /\ env'[n].dollars \in Nat
    BY <1>3, <1>4
  <2>3. QED
    BY <1>3, <1>5, <2>1, <2>2 DEF TypeOK
<1>7. EscapedOnce'
  BY <1>3, <1>4 DEF EscapedOnce
<1>8. DOMAIN supplied' \subseteq DOMAIN supplied \ SecretNames(app) /\ \A n \in DOMAIN supplied' : supplied'[n] = supplied[n]
  BY <1>2 DEF Restrict
<1>9. Own'
  BY <1>8 DEF Inv, Own
<1>10. SuppliedSurvives'
  <2> SUFFICES ASSUME NEW n \in DOMAIN supplied' \cap DOMAIN env' PROVE env'[n].text = Word(supplied'[n])
    BY DEF SuppliedSurvives
  <2>1. n \notin Regenerated(app) \cup BuiltinNames
    BY <1>8, RegeneratedSecret DEF Inv, Own
  <2>2. n \in DOMAIN env /\ env'[n] = env[n]
    BY <1>3, <1>4, <2>1
  <2>3. QED
    BY <1>8, <2>2 DEF Inv, SuppliedSurvives
<1>11. QED
  BY <1>3, <1>5, <1>6, <1>7, <1>9, <1>10 DEF Inv

\* A reconfigure.
LEMMA ReconfigureStep ==
  ASSUME Inv, NEW o \in Reconfigures, ReconfigureStack(o)
  PROVE  Inv'
<1>1. /\ installed /\ VerifyDocument(App, doc)
      /\ inlined \cap StackSecretTexts(App) = {} /\ verifiedBy' = cat
      /\ UNCHANGED <<cat, installed, env, doc, inlined, shown, renderedBy, rounds, supplied>>
  BY DEF ReconfigureStack
<1>2. PICK p \in Adjustable(App, o) :
        /\ p.key \in DOMAIN limits
        /\ limits' = [limits EXCEPT ![p.key] = WithOverride(@, o)]
        /\ setBy' = [setBy EXCEPT ![p.key] =
                       [d \in DOMAIN @ |-> IF d \in {e \in {"mem", "cpus", "pids"} : o[e] # << >>} THEN cat ELSE @[d]]]
  BY DEF ReconfigureStack
<1>3. Dated' /\ DOMAIN setBy' = DOMAIN limits'
  <2>1. cat \in DOMAIN Catalogs /\ setBy \in [DOMAIN limits -> [Dimensions -> DOMAIN Catalogs]]
    BY DEF Inv, TypeOK, Dated
  <2>2. DOMAIN limits' = DOMAIN limits
    BY <1>2
  <2>3. [d \in DOMAIN setBy[p.key] |-> IF d \in {e \in {"mem", "cpus", "pids"} : o[e] # << >>} THEN cat ELSE setBy[p.key][d]]
          \in [Dimensions -> DOMAIN Catalogs]
    BY <1>2, <2>1
  <2>4. QED
    BY <1>2, <2>1, <2>2, <2>3 DEF Dated
<1>4. TypeOK'
  BY <1>1, <1>3 DEF Inv, TypeOK
<1>5. Checked'
  BY <1>1 DEF Inv, Checked, App
<1>6. PublicFilesHoldNoSecret'
  BY <1>1 DEF Inv, PublicFilesHoldNoSecret, StackSecretTexts, App, Texts
<1>7. Blank' /\ Own' /\ EscapedOnce' /\ SuppliedSurvives'
  BY <1>1 DEF Inv, Blank, Own, EscapedOnce, SuppliedSurvives
<1>8. QED
  BY <1>3, <1>4, <1>5, <1>6, <1>7 DEF Inv

LEMMA Initial == Init => Inv
<1> SUFFICES ASSUME Init PROVE Inv
  OBVIOUS
<1>1. TypeOK
  <2>1. cat \in DOMAIN Catalogs /\ renderedBy \in DOMAIN Catalogs /\ verifiedBy \in DOMAIN Catalogs
    BY ValuesAssumption DEF Init
  <2>2. rounds \in 0..MaxRounds
    BY ValuesAssumption DEF Init
  <2>3. DOMAIN env = {} /\ DOMAIN setBy = DOMAIN limits
    BY DEF Init
  <2>4. installed \in BOOLEAN
    BY Zenon DEF Init
  <2>5. QED
    BY <2>1, <2>2, <2>3, <2>4 DEF TypeOK
<1>2. PublicFilesHoldNoSecret
  BY DEF Init, PublicFilesHoldNoSecret
<1>3. Dated
  BY DEF Init, Dated
<1>4. QED
  BY <1>1, <1>2, <1>3 DEF Init, Inv, Blank, Checked, Own, EscapedOnce, SuppliedSurvives

\* The invariant is about the stack, whatever catalog is in force.
LEMMA Unmoved ==
  ASSUME Inv, cat' \in DOMAIN Catalogs,
         UNCHANGED <<installed, env, limits, doc, inlined, shown, renderedBy, verifiedBy, rounds, supplied, setBy, budget>>
  PROVE  Inv'
<1>1. /\ installed' = installed /\ env' = env /\ limits' = limits /\ doc' = doc /\ inlined' = inlined
      /\ shown' = shown /\ renderedBy' = renderedBy /\ verifiedBy' = verifiedBy /\ rounds' = rounds
      /\ supplied' = supplied /\ setBy' = setBy
  OBVIOUS
<1>2. TypeOK'
  BY <1>1 DEF Inv, TypeOK
<1>3. Checked'
  BY <1>1 DEF Inv, Checked
<1>4. PublicFilesHoldNoSecret'
  BY <1>1 DEF Inv, PublicFilesHoldNoSecret, Texts
<1>5. Blank' /\ Own' /\ Dated' /\ EscapedOnce' /\ SuppliedSurvives'
  BY <1>1 DEF Inv, Blank, Own, Dated, EscapedOnce, SuppliedSurvives
<1>6. QED
  BY <1>2, <1>3, <1>4, <1>5 DEF Inv

LEMMA InvStep == Inv /\ [Next]_vars => Inv'
<1> SUFFICES ASSUME Inv, [Next]_vars PROVE Inv'
  OBVIOUS
<1>1. ASSUME NEW req \in Requests, NEW host \in Hosts, Install(req, host) PROVE Inv'
  BY <1>1, InstallStep
<1>2. ASSUME NEW host \in Hosts, UpdateStack(host) PROVE Inv'
  BY <1>2, UpdateStep
<1>3. ASSUME NEW o \in Reconfigures, ReconfigureStack(o) PROVE Inv'
  BY <1>3, ReconfigureStep
<1>4. CASE AdvanceCatalog
  <2>1. cat' \in DOMAIN Catalogs
    BY <1>4, ValuesAssumption DEF AdvanceCatalog
  <2>2. UNCHANGED <<installed, env, limits, doc, inlined, shown, renderedBy, verifiedBy, rounds, supplied, setBy, budget>>
    BY <1>4 DEF AdvanceCatalog
  <2>3. QED
    BY <2>1, <2>2, Unmoved
<1>5. CASE UNCHANGED vars
  <2>1. cat' \in DOMAIN Catalogs
    BY <1>5 DEF vars, Inv, TypeOK
  <2>2. UNCHANGED <<installed, env, limits, doc, inlined, shown, renderedBy, verifiedBy, rounds, supplied, setBy, budget>>
    BY <1>5 DEF vars
  <2>3. QED
    BY <2>1, <2>2, Unmoved
<1>6. QED
  BY <1>1, <1>2, <1>3, <1>4, <1>5 DEF Next

LEMMA Invariance == Spec => []Inv
BY Initial, InvStep, PTL DEF Spec

\* Every variable keeps its type; no placeholder without a value is written.
THEOREM TypeCorrect == Spec => []TypeOK
<1>1. Inv => TypeOK
  BY DEF Inv
<1>2. QED
  BY <1>1, Invariance, PTL

\* What is deployed is what the catalog it was last checked against permits
\* (renderInstall, rewriteUpdateStack, rewriteReconfigureStack and the checks of
\* install_phase_validate.go), for any catalogs in any order of release.
THEOREM AsDeclared == Spec => []DeployedAsDeclared
<1>1. Inv => DeployedAsDeclared
  BY Privileges, Sockets, Modules, Addresses DEF Inv, DeployedAsDeclared
<1>2. QED
  BY <1>1, Invariance, PTL

-----------------------------------------------------------------------------
(* What an operation was not asked to change. *)

\* Profiles differ in their services and in their keys.
LEMMA OneProfile ==
  ASSUME NEW app, IndexResourceProfilesOK(app), NEW p \in Profiles(app), NEW q \in Profiles(app)
  PROVE  /\ p.service = q.service => p = q
         /\ p.key = q.key => p = q
BY DEF Profiles, ToSet, IndexResourceProfilesOK

\* A fixed secret is not among what an update generates.
LEMMA FixedKept ==
  ASSUME NEW app, NoDuplicates(app), NEW n \in SecretNames(app), ~Decl(app, n).regen
  PROVE  n \notin Regenerated(app)
<1> SUFFICES ASSUME n \in Regenerated(app) PROVE FALSE
  OBVIOUS
<1>1. PICK i \in DOMAIN app.placeholders : n = app.placeholders[i].name /\ app.placeholders[i].regen
  BY DEF Regenerated, ToSet
<1>2. Decl(app, n) = app.placeholders[i]
  BY <1>1, DeclNamed
<1>3. QED
  BY <1>1, <1>2

\* An operation leaves alone what it was not asked to change
\* (resolveUpdatePlaceholder, rewriteResourceEnvLines), for any catalogs.
THEOREM Others == Spec => OthersKept
<1> DEFINE Secrets == \A n \in DOMAIN env \cap DOMAIN env' \cap SecretNames(App) : ~Decl(App, n).regen => env'[n] = env[n]
           Changed == {p \in Profiles(App) : p.key \in DOMAIN limits \cap DOMAIN limits' /\ limits'[p.key] # limits[p.key]}
           Kept == Secrets /\ (installed => Cardinality(Changed) <= 1)
<1>1. ASSUME Inv, NEW req \in Requests, NEW host \in Hosts, Install(req, host) PROVE Kept
  BY <1>1 DEF Install, Inv, Blank
<1>2. ASSUME Inv, NEW host \in Hosts, UpdateStack(host) PROVE Kept
  <2> DEFINE app == App
             values == UpdateInput(app, host)
             keys == {p.key : p \in Profiles(app)}
  <2>1. /\ NoDuplicates(app) /\ Names(app) \cap BuiltinNames = {}
        /\ app.envKeys \subseteq DOMAIN values
        /\ keys \subseteq DOMAIN limits
        /\ WriteStack(app, values, Restrict(limits, keys))
    BY <1>2, BuiltinDomain DEF UpdateStack, RenderOK
  <2>2. \A n \in DOMAIN values \ (Regenerated(app) \cup BuiltinNames) : n \in DOMAIN env /\ values[n] = env[n]
    BY <1>2, UpdateValues
  <2> HIDE DEF app, values, keys
  <2>3. DOMAIN env' \subseteq DOMAIN values /\ \A n \in DOMAIN env' : env'[n] = values[n]
    BY <2>1 DEF WriteStack, Restrict
  <2>4. ASSUME NEW n \in DOMAIN env \cap DOMAIN env' \cap SecretNames(app), ~Decl(app, n).regen
        PROVE  env'[n] = env[n]
    <3>1. n \notin Regenerated(app)
      BY <2>1, <2>4, FixedKept
    <3>2. n \notin BuiltinNames
      BY <2>1, <2>4, SecretNamed
    <3>3. QED
      BY <2>2, <2>3, <2>4, <3>1, <3>2
  <2>5. \A k \in DOMAIN limits' : limits'[k] = limits[k]
    BY <2>1 DEF WriteStack, Restrict
  <2>6. Changed = {}
    BY <2>5
  <2>7. QED
    BY <2>4, <2>6, FS_EmptySet DEF app
<1>3. ASSUME Inv, NEW o \in Reconfigures, ReconfigureStack(o) PROVE Kept
  <2>1. env' = env /\ IndexResourceProfilesOK(App)
    BY <1>3 DEF ReconfigureStack
  <2>2. PICK p \in Adjustable(App, o) : limits' = [limits EXCEPT ![p.key] = WithOverride(@, o)]
    BY <1>3 DEF ReconfigureStack
  <2>3. p \in Profiles(App)
    BY DEF Adjustable
  <2>4. \A k \in DOMAIN limits : k # p.key => limits'[k] = limits[k]
    BY <2>2
  <2>5. Changed \in SUBSET {p}
    BY <2>1, <2>3, <2>4, OneProfile
  <2>6. Cardinality(Changed) <= 1
    <3> HIDE DEF Changed
    <3>1. IsFiniteSet({p}) /\ Cardinality({p}) = 1
      BY FS_Singleton
    <3>2. QED
      BY <2>5, <3>1, FS_Subset
  <2>7. QED
    BY <2>1, <2>6
<1>4. ASSUME env' = env, limits' = limits PROVE Kept
  <2>1. Changed = {}
    BY <1>4
  <2>2. QED
    BY <1>4, <2>1, FS_EmptySet
<1>5. Inv /\ [Next]_vars => [Kept]_vars
  <2>1. ASSUME AdvanceCatalog PROVE Kept
    BY <1>4, <2>1 DEF AdvanceCatalog
  <2> HIDE DEF Kept
  <2>2. QED
    BY <1>1, <1>2, <1>3, <2>1 DEF Next
<1>6. Inv /\ [Next]_vars =>
        [/\ \A n \in DOMAIN env \cap DOMAIN env' \cap SecretNames(App) :
              ~Decl(App, n).regen => env'[n] = env[n]
         /\ installed => Cardinality({p \in Profiles(App) : /\ p.key \in DOMAIN limits \cap DOMAIN limits'
                                                           /\ limits'[p.key] # limits[p.key]}) <= 1]_vars
  BY <1>5
<1>7. QED
  BY <1>6, Invariance, PTL DEF Spec, OthersKept

-----------------------------------------------------------------------------
(* Limits. *)

\* A limit is the profile's own or one its band admits, in one dimension.
FromProfile(p, l, d) == Declared(p, l, d) \/ Admitted(p, l, d)

LimitsInv == LimitsInBand /\ FitsBudget /\ IsFiniteSet(DOMAIN limits) /\ budget \in Int

\* A memory size is a number of bytes.
LEMMA BytesNat == \A m \in Sizes : MemoryBytes(m) \in Nat
<1> SUFFICES ASSUME NEW m \in Sizes PROVE MemoryBytes(m) \in Nat
  OBVIOUS
<1>1. Unit(m.u) \in {0, 1, 2, 4, 8}
  BY DEF Unit
<1>2. m.n \in Nat
  BY DEF Sizes
<1>3. QED
  BY <1>1, <1>2 DEF MemoryBytes

\* Profiles of a catalog have their type.
LEMMA ProfileTyped ==
  ASSUME NEW v \in DOMAIN Catalogs, NEW p \in Profiles(Catalogs[v])
  PROVE  p \in ResourceProfiles
<1>1. Catalogs[v].resources \in Seq(ResourceProfiles)
  BY ValuesAssumption
<1>2. QED
  BY <1>1 DEF Profiles, ToSet

\* What the checks of an override admit lies in the band.
LEMMA OverrideInBand ==
  ASSUME NEW p \in ResourceProfiles, NEW o \in ResourceOverrides, LimitOverrideOK(p, o)
  PROVE  /\ o.mem # << >> => MemoryBytes(o.mem[1]) \in MemoryBytes(p.mem.min)..MemoryBytes(p.mem.max)
         /\ o.cpus # << >> => o.cpus[1] = NaN \/ o.cpus[1] \in p.cpus.min..p.cpus.max
         /\ o.pids # << >> => o.pids[1] \in 1..p.pids.max
<1>1. /\ p.mem.min \in Sizes /\ p.mem.max \in Sizes /\ p.cpus.min \in Nat /\ p.cpus.max \in Nat /\ p.pids.max \in Nat
  BY DEF ResourceProfiles
<1>2. /\ o.mem \in Seq(Sizes) /\ o.cpus \in Seq(Int) /\ o.pids \in Seq(Int)
  BY DEF ResourceOverrides
<1>3. ASSUME o.mem # << >> PROVE MemoryBytes(o.mem[1]) \in MemoryBytes(p.mem.min)..MemoryBytes(p.mem.max)
  <2>1. o.mem[1] \in Sizes
    BY <1>2, <1>3
  <2>2. MemoryBytes(o.mem[1]) \in Nat /\ MemoryBytes(p.mem.min) \in Nat /\ MemoryBytes(p.mem.max) \in Nat
    BY <1>1, <2>1, BytesNat
  <2>3. MemoryBytes(o.mem[1]) >= MemoryBytes(p.mem.min) /\ MemoryBytes(o.mem[1]) <= MemoryBytes(p.mem.max)
    BY <1>3 DEF LimitOverrideOK
  <2>4. QED
    BY <2>2, <2>3
<1>4. ASSUME o.cpus # << >>, o.cpus[1] # NaN PROVE o.cpus[1] \in p.cpus.min..p.cpus.max
  <2>1. o.cpus[1] \in Int
    BY <1>2, <1>4
  <2>2. o.cpus[1] # NaN /\ ~Below(o.cpus[1], p.cpus.min) /\ ~Below(p.cpus.max, o.cpus[1])
    BY <1>4 DEF LimitOverrideOK
  <2>3. p.cpus.min # NaN /\ p.cpus.max # NaN
    BY <1>1 DEF NaN
  <2>4. QED
    BY <1>1, <2>1, <2>2, <2>3 DEF Below
<1>5. ASSUME o.pids # << >> PROVE o.pids[1] \in 1..p.pids.max
  <2>1. o.pids[1] \in Int
    BY <1>2, <1>5
  <2>2. o.pids[1] >= 1 /\ o.pids[1] <= p.pids.max
    BY <1>5 DEF LimitOverrideOK
  <2>3. QED
    BY <1>1, <2>1, <2>2
<1>6. QED
  BY <1>3, <1>4, <1>5

\* What an install selects is a limit the profile gives.
LEMMA BandDeclared ==
  ASSUME NEW p, NEW useMin
  PROVE  Band(p, useMin).mem \in {p.mem.min, p.mem.rec} /\ Band(p, useMin).cpus \in {p.cpus.min, p.cpus.rec}
<1>1. \/ Band(p, useMin) = [mem |-> p.mem.min, cpus |-> p.cpus.min]
      \/ Band(p, useMin) = [mem |-> p.mem.rec, cpus |-> p.cpus.rec]
  BY DEF Band
<1>2. QED
  BY <1>1

\* The last override that sets a limit is one of the request's.
LEMMA LastSetting ==
  ASSUME NEW overrides \in Seq(ResourceOverrides), NEW service, NEW d, NEW selected
  PROVE  \/ Settings(overrides, service, d) = {} /\ Chosen(overrides, service, d, selected) = selected
         \/ \E i \in DOMAIN overrides : /\ overrides[i].service = service /\ overrides[i][d] # << >>
                                        /\ Chosen(overrides, service, d, selected) = overrides[i][d][1]
<1> DEFINE own == Settings(overrides, service, d)
<1>1. CASE own = {}
  BY <1>1 DEF Chosen
<1>2. CASE own # {}
  <2>1. Len(overrides) \in Nat /\ own \subseteq 1..Len(overrides)
    BY DEF Settings
  <2>2. Max(own) \in own
    <3> HIDE DEF own
    <3>1. QED
      BY <1>2, <2>1, MaxProperties
  <2>3. Chosen(overrides, service, d, selected) = overrides[Max(own)][d][1]
    BY <1>2 DEF Chosen
  <2>4. QED
    BY <2>2, <2>3 DEF Settings
<1>3. QED
  BY <1>1, <1>2

\* The override that sets a limit of a service was checked against its profile.
LEMMA OverrideChecked ==
  ASSUME NEW req \in Requests, NEW host \in Hosts, cat \in DOMAIN Catalogs,
         PlanResourcesOK(App, req, host), NEW p \in Profiles(App),
         NEW i \in DOMAIN req.overrides, req.overrides[i].service = p.service
  PROVE  LET o == req.overrides[i]
         IN  /\ o.mem # << >> => MemoryBytes(o.mem[1]) \in MemoryBytes(p.mem.min)..MemoryBytes(p.mem.max)
             /\ o.cpus # << >> => o.cpus[1] = NaN \/ o.cpus[1] \in p.cpus.min..p.cpus.max
             /\ o.pids # << >> => o.pids[1] \in 1..p.pids.max
<1> DEFINE o == req.overrides[i]
<1>1. App.resources # << >>
  BY DEF Profiles, ToSet
<1>2. IndexResourceProfilesOK(App)
  BY <1>1 DEF PlanResourcesOK
<1>3. PICK q \in Adjustable(App, o) : LimitOverrideOK(q, o)
  BY <1>1 DEF PlanResourcesOK
<1>4. q \in Profiles(App) /\ q.service = p.service
  BY DEF Adjustable
<1>5. q = p
  BY <1>2, <1>4, OneProfile
<1>6. p \in ResourceProfiles
  BY ProfileTyped DEF App
<1>7. o \in ResourceOverrides
  BY ValuesAssumption
<1> HIDE DEF o
<1>8. /\ o.mem # << >> => MemoryBytes(o.mem[1]) \in MemoryBytes(p.mem.min)..MemoryBytes(p.mem.max)
      /\ o.cpus # << >> => o.cpus[1] = NaN \/ o.cpus[1] \in p.cpus.min..p.cpus.max
      /\ o.pids # << >> => o.pids[1] \in 1..p.pids.max
  BY <1>3, <1>5, <1>6, <1>7, OverrideInBand
<1>9. QED
  BY <1>8 DEF o

\* What an install selects for a service.
Selection(app, req, host, p) ==
  LET band == Band(p, UseMinimum(app, req, host))
  IN  [mem |-> Chosen(req.overrides, p.service, "mem", band.mem),
       cpus |-> Chosen(req.overrides, p.service, "cpus", band.cpus),
       pids |-> Chosen(req.overrides, p.service, "pids", p.pids.default)]

LEMMA SelectedIs ==
  ASSUME NEW app, NEW req, NEW host, NEW k, \E q \in Profiles(app) : q.key = k
  PROVE  \E p \in Profiles(app) : p.key = k /\ Selected(app, req, host)[k] = Selection(app, req, host, p)
<1> DEFINE p == CHOOSE q \in Profiles(app) : q.key = k
<1>1. p \in Profiles(app) /\ p.key = k
  OBVIOUS
<1>2. Selected(app, req, host)[k] = Selection(app, req, host, p)
  BY DEF Selected, Selection
<1> HIDE DEF p
<1>3. QED
  BY <1>1, <1>2

\* An install's limits are given or admitted by the catalog in force.
LEMMA InstallInBand ==
  ASSUME Inv, NEW req \in Requests, NEW host \in Hosts, Install(req, host)
  PROVE  LimitsInBand'
<1>1. /\ cat \in DOMAIN Catalogs /\ PlanResourcesOK(App, req, host)
      /\ limits' = Selected(App, req, host)
      /\ setBy' = [k \in {p.key : p \in Profiles(App)} |-> [mem |-> cat, cpus |-> cat, pids |-> cat]]
  BY DEF Inv, TypeOK, Install, WriteStack
<1> SUFFICES ASSUME NEW k \in DOMAIN limits', NEW d \in DOMAIN setBy'[k]
             PROVE  \E p \in Profiles(Catalogs[setBy'[k][d]]) : p.key = k /\ FromProfile(p, limits'[k], d)
  BY DEF LimitsInBand, FromProfile
<1>2. k \in {p.key : p \in Profiles(App)}
  BY <1>1 DEF Selected
<1>3. d \in {"mem", "cpus", "pids"} /\ setBy'[k][d] = cat
  BY <1>1, <1>2
<1> DEFINE useMin == UseMinimum(App, req, host)
<1>4. PICK p \in Profiles(App) : p.key = k /\ Selected(App, req, host)[k] = Selection(App, req, host, p)
  <2>1. \E q \in Profiles(App) : q.key = k
    BY <1>2
  <2>2. QED
    BY <2>1, SelectedIs
<1>5. /\ limits'[k].mem = Chosen(req.overrides, p.service, "mem", Band(p, useMin).mem)
      /\ limits'[k].cpus = Chosen(req.overrides, p.service, "cpus", Band(p, useMin).cpus)
      /\ limits'[k].pids = Chosen(req.overrides, p.service, "pids", p.pids.default)
  BY <1>1, <1>4 DEF Selection
<1> HIDE DEF useMin
<1>6. Band(p, useMin).mem \in {p.mem.min, p.mem.rec} /\ Band(p, useMin).cpus \in {p.cpus.min, p.cpus.rec}
  BY BandDeclared
<1>7. req.overrides \in Seq(ResourceOverrides)
  BY ValuesAssumption
<1>8. \A i \in DOMAIN req.overrides : req.overrides[i].service = p.service =>
        /\ req.overrides[i].mem # << >> =>
             MemoryBytes(req.overrides[i].mem[1]) \in MemoryBytes(p.mem.min)..MemoryBytes(p.mem.max)
        /\ req.overrides[i].cpus # << >> => \/ req.overrides[i].cpus[1] = NaN
                                            \/ req.overrides[i].cpus[1] \in p.cpus.min..p.cpus.max
        /\ req.overrides[i].pids # << >> => req.overrides[i].pids[1] \in 1..p.pids.max
  BY <1>1, OverrideChecked
<1>9. FromProfile(p, limits'[k], "mem")
  <2>1. \/ limits'[k].mem \in {p.mem.min, p.mem.rec}
        \/ MemoryBytes(limits'[k].mem) \in MemoryBytes(p.mem.min)..MemoryBytes(p.mem.max)
    BY <1>5, <1>6, <1>7, <1>8, LastSetting
  <2>2. QED
    BY <2>1 DEF FromProfile, Declared, Admitted
<1>10. FromProfile(p, limits'[k], "cpus")
  <2>1. \/ limits'[k].cpus \in {p.cpus.min, p.cpus.rec}
        \/ limits'[k].cpus = NaN \/ limits'[k].cpus \in p.cpus.min..p.cpus.max
    BY <1>5, <1>6, <1>7, <1>8, LastSetting
  <2>2. QED
    BY <2>1 DEF FromProfile, Declared, Admitted
<1>11. FromProfile(p, limits'[k], "pids")
  <2>1. limits'[k].pids = p.pids.default \/ limits'[k].pids \in 1..p.pids.max
    BY <1>5, <1>7, <1>8, LastSetting
  <2>2. QED
    BY <2>1 DEF FromProfile, Declared, Admitted
<1>12. QED
  BY <1>3, <1>4, <1>9, <1>10, <1>11 DEF App

\* An install without overrides fits the host or is at its minimum, unless the
\* recommended sum wrapped around.
LEMMA InstallFits ==
  ASSUME Inv, NEW req \in Requests, NEW host \in Hosts, Install(req, host)
  PROVE  FitsBudget' /\ IsFiniteSet(DOMAIN limits') /\ budget' \in Int
<1> DEFINE app == App
           keys == {p.key : p \in Profiles(app)}
           useMin == UseMinimum(app, req, host)
           res == app.resources
           h == [k \in keys |-> CHOOSE i \in DOMAIN res : res[i].key = k]
           w == [k \in DOMAIN limits' |-> MemoryBytes(limits'[k].mem)]
           v == BandMemory(app, FALSE)
<1>1. /\ cat \in DOMAIN Catalogs /\ PlanResourcesOK(app, req, host)
      /\ limits' = Selected(app, req, host)
      /\ setBy' = [k \in keys |-> [mem |-> cat, cpus |-> cat, pids |-> cat]]
      /\ budget' = IF req.overrides = << >> THEN MemoryBudget(host) ELSE NoBudget
  BY DEF Inv, TypeOK, Install, WriteStack
<1>2. app = Catalogs[cat] /\ res \in Seq(ResourceProfiles) /\ Profiles(app) = {res[i] : i \in DOMAIN res}
  BY <1>1, ValuesAssumption DEF App, Profiles, ToSet
<1>3. DOMAIN limits' = keys
  BY <1>1 DEF Selected
<1>4. h \in [keys -> DOMAIN res] /\ \A k \in keys : res[h[k]].key = k
  BY <1>2
<1>5. \A k, l \in keys : h[k] = h[l] => k = l
  BY <1>4
<1>6. IsFiniteSet(DOMAIN res)
  <2>1. Len(res) \in Nat /\ DOMAIN res = 1..Len(res)
    BY <1>2
  <2>2. QED
    BY <2>1, FS_Interval
<1>7. \A i \in DOMAIN res : v[i] = MemoryBytes(res[i].mem.rec) /\ v[i] \in Nat
  <2> SUFFICES ASSUME NEW i \in DOMAIN res PROVE v[i] = MemoryBytes(res[i].mem.rec) /\ v[i] \in Nat
    OBVIOUS
  <2>1. v[i] = MemoryBytes(res[i].mem.rec)
    BY DEF BandMemory, Band
  <2>2. res[i].mem.rec \in Sizes
    <3>1. res[i] \in ResourceProfiles
      BY <1>2
    <3>2. QED
      BY <3>1 DEF ResourceProfiles
  <2>3. QED
    BY <2>1, <2>2, BytesNat
<1>8. IsFiniteSet(keys)
  <2>1. h \in Injection(keys, DOMAIN res)
    <3> HIDE DEF h, keys
    <3>1. QED
      BY <1>4, <1>5 DEF Injection, IsInjective
  <2> HIDE DEF h, keys
  <2>2. QED
    BY <1>6, <2>1, FS_Injection
<1>9. ASSUME NEW k \in keys, req.overrides = << >>
      PROVE  limits'[k].mem = Band(res[h[k]], useMin).mem
  <2>1. PICK p \in Profiles(app) : p.key = k /\ Selected(app, req, host)[k] = Selection(app, req, host, p)
    <3>1. \E q \in Profiles(app) : q.key = k
      BY <1>9
    <3>2. QED
      BY <3>1, SelectedIs
  <2>2. h[k] \in DOMAIN res /\ res[h[k]] \in Profiles(app) /\ res[h[k]].key = k
    BY <1>2, <1>4, <1>9
  <2>3. IndexResourceProfilesOK(app)
    <3>1. app.resources # << >>
      BY <2>2
    <3>2. QED
      BY <1>1, <3>1 DEF PlanResourcesOK
  <2>4. p = res[h[k]]
    BY <2>1, <2>2, <2>3, OneProfile
  <2>5. Settings(req.overrides, p.service, "mem") = {}
    BY <1>9 DEF Settings
  <2>6. Chosen(req.overrides, p.service, "mem", Band(p, useMin).mem) = Band(p, useMin).mem
    BY <2>5 DEF Chosen
  <2>7. limits'[k].mem = Band(p, useMin).mem
    BY <1>1, <2>1, <2>6 DEF Selection
  <2>8. QED
    BY <2>4, <2>7
<1>10. ASSUME req.overrides = << >>, useMin, NEW k \in keys PROVE limits'[k].mem = MinMemory(k)'
  <2> DEFINE Mins == {p.mem.min : p \in {q \in Profiles(app) : q.key = k}}
  <2>1. h[k] \in DOMAIN res /\ res[h[k]] \in Profiles(app) /\ res[h[k]].key = k
    BY <1>2, <1>4, <1>10
  <2>2. IndexResourceProfilesOK(app)
    <3>1. app.resources # << >>
      BY <2>1
    <3>2. QED
      BY <1>1, <3>1 DEF PlanResourcesOK
  <2>3. Mins = {res[h[k]].mem.min}
    <3> HIDE DEF app, h, res
    <3>1. \A q \in Profiles(app) : q.key = k => q = res[h[k]]
      BY <2>1, <2>2, OneProfile
    <3>2. QED
      BY <2>1, <3>1
  <2>4. MinMemory(k)' = CHOOSE m \in Mins : TRUE
    <3>1. Catalogs[setBy'[k].mem] = app
      BY <1>1, <1>2, <1>10
    <3>2. QED
      BY <3>1 DEF MinMemory
  <2>5. limits'[k].mem = res[h[k]].mem.min
    BY <1>9, <1>10 DEF Band
  <2>6. QED
    <3> HIDE DEF Mins
    <3>1. QED
      BY <2>3, <2>4, <2>5
<1>11. ASSUME req.overrides = << >>, ~useMin, ~Overflows(app) PROVE SumFunction(w) <= MemoryBudget(host)
  <2>1. \A k \in keys : w[k] = v[h[k]]
    <3> SUFFICES ASSUME NEW k \in keys PROVE w[k] = v[h[k]]
      OBVIOUS
    <3>1. limits'[k].mem = res[h[k]].mem.rec
      BY <1>9, <1>11 DEF Band
    <3>2. h[k] \in DOMAIN res
      BY <1>4
    <3>3. QED
      BY <1>3, <1>7, <3>1, <3>2
  <2>2. SumFunctionOnSet(w, keys) <= SumFunctionOnSet(v, DOMAIN res)
    <3> HIDE DEF w, v, h, keys, res
    <3>1. QED
      BY <1>4, <1>5, <1>6, <1>7, <2>1, SumThrough
  <2>3. DOMAIN w = keys /\ DOMAIN v = DOMAIN res
    BY <1>3 DEF BandMemory
  <2>4. SumFunction(w) = SumFunctionOnSet(w, keys) /\ SumFunction(v) = SumFunctionOnSet(v, DOMAIN res)
    BY <2>3 DEF SumFunction
  <2>5. SumFunction(v) \in Nat
    <3> HIDE DEF v, res
    <3>1. SumFunctionOnSet(v, DOMAIN res) \in Nat
      BY <1>6, <1>7, SumNat
    <3>2. QED
      BY <2>4, <3>1
  <2>6. SumMemory(app, FALSE) = SumFunction(v)
    <3>1. SumFunction(v) < MemModulus /\ MemModulus \in Nat
      <4>1. MemModulus \in Nat /\ ~(SumFunction(v) >= MemModulus)
        BY <1>11, ValuesAssumption DEF Overflows
      <4> HIDE DEF v
      <4>2. QED
        BY <2>5, <4>1
    <3>2. SumMemory(app, FALSE) = SumFunction(v) % MemModulus
      BY DEF SumMemory
    <3> HIDE DEF v
    <3>3. QED
      BY <2>5, <3>1, <3>2, ModSmall
  <2>7. MemoryBudget(host) \in Nat
    BY ValuesAssumption DEF MemoryBudget
  <2>8. ~(SumMemory(app, FALSE) > MemoryBudget(host))
    BY <1>11 DEF UseMinimum
  <2>9. SumFunctionOnSet(w, keys) \in Nat
    <3>1. \A k \in keys : w[k] \in Nat
      BY <1>4, <1>7, <2>1
    <3> HIDE DEF w, keys
    <3>2. QED
      BY <1>8, <3>1, SumNat
  <2> HIDE DEF w, v, h, keys, res, app
  <2> DEFINE a == SumFunctionOnSet(w, keys)
             b == SumFunction(v)
             c == MemoryBudget(host)
  <2>10. a \in Nat /\ b \in Nat /\ c \in Nat /\ a <= b /\ ~(b > c) /\ SumFunction(w) = a
    BY <2>2, <2>4, <2>5, <2>6, <2>7, <2>8, <2>9
  <2> HIDE DEF a, b, c
  <2>11. SumFunction(w) <= c
    BY <2>10
  <2>12. QED
    BY <2>11 DEF c
<1>12. FitsBudget'
  <2> SUFFICES ASSUME budget' # NoBudget
               PROVE  \/ SumFunction(w) <= budget'
                      \/ \A k \in DOMAIN limits' : limits'[k].mem = MinMemory(k)'
                      \/ \A k \in DOMAIN limits' : Overflows(Catalogs[setBy'[k].mem])
    BY DEF FitsBudget, Overflows
  <2>1. req.overrides = << >> /\ budget' = MemoryBudget(host)
    BY <1>1
  <2>2. CASE useMin
    BY <1>3, <1>10, <2>1, <2>2
  <2>3. CASE ~useMin /\ ~Overflows(app)
    BY <1>11, <2>1, <2>3
  <2>4. CASE Overflows(app)
    <3>1. \A k \in keys : Catalogs[setBy'[k].mem] = app
      BY <1>1, <1>2
    <3>2. QED
      BY <1>3, <2>4, <3>1
  <2>5. QED
    BY <2>2, <2>3, <2>4
<1>13. budget' \in Int
  BY <1>1, ValuesAssumption DEF MemoryBudget, NoBudget
<1>14. QED
  BY <1>3, <1>8, <1>12, <1>13

\* An update keeps the sizing it finds.
LEMMA UpdateFits ==
  ASSUME Inv, LimitsInv, NEW host \in Hosts, UpdateStack(host)
  PROVE  LimitsInv'
<1> DEFINE keys == {p.key : p \in Profiles(App)}
<1>1. /\ keys \subseteq DOMAIN limits /\ budget' = budget
      /\ limits' = Restrict(limits, keys) /\ setBy' = Restrict(setBy, keys)
  BY DEF UpdateStack, WriteStack
<1> HIDE DEF keys
<1>2. DOMAIN limits' = keys /\ \A k \in keys : limits'[k] = limits[k] /\ setBy'[k] = setBy[k]
  BY <1>1 DEF Restrict
<1>3. LimitsInBand'
  BY <1>1, <1>2 DEF LimitsInv, LimitsInBand
<1>4. IsFiniteSet(DOMAIN limits')
  BY <1>1, <1>2, FS_Subset DEF LimitsInv
<1>5. FitsBudget'
  <2> DEFINE w == [k \in DOMAIN limits' |-> MemoryBytes(limits'[k].mem)]
             v == [k \in DOMAIN limits |-> MemoryBytes(limits[k].mem)]
  <2> SUFFICES ASSUME budget' # NoBudget
               PROVE  \/ SumFunction(w) <= budget'
                      \/ \A k \in DOMAIN limits' : limits'[k].mem = MinMemory(k)'
                      \/ \A k \in DOMAIN limits' : Overflows(Catalogs[setBy'[k].mem])
    BY DEF FitsBudget, Overflows
  <2>1. CASE SumFunction(v) <= budget
    <3>1. \A k \in DOMAIN limits : v[k] \in Nat
      <4> SUFFICES ASSUME NEW k \in DOMAIN limits PROVE v[k] \in Nat
        OBVIOUS
      <4>1. "mem" \in DOMAIN setBy[k] /\ setBy[k]["mem"] \in DOMAIN Catalogs
        BY DEF Inv, Dated, Dimensions
      <4>2. PICK p \in Profiles(Catalogs[setBy[k]["mem"]]) :
              \/ limits[k].mem \in {p.mem.min, p.mem.rec}
              \/ MemoryBytes(limits[k].mem) \in MemoryBytes(p.mem.min)..MemoryBytes(p.mem.max)
        BY <4>1 DEF LimitsInv, LimitsInBand, Declared, Admitted
      <4>3. p.mem.min \in Sizes /\ p.mem.rec \in Sizes /\ p.mem.max \in Sizes
        BY <4>1, ProfileTyped DEF ResourceProfiles
      <4>4. MemoryBytes(p.mem.min) \in Nat /\ MemoryBytes(p.mem.rec) \in Nat
        BY <4>3, BytesNat
      <4>5. QED
        BY <4>2, <4>4
    <3> DEFINE h == [k \in keys |-> k]
    <3>2. h \in [keys -> DOMAIN limits] /\ (\A k, l \in keys : h[k] = h[l] => k = l) /\ \A k \in keys : w[k] = v[h[k]]
      BY <1>1, <1>2
    <3>3. SumFunctionOnSet(w, keys) <= SumFunctionOnSet(v, DOMAIN limits)
      <4> HIDE DEF w, v, h
      <4>1. QED
        BY <3>1, <3>2, SumThrough DEF LimitsInv
    <3>4. SumFunction(w) = SumFunctionOnSet(w, keys) /\ SumFunction(v) = SumFunctionOnSet(v, DOMAIN limits)
      BY <1>2 DEF SumFunction
    <3>5. SumFunctionOnSet(w, keys) \in Nat /\ SumFunctionOnSet(v, DOMAIN limits) \in Nat
      <4>1. \A k \in keys : w[k] \in Nat
        BY <1>1, <1>2, <3>1
      <4> HIDE DEF w, v
      <4>2. QED
        BY <1>2, <1>4, <3>1, <4>1, SumNat DEF LimitsInv
    <3>6. budget \in Int
      BY DEF LimitsInv
    <3>7. QED
      BY <1>1, <2>1, <3>3, <3>4, <3>5, <3>6
  <2>2. CASE \A k \in DOMAIN limits : limits[k].mem = MinMemory(k)
    BY <1>1, <1>2, <2>2 DEF MinMemory
  <2>3. CASE \A k \in DOMAIN limits : Overflows(Catalogs[setBy[k].mem])
    BY <1>1, <1>2, <2>3
  <2>4. QED
    BY <1>1, <2>1, <2>2, <2>3 DEF LimitsInv, FitsBudget
<1>6. QED
  BY <1>1, <1>3, <1>4, <1>5 DEF LimitsInv

\* A reconfigure sets the limits of one service, within its band.
LEMMA ReconfigureFits ==
  ASSUME Inv, LimitsInv, NEW o \in Reconfigures, ReconfigureStack(o)
  PROVE  LimitsInv'
<1> DEFINE asked == {d \in {"mem", "cpus", "pids"} : o[d] # << >>}
<1>1. PICK p \in Adjustable(App, o) :
        /\ LimitOverrideOK(p, o)
        /\ p.key \in DOMAIN limits
        /\ limits' = [limits EXCEPT ![p.key] = WithOverride(@, o)]
        /\ setBy' = [setBy EXCEPT ![p.key] = [d \in DOMAIN @ |-> IF d \in asked THEN cat ELSE @[d]]]
  BY DEF ReconfigureStack
<1>2. budget' = NoBudget
  BY DEF ReconfigureStack
<1>3. p \in Profiles(App) /\ cat \in DOMAIN Catalogs /\ setBy \in [DOMAIN limits -> [Dimensions -> DOMAIN Catalogs]]
  BY DEF Adjustable, Inv, TypeOK, Dated
<1>4. /\ o.mem # << >> => MemoryBytes(o.mem[1]) \in MemoryBytes(p.mem.min)..MemoryBytes(p.mem.max)
      /\ o.cpus # << >> => o.cpus[1] = NaN \/ o.cpus[1] \in p.cpus.min..p.cpus.max
      /\ o.pids # << >> => o.pids[1] \in 1..p.pids.max
  <2>1. p \in ResourceProfiles /\ o \in ResourceOverrides
    BY <1>3, ProfileTyped, ValuesAssumption DEF App
  <2>2. QED
    BY <1>1, <2>1, OverrideInBand
<1> HIDE DEF asked
<1>5. ASSUME NEW k \in DOMAIN limits', NEW d \in DOMAIN setBy'[k]
      PROVE  \E q \in Profiles(Catalogs[setBy'[k][d]]) : q.key = k /\ FromProfile(q, limits'[k], d)
  <2>1. k \in DOMAIN limits /\ DOMAIN setBy'[k] = Dimensions /\ DOMAIN setBy[k] = Dimensions
    BY <1>1, <1>3, <1>5
  <2>2. PICK q \in Profiles(Catalogs[setBy[k][d]]) : q.key = k /\ FromProfile(q, limits[k], d)
    BY <1>5, <2>1 DEF LimitsInv, LimitsInBand, FromProfile
  <2>3. CASE k # p.key
    BY <1>1, <1>3, <2>1, <2>2, <2>3
  <2>4. CASE k = p.key /\ d \in asked
    <3>1. setBy'[k][d] = cat /\ limits'[k] = WithOverride(limits[k], o)
      BY <1>1, <1>3, <1>5, <2>1, <2>4
    <3>2. FromProfile(p, limits'[k], d)
      BY <1>4, <2>4, <3>1 DEF asked, FromProfile, Admitted, WithOverride
    <3>3. QED
      BY <1>3, <2>4, <3>1, <3>2 DEF App
  <2>5. CASE k = p.key /\ d \notin asked
    <3>1. setBy'[k][d] = setBy[k][d] /\ limits'[k] = WithOverride(limits[k], o)
      BY <1>1, <1>3, <1>5, <2>1, <2>5
    <3>2. FromProfile(q, limits'[k], d)
      BY <2>2, <2>5, <3>1 DEF asked, FromProfile, Declared, Admitted, WithOverride
    <3>3. QED
      BY <2>2, <3>1, <3>2
  <2>6. QED
    BY <2>3, <2>4, <2>5
<1>6. LimitsInBand'
  BY <1>5 DEF LimitsInBand, FromProfile
<1>7. DOMAIN limits' = DOMAIN limits
  BY <1>1
<1>8. QED
  BY <1>2, <1>6, <1>7 DEF LimitsInv, FitsBudget, NoBudget

\* What .env holds is what was generated, supplied or admitted, however many
\* operations have rewritten it, for any catalogs, with bands in any order and of
\* any size, and any requests, NaN among them (installEnvEscapeDollar,
\* resolveUpdatePlaceholder, validateMemoryOverride, validateCPUOverride,
\* chooseMinimumResourceProfile).
THEOREM EnvHolds == Spec => []EnvSound
<1>1. Init => LimitsInv
  <2> SUFFICES ASSUME Init PROVE LimitsInv
    OBVIOUS
  <2>1. DOMAIN limits = {} /\ budget = NoBudget
    BY DEF Init
  <2>2. QED
    BY <2>1, FS_EmptySet DEF LimitsInv, LimitsInBand, FitsBudget, NoBudget
<1>2. ASSUME Inv, LimitsInv, [Next]_vars PROVE LimitsInv'
  <2>1. ASSUME NEW req \in Requests, NEW host \in Hosts, Install(req, host) PROVE LimitsInv'
    BY <1>2, <2>1, InstallInBand, InstallFits DEF LimitsInv
  <2>2. ASSUME NEW host \in Hosts, UpdateStack(host) PROVE LimitsInv'
    BY <1>2, <2>2, UpdateFits
  <2>3. ASSUME NEW o \in Reconfigures, ReconfigureStack(o) PROVE LimitsInv'
    BY <1>2, <2>3, ReconfigureFits
  <2>4. ASSUME limits' = limits, setBy' = setBy, budget' = budget PROVE LimitsInv'
    BY <1>2, <2>4 DEF LimitsInv, LimitsInBand, FitsBudget, MinMemory
  <2>5. QED
    BY <1>2, <2>1, <2>2, <2>3, <2>4 DEF Next, AdvanceCatalog, vars
<1>3. Inv /\ LimitsInv => EnvSound
  BY DEF Inv, LimitsInv, EnvSound
<1>4. Inv /\ LimitsInv /\ [Next]_vars => LimitsInv'
  BY <1>2
<1>5. QED
  BY <1>1, <1>3, <1>4, Invariance, Initial, InvStep, PTL DEF Spec
=============================================================================
