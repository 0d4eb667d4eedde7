------------------------- MODULE Collections_proofs -------------------------
(***************************************************************************)
(* Facts about numbers, recursion, sequences and maps that the proofs of   *)
(* several components rest on.                                             *)
(***************************************************************************)
EXTENDS Collections, FiniteSetTheorems, SequenceTheorems, WellFoundedInduction, TLAPS

-----------------------------------------------------------------------------
(* Numbers                                                                  *)

LEMMA LeastNat ==
    ASSUME NEW T \in SUBSET Nat, T # {}
    PROVE  \E x \in T : \A y \in T : x <= y
<1>1. PICK x \in T : \A y \in T : ~ (<<y, x>> \in OpToRel(<, Nat))
  BY NatLessThanWellFounded, WFMin
<1>2. \A y \in T : ~(y < x)
  BY <1>1 DEF OpToRel
<1>. QED  BY <1>2

LEMMA MinFacts ==
    ASSUME NEW T \in SUBSET Nat, T # {}
    PROVE  Min(T) \in T /\ \A y \in T : Min(T) <= y
BY LeastNat DEF Min

LEMMA MaxFacts ==
    ASSUME NEW n \in Nat, NEW T \in SUBSET (0 .. n), T # {}
    PROVE  Max(T) \in T /\ \A y \in T : Max(T) >= y
<1>. DEFINE U == {n - y : y \in T}
<1>1. U \in SUBSET Nat /\ U # {}
  <2>1. \A y \in T : n - y \in Nat
    OBVIOUS
  <2>2. PICK y \in T : TRUE
    OBVIOUS
  <2>3. n - y \in U
    OBVIOUS
  <2>. QED  BY <2>1, <2>3
<1>2. PICK u \in U : \A v \in U : u <= v
  BY <1>1, LeastNat
<1>3. PICK x \in T : u = n - x
  OBVIOUS
<1>4. \A y \in T : x >= y
  <2>. TAKE y \in T
  <2>1. u <= n - y
    BY <1>2
  <2>. QED  BY <1>3, <2>1
<1>. HIDE DEF U
<1>. QED  BY <1>4 DEF Max

\* A sequence of length n has n places.
LEMMA PlacesFinite ==
    ASSUME NEW n \in Nat
    PROVE  IsFiniteSet(1 .. n) /\ Cardinality(1 .. n) = n
<1>1. Cardinality(1 .. n) = IF 1 > n THEN 0 ELSE n - 1 + 1
  BY FS_Interval
<1>2. IsFiniteSet(1 .. n)
  BY FS_Interval
<1>. QED  BY <1>1, <1>2

-----------------------------------------------------------------------------
(* Sequences                                                                *)

\* SetToSeqs enumerates every element of a finite set once.
LEMMA SetToSeqsFacts ==
    ASSUME NEW S, IsFiniteSet(S), NEW q \in SetToSeqs(S)
    PROVE  /\ q \in Seq(S)
           /\ IsInjective(q)
           /\ Range(q) = S
<1>. DEFINE n == Cardinality(S)
<1>1. n \in Nat
  BY FS_CardinalityType
<1>2. /\ q \in [1 .. n -> S]
      /\ \A i, j \in 1 .. n : i # j => q[i] # q[j]
  BY DEF SetToSeqs
<1>3. q \in Seq(S)
  BY <1>1, <1>2
<1>4. IsInjective(q)
  BY <1>2 DEF IsInjective
<1>5. IsFiniteSet(1 .. n) /\ Cardinality(1 .. n) = n
  BY <1>1, PlacesFinite
<1>6. q \in Injection(1 .. n, S)
  BY <1>2, <1>4 DEF Injection
<1>7. q \in Surjection(1 .. n, S)
  BY <1>5, <1>6, FS_Injection
<1>. QED  BY <1>2, <1>3, <1>4, <1>7 DEF Surjection, Range

\* Kept leaves the elements at the places K, in their order.
LEMMA KeptFacts ==
    ASSUME NEW S, NEW s \in Seq(S), NEW K \in SUBSET DOMAIN s, NEW r \in Kept(s, K)
    PROVE  /\ r \in Seq(S)
           /\ Len(r) = Cardinality(K)
           /\ \E places \in SetToSeqs(K) :
                 /\ DOMAIN places = DOMAIN r
                 /\ Ascending(places)
                 /\ \A i \in DOMAIN r : places[i] \in K /\ r[i] = s[places[i]]
                 /\ \A k \in K : \E i \in DOMAIN r : places[i] = k
<1>1. PICK places \in SetToSeqs(K) :
         /\ Ascending(places)
         /\ r = [i \in DOMAIN places |-> s[places[i]]]
  BY DEF Kept
<1>2. DOMAIN s = 1 .. Len(s) /\ Len(s) \in Nat
  BY LenProperties
<1>3. IsFiniteSet(K)
  <2>1. IsFiniteSet(1 .. Len(s))
    BY <1>2, PlacesFinite
  <2>2. K \in SUBSET (1 .. Len(s))
    BY <1>2
  <2>. QED  BY <2>1, <2>2, FS_Subset
<1>4. places \in Seq(K) /\ Range(places) = K
  BY <1>3, SetToSeqsFacts
<1>5. Cardinality(K) \in Nat /\ DOMAIN places = 1 .. Cardinality(K)
  BY <1>3, FS_CardinalityType DEF SetToSeqs
<1>6. \A i \in DOMAIN places : places[i] \in K /\ s[places[i]] \in S
  BY <1>2, <1>4, ElementOfSeq, LenProperties
<1>7. r \in [1 .. Cardinality(K) -> S]
  BY <1>1, <1>5, <1>6
<1>8. r \in Seq(S) /\ Len(r) = Cardinality(K)
  BY <1>5, <1>7, LenProperties
<1>9. \A k \in K : \E i \in DOMAIN r : places[i] = k
  BY <1>1, <1>4 DEF Range
<1>. QED  BY <1>1, <1>6, <1>8, <1>9

\* An ascending enumeration of all places of a sequence is the identity.
LEMMA AscendingIdentity ==
    ASSUME NEW n \in Nat, NEW places \in Seq(1 .. n), DOMAIN places = 1 .. n,
           Ascending(places),
           \A k \in 1 .. n : \E i \in 1 .. n : places[i] = k
    PROVE  \A i \in 1 .. n : places[i] = i
<1>. DEFINE Off == {i \in 1 .. n : places[i] # i}
<1>. SUFFICES ASSUME Off # {} PROVE FALSE
  OBVIOUS
<1>1. PICK i \in Off : \A j \in Off : i <= j
  <2>1. Off \in SUBSET Nat
    OBVIOUS
  <2>. QED  BY <2>1, LeastNat
<1>2. \A j \in 1 .. n : j < i => places[j] = j
  BY <1>1
<1>3. \A j, k \in 1 .. n : j < k => places[j] < places[k]
  BY DEF Ascending
<1>4. \A j \in 1 .. n : places[j] \in 1 .. n
  BY ElementOfSeq, LenProperties
<1>5. i \in 1 .. n /\ places[i] # i
  OBVIOUS
<1>. HIDE DEF Off
<1>6. CASE places[i] < i
  <2>1. places[places[i]] = places[i]
    BY <1>2, <1>4, <1>5, <1>6
  <2>2. places[places[i]] < places[i]
    BY <1>3, <1>4, <1>5, <1>6
  <2>. QED  BY <1>4, <1>5, <2>1, <2>2
<1>7. CASE i < places[i]
  <2>1. PICK j \in 1 .. n : places[j] = i
    BY <1>5
  <2>2. ~(j < i)
    BY <1>2, <2>1
  <2>3. ~(i < j)
    BY <1>3, <1>4, <1>5, <1>7, <2>1
  <2>. QED  BY <1>5, <2>1, <2>2, <2>3
<1>. QED  BY <1>4, <1>5, <1>6, <1>7

\* Nothing is deleted: the sequence stays.
LEMMA KeptAll ==
    ASSUME NEW S, NEW s \in Seq(S), NEW r \in Kept(s, DOMAIN s)
    PROVE  r = s
<1>1. /\ DOMAIN s = 1 .. Len(s) /\ Len(s) \in Nat
      /\ s = [i \in 1 .. Len(s) |-> s[i]]
  BY LenProperties
<1>2. PICK places \in SetToSeqs(DOMAIN s) :
         /\ Ascending(places)
         /\ r = [i \in DOMAIN places |-> s[places[i]]]
  BY DEF Kept
<1>3. IsFiniteSet(1 .. Len(s)) /\ Cardinality(1 .. Len(s)) = Len(s)
  BY <1>1, PlacesFinite
<1>4. places \in Seq(1 .. Len(s)) /\ Range(places) = 1 .. Len(s)
  BY <1>1, <1>3, SetToSeqsFacts
<1>5. DOMAIN places = 1 .. Len(s)
  BY <1>1, <1>3 DEF SetToSeqs
<1>6. \A k \in 1 .. Len(s) : \E i \in 1 .. Len(s) : places[i] = k
  BY <1>4, <1>5 DEF Range
<1>7. \A i \in 1 .. Len(s) : places[i] = i
  BY <1>1, <1>2, <1>4, <1>5, <1>6, AscendingIdentity
<1>. QED  BY <1>1, <1>2, <1>5, <1>7

-----------------------------------------------------------------------------
(* Maps                                                                     *)

\* Over has the entries of both maps, and of the new one where both have one.
LEMMA OverFacts ==
    ASSUME NEW new, NEW old
    PROVE  /\ DOMAIN Over(new, old) = DOMAIN new \union DOMAIN old
           /\ \A k \in DOMAIN new : Over(new, old)[k] = new[k]
           /\ \A k \in DOMAIN old \ DOMAIN new : Over(new, old)[k] = old[k]
BY DEF Over

-----------------------------------------------------------------------------
(* Induction and recursion                                                  *)

\* Induction, for a set of numbers.
LEMMA Induction ==
    ASSUME NEW P \in SUBSET Nat, 0 \in P, \A n \in P : n + 1 \in P
    PROVE  \A n \in Nat : n \in P
<1>. DEFINE Q == Nat \ P
<1>. SUFFICES ASSUME Q # {} PROVE FALSE
  OBVIOUS
<1>1. PICK x \in Q : \A y \in Q : x <= y
  <2>1. Q \in SUBSET Nat
    OBVIOUS
  <2>. QED  BY <2>1, LeastNat
<1>2. x # 0 /\ x \in Nat
  OBVIOUS
<1>3. x - 1 \in Nat /\ x - 1 \notin Q
  BY <1>1, <1>2
<1>4. x - 1 \in P
  BY <1>3
<1>5. x = x - 1 + 1
  BY <1>2
<1>6. x \in P
  BY <1>4, <1>5
<1>. QED  BY <1>6

\* What holds of all smaller numbers holds of all numbers.
LEMMA StrongInduction ==
    ASSUME NEW Q \in SUBSET Nat, \A n \in Nat : (\A m \in Nat : m < n => m \in Q) => n \in Q
    PROVE  \A n \in Nat : n \in Q
<1>. SUFFICES ASSUME Nat \ Q # {} PROVE FALSE
  OBVIOUS
<1>1. PICK n \in Nat \ Q : \A m \in Nat \ Q : n <= m
  BY LeastNat
<1>. QED  BY <1>1

\* A recursive definition: the value at x of S is b[x] for x in Base; elsewhere g
\* makes it from the value at p[x], whose measure mu is smaller.
IsRecursion(S, T, Base, mu, p, b, g) ==
    /\ Base \in SUBSET S /\ mu \in [S -> Nat] /\ p \in [S \ Base -> S]
    /\ \A x \in S \ Base : mu[p[x]] < mu[x]
    /\ b \in [Base -> T]
    /\ g \in [(S \ Base) \X T -> T]

\* f is such a function.
Solves(f, S, T, Base, p, b, g) ==
    /\ f \in [S -> T]
    /\ \A x \in S : f[x] = IF x \in Base THEN b[x] ELSE g[<<x, f[p[x]]>>]

\* A recursion on a measure has a solution: the functions that solve it up to k are
\* extended to k + 1, by induction.
LEMMA Recursion ==
    ASSUME NEW S, NEW T, NEW Base, NEW mu, NEW p, NEW b, NEW g,
           IsRecursion(S, T, Base, mu, p, b, g)
    PROVE  \E f : Solves(f, S, T, Base, p, b, g)
<1>. USE DEF IsRecursion
<1>. DEFINE D(k) == {x \in S : mu[x] < k}
            Val(f, x) == IF x \in Base THEN b[x] ELSE g[<<x, f[p[x]]>>]
            App(k) == {f \in [D(k) -> T] : \A x \in D(k) : f[x] = Val(f, x)}
<1>1. \A k \in Nat : App(k) # {}
  <2>. DEFINE P == {k \in Nat : App(k) # {}}
  <2>1. 0 \in P
    <3>1. D(0) = {}
      OBVIOUS
    <3>2. [x \in {} |-> 0] \in App(0)
      BY <3>1
    <3>. QED  BY <3>2
  <2>2. ASSUME NEW k \in P PROVE k + 1 \in P
    <3>1. PICK F \in App(k) : TRUE
      OBVIOUS
    <3>2. F \in [D(k) -> T] /\ \A x \in D(k) : F[x] = Val(F, x)
      OBVIOUS
    <3>3. \A x \in D(k + 1) \ Base : p[x] \in D(k)
      OBVIOUS
    <3>. DEFINE h == [x \in D(k + 1) |-> Val(F, x)]
    <3>4. \A x \in D(k + 1) : Val(F, x) \in T
      <4>. TAKE x \in D(k + 1)
      <4>1. CASE x \in Base
        BY <4>1
      <4>2. CASE x \notin Base
        <5>1. F[p[x]] \in T
          BY <3>2, <3>3, <4>2
        <5>2. <<x, F[p[x]]>> \in (S \ Base) \X T
          BY <4>2, <5>1
        <5>. QED  BY <4>2, <5>2
      <4>. QED  BY <4>1, <4>2
    <3>5. h \in [D(k + 1) -> T]
      BY <3>4
    <3>6. \A y \in D(k) : h[y] = F[y]
      <4>1. D(k) \subseteq D(k + 1)
        OBVIOUS
      <4>. QED  BY <3>2, <4>1
    <3>7. \A x \in D(k + 1) : h[x] = Val(h, x)
      <4>1. \A x \in D(k + 1) : h[x] = Val(F, x)
        OBVIOUS
      <4>. HIDE DEF h, D
      <4>. QED  BY <3>3, <3>6, <4>1
    <3>8. h \in App(k + 1)
      BY <3>5, <3>7
    <3>9. k + 1 \in Nat
      OBVIOUS
    <3>. HIDE DEF App
    <3>. QED  BY <3>8, <3>9
  <2>. HIDE DEF App
  <2>3. P \in SUBSET Nat
    OBVIOUS
  <2>4. \A k \in Nat : k \in P
    <3>. HIDE DEF P
    <3>. QED  BY <2>1, <2>2, <2>3, Induction
  <2>. QED  BY <2>4
<1>2. \A j, k \in Nat : \A f \in App(j), h \in App(k) : \A x \in D(j) \cap D(k) : f[x] = h[x]
  <2>. SUFFICES ASSUME NEW j \in Nat, NEW k \in Nat, NEW f \in App(j), NEW h \in App(k)
                PROVE  \A x \in D(j) \cap D(k) : f[x] = h[x]
    OBVIOUS
  <2>. DEFINE Bad == {x \in D(j) \cap D(k) : f[x] # h[x]}
              M == {mu[x] : x \in Bad}
  <2>. SUFFICES ASSUME Bad # {} PROVE FALSE
    OBVIOUS
  <2>1. M \in SUBSET Nat /\ M # {}
    OBVIOUS
  <2>2. PICK m \in M : \A n \in M : m <= n
    BY <2>1, LeastNat
  <2>3. PICK x \in Bad : m = mu[x]
    OBVIOUS
  <2>4. \A y \in Bad : ~(mu[y] < mu[x])
    <3>. TAKE y \in Bad
    <3>1. mu[y] \in M
      OBVIOUS
    <3>2. mu[y] \in Nat /\ mu[x] \in Nat /\ mu[x] <= mu[y]
      BY <2>2, <2>3, <3>1
    <3>. QED  BY <3>2
  <2>5. x \in S /\ x \in D(j) /\ x \in D(k) /\ f[x] # h[x]
    OBVIOUS
  <2>6. f[x] = Val(f, x) /\ h[x] = Val(h, x)
    BY <2>5
  <2>7. x \notin Base
    BY <2>5, <2>6
  <2>8. p[x] \in S /\ mu[p[x]] < mu[x] /\ mu[x] < j /\ mu[x] < k
    BY <2>5, <2>7
  <2>9. p[x] \in D(j) \cap D(k)
    BY <2>8
  <2>10. f[p[x]] = h[p[x]]
    BY <2>4, <2>8, <2>9
  <2>. QED  BY <2>5, <2>6, <2>7, <2>10
<1>. DEFINE F(k) == CHOOSE f \in App(k) : TRUE
            f == [x \in S |-> F(mu[x] + 1)[x]]
<1>3. \A k \in Nat : F(k) \in App(k)
  <2>. HIDE DEF App
  <2>. QED  BY <1>1
<1>4. \A k \in Nat : \A x \in D(k) : f[x] = F(k)[x]
  <2>. SUFFICES ASSUME NEW k \in Nat, NEW x \in D(k) PROVE f[x] = F(k)[x]
    OBVIOUS
  <2>1. x \in S /\ mu[x] + 1 \in Nat /\ x \in D(mu[x] + 1)
    OBVIOUS
  <2>2. f[x] = F(mu[x] + 1)[x]
    BY <2>1
  <2>3. F(mu[x] + 1) \in App(mu[x] + 1) /\ F(k) \in App(k)
    BY <1>3, <2>1
  <2>. HIDE DEF F, f, App, D
  <2>. QED  BY <1>2, <2>1, <2>2, <2>3
<1>5. ASSUME NEW x \in S PROVE f[x] \in T /\ f[x] = Val(f, x)
  <2>. DEFINE k == mu[x] + 1
  <2>1. k \in Nat /\ x \in D(k)
    OBVIOUS
  <2>2. F(k) \in [D(k) -> T] /\ F(k)[x] = Val(F(k), x)
    BY <1>3, <2>1
  <2>3. x \notin Base => p[x] \in D(k)
    BY <2>1
  <2>4. x \notin Base => f[p[x]] = F(k)[p[x]]
    BY <1>4, <2>1, <2>3
  <2>5. f[x] = F(k)[x]
    BY <1>4, <2>1
  <2>. HIDE DEF f, F, D, k
  <2>. QED  BY <2>1, <2>2, <2>4, <2>5
<1>6. f \in [S -> T] /\ \A x \in S : f[x] = Val(f, x)
  <2>1. f = [x \in S |-> f[x]]
    OBVIOUS
  <2>. HIDE DEF f
  <2>. QED  BY <1>5, <2>1
<1>7. Solves(f, S, T, Base, p, b, g)
  BY <1>6 DEF Solves
<1>. QED  BY <1>7

-----------------------------------------------------------------------------
(* Elements of sequences                                                    *)

\* The elements of a sequence are finitely many.
LEMMA RangeFacts ==
    ASSUME NEW S, NEW s \in Seq(S)
    PROVE  /\ Range(s) \in SUBSET S
           /\ IsFiniteSet(Range(s))
<1>1. /\ Len(s) \in Nat /\ DOMAIN s = 1 .. Len(s)
      /\ s \in [1 .. Len(s) -> S]
  BY LenProperties
<1>2. Range(s) \in SUBSET S
  BY <1>1 DEF Range
<1>3. s \in [1 .. Len(s) -> Range(s)] /\ \A x \in Range(s) : \E i \in 1 .. Len(s) : s[i] = x
  BY <1>1 DEF Range
<1>4. s \in Surjection(1 .. Len(s), Range(s))
  BY <1>3 DEF Surjection
<1>5. IsFiniteSet(Range(s))
  BY <1>1, <1>4, PlacesFinite, FS_Surjection
<1>. QED  BY <1>2, <1>5

-----------------------------------------------------------------------------
(* Sequences put together from parts                                        *)

\* Where the elements of s and t are in s \o t.
LEMMA ConcatPlaces ==
    ASSUME NEW S, NEW s \in Seq(S), NEW t \in Seq(S)
    PROVE  /\ s \o t \in Seq(S)
           /\ Len(s) \in Nat /\ Len(t) \in Nat /\ Len(s \o t) = Len(s) + Len(t)
           /\ \A j \in 1 .. Len(s) : (s \o t)[j] = s[j]
           /\ \A j \in 1 .. Len(t) : (s \o t)[Len(s) + j] = t[j]
<1>1. Len(s) \in Nat /\ Len(t) \in Nat
  BY LenProperties
<1>2. s \o t \in Seq(S) /\ Len(s \o t) = Len(s) + Len(t)
  BY ConcatProperties
<1>3. ASSUME NEW j \in 1 .. Len(s) PROVE (s \o t)[j] = s[j]
  BY <1>1, ConcatProperties
<1>4. ASSUME NEW j \in 1 .. Len(t) PROVE (s \o t)[Len(s) + j] = t[j]
  <2>1. Len(s) + j \in 1 .. Len(s) + Len(t) /\ ~(Len(s) + j <= Len(s)) /\ Len(s) + j - Len(s) = j
    BY <1>1
  <2>. QED  BY <2>1, ConcatProperties
<1>. QED  BY <1>1, <1>2, <1>3, <1>4

\* P has what the first k parts of s make up, for every k.
Builds(P, s, S) ==
    /\ P \in [0 .. Len(s) -> Seq(S)]
    /\ P[0] = << >>
    /\ \A k \in 1 .. Len(s) : P[k] = P[k - 1] \o s[k]

\* FlattenSeq(s) is what all parts of s make up.
LEMMA FlattenBuilt ==
    ASSUME NEW S, NEW s \in Seq(Seq(S))
    PROVE  \E P : Builds(P, s, S) /\ FlattenSeq(s) = P[Len(s)]
<1>. DEFINE n == Len(s)
<1>1. n \in Nat /\ s \in [1 .. n -> Seq(S)]
  BY LenProperties
<1>2. CASE n = 0
  <2>. DEFINE P == [k \in 0 .. n |-> << >>]
  <2>1. s = << >>
    BY <1>1, <1>2
  <2>2. FlattenSeq(s) = s
    <3>1. Len(s) = 0
      BY <1>2
    <3>. QED  BY <3>1, Zenon DEF FlattenSeq
  <2>3. Builds(P, s, S)
    BY <1>2 DEF Builds
  <2>4. P[Len(s)] = << >>
    BY <1>2
  <2>. QED  BY <2>1, <2>2, <2>3, <2>4, Zenon
<1>3. CASE n # 0
  <2>. DEFINE D == 1 .. n
              T == Seq(S)
              Base == {1}
              mu == [i \in D |-> i]
              p == [i \in D \ Base |-> i - 1]
              b == [i \in Base |-> s[1]]
              g == [x \in (D \ Base) \X T |-> x[2] \o s[x[1]]]
  <2>1. /\ Base \in SUBSET D /\ mu \in [D -> Nat] /\ p \in [D \ Base -> D]
        /\ \A i \in D \ Base : mu[p[i]] < mu[i]
        /\ b \in [Base -> T]
    BY <1>1, <1>3
  <2>2. g \in [(D \ Base) \X T -> T]
    <3>1. \A v \in T, i \in D : v \o s[i] \in T
      BY <1>1, ConcatProperties
    <3>. QED  BY <3>1
  <2>3. IsRecursion(D, T, Base, mu, p, b, g)
    <3>. HIDE DEF D, T, Base, mu, p, b, g
    <3>. QED  BY <2>1, <2>2 DEF IsRecursion
  <2>4. PICK h : Solves(h, D, T, Base, p, b, g)
    BY <2>3, Recursion, Zenon
  <2>5. h \in [D -> T] /\ \A i \in D : h[i] = IF i \in Base THEN b[i] ELSE g[<<i, h[p[i]]>>]
    BY <2>4 DEF Solves
  <2>6. \A i \in D : h[i] = IF i = 1 THEN s[i] ELSE h[i - 1] \o s[i]
    <3>. TAKE i \in D
    <3>1. CASE i = 1
      <4>1. i \in Base /\ b[i] = s[i]
        BY <3>1
      <4>. HIDE DEF D, Base, b
      <4>. QED  BY <2>5, <3>1, <4>1
    <3>2. CASE i # 1
      <4>1. i \in D \ Base /\ p[i] = i - 1 /\ i - 1 \in D
        BY <3>2, <1>1
      <4>2. <<i, h[p[i]]>> \in (D \ Base) \X T
        BY <2>5, <4>1
      <4>3. g[<<i, h[p[i]]>>] = h[p[i]] \o s[i]
        BY <4>2
      <4>. HIDE DEF D, Base, p, g, T
      <4>. QED  BY <2>5, <3>2, <4>1, <4>3
    <3>. QED  BY <3>1, <3>2
  <2>. DEFINE f == CHOOSE f : f = [i \in 1 .. Len(s) |->
                                      IF i = 1 THEN s[i] ELSE f[i - 1] \o s[i]]
  <2>7. h = [i \in 1 .. Len(s) |-> IF i = 1 THEN s[i] ELSE h[i - 1] \o s[i]]
    <3>. HIDE DEF T
    <3>. QED  BY <2>5, <2>6, Zenon
  <2>8. f = [i \in 1 .. Len(s) |-> IF i = 1 THEN s[i] ELSE f[i - 1] \o s[i]]
    BY <2>7, Zenon
  <2>9. FlattenSeq(s) = f[Len(s)]
    <3>1. Len(s) # 0
      BY <1>3
    <3>. QED  BY <3>1, Zenon DEF FlattenSeq
  <2>. HIDE DEF f, b, g, p, mu, Base
  <2>a. \A i \in 1 .. n : f[i] = IF i = 1 THEN s[i] ELSE f[i - 1] \o s[i]
    BY <2>8, Zenon
  <2>10. \A i \in 1 .. n : i = 1 => f[i] = s[i]
    BY <2>a, Zenon
  <2>11. \A i \in 1 .. n : i # 1 => f[i] = f[i - 1] \o s[i]
    BY <2>a, Zenon
  <2>12. \A i \in Nat : i \in 1 .. n => f[i] \in Seq(S)
    <3>. DEFINE Q == {i \in Nat : i \in 1 .. n => f[i] \in Seq(S)}
    <3>1. 0 \in Q
      OBVIOUS
    <3>2. ASSUME NEW i \in Q PROVE i + 1 \in Q
      <4>. SUFFICES ASSUME i + 1 \in 1 .. n PROVE f[i + 1] \in Seq(S)
        OBVIOUS
      <4>1. s[i + 1] \in Seq(S)
        BY <1>1
      <4>2. CASE i = 0
        BY <2>10, <4>1, <4>2
      <4>3. CASE i # 0
        <5>1. i \in 1 .. n /\ f[i] \in Seq(S)
          BY <4>3, <1>1
        <5>2. PICK m \in 1 .. n : m = i + 1
          OBVIOUS
        <5>3. f[m] = f[m - 1] \o s[m]
          <6>1. m # 1
            BY <5>1, <5>2
          <6>. QED  BY <2>11, <6>1, Zenon
        <5>4. m - 1 = i
          BY <5>1, <5>2
        <5>. QED  BY <4>1, <5>1, <5>2, <5>3, <5>4, ConcatProperties
      <4>. QED  BY <4>2, <4>3
    <3>. HIDE DEF Q
    <3>3. Q \in SUBSET Nat
      BY DEF Q
    <3>4. \A i \in Nat : i \in Q
      BY <3>1, <3>2, <3>3, Induction
    <3>. QED  BY <3>4 DEF Q
  <2>. DEFINE P == [k \in 0 .. n |-> IF k = 0 THEN << >> ELSE f[k]]
  <2>13. Builds(P, s, S)
    <3>1. P \in [0 .. n -> Seq(S)]
      <4>1. \A k \in 0 .. n : k # 0 => f[k] \in Seq(S)
        BY <1>1, <2>12
      <4>2. << >> \in Seq(S)
        OBVIOUS
      <4>. QED  BY <4>1, <4>2
    <3>2. P[0] = << >>
      BY <1>1
    <3>3. ASSUME NEW k \in 1 .. n PROVE P[k] = P[k - 1] \o s[k]
      <4>1. P[k] = f[k] /\ (k # 1 => P[k - 1] = f[k - 1])
        BY <1>1
      <4>2. k = 1 => P[k - 1] \o s[k] = s[k]
        <5>1. s[1] \in Seq(S) /\ k = 1 => << >> \o s[1] = s[1]
          BY ConcatEmptySeq
        <5>. QED  BY <1>1, <3>2, <5>1
      <4>. HIDE DEF P
      <4>. QED  BY <2>10, <2>11, <4>1, <4>2
    <3>. HIDE DEF P
    <3>. QED  BY <3>1, <3>2, <3>3 DEF Builds
  <2>14. P[Len(s)] = f[Len(s)]
    BY <1>1, <1>3
  <2>. QED  BY <2>9, <2>13, <2>14, Zenon
<1>. QED  BY <1>2, <1>3

\* The next part goes to the end.
LEMMA BuiltStep ==
    ASSUME NEW S, NEW s \in Seq(Seq(S)), NEW P, Builds(P, s, S), NEW k \in 0 .. Len(s) - 1
    PROVE  P[k + 1] = P[k] \o s[k + 1]
<1>1. Len(s) \in Nat
  BY LenProperties
<1>2. PICK m \in 1 .. Len(s) : m = k + 1
  BY <1>1
<1>3. P[m] = P[m - 1] \o s[m]
  BY Zenon DEF Builds
<1>4. m - 1 = k
  BY <1>1, <1>2
<1>. QED  BY <1>2, <1>3, <1>4

\* Where the part behind the first k is.
Placed(P, s, k) ==
    /\ Len(P[k]) \in Nat /\ Len(P[Len(s)]) \in Nat /\ Len(s[k + 1]) \in Nat
    /\ Len(P[k + 1]) = Len(P[k]) + Len(s[k + 1])
    /\ Len(P[k]) + Len(s[k + 1]) <= Len(P[Len(s)])
    /\ \A j \in 1 .. Len(s[k + 1]) : P[Len(s)][Len(P[k]) + j] = s[k + 1][j]

\* Later parts move no earlier one.
LEMMA BuiltPlaces ==
    ASSUME NEW S, NEW s \in Seq(Seq(S)), NEW P, Builds(P, s, S), NEW k \in 0 .. Len(s) - 1
    PROVE  Placed(P, s, k)
<1>. DEFINE n == Len(s)
<1>1. n \in Nat /\ s \in [1 .. n -> Seq(S)] /\ k \in Nat /\ k + 1 \in 1 .. n
  BY LenProperties
<1>2. /\ P \in [0 .. n -> Seq(S)]
      /\ \A i \in 1 .. n : P[i] = P[i - 1] \o s[i]
  BY DEF Builds
<1>. HIDE DEF n
<1>. DEFINE L(i) == Len(P[i])
            M(i) == Len(s[i])
<1>3. \A i \in 0 .. n : P[i] \in Seq(S) /\ L(i) \in Nat
  BY <1>2, LenProperties
<1>4. \A i \in 1 .. n : s[i] \in Seq(S) /\ M(i) \in Nat
  BY <1>1, LenProperties
<1>. HIDE DEF L, M
<1>5. ASSUME NEW i \in 1 .. n
      PROVE  /\ L(i) = L(i - 1) + M(i)
             /\ \A j \in 1 .. L(i - 1) : P[i][j] = P[i - 1][j]
             /\ \A j \in 1 .. M(i) : P[i][L(i - 1) + j] = s[i][j]
  <2>1. i - 1 \in 0 .. n
    BY <1>1
  <2>2. P[i - 1] \in Seq(S) /\ s[i] \in Seq(S) /\ P[i] = P[i - 1] \o s[i]
    BY <1>2, <1>3, <1>4, <2>1
  <2>. DEFINE u == P[i - 1]
              v == s[i]
  <2>3. /\ Len(u \o v) = Len(u) + Len(v)
        /\ \A j \in 1 .. Len(u) : (u \o v)[j] = u[j]
        /\ \A j \in 1 .. Len(v) : (u \o v)[Len(u) + j] = v[j]
    <3>1. u \in Seq(S) /\ v \in Seq(S)
      BY <2>2
    <3>. HIDE DEF u, v
    <3>. QED  BY <3>1, ConcatPlaces
  <2>. QED  BY <2>2, <2>3, Zenon DEF L, M
<1>6. \A i \in Nat : i \in k + 1 .. n =>
         /\ L(k + 1) <= L(i)
         /\ \A j \in 1 .. L(k + 1) : P[i][j] = P[k + 1][j]
  <2>. DEFINE Q == {i \in Nat : i \in k + 1 .. n =>
                       /\ L(k + 1) <= L(i)
                       /\ \A j \in 1 .. L(k + 1) : P[i][j] = P[k + 1][j]}
  <2>1. 0 \in Q
    BY <1>1
  <2>2. ASSUME NEW i \in Q PROVE i + 1 \in Q
    <3>. SUFFICES ASSUME i + 1 \in k + 1 .. n
                  PROVE  /\ L(k + 1) <= L(i + 1)
                         /\ \A j \in 1 .. L(k + 1) : P[i + 1][j] = P[k + 1][j]
      OBVIOUS
    <3>1. CASE i + 1 = k + 1
      <4>1. L(k + 1) \in Nat
        BY <1>1, <1>3
      <4>. QED  BY <3>1, <4>1
    <3>2. CASE i + 1 # k + 1
      <4>1. i \in Nat /\ i \in k + 1 .. n /\ i + 1 \in 1 .. n /\ i \in 0 .. n /\ k + 1 \in 0 .. n
        BY <1>1, <3>2
      <4>2. /\ L(k + 1) <= L(i)
            /\ \A j \in 1 .. L(k + 1) : P[i][j] = P[k + 1][j]
        BY <4>1
      <4>. HIDE DEF Q
      <4>3. i + 1 - 1 = i
        BY <4>1
      <4>4. /\ L(i + 1) = L(i) + M(i + 1)
            /\ \A j \in 1 .. L(i) : P[i + 1][j] = P[i][j]
        BY <1>5, <4>1, <4>3
      <4>5. L(i) \in Nat /\ L(k + 1) \in Nat /\ M(i + 1) \in Nat
        BY <1>3, <1>4, <4>1
      <4>6. L(k + 1) <= L(i + 1)
        BY <4>2, <4>4, <4>5
      <4>7. ASSUME NEW j \in 1 .. L(k + 1) PROVE P[i + 1][j] = P[k + 1][j]
        <5>1. j \in 1 .. L(i)
          BY <4>2, <4>5
        <5>. QED  BY <4>2, <4>4, <5>1
      <4>. QED  BY <4>6, <4>7
    <3>. QED  BY <3>1, <3>2
  <2>. HIDE DEF Q
  <2>3. Q \in SUBSET Nat
    BY DEF Q
  <2>4. \A i \in Nat : i \in Q
    BY <2>1, <2>2, <2>3, Induction
  <2>. QED  BY <2>4 DEF Q
<1>7. /\ L(k + 1) <= L(n)
      /\ \A j \in 1 .. L(k + 1) : P[n][j] = P[k + 1][j]
  <2>1. n \in Nat /\ n \in k + 1 .. n
    BY <1>1
  <2>. QED  BY <1>6, <2>1
<1>8. /\ L(k + 1) = L(k) + M(k + 1)
      /\ \A j \in 1 .. M(k + 1) : P[k + 1][L(k) + j] = s[k + 1][j]
  <2>1. k + 1 - 1 = k
    BY <1>1
  <2>. QED  BY <1>1, <1>5, <2>1
<1>9. L(k) \in Nat /\ M(k + 1) \in Nat /\ L(n) \in Nat
  <2>1. k \in 0 .. n /\ n \in 0 .. n
    BY <1>1
  <2>. QED  BY <1>1, <1>3, <1>4, <2>1
<1>10. ASSUME NEW j \in 1 .. M(k + 1) PROVE P[n][L(k) + j] = s[k + 1][j]
  <2>1. L(k) + j \in 1 .. L(k + 1)
    BY <1>8, <1>9
  <2>. QED  BY <1>7, <1>8, <2>1
<1>. QED  BY <1>7, <1>8, <1>9, <1>10 DEF Placed, n, L, M

-----------------------------------------------------------------------------
(* Sorting                                                                  *)

\* R is a strict total order of S.
TotallyOrders(R, S) ==
    /\ \A x \in S : <<x, x>> \notin R
    /\ \A x, y, z \in S : <<x, y>> \in R /\ <<y, z>> \in R => <<x, z>> \in R
    /\ \A x, y \in S : x = y \/ <<x, y>> \in R \/ <<y, x>> \in R

\* q has the elements of S by the number of those before them.
Ranks(q, S, R) ==
    /\ q = [k \in 1 .. Cardinality(S) |-> q[k]]
    /\ \A k \in 1 .. Cardinality(S) :
          (\E x \in S : Cardinality({y \in S : <<y, x>> \in R}) = k - 1) =>
          q[k] \in S /\ Cardinality({y \in S : <<y, q[k]>> \in R}) = k - 1

\* Every element comes once, and in order.
LEMMA RankedFacts ==
    ASSUME NEW S, IsFiniteSet(S), NEW R, TotallyOrders(R, S), NEW q, Ranks(q, S, R)
    PROVE  /\ q \in Seq(S)
           /\ Len(q) = Cardinality(S)
           /\ Range(q) = S
           /\ \A i, j \in 1 .. Cardinality(S) : i < j => <<q[i], q[j]>> \in R
<1>. DEFINE n == Cardinality(S)
            Below(x) == {y \in S : <<y, x>> \in R}
            rank == [x \in S |-> Cardinality(Below(x)) + 1]
<1>a. /\ q = [k \in 1 .. n |-> q[k]]
      /\ \A k \in 1 .. n : (\E x \in S : Cardinality(Below(x)) = k - 1) =>
            q[k] \in S /\ Cardinality(Below(q[k])) = k - 1
  BY DEF Ranks
<1>1. n \in Nat /\ IsFiniteSet(1 .. n) /\ Cardinality(1 .. n) = n
  BY FS_CardinalityType, PlacesFinite
<1>2. \A x \in S : IsFiniteSet(Below(x)) /\ Cardinality(Below(x)) \in Nat
  <2>. TAKE x \in S
  <2>1. Below(x) \in SUBSET S
    OBVIOUS
  <2>2. IsFiniteSet(Below(x))
    BY <2>1, FS_Subset
  <2>. QED  BY <2>2, FS_CardinalityType
<1>3. \A x, z \in S : <<x, z>> \in R => Cardinality(Below(x)) < Cardinality(Below(z))
  <2>. SUFFICES ASSUME NEW x \in S, NEW z \in S, <<x, z>> \in R
                PROVE  Cardinality(Below(x)) < Cardinality(Below(z))
    OBVIOUS
  <2>1. Below(x) \in SUBSET Below(z) /\ x \in Below(z) /\ x \notin Below(x)
    BY DEF TotallyOrders
  <2>2. Below(x) # Below(z)
    BY <2>1
  <2>. HIDE DEF Below
  <2>3. Cardinality(Below(x)) <= Cardinality(Below(z))
    BY <1>2, <2>1, FS_Subset
  <2>4. Cardinality(Below(x)) # Cardinality(Below(z))
    BY <1>2, <2>1, <2>2, FS_Subset
  <2>. QED  BY <1>2, <2>3, <2>4
<1>4. \A x \in S : rank[x] \in 1 .. n
  <2>. TAKE x \in S
  <2>1. Below(x) \in SUBSET S /\ x \notin Below(x)
    BY DEF TotallyOrders
  <2>2. Below(x) # S
    BY <2>1
  <2>3. rank[x] = Cardinality(Below(x)) + 1
    OBVIOUS
  <2>. HIDE DEF Below, rank
  <2>4. Cardinality(Below(x)) <= n
    BY <2>1, FS_Subset
  <2>5. Cardinality(Below(x)) # n
    BY <2>1, <2>2, FS_Subset
  <2>. QED  BY <1>1, <1>2, <2>3, <2>4, <2>5
<1>5. \A x, z \in S : <<x, z>> \in R => rank[x] < rank[z]
  BY <1>2, <1>3
<1>6. \A x, z \in S : rank[x] = rank[z] => x = z
  <2>. SUFFICES ASSUME NEW x \in S, NEW z \in S, rank[x] = rank[z], x # z PROVE FALSE
    OBVIOUS
  <2>1. <<x, z>> \in R \/ <<z, x>> \in R
    BY DEF TotallyOrders
  <2>2. rank[x] \in 1 .. n /\ rank[z] \in 1 .. n
    BY <1>4
  <2>. HIDE DEF rank
  <2>. QED  BY <1>5, <2>1, <2>2
<1>7. \A k \in 1 .. n : \E x \in S : rank[x] = k
  <2>1. rank \in [S -> 1 .. n]
    BY <1>4
  <2>. HIDE DEF rank
  <2>2. rank \in Injection(S, 1 .. n)
    BY <1>6, <2>1 DEF Injection, IsInjective
  <2>3. rank \in Surjection(S, 1 .. n)
    BY <1>1, <2>2, FS_Injection
  <2>. QED  BY <2>3 DEF Surjection
<1>8. \A k \in 1 .. n : q[k] \in S /\ rank[q[k]] = k
  <2>. TAKE k \in 1 .. n
  <2>1. PICK x \in S : rank[x] = k
    BY <1>7
  <2>2. Cardinality(Below(x)) = k - 1
    <3>1. rank[x] = Cardinality(Below(x)) + 1
      OBVIOUS
    <3>. HIDE DEF Below, rank
    <3>. QED  BY <1>2, <2>1, <3>1
  <2>4. q[k] \in S /\ Cardinality(Below(q[k])) = k - 1
    <3>. HIDE DEF Below
    <3>. QED  BY <1>a, <2>2
  <2>5. rank[q[k]] = Cardinality(Below(q[k])) + 1
    BY <2>4
  <2>. HIDE DEF rank, Below
  <2>. QED  BY <2>4, <2>5
<1>9. q \in [1 .. n -> S]
  BY <1>8, <1>a
<1>10. q \in Seq(S) /\ Len(q) = n /\ DOMAIN q = 1 .. n
  BY <1>1, <1>9
<1>11. Range(q) = S
  <2>. HIDE DEF rank
  <2>1. \A x \in S : q[rank[x]] = x
    BY <1>4, <1>6, <1>8
  <2>. QED  BY <1>4, <1>8, <1>10, <2>1 DEF Range
<1>12. \A i, j \in 1 .. n : i < j => <<q[i], q[j]>> \in R
  <2>. SUFFICES ASSUME NEW i \in 1 .. n, NEW j \in 1 .. n, i < j PROVE <<q[i], q[j]>> \in R
    OBVIOUS
  <2>. HIDE DEF rank
  <2>1. /\ q[i] \in S /\ rank[q[i]] = i
        /\ q[j] \in S /\ rank[q[j]] = j
    BY <1>8
  <2>2. q[i] # q[j]
    BY <2>1
  <2>3. ~(<<q[j], q[i]>> \in R)
    BY <1>5, <2>1
  <2>. QED  BY <2>1, <2>2, <2>3 DEF TotallyOrders
<1>. QED  BY <1>10, <1>11, <1>12

-----------------------------------------------------------------------------
(* Division                                                                 *)

\* k divides n.
Divides(k, n) == \E q \in Nat : n = k * q

\* What divides two of the terms of m * q + n divides the third.
LEMMA DividesSum ==
    ASSUME NEW k \in Nat, NEW m \in Nat, NEW n \in Nat, NEW q \in Nat
    PROVE  /\ Divides(k, m) /\ Divides(k, n) => Divides(k, m * q + n)
           /\ Divides(k, m) /\ Divides(k, m * q + n) => Divides(k, n)
           /\ Divides(k, m) => Divides(k, m * q)
<1>1. ASSUME Divides(k, m), Divides(k, n) PROVE Divides(k, m * q + n)
  <2>1. PICK x \in Nat : m = k * x
    BY <1>1 DEF Divides
  <2>2. PICK y \in Nat : n = k * y
    BY <1>1 DEF Divides
  <2>3. m * q + n = k * (x * q + y) /\ x * q + y \in Nat
    BY <2>1, <2>2
  <2>. QED  BY <2>3 DEF Divides
<1>2. ASSUME Divides(k, m), Divides(k, m * q + n) PROVE Divides(k, n)
  <2>1. PICK x \in Nat : m = k * x
    BY <1>2 DEF Divides
  <2>2. PICK y \in Nat : m * q + n = k * y
    BY <1>2 DEF Divides
  <2>3. x * q \in Nat /\ k * (x * q) + n = k * y
    BY <2>1, <2>2
  <2>. DEFINE z == x * q
  <2>4. z \in Nat /\ k * z + n = k * y
    BY <2>3
  <2>. HIDE DEF z
  <2>5. CASE z <= y
    <3>1. y - z \in Nat /\ n = k * (y - z)
      BY <2>4, <2>5
    <3>. QED  BY <3>1 DEF Divides
  <2>6. CASE z > y
    <3>1. z - y \in Nat /\ k * (z - y) + n = 0
      BY <2>4, <2>6
    <3>2. k * (z - y) \in Nat
      BY <3>1
    <3>3. n = 0 /\ n = k * 0
      BY <3>1, <3>2
    <3>. QED  BY <3>3 DEF Divides
  <2>. QED  BY <2>4, <2>5, <2>6
<1>3. ASSUME Divides(k, m) PROVE Divides(k, m * q)
  <2>1. PICK x \in Nat : m = k * x
    BY <1>3 DEF Divides
  <2>2. m * q = k * (x * q) /\ x * q \in Nat
    BY <2>1
  <2>. QED  BY <2>2 DEF Divides
<1>. QED  BY <1>1, <1>2, <1>3

\* Only 1 divides 1.
LEMMA DividesOne ==
    ASSUME NEW k \in Nat, Divides(k, 1)
    PROVE  k = 1
<1>1. PICK q \in Nat : 1 = k * q
  BY DEF Divides
<1>2. k # 0 /\ q # 0
  BY <1>1
<1>3. k > 1 => k * q > 1
  BY <1>2
<1>. QED  BY <1>1, <1>2, <1>3

\* Quotient and remainder are unique.
LEMMA Remainder ==
    ASSUME NEW a \in Nat, NEW b \in Nat \ {0}, NEW q \in Nat, NEW r \in Nat, r < b, a = b * q + r
    PROVE  a \div b = q /\ a % b = r
OBVIOUS

-----------------------------------------------------------------------------
(* Numbers and their digits                                                 *)

\* A digit for each of n places, of which place d has L[d] values; C[d] numbers can be
\* written with the first d.
Radix(C, L, n) ==
    /\ L \in [1 .. n -> Nat \ {0}]
    /\ C \in [0 .. n -> Nat]
    /\ C[0] = 1
    /\ \A d \in 1 .. n : C[d] = C[d - 1] * L[d]

\* The digit d of a number.
Digit(C, L, i, d) == (i \div C[d - 1]) % L[d]

\* With one place more there are L times as many numbers.
LEMMA RadixStep ==
    ASSUME NEW n \in Nat, NEW C, NEW L, Radix(C, L, n), NEW k \in 0 .. n - 1
    PROVE  /\ C[k] \in Nat /\ C[k + 1] \in Nat /\ L[k + 1] \in Nat \ {0}
           /\ C[k + 1] = C[k] * L[k + 1]
<1>1. PICK m \in 1 .. n : m = k + 1
  OBVIOUS
<1>2. C[m] = C[m - 1] * L[m] /\ L[m] \in Nat \ {0}
  BY DEF Radix
<1>3. C[k] \in Nat /\ C[m] \in Nat
  BY DEF Radix
<1>4. m - 1 = k
  BY <1>1
<1>. QED  BY <1>1, <1>2, <1>3, <1>4, Zenon

\* There is a number for every count of places.
LEMMA RadixPositive ==
    ASSUME NEW n \in Nat, NEW C, NEW L, Radix(C, L, n), NEW k \in 0 .. n
    PROVE  C[k] \in Nat \ {0}
<1>. DEFINE Q == {j \in Nat : j <= n => C[j] \in Nat \ {0}}
<1>1. 0 \in Q
  BY DEF Radix
<1>2. ASSUME NEW j \in Nat, j \in Q PROVE j + 1 \in Q
  <2>. SUFFICES ASSUME j + 1 <= n PROVE C[j + 1] \in Nat \ {0}
    OBVIOUS
  <2>1. j \in 0 .. n - 1 /\ C[j] \in Nat \ {0}
    BY <1>2
  <2>2. C[j + 1] = C[j] * L[j + 1] /\ L[j + 1] \in Nat \ {0}
    BY <2>1, RadixStep
  <2>3. \A x, y \in Nat \ {0} : x * y \in Nat \ {0}
    OBVIOUS
  <2>. QED  BY <2>1, <2>2, <2>3, Zenon
<1>3. Q \in SUBSET Nat
  OBVIOUS
<1>. HIDE DEF Q
<1>4. k \in Q
  BY <1>1, <1>2, <1>3, Induction
<1>. QED  BY <1>4 DEF Q

\* How many numbers a place stands for divides how many the higher ones do.
LEMMA RadixDivides ==
    ASSUME NEW n \in Nat, NEW C, NEW L, Radix(C, L, n), NEW d \in 1 .. n, NEW k \in d .. n
    PROVE  \E m \in Nat : C[k] = C[d - 1] * (L[d] * m)
<1>. DEFINE b == C[d - 1]
            l == L[d]
            Q == {j \in Nat : d + j <= n => \E m \in Nat : C[d + j] = b * (l * m)}
<1>1. b \in Nat /\ l \in Nat \ {0} /\ C[d] = b * l
  <2>1. d - 1 \in 0 .. n /\ C \in [0 .. n -> Nat]
    BY DEF Radix
  <2>. QED  BY <2>1 DEF Radix
<1>. HIDE DEF b, l
<1>2. 0 \in Q
  <2>1. C[d + 0] = b * (l * 1)
    BY <1>1
  <2>. QED  BY <2>1
<1>3. ASSUME NEW j \in Nat, j \in Q PROVE j + 1 \in Q
  <2>. SUFFICES ASSUME d + (j + 1) <= n
                PROVE  \E m \in Nat : C[d + (j + 1)] = b * (l * m)
    OBVIOUS
  <2>. DEFINE e == d + j
              x == C[e]
              y == C[e + 1]
              z == L[e + 1]
  <2>1. e \in 0 .. n - 1 /\ d + (j + 1) = e + 1
    OBVIOUS
  <2>2. PICK m \in Nat : x = b * (l * m)
    BY <1>3
  <2>. HIDE DEF e
  <2>3. y = x * z /\ z \in Nat
    BY <2>1, RadixStep
  <2>. HIDE DEF x, y, z
  <2>4. y = b * (l * (m * z)) /\ m * z \in Nat
    BY <1>1, <2>2, <2>3
  <2>5. C[d + (j + 1)] = y
    BY <2>1, Zenon DEF y
  <2>. QED  BY <2>4, <2>5, Zenon
<1>4. Q \in SUBSET Nat
  OBVIOUS
<1>. HIDE DEF Q
<1>5. PICK j \in Nat : k = d + j
  <2>1. k - d \in Nat /\ k = d + (k - d)
    OBVIOUS
  <2>. QED  BY <2>1
<1>6. j \in Q
  BY <1>2, <1>3, <1>4, Induction
<1>7. \E m \in Nat : C[d + j] = b * (l * m)
  BY <1>5, <1>6 DEF Q
<1>. QED  BY <1>5, <1>7, Zenon DEF b, l

\* Multiples of b * l do not change the quotient by b, modulo l.
Shifted(a, b, l, m) == ((a + b * (l * m)) \div b) % l = (a \div b) % l

\* Nor do they, by the uniqueness of quotient and remainder.
LEMMA ShiftedDigit ==
    ASSUME NEW a \in Nat, NEW b \in Nat \ {0}, NEW l \in Nat \ {0}, NEW m \in Nat
    PROVE  Shifted(a, b, l, m)
<1>. DEFINE q == a \div b
            r == a % b
            u == q \div l
            v == q % l
<1>1. q \in Nat /\ r \in Nat /\ r < b /\ a = b * q + r
  OBVIOUS
<1>. HIDE DEF q, r
<1>2. u \in Nat /\ v \in Nat /\ v < l /\ q = l * u + v
  BY <1>1
<1>. HIDE DEF u, v
<1>. DEFINE A == a + b * (l * m)
            B == q + l * m
<1>3. A \in Nat /\ B \in Nat /\ A = b * B + r /\ B = l * (u + m) + v /\ u + m \in Nat
  BY <1>1, <1>2
<1>. HIDE DEF A, B
<1>4. A \div b = B
  BY <1>1, <1>3, Remainder
<1>5. B % l = v
  <2>. DEFINE w == u + m
  <2>1. w \in Nat /\ B = l * w + v
    BY <1>3
  <2>. HIDE DEF w
  <2>. QED  BY <1>2, <1>3, <2>1, Remainder
<1>. QED  BY <1>4, <1>5, Zenon DEF A, q, v, Shifted

\* What a higher place adds does not change the digits of the lower ones.
LEMMA LowerDigits ==
    ASSUME NEW n \in Nat, NEW C, NEW L, Radix(C, L, n), NEW k \in 0 .. n,
           NEW i \in Nat, NEW q \in Nat, NEW d \in 1 .. k
    PROVE  Digit(C, L, i + C[k] * q, d) = Digit(C, L, i, d)
<1>1. d \in 1 .. n /\ k \in d .. n /\ d - 1 \in 0 .. n
  OBVIOUS
<1>2. PICK m \in Nat : C[k] = C[d - 1] * (L[d] * m)
  BY <1>1, RadixDivides
<1>. DEFINE b == C[d - 1]
            l == L[d]
            c == C[k]
<1>3. b \in Nat \ {0} /\ l \in Nat \ {0} /\ c = b * (l * m)
  <2>1. b \in Nat \ {0}
    BY <1>1, RadixPositive
  <2>2. l \in Nat \ {0}
    BY <1>1 DEF Radix
  <2>. QED  BY <1>2, <2>1, <2>2, Zenon
<1>. HIDE DEF b, l, c
<1>4. c * q = b * (l * (m * q)) /\ m * q \in Nat
  BY <1>3
<1>5. ((i + b * (l * (m * q))) \div b) % l = (i \div b) % l
  <2>. DEFINE z == m * q
  <2>1. z \in Nat
    BY <1>4
  <2>. HIDE DEF z
  <2>2. Shifted(i, b, l, z)
    BY <1>3, <2>1, ShiftedDigit
  <2>. QED  BY <2>2, Zenon DEF z, Shifted
<1>6. ((i + c * q) \div b) % l = (i \div b) % l
  BY <1>4, <1>5, Zenon
<1>. QED  BY <1>6, Zenon DEF Digit, b, l, c

\* A number of k places with a digit in front of it.
LEMMA HighestDigit ==
    ASSUME NEW n \in Nat, NEW C, NEW L, Radix(C, L, n), NEW k \in 0 .. n - 1,
           NEW r \in Nat, r < C[k], NEW q \in Nat, q < L[k + 1]
    PROVE  /\ r + C[k] * q \in Nat /\ r + C[k] * q < C[k + 1]
           /\ Digit(C, L, r + C[k] * q, k + 1) = q
<1>. DEFINE c == C[k]
            l == L[k + 1]
            e == C[k + 1]
            i == r + c * q
<1>1. c \in Nat \ {0} /\ l \in Nat \ {0} /\ e = c * l
  <2>1. k \in 0 .. n
    OBVIOUS
  <2>2. c \in Nat \ {0}
    BY <2>1, RadixPositive
  <2>. QED  BY <2>2, RadixStep
<1>2. r < c /\ q < l
  OBVIOUS
<1>. HIDE DEF c, l, e
<1>3. i \in Nat /\ i = c * q + r
  BY <1>1
<1>4. i < e
  <2>1. c * (q + 1) <= c * l
    BY <1>1, <1>2
  <2>2. c * (q + 1) = c * q + c
    BY <1>1
  <2>. DEFINE x == c * q
              y == c * l
  <2>3. x \in Nat /\ y \in Nat /\ x + c <= y
    BY <1>1, <2>1, <2>2
  <2>4. i = r + x /\ e = y
    BY <1>1
  <2>. HIDE DEF x, y, i
  <2>. QED  BY <1>1, <1>2, <2>3, <2>4
<1>5. i \div c = q /\ q % l = q
  <2>1. i \div c = q
    <3>. HIDE DEF i
    <3>. QED  BY <1>1, <1>2, <1>3, Remainder
  <2>2. q % l = q
    BY <1>1, <1>2
  <2>. QED  BY <2>1, <2>2
<1>. HIDE DEF i
<1>6. Digit(C, L, i, k + 1) = q
  <2>1. C[(k + 1) - 1] = c
    <3>1. (k + 1) - 1 = k
      OBVIOUS
    <3>. QED  BY <3>1, Zenon DEF c
  <2>2. (i \div C[(k + 1) - 1]) % L[k + 1] = q
    BY <1>5, <2>1, Zenon DEF l
  <2>. QED  BY <2>2, Zenon DEF Digit
<1>. QED  BY <1>3, <1>4, <1>6, Zenon DEF i, c, e

\* The first k digits of i are those of g.
Same(C, L, i, g, k) == \A d \in 1 .. k : Digit(C, L, i, d) = g[d]

\* Every number of k places is made of its digits.
LEMMA Decomposed ==
    ASSUME NEW n \in Nat, NEW C, NEW L, Radix(C, L, n), NEW k \in 0 .. n - 1,
           NEW i \in Nat, i < C[k + 1]
    PROVE  \E r \in Nat, q \in Nat :
              /\ r < C[k] /\ q < L[k + 1] /\ i = r + C[k] * q
              /\ Digit(C, L, i, k + 1) = q
              /\ \A d \in 1 .. k : Digit(C, L, i, d) = Digit(C, L, r, d)
<1>. DEFINE c == C[k]
            l == L[k + 1]
            e == C[k + 1]
            q == i \div c
            r == i % c
<1>1. c \in Nat \ {0} /\ l \in Nat \ {0} /\ e = c * l
  <2>1. k \in 0 .. n
    OBVIOUS
  <2>2. c \in Nat \ {0}
    BY <2>1, RadixPositive
  <2>. QED  BY <2>2, RadixStep
<1>2. i < e
  OBVIOUS
<1>. HIDE DEF c, l, e
<1>3. q \in Nat /\ r \in Nat /\ r < c /\ i = c * q + r
  BY <1>1
<1>. HIDE DEF q, r
<1>4. q < l
  <2>1. CASE q >= l
    <3>1. c * q >= c * l
      BY <1>1, <1>3, <2>1
    <3>. DEFINE x == c * q
                y == c * l
    <3>2. x \in Nat /\ y \in Nat /\ x >= y /\ i = x + r /\ i < y
      BY <1>1, <1>2, <1>3, <3>1
    <3>. HIDE DEF x, y
    <3>. QED  BY <1>3, <3>2
  <2>. QED  BY <1>1, <1>3, <2>1
<1>5. i = r + C[k] * q
  <2>1. i = r + c * q
    BY <1>1, <1>3
  <2>. QED  BY <2>1, Zenon DEF c
<1>6. r < C[k] /\ q < L[k + 1]
  BY <1>3, <1>4 DEF c, l
<1>7. Digit(C, L, r + C[k] * q, k + 1) = q
  BY <1>3, <1>6, HighestDigit
<1>8. \A d \in 1 .. k : Digit(C, L, r + C[k] * q, d) = Digit(C, L, r, d)
  <2>1. k \in 0 .. n
    OBVIOUS
  <2>. QED  BY <1>3, <2>1, LowerDigits
<1>. QED  BY <1>3, <1>5, <1>6, <1>7, <1>8, Zenon

\* There is a number for any choice of digits: a digit more is put in front.
LEMMA DigitsReach ==
    ASSUME NEW n \in Nat, NEW C, NEW L, Radix(C, L, n),
           NEW g \in [1 .. n -> Nat], \A d \in 1 .. n : g[d] < L[d]
    PROVE  \E i \in Nat : i < C[n] /\ Same(C, L, i, g, n)
<1>. DEFINE Q == {k \in Nat : k <= n => \E i \in Nat : i < C[k] /\ Same(C, L, i, g, k)}
<1>1. 0 \in Q
  <2>1. 0 < C[0] /\ Same(C, L, 0, g, 0)
    BY DEF Radix, Same
  <2>. QED  BY <2>1
<1>2. ASSUME NEW k \in Nat, k \in Q PROVE k + 1 \in Q
  <2>. SUFFICES ASSUME k + 1 <= n
                PROVE  \E i \in Nat : i < C[k + 1] /\ Same(C, L, i, g, k + 1)
    OBVIOUS
  <2>1. k \in 0 .. n - 1 /\ k \in 0 .. n /\ k + 1 \in 1 .. n /\ k <= n
    OBVIOUS
  <2>2. PICK r \in Nat : r < C[k] /\ Same(C, L, r, g, k)
    BY <1>2, <2>1
  <2>3. PICK q \in Nat : q = g[k + 1]
    BY <2>1
  <2>4. q < L[k + 1]
    BY <2>1, <2>3
  <2>. DEFINE i == r + C[k] * q
  <2>5. i \in Nat /\ i < C[k + 1] /\ Digit(C, L, i, k + 1) = q
    BY <2>1, <2>2, <2>4, HighestDigit
  <2>6. \A d \in 1 .. k : Digit(C, L, i, d) = Digit(C, L, r, d)
    BY <2>1, LowerDigits
  <2>. HIDE DEF i
  <2>7. \A d \in 1 .. k + 1 : d = k + 1 \/ d \in 1 .. k
    OBVIOUS
  <2>8. Same(C, L, i, g, k + 1)
    BY <2>2, <2>3, <2>5, <2>6, <2>7, Zenon DEF Same
  <2>. QED  BY <2>5, <2>8
<1>3. Q \in SUBSET Nat
  OBVIOUS
<1>. HIDE DEF Q
<1>4. n \in Q
  BY <1>1, <1>2, <1>3, Induction
<1>. QED  BY <1>4 DEF Q

\* Numbers with the same digits are the same: without the first, and then with it.
LEMMA DigitsTell ==
    ASSUME NEW n \in Nat, NEW C, NEW L, Radix(C, L, n),
           NEW i \in Nat, i < C[n], NEW j \in Nat, j < C[n],
           \A d \in 1 .. n : Digit(C, L, i, d) = Digit(C, L, j, d)
    PROVE  i = j
<1>. DEFINE Tell(k) ==
              \A x, y \in Nat :
                 x < C[k] /\ y < C[k] /\ (\A d \in 1 .. k : Digit(C, L, x, d) = Digit(C, L, y, d))
                 => x = y
            Q == {k \in Nat : k <= n => Tell(k)}
<1>1. 0 \in Q
  <2>1. C[0] = 1
    BY DEF Radix
  <2>2. Tell(0)
    BY <2>1
  <2>. QED  BY <2>2, Zenon
<1>2. ASSUME NEW k \in Nat, k \in Q PROVE k + 1 \in Q
  <2>. SUFFICES ASSUME k + 1 <= n, NEW x \in Nat, NEW y \in Nat,
                       x < C[k + 1], y < C[k + 1],
                       \A d \in 1 .. k + 1 : Digit(C, L, x, d) = Digit(C, L, y, d)
                PROVE  x = y
    OBVIOUS
  <2>1. k \in 0 .. n - 1 /\ k <= n /\ k + 1 \in 1 .. k + 1
    OBVIOUS
  <2>2. PICK r \in Nat, q \in Nat :
           /\ r < C[k] /\ q < L[k + 1] /\ x = r + C[k] * q
           /\ Digit(C, L, x, k + 1) = q
           /\ \A d \in 1 .. k : Digit(C, L, x, d) = Digit(C, L, r, d)
    BY <2>1, Decomposed
  <2>3. PICK s \in Nat, p \in Nat :
           /\ s < C[k] /\ p < L[k + 1] /\ y = s + C[k] * p
           /\ Digit(C, L, y, k + 1) = p
           /\ \A d \in 1 .. k : Digit(C, L, y, d) = Digit(C, L, s, d)
    BY <2>1, Decomposed
  <2>4. q = p
    BY <2>1, <2>2, <2>3, Zenon
  <2>5. \A d \in 1 .. k : Digit(C, L, r, d) = Digit(C, L, s, d)
    <3>1. \A d \in 1 .. k : d \in 1 .. k + 1
      OBVIOUS
    <3>. QED  BY <2>2, <2>3, <3>1, Zenon
  <2>6. Tell(k)
    BY <1>2, <2>1
  <2>. HIDE DEF Q
  <2>7. r = s
    BY <2>2, <2>3, <2>5, <2>6, Zenon
  <2>. QED  BY <2>2, <2>3, <2>4, <2>7, Zenon
<1>3. Q \in SUBSET Nat
  OBVIOUS
<1>. HIDE DEF Q
<1>4. n \in Q
  BY <1>1, <1>2, <1>3, Induction
<1>5. Tell(n)
  <2>1. n <= n
    OBVIOUS
  <2>. QED  BY <1>4, <2>1, Zenon DEF Q
<1>. QED  BY <1>5, Zenon

=============================================================================
