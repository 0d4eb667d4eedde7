--------------------------- MODULE Startup_proofs ---------------------------
(***************************************************************************)
(* Proofs about what noray starts with: the functions that read its        *)
(* configuration and its other pure functions (Library), and the start of  *)
(* the server and its end (NorayLifecycle), for all lists of ports and all *)
(* arguments.                                                              *)
(***************************************************************************)
EXTENDS NorayLifecycle, Library, Collections_proofs

-----------------------------------------------------------------------------
(* Decimal texts                                                            *)

\* A digit of a decimal text.
Digits == 0 .. 9

\* Decimal is the function that its equation describes.
LEMMA DecimalDef ==
    /\ Decimal \in [Nat -> Seq(Digits)]
    /\ \A n \in Nat : Decimal[n] = IF n < 10 THEN << n >> ELSE Append(Decimal[n \div 10], n % 10)
<1>. DEFINE T == Seq(Digits)
            Base == {n \in Nat : n < 10}
            mu == [n \in Nat |-> n]
            p == [n \in Nat \ Base |-> n \div 10]
            b == [n \in Base |-> << n >>]
            g == [x \in (Nat \ Base) \X T |-> Append(x[2], x[1] % 10)]
<1>1. \A n \in Nat \ Base : n \div 10 \in Nat /\ n \div 10 < n /\ n % 10 \in Digits
  BY DEF Digits
<1>2. /\ Base \in SUBSET Nat /\ mu \in [Nat -> Nat] /\ p \in [Nat \ Base -> Nat]
      /\ \A n \in Nat \ Base : mu[p[n]] < mu[n]
  BY <1>1
<1>3. b \in [Base -> T]
  <2>1. \A n \in Base : n \in Digits
    BY DEF Digits
  <2>. QED  BY <2>1
<1>4. g \in [(Nat \ Base) \X T -> T]
  <2>. SUFFICES ASSUME NEW x \in (Nat \ Base) \X T PROVE Append(x[2], x[1] % 10) \in T
    OBVIOUS
  <2>1. x[1] \in Nat \ Base /\ x[2] \in Seq(Digits)
    OBVIOUS
  <2>2. x[1] % 10 \in Digits
    BY <1>1, <2>1
  <2>. QED  BY <2>1, <2>2, AppendProperties
<1>5. IsRecursion(Nat, T, Base, mu, p, b, g)
  <2>. HIDE DEF T, Base, mu, p, b, g
  <2>. QED  BY <1>2, <1>3, <1>4 DEF IsRecursion
<1>. PICK f : Solves(f, Nat, T, Base, p, b, g)
  BY <1>5, Recursion, Zenon
<1>a. f \in [Nat -> T] /\ \A n \in Nat : f[n] = IF n \in Base THEN b[n] ELSE g[<<n, f[p[n]]>>]
  BY DEF Solves
<1>6. \A n \in Nat : f[n] = IF n < 10 THEN << n >> ELSE Append(f[n \div 10], n % 10)
  <2>. TAKE n \in Nat
  <2>1. CASE n < 10
    <3>1. n \in Base /\ b[n] = << n >>
      BY <2>1
    <3>. HIDE DEF Base, b
    <3>. QED  BY <1>a, <2>1, <3>1
  <2>2. CASE ~(n < 10)
    <3>1. n \in Nat \ Base /\ p[n] = n \div 10 /\ n \div 10 \in Nat
      BY <1>1, <2>2
    <3>2. f[p[n]] \in T
      BY <1>a, <3>1
    <3>3. <<n, f[p[n]]>> \in (Nat \ Base) \X T
      BY <3>1, <3>2
    <3>4. g[<<n, f[p[n]]>>] = Append(f[p[n]], n % 10)
      BY <3>3
    <3>. HIDE DEF Base, p, g, T
    <3>. QED  BY <1>a, <2>2, <3>1, <3>4
  <2>. QED  BY <2>1, <2>2
<1>7. f = [n \in Nat |-> IF n < 10 THEN << n >> ELSE Append(f[n \div 10], n % 10)]
  BY <1>a, <1>6, Zenon
<1>8. Decimal = [n \in Nat |-> IF n < 10 THEN << n >> ELSE Append(Decimal[n \div 10], n % 10)]
  BY <1>7, Zenon DEF Decimal
<1>9. \A n \in Nat : Decimal[n] = IF n < 10 THEN << n >> ELSE Append(Decimal[n \div 10], n % 10)
  BY <1>8, Zenon
<1>10. \A n \in Nat : Decimal[n] \in Seq(Digits)
  <2>. DEFINE P == {n \in Nat : Decimal[n] \notin Seq(Digits)}
  <2>. SUFFICES ASSUME P # {} PROVE FALSE
    OBVIOUS
  <2>1. PICK n \in P : \A m \in P : n <= m
    <3>1. P \in SUBSET Nat
      OBVIOUS
    <3>. QED  BY <3>1, LeastNat
  <2>2. ~(n < 10)
    <3>1. n < 10 => << n >> \in Seq(Digits)
      BY DEF Digits
    <3>. QED  BY <1>9, <3>1
  <2>3. n \div 10 \in Nat /\ n \div 10 \notin P /\ n % 10 \in Digits
    BY <1>1, <2>1, <2>2
  <2>4. Decimal[n] = Append(Decimal[n \div 10], n % 10)
    BY <1>9, <2>2
  <2>5. Decimal[n \div 10] \in Seq(Digits)
    BY <2>3
  <2>6. Decimal[n] \in Seq(Digits)
    BY <2>3, <2>4, <2>5, AppendProperties
  <2>. QED  BY <2>6
<1>11. Decimal \in [Nat -> Seq(Digits)]
  BY <1>8, <1>10, Zenon
<1>. QED  BY <1>9, <1>11

\* A text of digits, of one at least.
LEMMA DecimalType ==
    ASSUME NEW n \in Nat
    PROVE  Decimal[n] \in Seq(Digits) /\ Len(Decimal[n]) > 0
<1>1. Decimal[n] \in Seq(Digits)
  BY DecimalDef
<1>2. CASE n < 10
  BY <1>2, DecimalDef
<1>3. CASE ~(n < 10)
  <2>1. n \div 10 \in Nat
    OBVIOUS
  <2>2. Decimal[n \div 10] \in Seq(Digits)
    BY <2>1, DecimalDef
  <2>3. Decimal[n] = Append(Decimal[n \div 10], n % 10)
    BY <1>3, DecimalDef
  <2>4. Len(Decimal[n]) = Len(Decimal[n \div 10]) + 1
    BY <2>2, <2>3, AppendProperties
  <2>. QED  BY <1>1, <2>2, <2>4
<1>. QED  BY <1>1, <1>2, <1>3

\* The last digit is the remainder, the others are the text of the quotient.
LEMMA DecimalStep ==
    ASSUME NEW j \in Nat, ~(j < 10)
    PROVE  /\ j \div 10 \in Nat /\ j \div 10 < j /\ j % 10 \in Digits
           /\ Decimal[j \div 10] \in Seq(Digits)
           /\ Decimal[j] = Append(Decimal[j \div 10], j % 10)
           /\ Len(Decimal[j]) > 1
<1>1. j \div 10 \in Nat /\ j \div 10 < j /\ j % 10 \in Digits
  BY DEF Digits
<1>2. Decimal[j \div 10] \in Seq(Digits) /\ Len(Decimal[j \div 10]) > 0
  BY <1>1, DecimalType
<1>3. Decimal[j] = Append(Decimal[j \div 10], j % 10)
  BY DecimalDef
<1>4. Len(Decimal[j]) = Len(Decimal[j \div 10]) + 1
  BY <1>1, <1>2, <1>3, AppendProperties
<1>. QED  BY <1>1, <1>2, <1>3, <1>4

\* Different numbers are written differently.
LEMMA DecimalInjective ==
    ASSUME NEW m \in Nat, NEW n \in Nat, Decimal[m] = Decimal[n]
    PROVE  m = n
<1>. DEFINE P == {k \in Nat : \E l \in Nat : Decimal[k] = Decimal[l] /\ k # l}
<1>. SUFFICES ASSUME P # {} PROVE FALSE
  OBVIOUS
<1>1. PICK k \in P : \A j \in P : k <= j
  <2>1. P \in SUBSET Nat
    OBVIOUS
  <2>. QED  BY <2>1, LeastNat
<1>2. PICK l \in Nat : Decimal[k] = Decimal[l] /\ k # l
  OBVIOUS
<1>3. k \in Nat /\ l \in Nat
  OBVIOUS
<1>5. \A j \in Nat : j < 10 => Decimal[j] = << j >> /\ Len(Decimal[j]) = 1
  <2>. HIDE DEF P
  <2>1. \A j \in Nat : j < 10 => Decimal[j] = << j >>
    BY DecimalDef, Zenon
  <2>2. \A j : Len(<< j >>) = 1
    OBVIOUS
  <2>. QED  BY <2>1, <2>2, Zenon
<1>. HIDE DEF P
<1>6. CASE k < 10
  <2>1. l < 10
    <3>1. Len(Decimal[l]) = 1
      BY <1>2, <1>3, <1>5, <1>6
    <3>. QED  BY <1>3, <3>1, DecimalStep
  <2>2. << k >> = << l >>
    BY <1>2, <1>3, <1>5, <1>6, <2>1
  <2>. QED  BY <1>2, <2>2
<1>7. CASE ~(k < 10)
  <2>1. ~(l < 10)
    <3>. SUFFICES ASSUME l < 10 PROVE FALSE
      OBVIOUS
    <3>1. Len(Decimal[l]) > 1
      BY <1>2, <1>3, <1>7, DecimalStep
    <3>2. Len(Decimal[l]) = 1
      BY <1>3, <1>5
    <3>. QED  BY <3>1, <3>2
  <2>2. Decimal[k \div 10] = Decimal[l \div 10] /\ k % 10 = l % 10
    <3>1. Append(Decimal[k \div 10], k % 10) = Append(Decimal[l \div 10], l % 10)
      BY <1>2, <1>3, <1>7, <2>1, DecimalStep
    <3>2. /\ Decimal[k \div 10] \in Seq(Digits) /\ k % 10 \in Digits
          /\ Decimal[l \div 10] \in Seq(Digits) /\ l % 10 \in Digits
      BY <1>3, <1>7, <2>1, DecimalStep
    <3>. QED  BY <3>1, <3>2, AppendInjective
  <2>3. k \div 10 = l \div 10
    <3>1. k \div 10 \in Nat /\ k \div 10 < k /\ l \div 10 \in Nat
      BY <1>3, <1>7, <2>1, DecimalStep
    <3>2. k \div 10 \notin P
      BY <1>1, <1>3, <3>1
    <3>. QED  BY <2>2, <3>1, <3>2 DEF P
  <2>4. \A j \in Nat : j = 10 * (j \div 10) + (j % 10)
    OBVIOUS
  <2>. QED  BY <1>2, <1>3, <2>2, <2>3, <2>4
<1>. QED  BY <1>6, <1>7

-----------------------------------------------------------------------------
(* Texts in order                                                           *)

\* What TextBefore says of the digits of two natural numbers.
Precedes(s, t) ==
    \E i \in 1 .. Len(t) :
       /\ i <= Len(s) + 1
       /\ \A j \in 1 .. i - 1 : s[j] = t[j]
       /\ i > Len(s) \/ s[i] < t[i]

\* Texts that agree up to a place agree up to every earlier one.
LEMMA PrefixEqual ==
    ASSUME NEW S, NEW s \in Seq(S), NEW t \in Seq(S), NEW i \in Nat,
           i <= Len(s), i <= Len(t)
    PROVE  SubSeq(s, 1, i) = SubSeq(t, 1, i) <=> \A j \in 1 .. i : s[j] = t[j]
<1>1. /\ \A j \in 1 .. i : s[j] \in S
      /\ \A j \in 1 .. i : t[j] \in S
  BY ElementOfSeq, LenProperties
<1>2. /\ SubSeq(s, 1, i) \in Seq(S) /\ Len(SubSeq(s, 1, i)) = i
      /\ \A j \in 1 .. i : SubSeq(s, 1, i)[j] = s[j]
  BY <1>1, SubSeqProperties
<1>3. /\ SubSeq(t, 1, i) \in Seq(S) /\ Len(SubSeq(t, 1, i)) = i
      /\ \A j \in 1 .. i : SubSeq(t, 1, i)[j] = t[j]
  BY <1>1, SubSeqProperties
<1>4. ASSUME \A j \in 1 .. i : s[j] = t[j] PROVE SubSeq(s, 1, i) = SubSeq(t, 1, i)
  BY <1>2, <1>3, <1>4, SeqEqual
<1>5. ASSUME SubSeq(s, 1, i) = SubSeq(t, 1, i) PROVE \A j \in 1 .. i : s[j] = t[j]
  BY <1>2, <1>3, <1>5
<1>. QED  BY <1>4, <1>5

\* Precedes is a strict total order of texts, as far as different ones are compared.
LEMMA PrecedesOrder ==
    ASSUME NEW s \in Seq(Nat), NEW t \in Seq(Nat)
    PROVE  /\ ~Precedes(s, s)
           /\ s = t \/ Precedes(s, t) \/ Precedes(t, s)
           /\ \A u \in Seq(Nat) : Precedes(s, t) /\ Precedes(t, u) => Precedes(s, u)
<1>0. /\ Len(s) \in Nat /\ \A i \in 1 .. Len(s) : s[i] \in Nat
      /\ Len(t) \in Nat /\ \A i \in 1 .. Len(t) : t[i] \in Nat
  BY ElementOfSeq, LenProperties
<1>1. ~Precedes(s, s)
  BY <1>0 DEF Precedes
<1>2. s = t \/ Precedes(s, t) \/ Precedes(t, s)
  <2>. SUFFICES ASSUME s # t PROVE Precedes(s, t) \/ Precedes(t, s)
    OBVIOUS
  <2>. DEFINE D == {i \in Nat \ {0} : i > Len(s) \/ i > Len(t) \/ s[i] # t[i]}
  <2>1. Len(s) + 1 \in D /\ Len(t) + 1 \in D
    BY <1>0
  <2>2. PICK i \in D : \A j \in D : i <= j
    <3>1. D \in SUBSET Nat /\ D # {}
      BY <2>1
    <3>. QED  BY <3>1, LeastNat
  <2>3. i \in Nat \ {0} /\ i <= Len(s) + 1 /\ i <= Len(t) + 1
    BY <2>1, <2>2
  <2>4. \A j \in 1 .. i - 1 : j \in Nat \ {0} /\ j \notin D
    BY <2>2, <2>3
  <2>5. \A j \in 1 .. i - 1 : s[j] = t[j]
    BY <2>4
  <2>6. i > Len(s) \/ i > Len(t) \/ s[i] # t[i]
    OBVIOUS
  <2>. HIDE DEF D
  <2>7. CASE i > Len(s) /\ i > Len(t)
    <3>1. Len(s) = Len(t) /\ \A j \in 1 .. Len(s) : s[j] = t[j]
      BY <1>0, <2>3, <2>5, <2>7
    <3>. QED  BY <3>1, SeqEqual
  <2>8. CASE i > Len(s) /\ i <= Len(t)
    BY <1>0, <2>3, <2>5, <2>8 DEF Precedes
  <2>9. CASE i <= Len(s) /\ i > Len(t)
    BY <1>0, <2>3, <2>5, <2>9 DEF Precedes
  <2>10. CASE i <= Len(s) /\ i <= Len(t)
    <3>1. s[i] < t[i] \/ t[i] < s[i]
      BY <1>0, <2>3, <2>6, <2>10
    <3>. QED  BY <1>0, <2>3, <2>5, <2>10, <3>1 DEF Precedes
  <2>. QED  BY <1>0, <2>3, <2>7, <2>8, <2>9, <2>10
<1>3. ASSUME NEW u \in Seq(Nat), Precedes(s, t), Precedes(t, u) PROVE Precedes(s, u)
  <2>1. Len(u) \in Nat /\ \A i \in 1 .. Len(u) : u[i] \in Nat
    BY ElementOfSeq, LenProperties
  <2>2. PICK i \in 1 .. Len(t) :
           /\ i <= Len(s) + 1
           /\ \A j \in 1 .. i - 1 : s[j] = t[j]
           /\ i > Len(s) \/ s[i] < t[i]
    BY <1>3 DEF Precedes
  <2>3. PICK k \in 1 .. Len(u) :
           /\ k <= Len(t) + 1
           /\ \A j \in 1 .. k - 1 : t[j] = u[j]
           /\ k > Len(t) \/ t[k] < u[k]
    BY <1>3 DEF Precedes
  <2>4. CASE i < k
    <3>1. i \in 1 .. Len(u) /\ i \in 1 .. k - 1 /\ i \in Nat /\ k \in Nat
      BY <1>0, <2>1, <2>2, <2>3, <2>4
    <3>2. t[i] = u[i]
      BY <2>3, <3>1
    <3>3. \A j \in 1 .. i - 1 : s[j] = u[j]
      <4>. TAKE j \in 1 .. i - 1
      <4>1. j \in 1 .. k - 1
        BY <2>4, <3>1
      <4>. QED  BY <2>2, <2>3, <4>1
    <3>. QED  BY <2>2, <3>1, <3>2, <3>3 DEF Precedes
  <2>5. CASE k < i
    <3>1. k \in 1 .. i - 1 /\ k \in Nat /\ i \in Nat /\ k <= Len(s)
      BY <1>0, <2>1, <2>2, <2>3, <2>5
    <3>2. s[k] = t[k] /\ s[k] < u[k]
      BY <1>0, <2>1, <2>2, <2>3, <2>5, <3>1
    <3>3. \A j \in 1 .. k - 1 : s[j] = u[j]
      <4>. TAKE j \in 1 .. k - 1
      <4>1. j \in 1 .. i - 1
        BY <2>5, <3>1
      <4>. QED  BY <2>2, <2>3, <4>1
    <3>4. k \in 1 .. Len(u) /\ k <= Len(s) + 1
      BY <1>0, <2>3, <3>1
    <3>. QED  BY <3>2, <3>3, <3>4 DEF Precedes
  <2>6. CASE i = k
    <3>1. t[i] < u[i] /\ \A j \in 1 .. i - 1 : s[j] = u[j]
      BY <1>0, <2>1, <2>2, <2>3, <2>6
    <3>2. i > Len(s) \/ s[i] < u[i]
      <4>1. CASE i > Len(s)
        BY <4>1
      <4>2. CASE ~(i > Len(s))
        <5>1. s[i] < t[i] /\ i \in 1 .. Len(s)
          BY <2>1, <2>2, <4>2
        <5>2. i \in 1 .. Len(u) /\ i \in 1 .. Len(t)
          BY <2>2, <2>3, <2>6
        <5>3. s[i] \in Nat
          BY <1>0, <5>1
        <5>4. t[i] \in Nat
          BY <1>0, <5>2
        <5>5. u[i] \in Nat
          BY <2>1, <5>2
        <5>6. t[i] < u[i]
          BY <3>1
        <5>. QED  BY <5>1, <5>3, <5>4, <5>5, <5>6
      <4>. QED  BY <4>1, <4>2
    <3>. QED  BY <2>2, <2>3, <2>6, <3>1, <3>2 DEF Precedes
  <2>. QED  BY <1>0, <2>1, <2>4, <2>5, <2>6
<1>. QED  BY <1>1, <1>2, <1>3

\* For natural numbers sort() compares their digits.
LEMMA TextBeforePrecedes ==
    ASSUME NEW m \in Nat, NEW n \in Nat
    PROVE  TextBefore(m, n) <=> Precedes(Decimal[m], Decimal[n])
<1>. DEFINE s == Decimal[m]
            t == Decimal[n]
<1>1. s \in Seq(Digits) /\ t \in Seq(Digits) /\ Len(s) \in Nat /\ Len(t) \in Nat /\ DOMAIN t = 1 .. Len(t)
  BY DecimalType, LenProperties
<1>2. TextBefore(m, n) <=>
         \E i \in 1 .. Len(t) :
            /\ i <= Len(s) + 1 /\ SubSeq(s, 1, i - 1) = SubSeq(t, 1, i - 1)
            /\ i > Len(s) \/ s[i] < t[i]
  <2>1. ~(m < 0) /\ ~(n < 0) /\ m >= 0 /\ n >= 0
    OBVIOUS
  <2>2. TextBefore(m, n) <=>
         \E i \in DOMAIN t :
            /\ i <= Len(s) + 1 /\ SubSeq(s, 1, i - 1) = SubSeq(t, 1, i - 1)
            /\ i > Len(s) \/ s[i] < t[i]
    BY <2>1, Zenon DEF TextBefore
  <2>. HIDE DEF s, t
  <2>. QED  BY <1>1, <2>2
<1>. HIDE DEF s, t
<1>3. ASSUME NEW i \in 1 .. Len(t), i <= Len(s) + 1
      PROVE  SubSeq(s, 1, i - 1) = SubSeq(t, 1, i - 1) <=> \A j \in 1 .. i - 1 : s[j] = t[j]
  <2>1. i - 1 \in Nat /\ i - 1 <= Len(s) /\ i - 1 <= Len(t)
    BY <1>1, <1>3
  <2>. QED  BY <1>1, <2>1, PrefixEqual
<1>4. Precedes(s, t) <=>
         \E i \in 1 .. Len(t) :
            /\ i <= Len(s) + 1 /\ SubSeq(s, 1, i - 1) = SubSeq(t, 1, i - 1)
            /\ i > Len(s) \/ s[i] < t[i]
  BY <1>3 DEF Precedes
<1>. QED  BY <1>2, <1>4 DEF s, t

\* sort() is a permutation, though numbers are compared as texts: different ones
\* have different texts, one of which comes first.
LEMMA SortedTexts ==
    ASSUME NEW S \in SUBSET Nat, IsFiniteSet(S)
    PROVE  /\ Sorted(S, TextBefore) \in Seq(S)
           /\ Len(Sorted(S, TextBefore)) = Cardinality(S)
           /\ Range(Sorted(S, TextBefore)) = S
<1>. DEFINE R == {x \in S \X S : TextBefore(x[1], x[2])}
<1>1. \A x, y \in S : <<x, y>> \in R <=> Precedes(Decimal[x], Decimal[y])
  BY TextBeforePrecedes
<1>2. \A x \in S : Decimal[x] \in Seq(Nat)
  <2>. TAKE x \in S
  <2>1. Decimal[x] \in Seq(Digits) /\ Digits \subseteq Nat
    BY DecimalType DEF Digits
  <2>. QED  BY <2>1, SeqMonotonic
<1>3. TotallyOrders(R, S)
  <2>. HIDE DEF R
  <2>1. \A x \in S : <<x, x>> \notin R
    BY <1>1, <1>2, PrecedesOrder
  <2>2. \A x, y, z \in S : <<x, y>> \in R /\ <<y, z>> \in R => <<x, z>> \in R
    BY <1>1, <1>2, PrecedesOrder
  <2>3. \A x, y \in S : x = y \/ <<x, y>> \in R \/ <<y, x>> \in R
    <3>. TAKE x \in S, y \in S
    <3>1. Decimal[x] = Decimal[y] => x = y
      BY DecimalInjective
    <3>. QED  BY <1>1, <1>2, <3>1, PrecedesOrder
  <2>. QED  BY <2>1, <2>2, <2>3 DEF TotallyOrders
<1>4. Ranks(Sorted(S, TextBefore), S, R)
  <2>. DEFINE Place(k) == CHOOSE x \in S : Cardinality({y \in S : TextBefore(y, x)}) = k - 1
  <2>1. \A x \in S : {y \in S : TextBefore(y, x)} = {y \in S : <<y, x>> \in R}
    OBVIOUS
  <2>2. Sorted(S, TextBefore) = [k \in 1 .. Cardinality(S) |-> Place(k)]
    BY DEF Sorted
  <2>3. \A k \in 1 .. Cardinality(S) :
          (\E x \in S : Cardinality({y \in S : TextBefore(y, x)}) = k - 1) =>
          Place(k) \in S /\ Cardinality({y \in S : TextBefore(y, Place(k))}) = k - 1
    OBVIOUS
  <2>. HIDE DEF R, Place
  <2>4. \A k \in 1 .. Cardinality(S) : Sorted(S, TextBefore)[k] = Place(k)
    BY <2>2
  <2>. QED  BY <2>1, <2>2, <2>3, <2>4 DEF Ranks
<1>. QED  BY <1>3, <1>4, RankedFacts

\* The smaller text comes first when two numbers are sorted.
LEMMA SortedPair ==
    ASSUME NEW a \in Nat, NEW b \in Nat, a < b
    PROVE  Sorted({a, b}, <) = << a, b >>
<1>. DEFINE S == {a, b}
            R == {<< a, b >>}
<1>1. IsFiniteSet(S) /\ Cardinality(S) = 2
  <2>1. IsFiniteSet({a}) /\ Cardinality({a}) = 1
    BY FS_Singleton
  <2>2. IsFiniteSet({a} \union {b}) /\ Cardinality({a} \union {b}) = 1 + 1
    BY <2>1, FS_AddElement
  <2>3. S = {a} \union {b}
    OBVIOUS
  <2>. QED  BY <2>2, <2>3
<1>2. TotallyOrders(R, S)
  BY DEF TotallyOrders
<1>3. \A x, y \in S : <<y, x>> \in R <=> y < x
  OBVIOUS
<1>4. Ranks(Sorted(S, <), S, R)
  <2>. DEFINE Place(k) == CHOOSE x \in S : Cardinality({y \in S : y < x}) = k - 1
  <2>1. \A x \in S : {y \in S : y < x} = {y \in S : <<y, x>> \in R}
    BY <1>3
  <2>2. Sorted(S, <) = [k \in 1 .. Cardinality(S) |-> Place(k)]
    BY Zenon DEF Sorted
  <2>. HIDE DEF R, S
  <2>3. \A k \in 1 .. Cardinality(S) :
          (\E x \in S : Cardinality({y \in S : y < x}) = k - 1) =>
          Place(k) \in S /\ Cardinality({y \in S : y < Place(k)}) = k - 1
    OBVIOUS
  <2>. HIDE DEF Place
  <2>4. \A k \in 1 .. Cardinality(S) : Sorted(S, <)[k] = Place(k)
    BY <2>2, Zenon
  <2>. QED  BY <2>1, <2>2, <2>3, <2>4, Zenon DEF Ranks
<1>. DEFINE q == Sorted(S, <)
<1>5. q \in Seq(S) /\ Len(q) = 2 /\ <<q[1], q[2]>> \in R
  <2>1. /\ q \in Seq(S) /\ Len(q) = 2
        /\ \A i, j \in 1 .. 2 : i < j => <<q[i], q[j]>> \in R
    <3>. HIDE DEF S, R, q
    <3>. QED  BY <1>1, <1>2, <1>4, RankedFacts, Zenon DEF q
  <2>. HIDE DEF q, R
  <2>. QED  BY <2>1
<1>. HIDE DEF q
<1>6. q[1] = a /\ q[2] = b
  BY <1>5
<1>7. q = << a, b >>
  BY <1>5, <1>6
<1>. QED  BY <1>7, Zenon DEF q

-----------------------------------------------------------------------------
(* Ports                                                                    *)

\* What a number is made of.
Number10 == Nat \ Characters

\* The forms of a range, with its numbers.
LEMMA RangeForms ==
    ASSUME NEW r \in Seq(Token), IsRange(r)
    PROVE  \/ \E a \in Number10 : r = << a >>
           \/ \E a, b \in Number10, s \in {Dash, Plus} : r = << a, s, b >>
<1>1. Len(r) \in Nat /\ \A i \in 1 .. Len(r) : r[i] \in Token
  BY ElementOfSeq, LenProperties
<1>2. CASE Len(r) = 1 /\ IsDigits(r[1])
  <2>1. r[1] \in Number10
    BY <1>1, <1>2 DEF IsDigits, Token, Number10
  <2>2. r = << r[1] >>
    BY <1>2
  <2>. QED  BY <2>1, <2>2
<1>3. CASE Len(r) = 3 /\ IsDigits(r[1]) /\ r[2] \in {Dash, Plus} /\ IsDigits(r[3])
  <2>1. r[1] \in Number10 /\ r[3] \in Number10
    BY <1>1, <1>3 DEF IsDigits, Token, Number10
  <2>2. r = << r[1], r[2], r[3] >>
    BY <1>3
  <2>. QED  BY <1>3, <2>1, <2>2
<1>. QED  BY <1>2, <1>3 DEF IsRange

\* A number is read as itself.
LEMMA IntegerDigits ==
    ASSUME NEW a \in Number10
    PROVE  Integer(<< a >>) = a
<1>1. << a >> \in Seq(Token)
  BY DEF Token, Number10
<1>2. << a >> # Undefined
  BY <1>1, OutcomesAssumption
<1>3. Len(<< a >>) = 1 /\ << a >>[1] = a /\ a \notin Characters
  BY DEF Number10
<1>. DEFINE text == << a >>
<1>. HIDE DEF text
<1>4. text # Undefined /\ Len(text) > 0 /\ IsDigits(text[1]) /\ text[1] = a /\ ~(Len(text) > 1)
  BY <1>2, <1>3 DEF IsDigits, text
<1>5. Integer(text) = a
  BY <1>4 DEF Integer
<1>. QED  BY <1>5 DEF text

\* A range is split into its two numbers.
LEMMA PiecesOfRange ==
    ASSUME NEW a \in Number10, NEW b \in Number10, NEW s \in {Dash, Plus}
    PROVE  Pieces(<< a, s, b >>, s) = << a, b >>
<1>. DEFINE r == << a, s, b >>
            ends == Sorted({i \in DOMAIN r : r[i] = s} \union {Len(r) + 1}, <)
<1>1. a # s /\ b # s
  BY DEF Number10, Characters
<1>2. {i \in DOMAIN r : r[i] = s} \union {Len(r) + 1} = {2, 4}
  BY <1>1
<1>3. ends = << 2, 4 >>
  <2>1. 2 \in Nat /\ 4 \in Nat /\ 2 < 4
    OBVIOUS
  <2>2. Sorted({2, 4}, <) = << 2, 4 >>
    BY <2>1, SortedPair, Zenon
  <2>. HIDE DEF r
  <2>. QED  BY <1>2, <2>2, Zenon
<1>4. Pieces(r, s) = [k \in DOMAIN ends |->
                        Integer(SubSeq(r, IF k = 1 THEN 1 ELSE ends[k - 1] + 1, ends[k] - 1))]
  BY Zenon DEF Pieces
<1>. HIDE DEF ends
<1>5. SubSeq(r, 1, 1) = << a >> /\ SubSeq(r, 3, 3) = << b >>
  <2>. DEFINE S == {a, s, b}
  <2>1. /\ \A i \in 1 .. 1 : r[i] \in S
        /\ \A i \in 3 .. 3 : r[i] \in S
        /\ r[1] = a /\ r[3] = b
    OBVIOUS
  <2>. HIDE DEF r, S
  <2>2. /\ SubSeq(r, 1, 1) \in Seq(S) /\ Len(SubSeq(r, 1, 1)) = 1
        /\ SubSeq(r, 1, 1)[1] = a
    BY <2>1, SubSeqProperties
  <2>3. /\ SubSeq(r, 3, 3) \in Seq(S) /\ Len(SubSeq(r, 3, 3)) = 1
        /\ SubSeq(r, 3, 3)[1] = b
    BY <2>1, SubSeqProperties
  <2>4. \A q \in Seq(S) : Len(q) = 1 => q = << q[1] >>
    OBVIOUS
  <2>. QED  BY <2>2, <2>3, <2>4, Zenon
<1>6. Integer(SubSeq(r, 1, 1)) = a /\ Integer(SubSeq(r, 3, 3)) = b
  BY <1>5, IntegerDigits
<1>. HIDE DEF r
<1>7. Pieces(r, s) = [k \in 1 .. 2 |-> IF k = 1 THEN a ELSE b]
  BY <1>3, <1>4, <1>6
<1>8. Pieces(r, s) = << a, b >>
  BY <1>7
<1>. QED  BY <1>8 DEF r

\* The pieces that the ranges of a list are split into.
LEMMA SplitFacts ==
    ASSUME NEW t \in Seq(Seq(Token)), \A r \in Range(t) : IsRange(r), NEW s \in {Dash, Plus}
    PROVE  \A p : p \in Split(t, s) <=>
              \E a, b \in Number10 : p = << a, b >> /\ << a, s, b >> \in Range(t)
<1>1. \A r \in Range(t) : r \in Seq(Token)
  BY RangeFacts
<1>2. ASSUME NEW p \in Split(t, s)
      PROVE  \E a, b \in Number10 : p = << a, b >> /\ << a, s, b >> \in Range(t)
  <2>1. PICK r \in Range(t) : s \in Range(r) /\ p = Pieces(r, s)
    BY <1>2 DEF Split
  <2>2. CASE \E a \in Number10 : r = << a >>
    <3>1. PICK a \in Number10 : r = << a >>
      BY <2>2
    <3>2. s \in {a}
      BY <2>1, <3>1 DEF Range
    <3>. QED  BY <3>2 DEF Number10, Characters
  <2>3. CASE \E a, b \in Number10, u \in {Dash, Plus} : r = << a, u, b >>
    <3>1. PICK a \in Number10, b \in Number10, u \in {Dash, Plus} : r = << a, u, b >>
      BY <2>3
    <3>2. s \in {a, u, b}
      BY <2>1, <3>1 DEF Range
    <3>3. s = u
      BY <3>2 DEF Number10, Characters
    <3>. QED  BY <2>1, <3>1, <3>3, PiecesOfRange
  <2>. QED  BY <1>1, <2>2, <2>3, RangeForms
<1>3. ASSUME NEW a \in Number10, NEW b \in Number10, << a, s, b >> \in Range(t)
      PROVE  << a, b >> \in Split(t, s)
  <2>1. Pieces(<< a, s, b >>, s) = << a, b >>
    BY PiecesOfRange
  <2>2. s \in Range(<< a, s, b >>)
    BY DEF Range
  <2>3. Range(<< a, b >>) = {a, b}
    BY DEF Range
  <2>4. Undefined \notin {a, b}
    <3>1. a \in Int /\ b \in Int
      BY DEF Number10
    <3>2. Undefined \notin Int
      BY OutcomesAssumption, Zenon
    <3>. QED  BY <3>1, <3>2
  <2>. DEFINE r == << a, s, b >>
  <2>. HIDE DEF r
  <2>5. /\ Pieces(r, s) = << a, b >> /\ r \in Range(t) /\ s \in Range(r)
    BY <1>3, <2>1, <2>2 DEF r
  <2>6. Pieces(r, s) \in {Pieces(x, s) : x \in {x \in Range(t) : s \in Range(x)}}
    BY <2>5
  <2>. QED  BY <2>3, <2>4, <2>5, <2>6, Zenon DEF Split
<1>. QED  BY <1>2, <1>3

\* The first and last ports of all ranges.
Spans(t) == Literals(t) \union Absolutes(t) \union Relatives(t)

\* Every span is what a range names, and the other way round.
LEMMA SpansFacts ==
    ASSUME NEW t \in Seq(Seq(Token)), \A r \in Range(t) : IsRange(r)
    PROVE  /\ \A p \in Spans(t) :
                 /\ p[1] \in Nat /\ p[2] \in Nat
                 /\ \E r \in Range(t) :
                       /\ Named(r) = p[1] .. p[2]
                       /\ p[2] < p[1] => Len(r) = 3
           /\ \A r \in Range(t) : Named(r) = {} \/ \E p \in Spans(t) : Named(r) = p[1] .. p[2]
<1>1. \A r \in Range(t) : r \in Seq(Token)
  BY RangeFacts
<1>2. /\ \A p : p \in Split(t, Dash) <=>
            \E a, b \in Number10 : p = << a, b >> /\ << a, Dash, b >> \in Range(t)
      /\ \A p : p \in Split(t, Plus) <=>
            \E a, b \in Number10 : p = << a, b >> /\ << a, Plus, b >> \in Range(t)
  BY SplitFacts
<1>3. /\ \A a \in Number10 : a \in Nat /\ Named(<< a >>) = {a} \ {0}
      /\ \A a, b \in Number10 : /\ Named(<< a, Dash, b >>) = a .. b
                                /\ Named(<< a, Plus, b >>) = a .. (a + b)
  BY CharactersAssumption DEF Named, Number10
<1>4. ASSUME NEW p \in Literals(t)
      PROVE  \E a \in Number10 : a # 0 /\ << a >> \in Range(t) /\ p = << a, a >>
  <2>1. PICK r \in Range(t) : Len(r) = 1 /\ IsDigits(r[1]) /\ r[1] # 0 /\ p = << r[1], r[1] >>
    BY <1>4 DEF Literals
  <2>2. r \in Seq(Token) /\ Len(r) = 1 /\ 1 \in 1 .. Len(r)
    BY <1>1, <2>1
  <2>3. r[1] \in Number10
    <3>1. r[1] \in Token
      BY <2>2, ElementOfSeq
    <3>. QED  BY <2>1, <3>1 DEF IsDigits, Number10, Token
  <2>4. r = << r[1] >>
    BY <2>2
  <2>. QED  BY <2>1, <2>3, <2>4, Zenon
<1>5. ASSUME NEW p \in Absolutes(t)
      PROVE  \E a, b \in Number10 : << a, Dash, b >> \in Range(t) /\ p = << a, b >>
  <2>1. PICK q \in Split(t, Dash) : p = << q[1], q[2] >>
    BY <1>5 DEF Absolutes
  <2>2. PICK a \in Number10, b \in Number10 : q = << a, b >> /\ << a, Dash, b >> \in Range(t)
    BY <1>2
  <2>. QED  BY <2>1, <2>2
<1>6. ASSUME NEW p \in Relatives(t)
      PROVE  \E a, b \in Number10 : << a, Plus, b >> \in Range(t) /\ p = << a, a + b >>
  <2>1. PICK q \in Split(t, Plus) : p = << q[1], q[1] + q[2] >>
    BY <1>6 DEF Relatives
  <2>2. PICK a \in Number10, b \in Number10 : q = << a, b >> /\ << a, Plus, b >> \in Range(t)
    BY <1>2
  <2>. QED  BY <2>1, <2>2
<1>7. ASSUME NEW p \in Spans(t)
      PROVE  /\ p[1] \in Nat /\ p[2] \in Nat
             /\ \E r \in Range(t) :
                   /\ Named(r) = p[1] .. p[2]
                   /\ p[2] < p[1] => Len(r) = 3
  <2>1. CASE p \in Literals(t)
    <3>1. PICK a \in Number10 : a # 0 /\ << a >> \in Range(t) /\ p = << a, a >>
      BY <1>4, <2>1
    <3>2. a \in Nat /\ a .. a = {a} \ {0}
      BY <1>3, <3>1
    <3>. QED  BY <1>3, <3>1, <3>2
  <2>2. CASE p \in Absolutes(t)
    <3>1. PICK a \in Number10, b \in Number10 : << a, Dash, b >> \in Range(t) /\ p = << a, b >>
      BY <1>5, <2>2
    <3>2. Len(<< a, Dash, b >>) = 3
      OBVIOUS
    <3>. QED  BY <1>3, <3>1, <3>2
  <2>3. CASE p \in Relatives(t)
    <3>1. PICK a \in Number10, b \in Number10 : << a, Plus, b >> \in Range(t) /\ p = << a, a + b >>
      BY <1>6, <2>3
    <3>2. a + b \in Nat /\ Len(<< a, Plus, b >>) = 3
      BY DEF Number10
    <3>. QED  BY <1>3, <3>1, <3>2
  <2>. QED  BY <2>1, <2>2, <2>3 DEF Spans
<1>8. ASSUME NEW r \in Range(t), Named(r) # {}
      PROVE  \E p \in Spans(t) : Named(r) = p[1] .. p[2]
  <2>1. CASE \E a \in Number10 : r = << a >>
    <3>1. PICK a \in Number10 : r = << a >>
      BY <2>1
    <3>2. a # 0
      BY <1>3, <1>8, <3>1
    <3>3. Len(r) = 1 /\ IsDigits(r[1]) /\ r[1] = a
      BY <3>1 DEF IsDigits, Number10
    <3>4. << a, a >> \in Literals(t)
      BY <3>2, <3>3 DEF Literals
    <3>5. Named(r) = a .. a
      BY <1>3, <3>1, <3>2
    <3>6. << a, a >> \in Spans(t) /\ << a, a >>[1] = a /\ << a, a >>[2] = a
      BY <3>4 DEF Spans
    <3>. QED  BY <3>5, <3>6, Zenon
  <2>2. CASE \E a, b \in Number10 : r = << a, Dash, b >>
    <3>1. PICK a \in Number10, b \in Number10 : r = << a, Dash, b >>
      BY <2>2
    <3>2. << a, b >> \in Split(t, Dash)
      BY <1>2, <3>1
    <3>3. << a, b >> \in Absolutes(t)
      BY <3>2 DEF Absolutes
    <3>4. << a, b >> \in Spans(t) /\ << a, b >>[1] = a /\ << a, b >>[2] = b
      BY <3>3 DEF Spans
    <3>5. Named(r) = a .. (b)
      BY <1>3, <3>1
    <3>. QED  BY <3>4, <3>5, Zenon
  <2>3. CASE \E a, b \in Number10 : r = << a, Plus, b >>
    <3>1. PICK a \in Number10, b \in Number10 : r = << a, Plus, b >>
      BY <2>3
    <3>2. << a, b >> \in Split(t, Plus)
      BY <1>2, <3>1
    <3>3. << a, a + b >> \in Relatives(t)
      BY <3>2 DEF Relatives
    <3>4. << a, a + b >> \in Spans(t) /\ << a, a + b >>[1] = a /\ << a, a + b >>[2] = a + b
      BY <3>3 DEF Spans
    <3>5. Named(r) = a .. (a + b)
      BY <1>3, <3>1
    <3>. QED  BY <3>4, <3>5, Zenon
  <2>. QED  BY <1>1, <2>1, <2>2, <2>3, RangeForms
<1>. QED  BY <1>7, <1>8

\* What Ports makes of a list of ranges.
LEMMA PortsOfRanges ==
    ASSUME NEW t \in Seq(Seq(Token)), \A r \in Range(t) : IsRange(r)
    PROVE  LET named == UNION {Named(r) : r \in Range(t)}
               result == Ports(t)
           IN  /\ named \in SUBSET Nat /\ IsFiniteSet(named)
               /\ IF result = Throws
                  THEN \E r \in Range(t) : Named(r) = {} /\ Len(r) = 3
                  ELSE IF named = {} THEN result = Undefined
                  ELSE /\ result \in Seq(Nat)
                       /\ Range(result) = named /\ Len(result) = Cardinality(named)
<1>. DEFINE named == UNION {Named(r) : r \in Range(t)}
            all == UNION {p[1] .. p[2] : p \in Spans(t)}
            Refused == \E p \in Spans(t) : p[2] - p[1] + 1 < 0
<1>1. all = named
  <2>1. ASSUME NEW x \in all PROVE x \in named
    <3>1. PICK p \in Spans(t) : x \in p[1] .. p[2]
      OBVIOUS
    <3>. QED  BY <3>1, SpansFacts
  <2>2. ASSUME NEW x \in named PROVE x \in all
    <3>1. PICK r \in Range(t) : x \in Named(r)
      OBVIOUS
    <3>2. PICK p \in Spans(t) : Named(r) = p[1] .. p[2]
      BY <3>1, SpansFacts
    <3>. QED  BY <3>1, <3>2
  <2>. HIDE DEF all, named
  <2>. QED  BY <2>1, <2>2
<1>2. named \in SUBSET Nat
  <2>1. \A p \in Spans(t) : p[1] .. p[2] \in SUBSET Nat
    BY SpansFacts
  <2>2. all \in SUBSET Nat
    BY <2>1
  <2>. QED  BY <1>1, <2>2
<1>3. IsFiniteSet(named)
  <2>1. IsFiniteSet(Range(t))
    BY RangeFacts
  <2>. DEFINE f == [r \in Range(t) |-> Named(r)]
              Sets == {Named(r) : r \in Range(t)}
  <2>2. f \in Surjection(Range(t), Sets)
    BY DEF Surjection
  <2>3. IsFiniteSet(Sets)
    <3>. HIDE DEF f, Sets
    <3>. QED  BY <2>1, <2>2, FS_Surjection
  <2>4. \A X \in Sets : IsFiniteSet(X)
    <3>1. \A r \in Range(t) : IsFiniteSet(Named(r))
      <4>. TAKE r \in Range(t)
      <4>1. CASE Named(r) = {}
        BY <4>1, FS_EmptySet
      <4>2. CASE Named(r) # {}
        <5>1. PICK p \in Spans(t) : Named(r) = p[1] .. p[2]
          BY <4>2, SpansFacts
        <5>2. p[1] \in Int /\ p[2] \in Int
          BY SpansFacts
        <5>. QED  BY <5>1, <5>2, FS_Interval
      <4>. QED  BY <4>1, <4>2
    <3>. QED  BY <3>1
  <2>5. IsFiniteSet(UNION Sets)
    <3>. HIDE DEF Sets
    <3>. QED  BY <2>3, <2>4, FS_UNION
  <2>. QED  BY <2>5
<1>4. t # Undefined
  BY OutcomesAssumption
<1>5. Ports(t) = IF Refused THEN Throws ELSE IF all = {} THEN Undefined ELSE Sorted(all, TextBefore)
  BY <1>4, Zenon DEF Ports, Spans
<1>6. CASE Refused
  <2>1. PICK p \in Spans(t) : p[2] - p[1] + 1 < 0
    BY <1>6
  <2>2. p[1] \in Nat /\ p[2] \in Nat
    BY SpansFacts
  <2>3. PICK r \in Range(t) : Named(r) = p[1] .. p[2] /\ (p[2] < p[1] => Len(r) = 3)
    BY SpansFacts
  <2>4. Named(r) = {} /\ Len(r) = 3
    BY <2>1, <2>2, <2>3
  <2>5. Ports(t) = Throws
    BY <1>5, <1>6
  <2>. QED  BY <1>2, <1>3, <2>4, <2>5, Zenon
<1>7. CASE ~Refused /\ all = {}
  <2>1. Ports(t) = Undefined /\ Undefined # Throws
    BY <1>5, <1>7, OutcomesAssumption
  <2>. QED  BY <1>1, <1>2, <1>3, <1>7, <2>1, Zenon
<1>8. CASE ~Refused /\ all # {}
  <2>. HIDE DEF all, named, Refused
  <2>1. Ports(t) = Sorted(named, TextBefore)
    BY <1>1, <1>5, <1>8
  <2>2. /\ Ports(t) \in Seq(named) /\ Len(Ports(t)) = Cardinality(named)
        /\ Range(Ports(t)) = named
    BY <1>2, <1>3, <2>1, SortedTexts
  <2>3. Ports(t) \in Seq(Nat)
    BY <1>2, <2>2, SeqMonotonic
  <2>4. Ports(t) \in Seq(Token)
    BY <2>3, SeqMonotonic DEF Token
  <2>5. Ports(t) # Throws
    BY <2>4, OutcomesAssumption
  <2>. QED  BY <1>1, <1>2, <1>3, <1>8, <2>2, <2>3, <2>5, Zenon DEF named
<1>. QED  BY <1>6, <1>7, <1>8

-----------------------------------------------------------------------------
(* Names of relays and buffers                                              *)

\* v is s and t with x between them.
Joined(v, s, x, t) == v = (s \o << x >>) \o t

\* The texts before and after the separator, and where it is.
LEMMA Separated ==
    ASSUME NEW S, NEW x \in S, NEW s \in Seq(S), NEW t \in Seq(S),
           NEW v, Joined(v, s, x, t)
    PROVE  /\ Len(s) \in Nat /\ Len(t) \in Nat /\ Len(v) = Len(s) + 1 + Len(t)
           /\ \A j \in 1 .. Len(s) : v[j] = s[j]
           /\ v[Len(s) + 1] = x
           /\ \A j \in 1 .. Len(t) : v[Len(s) + 1 + j] = t[j]
<1>. DEFINE e == << x >>
            u == s \o e
<1>1. e \in Seq(S) /\ Len(e) = 1 /\ e[1] = x /\ 1 \in 1 .. Len(e)
  OBVIOUS
<1>a. e \in Seq(S)
  BY <1>1
<1>. HIDE DEF e
<1>b. u \in Seq(S) /\ Len(s) \in Nat /\ Len(u) = Len(s) + Len(e)
  BY <1>a, ConcatPlaces
<1>c. \A j \in 1 .. Len(s) : u[j] = s[j]
  BY <1>a, ConcatPlaces
<1>d. \A j \in 1 .. Len(e) : u[Len(s) + j] = e[j]
  BY <1>a, ConcatPlaces
<1>2. /\ u \in Seq(S) /\ Len(s) \in Nat /\ Len(u) = Len(s) + Len(e)
      /\ \A j \in 1 .. Len(s) : u[j] = s[j]
      /\ \A j \in 1 .. Len(e) : u[Len(s) + j] = e[j]
  BY <1>b, <1>c, <1>d, Zenon
<1>. HIDE DEF u
<1>3. Len(u) = Len(s) + 1 /\ u[Len(s) + 1] = x
  BY <1>1, <1>2
<1>4. u \in Seq(S)
  BY <1>2
<1>5. /\ Len(t) \in Nat /\ Len(u \o t) = Len(u) + Len(t)
      /\ \A j \in 1 .. Len(u) : (u \o t)[j] = u[j]
      /\ \A j \in 1 .. Len(t) : (u \o t)[Len(u) + j] = t[j]
  BY <1>4, ConcatPlaces
<1>6. v = u \o t
  BY DEF u, e, Joined
<1>. HIDE DEF e
<1>7. /\ Len(v) = Len(s) + 1 + Len(t)
      /\ \A j \in 1 .. Len(t) : v[Len(s) + 1 + j] = t[j]
  BY <1>2, <1>3, <1>5, <1>6
<1>8. /\ \A j \in 1 .. Len(s) : v[j] = s[j]
      /\ v[Len(s) + 1] = x
  BY <1>2, <1>3, <1>5, <1>6
<1>. QED  BY <1>2, <1>5, <1>7, <1>8

\* A separator that does not occur behind it tells the parts of a text apart.
LEMMA SplitOnce ==
    ASSUME NEW S, NEW D \in SUBSET S, NEW x \in S \ D,
           NEW s1 \in Seq(S), NEW s2 \in Seq(S), NEW t1 \in Seq(D), NEW t2 \in Seq(D),
           NEW w, Joined(w, s1, x, t1), Joined(w, s2, x, t2)
    PROVE  s1 = s2 /\ t1 = t2
<1>1. /\ t1 \in Seq(S) /\ t2 \in Seq(S) /\ << x >> \in Seq(S)
      /\ \A j \in 1 .. Len(t1) : t1[j] \in D
      /\ \A j \in 1 .. Len(t2) : t2[j] \in D
  BY SeqMonotonic, ElementOfSeq
<1>a. x \in S /\ t1 \in Seq(S) /\ t2 \in Seq(S)
  BY <1>1
<1>3. /\ Len(s1) \in Nat /\ Len(t1) \in Nat /\ Len(w) = Len(s1) + 1 + Len(t1)
      /\ \A j \in 1 .. Len(s1) : w[j] = s1[j]
      /\ w[Len(s1) + 1] = x
      /\ \A j \in 1 .. Len(t1) : w[Len(s1) + 1 + j] = t1[j]
  BY <1>a, Separated
<1>4. /\ Len(s2) \in Nat /\ Len(t2) \in Nat /\ Len(w) = Len(s2) + 1 + Len(t2)
      /\ \A j \in 1 .. Len(s2) : w[j] = s2[j]
      /\ w[Len(s2) + 1] = x
      /\ \A j \in 1 .. Len(t2) : w[Len(s2) + 1 + j] = t2[j]
  BY <1>a, Separated
<1>5. ~(Len(s1) < Len(s2))
  <2>. SUFFICES ASSUME Len(s1) < Len(s2) PROVE FALSE
    OBVIOUS
  <2>. DEFINE j == Len(s2) - Len(s1)
  <2>1. j \in 1 .. Len(t1) /\ Len(s1) + 1 + j = Len(s2) + 1
    BY <1>3, <1>4
  <2>. HIDE DEF j
  <2>2. t1[j] = x
    BY <1>3, <1>4, <2>1
  <2>. QED  BY <1>1, <2>1, <2>2
<1>6. ~(Len(s2) < Len(s1))
  <2>. SUFFICES ASSUME Len(s2) < Len(s1) PROVE FALSE
    OBVIOUS
  <2>. DEFINE j == Len(s1) - Len(s2)
  <2>1. j \in 1 .. Len(t2) /\ Len(s2) + 1 + j = Len(s1) + 1
    BY <1>3, <1>4
  <2>. HIDE DEF j
  <2>2. t2[j] = x
    BY <1>3, <1>4, <2>1
  <2>. QED  BY <1>1, <2>1, <2>2
<1>7. Len(s1) = Len(s2) /\ Len(t1) = Len(t2)
  BY <1>3, <1>4, <1>5, <1>6
<1>8. s1 = s2
  <2>1. \A j \in 1 .. Len(s1) : s1[j] = s2[j]
    BY <1>3, <1>4, <1>7
  <2>. QED  BY <1>7, <2>1, SeqEqual
<1>9. t1 = t2
  <2>1. \A j \in 1 .. Len(t1) : t1[j] = t2[j]
    BY <1>3, <1>4, <1>7
  <2>. QED  BY <1>7, <2>1, SeqEqual
<1>. QED  BY <1>8, <1>9

\* No separator is a digit.
LEMMA SeparatorsNoDigits == {Colon, At, Arrow} \intersect Digits = {}
<1>. DEFINE S == {Colon, At, Arrow} \ (0 .. 9)
<1>1. ASSUME NEW a, NEW b, S \subseteq {a, b} PROVE FALSE
  <2>1. IsFiniteSet({a}) /\ Cardinality({a}) = 1
    BY FS_Singleton
  <2>2. /\ IsFiniteSet({a} \union {b})
        /\ Cardinality({a} \union {b}) = IF b \in {a} THEN 1 ELSE 2
    BY <2>1, FS_AddElement
  <2>3. IsFiniteSet({a, b}) /\ Cardinality({a, b}) <= 2
    <3>1. {a, b} = {a} \union {b}
      OBVIOUS
    <3>. QED  BY <2>2, <3>1
  <2>4. Cardinality(S) <= Cardinality({a, b})
    <3>. HIDE DEF S
    <3>. QED  BY <1>1, <2>3, FS_Subset
  <2>5. Cardinality(S) = 3 /\ Cardinality({a, b}) \in Nat
    BY <2>3, SeparatorsAssumption, FS_CardinalityType
  <2>. HIDE DEF S
  <2>. QED  BY <2>3, <2>4, <2>5
<1>2. Colon \notin 0 .. 9
  <2>. SUFFICES ASSUME Colon \in 0 .. 9 PROVE FALSE
    OBVIOUS
  <2>1. S \subseteq {At, Arrow}
    OBVIOUS
  <2>. QED  BY <1>1, <2>1
<1>3. At \notin 0 .. 9
  <2>. SUFFICES ASSUME At \in 0 .. 9 PROVE FALSE
    OBVIOUS
  <2>1. S \subseteq {Colon, Arrow}
    OBVIOUS
  <2>. QED  BY <1>1, <2>1
<1>4. Arrow \notin 0 .. 9
  <2>. SUFFICES ASSUME Arrow \in 0 .. 9 PROVE FALSE
    OBVIOUS
  <2>1. S \subseteq {Colon, At}
    OBVIOUS
  <2>. QED  BY <1>1, <2>1
<1>. QED  BY <1>2, <1>3, <1>4 DEF Digits

\* An address and a port, written with a separator between them.
AddressesOf(T) == [address : Seq(T), port : Nat]

\* The texts are the same only for the same address and port.
ToldApart(a, p, b, q, x) ==
    AddressText(a) \o << x >> \o Decimal[p] = AddressText(b) \o << x >> \o Decimal[q]
    <=> Equals(a, b) /\ p = q

\* Such texts tell addresses and ports apart: behind the separator there are only digits.
LEMMA NamesOfAddresses ==
    ASSUME NEW T, NEW a \in AddressesOf(T), NEW b \in AddressesOf(T),
           NEW p \in Nat, NEW q \in Nat, NEW x \in {At, Arrow}
    PROVE  ToldApart(a, p, b, q, x)
<1>. USE DEF AddressesOf
<1>. DEFINE S == T \union {Colon, At, Arrow} \union Digits
<1>1. /\ Digits \in SUBSET S /\ Colon \in S \ Digits /\ x \in S \ Digits
      /\ << Colon >> \in Seq(S)
  BY SeparatorsNoDigits
<1>2. /\ a.address \in Seq(S) /\ b.address \in Seq(S) /\ a.port \in Nat /\ b.port \in Nat
  <2>1. T \subseteq S /\ a.address \in Seq(T) /\ b.address \in Seq(T)
    OBVIOUS
  <2>. HIDE DEF S
  <2>. QED  BY <2>1, SeqMonotonic
<1>3. \A n \in Nat : Decimal[n] \in Seq(Digits) /\ Decimal[n] \in Seq(S)
  <2>. HIDE DEF S
  <2>. QED  BY <1>1, DecimalType, SeqMonotonic
<1>4. /\ AddressText(a) = (a.address \o << Colon >>) \o Decimal[a.port]
      /\ AddressText(b) = (b.address \o << Colon >>) \o Decimal[b.port]
  BY DEF AddressText
<1>. HIDE DEF S
<1>5. AddressText(a) \in Seq(S) /\ AddressText(b) \in Seq(S)
  BY <1>1, <1>2, <1>3, <1>4, ConcatProperties
<1>6. ASSUME AddressText(a) \o << x >> \o Decimal[p] = AddressText(b) \o << x >> \o Decimal[q]
      PROVE  Equals(a, b) /\ p = q
  <2>1. AddressText(a) = AddressText(b) /\ Decimal[p] = Decimal[q]
    <3>1. Decimal[p] \in Seq(Digits) /\ Decimal[q] \in Seq(Digits)
      BY <1>3
    <3>2. PICK w : /\ Joined(w, AddressText(a), x, Decimal[p])
                   /\ Joined(w, AddressText(b), x, Decimal[q])
      BY <1>6, Zenon DEF Joined
    <3>3. x \in S \ Digits /\ Digits \in SUBSET S
      BY <1>1
    <3>4. ASSUME NEW A \in Seq(S), NEW B \in Seq(S), NEW P \in Seq(Digits), NEW Q \in Seq(Digits),
                 Joined(w, A, x, P), Joined(w, B, x, Q)
          PROVE  A = B /\ P = Q
      BY <3>3, <3>4, SplitOnce
    <3>. QED  BY <1>5, <3>1, <3>2, <3>4, Zenon
  <2>2. p = q
    BY <2>1, DecimalInjective
  <2>3. a.address = b.address /\ Decimal[a.port] = Decimal[b.port]
    <3>1. Decimal[a.port] \in Seq(Digits) /\ Decimal[b.port] \in Seq(Digits)
      BY <1>2, <1>3
    <3>2. PICK w : /\ Joined(w, a.address, Colon, Decimal[a.port])
                   /\ Joined(w, b.address, Colon, Decimal[b.port])
      BY <1>4, <2>1, Zenon DEF Joined
    <3>. QED  BY <1>1, <1>2, <3>1, <3>2, SplitOnce
  <2>4. a.port = b.port
    BY <1>2, <2>3, DecimalInjective
  <2>. QED  BY <2>2, <2>3, <2>4 DEF Equals
<1>7. ASSUME Equals(a, b), p = q
      PROVE  AddressText(a) \o << x >> \o Decimal[p] = AddressText(b) \o << x >> \o Decimal[q]
  BY <1>4, <1>7, Zenon DEF Equals
<1>. QED  BY <1>6, <1>7, Zenon DEF ToldApart

-----------------------------------------------------------------------------
(* Word ids                                                                 *)

\* What words are made of.
Syllable == STRING

\* Words are sequences of syllables that are not empty.
LEMMA WordsFacts ==
    /\ Words \in SUBSET Seq(Syllable)
    /\ \A w \in Words :
          /\ Len(w) \in Nat \ {0} /\ w[1] \in Capital
          /\ \A i \in 2 .. Len(w) : w[i] \in Capital => SubSeq(w, 1, i - 1) \notin Words
<1>1. \A w \in Words :
         /\ w \in Seq(Syllable) \ {<< >>}
         /\ Head(w) \in Capital
         /\ \A i \in 2 .. Len(w) : w[i] \in Capital => SubSeq(w, 1, i - 1) \notin Words
  BY WordsAssumption DEF Syllable
<1>2. ASSUME NEW w \in Words PROVE Len(w) \in Nat \ {0} /\ w[1] \in Capital
  <2>1. w \in Seq(Syllable) /\ w # << >> /\ Head(w) \in Capital
    BY <1>1
  <2>2. Len(w) \in Nat \ {0}
    BY <2>1, EmptySeq
  <2>3. Head(w) = w[1]
    BY <2>1, <2>2
  <2>. QED  BY <2>1, <2>2, <2>3
<1>. QED  BY <1>1, <1>2

\* A word that goes on where one ends, and is one of the list, would have a capital
\* behind a word.
LEMMA NoLonger ==
    ASSUME NEW d \in Seq(Words), NEW P, Builds(P, d, Syllable), NEW k \in 0 .. Len(d) - 1,
           NEW v \in Words, Len(P[k]) + Len(v) <= Len(P[Len(d)]),
           \A j \in 1 .. Len(v) : P[Len(d)][Len(P[k]) + j] = v[j]
    PROVE  Len(v) <= Len(d[k + 1])
<1>. DEFINE n == Len(d)
            o == Len(P[k])
            w == d[k + 1]
            whole == P[n]
<1>1. n \in Nat /\ d \in [1 .. n -> Words] /\ k \in Nat /\ k + 1 \in 1 .. n /\ d \in Seq(Seq(Syllable))
  BY LenProperties, WordsFacts, SeqMonotonic
<1>a. Placed(P, d, k)
  BY <1>1, BuiltPlaces
<1>2. /\ o \in Nat /\ Len(whole) \in Nat /\ Len(w) \in Nat
      /\ Len(P[k + 1]) = o + Len(w)
      /\ \A j \in 1 .. Len(w) : whole[o + j] = w[j]
  BY <1>a, Zenon DEF Placed
<1>3. w \in Words /\ w \in Seq(Syllable) /\ v \in Seq(Syllable) /\ Len(v) \in Nat
  BY <1>1, WordsFacts
<1>4. /\ o + Len(v) <= Len(whole)
      /\ \A j \in 1 .. Len(v) : whole[o + j] = v[j]
  OBVIOUS
<1>. SUFFICES ASSUME Len(w) < Len(v) PROVE FALSE
  BY <1>2, <1>3
<1>5. k + 1 \in 0 .. n - 1
  <2>. SUFFICES ASSUME k + 1 = n PROVE FALSE
    <3>. HIDE DEF n
    <3>. QED  BY <1>1
  <2>1. P[k + 1] = whole
    OBVIOUS
  <2>2. Len(whole) = o + Len(w)
    BY <1>2, <2>1
  <2>. HIDE DEF o, w, whole, n
  <2>. QED  BY <1>2, <1>3, <1>4, <2>2
<1>. DEFINE u == d[k + 1 + 1]
<1>6. u \in Words
  BY <1>1, <1>5
<1>7. whole[o + Len(w) + 1] = u[1]
  <2>1. 1 \in 1 .. Len(u)
    BY <1>6, WordsFacts
  <2>2. \A j \in 1 .. Len(u) : whole[Len(P[k + 1]) + j] = u[j]
    <3>1. Placed(P, d, k + 1)
      BY <1>1, <1>5, BuiltPlaces
    <3>. QED  BY <3>1, Zenon DEF Placed
  <2>. HIDE DEF u, whole, o, w
  <2>. QED  BY <1>2, <2>1, <2>2
<1>8. SubSeq(v, 1, Len(w)) = w
  <2>. HIDE DEF o, w, whole, n, u
  <2>1. \A j \in 1 .. Len(w) : v[j] = w[j]
    BY <1>2, <1>3, <1>4
  <2>2. \A j \in 1 .. Len(w) : v[j] \in Syllable
    BY <1>2, <1>3, ElementOfSeq
  <2>3. /\ SubSeq(v, 1, Len(w)) \in Seq(Syllable) /\ Len(SubSeq(v, 1, Len(w))) = Len(w)
        /\ \A j \in 1 .. Len(w) : SubSeq(v, 1, Len(w))[j] = v[j]
    BY <1>2, <2>2, SubSeqProperties
  <2>. QED  BY <1>3, <2>1, <2>3, SeqEqual
<1>. HIDE DEF o, w, whole, n, u
<1>9. v[Len(w) + 1] \in Capital
  <2>1. Len(w) + 1 \in 1 .. Len(v) /\ o + Len(w) + 1 = o + (Len(w) + 1)
    BY <1>2, <1>3
  <2>2. v[Len(w) + 1] = u[1]
    BY <1>4, <1>7, <2>1
  <2>. QED  BY <1>6, <2>2, WordsFacts
<1>10. Len(w) # 0
  BY <1>3, WordsFacts
<1>11. Len(w) + 1 \in 2 .. Len(v) /\ Len(w) + 1 - 1 = Len(w)
  BY <1>2, <1>3, <1>10
<1>12. SubSeq(v, 1, Len(w)) \notin Words
  BY <1>9, <1>11, WordsFacts
<1>. QED  BY <1>3, <1>8, <1>12

\* The first words of two texts of which one begins with the other, or is it.
LEMMA SameWords ==
    ASSUME NEW d \in Seq(Words), NEW e \in Seq(Words),
           NEW P, Builds(P, d, Syllable), NEW R, Builds(R, e, Syllable),
           P[Len(d)] = R[Len(e)]
    PROVE  /\ Len(d) <= Len(e)
           /\ \A j \in 1 .. Len(d) : d[j] = e[j]
<1>. DEFINE m == Len(d)
            n == Len(e)
            whole == P[m]
<1>1. /\ m \in Nat /\ d \in [1 .. m -> Words] /\ d \in Seq(Seq(Syllable))
      /\ n \in Nat /\ e \in [1 .. n -> Words] /\ e \in Seq(Seq(Syllable))
  BY LenProperties, WordsFacts, SeqMonotonic
<1>2. whole = R[n]
  OBVIOUS
<1>. DEFINE A(k) == /\ k <= n
                    /\ \A j \in 1 .. k : d[j] = e[j]
                    /\ P[k] = R[k]
            Q == {k \in Nat : k <= m => A(k)}
<1>3. 0 \in Q
  <2>1. P[0] = R[0]
    BY DEF Builds
  <2>. QED  BY <1>1, <2>1
<1>4. ASSUME NEW k \in Q PROVE k + 1 \in Q
  <2>. SUFFICES ASSUME k + 1 <= m PROVE A(k + 1)
    OBVIOUS
  <2>1. k \in Nat /\ k <= m /\ A(k)
    BY <1>1
  <2>. DEFINE o == Len(P[k])
              w == d[k + 1]
              v == e[k + 1]
  <2>2. k \in 0 .. m - 1 /\ k + 1 \in 1 .. m /\ w \in Words
    BY <1>1, <2>1
  <2>a. Placed(P, d, k)
    BY <1>1, <2>2, BuiltPlaces
  <2>3. /\ o \in Nat /\ Len(whole) \in Nat /\ Len(w) \in Nat
        /\ o + Len(w) <= Len(whole)
        /\ \A j \in 1 .. Len(w) : whole[o + j] = w[j]
    BY <2>a, Zenon DEF Placed
  <2>4. Len(w) # 0
    BY <2>2, WordsFacts
  <2>5. o = Len(R[k])
    BY <2>1
  <2>6. k # n
    <3>. SUFFICES ASSUME k = n PROVE FALSE
      OBVIOUS
    <3>1. o = Len(whole)
      BY <1>2, <2>1, <2>5
    <3>. HIDE DEF o, w, whole, m
    <3>. QED  BY <2>3, <2>4, <3>1
  <2>7. k \in 0 .. n - 1 /\ k + 1 \in 1 .. n /\ v \in Words
    BY <1>1, <2>1, <2>6
  <2>8. /\ Len(v) \in Nat /\ o + Len(v) <= Len(whole)
        /\ \A j \in 1 .. Len(v) : whole[o + j] = v[j]
    <3>1. Placed(R, e, k)
      BY <1>1, <2>7, BuiltPlaces
    <3>. QED  BY <1>2, <2>5, <3>1, Zenon DEF Placed
  <2>9. Len(v) <= Len(w)
    BY <2>2, <2>7, <2>8, NoLonger
  <2>10. Len(w) <= Len(v)
    <3>1. /\ Len(R[k]) + Len(w) <= Len(R[n])
          /\ \A j \in 1 .. Len(w) : R[n][Len(R[k]) + j] = w[j]
      BY <1>2, <2>3, <2>5
    <3>. QED  BY <2>2, <2>7, <3>1, NoLonger
  <2>11. Len(w) = Len(v)
    BY <2>3, <2>8, <2>9, <2>10
  <2>12. w = v
    <3>1. w \in Seq(Syllable) /\ v \in Seq(Syllable)
      BY <2>2, <2>7, WordsFacts
    <3>2. \A j \in 1 .. Len(w) : w[j] = v[j]
      BY <2>3, <2>8, <2>11
    <3>. HIDE DEF w, v
    <3>. QED  BY <2>11, <3>1, <3>2, SeqEqual
  <2>13. P[k + 1] = R[k + 1]
    <3>1. P[k + 1] = P[k] \o w
      BY <1>1, <2>2, BuiltStep
    <3>2. R[k + 1] = R[k] \o v
      BY <1>1, <2>7, BuiltStep
    <3>. QED  BY <2>1, <2>12, <3>1, <3>2, Zenon
  <2>14. \A j \in 1 .. k + 1 : d[j] = e[j]
    <3>1. \A j \in 1 .. k + 1 : j \in 1 .. k \/ j = k + 1
      BY <2>1
    <3>. QED  BY <2>1, <2>12, <3>1
  <2>. QED  BY <1>1, <2>7, <2>13, <2>14
<1>. HIDE DEF Q
<1>5. Q \in SUBSET Nat
  BY DEF Q
<1>6. m \in Q
  BY <1>1, <1>3, <1>4, <1>5, Induction
<1>7. A(m)
  BY <1>1, <1>6 DEF Q
<1>. QED  BY <1>7

\* The words of an id can be told from the id.
LEMMA WordIdInjective ==
    ASSUME NEW m \in Nat, NEW n \in Nat, NEW d \in Draws(m), NEW e \in Draws(n),
           WordId(d) = WordId(e)
    PROVE  d = e
<1>1. /\ d \in Seq(Words) /\ Len(d) = m /\ d \in Seq(Seq(Syllable))
      /\ e \in Seq(Words) /\ Len(e) = n /\ e \in Seq(Seq(Syllable))
  <2>1. d \in [1 .. m -> Words] /\ e \in [1 .. n -> Words]
    BY DEF Draws, NumberRange
  <2>2. /\ d \in Seq(Words) /\ Len(d) = m
        /\ e \in Seq(Words) /\ Len(e) = n
    BY <2>1
  <2>. QED  BY <2>2, WordsFacts, SeqMonotonic
<1>2. PICK P : Builds(P, d, Syllable) /\ FlattenSeq(d) = P[Len(d)]
  BY <1>1, FlattenBuilt
<1>3. PICK R : Builds(R, e, Syllable) /\ FlattenSeq(e) = R[Len(e)]
  BY <1>1, FlattenBuilt
<1>4. P[Len(d)] = R[Len(e)]
  BY <1>2, <1>3, Zenon DEF WordId
<1>5. /\ Len(d) <= Len(e)
      /\ \A j \in 1 .. Len(d) : d[j] = e[j]
  BY <1>1, <1>2, <1>3, <1>4, SameWords
<1>6. Len(e) <= Len(d)
  BY <1>1, <1>2, <1>3, <1>4, SameWords
<1>7. Len(d) = Len(e)
  BY <1>1, <1>5, <1>6
<1>. QED  BY <1>1, <1>5, <1>7, SeqEqual

-----------------------------------------------------------------------------
(* Ratios                                                                   *)

\* Gcd is the function that its equation describes.
LEMMA GcdDef ==
    /\ Gcd \in [Nat \X Nat -> Nat]
    /\ \A a, b \in Nat : Gcd[<< a, b >>] = IF b = 0 THEN a ELSE Gcd[<< b, a % b >>]
<1>. DEFINE S == Nat \X Nat
            Base == {x \in S : x[2] = 0}
            mu == [x \in S |-> x[2]]
            p == [x \in S \ Base |-> << x[2], x[1] % x[2] >>]
            b == [x \in Base |-> x[1]]
            g == [y \in (S \ Base) \X Nat |-> y[2]]
<1>1. \A x \in S \ Base : /\ x[1] \in Nat /\ x[2] \in Nat \ {0}
                          /\ x[1] % x[2] \in Nat /\ x[1] % x[2] < x[2]
  OBVIOUS
<1>2. /\ Base \in SUBSET S /\ mu \in [S -> Nat] /\ p \in [S \ Base -> S]
      /\ \A x \in S \ Base : mu[p[x]] < mu[x]
  <2>1. \A x \in S \ Base : << x[2], x[1] % x[2] >> \in S
    BY <1>1
  <2>2. \A x \in S \ Base : mu[p[x]] = x[1] % x[2] /\ mu[x] = x[2]
    BY <2>1
  <2>3. mu \in [S -> Nat]
    OBVIOUS
  <2>4. p \in [S \ Base -> S]
    BY <2>1
  <2>5. \A x \in S \ Base : mu[p[x]] < mu[x]
    <3>. HIDE DEF S, Base, mu, p
    <3>. QED  BY <1>1, <2>2
  <2>. QED  BY <2>3, <2>4, <2>5
<1>3. b \in [Base -> Nat] /\ g \in [(S \ Base) \X Nat -> Nat]
  OBVIOUS
<1>4. IsRecursion(S, Nat, Base, mu, p, b, g)
  <2>. HIDE DEF S, Base, mu, p, b, g
  <2>. QED  BY <1>2, <1>3 DEF IsRecursion
<1>. PICK f : Solves(f, S, Nat, Base, p, b, g)
  BY <1>4, Recursion, Zenon
<1>5. f \in [S -> Nat] /\ \A x \in S : f[x] = IF x \in Base THEN b[x] ELSE g[<<x, f[p[x]]>>]
  BY DEF Solves
<1>6. \A x \in S : f[x] = IF x[2] = 0 THEN x[1] ELSE f[<< x[2], x[1] % x[2] >>]
  <2>. TAKE x \in S
  <2>1. CASE x[2] = 0
    <3>1. x \in Base /\ b[x] = x[1]
      BY <2>1
    <3>. HIDE DEF Base, b, S
    <3>. QED  BY <1>5, <2>1, <3>1
  <2>2. CASE x[2] # 0
    <3>1. x \in S \ Base /\ p[x] = << x[2], x[1] % x[2] >>
      BY <2>2
    <3>2. p[x] \in S
      <4>. HIDE DEF S, Base, p
      <4>. QED  BY <1>2, <3>1
    <3>3. <<x, f[p[x]]>> \in (S \ Base) \X Nat
      <4>. HIDE DEF S, Base, p
      <4>. QED  BY <1>5, <3>1, <3>2
    <3>4. g[<<x, f[p[x]]>>] = f[p[x]]
      <4>. HIDE DEF S, Base, p
      <4>. QED  BY <3>3
    <3>. HIDE DEF S, Base, p, g
    <3>. QED  BY <1>5, <2>2, <3>1, <3>4
  <2>. QED  BY <2>1, <2>2
<1>7. f = [x \in S |-> IF x[2] = 0 THEN x[1] ELSE f[<< x[2], x[1] % x[2] >>]]
  BY <1>5, <1>6, Zenon
<1>8. Gcd = [x \in Nat \X Nat |-> IF x[2] = 0 THEN x[1] ELSE Gcd[<< x[2], x[1] % x[2] >>]]
  BY <1>7, Zenon DEF Gcd
<1>9. \A a, c \in Nat : Gcd[<< a, c >>] = IF c = 0 THEN a ELSE Gcd[<< c, a % c >>]
  <2>. TAKE a \in Nat, c \in Nat
  <2>. DEFINE x == << a, c >>
  <2>1. x \in Nat \X Nat /\ x[1] = a /\ x[2] = c
    OBVIOUS
  <2>. HIDE DEF x
  <2>2. Gcd[x] = IF x[2] = 0 THEN x[1] ELSE Gcd[<< x[2], x[1] % x[2] >>]
    BY <1>8, <2>1, Zenon
  <2>3. Gcd[x] = IF c = 0 THEN a ELSE Gcd[<< c, a % c >>]
    BY <2>1, <2>2, Zenon
  <2>. QED  BY <2>3, Zenon DEF x
<1>10. \A c \in Nat : \A a \in Nat : Gcd[<< a, c >>] \in Nat
  <2>. DEFINE Q == {c \in Nat : \E a \in Nat : Gcd[<< a, c >>] \notin Nat}
  <2>. SUFFICES ASSUME Q # {} PROVE FALSE
    OBVIOUS
  <2>1. PICK c \in Q : \A e \in Q : c <= e
    <3>1. Q \in SUBSET Nat
      OBVIOUS
    <3>. QED  BY <3>1, LeastNat
  <2>2. PICK a \in Nat : Gcd[<< a, c >>] \notin Nat
    OBVIOUS
  <2>3. c \in Nat /\ c # 0
    BY <1>9, <2>2
  <2>4. a % c \in Nat /\ a % c < c
    BY <2>3
  <2>5. a % c \notin Q
    <3>. HIDE DEF Q
    <3>. QED  BY <2>1, <2>3, <2>4
  <2>6. Gcd[<< c, a % c >>] \in Nat
    BY <2>3, <2>4, <2>5
  <2>. QED  BY <1>9, <2>2, <2>3, <2>6
<1>11. Gcd \in [Nat \X Nat -> Nat]
  <2>1. \A x \in Nat \X Nat : Gcd[x] \in Nat
    <3>. TAKE x \in Nat \X Nat
    <3>1. x = << x[1], x[2] >> /\ x[1] \in Nat /\ x[2] \in Nat
      OBVIOUS
    <3>2. Gcd[<< x[1], x[2] >>] \in Nat
      BY <1>10, <3>1
    <3>. QED  BY <3>1, <3>2, Zenon
  <2>. QED  BY <1>8, <2>1, Zenon
<1>. QED  BY <1>9, <1>11

\* A step of the algorithm of Euclid.
LEMMA GcdStep ==
    ASSUME NEW a \in Nat, NEW b \in Nat
    PROVE  /\ Gcd[<< a, b >>] \in Nat
           /\ b = 0 => Gcd[<< a, b >>] = a
           /\ b # 0 => /\ a % b \in Nat /\ a % b < b /\ a \div b \in Nat
                       /\ a = b * (a \div b) + (a % b)
                       /\ Gcd[<< a, b >>] = Gcd[<< b, a % b >>]
<1>1. << a, b >> \in Nat \X Nat
  OBVIOUS
<1>2. Gcd[<< a, b >>] \in Nat
  BY <1>1, GcdDef
<1>3. Gcd[<< a, b >>] = IF b = 0 THEN a ELSE Gcd[<< b, a % b >>]
  BY GcdDef, Zenon
<1>4. b # 0 => /\ a % b \in Nat /\ a % b < b /\ a \div b \in Nat
               /\ a = b * (a \div b) + (a % b)
  OBVIOUS
<1>. QED  BY <1>2, <1>3, <1>4

\* Gcd yields a common divisor that every other one divides.
LEMMA GcdFacts ==
    ASSUME NEW a \in Nat, NEW b \in Nat
    PROVE  /\ Divides(Gcd[<< a, b >>], a) /\ Divides(Gcd[<< a, b >>], b)
           /\ \A c \in Nat : Divides(c, a) /\ Divides(c, b) => Divides(c, Gcd[<< a, b >>])
<1>. DEFINE Facts(x, y) ==
              /\ Divides(Gcd[<< x, y >>], x) /\ Divides(Gcd[<< x, y >>], y)
              /\ \A c \in Nat : Divides(c, x) /\ Divides(c, y) => Divides(c, Gcd[<< x, y >>])
            Q == {y \in Nat : \A x \in Nat : Facts(x, y)}
<1>1. ASSUME NEW y \in Nat, \A m \in Nat : m < y => m \in Q, NEW x \in Nat
      PROVE  Facts(x, y)
  <2>1. CASE y = 0
    <3>1. Gcd[<< x, y >>] = x
      BY <2>1, GcdStep
    <3>2. Divides(x, x) /\ Divides(x, 0)
      <4>1. x = x * 1 /\ 0 = x * 0
        OBVIOUS
      <4>. QED  BY <4>1 DEF Divides
    <3>. QED  BY <2>1, <3>1, <3>2, Zenon
  <2>2. CASE y # 0
    <3>. DEFINE r == x % y
                q == x \div y
                G == Gcd[<< y, r >>]
    <3>1. r \in Nat /\ r < y /\ q \in Nat /\ x = y * q + r /\ Gcd[<< x, y >>] = G /\ G \in Nat
      BY <2>2, GcdStep
    <3>2. Facts(y, r)
      BY <1>1, <3>1
    <3>3. /\ Divides(G, y) /\ Divides(G, r)
          /\ \A c \in Nat : Divides(c, y) /\ Divides(c, r) => Divides(c, G)
      BY <3>2
    <3>. HIDE DEF r, q, G
    <3>4. Divides(G, x)
      BY <3>1, <3>3, DividesSum
    <3>5. \A c \in Nat : Divides(c, x) /\ Divides(c, y) => Divides(c, r)
      BY <3>1, DividesSum
    <3>. QED  BY <3>1, <3>3, <3>4, <3>5, Zenon
  <2>. QED  BY <2>1, <2>2
<1>. HIDE DEF Facts
<1>2. Q \in SUBSET Nat
  OBVIOUS
<1>3. \A y \in Nat : (\A m \in Nat : m < y => m \in Q) => y \in Q
  BY <1>1
<1>. HIDE DEF Q
<1>4. b \in Q
  BY <1>2, <1>3, StrongInduction
<1>5. Facts(a, b)
  BY <1>4 DEF Q
<1>. QED  BY <1>5 DEF Facts

\* A common factor can be taken out.
LEMMA GcdScaled ==
    ASSUME NEW k \in Nat \ {0}, NEW a \in Nat, NEW b \in Nat
    PROVE  Gcd[<< k * a, k * b >>] = k * Gcd[<< a, b >>]
<1>. DEFINE Scaled(x, y) == Gcd[<< k * x, k * y >>] = k * Gcd[<< x, y >>]
            Q == {y \in Nat : \A x \in Nat : Scaled(x, y)}
<1>1. ASSUME NEW y \in Nat, \A m \in Nat : m < y => m \in Q, NEW x \in Nat
      PROVE  Scaled(x, y)
  <2>0. k * x \in Nat /\ k * y \in Nat
    OBVIOUS
  <2>1. CASE y = 0
    <3>1. k * y = 0
      BY <2>1
    <3>2. Gcd[<< x, y >>] = x
      BY <2>1, GcdStep
    <3>3. Gcd[<< k * x, k * y >>] = k * x
      BY <2>0, <3>1, GcdStep
    <3>. QED  BY <3>2, <3>3
  <2>2. CASE y # 0
    <3>. DEFINE r == x % y
                q == x \div y
    <3>1. r \in Nat /\ r < y /\ q \in Nat /\ x = y * q + r
      BY <2>2, GcdStep
    <3>2. Gcd[<< x, y >>] = Gcd[<< y, r >>]
      BY <2>2, GcdStep
    <3>3. Scaled(y, r)
      BY <1>1, <3>1
    <3>4. Gcd[<< k * y, k * r >>] = k * Gcd[<< y, r >>]
      BY <3>3
    <3>. HIDE DEF r, q
    <3>5. k * y # 0 /\ k * r \in Nat /\ k * r < k * y /\ k * x = (k * y) * q + k * r
      BY <2>2, <3>1
    <3>6. (k * x) % (k * y) = k * r
      <4>. DEFINE A == k * x
                  B == k * y
                  R == k * r
      <4>1. A \in Nat /\ B \in Nat \ {0} /\ R \in Nat /\ R < B /\ A = B * q + R
        BY <2>0, <3>5
      <4>. HIDE DEF A, B, R
      <4>2. A % B = R
        BY <3>1, <4>1, Remainder
      <4>. QED  BY <4>2 DEF A, B, R
    <3>7. Gcd[<< k * x, k * y >>] = Gcd[<< k * y, (k * x) % (k * y) >>]
      BY <2>0, <3>5, GcdStep
    <3>. QED  BY <3>2, <3>4, <3>6, <3>7, Zenon
  <2>. QED  BY <2>1, <2>2
<1>. HIDE DEF Scaled
<1>2. Q \in SUBSET Nat
  OBVIOUS
<1>3. \A y \in Nat : (\A m \in Nat : m < y => m \in Q) => y \in Q
  BY <1>1
<1>. HIDE DEF Q
<1>4. b \in Q
  BY <1>2, <1>3, StrongInduction
<1>5. Scaled(a, b)
  BY <1>4 DEF Q
<1>. QED  BY <1>5 DEF Scaled

\* No number but 1 divides both.
Coprime(a, b) == Gcd[<< a, b >>] = 1

\* Divisors of coprime numbers are coprime.
LEMMA CoprimeDivisors ==
    ASSUME NEW a \in Nat, NEW b \in Nat, Coprime(a, b),
           NEW g \in Nat, NEW h \in Nat, Divides(g, a), Divides(h, b)
    PROVE  Coprime(g, h)
<1>. DEFINE c == Gcd[<< g, h >>]
<1>1. c \in Nat /\ Divides(c, g) /\ Divides(c, h)
  BY GcdStep, GcdFacts
<1>. HIDE DEF c
<1>2. \A n, k \in Nat : Divides(c, n) /\ Divides(n, k) => Divides(c, k)
  <2>. SUFFICES ASSUME NEW n \in Nat, NEW k \in Nat, Divides(c, n), Divides(n, k)
                PROVE  Divides(c, k)
    OBVIOUS
  <2>1. PICK q \in Nat : k = n * q
    BY DEF Divides
  <2>. QED  BY <1>1, <2>1, DividesSum
<1>3. Divides(c, a) /\ Divides(c, b)
  BY <1>1, <1>2
<1>4. Divides(c, Gcd[<< a, b >>])
  BY <1>1, <1>3, GcdFacts
<1>5. c = 1
  BY <1>1, <1>4, DividesOne DEF Coprime
<1>. QED  BY <1>5 DEF c, Coprime

\* Every number is coprime to 1.
LEMMA CoprimeOne ==
    ASSUME NEW k \in Nat
    PROVE  Coprime(1, k) /\ Coprime(k, 1)
<1>1. Divides(Gcd[<< 1, k >>], 1) /\ Gcd[<< 1, k >>] \in Nat
  BY GcdStep, GcdFacts
<1>2. Divides(Gcd[<< k, 1 >>], 1) /\ Gcd[<< k, 1 >>] \in Nat
  BY GcdStep, GcdFacts
<1>. QED  BY <1>1, <1>2, DividesOne DEF Coprime

\* A ratio is in lowest terms.
LEMMA RatioOf ==
    ASSUME NEW k \in Nat \ {0}, NEW a \in Nat, NEW b \in Nat \ {0}, Coprime(a, b)
    PROVE  Ratio(k * a, k * b) = [n |-> a, d |-> b]
<1>1. Gcd[<< k * a, k * b >>] = k
  <2>1. Gcd[<< k * a, k * b >>] = k * Gcd[<< a, b >>]
    BY GcdScaled
  <2>2. Gcd[<< a, b >>] = 1
    BY DEF Coprime
  <2>. QED  BY <2>1, <2>2
<1>2. (k * a) \div k = a /\ (k * b) \div k = b
  OBVIOUS
<1>. QED  BY <1>1, <1>2, Zenon DEF Ratio

\* A ratio is what is left of a fraction without the greatest common divisor.
LEMMA RatioFacts ==
    ASSUME NEW a \in Nat, NEW b \in Nat \ {0}
    PROVE  \E g \in Nat \ {0}, x \in Nat, y \in Nat \ {0} :
              /\ a = g * x /\ b = g * y /\ Coprime(x, y)
              /\ Ratio(a, b) = [n |-> x, d |-> y]
<1>. DEFINE g == Gcd[<< a, b >>]
<1>1. g \in Nat /\ Divides(g, a) /\ Divides(g, b)
  BY GcdStep, GcdFacts
<1>. HIDE DEF g
<1>2. PICK x \in Nat : a = g * x
  BY <1>1 DEF Divides
<1>3. PICK y \in Nat : b = g * y
  BY <1>1 DEF Divides
<1>4. g \in Nat \ {0} /\ y \in Nat \ {0}
  BY <1>1, <1>3
<1>5. Coprime(x, y)
  <2>. DEFINE h == Gcd[<< x, y >>]
  <2>0. Gcd[<< g * x, g * y >>] = g * h
    BY <1>4, GcdScaled
  <2>1. Gcd[<< g * x, g * y >>] = g * h /\ h \in Nat
    BY <1>4, <2>0, GcdStep
  <2>2. g = g * h
    BY <1>2, <1>3, <2>1 DEF g
  <2>. HIDE DEF h
  <2>3. h = 1
    BY <1>4, <2>1, <2>2
  <2>. QED  BY <2>3 DEF h, Coprime
<1>6. Ratio(a, b) = [n |-> x, d |-> y]
  BY <1>2, <1>3, <1>4, <1>5, RatioOf
<1>. QED  BY <1>2, <1>3, <1>4, <1>5, <1>6, Zenon

\* A fraction in lowest terms is left as it is.
LEMMA RatioCoprime ==
    ASSUME NEW a \in Nat, NEW b \in Nat \ {0}, Coprime(a, b)
    PROVE  Ratio(a, b) = [n |-> a, d |-> b]
<1>1. 1 * a = a /\ 1 * b = b /\ 1 \in Nat \ {0}
  OBVIOUS
<1>2. Ratio(1 * a, 1 * b) = [n |-> a, d |-> b]
  BY <1>1, RatioOf, Zenon
<1>. QED  BY <1>1, <1>2, Zenon

\* A ratio, given by numerator and denominator.
Fraction(n, d) == [n |-> n, d |-> d]

\* A product that the prover need not look into.
Mul(a, b) == a * b

\* What Product cancels and what is left.
LEMMA ProductOf ==
    ASSUME NEW a, NEW b, NEW c, NEW d, NEW p, NEW q, NEW r, NEW s,
           Ratio(a, d) = Fraction(p, q), Ratio(c, b) = Fraction(r, s)
    PROVE  Product(Fraction(a, b), Fraction(c, d)) = Fraction(Mul(p, r), Mul(s, q))
<1>. DEFINE x == Fraction(a, b)
            y == Fraction(c, d)
            u == Fraction(p, q)
            v == Fraction(r, s)
<1>1. /\ x.n = a /\ x.d = b /\ y.n = c /\ y.d = d
      /\ u.n = p /\ u.d = q /\ v.n = r /\ v.d = s
  BY DEF Fraction
<1>2. Ratio(x.n, y.d) = u /\ Ratio(y.n, x.d) = v
  BY <1>1
<1>. HIDE DEF x, y, u, v
<1>3. Product(x, y) = [n |-> u.n * v.n, d |-> v.d * u.d]
  BY <1>2, Zenon DEF Product
<1>4. Product(x, y) = [n |-> p * r, d |-> s * q]
  BY <1>1, <1>3, Zenon
<1>. QED  BY <1>4, Zenon DEF x, y, Fraction, Mul

\* Divided by a whole number and multiplied with it again.
LEMMA DividedAndMultiplied ==
    ASSUME NEW N \in Nat, NEW D \in Nat \ {0}, Coprime(N, D), NEW F \in Nat \ {0}
    PROVE  Product(Product(Fraction(N, D), Fraction(1, F)), Fraction(F, 1)) = Fraction(N, D)
<1>1. PICK g \in Nat \ {0}, a \in Nat, b \in Nat \ {0} :
         /\ N = g * a /\ F = g * b /\ Coprime(a, b)
         /\ Ratio(N, F) = [n |-> a, d |-> b]
  BY RatioFacts
<1>2. Ratio(1, D) = Fraction(1, D) /\ Ratio(a, 1) = Fraction(a, 1)
  BY CoprimeOne, RatioCoprime DEF Fraction
<1>3. Product(Fraction(N, D), Fraction(1, F)) = Fraction(Mul(a, 1), Mul(D, b))
  <2>1. Ratio(N, F) = Fraction(a, b) /\ Ratio(1, D) = Fraction(1, D)
    BY <1>1, <1>2, Zenon DEF Fraction
  <2>. QED  BY <2>1, ProductOf
<1>4. Product(Fraction(N, D), Fraction(1, F)) = Fraction(a, D * b)
  <2>1. Mul(a, 1) = a /\ Mul(D, b) = D * b
    BY DEF Mul
  <2>. QED  BY <1>3, <2>1, Zenon
<1>5. Ratio(F, D * b) = Fraction(g, D)
  <2>1. Divides(g, N) /\ Divides(D, D)
    <3>1. D = D * 1
      OBVIOUS
    <3>. QED  BY <1>1, <3>1 DEF Divides
  <2>2. Coprime(g, D)
    BY <2>1, CoprimeDivisors
  <2>3. Ratio(b * g, b * D) = [n |-> g, d |-> D]
    BY <2>2, RatioOf
  <2>4. b * g = F /\ b * D = D * b
    BY <1>1
  <2>. QED  BY <2>3, <2>4, Zenon DEF Fraction
<1>6. Product(Fraction(a, D * b), Fraction(F, 1)) = Fraction(Mul(a, g), Mul(D, 1))
  BY <1>2, <1>5, ProductOf
<1>7. Mul(a, g) = N /\ Mul(D, 1) = D
  BY <1>1 DEF Mul
<1>. QED  BY <1>4, <1>6, <1>7, Zenon

\* Multiplied with a whole number and divided by it again.
LEMMA MultipliedAndDivided ==
    ASSUME NEW N \in Nat, NEW D \in Nat \ {0}, Coprime(N, D), NEW F \in Nat \ {0}
    PROVE  Product(Product(Fraction(N, D), Fraction(F, 1)), Fraction(1, F)) = Fraction(N, D)
<1>1. PICK g \in Nat \ {0}, b \in Nat, c \in Nat \ {0} :
         /\ F = g * b /\ D = g * c /\ Coprime(b, c)
         /\ Ratio(F, D) = [n |-> b, d |-> c]
  BY RatioFacts
<1>2. Ratio(N, 1) = Fraction(N, 1) /\ Ratio(1, c) = Fraction(1, c)
  BY CoprimeOne, RatioCoprime DEF Fraction
<1>3. Product(Fraction(N, D), Fraction(F, 1)) = Fraction(Mul(N, b), Mul(c, 1))
  <2>1. Ratio(N, 1) = Fraction(N, 1) /\ Ratio(F, D) = Fraction(b, c)
    BY <1>1, <1>2, Zenon DEF Fraction
  <2>. QED  BY <2>1, ProductOf
<1>4. Product(Fraction(N, D), Fraction(F, 1)) = Fraction(N * b, c)
  <2>1. Mul(c, 1) = c /\ Mul(N, b) = N * b
    BY DEF Mul
  <2>. QED  BY <1>3, <2>1, Zenon
<1>5. Ratio(N * b, F) = Fraction(N, g)
  <2>1. Divides(N, N) /\ Divides(g, D)
    <3>1. N = N * 1
      OBVIOUS
    <3>. QED  BY <1>1, <3>1 DEF Divides
  <2>2. Coprime(N, g)
    BY <2>1, CoprimeDivisors
  <2>3. b # 0
    BY <1>1
  <2>4. Ratio(b * N, b * g) = [n |-> N, d |-> g]
    BY <2>2, <2>3, RatioOf
  <2>5. b * N = N * b /\ b * g = F
    BY <1>1
  <2>. QED  BY <2>4, <2>5, Zenon DEF Fraction
<1>6. Product(Fraction(N * b, c), Fraction(1, F)) = Fraction(Mul(N, 1), Mul(c, g))
  BY <1>2, <1>5, ProductOf
<1>7. Mul(N, 1) = N /\ Mul(c, g) = D
  BY <1>1 DEF Mul
<1>. QED  BY <1>4, <1>6, <1>7, Zenon

-----------------------------------------------------------------------------
(* Sizes                                                                    *)

\* The powers of Kilo are positive, each Kilo times the one before.
LEMMA KiloToTheDef ==
    /\ KiloToThe \in [Nat -> Nat \ {0}]
    /\ KiloToThe[0] = 1
    /\ \A n \in Nat : KiloToThe[n + 1] = Kilo * KiloToThe[n]
<1>. DEFINE T == Nat \ {0}
            Base == {0}
            mu == [n \in Nat |-> n]
            p == [n \in Nat \ Base |-> n - 1]
            b == [n \in Base |-> 1]
            g == [x \in (Nat \ Base) \X T |-> Kilo * x[2]]
<1>1. /\ Base \in SUBSET Nat /\ mu \in [Nat -> Nat] /\ p \in [Nat \ Base -> Nat]
      /\ \A n \in Nat \ Base : mu[p[n]] < mu[n]
      /\ b \in [Base -> T]
  OBVIOUS
<1>2. g \in [(Nat \ Base) \X T -> T]
  <2>1. \A v \in T : Kilo * v \in T
    BY KiloAssumption
  <2>. HIDE DEF T
  <2>. QED  BY <2>1
<1>3. IsRecursion(Nat, T, Base, mu, p, b, g)
  <2>. HIDE DEF T, Base, mu, p, b, g
  <2>. QED  BY <1>1, <1>2 DEF IsRecursion
<1>. PICK f : Solves(f, Nat, T, Base, p, b, g)
  BY <1>3, Recursion, Zenon
<1>4. f \in [Nat -> T] /\ \A n \in Nat : f[n] = IF n \in Base THEN b[n] ELSE g[<<n, f[p[n]]>>]
  BY DEF Solves
<1>5. \A n \in Nat : f[n] = IF n = 0 THEN 1 ELSE Kilo * f[n - 1]
  <2>. TAKE n \in Nat
  <2>1. CASE n = 0
    <3>1. n \in Base /\ b[n] = 1
      BY <2>1
    <3>. HIDE DEF Base, b, T
    <3>. QED  BY <1>4, <2>1, <3>1
  <2>2. CASE n # 0
    <3>1. n \in Nat \ Base /\ p[n] = n - 1 /\ n - 1 \in Nat
      BY <2>2
    <3>2. <<n, f[p[n]]>> \in (Nat \ Base) \X T
      <4>. HIDE DEF T, Base, p
      <4>. QED  BY <1>4, <3>1
    <3>3. g[<<n, f[p[n]]>>] = Kilo * f[p[n]]
      <4>. HIDE DEF T, Base, p
      <4>. QED  BY <3>2
    <3>. HIDE DEF Base, p, g, T
    <3>. QED  BY <1>4, <2>2, <3>1, <3>3
  <2>. QED  BY <2>1, <2>2
<1>6. f = [n \in Nat |-> IF n = 0 THEN 1 ELSE Kilo * f[n - 1]]
  BY <1>4, <1>5, Zenon
<1>7. KiloToThe = [n \in Nat |-> IF n = 0 THEN 1 ELSE Kilo * KiloToThe[n - 1]]
  BY <1>6, Zenon DEF KiloToThe
<1>8. \A n \in Nat : KiloToThe[n] = IF n = 0 THEN 1 ELSE Kilo * KiloToThe[n - 1]
  BY <1>7, Zenon
<1>9. KiloToThe[0] = 1
  BY <1>8, Zenon
<1>10. \A n \in Nat : KiloToThe[n + 1] = Kilo * KiloToThe[n]
  <2>. TAKE n \in Nat
  <2>1. PICK m \in Nat : m = n + 1
    OBVIOUS
  <2>2. m # 0 /\ m - 1 = n
    BY <2>1
  <2>3. KiloToThe[m] = Kilo * KiloToThe[m - 1]
    BY <1>8, <2>2, Zenon
  <2>. QED  BY <2>1, <2>2, <2>3
<1>11. \A n \in Nat : KiloToThe[n] \in T
  <2>. DEFINE Q == {n \in Nat : KiloToThe[n] \in T}
  <2>1. Q \in SUBSET Nat /\ 0 \in Q
    BY <1>9
  <2>2. \A n \in Q : n + 1 \in Q
    <3>. TAKE n \in Q
    <3>1. KiloToThe[n + 1] = Kilo * KiloToThe[n] /\ KiloToThe[n] \in T
      BY <1>10
    <3>2. Kilo * KiloToThe[n] \in T
      BY <3>1, KiloAssumption
    <3>3. KiloToThe[n + 1] \in T
      BY <3>1, <3>2, Zenon
    <3>. HIDE DEF T
    <3>. QED  BY <3>3
  <2>. HIDE DEF Q
  <2>3. \A n \in Nat : n \in Q
    BY <2>1, <2>2, Induction
  <2>. QED  BY <2>3 DEF Q
<1>12. KiloToThe \in [Nat -> T]
  <2>. HIDE DEF T
  <2>. QED  BY <1>7, <1>11, Zenon
<1>. QED  BY <1>9, <1>10, <1>12

\* A whole number as a ratio.
LEMMA RatioWhole ==
    ASSUME NEW n \in Nat
    PROVE  Ratio(n, 1) = Fraction(n, 1)
BY CoprimeOne, RatioCoprime DEF Fraction

\* The units of sizes, as they are written and as they are read, are nine different
\* ones each.
LEMMA UnitNames ==
    /\ DOMAIN SizeUnits = 1 .. 9 /\ DOMAIN Postfixes = 1 .. 9 /\ Len(SizeUnits) = 9
    /\ \A i, j \in 1 .. 9 : SizeUnits[i] = SizeUnits[j] => i = j
    /\ \A i, j \in 1 .. 9 : Postfixes[i] = Postfixes[j] => i = j
    /\ \A i \in 1 .. 9 : Postfixes[i] # ""
    /\ \A i \in 1 .. 9 : SizeUnits[i] # ""
    /\ SizeUnits[1] = "b" /\ SizeUnits[9] = "Yb"
BY DEF SizeUnits, Postfixes

\* The unit in which a size is shown is the one it is read in.
LEMMA UnitOfSize ==
    ASSUME NEW i \in 1 .. 9, NEW number, number # Undefined
    PROVE  SizeIn(number, SizeUnits[i]) = Product(number, Ratio(KiloToThe[i - 1], 1))
<1>. DEFINE unit == SizeUnits[i]
            postfix == IF unit = "" THEN "b" ELSE LowerCase(unit)
            index == CHOOSE j \in DOMAIN Postfixes : Postfixes[j] = postfix
<1>1. unit \in Range(SizeUnits) /\ unit # ""
  BY UnitNames DEF Range
<1>2. LowerCase(unit) = Postfixes[i]
  <2>. DEFINE k == CHOOSE j \in DOMAIN SizeUnits : SizeUnits[j] = unit
  <2>1. k = i
    BY UnitNames
  <2>2. LowerCase(unit) = Postfixes[k]
    BY <1>1, Zenon DEF LowerCase
  <2>. QED  BY <2>1, <2>2, Zenon
<1>3. postfix = Postfixes[i]
  BY <1>1, <1>2, Zenon
<1>. HIDE DEF postfix
<1>4. postfix \in Range(Postfixes)
  BY <1>3, UnitNames DEF Range
<1>5. index = i
  BY <1>3, UnitNames
<1>6. SizeIn(number, unit) = Times(number, Ratio(KiloToThe[index - 1], 1))
  BY <1>4, Zenon DEF SizeIn, postfix
<1>. HIDE DEF index, unit
<1>7. Times(number, Ratio(KiloToThe[index - 1], 1)) = Product(number, Ratio(KiloToThe[index - 1], 1))
  BY Zenon DEF Times
<1>8. SizeIn(number, unit) = Product(number, Ratio(KiloToThe[i - 1], 1))
  BY <1>5, <1>6, <1>7
<1>. QED  BY <1>8 DEF unit

\* A ratio is a value, and no exception.
LEMMA NoRatioUndefined ==
    ASSUME NEW x \in [n : Int, d : Int]
    PROVE  x # Undefined /\ x # Throws
BY OutcomesAssumption

\* The unit of a size: it fits, and unless there is no larger unit it is the largest
\* that does.
LEMMA UnitFits ==
    ASSUME NEW s \in Nat
    PROVE  \E i \in 1 .. 9 :
              /\ FormatByteSize(s) = [number |-> Ratio(s, KiloToThe[i - 1]), unit |-> SizeUnits[i]]
              /\ i # 9 => s < KiloToThe[i]
              /\ i # 1 => s >= KiloToThe[i - 1]
<1>. DEFINE fits == {i \in DOMAIN SizeUnits : s < KiloToThe[i]}
            unit == IF fits = {} THEN Len(SizeUnits) ELSE Min(fits)
<1>1. FormatByteSize(s) = [number |-> Ratio(s, KiloToThe[unit - 1]), unit |-> SizeUnits[unit]]
  BY Zenon DEF FormatByteSize
<1>2. fits = {i \in 1 .. 9 : s < KiloToThe[i]}
  BY UnitNames
<1>3. \A i \in Nat : KiloToThe[i] \in Nat /\ KiloToThe[i] <= KiloToThe[i + 1]
  <2>. TAKE i \in Nat
  <2>. DEFINE x == KiloToThe[i]
  <2>1. x \in Nat \ {0} /\ KiloToThe[i + 1] = Kilo * x
    BY KiloToTheDef
  <2>. HIDE DEF x
  <2>2. x <= Kilo * x
    BY <2>1, KiloAssumption
  <2>. QED  BY <2>1, <2>2 DEF x
<1>4. CASE fits = {}
  <2>1. unit = 9
    BY <1>4, UnitNames
  <2>2. ~(s < KiloToThe[9])
    BY <1>2, <1>4
  <2>3. 8 \in Nat /\ 9 \in Nat /\ 8 + 1 = 9 /\ 9 - 1 = 8
    OBVIOUS
  <2>4. KiloToThe[8] \in Nat /\ KiloToThe[9] \in Nat /\ KiloToThe[8] <= KiloToThe[9]
    BY <1>3, <2>3
  <2>5. s >= KiloToThe[8]
    BY <2>2, <2>4
  <2>. HIDE DEF unit
  <2>. QED  BY <1>1, <2>1, <2>3, <2>5
<1>5. CASE fits # {}
  <2>1. unit = Min(fits)
    BY <1>5
  <2>2. unit \in fits /\ \A j \in fits : unit <= j
    <3>1. fits \in SUBSET Nat
      BY <1>2
    <3>. HIDE DEF fits, unit
    <3>. QED  BY <1>5, <2>1, <3>1, MinFacts
  <2>. HIDE DEF unit
  <2>3. unit \in 1 .. 9 /\ s < KiloToThe[unit]
    BY <1>2, <2>2
  <2>4. ASSUME unit # 1 PROVE s >= KiloToThe[unit - 1]
    <3>1. unit - 1 \in 1 .. 9 /\ unit - 1 \in Nat /\ ~(unit <= unit - 1)
      BY <2>3, <2>4
    <3>2. unit - 1 \notin fits
      <4>. HIDE DEF fits
      <4>. QED  BY <2>2, <3>1
    <3>3. ~(s < KiloToThe[unit - 1])
      BY <1>2, <3>1, <3>2
    <3>4. KiloToThe[unit - 1] \in Nat
      BY <1>3, <3>1
    <3>. QED  BY <3>3, <3>4
  <2>. QED  BY <1>1, <2>3, <2>4
<1>. QED  BY <1>4, <1>5

\* A size is shown in a unit in which it is a number from 1 to Kilo, if there is one,
\* and read as the same size.
LEMMA SizeShownAndRead ==
    ASSUME NEW s \in Nat
    PROVE  LET shown == FormatByteSize(s)
               read == SizeIn(shown.number, shown.unit)
           IN  /\ read # Throws /\ read = Ratio(s, 1)
               /\ shown.unit # "Yb" => shown.number.n < Kilo * shown.number.d
               /\ shown.unit # "b" => shown.number.n >= shown.number.d
<1>1. PICK i \in 1 .. 9 :
         /\ FormatByteSize(s) = [number |-> Ratio(s, KiloToThe[i - 1]), unit |-> SizeUnits[i]]
         /\ i # 9 => s < KiloToThe[i]
         /\ i # 1 => s >= KiloToThe[i - 1]
  BY UnitFits
<1>. DEFINE shown == FormatByteSize(s)
            K == KiloToThe[i - 1]
<1>2. shown.number = Ratio(s, K) /\ shown.unit = SizeUnits[i]
  BY <1>1
<1>. HIDE DEF shown
<1>3. K \in Nat \ {0} /\ KiloToThe[i] = Kilo * K
  <2>1. i - 1 \in Nat /\ i - 1 + 1 = i
    OBVIOUS
  <2>2. KiloToThe[i - 1] \in Nat \ {0} /\ KiloToThe[i - 1 + 1] = Kilo * KiloToThe[i - 1]
    BY <2>1, KiloToTheDef
  <2>. QED  BY <2>1, <2>2, Zenon
<1>. HIDE DEF K
<1>4. PICK g \in Nat \ {0}, x \in Nat, y \in Nat \ {0} :
         /\ s = g * x /\ K = g * y /\ Coprime(x, y)
         /\ Ratio(s, K) = [n |-> x, d |-> y]
  BY <1>3, RatioFacts
<1>5. shown.number = Fraction(x, y)
  BY <1>2, <1>4, Zenon DEF Fraction
<1>6. SizeIn(shown.number, shown.unit) = Product(Fraction(x, y), Fraction(K, 1))
  <2>1. Fraction(x, y) \in [n : Int, d : Int]
    BY DEF Fraction
  <2>2. Fraction(x, y) # Undefined
    BY <2>1, NoRatioUndefined
  <2>3. SizeIn(Fraction(x, y), SizeUnits[i]) = Product(Fraction(x, y), Ratio(KiloToThe[i - 1], 1))
    BY <2>2, UnitOfSize
  <2>4. Ratio(K, 1) = Fraction(K, 1)
    BY <1>3, RatioWhole
  <2>. QED  BY <1>2, <1>5, <2>3, <2>4, Zenon DEF K
<1>7. Product(Fraction(s, 1), Fraction(1, K)) = Fraction(x, y)
  <2>1. Ratio(s, K) = Fraction(x, y) /\ Ratio(1, 1) = Fraction(1, 1)
    BY <1>4, RatioWhole DEF Fraction
  <2>2. Product(Fraction(s, 1), Fraction(1, K)) = Fraction(Mul(x, 1), Mul(1, y))
    BY <2>1, ProductOf
  <2>3. Mul(x, 1) = x /\ Mul(1, y) = y
    BY DEF Mul
  <2>. QED  BY <2>2, <2>3, Zenon
<1>8. Product(Product(Fraction(s, 1), Fraction(1, K)), Fraction(K, 1)) = Fraction(s, 1)
  <2>1. Coprime(s, 1) /\ 1 \in Nat \ {0}
    BY CoprimeOne
  <2>. QED  BY <1>3, <2>1, DividedAndMultiplied
<1>9. SizeIn(shown.number, shown.unit) = Ratio(s, 1)
  BY <1>6, <1>7, <1>8, RatioWhole, Zenon
<1>10. Ratio(s, 1) # Throws
  <2>1. Ratio(s, 1) \in [n : Int, d : Int]
    BY RatioWhole DEF Fraction
  <2>. QED  BY <2>1, NoRatioUndefined
<1>11. shown.number.n = x /\ shown.number.d = y
  BY <1>5 DEF Fraction
<1>12. ASSUME shown.unit # "Yb" PROVE x < Kilo * y
  <2>1. i # 9
    BY <1>2, <1>12, UnitNames
  <2>2. s < Kilo * K
    BY <1>1, <1>3, <2>1
  <2>3. g * x < g * (Kilo * y)
    BY <1>4, <2>2, KiloAssumption
  <2>. QED  BY <2>3, KiloAssumption
<1>13. ASSUME shown.unit # "b" PROVE x >= y
  <2>1. i # 1
    BY <1>2, <1>13, UnitNames
  <2>2. s >= K
    BY <1>1, <2>1 DEF K
  <2>3. g * x >= g * y
    BY <1>4, <2>2
  <2>. QED  BY <2>3
<1>. QED  BY <1>9, <1>10, <1>11, <1>12, <1>13, Zenon DEF shown

-----------------------------------------------------------------------------
(* Durations                                                                *)

\* The product of two ratios is one.
LEMMA ProductType ==
    ASSUME NEW a \in Nat, NEW b \in Nat \ {0}, NEW c \in Nat, NEW d \in Nat \ {0}
    PROVE  Product(Fraction(a, b), Fraction(c, d)) \in [n : Int, d : Int]
<1>1. PICK gp \in Nat \ {0}, p \in Nat, q \in Nat \ {0} :
         /\ a = gp * p /\ d = gp * q /\ Coprime(p, q)
         /\ Ratio(a, d) = [n |-> p, d |-> q]
  BY RatioFacts
<1>2. PICK gr \in Nat \ {0}, r \in Nat, s \in Nat \ {0} :
         /\ c = gr * r /\ b = gr * s /\ Coprime(r, s)
         /\ Ratio(c, b) = [n |-> r, d |-> s]
  BY RatioFacts
<1>3. Product(Fraction(a, b), Fraction(c, d)) = Fraction(Mul(p, r), Mul(s, q))
  <2>1. Ratio(a, d) = Fraction(p, q) /\ Ratio(c, b) = Fraction(r, s)
    BY <1>1, <1>2, Zenon DEF Fraction
  <2>. QED  BY <2>1, ProductOf
<1>4. Mul(p, r) \in Int /\ Mul(s, q) \in Int
  BY DEF Mul
<1>. QED  BY <1>3, <1>4 DEF Fraction

\* A unit of durations is a whole number of seconds or a whole part of one, and it is
\* the same when it is read.
WholeOrPart(f) == \E F \in Nat \ {0} : f = Fraction(F, 1) \/ f = Fraction(1, F)

\* A whole part of a second as a ratio.
LEMMA RatioPart ==
    ASSUME NEW n \in Nat \ {0}
    PROVE  Ratio(1, n) = Fraction(1, n)
BY CoprimeOne, RatioCoprime DEF Fraction

\* Both are such units.
LEMMA WholeOrPartRatios ==
    ASSUME NEW n \in Nat \ {0}
    PROVE  WholeOrPart(Ratio(n, 1)) /\ WholeOrPart(Ratio(1, n))
BY RatioWhole, RatioPart, Zenon DEF WholeOrPart

\* Units that are shown, but not known when they are read.
LEMMA DurationNames ==
    {"wk", "day", "min", "sec"} \intersect DOMAIN DurationUnits = {}
BY SMT DEF DurationUnits

\* The others.
LEMMA DurationValues ==
    /\ DurationUnits["us"] = Ratio(1, 1000000)
    /\ DurationUnits["ms"] = Ratio(1, 1000)
    /\ DurationUnits["hr"] = Ratio(3600, 1)
    /\ DurationUnits["mo"] = Ratio(2592000, 1)
    /\ DurationUnits["yr"] = Ratio(31536000, 1)
BY SMT DEF DurationUnits

\* A unit that is shown with this name is read with these seconds, or not at all.
Matches(name, seconds) ==
    WholeOrPart(seconds) /\ (name \in DOMAIN DurationUnits => DurationUnits[name] = seconds)

\* It is one of the units above.
LEMMA MatchesFacts ==
    ASSUME NEW n \in Nat \ {0}, NEW name
    PROVE  /\ (name \in DOMAIN DurationUnits => DurationUnits[name] = Ratio(n, 1))
                 => Matches(name, Ratio(n, 1))
           /\ (name \in DOMAIN DurationUnits => DurationUnits[name] = Ratio(1, n))
                 => Matches(name, Ratio(1, n))
BY WholeOrPartRatios, Zenon DEF Matches

\* All units that are shown match.
LEMMA TimeUnitsAgree ==
    /\ DOMAIN TimeUnits = 1 .. 9 /\ Len(TimeUnits) = 9
    /\ \A u \in 1 .. 9 : Matches(TimeUnits[u].name, TimeUnits[u].seconds)
<1>1. DOMAIN TimeUnits = 1 .. 9 /\ Len(TimeUnits) = 9
  BY SMT DEF TimeUnits
<1>2. Matches(TimeUnits[1].name, TimeUnits[1].seconds)
  <2>1. TimeUnits[1] = [name |-> "yr", seconds |-> Ratio(31536000, 1)]
    BY SMT DEF TimeUnits
  <2>2. PICK n \in Nat \ {0} : n = 31536000
    BY SMT
  <2>3. "yr" \in DOMAIN DurationUnits => DurationUnits["yr"] = Ratio(31536000, 1)
    BY DurationValues, SMT
  <2>4. Matches("yr", Ratio(31536000, 1))
    BY <2>2, <2>3, MatchesFacts, SMT
  <2>. QED  BY <2>1, <2>4, SMT
<1>3. Matches(TimeUnits[2].name, TimeUnits[2].seconds)
  <2>1. TimeUnits[2] = [name |-> "mo", seconds |-> Ratio(2592000, 1)]
    BY SMT DEF TimeUnits
  <2>2. PICK n \in Nat \ {0} : n = 2592000
    BY SMT
  <2>3. "mo" \in DOMAIN DurationUnits => DurationUnits["mo"] = Ratio(2592000, 1)
    BY DurationValues, SMT
  <2>4. Matches("mo", Ratio(2592000, 1))
    BY <2>2, <2>3, MatchesFacts, SMT
  <2>. QED  BY <2>1, <2>4, SMT
<1>4. Matches(TimeUnits[3].name, TimeUnits[3].seconds)
  <2>1. TimeUnits[3] = [name |-> "wk", seconds |-> Ratio(604800, 1)]
    BY SMT DEF TimeUnits
  <2>2. PICK n \in Nat \ {0} : n = 604800
    BY SMT
  <2>3. "wk" \in DOMAIN DurationUnits => DurationUnits["wk"] = Ratio(604800, 1)
    BY DurationNames, SMT
  <2>4. Matches("wk", Ratio(604800, 1))
    BY <2>2, <2>3, MatchesFacts, SMT
  <2>. QED  BY <2>1, <2>4, SMT
<1>5. Matches(TimeUnits[4].name, TimeUnits[4].seconds)
  <2>1. TimeUnits[4] = [name |-> "day", seconds |-> Ratio(86400, 1)]
    BY SMT DEF TimeUnits
  <2>2. PICK n \in Nat \ {0} : n = 86400
    BY SMT
  <2>3. "day" \in DOMAIN DurationUnits => DurationUnits["day"] = Ratio(86400, 1)
    BY DurationNames, SMT
  <2>4. Matches("day", Ratio(86400, 1))
    BY <2>2, <2>3, MatchesFacts, SMT
  <2>. QED  BY <2>1, <2>4, SMT
<1>6. Matches(TimeUnits[5].name, TimeUnits[5].seconds)
  <2>1. TimeUnits[5] = [name |-> "hr", seconds |-> Ratio(3600, 1)]
    BY SMT DEF TimeUnits
  <2>2. PICK n \in Nat \ {0} : n = 3600
    BY SMT
  <2>3. "hr" \in DOMAIN DurationUnits => DurationUnits["hr"] = Ratio(3600, 1)
    BY DurationValues, SMT
  <2>4. Matches("hr", Ratio(3600, 1))
    BY <2>2, <2>3, MatchesFacts, SMT
  <2>. QED  BY <2>1, <2>4, SMT
<1>7. Matches(TimeUnits[6].name, TimeUnits[6].seconds)
  <2>1. TimeUnits[6] = [name |-> "min", seconds |-> Ratio(60, 1)]
    BY SMT DEF TimeUnits
  <2>2. PICK n \in Nat \ {0} : n = 60
    BY SMT
  <2>3. "min" \in DOMAIN DurationUnits => DurationUnits["min"] = Ratio(60, 1)
    BY DurationNames, SMT
  <2>4. Matches("min", Ratio(60, 1))
    BY <2>2, <2>3, MatchesFacts, SMT
  <2>. QED  BY <2>1, <2>4, SMT
<1>8. Matches(TimeUnits[7].name, TimeUnits[7].seconds)
  <2>1. TimeUnits[7] = [name |-> "sec", seconds |-> Ratio(1, 1)]
    BY SMT DEF TimeUnits
  <2>2. PICK n \in Nat \ {0} : n = 1
    BY SMT
  <2>3. "sec" \in DOMAIN DurationUnits => DurationUnits["sec"] = Ratio(1, 1)
    BY DurationNames, SMT
  <2>4. Matches("sec", Ratio(1, 1))
    BY <2>2, <2>3, MatchesFacts, SMT
  <2>. QED  BY <2>1, <2>4, SMT
<1>9. Matches(TimeUnits[8].name, TimeUnits[8].seconds)
  <2>1. TimeUnits[8] = [name |-> "ms", seconds |-> Ratio(1, 1000)]
    BY SMT DEF TimeUnits
  <2>2. PICK n \in Nat \ {0} : n = 1000
    BY SMT
  <2>3. "ms" \in DOMAIN DurationUnits => DurationUnits["ms"] = Ratio(1, 1000)
    BY DurationValues, SMT
  <2>4. Matches("ms", Ratio(1, 1000))
    BY <2>2, <2>3, MatchesFacts, SMT
  <2>. QED  BY <2>1, <2>4, SMT
<1>10. Matches(TimeUnits[9].name, TimeUnits[9].seconds)
  <2>1. TimeUnits[9] = [name |-> "us", seconds |-> Ratio(1, 1000000)]
    BY SMT DEF TimeUnits
  <2>2. PICK n \in Nat \ {0} : n = 1000000
    BY SMT
  <2>3. "us" \in DOMAIN DurationUnits => DurationUnits["us"] = Ratio(1, 1000000)
    BY DurationValues, SMT
  <2>4. Matches("us", Ratio(1, 1000000))
    BY <2>2, <2>3, MatchesFacts, SMT
  <2>. QED  BY <2>1, <2>4, SMT
<1>11. \A u \in 1 .. 9 : u \in {1, 2, 3, 4, 5, 6, 7, 8, 9}
  BY SMT
<1>. QED  BY <1>1, <1>2, <1>3, <1>4, <1>5, <1>6, <1>7, <1>8, <1>9, <1>10, <1>11

\* A duration in some unit, times this unit, is the duration.
LEMMA ThereAndBack ==
    ASSUME NEW N \in Nat, NEW D \in Nat \ {0}, Coprime(N, D), NEW f, WholeOrPart(f)
    PROVE  LET number == Product(Fraction(N, D), [n |-> f.d, d |-> f.n])
           IN  number # Undefined /\ Product(number, f) = Fraction(N, D)
<1>1. PICK F \in Nat \ {0} : f = Fraction(F, 1) \/ f = Fraction(1, F)
  BY DEF WholeOrPart
<1>. DEFINE g == [n |-> f.d, d |-> f.n]
            number == Product(Fraction(N, D), g)
<1>2. CASE f = Fraction(F, 1)
  <2>1. g = Fraction(1, F)
    BY <1>2 DEF Fraction
  <2>2. number \in [n : Int, d : Int]
    BY <2>1, ProductType
  <2>3. number # Undefined
    BY <2>2, NoRatioUndefined
  <2>. QED  BY <1>2, <2>1, <2>3, DividedAndMultiplied, Zenon
<1>3. CASE f = Fraction(1, F)
  <2>1. g = Fraction(F, 1)
    BY <1>3 DEF Fraction
  <2>2. number \in [n : Int, d : Int]
    BY <2>1, ProductType
  <2>3. number # Undefined
    BY <2>2, NoRatioUndefined
  <2>. QED  BY <1>3, <2>1, <2>3, MultipliedAndDivided, Zenon
<1>. QED  BY <1>1, <1>2, <1>3

\* A duration is shown in one of the nine units, whichever it exceeds.
LEMMA UnitOfDuration ==
    ASSUME NEW x
    PROVE  \E u \in 1 .. 9 :
              FormatDuration(x) =
                 [number |-> Product(x, [n |-> TimeUnits[u].seconds.d, d |-> TimeUnits[u].seconds.n]),
                  unit |-> TimeUnits[u].name]
<1>. DEFINE exceeded == {i \in DOMAIN TimeUnits : Exceeds(x, TimeUnits[i].seconds)}
            unit == IF exceeded = {} THEN Len(TimeUnits) ELSE Min(exceeded)
<1>1. FormatDuration(x) =
         [number |-> Product(x, [n |-> TimeUnits[unit].seconds.d, d |-> TimeUnits[unit].seconds.n]),
          unit |-> TimeUnits[unit].name]
  BY Zenon DEF FormatDuration
<1>2. exceeded \in SUBSET (1 .. 9)
  BY TimeUnitsAgree
<1>. HIDE DEF exceeded
<1>3. exceeded # {} => Min(exceeded) \in exceeded
  BY <1>2, MinFacts
<1>4. unit \in 1 .. 9
  <2>1. Len(TimeUnits) = 9
    BY TimeUnitsAgree
  <2>2. CASE exceeded = {}
    <3>1. unit = Len(TimeUnits)
      BY <2>2, Zenon
    <3>. QED  BY <2>1, <3>1
  <2>3. CASE exceeded # {}
    <3>1. unit = Min(exceeded)
      BY <2>3, Zenon
    <3>. HIDE DEF unit
    <3>. QED  BY <1>2, <1>3, <2>3, <3>1
  <2>. QED  BY <2>2, <2>3
<1>. QED  BY <1>1, <1>4, Zenon

\* A duration is shown such that it is refused or read as itself.
LEMMA DurationShownAndRead ==
    ASSUME NEW x \in [n : Nat, d : Nat \ {0}], Gcd[<< x.n, x.d >>] = 1
    PROVE  LET shown == FormatDuration(x)
               read == DurationIn(shown.number, shown.unit)
           IN  read = Throws \/ read = x
<1>. DEFINE shown == FormatDuration(x)
<1>1. PICK u \in 1 .. 9 :
         FormatDuration(x) =
            [number |-> Product(x, [n |-> TimeUnits[u].seconds.d, d |-> TimeUnits[u].seconds.n]),
             unit |-> TimeUnits[u].name]
  BY UnitOfDuration
<1>. DEFINE f == TimeUnits[u].seconds
            name == TimeUnits[u].name
            number == Product(x, [n |-> f.d, d |-> f.n])
<1>2. shown.number = number /\ shown.unit = name
  BY <1>1
<1>3. x = Fraction(x.n, x.d) /\ Coprime(x.n, x.d) /\ x.n \in Nat /\ x.d \in Nat \ {0}
  BY DEF Fraction, Coprime
<1>4. WholeOrPart(f) /\ (name \in DOMAIN DurationUnits => DurationUnits[name] = f)
  BY TimeUnitsAgree, Zenon DEF Matches
<1>. HIDE DEF shown, f, name
<1>5. number # Undefined /\ Product(number, f) = x
  <2>. DEFINE N == x.n
              D == x.d
  <2>1. x = Fraction(N, D) /\ Coprime(N, D) /\ N \in Nat /\ D \in Nat \ {0}
    BY <1>3
  <2>. HIDE DEF N, D
  <2>2. LET number2 == Product(Fraction(N, D), [n |-> f.d, d |-> f.n])
        IN  number2 # Undefined /\ Product(number2, f) = Fraction(N, D)
    BY <2>1, <1>4, ThereAndBack
  <2>. QED  BY <2>1, <2>2, Zenon
<1>. HIDE DEF number
<1>6. DurationIn(number, name) = Throws \/ DurationIn(number, name) = x
  <2>1. CASE name \notin DOMAIN DurationUnits
    BY <2>1, Zenon DEF DurationIn
  <2>2. CASE name \in DOMAIN DurationUnits
    <3>1. DurationIn(number, name) = Times(number, f)
      BY <1>4, <2>2, Zenon DEF DurationIn
    <3>2. Times(number, f) = Product(number, f)
      BY <1>5, Zenon DEF Times
    <3>. QED  BY <1>5, <3>1, <3>2, Zenon
  <2>. QED  BY <2>1, <2>2
<1>. QED  BY <1>2, <1>6, Zenon DEF shown

-----------------------------------------------------------------------------
(* Chunks                                                                   *)

\* The number of chunks of n elements.
CountOfChunks(n, size) == (n + size - 1) \div size

\* Where the chunk k ends.
EndOfChunk(k, n, size) == Min({k * size, n})

\* Each chunk ends by at most size elements behind the one before, and the last chunk
\* ends with the data.
LEMMA ChunkEnds ==
    ASSUME NEW n \in Nat, NEW size \in Nat \ {0}
    PROVE  /\ CountOfChunks(n, size) \in Nat
           /\ EndOfChunk(0, n, size) = 0
           /\ EndOfChunk(CountOfChunks(n, size), n, size) = n
           /\ \A k \in 1 .. CountOfChunks(n, size) :
                 /\ EndOfChunk(k - 1, n, size) = (k - 1) * size
                 /\ EndOfChunk(k, n, size) \in 0 .. n
                 /\ EndOfChunk(k, n, size) - EndOfChunk(k - 1, n, size) \in 1 .. size
<1>. DEFINE m == CountOfChunks(n, size)
<1>1. m \in Nat /\ n <= size * m /\ size * m < n + size
  <2>. DEFINE a == n + size - 1
              r == a % size
              q == a \div size
  <2>1. a \in Nat /\ q \in Nat /\ r \in Nat /\ r < size /\ a = size * q + r
    OBVIOUS
  <2>2. m = q
    BY DEF CountOfChunks
  <2>. HIDE DEF r, q, m
  <2>. DEFINE z == size * q
  <2>3. z \in Nat /\ z + r = n + size - 1
    BY <2>1
  <2>. HIDE DEF z
  <2>4. n <= z /\ z < n + size
    BY <2>1, <2>3
  <2>. QED  BY <2>1, <2>2, <2>4 DEF z
<1>. HIDE DEF m
<1>2. \A k \in Nat : k * size \in Nat
  OBVIOUS
<1>3. \A k \in Nat :
         /\ EndOfChunk(k, n, size) = k * size \/ EndOfChunk(k, n, size) = n
         /\ EndOfChunk(k, n, size) <= k * size /\ EndOfChunk(k, n, size) <= n
  <2>. TAKE k \in Nat
  <2>. DEFINE x == k * size
              T == {x, n}
  <2>1. x \in Nat
    BY <1>2
  <2>. HIDE DEF x
  <2>2. T \in SUBSET Nat /\ T # {} /\ x \in T /\ n \in T
    BY <2>1
  <2>3. Min(T) \in T /\ \A y \in T : Min(T) <= y
    <3>. HIDE DEF T
    <3>. QED  BY <2>2, MinFacts
  <2>4. (Min(T) = x \/ Min(T) = n) /\ Min(T) <= x /\ Min(T) <= n
    BY <2>3
  <2>. QED  BY <2>4, Zenon DEF EndOfChunk, x
<1>. DEFINE e(k) == EndOfChunk(k, n, size)
<1>4. e(0) = 0
  BY <1>3
<1>5. e(m) = n
  <2>1. m * size = size * m
    BY <1>1
  <2>. QED  BY <1>1, <1>3, <2>1
<1>6. ASSUME NEW k \in 1 .. m
      PROVE  e(k - 1) = (k - 1) * size /\ e(k) \in 0 .. n /\ e(k) - e(k - 1) \in 1 .. size
  <2>. DEFINE y == (k - 1) * size
  <2>1. y \in Nat /\ k * size = y + size /\ k \in Nat /\ k - 1 \in Nat
    BY <1>1
  <2>2. y < n
    <3>1. (k - 1) * size <= (m - 1) * size
      BY <1>1
    <3>2. (m - 1) * size = size * m - size
      BY <1>1
    <3>. QED  BY <1>1, <3>1, <3>2
  <2>. HIDE DEF y
  <2>3. (e(k - 1) = y \/ e(k - 1) = n) /\ e(k - 1) <= y
    <3>. HIDE DEF e
    <3>1. \A j \in Nat : (e(j) = j * size \/ e(j) = n) /\ e(j) <= j * size
      BY <1>3 DEF e
    <3>. QED  BY <2>1, <3>1 DEF y
  <2>4. (e(k) = y + size \/ e(k) = n) /\ e(k) <= y + size /\ e(k) <= n
    BY <1>3, <2>1
  <2>. HIDE DEF e
  <2>5. e(k - 1) = y
    BY <2>1, <2>2, <2>3
  <2>. QED  BY <2>1, <2>2, <2>4, <2>5 DEF y
<1>. QED  BY <1>1, <1>4, <1>5, <1>6 DEF m

\* The first k chunks make up the data up to the end of chunk k.
LEMMA ChunksFacts ==
    ASSUME NEW S, NEW data \in Seq(S), NEW size \in Nat \ {0}
    PROVE  /\ FlattenSeq(Chunks(data, size)) = data
           /\ \A k \in DOMAIN Chunks(data, size) : Len(Chunks(data, size)[k]) \in 1 .. size
<1>. DEFINE n == Len(data)
            s == Chunks(data, size)
            m == CountOfChunks(n, size)
            e(k) == EndOfChunk(k, n, size)
<1>1. n \in Nat /\ data \in [1 .. n -> S]
  BY LenProperties
<1>. HIDE DEF n
<1>2. /\ m \in Nat /\ e(0) = 0 /\ e(m) = n
      /\ \A k \in 1 .. m :
            e(k - 1) = (k - 1) * size /\ e(k) \in 0 .. n /\ e(k) - e(k - 1) \in 1 .. size
  BY <1>1, ChunkEnds, Zenon
<1>3. s = [k \in 1 .. m |-> SubSeq(data, (k - 1) * size + 1, e(k))]
  BY Zenon DEF Chunks, CountOfChunks, EndOfChunk, n
<1>. HIDE DEF m, s, e
<1>4. \A k \in 0 .. m : e(k) \in 0 .. n
  <2>. TAKE k \in 0 .. m
  <2>1. k = 0 \/ k \in 1 .. m
    BY <1>2
  <2>. QED  BY <1>1, <1>2, <2>1
<1>5. \A k \in 1 .. m : e(k - 1) \in 0 .. n /\ e(k - 1) < e(k)
                        /\ s[k] = SubSeq(data, e(k - 1) + 1, e(k))
  <2>. TAKE k \in 1 .. m
  <2>1. s[k] = SubSeq(data, (k - 1) * size + 1, e(k))
    BY <1>3, Zenon
  <2>2. s[k] = SubSeq(data, e(k - 1) + 1, e(k))
    BY <1>2, <2>1, Zenon
  <2>3. k - 1 \in 0 .. m
    BY <1>2
  <2>4. e(k - 1) \in 0 .. n /\ e(k) \in 0 .. n /\ e(k) - e(k - 1) \in 1 .. size
    BY <1>2, <1>4, <2>3
  <2>. QED  BY <1>1, <2>2, <2>4
<1>6. ASSUME NEW k \in 1 .. m
      PROVE  s[k] \in Seq(S) /\ Len(s[k]) \in 1 .. size
  <2>. DEFINE a == e(k - 1) + 1
              b == e(k)
  <2>1. a \in Int /\ b \in Int /\ a <= b /\ 1 <= a /\ b <= n /\ b - a + 1 \in 1 .. size
    <3>1. e(k - 1) \in 0 .. n /\ e(k - 1) < e(k)
      BY <1>5
    <3>2. e(k) \in 0 .. n /\ e(k) - e(k - 1) \in 1 .. size
      BY <1>2
    <3>. QED  BY <1>1, <3>1, <3>2
  <2>2. s[k] = SubSeq(data, a, b)
    BY <1>5
  <2>. HIDE DEF a, b
  <2>3. \A i \in a .. b : data[i] \in S
    BY <1>1, <2>1
  <2>4. SubSeq(data, a, b) \in Seq(S) /\ Len(SubSeq(data, a, b)) = b - a + 1
    BY <2>1, <2>3, SubSeqProperties
  <2>. QED  BY <2>1, <2>2, <2>4
<1>7. s \in Seq(Seq(S)) /\ Len(s) = m /\ DOMAIN s = 1 .. m
  <2>1. DOMAIN s = 1 .. m /\ s = [k \in 1 .. m |-> s[k]]
    BY <1>3
  <2>2. \A k \in 1 .. m : s[k] \in Seq(S)
    BY <1>6
  <2>3. s \in [1 .. m -> Seq(S)]
    BY <2>1, <2>2, Zenon
  <2>. QED  BY <1>2, <2>1, <2>3
<1>8. PICK P : Builds(P, s, S) /\ FlattenSeq(s) = P[Len(s)]
  BY <1>7, FlattenBuilt
<1>9. \A k \in 0 .. m : P[k] = SubSeq(data, 1, e(k))
  <2>. DEFINE Q == {k \in Nat : k <= m => P[k] = SubSeq(data, 1, e(k))}
  <2>1. 0 \in Q
    <3>1. P[0] = << >>
      BY <1>8 DEF Builds
    <3>2. SubSeq(data, 1, 0) = << >>
      BY SubSeqEmpty
    <3>. QED  BY <1>2, <3>1, <3>2
  <2>2. ASSUME NEW k \in Nat, k \in Q PROVE k + 1 \in Q
    <3>. SUFFICES ASSUME k + 1 <= m PROVE P[k + 1] = SubSeq(data, 1, e(k + 1))
      OBVIOUS
    <3>1. k \in 0 .. Len(s) - 1 /\ k <= m /\ k + 1 \in 1 .. m /\ k \in 0 .. m
      BY <1>2, <1>7
    <3>2. P[k + 1] = P[k] \o s[k + 1]
      BY <1>7, <1>8, <3>1, BuiltStep
    <3>3. P[k] = SubSeq(data, 1, e(k))
      BY <2>2, <3>1
    <3>4. s[k + 1] = SubSeq(data, e(k) + 1, e(k + 1)) /\ e(k) < e(k + 1)
      <4>1. PICK j \in 1 .. m : j = k + 1
        BY <3>1
      <4>2. j - 1 = k
        BY <4>1
      <4>3. s[j] = SubSeq(data, e(j - 1) + 1, e(j)) /\ e(j - 1) < e(j)
        BY <1>5
      <4>. QED  BY <4>1, <4>2, <4>3, Zenon
    <3>. DEFINE a == e(k)
                b == e(k + 1)
    <3>5. a \in 0 .. n /\ b \in a .. n
      BY <1>1, <1>4, <3>1, <3>4
    <3>. HIDE DEF a, b
    <3>6. SubSeq(data, 1, a) \o SubSeq(data, a + 1, b) = SubSeq(data, 1, b)
      <4>1. 1 \in 1 .. Len(data) + 1 /\ a \in 1 - 1 .. Len(data) /\ b \in a .. Len(data)
        BY <1>1, <3>5 DEF n
      <4>. QED  BY <4>1, ConcatAdjacentSubSeq
    <3>. QED  BY <3>2, <3>3, <3>4, <3>6, Zenon DEF a, b
  <2>. HIDE DEF Q
  <2>3. Q \in SUBSET Nat
    BY DEF Q
  <2>4. \A k \in Nat : k \in Q
    BY <2>1, <2>2, <2>3, Induction
  <2>. QED  BY <1>2, <2>4 DEF Q
<1>10. P[m] = data
  <2>1. m \in 0 .. m
    BY <1>2
  <2>2. P[m] = SubSeq(data, 1, n)
    BY <1>2, <1>9, <2>1, Zenon
  <2>. QED  BY <2>2, SubSeqFull DEF n
<1>11. FlattenSeq(s) = data
  BY <1>7, <1>8, <1>10, Zenon
<1>12. \A k \in DOMAIN s : Len(s[k]) \in 1 .. size
  BY <1>6, <1>7, Zenon
<1>. QED  BY <1>11, <1>12, Zenon DEF s

-----------------------------------------------------------------------------
(* Combinations                                                             *)

\* The count is the function that its equation describes.
LEMMA CountUpToDef ==
    ASSUME NEW arrays, NEW n \in Nat, Len(arrays) = n, \A d \in 1 .. n : Len(arrays[d]) \in Nat
    PROVE  /\ \A d \in 0 .. n : CountUpTo(arrays, d) \in Nat
           /\ CountUpTo(arrays, 0) = 1
           /\ \A d \in 1 .. n : CountUpTo(arrays, d) = CountUpTo(arrays, d - 1) * Len(arrays[d])
<1>. DEFINE D == 0 .. n
            Base == {0}
            mu == [i \in D |-> i]
            p == [i \in D \ Base |-> i - 1]
            b == [i \in Base |-> 1]
            g == [x \in (D \ Base) \X Nat |-> x[2] * Len(arrays[x[1]])]
<1>1. /\ Base \in SUBSET D /\ mu \in [D -> Nat] /\ p \in [D \ Base -> D]
      /\ \A i \in D \ Base : mu[p[i]] < mu[i]
      /\ b \in [Base -> Nat]
  OBVIOUS
<1>2. g \in [(D \ Base) \X Nat -> Nat]
  <2>1. \A i \in D \ Base : Len(arrays[i]) \in Nat
    OBVIOUS
  <2>2. \A v \in Nat, i \in D \ Base : v * Len(arrays[i]) \in Nat
    BY <2>1
  <2>. HIDE DEF D, Base
  <2>. QED  BY <2>2
<1>3. IsRecursion(D, Nat, Base, mu, p, b, g)
  <2>. HIDE DEF D, Base, mu, p, b, g
  <2>. QED  BY <1>1, <1>2 DEF IsRecursion
<1>4. PICK h : Solves(h, D, Nat, Base, p, b, g)
  BY <1>3, Recursion, Zenon
<1>5. h \in [D -> Nat] /\ \A i \in D : h[i] = IF i \in Base THEN b[i] ELSE g[<<i, h[p[i]]>>]
  BY <1>4 DEF Solves
<1>6. \A i \in D : h[i] = IF i = 0 THEN 1 ELSE h[i - 1] * Len(arrays[i])
  <2>. TAKE i \in D
  <2>1. CASE i = 0
    <3>1. i \in Base /\ b[i] = 1
      BY <2>1
    <3>. HIDE DEF D, Base, b
    <3>. QED  BY <1>5, <2>1, <3>1
  <2>2. CASE i # 0
    <3>1. i \in D \ Base /\ p[i] = i - 1 /\ i - 1 \in D
      BY <2>2
    <3>2. <<i, h[p[i]]>> \in (D \ Base) \X Nat
      BY <1>5, <3>1
    <3>3. g[<<i, h[p[i]]>>] = h[p[i]] * Len(arrays[i])
      BY <3>2
    <3>. HIDE DEF D, Base, p, g
    <3>. QED  BY <1>5, <2>2, <3>1, <3>3
  <2>. QED  BY <2>1, <2>2
<1>. DEFINE f == CHOOSE f : f = [k \in 0 .. Len(arrays) |->
                                    IF k = 0 THEN 1 ELSE f[k - 1] * Len(arrays[k])]
<1>7. h = [k \in 0 .. Len(arrays) |-> IF k = 0 THEN 1 ELSE h[k - 1] * Len(arrays[k])]
  BY <1>5, <1>6, Zenon
<1>8. f = [k \in 0 .. Len(arrays) |-> IF k = 0 THEN 1 ELSE f[k - 1] * Len(arrays[k])]
  BY <1>7, Zenon
<1>9. \A d : CountUpTo(arrays, d) = f[d]
  BY Zenon DEF CountUpTo
<1>. HIDE DEF f, b, g, p, mu, Base
<1>10. \A k \in 0 .. n : f[k] = IF k = 0 THEN 1 ELSE f[k - 1] * Len(arrays[k])
  BY <1>8, Zenon
<1>11. f[0] = 1
  <2>1. 0 \in 0 .. n
    OBVIOUS
  <2>. QED  BY <1>10, <2>1, Zenon
<1>12. \A k \in 1 .. n : f[k] = f[k - 1] * Len(arrays[k])
  <2>1. \A k \in 1 .. n : k \in 0 .. n /\ k # 0
    OBVIOUS
  <2>. QED  BY <1>10, <2>1, Zenon
<1>13. \A k \in Nat : k <= n => f[k] \in Nat
  <2>. DEFINE Q == {k \in Nat : k <= n => f[k] \in Nat}
  <2>1. 0 \in Q
    BY <1>11
  <2>2. ASSUME NEW k \in Nat, k \in Q PROVE k + 1 \in Q
    <3>. SUFFICES ASSUME k + 1 <= n PROVE f[k + 1] \in Nat
      OBVIOUS
    <3>1. PICK j \in 1 .. n : j = k + 1
      OBVIOUS
    <3>2. f[j] = f[j - 1] * Len(arrays[j]) /\ j - 1 = k /\ Len(arrays[j]) \in Nat
      BY <1>12, <3>1
    <3>3. f[k] \in Nat
      BY <2>2
    <3>. QED  BY <3>1, <3>2, <3>3
  <2>3. Q \in SUBSET Nat
    OBVIOUS
  <2>. HIDE DEF Q
  <2>4. \A k \in Nat : k \in Q
    BY <2>1, <2>2, <2>3, Induction
  <2>. QED  BY <2>4 DEF Q
<1>14. \A k \in 0 .. n : f[k] \in Nat
  BY <1>13
<1>. QED  BY <1>9, <1>11, <1>12, <1>14, Zenon

\* The items of the product are the combinations of one element of each array, each
\* of them once.
LEMMA CombineFacts ==
    ASSUME NEW arrays, NEW n \in Nat, Len(arrays) = n, DOMAIN arrays = 1 .. n,
           \A d \in 1 .. n : arrays[d] \in Seq(Range(arrays[d])) /\ IsInjective(arrays[d]),
           NEW meant,
           \A c : c \in meant <=> /\ c = [d \in 1 .. n |-> c[d]]
                                  /\ \A d \in 1 .. n : c[d] \in Range(arrays[d])
    PROVE  Range(Combine(arrays)) = meant /\ Len(Combine(arrays)) = Cardinality(meant)
<1>. DEFINE L == [d \in 1 .. n |-> Len(arrays[d])]
            C == [d \in 0 .. n |-> CountUpTo(arrays, d)]
            N == C[n]
            result == Combine(arrays)
<1>1. /\ \A d \in 1 .. n : /\ Len(arrays[d]) \in Nat /\ DOMAIN arrays[d] = 1 .. Len(arrays[d])
                           /\ L[d] = Len(arrays[d]) /\ L[d] \in Nat
      /\ L = [d \in 1 .. n |-> L[d]]
  BY LenProperties
<1>2. /\ C \in [0 .. n -> Nat] /\ C[0] = 1
      /\ \A d \in 1 .. n : C[d] = C[d - 1] * L[d]
      /\ \A d \in 0 .. n : C[d] = CountUpTo(arrays, d)
  <2>1. /\ \A d \in 0 .. n : CountUpTo(arrays, d) \in Nat
        /\ CountUpTo(arrays, 0) = 1
        /\ \A d \in 1 .. n : CountUpTo(arrays, d) = CountUpTo(arrays, d - 1) * Len(arrays[d])
    BY <1>1, CountUpToDef
  <2>2. \A d \in 0 .. n : C[d] = CountUpTo(arrays, d)
    OBVIOUS
  <2>3. C \in [0 .. n -> Nat]
    BY <2>1
  <2>4. 0 \in 0 .. n /\ \A d \in 1 .. n : d \in 0 .. n /\ d - 1 \in 0 .. n
    OBVIOUS
  <2>. HIDE DEF C, L
  <2>5. \A d \in 1 .. n : C[d] = C[d - 1] * L[d]
    BY <1>1, <2>1, <2>2, <2>4, Zenon
  <2>. QED  BY <2>1, <2>2, <2>3, <2>4, <2>5, Zenon
<1>3. result = [i \in 1 .. N |-> [d \in 1 .. n |-> arrays[d][Digit(C, L, i - 1, d) + 1]]]
  <2>1. n \in 0 .. n /\ \A d \in 1 .. n : d - 1 \in 0 .. n
    OBVIOUS
  <2>. HIDE DEF C, L
  <2>2. N = CountUpTo(arrays, Len(arrays))
    BY <1>2, <2>1
  <2>3. \A i, d : d \in 1 .. n =>
           Digit(C, L, i - 1, d) = ((i - 1) \div CountUpTo(arrays, d - 1)) % Len(arrays[d])
    BY <1>1, <1>2, <2>1, Zenon DEF Digit
  <2>4. result = [i \in 1 .. N |-> [d \in 1 .. n |->
            arrays[d][(((i - 1) \div CountUpTo(arrays, d - 1)) % Len(arrays[d])) + 1]]]
    BY <2>2, Zenon DEF Combine
  <2>. HIDE DEF N, result
  <2>5. \A i : [d \in 1 .. n |-> arrays[d][Digit(C, L, i - 1, d) + 1]]
              = [d \in 1 .. n |->
                  arrays[d][(((i - 1) \div CountUpTo(arrays, d - 1)) % Len(arrays[d])) + 1]]
    BY <2>3, Zenon
  <2>. QED  BY <2>4, <2>5, Zenon
<1>4. N \in Nat
  <2>1. n \in 0 .. n
    OBVIOUS
  <2>. HIDE DEF C
  <2>. QED  BY <1>2, <2>1
<1>5. Len(result) = N /\ DOMAIN result = 1 .. N
  <2>. HIDE DEF N, C, L, result
  <2>1. DOMAIN result = 1 .. N
    BY <1>3
  <2>2. PICK S : result \in [1 .. N -> S]
    <3>1. result \in [1 .. N -> {result[i] : i \in 1 .. N}]
      BY <1>3
    <3>. QED  BY <3>1
  <2>. QED  BY <1>4, <2>1, <2>2
<1>. HIDE DEF result
<1>6. CASE \E d \in 1 .. n : L[d] = 0
  <2>1. N = 0
    <3>1. PICK d \in 1 .. n : L[d] = 0
      BY <1>6
    <3>. DEFINE Q == {k \in Nat : k <= n /\ k >= d => C[k] = 0}
    <3>2. 0 \in Q
      OBVIOUS
    <3>. HIDE DEF C, L
    <3>3. ASSUME NEW k \in Nat, k \in Q PROVE k + 1 \in Q
      <4>. SUFFICES ASSUME k + 1 <= n, k + 1 >= d PROVE C[k + 1] = 0
        OBVIOUS
      <4>1. PICK j \in 1 .. n : j = k + 1
        OBVIOUS
      <4>2. j - 1 = k /\ k \in 0 .. n
        BY <4>1
      <4>3. C[j] = C[k] * L[j] /\ L[j] \in Nat /\ C[k] \in Nat
        BY <1>1, <1>2, <4>2
      <4>4. CASE j = d
        <5>1. L[j] = 0
          BY <3>1, <4>4
        <5>. QED  BY <4>1, <4>3, <5>1
      <4>5. CASE j # d
        <5>1. C[k] = 0
          BY <3>3, <4>1, <4>5
        <5>. QED  BY <4>1, <4>3, <5>1
      <4>. QED  BY <4>4, <4>5
    <3>4. Q \in SUBSET Nat
      OBVIOUS
    <3>. HIDE DEF Q
    <3>5. n \in Q
      BY <3>2, <3>3, <3>4, Induction
    <3>. QED  BY <3>5 DEF Q
  <2>2. meant = {}
    <3>1. PICK d \in 1 .. n : L[d] = 0
      BY <1>6
    <3>2. DOMAIN arrays[d] = 1 .. 0
      BY <1>1, <3>1
    <3>3. Range(arrays[d]) = {}
      BY <3>2 DEF Range
    <3>. QED  BY <3>3
  <2>. HIDE DEF N, C, L
  <2>3. Range(result) = {}
    BY <1>5, <2>1 DEF Range
  <2>. QED  BY <1>5, <2>1, <2>2, <2>3, FS_EmptySet DEF result
<1>7. CASE \A d \in 1 .. n : L[d] # 0
  <2>1. Radix(C, L, n)
    <3>1. L \in [1 .. n -> Nat \ {0}]
      <4>. HIDE DEF L
      <4>. QED  BY <1>1, <1>7
    <3>. HIDE DEF C, L
    <3>. QED  BY <1>2, <3>1 DEF Radix
  <2>. HIDE DEF N, C, L
  <2>2. \A i \in Nat, d \in 1 .. n : Digit(C, L, i, d) \in Nat /\ Digit(C, L, i, d) < L[d]
    <3>. TAKE i \in Nat, d \in 1 .. n
    <3>. DEFINE c == C[d - 1]
                l == L[d]
    <3>1. d - 1 \in 0 .. n
      OBVIOUS
    <3>2. c \in Nat \ {0} /\ l \in Nat \ {0}
      BY <2>1, <3>1, RadixPositive DEF Radix
    <3>. HIDE DEF c, l
    <3>3. (i \div c) % l \in Nat /\ (i \div c) % l < l
      BY <3>2
    <3>. QED  BY <3>3, Zenon DEF Digit, c, l
  <2>3. \A i \in 1 .. N, d \in 1 .. n :
           /\ i - 1 \in Nat /\ i - 1 < C[n]
           /\ Digit(C, L, i - 1, d) + 1 \in DOMAIN arrays[d]
           /\ result[i][d] = arrays[d][Digit(C, L, i - 1, d) + 1]
    <3>. TAKE i \in 1 .. N, d \in 1 .. n
    <3>1. i - 1 \in Nat /\ i - 1 < N
      BY <1>4
    <3>2. result[i][d] = arrays[d][Digit(C, L, i - 1, d) + 1]
      BY <1>3, Zenon
    <3>3. Digit(C, L, i - 1, d) + 1 \in 1 .. L[d]
      BY <1>1, <2>2, <3>1
    <3>4. DOMAIN arrays[d] = 1 .. L[d]
      BY <1>1
    <3>. QED  BY <3>1, <3>2, <3>3, <3>4, Zenon DEF N
  <2>4. ASSUME NEW i \in 1 .. N PROVE result[i] \in meant
    <3>1. result[i] = [d \in 1 .. n |-> arrays[d][Digit(C, L, i - 1, d) + 1]]
      BY <1>3, Zenon
    <3>2. result[i] = [d \in 1 .. n |-> result[i][d]]
      BY <3>1
    <3>3. \A d \in 1 .. n : result[i][d] \in Range(arrays[d])
      BY <2>3, Zenon DEF Range
    <3>. QED  BY <3>2, <3>3, Zenon
  <2>5. ASSUME NEW c \in meant PROVE \E i \in 1 .. N : result[i] = c
    <3>1. c = [d \in 1 .. n |-> c[d]] /\ \A d \in 1 .. n : c[d] \in Range(arrays[d])
      OBVIOUS
    <3>2. \A d \in 1 .. n : \E v \in Nat : v < L[d] /\ arrays[d][v + 1] = c[d]
      <4>. TAKE d \in 1 .. n
      <4>1. PICK v \in DOMAIN arrays[d] : arrays[d][v] = c[d]
        BY <3>1, Zenon DEF Range
      <4>2. v \in 1 .. L[d] /\ L[d] \in Nat
        BY <1>1
      <4>3. v - 1 \in Nat /\ v - 1 < L[d] /\ v - 1 + 1 = v
        BY <4>2
      <4>. QED  BY <4>1, <4>3, Zenon
    <3>. DEFINE g == [d \in 1 .. n |-> CHOOSE v \in Nat : v < L[d] /\ arrays[d][v + 1] = c[d]]
    <3>3. \A d \in 1 .. n : g[d] \in Nat /\ g[d] < L[d] /\ arrays[d][g[d] + 1] = c[d]
      BY <3>2, Zenon
    <3>4. g \in [1 .. n -> Nat]
      <4>1. g = [d \in 1 .. n |-> g[d]]
        OBVIOUS
      <4>. HIDE DEF g
      <4>. QED  BY <3>3, <4>1
    <3>. HIDE DEF g
    <3>5. PICK i \in Nat : i < C[n] /\ Same(C, L, i, g, n)
      BY <2>1, <3>3, <3>4, DigitsReach
    <3>6. PICK j \in 1 .. N : j = i + 1
      BY <1>4, <3>5 DEF N
    <3>7. j - 1 = i
      BY <3>6
    <3>8. \A d \in 1 .. n : Digit(C, L, j - 1, d) = g[d]
      BY <3>5, <3>7, Zenon DEF Same
    <3>9. \A d \in 1 .. n : result[j][d] = c[d]
      BY <2>3, <3>3, <3>8, Zenon
    <3>10. result[j] = [d \in 1 .. n |-> result[j][d]]
      BY <2>4, Zenon
    <3>11. result[j] = c
      BY <3>1, <3>9, <3>10, Zenon
    <3>. QED  BY <3>11
  <2>6. ASSUME NEW i \in 1 .. N, NEW j \in 1 .. N, result[i] = result[j] PROVE i = j
    <3>1. ASSUME NEW d \in 1 .. n PROVE Digit(C, L, i - 1, d) = Digit(C, L, j - 1, d)
      <4>. DEFINE x == Digit(C, L, i - 1, d)
                  y == Digit(C, L, j - 1, d)
      <4>1. arrays[d][x + 1] = arrays[d][y + 1]
        <5>1. result[i][d] = arrays[d][x + 1]
          BY <2>3, Zenon
        <5>2. result[j][d] = arrays[d][y + 1]
          BY <2>3, Zenon
        <5>. HIDE DEF x, y
        <5>. QED  BY <2>6, <5>1, <5>2, Zenon
      <4>2. x + 1 \in DOMAIN arrays[d] /\ y + 1 \in DOMAIN arrays[d]
        BY <2>3
      <4>3. x + 1 = y + 1
        BY <4>1, <4>2, Zenon DEF IsInjective
      <4>4. x \in Nat /\ y \in Nat
        <5>1. i - 1 \in Nat /\ j - 1 \in Nat
          BY <1>4
        <5>. QED  BY <2>2, <5>1
      <4>. HIDE DEF x, y
      <4>5. x = y
        BY <4>3, <4>4
      <4>. QED  BY <4>5 DEF x, y
    <3>2. i - 1 \in Nat /\ j - 1 \in Nat /\ i - 1 < C[n] /\ j - 1 < C[n]
      BY <1>4 DEF N
    <3>3. i - 1 = j - 1
      <4>. DEFINE x == i - 1
                  y == j - 1
      <4>1. x \in Nat /\ y \in Nat /\ x < C[n] /\ y < C[n]
        BY <3>2
      <4>2. \A d \in 1 .. n : Digit(C, L, x, d) = Digit(C, L, y, d)
        BY <3>1
      <4>. HIDE DEF x, y
      <4>3. x = y
        BY <2>1, <4>1, <4>2, DigitsTell
      <4>. QED  BY <4>3 DEF x, y
    <3>. QED  BY <1>4, <3>3
  <2>7. Range(result) = meant
    BY <1>5, <2>4, <2>5 DEF Range
  <2>8. Cardinality(meant) = N
    <3>1. result \in Bijection(1 .. N, meant)
      <4>1. result = [i \in 1 .. N |-> result[i]]
        BY <1>3
      <4>2. result \in [1 .. N -> meant]
        BY <2>4, <4>1, Zenon
      <4>3. result \in Injection(1 .. N, meant)
        BY <2>6, <4>2, Zenon DEF Injection, IsInjective
      <4>4. result \in Surjection(1 .. N, meant)
        BY <2>5, <4>2, Zenon DEF Surjection
      <4>. QED  BY <4>3, <4>4 DEF Bijection
    <3>2. ExistsBijection(1 .. N, meant)
      BY <3>1 DEF ExistsBijection
    <3>. QED  BY <1>4, <3>2, FS_CountingElements
  <2>. QED  BY <1>5, <2>7, <2>8 DEF result
<1>. QED  BY <1>6, <1>7

-----------------------------------------------------------------------------
(* Theorems about Library                                                   *)

\* The call that is looked at is one of the calls.
LEMMA CallTyped == LibrarySpec => [](call \in Calls \union {NoCall})
<1>1. LibraryInit => call \in Calls \union {NoCall}
  BY DEF LibraryInit
<1>2. call \in Calls \union {NoCall} /\ [LibraryNext]_<<items, call>>
      => (call \in Calls \union {NoCall})'
  BY DEF LibraryNext, RepositoryStep, FunctionCall
<1>. QED  BY <1>1, <1>2, PTL DEF LibrarySpec

\* A call of a function satisfies what is assumed of its calls.
LEMMA CalledFacts ==
    ASSUME call \in Calls \union {NoCall}, NEW function, Called(function)
    PROVE  call \in CallsOf(function)
BY DEF Called, CallsOf

\* A list of ranges is read as the ports that it names, each of them once, however they
\* overlap (ports of config.parsers.mjs).
THEOREM PortsRead == LibrarySpec => []PortsMeant
<1>1. ASSUME call \in Calls \union {NoCall} PROVE PortsMeant
  <2>. SUFFICES ASSUME Called("ports"), \A r \in Range(call.text) : IsRange(r)
                PROVE  LET named == UNION {Named(r) : r \in Range(call.text)}
                           result == Ports(call.text)
                       IN  IF result = Throws
                           THEN \E r \in Range(call.text) : Named(r) = {} /\ Len(r) = 3
                           ELSE IF named = {} THEN result = Undefined
                           ELSE Range(result) = named /\ Len(result) = Cardinality(named)
    BY Zenon DEF PortsMeant
  <2>. DEFINE t == call.text
  <2>1. t \in Seq(Seq(Token))
    BY <1>1, CalledFacts, CallsAssumption
  <2>2. \A r \in Range(t) : IsRange(r)
    OBVIOUS
  <2>. HIDE DEF t
  <2>3. LET named == UNION {Named(r) : r \in Range(t)}
            result == Ports(t)
        IN  /\ named \in SUBSET Nat /\ IsFiniteSet(named)
            /\ IF result = Throws
               THEN \E r \in Range(t) : Named(r) = {} /\ Len(r) = 3
               ELSE IF named = {} THEN result = Undefined
               ELSE /\ result \in Seq(Nat)
                    /\ Range(result) = named /\ Len(result) = Cardinality(named)
    BY <2>1, <2>2, PortsOfRanges
  <2>. QED  BY <2>3, Zenon DEF t
<1>. QED  BY <1>1, CallTyped, PTL

\* If the ranges name ports that can be bound, then what is read is one of the lists that
\* NorayLifecycle starts with (PortListsAssumption), and no port is bound twice because
\* it came twice (ports of config.parsers.mjs, the loop of relay.mjs).
THEOREM PortsCanBeBound ==
    ASSUME NEW t \in Seq(Seq(Token)),
           \A r \in Range(t) : IsRange(r) /\ Named(r) \subseteq Port \union {0},
           Ports(t) \notin {Throws, Undefined}
    PROVE  /\ Ports(t) \in Seq(Port \union {0})
           /\ IsInjective(Ports(t))
<1>. DEFINE named == UNION {Named(r) : r \in Range(t)}
            result == Ports(t)
            n == Len(result)
<1>1. /\ IsFiniteSet(named)
      /\ result \in Seq(Nat)
      /\ Range(result) = named /\ n = Cardinality(named)
  BY PortsOfRanges, Zenon
<1>2. named \subseteq Port \union {0}
  OBVIOUS
<1>. HIDE DEF named, result
<1>3. n \in Nat /\ DOMAIN result = 1 .. n /\ result \in [1 .. n -> Nat]
  BY <1>1, LenProperties
<1>4. \A i \in 1 .. n : result[i] \in named
  BY <1>1, <1>3 DEF Range
<1>5. result \in Seq(Port \union {0})
  BY <1>2, <1>3, <1>4, SeqDef
<1>6. \A y \in named : \E i \in 1 .. n : result[i] = y
  BY <1>1, <1>3 DEF Range
<1>7. result \in Surjection(1 .. n, named)
  BY <1>3, <1>4, <1>6 DEF Surjection
<1>8. IsFiniteSet(1 .. n) /\ Cardinality(1 .. n) = n
  <2>1. ASSUME NEW k \in Nat PROVE IsFiniteSet(1 .. k) /\ Cardinality(1 .. k) = k
    BY FS_Interval
  <2>. QED  BY <1>3, <2>1
<1>9. result \in Injection(1 .. n, named)
  <2>. HIDE DEF n
  <2>1. Cardinality(1 .. n) = Cardinality(named)
    BY <1>1, <1>8
  <2>. QED  BY <2>1, <1>7, <1>8, FS_SurjSameCardinalityImpliesInj, Zenon
<1>10. IsInjective(result)
  BY <1>3, <1>9 DEF Injection, IsInjective
<1>. QED  BY <1>5, <1>10 DEF result

\* A size of any magnitude that formatByteSize shows is read by byteSize as that size.
THEOREM SizesRead == LibrarySpec => []SizesRoundTrip
<1>1. ASSUME call \in Calls \union {NoCall} PROVE SizesRoundTrip
  <2>. SUFFICES ASSUME Called("formatByteSize")
                PROVE  LET shown == FormatByteSize(call.size)
                           read == SizeIn(shown.number, shown.unit)
                       IN  /\ read # Throws /\ read = Ratio(call.size, 1)
                           /\ shown.unit # "Yb" => shown.number.n < Kilo * shown.number.d
                           /\ shown.unit # "b" => shown.number.n >= shown.number.d
    BY Zenon DEF SizesRoundTrip
  <2>1. call.size \in Nat
    BY <1>1, CalledFacts, CallsAssumption
  <2>. QED  BY <2>1, SizeShownAndRead, Zenon
<1>. QED  BY <1>1, CallTyped, PTL

\* Any duration that formatDuration shows is refused by duration or read as the same.
THEOREM DurationsRead == LibrarySpec => []DurationsAgree
<1>1. ASSUME call \in Calls \union {NoCall} PROVE DurationsAgree
  <2>. SUFFICES ASSUME Called("formatDuration")
                PROVE  LET shown == FormatDuration(call.seconds)
                           read == DurationIn(shown.number, shown.unit)
                       IN  read = Throws \/ read = call.seconds
    BY Zenon DEF DurationsAgree
  <2>1. /\ call.seconds \in [n : Nat, d : Nat \ {0}]
        /\ Gcd[<< call.seconds.n, call.seconds.d >>] = 1
    BY <1>1, CalledFacts, CallsAssumption
  <2>. QED  BY <2>1, DurationShownAndRead, Zenon
<1>. QED  BY <1>1, CallTyped, PTL

\* chunks and combine lose and repeat no element, for arrays of any lengths.
THEOREM ArraysKept == LibrarySpec => []NothingLost
<1>1. ASSUME call \in Calls \union {NoCall} PROVE NothingLost
  <2>1. ASSUME Called("chunks")
        PROVE  /\ FlattenSeq(Chunks(call.data, call.size)) = call.data
               /\ \A k \in DOMAIN Chunks(call.data, call.size) :
                     Len(Chunks(call.data, call.size)[k]) \in 1..call.size
    <3>1. call.data \in Seq(Range(call.data)) /\ call.size \in Nat \ {0}
      BY <1>1, <2>1, CalledFacts, CallsAssumption
    <3>. QED  BY <3>1, ChunksFacts, Zenon
  <2>2. ASSUME Called("combine")
        PROVE  LET all == [DOMAIN call.arrays -> UNION {Range(a) : a \in Range(call.arrays)}]
                   meant == {c \in all : \A d \in DOMAIN c : c[d] \in Range(call.arrays[d])}
                   result == Combine(call.arrays)
               IN  Range(result) = meant /\ Len(result) = Cardinality(meant)
    <3>. DEFINE arrays == call.arrays
                n == Len(arrays)
                all == [DOMAIN arrays -> UNION {Range(a) : a \in Range(arrays)}]
                meant == {c \in all : \A d \in DOMAIN c : c[d] \in Range(arrays[d])}
    <3>1. /\ arrays \in Seq(Range(arrays))
          /\ \A a \in Range(arrays) : a \in Seq(Range(a)) /\ IsInjective(a)
      <4>1. call \in CallsOf("combine")
        BY <1>1, <2>2, CalledFacts
      <4>. QED  BY <4>1, CallsAssumption, Zenon
    <3>. HIDE DEF arrays
    <3>2. n \in Nat /\ DOMAIN arrays = 1 .. n
      BY <3>1, LenProperties
    <3>. HIDE DEF n
    <3>3. \A d \in 1 .. n : arrays[d] \in Range(arrays)
      BY <3>2, Zenon DEF Range
    <3>4. \A d \in 1 .. n : arrays[d] \in Seq(Range(arrays[d])) /\ IsInjective(arrays[d])
      BY <3>1, <3>3, Zenon
    <3>5. ASSUME NEW c
          PROVE  c \in meant <=> /\ c = [d \in 1 .. n |-> c[d]]
                                 /\ \A d \in 1 .. n : c[d] \in Range(arrays[d])
      <4>1. ASSUME c = [d \in 1 .. n |-> c[d]], \A d \in 1 .. n : c[d] \in Range(arrays[d])
            PROVE  c \in meant
        <5>1. DOMAIN c = 1 .. n
          BY <4>1
        <5>2. \A d \in 1 .. n : c[d] \in UNION {Range(a) : a \in Range(arrays)}
          BY <4>1, <3>3
        <5>3. c \in all
          BY <3>2, <4>1, <5>2, Zenon
        <5>. QED  BY <4>1, <5>1, <5>3
      <4>2. ASSUME c \in meant
            PROVE  c = [d \in 1 .. n |-> c[d]] /\ \A d \in 1 .. n : c[d] \in Range(arrays[d])
        <5>1. c \in all /\ \A d \in DOMAIN c : c[d] \in Range(arrays[d])
          BY <4>2
        <5>2. DOMAIN c = 1 .. n /\ c = [d \in DOMAIN c |-> c[d]]
          BY <3>2, <5>1
        <5>. QED  BY <5>1, <5>2, Zenon
      <4>. QED  BY <4>1, <4>2
    <3>. HIDE DEF meant
    <3>6. Range(Combine(arrays)) = meant /\ Len(Combine(arrays)) = Cardinality(meant)
      BY <3>2, <3>4, <3>5, CombineFacts DEF n
    <3>. QED  BY <3>6, Zenon DEF arrays, meant
  <2>. QED  BY <2>1, <2>2, Zenon DEF NothingLost
<1>. QED  BY <1>1, CallTyped, PTL

\* Ids of any number of words, and the names of relays and buffers for any addresses and
\* ports, tell apart what they name (generateWordId, RelayEntry.id, the key of a buffer).
THEOREM NamesTell == LibrarySpec => []NamesDistinct
<1>1. ASSUME call \in Calls \union {NoCall} PROVE NamesDistinct
  <2>1. ASSUME Called("generateWordId")
        PROVE  \A m \in 0..call.length : \A draw \in Draws(m), other \in Draws(call.length) :
                  WordId(draw) = WordId(other) => draw = other
    <3>. DEFINE n == call.length
    <3>1. n \in Nat
      BY <1>1, <2>1, CalledFacts, CallsAssumption
    <3>. HIDE DEF n
    <3>2. \A m \in 0..n : \A draw \in Draws(m), other \in Draws(n) :
             WordId(draw) = WordId(other) => draw = other
      <4>1. \A m \in 0 .. n : m \in Nat
        BY <3>1
      <4>. QED  BY <3>1, <4>1, WordIdInjective, Zenon
    <3>. QED  BY <3>2 DEF n
  <2>2. ASSUME Called("addresses")
        PROVE  LET a == FromRinfo(call.first)
                   b == FromRinfo(call.second)
               IN  \A p, q \in call.ports :
                      /\ EntryId(a, p) = EntryId(b, q) <=> Equals(a, b) /\ p = q
                      /\ BufferKey(a, p) = BufferKey(b, q) <=> Equals(a, b) /\ p = q
    <3>. DEFINE a == FromRinfo(call.first)
                b == FromRinfo(call.second)
                T == Range(call.first.address) \union Range(call.second.address)
    <3>1. /\ call.ports \subseteq Nat
          /\ call.first.address \in Seq(Range(call.first.address)) /\ call.first.port \in Nat
          /\ call.second.address \in Seq(Range(call.second.address)) /\ call.second.port \in Nat
      <4>1. call \in CallsOf("addresses")
        BY <1>1, <2>2, CalledFacts
      <4>. QED  BY <4>1, CallsAssumption, Zenon
    <3>2. call.first.address \in Seq(T) /\ call.second.address \in Seq(T)
      BY <3>1, SeqMonotonic
    <3>. HIDE DEF T
    <3>3. a \in AddressesOf(T) /\ b \in AddressesOf(T)
      BY <3>1, <3>2 DEF FromRinfo, AddressesOf
    <3>. HIDE DEF a, b
    <3>4. \A p, q \in call.ports :
             ToldApart(a, p, b, q, At) /\ ToldApart(a, p, b, q, Arrow)
      <4>. TAKE p \in call.ports, q \in call.ports
      <4>1. p \in Nat /\ q \in Nat
        BY <3>1
      <4>2. At \in {At, Arrow} /\ Arrow \in {At, Arrow}
        OBVIOUS
      <4>. QED  BY <3>3, <4>1, <4>2, NamesOfAddresses
    <3>5. \A p, q \in call.ports :
             /\ EntryId(a, p) = EntryId(b, q) <=> Equals(a, b) /\ p = q
             /\ BufferKey(a, p) = BufferKey(b, q) <=> Equals(a, b) /\ p = q
      BY <3>4, Zenon DEF EntryId, BufferKey, ToldApart
    <3>. QED  BY <3>5 DEF a, b
  <2>. QED  BY <2>1, <2>2, Zenon DEF NamesDistinct
<1>. QED  BY <1>1, CallTyped, PTL

-----------------------------------------------------------------------------
(* The stack of free ports                                                  *)

\* A port that is not on the stack can be pushed.
LEMMA PushFacts ==
    ASSUME NEW S, NEW s \in Seq(S), NEW p \in S,
           IsInjective(s), p \notin Range(s)
    PROVE  /\ Append(s, p) \in Seq(S)
           /\ IsInjective(Append(s, p))
           /\ Range(Append(s, p)) = Range(s) \union {p}
<1>1. /\ Len(s) \in Nat
      /\ DOMAIN s = 1 .. Len(s)
  BY LenProperties
<1>2. /\ Append(s, p) \in Seq(S)
      /\ DOMAIN Append(s, p) = 1 .. Len(s) + 1
      /\ Append(s, p)[Len(s) + 1] = p
      /\ \A i \in 1 .. Len(s) : Append(s, p)[i] = s[i]
  BY <1>1
<1>3. \A i \in 1 .. Len(s) : s[i] # p
  BY <1>1 DEF Range
<1>4. IsInjective(Append(s, p))
  BY <1>1, <1>2, <1>3 DEF IsInjective
<1>5. Range(Append(s, p)) \subseteq Range(s) \union {p}
  BY <1>1, <1>2 DEF Range
<1>6. Range(s) \subseteq Range(Append(s, p))
  BY <1>1, <1>2 DEF Range
<1>7. p \in Range(Append(s, p))
  BY <1>1, <1>2 DEF Range
<1>. QED  BY <1>2, <1>4, <1>5, <1>6, <1>7

\* A stack without repetition is one of the sequences of its elements.
LEMMA StackOfItsPorts ==
    ASSUME NEW S, NEW s \in Seq(S), IsInjective(s)
    PROVE  s \in SetToSeqs(Range(s))
<1>. DEFINE n == Len(s)
<1>1. /\ n \in Nat
      /\ DOMAIN s = 1 .. n
      /\ s \in [1 .. n -> Range(s)]
  <2>1. n \in Nat /\ DOMAIN s = 1 .. n /\ s \in [1 .. n -> S]
    BY LenProperties
  <2>. QED  BY <2>1 DEF Range
<1>2. \A i, j \in 1 .. n : i # j => s[i] # s[j]
  BY <1>1 DEF IsInjective
<1>3. \A y \in Range(s) : \E i \in 1 .. n : s[i] = y
  BY <1>1 DEF Range
<1>4. s \in Bijection(1 .. n, Range(s))
  BY <1>1, <1>2, <1>3 DEF Bijection, Injection, Surjection, IsInjective
<1>5. ExistsBijection(1 .. n, Range(s))
  BY <1>4 DEF ExistsBijection
<1>6. Cardinality(Range(s)) = n
  BY <1>1, <1>5, FS_CountingElements
<1>. QED  BY <1>1, <1>2, <1>6 DEF SetToSeqs

-----------------------------------------------------------------------------
(* The inductive invariant                                                  *)

\* The free ports are the bound ones: no relay exists yet.
PoolInd ==
    /\ IsInjective(freePorts)
    /\ Range(freePorts) = sockets

\* What each phase of start() has opened and installed.
PhaseInd ==
    /\ phase = "importing" => installed = {} /\ ~tcp /\ ~stopped
    /\ phase = "binding" =>
          /\ installed = HostHook \union ConnectionHook
          /\ timer /\ http /\ registrar \in {"binding", "bound", "failed"}
          /\ ~tcp /\ ~stopped
    /\ phase = "listening" => installed = Everything /\ toBind = << >>

\* Before the shutdown everything is open, after it nothing is.
ShutdownInd ==
    /\ tcp => timer /\ http /\ registrar # "closed"
    /\ ShutdownReleases

LifeInv == LifeTypeOK /\ PoolInd /\ PhaseInd /\ ShutdownInd

USE DEF PoolTypeOK, poolVars, startVars, openVars, endVars, lifeVars

LEMMA LifeInitInv == LifeInit => LifeInv
<1>. SUFFICES ASSUME LifeInit PROVE LifeInv
  OBVIOUS
<1>1. toBind \in Seq(Port \union {0})
  BY PortListsAssumption DEF LifeInit
<1>2. /\ freePorts \in Seq(Port) /\ sockets = {}
      /\ closers \in Seq({"metrics", "relay"})
  BY DEF LifeInit
<1>3. LifeTypeOK
  BY <1>1, <1>2 DEF LifeInit, LifeTypeOK, Everything, HostHook, ConnectionHook,
        Limits, UseDynamicRelay
<1>4. PoolInd
  BY DEF LifeInit, PoolInd, IsInjective, Range
<1>5. PhaseInd /\ ShutdownInd
  BY DEF LifeInit, PhaseInd, ShutdownInd, ShutdownReleases
<1>. QED  BY <1>3, <1>4, <1>5 DEF LifeInv

\* A bind pushes a port that was not bound before.
LEMMA AllocatePortInv ==
    ASSUME LifeTypeOK, PoolInd, NEW p \in Port \union {0}, AllocatePort(p)
    PROVE  PoolTypeOK' /\ PoolInd'
<1>1. CASE \E q \in Bindable(p) : AddSocket(q)
  <2>1. PICK q \in Bindable(p) : AddSocket(q)
    BY <1>1
  <2>2. q \in Port /\ q \notin sockets
    BY PortListsAssumption DEF Bindable
  <2>3. freePorts \in Seq(Port) /\ sockets \subseteq Port
    BY DEF LifeTypeOK
  <2>4. IsInjective(freePorts) /\ q \notin Range(freePorts)
    BY <2>2 DEF PoolInd
  <2>5. /\ Append(freePorts, q) \in Seq(Port)
        /\ IsInjective(Append(freePorts, q))
        /\ Range(Append(freePorts, q)) = Range(freePorts) \union {q}
    BY <2>2, <2>3, <2>4, PushFacts
  <2>. QED  BY <2>1, <2>2, <2>3, <2>5 DEF AddSocket, PoolInd
<1>2. CASE UNCHANGED <<sockets, freePorts>>
  BY <1>2 DEF LifeTypeOK, PoolInd, IsInjective, Range
<1>. QED  BY <1>1, <1>2 DEF AllocatePort

\* Both steps that bind a port.
LEMMA BindInv ==
    ASSUME LifeInv, BindNextPort \/ BindLastPort
    PROVE  LifeInv'
<1>1. toBind \in Seq(Port \union {0}) /\ toBind # << >> /\ phase = "binding"
  <2>1. toBind \in Seq(Port \union {0})
    BY DEF LifeInv, LifeTypeOK
  <2>2. (Len(toBind) > 1 \/ Len(toBind) = 1) /\ phase = "binding"
    BY DEF BindNextPort, BindLastPort
  <2>3. toBind # << >>
    BY <2>2, EmptySeq
  <2>. QED  BY <2>1, <2>2, <2>3
<1>2. Head(toBind) \in Port \union {0} /\ Tail(toBind) \in Seq(Port \union {0})
  BY <1>1, HeadTailProperties
<1>3. PoolTypeOK' /\ PoolInd'
  BY <1>2, AllocatePortInv DEF LifeInv, BindNextPort, BindLastPort
<1>4. CASE BindNextPort
  <2>1. LifeTypeOK'
    BY <1>2, <1>3, <1>4 DEF LifeInv, LifeTypeOK, BindNextPort
  <2>2. PhaseInd'
    BY <1>1, <1>4 DEF LifeInv, PhaseInd, BindNextPort
  <2>3. ShutdownInd'
    BY <1>1, <1>4 DEF LifeInv, PhaseInd, ShutdownInd, ShutdownReleases, BindNextPort
  <2>. QED  BY <1>3, <2>1, <2>2, <2>3 DEF LifeInv
<1>5. CASE BindLastPort
  <2>1. closers' \in Seq({"metrics", "relay"})
    <3>1. closers \in Seq({"metrics", "relay"})
      BY DEF LifeInv, LifeTypeOK
    <3>2. closers' = Append(closers, "relay")
      BY <1>5 DEF BindLastPort
    <3>. QED  BY <3>1, <3>2, AppendProperties
  <2>2. toBind' \in Seq(Port \union {0})
    BY <1>5, EmptySeq DEF BindLastPort
  <2>3. installed' = Everything
    BY <1>1, <1>5 DEF LifeInv, PhaseInd, BindLastPort, Everything, HostHook, ConnectionHook,
        Limits, UseDynamicRelay
  <2>4. LifeTypeOK'
    BY <1>3, <1>5, <2>1, <2>2, <2>3 DEF LifeInv, LifeTypeOK, BindLastPort
  <2>5. PhaseInd'
    BY <1>5, <2>3 DEF PhaseInd, BindLastPort
  <2>6. ShutdownInd'
    BY <1>1, <1>5 DEF LifeInv, PhaseInd, ShutdownInd, ShutdownReleases, BindLastPort
  <2>. QED  BY <1>3, <2>4, <2>5, <2>6 DEF LifeInv
<1>. QED  BY <1>4, <1>5

\* The shutdown closes what the invariant says is open, and nothing else can be.
LEMMA LifeShutdownInv ==
    ASSUME LifeInv, Shutdown
    PROVE  LifeInv'
<1>1. sockets' = {} /\ freePorts' = << >>
  BY DEF Shutdown, RelayCloses, ClearPool
<1>2. PoolTypeOK' /\ PoolInd'
  BY <1>1 DEF PoolInd, IsInjective, Range
<1>3. LifeTypeOK'
  BY <1>2 DEF LifeInv, LifeTypeOK, Shutdown, RelayCloses
<1>4. PhaseInd'
  BY DEF LifeInv, PhaseInd, Shutdown, RelayCloses
<1>5. ShutdownInd'
  BY <1>1 DEF ShutdownInd, ShutdownReleases, Shutdown, RelayCloses
<1>. QED  BY <1>2, <1>3, <1>4, <1>5 DEF LifeInv

\* The steps that leave the pool alone.
LEMMA LifeNextInv == LifeInv /\ [LifeNext]_lifeVars => LifeInv'
<1>. SUFFICES ASSUME LifeInv, [LifeNext]_lifeVars PROVE LifeInv'
  OBVIOUS
<1>. USE DEF LifeInv
<1>a. ASSUME UNCHANGED poolVars PROVE PoolTypeOK' /\ PoolInd'
  BY <1>a DEF LifeTypeOK, PoolInd, IsInjective, Range
<1>1. CASE LaunchHooks
  <2>1. closers' \in Seq({"metrics", "relay"})
    BY <1>1 DEF LaunchHooks
  <2>2. LifeTypeOK'
    BY <1>1, <1>a, <2>1
    DEF LifeTypeOK, LaunchHooks, MetricsHook, RelayHookBegins, Everything, HostHook, ConnectionHook,
        Limits, UseDynamicRelay
  <2>3. PhaseInd' /\ ShutdownInd'
    BY <1>1 DEF PhaseInd, ShutdownInd, ShutdownReleases, LaunchHooks, MetricsHook,
                RelayHookBegins
  <2>. QED  BY <1>1, <1>a, <2>2, <2>3 DEF LaunchHooks
<1>2. CASE Crash \/ UNCHANGED lifeVars
  <2>1. LifeTypeOK'
    BY <1>2, <1>a DEF LifeTypeOK, Crash
  <2>2. PhaseInd' /\ ShutdownInd'
    BY <1>2 DEF PhaseInd, ShutdownInd, ShutdownReleases, Crash
  <2>. QED  BY <1>2, <1>a, <2>1, <2>2 DEF Crash
<1>3. CASE BindNextPort \/ BindLastPort
  BY <1>3, BindInv
<1>4. CASE RegistrarBinds \/ RegistrarFails
  <2>1. LifeTypeOK'
    BY <1>4, <1>a DEF LifeTypeOK, RegistrarBinds, RegistrarFails
  <2>2. PhaseInd' /\ ShutdownInd'
    BY <1>4 DEF PhaseInd, ShutdownInd, ShutdownReleases, RegistrarBinds, RegistrarFails
  <2>. QED  BY <1>4, <1>a, <2>1, <2>2 DEF RegistrarBinds, RegistrarFails
<1>5. ASSUME NEW c \in Conn, Connects(c) \/ Leaves(c)
      PROVE  LifeInv'
  <2>1. LifeTypeOK'
    BY <1>5, <1>a DEF LifeTypeOK, Connects, Leaves
  <2>2. PhaseInd' /\ ShutdownInd'
    BY <1>5 DEF PhaseInd, ShutdownInd, ShutdownReleases, Connects, Leaves
  <2>. QED  BY <1>5, <1>a, <2>1, <2>2 DEF Connects, Leaves
<1>6. CASE Shutdown
  BY <1>6, LifeShutdownInv
<1>. QED
  BY <1>1, <1>2, <1>3, <1>4, <1>5, <1>6
  DEF LifeNext, LaunchFails, ServeFails, ShutdownThrows, Exit

LEMMA LifeInvariance == LifeSpec => []LifeInv
<1>. QED  BY LifeInitInv, LifeNextInv, PTL DEF LifeSpec

-----------------------------------------------------------------------------
(* Theorems                                                                 *)

\* Every reachable state of the server's life is well-typed: no port is read from
\* a socket that is not bound.
THEOREM LifeTypeCorrect == LifeSpec => []LifeTypeOK
<1>1. LifeInv => LifeTypeOK
  BY DEF LifeInv
<1>. QED  BY <1>1, LifeInvariance, PTL

\* Whatever is bound or not, a player gets a connection only when every hook of
\* start() has done its work.
THEOREM ServesWhenReady == LifeSpec => []ReadyBeforeServing
<1>1. LifeInv => ReadyBeforeServing
  BY DEF LifeInv, LifeTypeOK, PhaseInd, ShutdownInd, ReadyBeforeServing
<1>. QED  BY <1>1, LifeInvariance, PTL

\* The pool that the server opens with is one that the relay handler starts from
\* (Init of UDPRelayHandler): the bound ports in some order, each of them once.
THEOREM OpensWithPool == LifeSpec => []PoolReady
<1>1. LifeInv => PoolReady
  <2>. SUFFICES ASSUME LifeInv PROVE PoolStarted
    BY DEF PoolReady
  <2>1. sockets \subseteq Port /\ freePorts \in Seq(Port)
    BY DEF LifeInv, LifeTypeOK
  <2>2. freePorts \in SetToSeqs(sockets)
    BY <2>1, StackOfItsPorts DEF LifeInv, PoolInd
  <2>. QED  BY <2>1, <2>2 DEF PoolStarted
<1>. QED  BY <1>1, LifeInvariance, PTL

\* After a shutdown that the process survives no port, server or timer is left, and
\* none is opened later.
THEOREM ShutdownLeavesNothing == LifeSpec => []ShutdownReleases
<1>1. LifeInv => ShutdownReleases
  BY DEF LifeInv, ShutdownInd
<1>. QED  BY <1>1, LifeInvariance, PTL

=============================================================================
