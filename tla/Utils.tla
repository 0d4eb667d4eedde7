------------------------------- MODULE Utils -------------------------------
(***************************************************************************)
(* The helpers of src/noray/src/utils.mjs and assertions.mjs that compute  *)
(* something, as operators.                                                *)
(*                                                                         *)
(* A number with a fraction is a ratio in lowest terms.                    *)
(* TLC's integers are narrow, so the unit of sizes is the constant Kilo,   *)
(* 1024 in the code.  A word is a sequence of syllables, as far as they    *)
(* matter: where it starts and where another word could start in it.       *)
(***************************************************************************)
EXTENDS Integers, Sequences, FiniteSetsExt, SequencesExt, Functions

CONSTANTS
    Kilo,       \* bytes of a kb
    Words,      \* the word list
    Capital,    \* the syllables that start with a capital
    Undefined,  \* undefined or null
    Throws      \* the outcome of a call that throws

ASSUME KiloAssumption == Kilo \in Nat \ {0, 1}

\* The list is data: what is assumed of it is that a word starts with a capital, and
\* that if there is a capital within it, as in CD, then what comes before that one is
\* no word.
ASSUME WordsAssumption ==
    \A w \in Words :
       /\ w \in Seq(STRING) \ {<< >>}
       /\ Head(w) \in Capital
       /\ \A i \in 2..Len(w) : w[i] \in Capital => SubSeq(w, 1, i - 1) \notin Words

-----------------------------------------------------------------------------
(* Assertions                                                               *)

RequireParam(value) == IF value = Undefined THEN Throws ELSE value

RequireEnum(value, members) == IF value \in members THEN value ELSE Throws

-----------------------------------------------------------------------------
(* Arrays                                                                   *)

\* range: 0..n-1 as an array, empty for a negative n.
NumberRange(n) == [i \in 1..n |-> i - 1]

\* chunks, for a positive size; the last chunk may be short.
Chunks(data, size) ==
    [k \in 1..((Len(data) + size - 1) \div size) |->
        SubSeq(data, (k - 1) * size + 1, Min({k * size, Len(data)}))]

\* The elements of a finite set in the order of a strict total order.
Sorted(S, Before(_, _)) ==
    [k \in 1..Cardinality(S) |->
        CHOOSE x \in S : Cardinality({y \in S : Before(y, x)}) = k - 1]

\* The product of the lengths of the first d arrays.
CountUpTo(arrays, d) ==
    LET count[k \in 0..Len(arrays)] == IF k = 0 THEN 1 ELSE count[k - 1] * Len(arrays[k])
    IN  count[d]

\* Mutant: every dimension is chosen by the number of the item alone.
CombineInStep(arrays) ==
    [i \in 1..CountUpTo(arrays, Len(arrays)) |->
        [d \in DOMAIN arrays |-> arrays[d][((i - 1) % Len(arrays[d])) + 1]]]

\* combine: the number of the item, written with one digit per array; the first
\* array is the lowest digit.
Combine(arrays) ==
    [i \in 1..CountUpTo(arrays, Len(arrays)) |->
        [d \in DOMAIN arrays |->
            arrays[d][(((i - 1) \div CountUpTo(arrays, d - 1)) % Len(arrays[d])) + 1]]]

\* The decimal digits of a natural number.
Decimal[n \in Nat] == IF n < 10 THEN << n >> ELSE Append(Decimal[n \div 10], n % 10)

-----------------------------------------------------------------------------
(* Sizes and durations, as they are shown                                   *)

\* The greatest common divisor of the numbers of a pair.
Gcd[p \in Nat \X Nat] == IF p[2] = 0 THEN p[1] ELSE Gcd[<< p[2], p[1] % p[2] >>]

Ratio(n, d) == [n |-> n \div Gcd[<< n, d >>], d |-> d \div Gcd[<< n, d >>]]

\* x * y, cancelled before it is multiplied.
Product(x, y) ==
    LET p == Ratio(x.n, y.d)
        q == Ratio(y.n, x.d)
    IN  [n |-> p.n * q.n, d |-> q.d * p.d]

\* Math.pow(1024, n).
KiloToThe[n \in Nat] == IF n = 0 THEN 1 ELSE Kilo * KiloToThe[n - 1]

SizeUnits == << "b", "kb", "Mb", "Gb", "Tb", "Pb", "Eb", "Zb", "Yb" >>

\* formatByteSize: the largest unit for a size of no less than one; yb for all
\* sizes that are too large for it.
FormatByteSize(size) ==
    LET fits == {i \in DOMAIN SizeUnits : size < KiloToThe[i]}
        unit == IF fits = {} THEN Len(SizeUnits) ELSE Min(fits)
    IN  [number |-> Ratio(size, KiloToThe[unit - 1]), unit |-> SizeUnits[unit]]

\* The units of durations in seconds, in descending order.
TimeUnits ==
    << [name |-> "yr",  seconds |-> Ratio(31536000, 1)],
       [name |-> "mo",  seconds |-> Ratio(2592000, 1)],
       [name |-> "wk",  seconds |-> Ratio(604800, 1)],
       [name |-> "day", seconds |-> Ratio(86400, 1)],
       [name |-> "hr",  seconds |-> Ratio(3600, 1)],
       [name |-> "min", seconds |-> Ratio(60, 1)],
       [name |-> "sec", seconds |-> Ratio(1, 1)],
       [name |-> "ms",  seconds |-> Ratio(1, 1000)],
       [name |-> "us",  seconds |-> Ratio(1, 1000000)] >>

\* x > f, for a unit f: one of its two parts is 1.
Exceeds(x, f) ==
    IF f.d = 1 THEN x.n \div x.d > f.n \/ (x.n \div x.d = f.n /\ x.n % x.d # 0)
               ELSE x.n > x.d \div f.d

\* formatDuration: the largest unit that the duration exceeds, so that 60 seconds
\* are 60sec; us if it exceeds none.
FormatDuration(x) ==
    LET exceeded == {i \in DOMAIN TimeUnits : Exceeds(x, TimeUnits[i].seconds)}
        unit == IF exceeded = {} THEN Len(TimeUnits) ELSE Min(exceeded)
        f == TimeUnits[unit].seconds
    IN  [number |-> Product(x, [n |-> f.d, d |-> f.n]), unit |-> TimeUnits[unit].name]

-----------------------------------------------------------------------------
(* Word ids                                                                 *)

\* What randomInt may choose for an id of n words.
Draws(n) == [DOMAIN NumberRange(n) -> Words]

\* generateWordId for what was drawn: the words without anything in between.
WordId(draw) == FlattenSeq(draw)

=============================================================================
