------------------------- MODULE NorayClient_proofs -------------------------
(***************************************************************************)
(* Proofs about NorayClient: a joiner that plays is known to its host, or  *)
(* will be, as far as the host does not lose its line to a timeout.        *)
(***************************************************************************)
EXTENDS NorayClient, SequenceTheorems, TLAPS

-----------------------------------------------------------------------------
(* The inductive invariant                                                  *)

Peer == Player \union {NoPlayer, Stranger}
ServerLine == [command : {"set-oid", "set-pid", "connect-relay", "tail"}, of : Peer]
LinePart == [line : ServerLine, part : {1, 2}]

\* All that was sent to a player and that the current function has not read.
Unread(p) == buf[p] \o stream[p]

\* A first part is followed by a second one, if by any.
Paired(parts) ==
    \A k \in 1 .. Len(parts) :
        parts[k].part = 1 /\ k < Len(parts) => parts[k + 1].part = 2

\* It is followed by one.
Whole(parts) == \A k \in 1 .. Len(parts) : k = Len(parts) => parts[k].part = 2

\* A line is there from its beginning.
Holds(parts, line) == \E k \in 1 .. Len(parts) : parts[k].line = line /\ parts[k].part = 1

ClientTypeOK ==
    /\ step \in [Player -> Steps]
    /\ peers \in [Player -> Seq(Peer)]
    /\ stream \in [Player -> Seq(LinePart)]
    /\ buf \in [Player -> Seq(LinePart)]
    /\ open \subseteq Player
    /\ asked \in [Player -> Host \union {NoPlayer}]
    /\ cut \in [Player -> SUBSET ServerLine]

\* Where a player is that has sent its private id, once and for all.
Introduced(p) == step[p] \in {"waiting", "connecting", "playing", "failed"}

IntroducedOK ==
    \A p \in Player :
        /\ p \in pids \union rinfo => Introduced(p)
        /\ p \in rinfo => p \in open
        /\ step[p] = "off" => buf[p] = << >>

PortLine(p) == Line("connect-relay", p)

\* The host knows the joiner, or will, or cannot.
Known(j, h) ==
    /\ Introduced(h)
    /\ j \in Range(peers[h]) \/ Holds(Unread(h), PortLine(j)) \/ Missed(j, h)

\* A joiner plays when it has read a line of the host, and whoever has sent that line
\* to the joiner has sent one to the host.
LinesOK ==
    \A j \in Joiner, h \in Host : Plays(j, h) \/ Holds(Unread(j), PortLine(h)) => Known(j, h)

\* Only a connection that was closed ends in the middle of a line.
PairedOK == \A p \in Player : Paired(Unread(p)) /\ (p \in open => Whole(Unread(p)))

ClientInv == ClientTypeOK /\ IntroducedOK /\ PairedOK /\ LinesOK

-----------------------------------------------------------------------------
(* What is read, sent and lost                                              *)

\* t is what is left of s after its beginning was read or lost.
LeftOf(t, s) ==
    \E n \in Nat : Len(s) = Len(t) + n /\ \A k \in 1 .. Len(t) : t[k] = s[n + k]

LEMMA LeftFacts ==
    ASSUME NEW s \in Seq(LinePart), NEW t \in Seq(LinePart), LeftOf(t, s)
    PROVE  /\ Paired(s) => Paired(t)
           /\ Whole(s) => Whole(t)
           /\ \A line : Holds(t, line) => Holds(s, line)
<1>1. PICK n \in Nat : Len(s) = Len(t) + n /\ \A k \in 1 .. Len(t) : t[k] = s[n + k]
  BY DEF LeftOf
<1>2. Len(s) \in Nat /\ Len(t) \in Nat
  OBVIOUS
<1>3. \A k \in 1 .. Len(t) : n + k \in 1 .. Len(s)
  BY <1>1, <1>2
<1>4. ASSUME Paired(s), NEW k \in 1 .. Len(t), t[k].part = 1, k < Len(t)
      PROVE  t[k + 1].part = 2
  <2>1. n + k < Len(s)
    BY <1>1, <1>2, <1>4
  <2>2. s[n + k + 1].part = 2
    BY <1>1, <1>3, <1>4, <2>1 DEF Paired
  <2>3. k + 1 \in 1 .. Len(t) /\ n + (k + 1) = n + k + 1
    BY <1>2, <1>4
  <2>4. t[k + 1] = s[n + k + 1]
    BY <1>1, <2>3
  <2>. QED  BY <2>2, <2>4
<1>5. ASSUME NEW line, Holds(t, line)
      PROVE  Holds(s, line)
  BY <1>1, <1>3, <1>5 DEF Holds
<1>6. ASSUME Whole(s), NEW k \in 1 .. Len(t), k = Len(t)
      PROVE  t[k].part = 2
  <2>1. n + k \in 1 .. Len(s) /\ n + k = Len(s)
    BY <1>1, <1>2, <1>3, <1>6
  <2>. QED  BY <1>1, <1>6, <2>1 DEF Whole
<1>. QED  BY <1>4, <1>5, <1>6 DEF Paired, Whole

LEMMA LeftConcat ==
    ASSUME NEW s \in Seq(LinePart), NEW t \in Seq(LinePart), NEW u \in Seq(LinePart),
           LeftOf(t, s)
    PROVE  LeftOf(t \o u, s \o u)
<1>1. PICK n \in Nat : Len(s) = Len(t) + n /\ \A k \in 1 .. Len(t) : t[k] = s[n + k]
  BY DEF LeftOf
<1>2. Len(s) \in Nat /\ Len(t) \in Nat /\ Len(u) \in Nat
  OBVIOUS
<1>3. Len(s \o u) = Len(s) + Len(u) /\ Len(t \o u) = Len(t) + Len(u)
  BY ConcatProperties
<1>4. ASSUME NEW k \in 1 .. Len(t \o u)
      PROVE  (t \o u)[k] = (s \o u)[n + k]
  <2>1. (t \o u)[k] = IF k <= Len(t) THEN t[k] ELSE u[k - Len(t)]
    BY <1>3, ConcatProperties
  <2>2. n + k \in 1 .. Len(s) + Len(u)
    BY <1>1, <1>2, <1>3
  <2>3. (s \o u)[n + k] = IF n + k <= Len(s) THEN s[n + k] ELSE u[n + k - Len(s)]
    BY <2>2, ConcatProperties
  <2>4. (n + k <= Len(s) <=> k <= Len(t)) /\ n + k - Len(s) = k - Len(t)
    BY <1>1, <1>2
  <2>. QED  BY <1>1, <1>2, <1>3, <2>1, <2>3, <2>4
<1>5. Len(s \o u) = Len(t \o u) + n
  BY <1>1, <1>2, <1>3
<1>. DEFINE a == s \o u
            b == t \o u
<1>6. Len(a) = Len(b) + n /\ \A k \in 1 .. Len(b) : b[k] = a[n + k]
  BY <1>4, <1>5
<1>. HIDE DEF a, b
<1>7. LeftOf(b, a)
  BY <1>6 DEF LeftOf
<1>. QED  BY <1>7 DEF a, b

LEMMA LeftNone ==
    ASSUME NEW s \in Seq(LinePart)
    PROVE  LeftOf(<< >>, s) /\ LeftOf(s, s)
<1>1. Len(s) \in Nat
  OBVIOUS
<1>2. LeftOf(<< >>, s)
  BY <1>1 DEF LeftOf
<1>3. Len(s) = Len(s) + 0 /\ \A k \in 1 .. Len(s) : s[k] = s[0 + k]
  BY <1>1
<1>. QED  BY <1>2, <1>3 DEF LeftOf

LEMMA PartsFacts ==
    ASSUME NEW line \in ServerLine
    PROVE  /\ Parts(line) \in Seq(LinePart)
           /\ Len(Parts(line)) = 2
           /\ Parts(line)[1].line = line /\ Parts(line)[1].part = 1
           /\ Parts(line)[2].part = 2
BY DEF Parts, LinePart

\* What sending a line adds.
LEMMA SentFacts ==
    ASSUME NEW s \in Seq(LinePart), NEW line \in ServerLine
    PROVE  /\ s \o Parts(line) \in Seq(LinePart)
           /\ Paired(s) /\ Whole(s) => Paired(s \o Parts(line)) /\ Whole(s \o Parts(line))
           /\ \A other : Holds(s \o Parts(line), other) <=> Holds(s, other) \/ other = line
<1>. DEFINE u == s \o Parts(line)
<1>1. Len(s) \in Nat
  OBVIOUS
<1>2. u \in Seq(LinePart) /\ Len(u) = Len(s) + 2
  BY PartsFacts, ConcatProperties
<1>3. /\ \A k \in 1 .. Len(s) : u[k] = s[k]
      /\ u[Len(s) + 1] = Parts(line)[1] /\ u[Len(s) + 2] = Parts(line)[2]
  <2>. DEFINE v == Parts(line)
  <2>1. \A k \in 1 .. Len(s) + 2 : u[k] = IF k <= Len(s) THEN s[k] ELSE v[k - Len(s)]
    BY PartsFacts, ConcatProperties
  <2>. HIDE DEF u, v
  <2>2. u[Len(s) + 1] = v[1] /\ u[Len(s) + 2] = v[2]
    BY <1>1, <2>1
  <2>3. \A k \in 1 .. Len(s) : u[k] = s[k]
    BY <1>1, <2>1
  <2>. QED  BY <2>2, <2>3 DEF v
<1>4. \A k \in 1 .. Len(u) : k \in 1 .. Len(s) \/ k = Len(s) + 1 \/ k = Len(s) + 2
  BY <1>1, <1>2
<1>. HIDE DEF u
<1>5. ASSUME Paired(s), Whole(s)
      PROVE  Paired(u) /\ Whole(u)
  <2>0. Whole(u)
    BY <1>1, <1>2, <1>3, PartsFacts DEF Whole
  <2>. SUFFICES ASSUME NEW k \in 1 .. Len(u), u[k].part = 1, k < Len(u)
       PROVE  u[k + 1].part = 2
    BY <2>0 DEF Paired
  <2>1. CASE k \in 1 .. Len(s)
    <3>1. k < Len(s)
      BY <1>1, <1>3, <1>5, <2>1 DEF Whole
    <3>2. k + 1 \in 1 .. Len(s) /\ s[k + 1].part = 2
      BY <1>1, <1>3, <1>5, <2>1, <3>1 DEF Paired
    <3>. QED  BY <1>3, <3>2
  <2>2. CASE k = Len(s) + 1
    <3>1. k + 1 = Len(s) + 2
      BY <1>1, <2>2
    <3>. QED  BY <1>1, <1>2, <1>3, <2>2, <3>1, PartsFacts
  <2>3. CASE k = Len(s) + 2
    BY <1>3, <2>3, PartsFacts
  <2>. QED  BY <1>4, <2>1, <2>2, <2>3
<1>6. ASSUME NEW other
      PROVE  Holds(u, other) <=> Holds(s, other) \/ other = line
  <2>1. ASSUME Holds(u, other)  PROVE Holds(s, other) \/ other = line
    <3>1. PICK k \in 1 .. Len(u) : u[k].line = other /\ u[k].part = 1
      BY <2>1 DEF Holds
    <3>. QED  BY <1>3, <1>4, <3>1, PartsFacts DEF Holds
  <2>2. ASSUME Holds(s, other)  PROVE Holds(u, other)
    <3>1. \A k \in 1 .. Len(s) : k \in 1 .. Len(u)
      BY <1>1, <1>2
    <3>. QED  BY <1>3, <2>2, <3>1 DEF Holds
  <2>3. Holds(u, line)
    <3>1. Len(s) + 1 \in 1 .. Len(u)
      BY <1>1, <1>2
    <3>. QED  BY <1>3, <3>1, PartsFacts DEF Holds
  <2>. QED  BY <2>1, <2>2, <2>3
<1>. QED  BY <1>2, <1>5, <1>6 DEF u

\* What arrives is unread as before.
LEMMA FillUnread ==
    ASSUME NEW s \in Seq(LinePart), NEW t \in Seq(LinePart), NEW n \in 1 .. Len(t)
    PROVE  /\ s \o SubSeq(t, 1, n) \in Seq(LinePart)
           /\ SubSeq(t, n + 1, Len(t)) \in Seq(LinePart)
           /\ (s \o SubSeq(t, 1, n)) \o SubSeq(t, n + 1, Len(t)) = s \o t
<1>1. Len(t) \in Nat
  OBVIOUS
<1>2. SubSeq(t, 1, n) \in Seq(LinePart) /\ SubSeq(t, n + 1, Len(t)) \in Seq(LinePart)
  <2>1. \A i \in 1 .. n : t[i] \in LinePart
    BY <1>1
  <2>2. \A i \in n + 1 .. Len(t) : t[i] \in LinePart
    BY <1>1
  <2>. QED  BY <1>1, <2>1, <2>2, SubSeqProperties
<1>3. SubSeq(t, 1, n) \o SubSeq(t, n + 1, Len(t)) = SubSeq(t, 1, Len(t))
  BY <1>1, ConcatAdjacentSubSeq
<1>4. SubSeq(t, 1, Len(t)) = t
  BY SubSeqFull
<1>. DEFINE first == SubSeq(t, 1, n)
            rest == SubSeq(t, n + 1, Len(t))
<1>. HIDE DEF first, rest
<1>5. first \in Seq(LinePart) /\ rest \in Seq(LinePart)
  BY <1>2 DEF first, rest
<1>6. first \o rest = t
  BY <1>3, <1>4 DEF first, rest
<1>7. s \o first \in Seq(LinePart)
  BY <1>5, ConcatProperties
<1>8. (s \o first) \o rest = s \o (first \o rest)
  BY <1>5
<1>. QED  BY <1>5, <1>6, <1>7, <1>8 DEF first, rest

LEMMA ConcatHolds ==
    ASSUME NEW s \in Seq(LinePart), NEW t \in Seq(LinePart), NEW line
    PROVE  Holds(s \o t, line) <=> Holds(s, line) \/ Holds(t, line)
<1>. DEFINE u == s \o t
<1>1. Len(s) \in Nat /\ Len(t) \in Nat
  OBVIOUS
<1>2. /\ Len(u) = Len(s) + Len(t)
      /\ \A k \in 1 .. Len(s) + Len(t) : u[k] = IF k <= Len(s) THEN s[k] ELSE t[k - Len(s)]
  BY ConcatProperties
<1>. HIDE DEF u
<1>3. ASSUME Holds(u, line)  PROVE Holds(s, line) \/ Holds(t, line)
  <2>1. PICK k \in 1 .. Len(u) : u[k].line = line /\ u[k].part = 1
    BY <1>3 DEF Holds
  <2>2. k \in 1 .. Len(s) \/ k - Len(s) \in 1 .. Len(t)
    BY <1>1, <1>2
  <2>3. CASE k \in 1 .. Len(s)
    BY <1>1, <1>2, <2>1, <2>3 DEF Holds
  <2>4. CASE k \notin 1 .. Len(s)
    <3>1. k - Len(s) \in 1 .. Len(t) /\ u[k] = t[k - Len(s)]
      BY <1>1, <1>2, <2>2, <2>4
    <3>. QED  BY <2>1, <3>1 DEF Holds
  <2>. QED  BY <2>3, <2>4
<1>4. ASSUME Holds(s, line)  PROVE Holds(u, line)
  <2>1. \A k \in 1 .. Len(s) : k \in 1 .. Len(u) /\ u[k] = s[k]
    BY <1>1, <1>2
  <2>. QED  BY <1>4, <2>1 DEF Holds
<1>5. ASSUME Holds(t, line)  PROVE Holds(u, line)
  <2>1. PICK k \in 1 .. Len(t) : t[k].line = line /\ t[k].part = 1
    BY <1>5 DEF Holds
  <2>2. Len(s) + k \in 1 .. Len(u) /\ u[Len(s) + k] = t[k]
    BY <1>1, <1>2
  <2>. QED  BY <2>1, <2>2 DEF Holds
<1>. QED  BY <1>3, <1>4, <1>5 DEF u

\* What is left of a sequence without its first n parts.
LEMMA DropFacts ==
    ASSUME NEW s \in Seq(LinePart), NEW n \in 1 .. Len(s)
    PROVE  /\ SubSeq(s, n + 1, Len(s)) \in Seq(LinePart)
           /\ LeftOf(SubSeq(s, n + 1, Len(s)), s)
           /\ \A line : Holds(s, line) =>
                 \/ Holds(SubSeq(s, n + 1, Len(s)), line)
                 \/ \E k \in 1 .. n : s[k].line = line /\ s[k].part = 1
<1>. DEFINE first == SubSeq(s, 1, n)
            rest == SubSeq(s, n + 1, Len(s))
<1>1. first \in Seq(LinePart) /\ Len(first) = n /\ \A k \in 1 .. n : first[k] = s[k]
  OBVIOUS
<1>2. rest \in Seq(LinePart)
  BY FillUnread
<1>3. s = first \o rest
  <2>1. SubSeq(s, 1, Len(s)) = s
    BY SubSeqFull
  <2>2. n \in 1 - 1 .. Len(s) /\ Len(s) \in n .. Len(s) /\ 1 \in 1 .. Len(s) + 1
    OBVIOUS
  <2>. QED  BY <2>1, <2>2, ConcatAdjacentSubSeq
<1>. HIDE DEF first, rest
<1>4. LeftOf(rest, first \o rest)
  <2>1. Len(first \o rest) = Len(rest) + n
    BY <1>1, <1>2
  <2>2. \A k \in 1 .. Len(rest) : rest[k] = (first \o rest)[n + k]
    BY <1>1, <1>2
  <2>. DEFINE all == first \o rest
  <2>. HIDE DEF all
  <2>3. Len(all) = Len(rest) + n /\ \A k \in 1 .. Len(rest) : rest[k] = all[n + k]
    BY <2>1, <2>2 DEF all
  <2>4. LeftOf(rest, all)
    <3>1. n \in Nat
      OBVIOUS
    <3>. QED  BY <2>3, <3>1 DEF LeftOf
  <2>. QED  BY <2>4 DEF all
<1>5. \A line : Holds(first \o rest, line) => Holds(first, line) \/ Holds(rest, line)
  BY <1>1, <1>2, ConcatHolds
<1>6. \A line : Holds(first, line) => \E k \in 1 .. n : s[k].line = line /\ s[k].part = 1
  BY <1>1 DEF Holds
<1>. QED  BY <1>2, <1>3, <1>4, <1>5, <1>6 DEF rest

\* read_line returns a line or the end of one.
LEMMA RestFacts ==
    ASSUME ClientTypeOK, PairedOK, NEW p \in Player, Ends(buf[p]) # {}
    PROVE  /\ Rest(p) \in Seq(LinePart)
           /\ LeftOf(Rest(p), buf[p])
           /\ FirstLine(p).command = "connect-relay" =>
                 FirstLine(p) \in ServerLine /\ Holds(buf[p], FirstLine(p))
           /\ \A line : Holds(buf[p], line) => line = FirstLine(p) \/ Holds(Rest(p), line)
<1>. DEFINE n == IF buf[p][1].part = 1 THEN 2 ELSE 1
<1>1. buf[p] \in Seq(LinePart) /\ stream[p] \in Seq(LinePart)
  BY DEF ClientTypeOK
<1>2. PICK i \in 1 .. Len(buf[p]) : buf[p][i].part = 2
  BY <1>1 DEF Ends
<1>3. n \in 1 .. Len(buf[p]) /\ 1 \in 1 .. Len(buf[p])
  BY <1>1, <1>2
<1>4. Rest(p) = SubSeq(buf[p], n + 1, Len(buf[p]))
  BY DEF Rest
<1>5. ASSUME FirstLine(p).command = "connect-relay"
      PROVE  FirstLine(p) \in ServerLine /\ Holds(buf[p], FirstLine(p))
  <2>1. buf[p][1].part = 1 /\ FirstLine(p) = buf[p][1].line
    BY <1>5 DEF FirstLine, Line
  <2>2. buf[p][1] \in LinePart
    BY <1>1, <1>3
  <2>. QED  BY <1>3, <2>1, <2>2 DEF LinePart, Holds
<1>6. ASSUME buf[p][1].part = 1  PROVE buf[p][2].part = 2
  <2>. DEFINE b == buf[p]
              u == stream[p]
  <2>1. b \in Seq(LinePart) /\ u \in Seq(LinePart) /\ Len(b) >= 2
    BY <1>1, <1>3, <1>6
  <2>2. Unread(p) = b \o u
    BY DEF Unread
  <2>3. Paired(b \o u)
    BY <2>2 DEF PairedOK
  <2>4. b[1].part = 1
    BY <1>6
  <2>. HIDE DEF b, u
  <2>5. (b \o u)[1] = b[1] /\ (b \o u)[2] = b[2] /\ Len(b \o u) > 1
    BY <2>1
  <2>6. b[2].part = 2
    BY <2>3, <2>4, <2>5 DEF Paired
  <2>. QED  BY <2>6 DEF b
<1>7. ASSUME NEW line, NEW k \in 1 .. n, buf[p][k].line = line, buf[p][k].part = 1
      PROVE  line = FirstLine(p)
  <2>1. k = 1
    BY <1>6, <1>7
  <2>. QED  BY <1>7, <2>1 DEF FirstLine
<1>. HIDE DEF n
<1>8. LeftOf(Rest(p), buf[p]) /\ Rest(p) \in Seq(LinePart)
  BY <1>1, <1>3, <1>4, DropFacts
<1>9. ASSUME NEW line, Holds(buf[p], line)
      PROVE  line = FirstLine(p) \/ Holds(Rest(p), line)
  <2>1. \/ Holds(Rest(p), line)
        \/ \E k \in 1 .. n : buf[p][k].line = line /\ buf[p][k].part = 1
    <3>. DEFINE b == buf[p]
    <3>. HIDE DEF b
    <3>1. b \in Seq(LinePart) /\ n \in 1 .. Len(b) /\ Holds(b, line)
      BY <1>1, <1>3, <1>9 DEF b
    <3>2. \/ Holds(SubSeq(b, n + 1, Len(b)), line)
          \/ \E k \in 1 .. n : b[k].line = line /\ b[k].part = 1
      BY <3>1, DropFacts
    <3>3. Rest(p) = SubSeq(b, n + 1, Len(b))
      BY <1>4 DEF b
    <3>. QED  BY <3>2, <3>3 DEF b
  <2>. QED  BY <1>7, <2>1
<1>. QED  BY <1>5, <1>8, <1>9

-----------------------------------------------------------------------------
(* What the steps of a function that reads have in common                   *)

\* Parts are read or lost, and the function goes on or returns, or the player ends.
Reads(p) ==
    /\ Reading(p) \/ step[p] = "registered"
    /\ step' \in [Player -> Steps]
    /\ buf' \in [Player -> Seq(LinePart)]
    /\ stream' \in [Player -> Seq(LinePart)]
    /\ \A q \in Player \ {p} :
          step'[q] = step[q] /\ buf'[q] = buf[q] /\ stream'[q] = stream[q]
    /\ LeftOf(Unread(p)', Unread(p))
    /\ \/ step'[p] = step[p]
       \/ step[p] = "registering" /\ step'[p] = "registered"
       \/ step'[p] \in {"playing", "failed"}
    /\ open' \subseteq open /\ open \ {p} \subseteq open'
    /\ rinfo' \subseteq rinfo /\ pids' \subseteq pids
    /\ open' = open \/ p \notin rinfo'

LEMMA LeaveReads ==
    ASSUME ClientTypeOK, NEW p \in Player, NEW to \in {"playing", "failed"},
           Reading(p) \/ step[p] = "registered", Leave(p, to)
    PROVE  Reads(p) /\ step'[p] = to
<1>1. step'[p] = to /\ buf'[p] = << >> /\ stream'[p] = << >>
  BY DEF Leave, ClientTypeOK
<1>2. Unread(p) \in Seq(LinePart)
  BY ConcatProperties DEF Unread, ClientTypeOK
<1>3. Unread(p)' = << >>
  BY <1>1 DEF Unread
<1>4. LeftOf(Unread(p)', Unread(p))
  BY <1>2, <1>3, LeftNone
<1>5. /\ step' \in [Player -> Steps]
      /\ buf' \in [Player -> Seq(LinePart)]
      /\ stream' \in [Player -> Seq(LinePart)]
  BY DEF Leave, ClientTypeOK, Steps
<1>. QED  BY <1>1, <1>4, <1>5 DEF Reads, Leave, ClientTypeOK

LEMMA GoOnReads ==
    ASSUME ClientTypeOK, NEW p \in Player, NEW rest \in Seq(LinePart), NEW ids,
           Reading(p), LeftOf(rest, buf[p]), GoOn(p, rest, ids)
    PROVE  /\ Reads(p)
           /\ step'[p] = step[p] /\ buf'[p] = rest /\ stream'[p] = stream[p] /\ open' = open
<1>1. buf'[p] = rest /\ stream' = stream /\ step' = step
  BY DEF GoOn, ClientTypeOK
<1>2. LeftOf(rest \o stream[p], buf[p] \o stream[p])
  BY LeftConcat DEF ClientTypeOK
<1>3. LeftOf(Unread(p)', Unread(p))
  BY <1>1, <1>2 DEF Unread
<1>. QED  BY <1>1, <1>3 DEF Reads, GoOn, ClientTypeOK

LEMMA NextTryReads ==
    ASSUME ClientTypeOK, NEW p \in Player, NEW rest \in Seq(LinePart), NEW ids,
           Reading(p), LeftOf(rest, buf[p]), NextTry(p, rest, ids)
    PROVE  /\ Reads(p)
           /\ \/ step[p] # "waiting" /\ step'[p] = "failed"
              \/ step'[p] = step[p] /\ buf'[p] = rest /\ stream'[p] = stream[p] /\ open' = open
<1>1. CASE step[p] # "waiting" /\ Leave(p, "failed")
  BY <1>1, LeaveReads
<1>2. CASE GoOn(p, rest, ids)
  BY <1>2, GoOnReads
<1>. QED  BY <1>1, <1>2 DEF NextTry

LEMMA FillReads ==
    ASSUME ClientTypeOK, NEW p \in Player, Fill(p)
    PROVE  Reads(p) /\ Unread(p)' = Unread(p) /\ step' = step /\ open' = open
<1>1. PICK n \in 1 .. Len(stream[p]) :
          /\ buf' = [buf EXCEPT ![p] = @ \o SubSeq(stream[p], 1, n)]
          /\ stream' = [stream EXCEPT ![p] = SubSeq(@, n + 1, Len(@))]
  BY DEF Fill
<1>2. buf[p] \in Seq(LinePart) /\ stream[p] \in Seq(LinePart)
  BY DEF ClientTypeOK
<1>3. /\ buf[p] \o SubSeq(stream[p], 1, n) \in Seq(LinePart)
      /\ SubSeq(stream[p], n + 1, Len(stream[p])) \in Seq(LinePart)
      /\ (buf[p] \o SubSeq(stream[p], 1, n)) \o SubSeq(stream[p], n + 1, Len(stream[p]))
            = buf[p] \o stream[p]
  BY <1>2, FillUnread
<1>4. /\ buf'[p] = buf[p] \o SubSeq(stream[p], 1, n)
      /\ stream'[p] = SubSeq(stream[p], n + 1, Len(stream[p]))
  BY <1>1 DEF ClientTypeOK
<1>5. Unread(p)' = Unread(p)
  BY <1>3, <1>4 DEF Unread
<1>6. Unread(p) \in Seq(LinePart)
  BY <1>2, ConcatProperties DEF Unread
<1>7. LeftOf(Unread(p)', Unread(p))
  BY <1>5, <1>6, LeftNone
<1>8. buf' \in [Player -> Seq(LinePart)] /\ stream' \in [Player -> Seq(LinePart)]
  BY <1>1, <1>3 DEF ClientTypeOK
<1>9. \A q \in Player \ {p} : buf'[q] = buf[q] /\ stream'[q] = stream[q]
  BY <1>1 DEF ClientTypeOK
<1>. QED  BY <1>5, <1>7, <1>8, <1>9 DEF Reads, Fill, serverVars, ClientTypeOK

LEMMA TimeoutReads ==
    ASSUME ClientTypeOK, NEW p \in Player, Timeout(p) \/ EndOfFile(p)
    PROVE  /\ Reads(p)
           /\ \/ step[p] # "waiting" /\ step'[p] = "failed"
              \/ step'[p] = step[p] /\ buf'[p] = << >> /\ stream'[p] = stream[p] /\ open' = open
<1>1. << >> \in Seq(LinePart) /\ LeftOf(<< >>, buf[p])
  BY LeftNone DEF ClientTypeOK
<1>2. Reading(p) /\ NextTry(p, << >>, got[p])
  BY DEF Timeout, EndOfFile
<1>. QED  BY <1>1, <1>2, NextTryReads

LEMMA ReadIdReads ==
    ASSUME ClientTypeOK, PairedOK, NEW p \in Player, ReadId(p)
    PROVE  Reads(p) /\ step[p] = "registering"
<1>1. step[p] = "registering" /\ Reading(p) /\ Ends(buf[p]) # {}
  BY DEF ReadId, Reading
<1>2. CASE \E ids : NextTry(p, Rest(p), ids)
  BY <1>1, <1>2, RestFacts, NextTryReads
<1>3. CASE /\ step' = [step EXCEPT ![p] = "registered"]
           /\ buf' = [buf EXCEPT ![p] = << >>]
           /\ UNCHANGED <<stream, open, rinfo, pids>>
  <2>1. buf[p] \in Seq(LinePart) /\ stream[p] \in Seq(LinePart) /\ << >> \in Seq(LinePart)
    BY DEF ClientTypeOK
  <2>2. LeftOf(<< >> \o stream[p], buf[p] \o stream[p])
    <3>1. LeftOf(<< >>, buf[p])
      BY <2>1, LeftNone
    <3>. QED  BY <2>1, <3>1, LeftConcat
  <2>3. buf'[p] = << >> /\ stream'[p] = stream[p]
    BY <1>3 DEF ClientTypeOK
  <2>4. LeftOf(Unread(p)', Unread(p))
    BY <2>2, <2>3 DEF Unread
  <2>5. step' \in [Player -> Steps] /\ buf' \in [Player -> Seq(LinePart)]
    BY <1>3, <2>1 DEF ClientTypeOK, Steps
  <2>. QED  BY <1>1, <1>3, <2>4, <2>5 DEF Reads, ClientTypeOK
<1>. QED  BY <1>2, <1>3 DEF ReadId

LEMMA ReadPeerReads ==
    ASSUME ClientTypeOK, PairedOK, NEW h \in Host, ReadPeer(h)
    PROVE  /\ Reads(h) /\ step[h] = "waiting"
           /\ peers' \in [Player -> Seq(Peer)]
           /\ \A q \in Player \ {h} : peers'[q] = peers[q]
           /\ Range(peers[h]) \subseteq Range(peers'[h])
           /\ \A j \in Player : FirstLine(h) = PortLine(j) => j \in Range(peers'[h])
           /\ \/ step'[h] = "playing"
              \/ buf'[h] = Rest(h) /\ stream'[h] = stream[h]
<1>. DEFINE line == FirstLine(h)
            now == IF line.command = "connect-relay" /\ line.of # NoPlayer
                   THEN Append(peers[h], line.of) ELSE peers[h]
<1>1. h \in Player /\ step[h] = "waiting" /\ Reading(h) /\ Ends(buf[h]) # {}
  BY DEF Player, ReadPeer, Reading
<1>2. peers' = [peers EXCEPT ![h] = now]
  BY DEF ReadPeer
<1>3. Leave(h, "playing") \/ NextTry(h, Rest(h), {})
  BY DEF ReadPeer
<1>4. Rest(h) \in Seq(LinePart) /\ LeftOf(Rest(h), buf[h])
  BY <1>1, RestFacts
<1>5. now \in Seq(Peer)
  <2>1. line.command = "connect-relay" => line.of \in Peer
    BY <1>1, RestFacts DEF ServerLine
  <2>2. peers[h] \in Seq(Peer)
    BY <1>1 DEF ClientTypeOK
  <2>. HIDE DEF line
  <2>. QED  BY <2>1, <2>2
<1>6. /\ Range(peers[h]) \subseteq Range(now)
      /\ \A j \in Player : line = PortLine(j) => j \in Range(now)
  <2>1. peers[h] \in Seq(Peer)
    BY <1>1 DEF ClientTypeOK
  <2>2. ASSUME NEW x \in Peer
        PROVE  Range(peers[h]) \union {x} \subseteq Range(Append(peers[h], x))
    <3>. DEFINE s == peers[h]
    <3>. HIDE DEF s
    <3>1. s \in Seq(Peer) /\ Len(s) \in Nat /\ DOMAIN s = 1 .. Len(s)
      BY <2>1 DEF s
    <3>2. /\ DOMAIN Append(s, x) = 1 .. Len(s) + 1
          /\ \A k \in 1 .. Len(s) : Append(s, x)[k] = s[k]
          /\ Append(s, x)[Len(s) + 1] = x
      BY <3>1
    <3>3. DOMAIN s \subseteq DOMAIN Append(s, x) /\ Len(s) + 1 \in DOMAIN Append(s, x)
      BY <3>1, <3>2
    <3>. QED  BY <3>1, <3>2, <3>3 DEF Range, s
  <2>3. \A j \in Player : line = PortLine(j) =>
            line.command = "connect-relay" /\ line.of = j /\ line.of # NoPlayer
    BY ClientAssumption DEF PortLine, Line
  <2>4. line.command = "connect-relay" => line.of \in Peer
    BY <1>1, RestFacts DEF ServerLine
  <2>. HIDE DEF line
  <2>. QED  BY <2>2, <2>3, <2>4
<1>. HIDE DEF now
<1>7. peers'[h] = now /\ \A q \in Player \ {h} : peers'[q] = peers[q]
  BY <1>1, <1>2 DEF ClientTypeOK
<1>8. peers' \in [Player -> Seq(Peer)]
  BY <1>2, <1>5 DEF ClientTypeOK
<1>9. Reads(h) /\ (step'[h] = "playing" \/ (buf'[h] = Rest(h) /\ stream'[h] = stream[h]))
  <2>1. CASE Leave(h, "playing")
    <3>1. Reads(h) /\ step'[h] = "playing"
      BY <1>1, <2>1, LeaveReads
    <3>. QED  BY <3>1
  <2>2. CASE NextTry(h, Rest(h), {})
    <3>1. /\ Reads(h)
          /\ step[h] = "waiting" => buf'[h] = Rest(h) /\ stream'[h] = stream[h]
      BY <1>1, <1>4, <2>2, NextTryReads
    <3>. QED  BY <1>1, <3>1
  <2>. QED  BY <1>3, <2>1, <2>2
<1>. QED  BY <1>1, <1>6, <1>7, <1>8, <1>9

LEMMA ReadPortReads ==
    ASSUME ClientTypeOK, PairedOK, NEW j \in Joiner, ReadPort(j)
    PROVE  /\ Reads(j)
           /\ peers' \in [Player -> Seq(Peer)]
           /\ \A q \in Player \ {j} : peers'[q] = peers[q]
           /\ \A h : step'[j] = "playing" /\ peers'[j] = << h >> =>
                 Holds(buf[j], PortLine(h))
<1>. DEFINE line == FirstLine(j)
<1>1. j \in Player /\ step[j] = "connecting" /\ Reading(j) /\ Ends(buf[j]) # {}
  BY DEF Player, ReadPort, Reading
<1>2. Rest(j) \in Seq(LinePart) /\ LeftOf(Rest(j), buf[j])
  BY <1>1, RestFacts
<1>3. CASE NextTry(j, Rest(j), {}) /\ peers' = peers
  <2>1. Reads(j) /\ (step'[j] = "failed" \/ step'[j] = step[j])
    BY <1>1, <1>2, <1>3, NextTryReads
  <2>. QED  BY <1>1, <1>3, <2>1 DEF ClientTypeOK
<1>4. CASE Leave(j, "failed") /\ peers' = peers
  <2>1. Reads(j) /\ step'[j] = "failed"
    BY <1>1, <1>4, LeaveReads
  <2>. QED  BY <1>1, <1>4, <2>1 DEF ClientTypeOK
<1>5. CASE /\ line.command = "connect-relay"
           /\ Leave(j, "playing")
           /\ peers' = [peers EXCEPT ![j] = << line.of >>]
  <2>1. Reads(j)
    BY <1>1, <1>5, LeaveReads
  <2>2. line \in ServerLine /\ Holds(buf[j], line)
    BY <1>1, <1>5, RestFacts
  <2>3. line = PortLine(line.of) /\ line.of \in Peer
    BY <1>5, <2>2 DEF PortLine, Line, ServerLine
  <2>. HIDE DEF line
  <2>4. peers'[j] = << line.of >> /\ \A q \in Player \ {j} : peers'[q] = peers[q]
    BY <1>1, <1>5 DEF ClientTypeOK
  <2>5. peers' \in [Player -> Seq(Peer)]
    <3>1. << line.of >> \in Seq(Peer)
      BY <2>3
    <3>. QED  BY <1>5, <3>1 DEF ClientTypeOK
  <2>6. \A h : << line.of >> = << h >> => line.of = h
    OBVIOUS
  <2>. QED  BY <2>1, <2>2, <2>3, <2>4, <2>5, <2>6
<1>. QED  BY <1>3, <1>4, <1>5 DEF ReadPort

\* The steps of all functions that read, and their ends.
ReadStep(p) ==
    \/ Fill(p) \/ Timeout(p) \/ EndOfFile(p) \/ ReadError(p)
    \/ ReadId(p) \/ RegisterUdpFails(p)
    \/ p \in Host /\ ReadPeer(p)
    \/ p \in Joiner /\ ReadPort(p)

LEMMA ReadStepFacts ==
    ASSUME ClientTypeOK, PairedOK, NEW p \in Player, ReadStep(p)
    PROVE  /\ Reads(p) /\ asked' = asked
           /\ peers' \in [Player -> Seq(Peer)]
           /\ \A q \in Player \ {p} : peers'[q] = peers[q]
           /\ cut' \in [Player -> SUBSET ServerLine]
           /\ \A q \in Player : cut[q] \subseteq cut'[q]
<1>1. CASE Fill(p)
  BY <1>1, FillReads DEF Fill, serverVars, ClientTypeOK
<1>2. CASE Timeout(p)
  <2>1. Reads(p)
    BY <1>2, TimeoutReads
  <2>2. {part.line : part \in Range(buf[p])} \subseteq ServerLine
    <3>1. \A part \in Range(buf[p]) : part \in LinePart
      BY DEF ClientTypeOK, Range
    <3>. QED  BY <3>1 DEF LinePart
  <2>. QED  BY <1>2, <2>1, <2>2 DEF Timeout, ClientTypeOK
<1>3. CASE EndOfFile(p)
  BY <1>3, TimeoutReads DEF EndOfFile, ClientTypeOK
<1>4. CASE ReadError(p)
  BY <1>4, LeaveReads DEF ReadError, ClientTypeOK
<1>5. CASE ReadId(p)
  BY <1>5, ReadIdReads DEF ReadId, ClientTypeOK
<1>6. CASE p \in Host /\ ReadPeer(p)
  BY <1>6, ReadPeerReads DEF ReadPeer, ClientTypeOK
<1>7. CASE p \in Joiner /\ ReadPort(p)
  BY <1>7, ReadPortReads DEF ReadPort, ClientTypeOK
<1>8. CASE RegisterUdpFails(p)
  BY <1>8, LeaveReads DEF RegisterUdpFails, ClientTypeOK
<1>. QED  BY <1>1, <1>2, <1>3, <1>4, <1>5, <1>6, <1>7, <1>8 DEF ReadStep

-----------------------------------------------------------------------------
(* The invariant holds after every step of a function that reads            *)

LEMMA ReadStepTypes ==
    ASSUME ClientTypeOK, IntroducedOK, PairedOK, NEW p \in Player, ReadStep(p)
    PROVE  ClientTypeOK' /\ IntroducedOK' /\ PairedOK'
<1>1. Reads(p)
  BY ReadStepFacts
<1>2. ClientTypeOK'
  BY <1>1, ReadStepFacts DEF Reads, ClientTypeOK
<1>3. IntroducedOK'
  <2>. SUFFICES ASSUME NEW q \in Player
       PROVE  /\ q \in (pids \union rinfo)' => Introduced(q)'
              /\ q \in rinfo' => q \in open'
              /\ step'[q] = "off" => buf'[q] = << >>
    BY DEF IntroducedOK
  <2>1. step'[p] # "off"
    BY <1>1 DEF Reads, Reading
  <2>2. q \in pids \union rinfo => Introduced(q)
    BY DEF IntroducedOK
  <2>3. Introduced(q) => Introduced(q)'
    BY <1>1 DEF Reads, Introduced
  <2>4. step'[q] = "off" => buf'[q] = << >>
    BY <1>1, <2>1 DEF Reads, IntroducedOK
  <2>5. q \in rinfo' => q \in open'
    BY <1>1 DEF Reads, IntroducedOK
  <2>. QED  BY <1>1, <2>2, <2>3, <2>4, <2>5 DEF Reads
<1>4. PairedOK'
  <2>. SUFFICES ASSUME NEW q \in Player
       PROVE  Paired(Unread(q))' /\ (q \in open' => Whole(Unread(q))')
    BY DEF PairedOK
  <2>1. CASE q = p
    <3>1. Unread(p) \in Seq(LinePart)
      BY ConcatProperties DEF Unread, ClientTypeOK
    <3>2. Unread(p)' \in Seq(LinePart)
      BY <1>2, ConcatProperties DEF Unread, ClientTypeOK
    <3>3. Paired(Unread(p)) /\ (p \in open' => Whole(Unread(p)))
      BY <1>1 DEF PairedOK, Reads
    <3>4. LeftOf(Unread(p)', Unread(p))
      BY <1>1 DEF Reads
    <3>5. Paired(Unread(p)') /\ (p \in open' => Whole(Unread(p)'))
      BY <3>1, <3>2, <3>3, <3>4, LeftFacts
    <3>. QED  BY <2>1, <3>5 DEF Paired, Whole
  <2>2. CASE q # p
    <3>1. Unread(q)' = Unread(q) /\ (q \in open' => q \in open)
      BY <1>1, <2>2 DEF Reads, Unread
    <3>. QED  BY <3>1 DEF PairedOK, Paired, Whole
  <2>. QED  BY <2>1, <2>2
<1>. QED  BY <1>2, <1>3, <1>4

\* A host that knows a joiner goes on to know it, unless a timeout cuts the line.
LEMMA HostReadsOn ==
    ASSUME ClientTypeOK, IntroducedOK, PairedOK, NEW h \in Host, ReadStep(h),
           NEW j \in Joiner, Known(j, h)
    PROVE  Known(j, h)'
<1>1. h \in Player /\ h \notin Joiner /\ j \in Player
  BY ClientAssumption DEF Player
<1>2. Reads(h) /\ cut[h] \subseteq cut'[h]
  BY <1>1, ReadStepFacts
<1>3. Introduced(h) /\ Introduced(h)' /\ step[h] # "registering"
  BY <1>2 DEF Known, Introduced, Reads
<1>4. ASSUME Missed(j, h)  PROVE Missed(j, h)'
  BY <1>2, <1>4, <1>3 DEF Missed, Reads, Introduced
<1>5. SUFFICES ASSUME ~Missed(j, h), ~Missed(j, h)'
      PROVE  j \in Range(peers'[h]) \/ Holds(Unread(h), PortLine(j))'
  BY <1>3, <1>4 DEF Known
<1>6. /\ step[h] = "waiting" /\ step'[h] = "waiting"
      /\ h \in open /\ PortLine(j) \notin cut'[h]
  BY <1>5 DEF Missed, PortLine
<1>7. /\ buf[h] \in Seq(LinePart) /\ stream[h] \in Seq(LinePart)
      /\ Unread(h) = buf[h] \o stream[h]
  BY <1>1 DEF ClientTypeOK, Unread
<1>8. j \in Range(peers[h]) \/ Holds(Unread(h), PortLine(j))
  BY <1>5 DEF Known
<1>9. CASE Fill(h)
  <2>1. Unread(h)' = Unread(h) /\ peers' = peers
    BY <1>1, <1>9, FillReads DEF Fill
  <2>. QED  BY <1>8, <2>1 DEF Holds
<1>10. CASE Timeout(h)
  <2>1. buf'[h] = << >> /\ stream'[h] = stream[h] /\ peers' = peers
    BY <1>1, <1>6, <1>10, TimeoutReads DEF Timeout
  <2>2. CASE Holds(buf[h], PortLine(j))
    <3>1. PortLine(j) \in {part.line : part \in Range(buf[h])}
      BY <1>7, <2>2 DEF Holds, Range
    <3>2. PortLine(j) \in cut'[h]
      BY <1>1, <1>6, <1>10, <3>1 DEF Timeout, ClientTypeOK
    <3>. QED  BY <1>6, <3>2
  <2>3. CASE Holds(stream[h], PortLine(j))
    <3>1. Unread(h)' = stream[h]
      BY <1>7, <2>1 DEF Unread
    <3>. QED  BY <2>3, <3>1 DEF Holds
  <2>4. Holds(Unread(h), PortLine(j)) =>
            Holds(buf[h], PortLine(j)) \/ Holds(stream[h], PortLine(j))
    BY <1>7, ConcatHolds
  <2>. QED  BY <1>8, <2>1, <2>2, <2>3, <2>4
<1>11. CASE EndOfFile(h) \/ ReadError(h)
  BY <1>6, <1>11 DEF EndOfFile, ReadError
<1>12. CASE ReadId(h) \/ RegisterUdpFails(h)
  BY <1>6, <1>12 DEF ReadId, RegisterUdpFails
<1>13. CASE ReadPeer(h)
  <2>1. /\ buf'[h] = Rest(h) /\ stream'[h] = stream[h]
        /\ Range(peers[h]) \subseteq Range(peers'[h])
        /\ FirstLine(h) = PortLine(j) => j \in Range(peers'[h])
    BY <1>1, <1>6, <1>13, ReadPeerReads
  <2>2. Ends(buf[h]) # {}
    BY <1>13 DEF ReadPeer
  <2>3. /\ Rest(h) \in Seq(LinePart)
        /\ Holds(buf[h], PortLine(j)) => PortLine(j) = FirstLine(h) \/ Holds(Rest(h), PortLine(j))
    BY <1>1, <2>2, RestFacts
  <2>4. /\ Holds(Unread(h), PortLine(j)) <=>
              Holds(buf[h], PortLine(j)) \/ Holds(stream[h], PortLine(j))
        /\ Holds(Rest(h) \o stream[h], PortLine(j)) <=>
              Holds(Rest(h), PortLine(j)) \/ Holds(stream[h], PortLine(j))
    BY <1>7, <2>3, ConcatHolds
  <2>5. Holds(Rest(h) \o stream[h], PortLine(j)) => Holds(Unread(h), PortLine(j))'
    BY <2>1 DEF Unread, Holds
  <2>. QED  BY <1>8, <2>1, <2>3, <2>4, <2>5
<1>. QED  BY <1>1, <1>9, <1>10, <1>11, <1>12, <1>13 DEF ReadStep

\* What a joiner has read or can read, it could read before.
LEMMA JoinerReadsOn ==
    ASSUME ClientTypeOK, ClientTypeOK', PairedOK, NEW p \in Player, ReadStep(p),
           NEW j \in Joiner, NEW h \in Host,
           Plays(j, h)' \/ Holds(Unread(j), PortLine(h))'
    PROVE  Plays(j, h) \/ Holds(Unread(j), PortLine(h))
<1>1. j \in Player /\ j \notin Host
  BY ClientAssumption DEF Player
<1>2. /\ Reads(p)
      /\ \A q \in Player \ {p} : peers'[q] = peers[q]
  BY ReadStepFacts
<1>3. CASE j # p
  <2>1. Unread(j)' = Unread(j)
    BY <1>1, <1>2, <1>3 DEF Reads, Unread
  <2>2. Plays(j, h)' => Plays(j, h)
    BY <1>1, <1>2, <1>3 DEF Plays, Reads
  <2>3. Holds(Unread(j), PortLine(h))' => Holds(Unread(j), PortLine(h))
    BY <2>1 DEF Holds
  <2>. QED  BY <2>2, <2>3
<1>4. CASE j = p /\ Holds(Unread(j), PortLine(h))'
  <2>1. Unread(j) \in Seq(LinePart) /\ Unread(j)' \in Seq(LinePart)
    BY <1>1, ConcatProperties DEF Unread, ClientTypeOK
  <2>2. LeftOf(Unread(j)', Unread(j))
    BY <1>2, <1>4 DEF Reads
  <2>3. Holds(Unread(j)', PortLine(h))
    BY <1>4 DEF Holds, PortLine, Line
  <2>. QED  BY <2>1, <2>2, <2>3, LeftFacts
<1>5. CASE j = p /\ Plays(j, h)'
  <2>1. step'[j] = "playing" /\ peers'[j] = << h >> /\ step[j] # "playing"
    BY <1>2, <1>5 DEF Plays, Reads, Reading
  <2>2. ~Fill(j)
    BY <1>1, <2>1, FillReads
  <2>3. ~(Timeout(j) \/ EndOfFile(j))
    BY <1>1, <2>1, TimeoutReads
  <2>4. ~ReadError(j)
    BY <1>1, <2>1 DEF ReadError, Leave, ClientTypeOK
  <2>5. ~ReadId(j)
    <3>1. ReadId(j) => step'[j] # "playing"
      BY <1>1, <2>1 DEF ReadId, NextTry, Leave, GoOn, ClientTypeOK
    <3>. QED  BY <2>1, <3>1
  <2>a. ~RegisterUdpFails(j)
    BY <1>1, <2>1 DEF RegisterUdpFails, Leave, ClientTypeOK
  <2>6. ReadPort(j)
    BY <1>1, <1>5, <2>2, <2>3, <2>4, <2>5, <2>a DEF ReadStep
  <2>7. Holds(buf[j], PortLine(h))
    BY <2>1, <2>6, ReadPortReads
  <2>8. Holds(Unread(j), PortLine(h))
    BY <1>1, <2>7, ConcatHolds DEF Unread, ClientTypeOK
  <2>. QED  BY <2>8
<1>. QED  BY <1>3, <1>4, <1>5

LEMMA ReadStepInv ==
    ASSUME ClientInv, NEW p \in Player, ReadStep(p)
    PROVE  ClientInv'
<1>1. ClientTypeOK' /\ IntroducedOK' /\ PairedOK'
  BY ReadStepTypes DEF ClientInv
<1>2. ASSUME NEW j \in Joiner, NEW h \in Host,
             Plays(j, h)' \/ Holds(Unread(j), PortLine(h))'
      PROVE  Known(j, h)'
  <2>1. Known(j, h)
    BY <1>1, <1>2, JoinerReadsOn DEF ClientInv, LinesOK
  <2>2. CASE h = p
    BY <2>1, <2>2, HostReadsOn DEF ClientInv
  <2>3. CASE h # p
    <3>1. h \in Player /\ Reads(p) /\ peers'[h] = peers[h] /\ cut[h] \subseteq cut'[h]
      BY <2>3, ReadStepFacts DEF Player, ClientInv
    <3>2. /\ step'[h] = step[h] /\ Unread(h)' = Unread(h)
          /\ h \notin open => h \notin open'
      BY <2>3, <3>1 DEF Reads, Unread
    <3>3. Missed(j, h) => Missed(j, h)'
      BY <3>1, <3>2 DEF Missed
    <3>4. Holds(Unread(h), PortLine(j)) => Holds(Unread(h), PortLine(j))'
      BY <3>2 DEF Holds
    <3>. QED  BY <2>1, <3>1, <3>2, <3>3, <3>4 DEF Known, Introduced
  <2>. QED  BY <2>2, <2>3
<1>3. LinesOK'
  BY <1>2 DEF LinesOK
<1>. QED  BY <1>1, <1>3 DEF ClientInv

-----------------------------------------------------------------------------
(* The other steps                                                          *)

\* Steps that change neither what is sent and read nor what players do, but for
\* who has sent its private id.
LEMMA QuietInv ==
    ASSUME ClientInv, ClientTypeOK', IntroducedOK',
           stream' = stream, buf' = buf, peers' = peers, cut' = cut, open' \subseteq open,
           NEW p \in Player,
           \A q \in Player \ {p} : step'[q] = step[q],
           \/ step'[p] = step[p]
           \/ step[p] = "registered" /\ step'[p] \in {"waiting", "connecting"}
    PROVE  ClientInv'
<1>1. PairedOK'
  BY DEF ClientInv, PairedOK, Paired, Whole, Unread
<1>2. ASSUME NEW j \in Joiner, NEW h \in Host,
             Plays(j, h)' \/ Holds(Unread(j), PortLine(h))'
      PROVE  Known(j, h)'
  <2>1. j \in Player /\ h \in Player
    BY DEF Player
  <2>2. Plays(j, h) \/ Holds(Unread(j), PortLine(h))
    BY <1>2, <2>1 DEF Plays, Holds, Unread, PortLine, Line
  <2>3. Known(j, h)
    BY <2>2 DEF ClientInv, LinesOK
  <2>4. step'[h] = step[h]
    BY <2>1, <2>3 DEF Known, Introduced
  <2>5. Missed(j, h) => Missed(j, h)'
    BY <2>4 DEF Missed
  <2>6. Holds(Unread(h), PortLine(j)) => Holds(Unread(h), PortLine(j))'
    BY DEF Holds, Unread, PortLine, Line
  <2>. QED  BY <2>3, <2>4, <2>5, <2>6 DEF Known, Introduced
<1>3. LinesOK'
  BY <1>2 DEF LinesOK
<1>. QED  BY <1>1, <1>3 DEF ClientInv

LEMMA RegisterUdpInv ==
    ASSUME ClientInv, NEW p \in Player, RegisterUdp(p)
    PROVE  ClientInv'
<1>1. /\ step[p] = "registered" /\ step'[p] \in {"waiting", "connecting"}
      /\ \A q \in Player \ {p} : step'[q] = step[q]
      /\ step' \in [Player -> Steps]
  BY DEF RegisterUdp, ClientInv, ClientTypeOK, Steps
<1>2. ClientTypeOK'
  BY <1>1 DEF RegisterUdp, ClientInv, ClientTypeOK
<1>3. IntroducedOK'
  BY <1>1 DEF RegisterUdp, ClientInv, IntroducedOK, Introduced
<1>. QED  BY <1>1, <1>2, <1>3, QuietInv DEF RegisterUdp

LEMMA PidArrivesInv ==
    ASSUME ClientInv, NEW p \in Player, PidArrives(p)
    PROVE  ClientInv'
<1>1. ClientTypeOK'
  BY DEF PidArrives, clientVars, ClientInv, ClientTypeOK
<1>2. IntroducedOK'
  BY DEF PidArrives, clientVars, ClientInv, IntroducedOK, Introduced
<1>3. /\ stream' = stream /\ buf' = buf /\ peers' = peers /\ cut' = cut /\ step' = step
      /\ open' \subseteq open
  BY DEF PidArrives, clientVars
<1>4. step'[p] = step[p] /\ \A q \in Player \ {p} : step'[q] = step[q]
  BY <1>3
<1>. QED  BY <1>1, <1>2, <1>3, <1>4, QuietInv

\* What was sent to a player by the time its connection is closed.
LEMMA SentBefore ==
    ASSUME NEW s \in Seq(LinePart), NEW t \in Seq(LinePart), NEW n \in 0 .. Len(t)
    PROVE  /\ SubSeq(t, 1, n) \in Seq(LinePart)
           /\ Paired(s \o t) => Paired(s \o SubSeq(t, 1, n))
           /\ \A line : Holds(s \o SubSeq(t, 1, n), line) => Holds(s \o t, line)
<1>. DEFINE first == SubSeq(t, 1, n)
            u == s \o t
            v == s \o first
<1>1. /\ Len(s) \in Nat /\ Len(t) \in Nat
      /\ first \in Seq(LinePart) /\ Len(first) = n /\ \A k \in 1 .. n : first[k] = t[k]
  <2>1. n \in Nat /\ n <= Len(t)
    OBVIOUS
  <2>. QED  BY <2>1, SubSeqProperties
<1>. HIDE DEF first
<1>2. /\ Len(u) = Len(s) + Len(t) /\ Len(v) = Len(s) + n
      /\ \A k \in 1 .. Len(s) + Len(t) : u[k] = IF k <= Len(s) THEN s[k] ELSE t[k - Len(s)]
      /\ \A k \in 1 .. Len(s) + n : v[k] = IF k <= Len(s) THEN s[k] ELSE first[k - Len(s)]
  BY <1>1, ConcatProperties
<1>. HIDE DEF u, v
<1>3. \A k \in 1 .. Len(v) : k \in 1 .. Len(u) /\ v[k] = u[k]
  BY <1>1, <1>2
<1>4. Len(u) \in Nat /\ Len(v) \in Nat /\ Len(v) <= Len(u)
  BY <1>1, <1>2
<1>5. Paired(u) => Paired(v)
  <2>. SUFFICES ASSUME Paired(u), NEW k \in 1 .. Len(v), v[k].part = 1, k < Len(v)
       PROVE  v[k + 1].part = 2
    BY DEF Paired
  <2>1. k + 1 \in 1 .. Len(v) /\ k < Len(u)
    BY <1>4
  <2>. QED  BY <1>3, <2>1 DEF Paired
<1>6. \A line : Holds(v, line) => Holds(u, line)
  BY <1>3 DEF Holds
<1>. QED  BY <1>1, <1>5, <1>6 DEF first, u, v

\* A player whose connection is closed has at most its table of peers left, and is
\* missed by all.
LEMMA ClosedInv ==
    ASSUME ClientInv, ClientTypeOK', IntroducedOK',
           NEW p \in Player, p \notin open',
           peers' = peers, cut' = cut, step' = step, open' \subseteq open,
           \A q \in Player \ {p} : Unread(q)' = Unread(q),
           Paired(Unread(p)'),
           \A h \in Host : Holds(Unread(p)', PortLine(h)) => Holds(Unread(p), PortLine(h))
    PROVE  ClientInv'
<1>1. PairedOK'
  BY DEF ClientInv, PairedOK, Paired, Whole
<1>2. ASSUME NEW j \in Joiner, NEW h \in Host,
             Plays(j, h)' \/ Holds(Unread(j), PortLine(h))'
      PROVE  Known(j, h)'
  <2>1. j \in Player /\ h \in Player
    BY DEF Player
  <2>2. Holds(Unread(j)', PortLine(h)) => Holds(Unread(j), PortLine(h))
    BY <2>1
  <2>3. Plays(j, h) \/ Holds(Unread(j), PortLine(h))
    BY <1>2, <2>2 DEF Plays, Holds, PortLine, Line
  <2>4. Known(j, h)
    BY <2>3 DEF ClientInv, LinesOK
  <2>5. h \notin open' => Missed(j, h)'
    BY DEF Missed
  <2>6. Missed(j, h) => Missed(j, h)'
    BY DEF Missed
  <2>7. h \in open' /\ Holds(Unread(h), PortLine(j)) => Holds(Unread(h), PortLine(j))'
    BY <2>1 DEF Holds, PortLine, Line
  <2>. QED  BY <2>4, <2>5, <2>6, <2>7 DEF Known, Introduced
<1>3. LinesOK'
  BY <1>2 DEF LinesOK
<1>. QED  BY <1>1, <1>3 DEF ClientInv

LEMMA DisconnectInv ==
    ASSUME ClientInv, NEW p \in Player, Disconnect(p)
    PROVE  ClientInv'
<1>1. PICK n \in 0 .. Len(stream[p]) : stream' = [stream EXCEPT ![p] = SubSeq(@, 1, n)]
  BY DEF Disconnect
<1>2. buf[p] \in Seq(LinePart) /\ stream[p] \in Seq(LinePart) /\ buf' = buf
  BY DEF ClientInv, ClientTypeOK, Disconnect
<1>3. stream'[p] = SubSeq(stream[p], 1, n) /\ \A q \in Player \ {p} : stream'[q] = stream[q]
  BY <1>1 DEF ClientInv, ClientTypeOK
<1>4. /\ stream'[p] \in Seq(LinePart)
      /\ Paired(Unread(p)')
      /\ \A line : Holds(Unread(p)', line) => Holds(Unread(p), line)
  <2>. DEFINE b == buf[p]
              t == stream[p]
  <2>1. b \in Seq(LinePart) /\ t \in Seq(LinePart) /\ n \in 0 .. Len(t)
    BY <1>2
  <2>2. Unread(p) = b \o t /\ Unread(p)' = b \o SubSeq(t, 1, n) /\ stream'[p] = SubSeq(t, 1, n)
    BY <1>2, <1>3 DEF Unread
  <2>3. Paired(b \o t)
    BY <2>2 DEF ClientInv, PairedOK
  <2>. HIDE DEF b, t
  <2>4. /\ SubSeq(t, 1, n) \in Seq(LinePart)
        /\ Paired(b \o SubSeq(t, 1, n))
        /\ \A line : Holds(b \o SubSeq(t, 1, n), line) => Holds(b \o t, line)
    BY <2>1, <2>3, SentBefore
  <2>. QED  BY <2>2, <2>4
<1>5. ClientTypeOK'
  <2>1. stream' \in [Player -> Seq(LinePart)]
    BY <1>1, <1>3, <1>4 DEF ClientInv, ClientTypeOK
  <2>. QED  BY <2>1 DEF Disconnect, ClientInv, ClientTypeOK
<1>6. IntroducedOK'
  BY DEF Disconnect, ClientInv, IntroducedOK, Introduced
<1>7. \A q \in Player \ {p} : Unread(q)' = Unread(q)
  BY <1>2, <1>3 DEF Unread
<1>. QED  BY <1>4, <1>5, <1>6, <1>7, ClosedInv DEF Disconnect

LEMMA EndOfLineInv ==
    ASSUME ClientInv, NEW p \in Player, EndOfLine(p)
    PROVE  ClientInv'
<1>. DEFINE was == buf[p][1].line
<1>1. PICK line \in CutShort(was) : buf' = [buf EXCEPT ![p] = Parts(line)]
  BY DEF EndOfLine
<1>2. line \in ServerLine /\ \A h \in Host : line # PortLine(h)
  <2>1. was.command \in {"set-oid", "set-pid", "connect-relay", "tail"}
    <3>1. buf[p] \in Seq(LinePart) /\ Len(buf[p]) = 1
      BY DEF ClientInv, ClientTypeOK, EndOfLine
    <3>2. buf[p][1] \in LinePart
      BY <3>1
    <3>. QED  BY <3>2 DEF LinePart, ServerLine
  <2>2. \A h \in Host : h # NoPlayer /\ h # Stranger
    BY ClientAssumption DEF Player
  <2>. HIDE DEF was
  <2>. QED  BY <2>1, <2>2 DEF CutShort, Line, PortLine, ServerLine, Peer
<1>. HIDE DEF was
<1>3. /\ Parts(line) \in Seq(LinePart)
      /\ Paired(Parts(line))
      /\ \A h \in Host : ~Holds(Parts(line), PortLine(h))
  <2>1. /\ Parts(line) \in Seq(LinePart) /\ Len(Parts(line)) = 2
        /\ Parts(line)[1].line = line /\ Parts(line)[2].part = 2
    BY <1>2, PartsFacts
  <2>2. \A k \in 1 .. 2 : k = 1 \/ k = 2
    OBVIOUS
  <2>3. Parts(line)[2].line = line
    BY DEF Parts
  <2>. DEFINE l == Parts(line)
  <2>4. Paired(l)
    BY <2>1, <2>2 DEF Paired
  <2>5. \A h \in Host : ~Holds(l, PortLine(h))
    BY <1>2, <2>1, <2>2, <2>3 DEF Holds
  <2>. QED  BY <2>1, <2>4, <2>5
<1>4. /\ p \notin open /\ stream[p] = << >>
      /\ stream' = stream /\ open' = open /\ step' = step /\ peers' = peers /\ cut' = cut
      /\ rinfo' = rinfo /\ pids' = pids /\ asked' = asked
      /\ step[p] # "off"
  BY DEF EndOfLine, serverVars, Reading
<1>5. /\ buf'[p] = Parts(line) /\ \A q \in Player \ {p} : buf'[q] = buf[q]
      /\ buf' \in [Player -> Seq(LinePart)]
  BY <1>1, <1>3 DEF ClientInv, ClientTypeOK
<1>6. Unread(p)' = Parts(line) /\ \A q \in Player \ {p} : Unread(q)' = Unread(q)
  <2>. DEFINE l == Parts(line)
  <2>1. l \in Seq(LinePart) /\ Unread(p)' = l \o << >>
    BY <1>3, <1>4, <1>5 DEF Unread
  <2>. HIDE DEF l
  <2>2. l \o << >> = l
    BY <2>1
  <2>. QED  BY <1>4, <1>5, <2>1, <2>2 DEF Unread, l
<1>7. ClientTypeOK'
  BY <1>4, <1>5 DEF ClientInv, ClientTypeOK
<1>8. IntroducedOK'
  BY <1>4, <1>5 DEF ClientInv, IntroducedOK, Introduced
<1>. QED  BY <1>3, <1>4, <1>6, <1>7, <1>8, ClosedInv

LEMMA StartInv ==
    ASSUME ClientInv, NEW p \in Player, Start(p)
    PROVE  ClientInv'
<1>. DEFINE oid == Line("set-oid", NoPlayer)
            pid == Line("set-pid", NoPlayer)
            sent == Parts(oid) \o Parts(pid)
<1>1. /\ step[p] = "off" /\ buf[p] = << >>
      /\ step' = [step EXCEPT ![p] = "registering"]
      /\ stream' = [stream EXCEPT ![p] = sent]
      /\ open' = open \union {p}
      /\ peers' = peers /\ buf' = buf /\ asked' = asked /\ cut' = cut
      /\ rinfo' = rinfo /\ pids' = pids
  BY DEF Start, ClientInv, IntroducedOK
<1>2. oid \in ServerLine /\ pid \in ServerLine
  BY DEF Line, ServerLine, Peer
<1>3. Parts(oid) \in Seq(LinePart) /\ \A line : Holds(Parts(oid), line) => line = oid
  <2>1. Parts(oid) = << [line |-> oid, part |-> 1], [line |-> oid, part |-> 2] >>
    BY DEF Parts
  <2>. HIDE DEF oid
  <2>2. Parts(oid) \in Seq(LinePart) /\ Len(Parts(oid)) = 2
    BY <1>2, PartsFacts
  <2>3. \A k \in 1 .. 2 : Parts(oid)[k].line = oid
    BY <2>1
  <2>. QED  BY <2>2, <2>3 DEF Holds
<1>4. Paired(Parts(oid)) /\ Whole(Parts(oid))
  <2>. HIDE DEF oid
  <2>1. Len(Parts(oid)) = 2 /\ Parts(oid)[2].part = 2
    BY <1>2, PartsFacts
  <2>2. \A k \in 1 .. 2 : k = 1 \/ k = 2
    OBVIOUS
  <2>. QED  BY <2>1, <2>2 DEF Paired, Whole
<1>. HIDE DEF oid, pid
<1>5. /\ sent \in Seq(LinePart) /\ Paired(sent) /\ Whole(sent)
      /\ \A line : Holds(sent, line) => line = oid \/ line = pid
  BY <1>2, <1>3, <1>4, SentFacts
<1>. HIDE DEF sent
<1>6. /\ Unread(p)' = sent
      /\ \A q \in Player \ {p} : Unread(q)' = Unread(q) /\ step'[q] = step[q]
      /\ step'[p] = "registering"
  BY <1>1, <1>5 DEF Unread, ClientInv, ClientTypeOK
<1>7. ClientTypeOK'
  BY <1>1, <1>5 DEF ClientInv, ClientTypeOK, Steps
<1>8. IntroducedOK'
  BY <1>1, <1>6 DEF ClientInv, IntroducedOK, Introduced
<1>9. PairedOK'
  BY <1>1, <1>5, <1>6 DEF ClientInv, PairedOK, Paired, Whole
<1>10. ASSUME NEW j \in Joiner, NEW h \in Host,
              Plays(j, h)' \/ Holds(Unread(j), PortLine(h))'
       PROVE  Known(j, h)'
  <2>1. j \in Player /\ h \in Player
    BY DEF Player
  <2>2. j # p
    <3>1. ~Holds(sent, PortLine(h))
      BY <1>5 DEF PortLine, Line, oid, pid
    <3>. QED  BY <1>6, <1>10, <3>1 DEF Plays, Holds
  <2>3. Plays(j, h) \/ Holds(Unread(j), PortLine(h))
    BY <1>1, <1>6, <1>10, <2>1, <2>2 DEF Plays, Holds
  <2>4. Known(j, h) /\ h # p
    BY <1>1, <2>3 DEF ClientInv, LinesOK, Known, Introduced
  <2>5. Missed(j, h) => Missed(j, h)'
    BY <1>1, <1>6, <2>1, <2>4 DEF Missed
  <2>6. Holds(Unread(h), PortLine(j)) => Holds(Unread(h), PortLine(j))'
    BY <1>6, <2>1, <2>4 DEF Holds
  <2>. QED  BY <1>1, <1>6, <2>1, <2>4, <2>5, <2>6 DEF Known, Introduced
<1>11. LinesOK'
  BY <1>10 DEF LinesOK
<1>. QED  BY <1>7, <1>8, <1>9, <1>11 DEF ClientInv

\* The line for the host is sent with the one for the joiner, to a host that has
\* introduced itself.
LEMMA AnswerInv ==
    ASSUME ClientInv, NEW a \in Joiner, Answer(a)
    PROVE  ClientInv'
<1>0. PICK g \in Host : asked[a] = g
  BY DEF Answer, ClientInv, ClientTypeOK, Player
<1>1. a \in Player /\ g \in Player /\ g # a
  BY ClientAssumption DEF Player
<1>2. /\ step' = step /\ peers' = peers /\ buf' = buf /\ open' = open
      /\ rinfo' = rinfo /\ pids' = pids /\ cut' = cut
      /\ asked' = [asked EXCEPT ![a] = NoPlayer]
  BY DEF Answer
<1>3. /\ PortLine(g) \in ServerLine /\ PortLine(a) \in ServerLine
      /\ PortLine(NoPlayer) \in ServerLine
  BY <1>1 DEF PortLine, Line, ServerLine, Peer
<1>4. \A q \in Player : buf[q] \in Seq(LinePart) /\ stream[q] \in Seq(LinePart)
  BY DEF ClientInv, ClientTypeOK
\* All that the answer adds, whether a port or an error.
<1>5. ASSUME NEW q \in Player
      PROVE  \/ stream'[q] = stream[q]
             \/ \E line \in {PortLine(g), PortLine(NoPlayer)} :
                   q = a /\ q \in open /\ stream'[q] = stream[q] \o Parts(line)
             \/ q = g /\ q \in open /\ stream'[q] = stream[q] \o Parts(PortLine(a))
  BY <1>0, <1>1 DEF Answer, PortLine, ClientInv, ClientTypeOK, IntroducedOK
<1>6. ASSUME NEW q \in Player
      PROVE  \/ Unread(q)' = Unread(q)
             \/ \E line \in {PortLine(g), PortLine(NoPlayer)} :
                   q = a /\ q \in open /\ Unread(q)' = Unread(q) \o Parts(line)
             \/ q = g /\ q \in open /\ Unread(q)' = Unread(q) \o Parts(PortLine(a))
  <2>1. ASSUME NEW line \in ServerLine, stream'[q] = stream[q] \o Parts(line)
        PROVE  Unread(q)' = Unread(q) \o Parts(line)
    <3>. DEFINE b == buf[q]
                s == stream[q]
                n == Parts(line)
    <3>1. b \in Seq(LinePart) /\ s \in Seq(LinePart) /\ n \in Seq(LinePart)
      BY <1>4, PartsFacts
    <3>2. Unread(q)' = b \o (s \o n)
      BY <1>2, <2>1 DEF Unread
    <3>. HIDE DEF b, s, n
    <3>3. b \o (s \o n) = (b \o s) \o n
      BY <3>1
    <3>. QED  BY <3>2, <3>3 DEF b, s, n, Unread
  <2>2. stream'[q] = stream[q] => Unread(q)' = Unread(q)
    BY <1>2 DEF Unread
  <2>. QED  BY <1>3, <1>5, <2>1, <2>2
<1>7. \A q \in Player : Unread(q) \in Seq(LinePart)
  BY <1>4, ConcatProperties DEF Unread
<1>8. ASSUME NEW q \in Player
      PROVE  /\ Paired(Unread(q)') /\ (q \in open => Whole(Unread(q)'))
             /\ \A line : Holds(Unread(q), line) => Holds(Unread(q)', line)
             /\ \A line : Holds(Unread(q)', line) =>
                   \/ Holds(Unread(q), line)
                   \/ q = a /\ line \in {PortLine(g), PortLine(NoPlayer)}
                   \/ q = g
  <2>1. /\ Paired(Unread(q)) /\ (q \in open => Whole(Unread(q)))
        /\ Unread(q) \in Seq(LinePart)
    BY <1>7 DEF ClientInv, PairedOK
  <2>2. CASE Unread(q)' = Unread(q)
    BY <2>1, <2>2
  <2>3. ASSUME NEW line \in ServerLine, Unread(q)' = Unread(q) \o Parts(line), q \in open,
               \/ q = a /\ line \in {PortLine(g), PortLine(NoPlayer)}
               \/ q = g
        PROVE  /\ Paired(Unread(q)') /\ Whole(Unread(q)')
               /\ \A l : Holds(Unread(q), l) => Holds(Unread(q)', l)
               /\ \A l : Holds(Unread(q)', l) =>
                     \/ Holds(Unread(q), l)
                     \/ q = a /\ l \in {PortLine(g), PortLine(NoPlayer)}
                     \/ q = g
    <3>0. Paired(Unread(q)) /\ Whole(Unread(q))
      BY <2>1, <2>3
    <3>1. /\ Paired(Unread(q) \o Parts(line)) /\ Whole(Unread(q) \o Parts(line))
          /\ \A l : Holds(Unread(q) \o Parts(line), l) <=> Holds(Unread(q), l) \/ l = line
      BY <2>1, <3>0, SentFacts
    <3>. QED  BY <2>3, <3>1
  <2>. QED  BY <1>3, <1>6, <2>2, <2>3
<1>9. ClientTypeOK'
  <2>1. ASSUME NEW q \in Player  PROVE stream'[q] \in Seq(LinePart)
    <3>1. \A line \in ServerLine : stream[q] \o Parts(line) \in Seq(LinePart)
      BY <1>4, SentFacts
    <3>. QED  BY <1>3, <1>4, <1>5, <3>1
  <2>2. stream' \in [Player -> Seq(LinePart)]
    <3>1. DOMAIN stream' = Player /\ stream' = [q \in DOMAIN stream' |-> stream'[q]]
      BY DEF Answer, ClientInv, ClientTypeOK
    <3>. QED  BY <2>1, <3>1
  <2>. QED  BY <1>2, <2>2 DEF ClientInv, ClientTypeOK
<1>10. IntroducedOK'
  BY <1>2 DEF ClientInv, IntroducedOK, Introduced
<1>11. PairedOK'
  BY <1>2, <1>8 DEF PairedOK, Paired, Whole
\* With a port for the joiner there is a line for the host.
<1>12. ASSUME Holds(Unread(a)', PortLine(g)), ~Holds(Unread(a), PortLine(g))
       PROVE  Introduced(g) /\ Holds(Unread(g)', PortLine(a))
  <2>1. g # NoPlayer /\ PortLine(g) # PortLine(NoPlayer)
    BY <1>1, ClientAssumption DEF PortLine, Line
  <2>2. CASE /\ g \in rinfo
             /\ stream'[g] = stream[g] \o Parts(PortLine(a))
    <3>1. Introduced(g)
      BY <1>1, <2>2 DEF ClientInv, IntroducedOK
    <3>2. Holds(stream[g] \o Parts(PortLine(a)), PortLine(a))
      BY <1>1, <1>3, <1>4, SentFacts
    <3>3. Unread(g)' = buf[g] \o (stream[g] \o Parts(PortLine(a)))
      BY <1>2, <2>2 DEF Unread
    <3>4. stream[g] \o Parts(PortLine(a)) \in Seq(LinePart)
      BY <1>1, <1>3, <1>4, SentFacts
    <3>5. Holds(buf[g] \o (stream[g] \o Parts(PortLine(a))), PortLine(a))
      BY <1>1, <1>4, <3>2, <3>4, ConcatHolds
    <3>. QED  BY <3>1, <3>3, <3>5
  <2>3. CASE stream'[a] \in {stream[a], stream[a] \o Parts(PortLine(NoPlayer))}
    <3>1. ~Holds(buf[a], PortLine(g)) /\ ~Holds(stream[a], PortLine(g))
      BY <1>1, <1>4, <1>12, ConcatHolds DEF Unread
    <3>2. ~Holds(stream'[a], PortLine(g)) /\ stream'[a] \in Seq(LinePart)
      BY <1>1, <1>3, <1>4, <2>1, <2>3, <3>1, SentFacts
    <3>3. Unread(a)' = buf[a] \o stream'[a]
      BY <1>2 DEF Unread
    <3>. QED  BY <1>1, <1>4, <1>12, <3>1, <3>2, <3>3, ConcatHolds
  <2>. QED  BY <1>0, <1>1, <2>2, <2>3 DEF Answer, PortLine, ClientInv, ClientTypeOK
<1>13. ASSUME NEW j \in Joiner, NEW h \in Host,
              Plays(j, h)' \/ Holds(Unread(j), PortLine(h))'
       PROVE  Known(j, h)'
  <2>1. j \in Player /\ h \in Player /\ j # g
    BY <1>1, ClientAssumption DEF Player
  <2>2. CASE Plays(j, h) \/ Holds(Unread(j), PortLine(h))
    <3>1. Known(j, h)
      BY <2>2 DEF ClientInv, LinesOK
    <3>2. Missed(j, h) => Missed(j, h)'
      BY <1>2 DEF Missed
    <3>3. Holds(Unread(h), PortLine(j)) => Holds(Unread(h), PortLine(j))'
      BY <1>8, <2>1 DEF Holds, PortLine, Line
    <3>. QED  BY <1>2, <3>1, <3>2, <3>3 DEF Known, Introduced
  <2>3. CASE ~Plays(j, h) /\ ~Holds(Unread(j), PortLine(h))
    <3>1. ~Plays(j, h)'
      BY <1>2, <2>3 DEF Plays
    <3>2. Holds(Unread(j)', PortLine(h))
      BY <1>13, <3>1 DEF Holds, PortLine, Line
    <3>3. j = a /\ PortLine(h) \in {PortLine(g), PortLine(NoPlayer)}
      BY <1>8, <2>1, <2>3, <3>2
    <3>4. h = g
      BY <2>1, <3>3, ClientAssumption DEF PortLine, Line
    <3>5. Introduced(h) /\ Holds(Unread(h)', PortLine(j))
      BY <1>12, <2>3, <3>2, <3>3, <3>4
    <3>6. Holds(Unread(h), PortLine(j))'
      BY <3>5 DEF Holds, PortLine, Line
    <3>. QED  BY <1>2, <3>5, <3>6 DEF Known, Introduced
  <2>. QED  BY <2>2, <2>3
<1>14. LinesOK'
  BY <1>13 DEF LinesOK
<1>. QED  BY <1>9, <1>10, <1>11, <1>14 DEF ClientInv

-----------------------------------------------------------------------------
(* Theorems                                                                 *)

LEMMA SetupInitInv == SetupInit => ClientInv
<1>. SUFFICES ASSUME SetupInit  PROVE ClientInv
  OBVIOUS
<1>1. ClientTypeOK
  BY DEF SetupInit, ClientTypeOK, Steps
<1>2. IntroducedOK
  BY DEF SetupInit, IntroducedOK
<1>3. \A p \in Player : Len(Unread(p)) = 0
  BY DEF SetupInit, Unread
<1>4. PairedOK
  BY <1>3 DEF PairedOK, Paired, Whole
<1>5. LinesOK
  <2>. SUFFICES ASSUME NEW j \in Joiner, NEW h \in Host
       PROVE  ~Plays(j, h) /\ ~Holds(Unread(j), PortLine(h))
    BY DEF LinesOK
  <2>1. j \in Player
    BY DEF Player
  <2>. QED  BY <1>3, <2>1 DEF SetupInit, Plays, Holds
<1>. QED  BY <1>1, <1>2, <1>4, <1>5 DEF ClientInv

LEMMA SetupNextInv == ClientInv /\ [SetupNext]_setupVars => ClientInv'
<1>. SUFFICES ASSUME ClientInv, [SetupNext]_setupVars  PROVE ClientInv'
  OBVIOUS
<1>1. ASSUME NEW p \in Player, ReadStep(p)  PROVE ClientInv'
  BY <1>1, ReadStepInv
<1>2. ASSUME NEW p \in Player, Start(p)  PROVE ClientInv'
  BY <1>2, StartInv
<1>3. ASSUME NEW p \in Player,
             RegisterUdp(p) \/ PidArrives(p) \/ Disconnect(p) \/ EndOfLine(p)
      PROVE  ClientInv'
  BY <1>3, RegisterUdpInv, PidArrivesInv, DisconnectInv, EndOfLineInv
<1>4. ASSUME NEW a \in Joiner, Answer(a)  PROVE ClientInv'
  BY <1>4, AnswerInv
<1>5. CASE UNCHANGED setupVars
  BY <1>5 DEF setupVars, clientVars, serverVars, ClientInv, ClientTypeOK, IntroducedOK,
     Introduced, PairedOK, Paired, Whole, LinesOK, Plays, Holds, Known, Missed, Unread
<1>6. Host \subseteq Player /\ Joiner \subseteq Player
  BY DEF Player
<1>. QED  BY <1>1, <1>2, <1>3, <1>4, <1>5, <1>6 DEF SetupNext, ReadStep

LEMMA ClientKnows == ClientInv => JoinersKnown
<1>. SUFFICES ASSUME ClientInv, NEW j \in Joiner, NEW h \in Host, Plays(j, h)
     PROVE  j \in Range(peers[h]) \/ Coming(j, h) \/ Missed(j, h)
  BY DEF JoinersKnown
<1>1. Known(j, h)
  BY DEF ClientInv, LinesOK
<1>2. Unread(h) \in Seq(LinePart)
  BY ConcatProperties DEF ClientInv, ClientTypeOK, Unread, Player
<1>3. ASSUME Holds(Unread(h), PortLine(j))  PROVE Coming(j, h)
  <2>1. PICK k \in 1 .. Len(Unread(h)) :
            Unread(h)[k].line = PortLine(j) /\ Unread(h)[k].part = 1
    BY <1>3 DEF Holds
  <2>2. k \in DOMAIN Unread(h)
    BY <1>2
  <2>. QED  BY <2>1, <2>2 DEF Coming, PortLine, Unread
<1>. QED  BY <1>1, <1>3 DEF Known

\* A joiner that plays is known to its host, or will be, for any number of hosts and
\* joiners and any limits on their reads: its line is lost only to a timeout that
\* cuts it in two, or with the host's connection.
THEOREM JoinersStayKnown == SetupSpec => []JoinersKnown
BY SetupInitInv, SetupNextInv, ClientKnows, PTL DEF SetupSpec

=============================================================================
