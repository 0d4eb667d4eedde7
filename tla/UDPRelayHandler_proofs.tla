----------------------- MODULE UDPRelayHandler_proofs -----------------------
(***************************************************************************)
(* Proofs about UDPRelayHandler, for every set of addresses, every finite  *)
(* set of ports and all positive timeouts.                                 *)
(***************************************************************************)
EXTENDS UDPRelayHandler, Collections_proofs

-----------------------------------------------------------------------------
(* Sequences without repetition                                             *)

\* The top of a stack without repetition is not below it.
LEMMA PopFacts ==
    ASSUME NEW S, NEW s \in Seq(S), HasFreePort(s)
    PROVE  /\ Popped(s) \in Seq(S)
           /\ Len(Popped(s)) = Len(s) - 1
           /\ NextPort(s) \in S
           /\ NextPort(s) \in Range(s)
           /\ Range(Popped(s)) \subseteq Range(s)
           /\ IsInjective(s) => /\ IsInjective(Popped(s))
                                /\ NextPort(s) \notin Range(Popped(s))
<1>1. /\ Len(s) \in Nat /\ Len(s) > 0
      /\ DOMAIN s = 1 .. Len(s)
      /\ \A i \in 1 .. Len(s) : s[i] \in S
  BY LenProperties, ElementOfSeq DEF HasFreePort
<1>2. /\ Popped(s) \in Seq(S)
      /\ Len(Popped(s)) = Len(s) - 1
      /\ \A i \in 1 .. Len(s) - 1 : Popped(s)[i] = s[i]
  <2>1. \A i \in 1 .. Len(s) - 1 : s[i] \in S
    BY <1>1
  <2>2. /\ SubSeq(s, 1, Len(s) - 1) \in Seq(S)
        /\ Len(SubSeq(s, 1, Len(s) - 1)) = IF 1 <= Len(s) - 1 THEN Len(s) - 1 - 1 + 1 ELSE 0
        /\ \A i \in 1 .. Len(s) - 1 - 1 + 1 : SubSeq(s, 1, Len(s) - 1)[i] = s[1 + i - 1]
    BY <1>1, <2>1, SubSeqProperties
  <2>. QED  BY <1>1, <2>2 DEF Popped, Front
<1>3. DOMAIN Popped(s) = 1 .. Len(s) - 1
  BY <1>2, LenProperties
<1>. QED  BY <1>1, <1>2, <1>3 DEF NextPort, Last, Range, IsInjective

\* Two stacks without repetition and without a common port can be joined.
LEMMA ConcatFacts ==
    ASSUME NEW S, NEW s \in Seq(S), NEW t \in Seq(S)
    PROVE  /\ s \o t \in Seq(S)
           /\ Range(s \o t) = Range(s) \union Range(t)
           /\ IsInjective(s) /\ IsInjective(t) /\ Range(s) \intersect Range(t) = {}
                => IsInjective(s \o t)
<1>1. /\ Len(s) \in Nat /\ DOMAIN s = 1 .. Len(s)
      /\ Len(t) \in Nat /\ DOMAIN t = 1 .. Len(t)
  BY LenProperties
<1>2. /\ s \o t \in Seq(S)
      /\ Len(s \o t) = Len(s) + Len(t)
      /\ \A i \in 1 .. Len(s) + Len(t) :
            (s \o t)[i] = IF i <= Len(s) THEN s[i] ELSE t[i - Len(s)]
  BY ConcatProperties
<1>3. DOMAIN (s \o t) = 1 .. Len(s) + Len(t)
  BY <1>2, LenProperties
<1>4. Range(s \o t) \subseteq Range(s) \union Range(t)
  <2>. SUFFICES ASSUME NEW i \in 1 .. Len(s) + Len(t)
                PROVE  (s \o t)[i] \in Range(s) \union Range(t)
    BY <1>3 DEF Range
  <2>1. CASE i <= Len(s)
    BY <1>1, <1>2, <2>1 DEF Range
  <2>2. CASE ~(i <= Len(s))
    <3>1. i - Len(s) \in 1 .. Len(t)
      BY <1>1, <2>2
    <3>. QED  BY <1>1, <1>2, <2>2, <3>1 DEF Range
  <2>. QED  BY <2>1, <2>2
<1>5. Range(s) \subseteq Range(s \o t)
  <2>1. \A i \in 1 .. Len(s) : i \in 1 .. Len(s) + Len(t) /\ (s \o t)[i] = s[i]
    BY <1>1, <1>2
  <2>. QED  BY <1>1, <1>3, <2>1 DEF Range
<1>6. Range(t) \subseteq Range(s \o t)
  <2>1. \A i \in 1 .. Len(t) :
           /\ i + Len(s) \in 1 .. Len(s) + Len(t)
           /\ (s \o t)[i + Len(s)] = t[i]
    BY <1>1, <1>2
  <2>. QED  BY <1>1, <1>3, <2>1 DEF Range
<1>7. ASSUME IsInjective(s), IsInjective(t), Range(s) \intersect Range(t) = {},
             NEW i \in 1 .. Len(s) + Len(t), NEW j \in 1 .. Len(s) + Len(t),
             (s \o t)[i] = (s \o t)[j]
      PROVE  i = j
  <2>1. CASE i <= Len(s) /\ j <= Len(s)
    BY <1>1, <1>2, <1>7, <2>1 DEF IsInjective
  <2>2. CASE i > Len(s) /\ j > Len(s)
    <3>1. /\ i - Len(s) \in DOMAIN t /\ j - Len(s) \in DOMAIN t
          /\ t[i - Len(s)] = t[j - Len(s)]
      BY <1>1, <1>2, <1>7, <2>2
    <3>2. i - Len(s) = j - Len(s)
      BY <1>7, <3>1 DEF IsInjective
    <3>. QED  BY <1>1, <3>2
  <2>3. CASE i <= Len(s) /\ j > Len(s)
    <3>1. i \in DOMAIN s /\ j - Len(s) \in DOMAIN t /\ s[i] = t[j - Len(s)]
      BY <1>1, <1>2, <1>7, <2>3
    <3>. QED  BY <1>7, <3>1 DEF Range
  <2>4. CASE i > Len(s) /\ j <= Len(s)
    <3>1. j \in DOMAIN s /\ i - Len(s) \in DOMAIN t /\ s[j] = t[i - Len(s)]
      BY <1>1, <1>2, <1>7, <2>4
    <3>. QED  BY <1>7, <3>1 DEF Range
  <2>. QED  BY <1>1, <2>1, <2>2, <2>3, <2>4
<1>. QED  BY <1>2, <1>3, <1>4, <1>5, <1>6, <1>7 DEF IsInjective

-----------------------------------------------------------------------------
(* Tables                                                                   *)

AddressesDiffer(T) == \A e, f \in T : e.address = f.address => e = f

PortsDiffer(T) == \A e, f \in T : e.port = f.port => e = f

PortsOf(T) == {e.port : e \in T}

\* Entry e of a later table stems from entry d: only its times are different.
Stems(e, d) == e.address = d.address /\ e.port = d.port

\* Relaying a datagram changes times only, and makes no entry older.
LEMMA TouchedFacts ==
    ASSUME NEW T \in SUBSET RelayEntry, NEW s, NEW t
    PROVE  /\ Touched(T, s, t) \subseteq RelayEntry
           /\ \A e \in Touched(T, s, t) :
                 \E d \in T : Stems(e, d) /\ IdleFor(e) <= IdleFor(d)
           /\ \A d \in T : \E e \in Touched(T, s, t) : Stems(e, d)
           /\ PortsOf(Touched(T, s, t)) = PortsOf(T)
           /\ AddressesDiffer(T) => AddressesDiffer(Touched(T, s, t))
           /\ PortsDiffer(T) => PortsDiffer(Touched(T, s, t))
<1>1. ASSUME NEW d \in T
      PROVE  /\ Touch(d, s, t) \in RelayEntry
             /\ Stems(Touch(d, s, t), d)
             /\ IdleFor(Touch(d, s, t)) <= IdleFor(d)
  <2>1. /\ d \in RelayEntry
        /\ d.lastSent \in Age /\ d.lastReceived \in Age
    BY DEF RelayEntry
  <2>2. 0 \in Age
    BY TimesAssumption DEF Age, MaxAge
  <2>3. Touch(d, s, t) \in RelayEntry
    BY <2>1, <2>2 DEF Touch, RelayEntry
  <2>4. Stems(Touch(d, s, t), d)
    BY <2>1 DEF Touch, RelayEntry, Stems
  <2>5. /\ Touch(d, s, t).lastSent = IF d = t THEN 0 ELSE d.lastSent
        /\ Touch(d, s, t).lastReceived = IF d = s THEN 0 ELSE d.lastReceived
    BY <2>1 DEF Touch, RelayEntry
  <2>6. IdleFor(Touch(d, s, t)) <= IdleFor(d)
    BY <2>1, <2>5, TimesAssumption DEF IdleFor, Age, MaxAge
  <2>. QED  BY <2>3, <2>4, <2>6
<1>2. \A e \in Touched(T, s, t) : \E d \in T : e = Touch(d, s, t)
  BY DEF Touched
<1>3. \A d \in T : Touch(d, s, t) \in Touched(T, s, t)
  BY DEF Touched
<1>4. PortsOf(Touched(T, s, t)) = PortsOf(T)
  BY <1>1, <1>2, <1>3 DEF PortsOf, Stems
<1>5. AddressesDiffer(T) => AddressesDiffer(Touched(T, s, t))
  BY <1>1, <1>2 DEF AddressesDiffer, Stems
<1>6. PortsDiffer(T) => PortsDiffer(Touched(T, s, t))
  BY <1>1, <1>2 DEF PortsDiffer, Stems
<1>7. Touched(T, s, t) \subseteq RelayEntry
  BY <1>1, <1>2
<1>8. \A e \in Touched(T, s, t) :
         \E d \in T : Stems(e, d) /\ IdleFor(e) <= IdleFor(d)
  BY <1>1, <1>2
<1>9. \A d \in T : \E e \in Touched(T, s, t) : Stems(e, d)
  BY <1>1, <1>3
<1>. QED  BY <1>4, <1>5, <1>6, <1>7, <1>8, <1>9

\* A tick makes every entry older by at most one and changes nothing else.
LEMMA AgedFacts ==
    ASSUME NEW T \in SUBSET RelayEntry, NEW U, U = {Aged(e) : e \in T}
    PROVE  /\ U \subseteq RelayEntry
           /\ \A e \in U : \E d \in T : Stems(e, d) /\ IdleFor(e) <= IdleFor(d) + 1
           /\ \A d \in T : \E e \in U : Stems(e, d)
           /\ PortsOf(U) = PortsOf(T)
           /\ AddressesDiffer(T) => AddressesDiffer(U)
           /\ PortsDiffer(T) => PortsDiffer(U)
<1>1. ASSUME NEW d \in T
      PROVE  /\ Aged(d) \in RelayEntry
             /\ Stems(Aged(d), d)
             /\ IdleFor(Aged(d)) <= IdleFor(d) + 1
  <2>1. /\ d \in RelayEntry
        /\ d.lastSent \in Age /\ d.lastReceived \in Age
    BY DEF RelayEntry
  <2>2. /\ Older(d.lastSent) \in Age /\ Older(d.lastReceived) \in Age
        /\ Older(d.lastSent) <= d.lastSent + 1
        /\ Older(d.lastReceived) <= d.lastReceived + 1
    BY <2>1, TimesAssumption DEF Older, Age, MaxAge
  <2>3. Aged(d) \in RelayEntry
    BY <2>1, <2>2 DEF Aged, RelayEntry
  <2>4. Stems(Aged(d), d)
    BY <2>1 DEF Aged, RelayEntry, Stems
  <2>5. /\ Aged(d).lastSent = Older(d.lastSent)
        /\ Aged(d).lastReceived = Older(d.lastReceived)
    BY <2>1 DEF Aged, RelayEntry
  <2>6. IdleFor(Aged(d)) <= IdleFor(d) + 1
    BY <2>1, <2>2, <2>5, TimesAssumption DEF IdleFor, Age, MaxAge
  <2>. QED  BY <2>3, <2>4, <2>6
<1>2. /\ \A e \in U : \E d \in T : e = Aged(d)
      /\ \A d \in T : Aged(d) \in U
  OBVIOUS
<1>3. PortsOf(U) = PortsOf(T)
  BY <1>1, <1>2 DEF PortsOf, Stems
<1>4. AddressesDiffer(T) => AddressesDiffer(U)
  BY <1>1, <1>2 DEF AddressesDiffer, Stems
<1>5. PortsDiffer(T) => PortsDiffer(U)
  BY <1>1, <1>2 DEF PortsDiffer, Stems
<1>. QED  BY <1>1, <1>2, <1>3, <1>4, <1>5

\* A new entry for a new address on a new port.
LEMMA NewRelayFacts ==
    ASSUME NEW T \in SUBSET RelayEntry, NEW a \in Address, NEW p \in Port,
           \A e \in T : e.address # a,
           p \notin PortsOf(T)
    PROVE  /\ T \union {NewRelay(a, p)} \subseteq RelayEntry
           /\ PortsOf(T \union {NewRelay(a, p)}) = PortsOf(T) \union {p}
           /\ AddressesDiffer(T) => AddressesDiffer(T \union {NewRelay(a, p)})
           /\ PortsDiffer(T) => PortsDiffer(T \union {NewRelay(a, p)})
           /\ IdleFor(NewRelay(a, p)) = 0
<1>1. /\ NewRelay(a, p) \in RelayEntry
      /\ NewRelay(a, p).address = a
      /\ NewRelay(a, p).port = p
      /\ IdleFor(NewRelay(a, p)) = 0
  BY TimesAssumption DEF NewRelay, RelayEntry, Age, Epoch, MaxAge, IdleFor
<1>. QED  BY <1>1 DEF PortsOf, AddressesDiffer, PortsDiffer

-----------------------------------------------------------------------------
(* The inductive invariant                                                  *)

\* RetentionBound is not inductive: how old an idle entry can be depends on
\* when the cleanup job last ran.
RetentionInd ==
    \A e \in relayTable : IdleFor(e) < RelayTimeout + sinceCleanup

Inv ==
    /\ TypeOK
    /\ AddressUnique
    /\ PortExclusive
    /\ SocketBacked
    /\ RetentionInd

LEMMA InitInv == Init => Inv
<1>. SUFFICES ASSUME Init  PROVE Inv
  OBVIOUS
<1>1. IsFiniteSet(sockets)
  BY PortsAssumption, FS_Subset DEF Init, PoolStarted
<1>2. freePorts \in Seq(sockets) /\ IsInjective(freePorts) /\ Range(freePorts) = sockets
  BY <1>1, SetToSeqsFacts DEF Init, PoolStarted
<1>3. freePorts \in Seq(Port)
  BY <1>2, SeqMonotonic DEF Init, PoolStarted
<1>4. TypeOK
  BY <1>3, TimesAssumption DEF Init, PoolStarted, TypeOK, PoolTypeOK, Status
<1>. QED
  BY <1>2, <1>4 DEF Init, Inv, AddressUnique, PortExclusive, SocketBacked, RetentionInd, TablePorts

\* The table is finite, because its entries have different ports.
LEMMA TableFinite == Inv => IsFiniteSet(relayTable)
<1>. SUFFICES ASSUME Inv  PROVE IsFiniteSet(relayTable)
  OBVIOUS
<1>. DEFINE f == [e \in relayTable |-> e.port]
<1>1. f \in [relayTable -> Port]
  BY DEF Inv, TypeOK, RelayEntry
<1>2. IsInjective(f)
  BY DEF Inv, PortExclusive, IsInjective
<1>3. f \in Injection(relayTable, Port)
  BY <1>1, <1>2 DEF Injection
<1>. QED  BY <1>3, PortsAssumption, FS_Injection

LEMMA CreateRelayInv ==
    ASSUME Inv, NEW a \in Address, CreateRelay(a)
    PROVE  Inv'
<1>. DEFINE p == NextPort(freePorts)
<1>1. /\ freePorts' \in Seq(Port) /\ IsInjective(freePorts')
      /\ p \in Port /\ p \in Range(freePorts) /\ p \notin Range(freePorts')
      /\ Range(freePorts') \subseteq Range(freePorts)
  BY PopFacts DEF Inv, TypeOK, PoolTypeOK, PortExclusive, CreateRelay
<1>2. /\ relayTable \in SUBSET RelayEntry
      /\ \A e \in relayTable : e.address # a
      /\ p \notin PortsOf(relayTable)
      /\ AddressesDiffer(relayTable) /\ PortsDiffer(relayTable)
  BY <1>1 DEF Inv, TypeOK, CreateRelay, HasRelay, PortExclusive, AddressUnique,
              TablePorts, PortsOf, AddressesDiffer, PortsDiffer
<1>3. /\ relayTable' = relayTable \union {NewRelay(a, p)}
      /\ relayTable' \subseteq RelayEntry
      /\ PortsOf(relayTable') = PortsOf(relayTable) \union {p}
      /\ AddressesDiffer(relayTable') /\ PortsDiffer(relayTable')
      /\ IdleFor(NewRelay(a, p)) = 0
  BY <1>1, <1>2, NewRelayFacts DEF CreateRelay
<1>4. TypeOK'
  BY <1>1, <1>3 DEF Inv, TypeOK, PoolTypeOK, CreateRelay
<1>5. AddressUnique'
  BY <1>3 DEF AddressUnique, AddressesDiffer
<1>6. PortExclusive'
  BY <1>1, <1>3 DEF Inv, PortExclusive, PortsDiffer, PortsOf, TablePorts
<1>7. SocketBacked'
  BY <1>1, <1>3 DEF Inv, SocketBacked, PortsOf, TablePorts, CreateRelay
<1>8. RetentionInd'
  BY <1>3, TimesAssumption DEF Inv, TypeOK, RetentionInd, CreateRelay
<1>. QED  BY <1>4, <1>5, <1>6, <1>7, <1>8 DEF Inv

LEMMA TransmitInv ==
    ASSUME Inv, NEW a \in Address, NEW p \in Port, Transmit(a, p)
    PROVE  Inv'
<1>1. PICK s, t : relayTable' = Touched(relayTable, s, t)
  BY DEF Transmit
<1>2. /\ relayTable \in SUBSET RelayEntry
      /\ AddressesDiffer(relayTable) /\ PortsDiffer(relayTable)
  BY DEF Inv, TypeOK, PortExclusive, AddressUnique, AddressesDiffer, PortsDiffer
<1>3. /\ relayTable' \subseteq RelayEntry
      /\ \A e \in relayTable' : \E d \in relayTable : IdleFor(e) <= IdleFor(d)
      /\ PortsOf(relayTable') = PortsOf(relayTable)
      /\ AddressesDiffer(relayTable') /\ PortsDiffer(relayTable')
  BY <1>1, <1>2, TouchedFacts
<1>4. TypeOK'
  BY <1>3 DEF Inv, TypeOK, PoolTypeOK, Transmit
<1>5. AddressUnique'
  BY <1>3 DEF AddressUnique, AddressesDiffer
<1>6. PortExclusive'
  BY <1>3 DEF Inv, PortExclusive, PortsDiffer, PortsOf, TablePorts, Transmit
<1>7. SocketBacked'
  BY <1>3 DEF Inv, SocketBacked, PortsOf, TablePorts, Transmit
<1>8. RetentionInd'
  <2>1. ASSUME NEW e \in RelayEntry  PROVE IdleFor(e) \in Nat
    BY TimesAssumption DEF RelayEntry, IdleFor, Age, MaxAge
  <2>. QED  BY <1>2, <1>3, <2>1, TimesAssumption DEF Inv, TypeOK, RetentionInd, Transmit
<1>. QED  BY <1>4, <1>5, <1>6, <1>7, <1>8 DEF Inv

LEMMA DynamicRelayInv ==
    ASSUME Inv, NEW a \in Address, NEW q \in Port, DynamicRelay(a, q)
    PROVE  Inv'
<1>. DEFINE rest == Popped(freePorts)
            p == NextPort(rest)
            T == relayTable \union {NewRelay(a, p)}
<1>1. /\ rest \in Seq(Port) /\ IsInjective(rest) /\ HasFreePort(rest)
      /\ Range(rest) \subseteq Range(freePorts)
  <2>1. /\ freePorts \in Seq(Port) /\ IsInjective(freePorts)
        /\ Len(freePorts) \in Nat /\ Len(freePorts) >= 2
    BY LenProperties DEF Inv, TypeOK, PoolTypeOK, PortExclusive, DynamicRelay
  <2>. QED  BY <2>1, PopFacts DEF HasFreePort
<1>2. /\ freePorts' \in Seq(Port) /\ IsInjective(freePorts')
      /\ p \in Port /\ p \in Range(freePorts) /\ p \notin Range(freePorts')
      /\ Range(freePorts') \subseteq Range(freePorts)
  BY <1>1, PopFacts DEF DynamicRelay
<1>3. /\ relayTable \in SUBSET RelayEntry
      /\ \A e \in relayTable : e.address # a
      /\ p \notin PortsOf(relayTable)
      /\ AddressesDiffer(relayTable) /\ PortsDiffer(relayTable)
  BY <1>2 DEF Inv, TypeOK, DynamicRelay, HasRelay, PortExclusive, AddressUnique,
              TablePorts, PortsOf, AddressesDiffer, PortsDiffer
<1>4. /\ T \in SUBSET RelayEntry
      /\ PortsOf(T) = PortsOf(relayTable) \union {p}
      /\ AddressesDiffer(T) /\ PortsDiffer(T)
      /\ IdleFor(NewRelay(a, p)) = 0
  BY <1>2, <1>3, NewRelayFacts
<1>5. PICK s, t : relayTable' = Touched(T, s, t)
  BY DEF DynamicRelay
<1>6. /\ relayTable' \subseteq RelayEntry
      /\ \A e \in relayTable' : \E d \in T : IdleFor(e) <= IdleFor(d)
      /\ PortsOf(relayTable') = PortsOf(T)
      /\ AddressesDiffer(relayTable') /\ PortsDiffer(relayTable')
  BY <1>4, <1>5, TouchedFacts
<1>7. TypeOK'
  BY <1>2, <1>6 DEF Inv, TypeOK, PoolTypeOK, DynamicRelay
<1>8. AddressUnique'
  BY <1>6 DEF AddressUnique, AddressesDiffer
<1>9. PortExclusive'
  BY <1>2, <1>4, <1>6 DEF Inv, PortExclusive, PortsDiffer, PortsOf, TablePorts
<1>10. SocketBacked'
  BY <1>2, <1>4, <1>6 DEF Inv, SocketBacked, PortsOf, TablePorts, DynamicRelay
<1>11. RetentionInd'
  <2>1. ASSUME NEW e \in RelayEntry  PROVE IdleFor(e) \in Nat
    BY TimesAssumption DEF RelayEntry, IdleFor, Age, MaxAge
  <2>2. \A d \in T : IdleFor(d) < RelayTimeout + sinceCleanup
    BY <1>4, TimesAssumption DEF Inv, TypeOK, RetentionInd
  <2>3. /\ sinceCleanup' = sinceCleanup /\ sinceCleanup \in Nat
        /\ RelayTimeout \in Nat
    BY TimesAssumption DEF Inv, TypeOK, DynamicRelay
  <2>4. ASSUME NEW e \in relayTable'
        PROVE  IdleFor(e) < RelayTimeout + sinceCleanup
    <3>1. PICK d \in T : IdleFor(e) <= IdleFor(d)
      BY <1>6
    <3>2. IdleFor(e) \in Nat /\ IdleFor(d) \in Nat
      BY <1>4, <1>6, <2>1
    <3>. QED  BY <2>2, <2>3, <3>1, <3>2
  <2>. QED  BY <2>3, <2>4 DEF RetentionInd
<1>. QED  BY <1>7, <1>8, <1>9, <1>10, <1>11 DEF Inv

LEMMA TickInv ==
    ASSUME Inv, Tick
    PROVE  Inv'
<1>1. /\ relayTable \in SUBSET RelayEntry
      /\ AddressesDiffer(relayTable) /\ PortsDiffer(relayTable)
      /\ relayTable' = {Aged(e) : e \in relayTable}
  BY DEF Inv, TypeOK, PortExclusive, AddressUnique, AddressesDiffer, PortsDiffer, Tick
<1>2. /\ relayTable' \subseteq RelayEntry
      /\ \A e \in relayTable' : \E d \in relayTable : IdleFor(e) <= IdleFor(d) + 1
      /\ PortsOf(relayTable') = PortsOf(relayTable)
      /\ AddressesDiffer(relayTable') /\ PortsDiffer(relayTable')
  BY <1>1, AgedFacts
<1>3. TypeOK'
  BY <1>2, TimesAssumption DEF Inv, TypeOK, PoolTypeOK, Tick
<1>4. AddressUnique'
  BY <1>2 DEF AddressUnique, AddressesDiffer
<1>5. PortExclusive'
  BY <1>2 DEF Inv, PortExclusive, PortsDiffer, PortsOf, TablePorts, Tick
<1>6. SocketBacked'
  BY <1>2 DEF Inv, SocketBacked, PortsOf, TablePorts, Tick
<1>7. RetentionInd'
  <2>1. ASSUME NEW e \in RelayEntry  PROVE IdleFor(e) \in Nat
    BY TimesAssumption DEF RelayEntry, IdleFor, Age, MaxAge
  <2>. QED  BY <1>1, <1>2, <2>1, TimesAssumption DEF Inv, TypeOK, RetentionInd, Tick
<1>. QED  BY <1>3, <1>4, <1>5, <1>6, <1>7 DEF Inv

\* What the cleanup job does to the stack of free ports.
LEMMA CleanupPorts ==
    ASSUME Inv, Cleanup
    PROVE  /\ freePorts' \in Seq(Port)
           /\ IsInjective(freePorts')
           /\ Range(freePorts') = Range(freePorts) \union {e.port : e \in Expired}
<1>. DEFINE E == {e \in Expired : e.port \in sockets}
<1>1. E = Expired /\ Expired \subseteq relayTable /\ IsFiniteSet(E)
  <2>1. E = Expired /\ Expired \subseteq relayTable
    BY DEF Inv, SocketBacked, TablePorts, Expired
  <2>. QED  BY <2>1, TableFinite, FS_Subset
<1>2. PICK order \in SetToSeqs(E) :
         freePorts' = freePorts \o [i \in DOMAIN order |-> order[i].port]
  BY DEF Cleanup, Returned
<1>. DEFINE q == [i \in DOMAIN order |-> order[i].port]
<1>3. order \in Seq(E) /\ IsInjective(order) /\ Range(order) = E
  BY <1>1, SetToSeqsFacts
<1>4. /\ DOMAIN order = 1 .. Len(order) /\ Len(order) \in Nat
      /\ \A i \in 1 .. Len(order) : order[i] \in E
  BY <1>3, LenProperties, ElementOfSeq
<1>5. \A e \in E : e \in relayTable /\ e.port \in Port
  BY <1>1 DEF Inv, TypeOK, RelayEntry
<1>6. q \in Seq(Port)
  BY <1>4, <1>5
<1>7. DOMAIN q = DOMAIN order /\ \A i \in DOMAIN q : q[i] = order[i].port
  OBVIOUS
<1>8. IsInjective(q)
  <2>. SUFFICES ASSUME NEW i \in DOMAIN order, NEW j \in DOMAIN order, q[i] = q[j]
                PROVE  i = j
    BY <1>7 DEF IsInjective
  <2>1. order[i] = order[j]
    BY <1>4, <1>5 DEF Inv, PortExclusive
  <2>. QED  BY <1>3, <2>1 DEF IsInjective
<1>9. Range(q) = {e.port : e \in E}
  BY <1>3, <1>7 DEF Range
<1>10. freePorts \in Seq(Port) /\ IsInjective(freePorts)
       /\ Range(freePorts) \intersect Range(q) = {}
  BY <1>5, <1>9 DEF Inv, TypeOK, PoolTypeOK, PortExclusive, TablePorts
<1>11. freePorts' = freePorts \o q
  BY <1>2
<1>12. /\ freePorts \o q \in Seq(Port)
       /\ Range(freePorts \o q) = Range(freePorts) \union Range(q)
       /\ IsInjective(freePorts \o q)
  <2>. HIDE DEF q
  <2>. QED  BY <1>6, <1>8, <1>10, ConcatFacts
<1>. QED  BY <1>1, <1>9, <1>11, <1>12

LEMMA CleanupInv ==
    ASSUME Inv, Cleanup
    PROVE  Inv'
<1>1. /\ freePorts' \in Seq(Port) /\ IsInjective(freePorts')
      /\ Range(freePorts') = Range(freePorts) \union {e.port : e \in Expired}
      /\ relayTable' = relayTable \ Expired
      /\ Expired \subseteq relayTable
  BY CleanupPorts DEF Cleanup, Expired
<1>2. TypeOK'
  BY <1>1, TimesAssumption DEF Inv, TypeOK, PoolTypeOK, Cleanup
<1>3. AddressUnique'
  BY <1>1 DEF Inv, AddressUnique
<1>4. PortExclusive'
  BY <1>1 DEF Inv, PortExclusive, TablePorts
<1>5. SocketBacked'
  BY <1>1 DEF Inv, SocketBacked, TablePorts, Cleanup
<1>6. RetentionInd'
  <2>1. \A e \in RelayEntry : IdleFor(e) \in Nat
    BY TimesAssumption DEF RelayEntry, IdleFor, Age, MaxAge
  <2>. QED  BY <1>1, <2>1, TimesAssumption DEF Inv, TypeOK, RetentionInd, Expired, Cleanup
<1>. QED  BY <1>2, <1>3, <1>4, <1>5, <1>6 DEF Inv

LEMMA ShutdownInv ==
    ASSUME Inv, Shutdown
    PROVE  Inv'
<1>1. /\ sockets' = {} /\ freePorts' = <<>> /\ relayTable' = {}
      /\ status' = "closed" /\ sinceCleanup' = sinceCleanup
  BY DEF Shutdown, ClearPool
<1>2. freePorts' \in Seq(Port) /\ DOMAIN freePorts' = {}
  BY <1>1
<1>3. IsInjective(freePorts') /\ Range(freePorts') = {}
  BY <1>2 DEF IsInjective, Range
<1>. QED
  BY <1>1, <1>2, <1>3
     DEF Inv, TypeOK, PoolTypeOK, Status, AddressUnique, PortExclusive, SocketBacked,
         TablePorts, RetentionInd

LEMMA DieInv ==
    ASSUME Inv, NEW cause \in Status, Die(cause)
    PROVE  Inv'
BY DEF Die, Inv, TypeOK, PoolTypeOK, AddressUnique, PortExclusive, SocketBacked,
       TablePorts, RetentionInd

LEMMA NextInv == Inv /\ [Next]_vars => Inv'
<1>. SUFFICES ASSUME Inv, [Next]_vars  PROVE Inv'
  OBVIOUS
<1>1. CASE \E a \in Address : CreateRelay(a)
  BY <1>1, CreateRelayInv
<1>2. CASE \E a \in Address, p \in Port : Transmit(a, p)
  BY <1>2, TransmitInv
<1>3. CASE \E a \in Address, p \in Port : TransmitVetoed(a, p)
  BY <1>3, DieInv DEF TransmitVetoed, Status
<1>4. CASE \E a \in Address, p \in Port : DynamicRelay(a, p)
  BY <1>4, DynamicRelayInv
<1>5. CASE \E a \in Address, p \in Port :
              DynamicRelayVetoed(a, p) \/ DynamicRelayExhausted(a, p)
  BY <1>5, DieInv DEF DynamicRelayVetoed, DynamicRelayExhausted, Status
<1>6. CASE Tick
  BY <1>6, TickInv
<1>7. CASE Cleanup
  BY <1>7, CleanupInv
<1>8. CASE Shutdown
  BY <1>8, ShutdownInv
<1>9. CASE UNCHANGED vars
  BY <1>9 DEF vars, Inv, TypeOK, PoolTypeOK, AddressUnique, PortExclusive, SocketBacked,
              TablePorts, RetentionInd
<1>. QED
  BY <1>1, <1>2, <1>3, <1>4, <1>5, <1>6, <1>7, <1>8, <1>9 DEF Next

LEMMA Invariance == Spec => []Inv
BY InitInv, NextInv, PTL DEF Spec

-----------------------------------------------------------------------------
(* The invariants                                                           *)

\* Type correctness.
THEOREM TypeCorrect == Spec => []TypeOK
<1>1. Inv => TypeOK
  BY DEF Inv
<1>. QED  BY <1>1, Invariance, PTL

\* createRelay, its dynamic variant and the cleanup never give an address a
\* second entry.
THEOREM AddressesUnique == Spec => []AddressUnique
<1>1. Inv => AddressUnique
  BY DEF Inv
<1>. QED  BY <1>1, Invariance, PTL

\* A port serves one player at a time, although returnPort does not check what
\* it is given and getPort is called twice by dynamic relaying.
THEOREM PortsExclusive == Spec => []PortExclusive
<1>1. Inv => PortExclusive
  BY DEF Inv
<1>. QED  BY <1>1, Invariance, PTL

\* Every port that is free or in the table has a socket.
THEOREM PortsHaveSockets == Spec => []SocketBacked
<1>1. Inv => SocketBacked
  BY DEF Inv
<1>. QED  BY <1>1, Invariance, PTL

\* No relay stays idle for longer than the timeout and one cleanup interval.
THEOREM RetentionBounded == Spec => []RetentionBound
<1>1. Inv => RetentionBound
  <2>1. \A e \in RelayEntry : IdleFor(e) \in Nat
    BY TimesAssumption DEF RelayEntry, IdleFor, Age, MaxAge
  <2>. QED  BY <2>1, TimesAssumption DEF Inv, TypeOK, RetentionInd, RetentionBound
<1>. QED  BY <1>1, Invariance, PTL

-----------------------------------------------------------------------------
(* Steps                                                                    *)

\* The steps that neither create nor free a relay.
LEMMA TimesOnly ==
    ASSUME Inv,
           \/ Tick \/ (\E cause \in Status : Die(cause)) \/ UNCHANGED vars
           \/ \E a \in Address, p \in Port : Transmit(a, p)
    PROVE  /\ \A e \in relayTable' : \E d \in relayTable : Stems(e, d)
           /\ \A d \in relayTable : \E e \in relayTable' : Stems(e, d)
           /\ freePorts' = freePorts
<1>1. relayTable \in SUBSET RelayEntry
  BY DEF Inv, TypeOK
<1>2. CASE Tick
  <2>1. relayTable' = {Aged(e) : e \in relayTable} /\ freePorts' = freePorts
    BY <1>2 DEF Tick
  <2>. QED  BY <1>1, <2>1, AgedFacts
<1>3. CASE \E a \in Address, p \in Port : Transmit(a, p)
  <2>1. PICK s, t : relayTable' = Touched(relayTable, s, t) /\ freePorts' = freePorts
    BY <1>3 DEF Transmit
  <2>. QED  BY <1>1, <2>1, TouchedFacts
<1>4. CASE (\E cause \in Status : Die(cause)) \/ UNCHANGED vars
  BY <1>4 DEF Die, vars, Stems
<1>. QED  BY <1>2, <1>3, <1>4

\* Dynamic relaying adds one relay, and changes times of the others only.
LEMMA DynamicRelayAdds ==
    ASSUME Inv, NEW a \in Address, NEW q \in Port, DynamicRelay(a, q)
    PROVE  \E p \in Port :
             /\ p \in Range(freePorts)
             /\ Range(freePorts') \subseteq Range(freePorts) \ {p}
             /\ \A e \in relayTable' :
                   \/ e.address = a /\ e.port = p
                   \/ \E d \in relayTable : Stems(e, d)
             /\ \E e \in relayTable' : e.address = a /\ e.port = p
             /\ \A d \in relayTable : \E e \in relayTable' : Stems(e, d)
<1>. DEFINE rest == Popped(freePorts)
            p == NextPort(rest)
            T == relayTable \union {NewRelay(a, p)}
<1>1. /\ rest \in Seq(Port) /\ IsInjective(rest) /\ HasFreePort(rest)
      /\ Range(rest) \subseteq Range(freePorts)
  <2>1. /\ freePorts \in Seq(Port) /\ IsInjective(freePorts)
        /\ Len(freePorts) \in Nat /\ Len(freePorts) >= 2
    BY LenProperties DEF Inv, TypeOK, PoolTypeOK, PortExclusive, DynamicRelay
  <2>. QED  BY <2>1, PopFacts DEF HasFreePort
<1>2. /\ p \in Port /\ p \in Range(freePorts) /\ p \notin Range(freePorts')
      /\ Range(freePorts') \subseteq Range(freePorts)
  BY <1>1, PopFacts DEF DynamicRelay
<1>3. PICK s, t : relayTable' = Touched(T, s, t)
  BY DEF DynamicRelay
<1>4. /\ NewRelay(a, p).address = a /\ NewRelay(a, p).port = p
      /\ NewRelay(a, p) \in RelayEntry
  BY <1>2, TimesAssumption DEF NewRelay, RelayEntry, Age, Epoch, MaxAge
<1>5. T \in SUBSET RelayEntry
  BY <1>4 DEF Inv, TypeOK
<1>6. /\ \A e \in relayTable' : \E d \in T : Stems(e, d)
      /\ \A d \in T : \E e \in relayTable' : Stems(e, d)
  BY <1>3, <1>5, TouchedFacts
<1>. QED
  <2>. HIDE DEF p
  <2>. QED  BY <1>2, <1>4, <1>6 DEF Stems

\* An active relay is kept.  Only the cleanup job can free a relay, and it looks
\* at both of its timestamps.
THEOREM ActiveRelaysKept == Spec => ActiveRelayKept
<1>1. Inv /\ [Next]_vars => [KeepsActiveRelays]_vars
  <2>. SUFFICES ASSUME Inv, [Next]_vars  PROVE KeepsActiveRelays
    OBVIOUS
  <2>1. CASE \E a \in Address : CreateRelay(a)
    BY <2>1 DEF CreateRelay, KeepsActiveRelays
  <2>2. CASE \/ Tick \/ UNCHANGED vars
             \/ \E a \in Address, p \in Port : Transmit(a, p)
    BY <2>2, TimesOnly DEF KeepsActiveRelays, Stems
  <2>3. CASE \E a \in Address, p \in Port :
                \/ TransmitVetoed(a, p)
                \/ DynamicRelayVetoed(a, p) \/ DynamicRelayExhausted(a, p)
    BY <2>3 DEF TransmitVetoed, DynamicRelayVetoed, DynamicRelayExhausted, Die,
                KeepsActiveRelays
  <2>4. CASE \E a \in Address, p \in Port : DynamicRelay(a, p)
    BY <2>4, DynamicRelayAdds DEF KeepsActiveRelays, Stems
  <2>5. CASE Cleanup
    <3>1. \A e \in relayTable : e.lastSent \in Nat /\ e.lastReceived \in Nat
      BY TimesAssumption DEF Inv, TypeOK, RelayEntry, Age, MaxAge
    <3>2. \A e \in relayTable :
             e.lastSent < RelayTimeout \/ e.lastReceived < RelayTimeout => e \notin Expired
      BY <3>1, TimesAssumption DEF Expired, IdleFor
    <3>. QED  BY <2>5, <3>2 DEF Cleanup, KeepsActiveRelays
  <2>6. CASE Shutdown
    BY <2>6 DEF Shutdown, KeepsActiveRelays
  <2>. QED
    BY <2>1, <2>2, <2>3, <2>4, <2>5, <2>6 DEF Next
<1>. QED  BY <1>1, Invariance, PTL DEF Spec, ActiveRelayKept

-----------------------------------------------------------------------------
(* Refinement                                                               *)

\* The lease of an address is the port of its only entry.
LEMMA LeaseFacts ==
    ASSUME AddressUnique
    PROVE  /\ \A e \in relayTable : LeaseOf(e.address) = e.port
           /\ \A a : ~HasRelay(a) => LeaseOf(a) = NoPort
<1>1. ASSUME NEW e \in relayTable
      PROVE  LeaseOf(e.address) = e.port
  <2>1. HasRelay(e.address)
    BY DEF HasRelay
  <2>2. (CHOOSE f \in relayTable : f.address = e.address) = e
    BY DEF AddressUnique
  <2>. QED  BY <2>1, <2>2 DEF LeaseOf
<1>. QED  BY <1>1 DEF LeaseOf

\* The same after a step.
LEMMA LeaseFactsPrime ==
    ASSUME AddressUnique'
    PROVE  /\ \A e \in relayTable' : LeaseOf(e.address)' = e.port
           /\ \A a : ~HasRelay(a)' => LeaseOf(a)' = NoPort
<1>1. ASSUME NEW e \in relayTable'
      PROVE  LeaseOf(e.address)' = e.port
  <2>1. HasRelay(e.address)'
    BY DEF HasRelay
  <2>2. (CHOOSE f \in relayTable' : f.address = e.address) = e
    BY DEF AddressUnique
  <2>. QED  BY <2>1, <2>2 DEF LeaseOf
<1>. QED  BY <1>1 DEF LeaseOf

\* Steps that create and free no relay leave the leases alone.
LEMMA LeasesKept ==
    ASSUME Inv, Inv',
           \A e \in relayTable' : \E d \in relayTable : Stems(e, d),
           \A d \in relayTable : \E e \in relayTable' : Stems(e, d)
    PROVE  \A a \in Address : LeaseOf(a)' = LeaseOf(a)
<1>. TAKE a \in Address
<1>1. CASE HasRelay(a)
  <2>1. PICK d \in relayTable : d.address = a
    BY <1>1 DEF HasRelay
  <2>2. PICK e \in relayTable' : e.address = a /\ e.port = d.port
    BY <2>1 DEF Stems
  <2>. QED  BY <2>1, <2>2, LeaseFacts, LeaseFactsPrime DEF Inv
<1>2. CASE ~HasRelay(a)
  <2>1. ~HasRelay(a)'
    BY <1>2 DEF HasRelay, Stems
  <2>. QED  BY <1>2, <2>1, LeaseFacts, LeaseFactsPrime DEF Inv
<1>. QED  BY <1>1, <1>2

\* A new relay for address a on a free port p grants the lease.
LEMMA NewRelayGrants ==
    ASSUME Inv, Inv', NEW a \in Address, NEW p \in Port,
           ~HasRelay(a),
           p \in Range(freePorts),
           Range(freePorts') \subseteq Range(freePorts) \ {p},
           \A e \in relayTable' :
              \/ e.address = a /\ e.port = p
              \/ \E d \in relayTable : Stems(e, d),
           \E e \in relayTable' : e.address = a /\ e.port = p,
           \A d \in relayTable : \E e \in relayTable' : Stems(e, d)
    PROVE  Leases!Grant(a, p)
<1>1. LeaseOf(a) = NoPort
  BY LeaseFacts DEF Inv
<1>2. LeaseOf(a)' = p
  BY LeaseFactsPrime DEF Inv
<1>3. ASSUME NEW b \in Address, b # a
      PROVE  LeaseOf(b)' = LeaseOf(b)
  <2>1. CASE HasRelay(b)
    <3>1. PICK d \in relayTable : d.address = b
      BY <2>1 DEF HasRelay
    <3>2. PICK e \in relayTable' : e.address = b /\ e.port = d.port
      BY <3>1 DEF Stems
    <3>. QED  BY <3>1, <3>2, LeaseFacts, LeaseFactsPrime DEF Inv
  <2>2. CASE ~HasRelay(b)
    <3>1. ~HasRelay(b)'
      BY <1>3, <2>2 DEF HasRelay, Stems
    <3>. QED  BY <2>2, <3>1, LeaseFacts, LeaseFactsPrime DEF Inv
  <2>. QED  BY <2>1, <2>2
<1>4. [b \in Address |-> LeaseOf(b)'] = [[b \in Address |-> LeaseOf(b)] EXCEPT ![a] = p]
  BY <1>2, <1>3
<1>. QED  BY <1>1, <1>4 DEF Leases!Grant

LEMMA InitLeases == Init => Leases!Init
<1>. SUFFICES ASSUME Init  PROVE Leases!Init
  OBVIOUS
<1>1. Inv
  BY InitInv
<1>2. \A a \in Address : LeaseOf(a) = NoPort
  BY DEF Init, LeaseOf, HasRelay
<1>3. Range(freePorts) \in SUBSET Port
  BY <1>1 DEF Inv, SocketBacked, TypeOK, PoolTypeOK
<1>. QED  BY <1>2, <1>3 DEF Leases!Init

LEMMA CleanupRevokes ==
    ASSUME Inv, Inv', Cleanup
    PROVE  Leases!Revoke({e.address : e \in Expired})
<1>. DEFINE A == {e.address : e \in Expired}
            L == [a \in Address |-> LeaseOf(a)]
<1>1. /\ Expired \subseteq relayTable /\ relayTable' = relayTable \ Expired
      /\ \A e \in relayTable : e.address \in Address /\ e.port \in Port
  BY DEF Inv, TypeOK, RelayEntry, Expired, Cleanup
<1>2. \A e \in relayTable : L[e.address] = e.port
  BY <1>1, LeaseFacts DEF Inv
<1>3. A \subseteq Address /\ \A a \in A : L[a] # NoPort
  BY <1>1, <1>2, NoPortAssumption
<1>4. {L[a] : a \in A} = {e.port : e \in Expired}
  BY <1>1, <1>2
<1>5. ASSUME NEW a \in Address
      PROVE  LeaseOf(a)' = IF a \in A THEN NoPort ELSE L[a]
  <2>1. CASE a \in A
    <3>1. ~HasRelay(a)'
      BY <1>1, <2>1 DEF HasRelay, Inv, AddressUnique
    <3>. QED  BY <2>1, <3>1, LeaseFactsPrime DEF Inv
  <2>2. CASE a \notin A /\ HasRelay(a)
    <3>1. PICK d \in relayTable : d.address = a
      BY <2>2 DEF HasRelay
    <3>2. d \in relayTable'
      BY <1>1, <2>2, <3>1
    <3>3. LeaseOf(a)' = d.port
      BY <3>1, <3>2, LeaseFactsPrime DEF Inv
    <3>. QED  BY <1>2, <2>2, <3>1, <3>3
  <2>3. CASE a \notin A /\ ~HasRelay(a)
    <3>1. ~HasRelay(a)'
      BY <1>1, <2>3 DEF HasRelay
    <3>. QED  BY <2>3, <3>1, LeaseFacts, LeaseFactsPrime DEF Inv
  <2>. QED  BY <2>1, <2>2, <2>3
<1>6. Range(freePorts') = Range(freePorts) \union {L[a] : a \in A}
  BY <1>4, CleanupPorts
<1>. QED  BY <1>3, <1>5, <1>6 DEF Leases!Revoke

LEMMA StepLeases == Inv /\ Inv' /\ [Next]_vars => [Leases!Next]_Leases!vars
<1>. SUFFICES ASSUME Inv, Inv', [Next]_vars  PROVE [Leases!Next]_Leases!vars
  OBVIOUS
<1>1. CASE \/ Tick \/ UNCHANGED vars
           \/ \E a \in Address, p \in Port :
                 \/ Transmit(a, p) \/ TransmitVetoed(a, p)
                 \/ DynamicRelayVetoed(a, p) \/ DynamicRelayExhausted(a, p)
  <2>1. \/ Tick \/ (\E cause \in Status : Die(cause)) \/ UNCHANGED vars
        \/ \E a \in Address, p \in Port : Transmit(a, p)
    BY <1>1 DEF TransmitVetoed, DynamicRelayVetoed, DynamicRelayExhausted, Status
  <2>2. /\ freePorts' = freePorts
        /\ \A a \in Address : LeaseOf(a)' = LeaseOf(a)
    BY <2>1, TimesOnly, LeasesKept
  <2>. QED  BY <2>2 DEF Leases!vars
<1>2. ASSUME NEW a \in Address, CreateRelay(a)
      PROVE  Leases!Next
  <2>. DEFINE p == NextPort(freePorts)
  <2>1. /\ p \in Port /\ p \in Range(freePorts)
        /\ Range(freePorts') \subseteq Range(freePorts) \ {p}
    BY <1>2, PopFacts DEF Inv, TypeOK, PoolTypeOK, PortExclusive, CreateRelay
  <2>2. /\ NewRelay(a, p).address = a /\ NewRelay(a, p).port = p
        /\ relayTable' = relayTable \union {NewRelay(a, p)}
        /\ ~HasRelay(a)
    BY <1>2 DEF NewRelay, CreateRelay
  <2>3. Leases!Grant(a, p)
    <3>. HIDE DEF p
    <3>. QED  BY <2>1, <2>2, NewRelayGrants DEF Stems
  <2>. QED  BY <2>1, <2>3 DEF Leases!Next
<1>3. ASSUME NEW a \in Address, NEW q \in Port, DynamicRelay(a, q)
      PROVE  Leases!Next
  <2>1. ~HasRelay(a)
    BY <1>3 DEF DynamicRelay
  <2>2. \E p \in Port : Leases!Grant(a, p)
    BY <1>3, <2>1, DynamicRelayAdds, NewRelayGrants
  <2>. QED  BY <2>2 DEF Leases!Next
<1>4. CASE Cleanup
  <2>1. {e.address : e \in Expired} \in SUBSET Address
    BY DEF Inv, TypeOK, RelayEntry, Expired
  <2>. QED  BY <1>4, <2>1, CleanupRevokes DEF Leases!Next
<1>5. CASE Shutdown
  <2>1. Range(freePorts') = {} /\ \A a \in Address : LeaseOf(a)' = NoPort
    BY <1>5 DEF Shutdown, ClearPool, Range, LeaseOf, HasRelay
  <2>. QED  BY <2>1 DEF Leases!Next, Leases!Close
<1>. QED  BY <1>1, <1>2, <1>3, <1>4, <1>5 DEF Next

\* The relay handler keeps the promise made to the players: one port for every
\* address that has a relay, for as long as it has it, and never the port of
\* somebody else.
THEOREM HandlerImplementsLeases == Spec => ImplementsLeases
<1>1. Init => Leases!Init
  BY InitLeases
<1>2. Inv /\ Inv' /\ [Next]_vars => [Leases!Next]_Leases!vars
  BY StepLeases
<1>. QED  BY <1>1, <1>2, Invariance, PTL DEF Spec, ImplementsLeases, Leases!Spec

-----------------------------------------------------------------------------
(* What the leases promise, from RelayLeases alone                          *)

LeaseMap == [a \in Address |-> LeaseOf(a)]
Available == Range(freePorts)

LeasesInv ==
    /\ LeaseMap \in [Address -> Port \union {NoPort}]
    /\ Available \subseteq Port
    /\ Leases!Exclusive

\* A port of two leases, or of a lease and of the ports that can be granted, can
\* only come from a step that granted a leased port or revoked one of two leases
\* of a port: neither is possible when the leases were exclusive before it.
LEMMA GrantExclusive ==
    ASSUME LeasesInv, NEW a \in Address, NEW p \in Port, Leases!Grant(a, p)
    PROVE  LeasesInv'
<1>1. LeaseMap' = [LeaseMap EXCEPT ![a] = p] /\ Available' \subseteq Available \ {p}
  BY DEF Leases!Grant, LeaseMap, Available
<1>2. p \in Available /\ p # NoPort
  BY NoPortAssumption DEF Leases!Grant, Available
<1>3. \A b \in Address : b # a => LeaseMap'[b] = LeaseMap[b] /\ LeaseMap[b] # p
  BY <1>1, <1>2 DEF LeasesInv, Leases!Exclusive, Leases!Leased, LeaseMap, Available
<1>4. LeaseMap'[a] = p
  BY <1>1 DEF LeasesInv
<1>5. \A b, c \in Address : LeaseMap'[b] = LeaseMap'[c] /\ LeaseMap'[b] # NoPort => b = c
  BY <1>3, <1>4 DEF LeasesInv, Leases!Exclusive, LeaseMap
<1>6. {LeaseMap'[b] : b \in Address} \ {NoPort} \subseteq ({LeaseMap[b] : b \in Address} \ {NoPort}) \union {p}
  BY <1>3, <1>4
<1>7. Leases!Leased' \intersect Available' = {}
  BY <1>1, <1>6 DEF LeasesInv, Leases!Exclusive, Leases!Leased, LeaseMap, Available
<1>. QED
  BY <1>1, <1>5, <1>7 DEF LeasesInv, Leases!Exclusive, LeaseMap, Available

LEMMA RevokeExclusive ==
    ASSUME LeasesInv, NEW A \in SUBSET Address, Leases!Revoke(A)
    PROVE  LeasesInv'
<1>1. LeaseMap' = [b \in Address |-> IF b \in A THEN NoPort ELSE LeaseMap[b]]
  BY DEF Leases!Revoke, LeaseMap
<1>2. Available' = Available \union {LeaseMap[b] : b \in A} /\ \A b \in A : LeaseMap[b] # NoPort
  BY DEF Leases!Revoke, LeaseMap, Available
<1>3. \A b, c \in Address : LeaseMap'[b] = LeaseMap'[c] /\ LeaseMap'[b] # NoPort => b = c
  BY <1>1 DEF LeasesInv, Leases!Exclusive, LeaseMap
<1>4. ASSUME NEW b \in Address, LeaseMap'[b] # NoPort, LeaseMap'[b] \in Available'  PROVE FALSE
  <2>1. b \notin A /\ LeaseMap'[b] = LeaseMap[b]
    BY <1>1, <1>4
  <2>2. LeaseMap[b] \notin Available
    BY <1>4, <2>1 DEF LeasesInv, Leases!Exclusive, Leases!Leased, LeaseMap, Available
  <2>3. PICK c \in A : LeaseMap[b] = LeaseMap[c]
    BY <1>2, <1>4, <2>1, <2>2
  <2>. QED  BY <1>4, <2>1, <2>3 DEF LeasesInv, Leases!Exclusive, LeaseMap
<1>5. LeasesInv!1' /\ LeasesInv!2'
  BY <1>1, <1>2 DEF LeasesInv
<1>. QED
  BY <1>3, <1>4, <1>5 DEF LeasesInv, Leases!Exclusive, Leases!Leased, LeaseMap, Available

\* Leases are exclusive for every set of addresses and ports: no port is leased
\* to two players, and none that is leased can be granted.
THEOREM LeasesExclusive == Leases!Spec => []Leases!Exclusive
<1>1. Leases!Init => LeasesInv
  BY DEF Leases!Init, Leases!Exclusive, Leases!Leased, LeasesInv, LeaseMap, Available
<1>2. LeasesInv /\ [Leases!Next]_Leases!vars => LeasesInv'
  <2>. SUFFICES ASSUME LeasesInv, [Leases!Next]_Leases!vars  PROVE LeasesInv'
    OBVIOUS
  <2>1. CASE Leases!Close
    BY <2>1 DEF Leases!Close, Leases!Exclusive, Leases!Leased, LeasesInv, LeaseMap, Available
  <2>2. CASE UNCHANGED Leases!vars
    BY <2>2 DEF Leases!vars, Leases!Exclusive, Leases!Leased, LeasesInv, LeaseMap, Available
  <2>. QED
    BY <2>1, <2>2, GrantExclusive, RevokeExclusive DEF Leases!Next
<1>3. LeasesInv => Leases!Exclusive
  BY DEF LeasesInv
<1>. QED
  BY <1>1, <1>2, <1>3, PTL DEF Leases!Spec

\* The relay handler inherits the promise: at any time every port belongs to one
\* player, or can be granted, or neither.
COROLLARY HandlerLeasesExclusive == Spec => []Leases!Exclusive
BY HandlerImplementsLeases, LeasesExclusive, PTL DEF ImplementsLeases

=============================================================================
