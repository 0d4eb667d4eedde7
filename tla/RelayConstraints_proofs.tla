----------------------- MODULE RelayConstraints_proofs -----------------------
(***************************************************************************)
(* Proofs about RelayConstraints, for all sizes of datagrams, all limits   *)
(* and whatever the proofs of the relay handler allow.                     *)
(***************************************************************************)
EXTENDS RelayConstraints, UDPRelayHandler_proofs

-----------------------------------------------------------------------------
(* The handler under limits is the handler                                  *)

LEMMA LimitedStep == [LimitedNext]_allVars => [Next]_vars
<1>. SUFFICES ASSUME [LimitedNext]_allVars PROVE [Next]_vars
  OBVIOUS
<1>1. CASE LimitedNext
  BY <1>1
  DEF LimitedNext, Next, LimitedCreateRelay, LimitedTransmit, LimitedVeto,
      LimitedDynamicRelay, LimitedDynamicVeto, LimitedDynamicExhausted, LimitedTick,
      LimitedCleanup, LimitedShutdown
<1>2. CASE UNCHANGED allVars
  BY <1>2 DEF allVars, vars
<1>. QED  BY <1>1, <1>2

-----------------------------------------------------------------------------
(* Ids of relays                                                            *)

\* An entry with other times has the same id.
LEMMA StemsId ==
    ASSUME NEW T, NEW U,
           \A e \in U : \E d \in T : Stems(e, d),
           \A d \in T : \E e \in U : Stems(e, d)
    PROVE  Ids(U) = Ids(T)
BY DEF Ids, Id, Stems

LEMMA TransmitIds ==
    ASSUME Inv, NEW a \in Address, NEW p \in Port, Transmit(a, p)
    PROVE  Ids(relayTable') = Ids(relayTable)
<1>1. PICK s, t : relayTable' = Touched(relayTable, s, t)
  BY DEF Transmit
<1>2. relayTable \in SUBSET RelayEntry
  BY DEF Inv, TypeOK
<1>. QED  BY <1>1, <1>2, TouchedFacts, StemsId

LEMMA TickIds ==
    ASSUME Inv, Tick
    PROVE  Ids(relayTable') = Ids(relayTable)
<1>1. relayTable' = {Aged(e) : e \in relayTable}
  BY DEF Tick
<1>2. relayTable \in SUBSET RelayEntry
  BY DEF Inv, TypeOK
<1>. QED  BY <1>1, <1>2, AgedFacts, StemsId

LEMMA DynamicIds ==
    ASSUME Inv, NEW a \in Address, NEW p \in Port, DynamicRelay(a, p)
    PROVE  /\ Ids(relayTable') = Ids(relayTable) \union {DynamicId(a)}
           /\ DynamicId(a) \in Address \X Port
<1>. DEFINE rest == Popped(freePorts)
            q == NextPort(rest)
            T == relayTable \union {NewRelay(a, q)}
<1>1. /\ freePorts \in Seq(Port) /\ Len(freePorts) \in Nat /\ Len(freePorts) >= 2
  BY LenProperties DEF Inv, TypeOK, PoolTypeOK, DynamicRelay
<1>2. rest \in Seq(Port) /\ HasFreePort(rest)
  BY <1>1, PopFacts DEF HasFreePort
<1>3. q \in Port
  BY <1>2, PopFacts
<1>4. NewRelay(a, q) \in RelayEntry /\ Id(NewRelay(a, q)) = DynamicId(a)
  BY <1>3, TimesAssumption
  DEF NewRelay, RelayEntry, Age, Epoch, MaxAge, Id, DynamicId
<1>5. T \in SUBSET RelayEntry
  BY <1>4 DEF Inv, TypeOK
<1>6. PICK s, t : relayTable' = Touched(T, s, t)
  BY DEF DynamicRelay
<1>7. Ids(relayTable') = Ids(T)
  <2>. HIDE DEF T
  <2>1. /\ \A e \in Touched(T, s, t) : \E d \in T : Stems(e, d)
        /\ \A d \in T : \E e \in Touched(T, s, t) : Stems(e, d)
    BY <1>5, TouchedFacts
  <2>. QED  BY <1>6, <2>1, StemsId
<1>8. Ids(T) = Ids(relayTable) \union {DynamicId(a)}
  BY <1>4 DEF Ids
<1>. QED  BY <1>3, <1>7, <1>8 DEF DynamicId

LEMMA IdsType == Inv => Ids(relayTable) \subseteq Address \X Port
BY DEF Inv, TypeOK, RelayEntry, Ids, Id

-----------------------------------------------------------------------------
(* The inductive invariant                                                  *)

LimitedInv ==
    /\ Inv
    /\ LimitsTypeOK
    /\ CountersFollowRelays
    /\ SliceExcess

LEMMA LimitsInitInv == LimitsInit => LimitedInv
<1>. SUFFICES ASSUME LimitsInit PROVE LimitedInv
  OBVIOUS
<1>1. Inv
  BY InitInv DEF LimitsInit
<1>2. /\ DOMAIN limiters = {} /\ DOMAIN relayTraffic = {} /\ DOMAIN created = {}
      /\ Ids(relayTable) = {}
  BY DEF LimitsInit, Init, Ids
<1>3. globalLimiter = [elapsed |-> 0, traffic |-> 0, datagrams |-> 0]
  BY DEF LimitsInit, NewLimiter
<1>4. LimitsTypeOK
  BY <1>2, <1>3, LimitsAssumption DEF LimitsInit, LimitsTypeOK, Limiter
<1>5. CountersFollowRelays
  BY <1>2 DEF CountersFollowRelays
<1>6. SliceExcess
  BY <1>2, <1>3, LimitsAssumption DEF SliceExcess, WithinSlice
<1>. QED  BY <1>1, <1>4, <1>5, <1>6 DEF LimitedInv

\* A limiter after a datagram that it accepts.
LEMMA ChargedFacts ==
    ASSUME NEW l \in Limiter(TrafficInterval), NEW size \in Size, NEW limit \in Nat,
           WithinSlice(l, limit),
           Accepts(l, size, limit, TrafficInterval)
    PROVE  /\ Charged(l, size, TrafficInterval) \in Limiter(TrafficInterval)
           /\ WithinSlice(Charged(l, size, TrafficInterval), limit)
           /\ Charged(l, size, TrafficInterval).traffic <= l.traffic + size
<1>1. /\ l.traffic \in Nat /\ size \in Nat /\ TrafficInterval \in Nat
      /\ l.elapsed \in 0 .. TrafficInterval + 1
      /\ l.datagrams \in 0 .. 2
      /\ l = [elapsed |-> l.elapsed, traffic |-> l.traffic, datagrams |-> l.datagrams]
  BY LimitsAssumption DEF Limiter
<1>2. CASE SliceOver(l, TrafficInterval)
  <2>1. Charged(l, size, TrafficInterval)
            = [elapsed |-> 0, traffic |-> size, datagrams |-> 1]
    BY <1>2 DEF Charged
  <2>. QED  BY <1>1, <2>1 DEF Limiter, WithinSlice
<1>3. CASE ~SliceOver(l, TrafficInterval)
  <2>1. Charged(l, size, TrafficInterval)
            = [elapsed   |-> l.elapsed,
               traffic   |-> l.traffic + size,
               datagrams |-> IF l.datagrams = 0 THEN 1 ELSE 2]
    BY <1>1, <1>3 DEF Charged
  <2>2. l.traffic + size <= limit
    BY <1>3 DEF Accepts
  <2>. QED  BY <1>1, <2>1, <2>2 DEF Limiter, WithinSlice
<1>. QED  BY <1>2, <1>3

\* A datagram that all listeners accept is counted by each of them.
LEMMA CountFacts ==
    ASSUME LimitsTypeOK, CountersFollowRelays, SliceExcess,
           NEW i \in Address \X Port, NEW age, NEW size \in Size,
           Allowed(i, age, size), Count(i, size)
    PROVE  /\ DOMAIN limiters' = DOMAIN limiters \union {i}
           /\ DOMAIN relayTraffic' = DOMAIN limiters \union {i}
           /\ \A j \in DOMAIN limiters' :
                 /\ limiters'[j] \in Limiter(TrafficInterval)
                 /\ WithinSlice(limiters'[j], IndividualLimit)
                 /\ relayTraffic'[j] \in Nat
                 /\ relayTraffic'[j] < MaxLifetimeTraffic
                 /\ limiters'[j].traffic <= relayTraffic'[j]
           /\ globalLimiter' \in Limiter(TrafficInterval)
           /\ WithinSlice(globalLimiter', GlobalLimit)
           /\ carried' \in [0 .. TrafficInterval -> Nat]
<1>. DEFINE new == Charged(LimiterOf(i), size, TrafficInterval)
<1>1. /\ size \in Nat /\ IndividualLimit \in Nat /\ GlobalLimit \in Nat
      /\ TrafficInterval \in Nat /\ MaxLifetimeTraffic \in Nat
  BY LimitsAssumption
<1>2. DOMAIN relayTraffic = DOMAIN limiters
  BY DEF CountersFollowRelays
<1>3. /\ LimiterOf(i) \in Limiter(TrafficInterval)
      /\ WithinSlice(LimiterOf(i), IndividualLimit)
      /\ TrafficOf(i) \in Nat
      /\ LimiterOf(i).traffic \in Nat
      /\ LimiterOf(i).traffic <= TrafficOf(i)
  <2>1. CASE i \in DOMAIN limiters
    <3>1. LimiterOf(i) = limiters[i] /\ TrafficOf(i) = relayTraffic[i]
      BY <1>2, <2>1 DEF LimiterOf, TrafficOf
    <3>2. limiters[i] \in Limiter(TrafficInterval) /\ relayTraffic[i] \in Nat
      BY <1>2, <2>1 DEF LimitsTypeOK
    <3>3. limiters[i].traffic \in Nat
      BY <3>2 DEF Limiter
    <3>. QED  BY <2>1, <3>1, <3>2, <3>3 DEF SliceExcess, CountersFollowRelays
  <2>2. CASE i \notin DOMAIN limiters
    <3>1. LimiterOf(i) = [elapsed |-> 0, traffic |-> 0, datagrams |-> 0] /\ TrafficOf(i) = 0
      BY <1>2, <2>2 DEF LimiterOf, TrafficOf, NewLimiter
    <3>. QED  BY <1>1, <3>1 DEF Limiter, WithinSlice
  <2>. QED  BY <2>1, <2>2
<1>4. /\ new \in Limiter(TrafficInterval)
      /\ WithinSlice(new, IndividualLimit)
      /\ new.traffic <= LimiterOf(i).traffic + size
  BY <1>1, <1>3, ChargedFacts DEF Allowed
<1>5. /\ globalLimiter' \in Limiter(TrafficInterval)
      /\ WithinSlice(globalLimiter', GlobalLimit)
  <2>1. /\ globalLimiter \in Limiter(TrafficInterval)
        /\ WithinSlice(globalLimiter, GlobalLimit)
        /\ Accepts(globalLimiter, size, GlobalLimit, TrafficInterval)
    BY DEF LimitsTypeOK, SliceExcess, Allowed
  <2>. QED  BY <1>1, <2>1, ChargedFacts DEF Count
<1>6. /\ limiters' = Put(limiters, i, new)
      /\ relayTraffic' = Put(relayTraffic, i, TrafficOf(i) + size)
  BY DEF Count
<1>7. /\ DOMAIN limiters' = DOMAIN limiters \union {i}
      /\ limiters'[i] = new
      /\ \A j \in DOMAIN limiters \ {i} : limiters'[j] = limiters[j]
  <2>. HIDE DEF new
  <2>. QED  BY <1>6 DEF Put
<1>8. /\ DOMAIN relayTraffic' = DOMAIN limiters \union {i}
      /\ relayTraffic'[i] = TrafficOf(i) + size
      /\ \A j \in DOMAIN limiters \ {i} : relayTraffic'[j] = relayTraffic[j]
  BY <1>2, <1>6 DEF Put
<1>9. TrafficOf(i) + size < MaxLifetimeTraffic
  BY DEF Allowed
<1>10. new.traffic <= TrafficOf(i) + size
  <2>1. new.traffic \in Nat
    BY <1>4 DEF Limiter
  <2>. QED  BY <1>1, <1>3, <1>4, <2>1
<1>11. ASSUME NEW j \in DOMAIN limiters'
       PROVE  /\ limiters'[j] \in Limiter(TrafficInterval)
              /\ WithinSlice(limiters'[j], IndividualLimit)
              /\ relayTraffic'[j] \in Nat
              /\ relayTraffic'[j] < MaxLifetimeTraffic
              /\ limiters'[j].traffic <= relayTraffic'[j]
  <2>. HIDE DEF new
  <2>1. CASE j = i
    BY <1>1, <1>3, <1>4, <1>7, <1>8, <1>9, <1>10, <2>1
  <2>2. CASE j # i
    <3>1. j \in DOMAIN limiters /\ limiters'[j] = limiters[j]
          /\ relayTraffic'[j] = relayTraffic[j]
      BY <1>7, <1>8, <2>2
    <3>. QED  BY <1>2, <3>1 DEF LimitsTypeOK, SliceExcess, CountersFollowRelays
  <2>. QED  BY <2>1, <2>2
<1>12. carried' \in [0 .. TrafficInterval -> Nat]
  BY <1>1 DEF Count, LimitsTypeOK
<1>. QED  BY <1>5, <1>7, <1>8, <1>11, <1>12

\* The ages of the entries follow the table.
LEMMA KeepAgesFacts ==
    ASSUME LimitsTypeOK, KeepAges
    PROVE  /\ DOMAIN created' = Ids(relayTable')
           /\ \A i \in DOMAIN created' : created'[i] \in 0 .. MaxLifetimeDuration
<1>1. 0 \in 0 .. MaxLifetimeDuration
  BY LimitsAssumption
<1>. QED  BY <1>1 DEF KeepAges, LimitsTypeOK

\* What Count and the table of a step make of the invariants.
LEMMA CountedInv ==
    ASSUME LimitsTypeOK, CountersFollowRelays, SliceExcess,
           NEW i \in Address \X Port, NEW age, NEW size \in Size,
           Allowed(i, age, size), Count(i, size),
           DOMAIN limiters \union {i} \subseteq Ids(relayTable'),
           DOMAIN created' = Ids(relayTable'),
           \A j \in DOMAIN created' : created'[j] \in 0 .. MaxLifetimeDuration
    PROVE  LimitsTypeOK' /\ CountersFollowRelays' /\ SliceExcess'
<1>1. /\ DOMAIN limiters' = DOMAIN limiters \union {i}
      /\ DOMAIN relayTraffic' = DOMAIN limiters \union {i}
      /\ \A j \in DOMAIN limiters' :
            /\ limiters'[j] \in Limiter(TrafficInterval)
            /\ WithinSlice(limiters'[j], IndividualLimit)
            /\ relayTraffic'[j] \in Nat
            /\ relayTraffic'[j] < MaxLifetimeTraffic
            /\ limiters'[j].traffic <= relayTraffic'[j]
      /\ globalLimiter' \in Limiter(TrafficInterval)
      /\ WithinSlice(globalLimiter', GlobalLimit)
      /\ carried' \in [0 .. TrafficInterval -> Nat]
  BY CountFacts
<1>2. DOMAIN limiters \subseteq Address \X Port
  BY DEF LimitsTypeOK
<1>3. LimitsTypeOK'
  BY <1>1, <1>2 DEF LimitsTypeOK
<1>4. CountersFollowRelays'
  BY <1>1 DEF CountersFollowRelays
<1>5. SliceExcess'
  BY <1>1 DEF SliceExcess
<1>. QED  BY <1>3, <1>4, <1>5

\* Relays come or stay, and nothing is counted.
LEMMA UncountedInv ==
    ASSUME LimitsTypeOK, CountersFollowRelays, SliceExcess,
           UNCHANGED <<limiters, globalLimiter, relayTraffic, carried>>,
           Ids(relayTable) \subseteq Ids(relayTable'),
           DOMAIN created' = Ids(relayTable'),
           \A j \in DOMAIN created' : created'[j] \in 0 .. MaxLifetimeDuration
    PROVE  LimitsTypeOK' /\ CountersFollowRelays' /\ SliceExcess'
<1>1. LimitsTypeOK'
  BY DEF LimitsTypeOK
<1>2. CountersFollowRelays'
  BY DEF CountersFollowRelays
<1>3. SliceExcess'
  BY DEF SliceExcess, WithinSlice
<1>. QED  BY <1>1, <1>2, <1>3

\* Relays go, and with them what was counted for them.
LEMMA ForgetInv ==
    ASSUME LimitsTypeOK, CountersFollowRelays, SliceExcess,
           NEW gone, Forget(gone), KeepAges,
           Ids(relayTable) \ gone \subseteq Ids(relayTable')
    PROVE  LimitsTypeOK' /\ CountersFollowRelays' /\ SliceExcess'
<1>1. /\ DOMAIN limiters' = DOMAIN limiters \ gone
      /\ \A j \in DOMAIN limiters' : limiters'[j] = limiters[j]
      /\ DOMAIN relayTraffic' = DOMAIN relayTraffic \ gone
      /\ \A j \in DOMAIN relayTraffic' : relayTraffic'[j] = relayTraffic[j]
      /\ globalLimiter' = globalLimiter /\ carried' = carried
  BY DEF Forget, Restrict
<1>2. LimitsTypeOK'
  BY <1>1, KeepAgesFacts DEF LimitsTypeOK
<1>3. CountersFollowRelays'
  BY <1>1 DEF CountersFollowRelays
<1>4. SliceExcess'
  BY <1>1 DEF SliceExcess
<1>. QED  BY <1>2, <1>3, <1>4

\* Time passes for limiters, entries and the history.
LEMMA LimitedTickInv ==
    ASSUME LimitedInv, LimitedTick
    PROVE  LimitsTypeOK' /\ CountersFollowRelays' /\ SliceExcess'
<1>. USE DEF LimitedInv
<1>1. Ids(relayTable') = Ids(relayTable)
  BY TickIds DEF LimitedTick
<1>2. ASSUME NEW l \in Limiter(TrafficInterval)
      PROVE  /\ Waited(l, TrafficInterval) \in Limiter(TrafficInterval)
             /\ Waited(l, TrafficInterval).traffic = l.traffic
             /\ Waited(l, TrafficInterval).datagrams = l.datagrams
  <2>1. l.elapsed \in 0 .. TrafficInterval + 1 /\ TrafficInterval \in Nat
    BY LimitsAssumption DEF Limiter
  <2>. QED  BY <2>1 DEF Waited, SliceOver, Limiter
<1>3. /\ DOMAIN limiters' = DOMAIN limiters
      /\ \A j \in DOMAIN limiters : limiters'[j] = Waited(limiters[j], TrafficInterval)
      /\ globalLimiter' = Waited(globalLimiter, TrafficInterval)
      /\ relayTraffic' = relayTraffic
      /\ DOMAIN created' = DOMAIN created
  BY DEF LimitedTick
<1>4. /\ \A j \in DOMAIN limiters : limiters[j] \in Limiter(TrafficInterval)
      /\ globalLimiter \in Limiter(TrafficInterval)
  BY DEF LimitsTypeOK
<1>5. \A j \in DOMAIN created' : created'[j] \in 0 .. MaxLifetimeDuration
  BY <1>3, LimitsAssumption DEF LimitedTick, LimitsTypeOK
<1>6. carried' \in [0 .. TrafficInterval -> Nat]
  <2>1. carried \in [0 .. TrafficInterval -> Nat] /\ TrafficInterval \in Nat
    BY LimitsAssumption DEF LimitsTypeOK
  <2>2. \A t \in 0 .. TrafficInterval : t # 0 => t - 1 \in 0 .. TrafficInterval
    BY <2>1
  <2>. QED  BY <2>1, <2>2 DEF LimitedTick
<1>7. LimitsTypeOK'
  BY <1>1, <1>2, <1>3, <1>4, <1>5, <1>6 DEF LimitsTypeOK
<1>8. CountersFollowRelays'
  BY <1>1, <1>2, <1>3, <1>4 DEF CountersFollowRelays
<1>9. SliceExcess'
  BY <1>2, <1>3, <1>4 DEF SliceExcess, WithinSlice
<1>. QED  BY <1>7, <1>8, <1>9

LEMMA LimitedNextInv == LimitedInv /\ [LimitedNext]_allVars => LimitedInv'
<1>. SUFFICES ASSUME LimitedInv, [LimitedNext]_allVars PROVE LimitedInv'
  OBVIOUS
<1>. USE DEF LimitedInv
<1>1. Inv'
  BY LimitedStep, NextInv
<1>. SUFFICES LimitsTypeOK' /\ CountersFollowRelays' /\ SliceExcess'
  BY <1>1
<1>2. ASSUME NEW a \in Address, LimitedCreateRelay(a)
      PROVE  LimitsTypeOK' /\ CountersFollowRelays' /\ SliceExcess'
  <2>1. Ids(relayTable) \subseteq Ids(relayTable')
    BY <1>2 DEF LimitedCreateRelay, CreateRelay, Ids
  <2>. QED  BY <1>2, <2>1, KeepAgesFacts, UncountedInv DEF LimitedCreateRelay
<1>3. ASSUME NEW a \in Address, NEW p \in Port, NEW size \in Size,
             LimitedTransmit(a, p, size)
      PROVE  LimitsTypeOK' /\ CountersFollowRelays' /\ SliceExcess'
  <2>1. Ids(relayTable') = Ids(relayTable) /\ created' = created
    BY <1>3, TransmitIds DEF LimitedTransmit
  <2>2. PICK sender \in RelaysOf(a) :
           /\ Allowed(Id(sender), created[Id(sender)], size)
           /\ Count(Id(sender), size)
    BY <1>3 DEF LimitedTransmit
  <2>3. Id(sender) \in Ids(relayTable) /\ Id(sender) \in Address \X Port
    BY IdsType DEF RelaysOf, Ids
  <2>4. DOMAIN limiters \union {Id(sender)} \subseteq Ids(relayTable')
    BY <2>1, <2>3 DEF CountersFollowRelays
  <2>5. /\ DOMAIN created' = Ids(relayTable')
        /\ \A j \in DOMAIN created' : created'[j] \in 0 .. MaxLifetimeDuration
    BY <2>1 DEF LimitsTypeOK
  <2>. QED  BY <2>2, <2>3, <2>4, <2>5, CountedInv
<1>4. ASSUME NEW a \in Address, NEW p \in Port, NEW size \in Size,
             LimitedDynamicRelay(a, p, size)
      PROVE  LimitsTypeOK' /\ CountersFollowRelays' /\ SliceExcess'
  <2>1. /\ Ids(relayTable') = Ids(relayTable) \union {DynamicId(a)}
        /\ DynamicId(a) \in Address \X Port
    BY <1>4, DynamicIds DEF LimitedDynamicRelay
  <2>2. DOMAIN limiters \union {DynamicId(a)} \subseteq Ids(relayTable')
    BY <2>1 DEF CountersFollowRelays
  <2>3. /\ DOMAIN created' = Ids(relayTable')
        /\ \A j \in DOMAIN created' : created'[j] \in 0 .. MaxLifetimeDuration
    BY <1>4, KeepAgesFacts DEF LimitedDynamicRelay
  <2>4. Allowed(DynamicId(a), 0, size) /\ Count(DynamicId(a), size)
    BY <1>4 DEF LimitedDynamicRelay
  <2>. QED  BY <2>1, <2>2, <2>3, <2>4, CountedInv
<1>5. ASSUME relayTable' = relayTable, UNCHANGED limitVars
      PROVE  LimitsTypeOK' /\ CountersFollowRelays' /\ SliceExcess'
  <2>1. /\ UNCHANGED <<limiters, globalLimiter, relayTraffic, carried>>
        /\ created' = created
    BY <1>5 DEF limitVars
  <2>2. /\ DOMAIN created' = Ids(relayTable')
        /\ \A j \in DOMAIN created' : created'[j] \in 0 .. MaxLifetimeDuration
    BY <1>5, <2>1 DEF LimitsTypeOK
  <2>. QED  BY <1>5, <2>1, <2>2, UncountedInv
<1>6. ASSUME NEW a \in Address, NEW p \in Port,
             \/ \E size \in Size : LimitedVeto(a, p, size) \/ LimitedDynamicVeto(a, p, size)
             \/ LimitedDynamicExhausted(a, p)
      PROVE  LimitsTypeOK' /\ CountersFollowRelays' /\ SliceExcess'
  BY <1>5, <1>6 DEF LimitedVeto, LimitedDynamicVeto, LimitedDynamicExhausted,
     TransmitVetoed, DynamicRelayVetoed, DynamicRelayExhausted, Die
<1>7. CASE LimitedTick
  BY <1>7, LimitedTickInv
<1>8. CASE LimitedCleanup
  <2>1. Ids(relayTable) \ Ids(Expired) \subseteq Ids(relayTable')
    BY <1>8 DEF LimitedCleanup, Cleanup, Ids
  <2>. QED  BY <1>8, <2>1, ForgetInv DEF LimitedCleanup
<1>9. CASE LimitedShutdown
  <2>1. Ids(relayTable) \ Ids(relayTable) \subseteq Ids(relayTable')
    OBVIOUS
  <2>. QED  BY <1>9, <2>1, ForgetInv DEF LimitedShutdown
<1>10. CASE UNCHANGED allVars
  BY <1>5, <1>10 DEF allVars, vars
<1>. QED
  BY <1>2, <1>3, <1>4, <1>6, <1>7, <1>8, <1>9, <1>10 DEF LimitedNext

LEMMA LimitedInvariance == LimitedSpec => []LimitedInv
<1>. QED  BY LimitsInitInv, LimitedNextInv, PTL DEF LimitedSpec

-----------------------------------------------------------------------------
(* The traffic of a window                                                  *)

\* What was carried since the tick after the slice began is in the slice and within
\* the limit; a longer window may add what an earlier slice carried after its
\* first tick.
CarriedInSlice ==
    \A t \in 0 .. TrafficInterval :
       /\ t < globalLimiter.elapsed =>
             carried[t] <= globalLimiter.traffic /\ carried[t] <= GlobalLimit
       /\ carried[t] <= globalLimiter.traffic + GlobalLimit

LEMMA CarriedInit == LimitsInit => CarriedInSlice
BY LimitsAssumption DEF LimitsInit, CarriedInSlice, NewLimiter

LEMMA CarriedCounted ==
    ASSUME LimitsTypeOK, CarriedInSlice,
           NEW i, NEW age, NEW size \in Size,
           Allowed(i, age, size), Count(i, size)
    PROVE  CarriedInSlice'
<1>1. /\ size \in Nat /\ GlobalLimit \in Nat /\ TrafficInterval \in Nat
      /\ globalLimiter.traffic \in Nat
      /\ globalLimiter.elapsed \in 0 .. TrafficInterval + 1
      /\ globalLimiter = [elapsed   |-> globalLimiter.elapsed,
                          traffic   |-> globalLimiter.traffic,
                          datagrams |-> globalLimiter.datagrams]
  BY LimitsAssumption DEF LimitsTypeOK, Limiter
<1>2. globalLimiter' = Charged(globalLimiter, size, TrafficInterval)
  BY DEF Count
<1>. SUFFICES ASSUME NEW t \in 0 .. TrafficInterval
     PROVE  /\ t < globalLimiter'.elapsed =>
                  carried'[t] <= globalLimiter'.traffic /\ carried'[t] <= GlobalLimit
            /\ carried'[t] <= globalLimiter'.traffic + GlobalLimit
  BY DEF CarriedInSlice
<1>3. carried[t] \in Nat /\ carried'[t] = carried[t] + size
  BY DEF Count, LimitsTypeOK
<1>4. /\ t < globalLimiter.elapsed =>
            carried[t] <= globalLimiter.traffic /\ carried[t] <= GlobalLimit
      /\ carried[t] <= globalLimiter.traffic + GlobalLimit
  BY DEF CarriedInSlice
<1>5. CASE SliceOver(globalLimiter, TrafficInterval)
  <2>1. globalLimiter'.elapsed = 0 /\ globalLimiter'.traffic = size
    BY <1>2, <1>5 DEF Charged
  <2>2. t < globalLimiter.elapsed
    BY <1>1, <1>5 DEF SliceOver
  <2>. QED  BY <1>1, <1>3, <1>4, <2>1, <2>2
<1>6. CASE ~SliceOver(globalLimiter, TrafficInterval)
  <2>1. /\ globalLimiter'.elapsed = globalLimiter.elapsed
        /\ globalLimiter'.traffic = globalLimiter.traffic + size
    BY <1>1, <1>2, <1>6 DEF Charged
  <2>2. globalLimiter.traffic + size <= GlobalLimit
    BY <1>6 DEF Allowed, Accepts
  <2>. QED  BY <1>1, <1>3, <1>4, <2>1, <2>2
<1>. QED  BY <1>5, <1>6

LEMMA CarriedTick ==
    ASSUME LimitsTypeOK, CarriedInSlice, LimitedTick
    PROVE  CarriedInSlice'
<1>1. /\ GlobalLimit \in Nat /\ TrafficInterval \in Nat
      /\ globalLimiter.traffic \in Nat
      /\ globalLimiter.elapsed \in 0 .. TrafficInterval + 1
      /\ globalLimiter = [elapsed   |-> globalLimiter.elapsed,
                          traffic   |-> globalLimiter.traffic,
                          datagrams |-> globalLimiter.datagrams]
  BY LimitsAssumption DEF LimitsTypeOK, Limiter
<1>2. /\ globalLimiter'.traffic = globalLimiter.traffic
      /\ globalLimiter'.elapsed \in Nat
      /\ globalLimiter'.elapsed <= globalLimiter.elapsed + 1
  BY <1>1 DEF LimitedTick, Waited
<1>. SUFFICES ASSUME NEW t \in 0 .. TrafficInterval
     PROVE  /\ t < globalLimiter'.elapsed =>
                  carried'[t] <= globalLimiter'.traffic /\ carried'[t] <= GlobalLimit
            /\ carried'[t] <= globalLimiter'.traffic + GlobalLimit
  BY DEF CarriedInSlice
<1>3. CASE t = 0
  <2>1. carried'[t] = 0
    BY <1>3 DEF LimitedTick
  <2>. QED  BY <1>1, <1>2, <2>1
<1>4. CASE t # 0
  <2>1. t - 1 \in 0 .. TrafficInterval /\ carried'[t] = carried[t - 1]
    BY <1>1, <1>4 DEF LimitedTick
  <2>2. carried[t - 1] \in Nat
    BY <2>1 DEF LimitsTypeOK
  <2>3. /\ t - 1 < globalLimiter.elapsed =>
              carried[t - 1] <= globalLimiter.traffic /\ carried[t - 1] <= GlobalLimit
        /\ carried[t - 1] <= globalLimiter.traffic + GlobalLimit
    BY <2>1 DEF CarriedInSlice
  <2>. QED  BY <1>1, <1>2, <2>1, <2>2, <2>3
<1>. QED  BY <1>3, <1>4

LEMMA CarriedNext ==
    LimitsTypeOK /\ CarriedInSlice /\ [LimitedNext]_allVars => CarriedInSlice'
<1>. SUFFICES ASSUME LimitsTypeOK, CarriedInSlice, [LimitedNext]_allVars
     PROVE  CarriedInSlice'
  OBVIOUS
<1>1. ASSUME UNCHANGED <<globalLimiter, carried>> PROVE CarriedInSlice'
  BY <1>1 DEF CarriedInSlice
<1>2. ASSUME NEW a \in Address, LimitedCreateRelay(a) PROVE CarriedInSlice'
  BY <1>1, <1>2 DEF LimitedCreateRelay
<1>3. ASSUME NEW a \in Address, NEW p \in Port, NEW size \in Size,
             LimitedTransmit(a, p, size)
      PROVE  CarriedInSlice'
  BY <1>3, CarriedCounted DEF LimitedTransmit
<1>4. ASSUME NEW a \in Address, NEW p \in Port, NEW size \in Size,
             LimitedDynamicRelay(a, p, size)
      PROVE  CarriedInSlice'
  BY <1>4, CarriedCounted DEF LimitedDynamicRelay
<1>5. ASSUME NEW a \in Address, NEW p \in Port,
             \/ \E size \in Size : LimitedVeto(a, p, size) \/ LimitedDynamicVeto(a, p, size)
             \/ LimitedDynamicExhausted(a, p)
      PROVE  CarriedInSlice'
  BY <1>1, <1>5
     DEF LimitedVeto, LimitedDynamicVeto, LimitedDynamicExhausted, limitVars
<1>6. CASE LimitedTick
  BY <1>6, CarriedTick
<1>7. CASE LimitedCleanup
  BY <1>1, <1>7 DEF LimitedCleanup, Forget
<1>8. CASE LimitedShutdown
  BY <1>1, <1>8 DEF LimitedShutdown, Forget
<1>9. CASE UNCHANGED allVars
  BY <1>1, <1>9 DEF allVars, limitVars
<1>. QED
  BY <1>2, <1>3, <1>4, <1>5, <1>6, <1>7, <1>8, <1>9 DEF LimitedNext

-----------------------------------------------------------------------------
(* Theorems                                                                 *)

\* With the limits installed, the relay handler does what it does without them: a
\* limit may only veto a datagram.
THEOREM LimitsRefineHandler == LimitedSpec => Init /\ [][Next]_vars
<1>1. LimitsInit => Init
  BY DEF LimitsInit
<1>. QED  BY <1>1, LimitedStep, PTL DEF LimitedSpec

\* Limiters, byte counts and ages are of the right type; in particular no relay
\* gets over its lifetime's traffic.
THEOREM LimitsTypeCorrect == LimitedSpec => []LimitsTypeOK
<1>1. LimitedInv => LimitsTypeOK
  BY DEF LimitedInv
<1>. QED  BY <1>1, LimitedInvariance, PTL

\* What the listeners counted for a relay lives exactly as long as the relay.
THEOREM CountersFollow == LimitedSpec => []CountersFollowRelays
<1>1. LimitedInv => CountersFollowRelays
  BY DEF LimitedInv
<1>. QED  BY <1>1, LimitedInvariance, PTL

\* A slice carries no more than its limit, unless one datagram is all it carries.
THEOREM SlicesBounded == LimitedSpec => []SliceExcess
<1>1. LimitedInv => SliceExcess
  BY DEF LimitedInv
<1>. QED  BY <1>1, LimitedInvariance, PTL

\* Whatever the traffic: all relays together carry, in any period as long as a slice,
\* twice the limit at most, or the limit and one datagram.
THEOREM WindowBounded == LimitedSpec => []WindowBound
<1>1. LimitedInv /\ CarriedInSlice => WindowBound
  <2>. SUFFICES ASSUME LimitedInv, CarriedInSlice PROVE WindowBound
    OBVIOUS
  <2>1. /\ GlobalLimit \in Nat /\ Size \subseteq Nat
        /\ TrafficInterval \in 0 .. TrafficInterval
        /\ globalLimiter.traffic \in Nat
        /\ carried[TrafficInterval] \in Nat
    BY LimitsAssumption DEF LimitedInv, LimitsTypeOK, Limiter
  <2>2. carried[TrafficInterval] <= globalLimiter.traffic + GlobalLimit
    BY <2>1 DEF CarriedInSlice
  <2>3. CASE globalLimiter.traffic <= GlobalLimit
    BY <2>1, <2>2, <2>3 DEF WindowBound
  <2>4. CASE globalLimiter.traffic \in Size
    BY <2>1, <2>2, <2>4 DEF WindowBound
  <2>. QED  BY <2>3, <2>4 DEF LimitedInv, SliceExcess, WithinSlice
<1>2. LimitedInv => LimitsTypeOK
  BY DEF LimitedInv
<1>3. LimitedSpec => []CarriedInSlice
  BY <1>2, LimitedInvariance, CarriedInit, CarriedNext, PTL DEF LimitedSpec
<1>. QED  BY <1>1, <1>3, LimitedInvariance, PTL

=============================================================================
