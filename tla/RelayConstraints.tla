-------------------------- MODULE RelayConstraints --------------------------
(***************************************************************************)
(* The limits on relayed traffic (relay/constraints.mjs, installed by      *)
(* relay/relay.mjs), composed with the relay handler.                      *)
(*                                                                         *)
(* The limits are listeners of the handler's events.  A 'transmit'         *)
(* listener that throws vetoes the datagram, and the exception leaves      *)
(* relay() and the socket's 'message' listener: the process dies.  What    *)
(* the listeners before it had counted by then is lost with the process,   *)
(* so a datagram is either accepted by all of them or ends the process.   *)
(* The 'destroy' listeners forget what was counted for a relay.            *)
(***************************************************************************)
EXTENDS UDPRelayHandler, BandwidthLimiter

CONSTANTS
    Size,                   \* lengths of datagrams, in bytes
    TrafficInterval,        \* config udpRelay.trafficInterval, in ticks
    IndividualLimit,        \* bytes of one relay in one slice
    GlobalLimit,            \* bytes of all relays in one slice
    MaxLifetimeDuration,    \* config udpRelay.maxLifetimeDuration, in ticks
    MaxLifetimeTraffic      \* config udpRelay.maxLifetimeTraffic, in bytes

ASSUME LimitsAssumption ==
    /\ Size \subseteq Nat
    /\ TrafficInterval \in Nat \ {0}
    /\ IndividualLimit \in Nat
    /\ GlobalLimit \in Nat
    /\ MaxLifetimeDuration \in Nat
    /\ MaxLifetimeTraffic \in Nat

VARIABLES
    limiters,       \* individual limiter by relay id, for relays that sent
    globalLimiter,
    relayTraffic,   \* bytes sent by relay id, for relays that sent
    created,        \* ticks since the entry was created, by relay id
    carried         \* history: bytes accepted in this tick and the t before it, by t

limitVars == <<limiters, globalLimiter, relayTraffic, created, carried>>
allVars == <<vars, limitVars>>

\* RelayEntry.id: the address and the port of the entry.
Id(e) == <<e.address, e.port>>

Ids(table) == {Id(e) : e \in table}

LimitsTypeOK ==
    /\ DOMAIN limiters \subseteq Address \X Port
    /\ \A i \in DOMAIN limiters : limiters[i] \in Limiter(TrafficInterval)
    /\ globalLimiter \in Limiter(TrafficInterval)
    /\ DOMAIN relayTraffic \subseteq Address \X Port
    /\ \A i \in DOMAIN relayTraffic :
          relayTraffic[i] \in Nat /\ relayTraffic[i] < MaxLifetimeTraffic
    /\ DOMAIN created = Ids(relayTable)
    /\ \A i \in DOMAIN created : created[i] \in 0 .. MaxLifetimeDuration
    /\ carried \in [0 .. TrafficInterval -> Nat]

-----------------------------------------------------------------------------
LimitsInit ==
    /\ Init
    /\ limiters = << >>
    /\ globalLimiter = NewLimiter
    /\ relayTraffic = << >>
    /\ created = << >>
    /\ carried = [t \in 0 .. TrafficInterval |-> 0]

\* The listener creates the limiter of a relay on its first datagram.
LimiterOf(i) == IF i \in DOMAIN limiters THEN limiters[i] ELSE NewLimiter

TrafficOf(i) == IF i \in DOMAIN relayTraffic THEN relayTraffic[i] ELSE 0

\* Mutant: the lifetime's traffic may be used up to the last byte.
AllowedAtLimit(i, age, size) ==
    /\ Accepts(LimiterOf(i), size, IndividualLimit, TrafficInterval)
    /\ Accepts(globalLimiter, size, GlobalLimit, TrafficInterval)
    /\ age < MaxLifetimeDuration
    /\ TrafficOf(i) + size <= MaxLifetimeTraffic

\* No listener throws: the individual and the global bandwidth, the lifetime in
\* seconds and the lifetime in bytes of the relay i, which is `age' ticks old.
Allowed(i, age, size) ==
    /\ Accepts(LimiterOf(i), size, IndividualLimit, TrafficInterval)
    /\ Accepts(globalLimiter, size, GlobalLimit, TrafficInterval)
    /\ age < MaxLifetimeDuration
    /\ TrafficOf(i) + size < MaxLifetimeTraffic

\* The map's set: key i has value v.
Put(map, i, v) == [j \in DOMAIN map \union {i} |-> IF j = i THEN v ELSE map[j]]

\* The listeners count a datagram that they accept.
Count(i, size) ==
    /\ limiters' = Put(limiters, i, Charged(LimiterOf(i), size, TrafficInterval))
    /\ globalLimiter' = Charged(globalLimiter, size, TrafficInterval)
    /\ relayTraffic' = Put(relayTraffic, i, TrafficOf(i) + size)
    /\ carried' = [t \in 0 .. TrafficInterval |-> carried[t] + size]

ForgetBandwidthOnly(gone) ==        \* mutant: the traffic limit has no 'destroy' listener
    /\ limiters' = Restrict(limiters, DOMAIN limiters \ gone)
    /\ UNCHANGED <<globalLimiter, relayTraffic, carried>>

\* The 'destroy' listeners, for the relays in `gone'.
Forget(gone) ==
    /\ limiters' = Restrict(limiters, DOMAIN limiters \ gone)
    /\ relayTraffic' = Restrict(relayTraffic, DOMAIN relayTraffic \ gone)
    /\ UNCHANGED <<globalLimiter, carried>>

\* A relay's `created' is set when its entry enters the table.
KeepAges ==
    created' = [i \in Ids(relayTable') |-> IF i \in DOMAIN created THEN created[i] ELSE 0]

-----------------------------------------------------------------------------
(* The actions of the handler, with the listeners.                          *)

LimitedCreateRelay(a) ==
    /\ CreateRelay(a)
    /\ KeepAges
    /\ UNCHANGED <<limiters, globalLimiter, relayTraffic, carried>>

LimitedTransmit(a, p, size) ==
    /\ Transmit(a, p)
    /\ \E sender \in RelaysOf(a) :
          /\ Allowed(Id(sender), created[Id(sender)], size)
          /\ Count(Id(sender), size)
    /\ UNCHANGED created

LimitedVeto(a, p, size) ==
    /\ TransmitVetoed(a, p)
    /\ \E sender \in RelaysOf(a) : ~Allowed(Id(sender), created[Id(sender)], size)
    /\ UNCHANGED limitVars

\* The id of the relay that dynamic relaying creates for address a.
DynamicId(a) == <<a, NextPort(Popped(freePorts))>>

LimitedDynamicRelay(a, p, size) ==
    /\ DynamicRelay(a, p)
    /\ Allowed(DynamicId(a), 0, size)
    /\ Count(DynamicId(a), size)
    /\ KeepAges

LimitedDynamicVeto(a, p, size) ==
    /\ DynamicRelayVetoed(a, p)
    /\ ~Allowed(DynamicId(a), 0, size)
    /\ UNCHANGED limitVars

LimitedDynamicExhausted(a, p) ==
    /\ DynamicRelayExhausted(a, p)
    /\ UNCHANGED limitVars

LimitedTick ==
    /\ Tick
    /\ limiters' = [i \in DOMAIN limiters |-> Waited(limiters[i], TrafficInterval)]
    /\ globalLimiter' = Waited(globalLimiter, TrafficInterval)
    /\ created' = [i \in DOMAIN created |->
                      IF created[i] < MaxLifetimeDuration THEN created[i] + 1 ELSE created[i]]
    /\ carried' = [t \in 0 .. TrafficInterval |-> IF t = 0 THEN 0 ELSE carried[t - 1]]
    /\ UNCHANGED relayTraffic

LimitedCleanup ==
    /\ Cleanup
    /\ Forget(Ids(Expired))
    /\ KeepAges

\* handler.clear frees every relay, after which the listeners know none.
LimitedShutdown ==
    /\ Shutdown
    /\ Forget(Ids(relayTable))
    /\ KeepAges

LimitedNext ==
    \/ \E a \in Address : LimitedCreateRelay(a)
    \/ \E a \in Address, p \in Port :
          \/ \E size \in Size :
                \/ LimitedTransmit(a, p, size)
                \/ LimitedVeto(a, p, size)
                \/ LimitedDynamicRelay(a, p, size)
                \/ LimitedDynamicVeto(a, p, size)
          \/ LimitedDynamicExhausted(a, p)
    \/ LimitedTick
    \/ LimitedCleanup
    \/ LimitedShutdown

LimitedSpec == LimitsInit /\ [][LimitedNext]_allVars

-----------------------------------------------------------------------------
(* Properties                                                               *)

\* What was counted for a relay goes when the relay goes: a later relay with the
\* same address and port starts afresh, and nothing is kept for relays that are
\* gone.  The two listeners on 'destroy' and the two on 'transmit' agree.
CountersFollowRelays ==
    /\ DOMAIN limiters = DOMAIN relayTraffic
    /\ DOMAIN limiters \subseteq Ids(relayTable)
    /\ \A i \in DOMAIN limiters : limiters[i].traffic <= relayTraffic[i]

\* Time slices follow the traffic and not the clock.  A period as long as a
\* slice meets two slices at most, the end of one and the start of the next: it
\* sees the limit once, and once more the limit or the longest datagram, because
\* the first datagram of a slice is not limited.
WindowBound ==
    \/ carried[TrafficInterval] <= GlobalLimit + GlobalLimit
    \/ \E size \in Size : carried[TrafficInterval] <= GlobalLimit + size

\* What a slice carried stays within its limit, or it was one datagram.
WithinSlice(l, limit) == l.traffic <= limit \/ (l.traffic \in Size /\ l.datagrams = 1)

\* A slice of a relay, or of all relays, carries what is allotted to it, or nothing
\* but one datagram: only the first of a slice can be larger than the limit, and
\* then nothing else passes until the slice is over.
SliceExcess ==
    /\ \A i \in DOMAIN limiters : WithinSlice(limiters[i], IndividualLimit)
    /\ WithinSlice(globalLimiter, GlobalLimit)

\* Every time slice is allocated a certain amount of data transfer
\* (bandwidth.limiter.mjs:9), and validate throws if traffic is over the limit
\* (bandwidth.limiter.mjs:40): no slice carries more than its allotment.
SliceAllotted ==
    /\ \A i \in DOMAIN limiters : limiters[i].traffic <= IndividualLimit
    /\ globalLimiter.traffic <= GlobalLimit

\* A limit blocks the traffic of a relay; it does not end the service.
LimitsOnlyBlock == status # "diedOfLimit"

=============================================================================
