---------------------------- MODULE Noray_proofs ----------------------------
(***************************************************************************)
(* Proofs about Noray, for all addresses, connections and open ids, every  *)
(* finite set of ports and all positive timeouts.                          *)
(***************************************************************************)
EXTENDS Noray, UDPRelayHandler_proofs

-----------------------------------------------------------------------------
(* getRelay                                                                 *)

\* What the handler's invariant says of a stack of free ports and a table.
RelaysOK(free, table) ==
    /\ free \in Seq(Port) /\ IsInjective(free)
    /\ table \in SUBSET RelayEntry
    /\ AddressesDiffer(table) /\ PortsDiffer(table)
    /\ Range(free) \intersect PortsOf(table) = {}
    /\ Range(free) \union PortsOf(table) \subseteq sockets
    /\ \A e \in table : IdleFor(e) < RelayTimeout + sinceCleanup

LEMMA InvRelaysOK == Inv => RelaysOK(freePorts, relayTable)
BY DEF Inv, RelaysOK, TypeOK, PoolTypeOK, PortExclusive, AddressUnique, SocketBacked,
       RetentionInd, TablePorts, PortsOf, AddressesDiffer, PortsDiffer

LEMMA RelaysOKInv ==
    ASSUME Inv, RelaysOK(freePorts', relayTable'),
           UNCHANGED <<sockets, sinceCleanup, status>>
    PROVE  Inv'
<1>1. TypeOK'
  BY DEF Inv, RelaysOK, TypeOK, PoolTypeOK
<1>2. AddressUnique' /\ PortExclusive'
  BY DEF RelaysOK, AddressUnique, PortExclusive, TablePorts, PortsOf, AddressesDiffer,
         PortsDiffer
<1>3. SocketBacked' /\ RetentionInd'
  BY DEF RelaysOK, SocketBacked, RetentionInd, TablePorts, PortsOf
<1>. QED  BY <1>1, <1>2, <1>3 DEF Inv

\* getRelay leaves the relays in order and an entry for its address, and takes no
\* entry away.
LEMMA EnsuredFacts ==
    ASSUME Inv, NEW state, RelaysOK(state.free, state.table),
           NEW a \in Address, Ensurable(state, a)
    PROVE  /\ RelaysOK(Ensured(state, a).free, Ensured(state, a).table)
           /\ state.table \subseteq Ensured(state, a).table
           /\ \E e \in Ensured(state, a).table : e.address = a
<1>1. CASE HasRelayIn(state, a)
  BY <1>1 DEF Ensured, HasRelayIn
<1>2. CASE ~HasRelayIn(state, a)
  <2>. DEFINE free == state.free
              table == state.table
              p == NextPort(free)
              new == NewRelay(a, p)
  <2>1. /\ Ensured(state, a).free = Popped(free)
        /\ Ensured(state, a).table = table \union {new}
    BY <1>2 DEF Ensured
  <2>2. /\ free \in Seq(Port) /\ IsInjective(free) /\ HasFreePort(free)
        /\ table \in SUBSET RelayEntry
        /\ AddressesDiffer(table) /\ PortsDiffer(table)
        /\ Range(free) \intersect PortsOf(table) = {}
        /\ Range(free) \union PortsOf(table) \subseteq sockets
        /\ \A e \in table : IdleFor(e) < RelayTimeout + sinceCleanup
    BY <1>2 DEF RelaysOK, Ensurable
  <2>3. /\ Popped(free) \in Seq(Port) /\ IsInjective(Popped(free))
        /\ p \in Port /\ p \in Range(free) /\ p \notin Range(Popped(free))
        /\ Range(Popped(free)) \subseteq Range(free)
    BY <2>2, PopFacts
  <2>4. (\A e \in table : e.address # a) /\ p \notin PortsOf(table)
    BY <1>2, <2>2, <2>3 DEF HasRelayIn
  <2>5. /\ table \union {new} \subseteq RelayEntry
        /\ PortsOf(table \union {new}) = PortsOf(table) \union {p}
        /\ AddressesDiffer(table \union {new}) /\ PortsDiffer(table \union {new})
        /\ IdleFor(new) = 0
    <3>. HIDE DEF free, table, p
    <3>. QED  BY <2>2, <2>3, <2>4, NewRelayFacts
  <2>6. 0 < RelayTimeout + sinceCleanup
    <3>1. RelayTimeout \in Nat \ {0} /\ sinceCleanup \in Nat
      BY TimesAssumption DEF Inv, TypeOK
    <3>. QED  BY <3>1
  <2>7. new.address = a
    BY DEF NewRelay
  <2>. HIDE DEF free, table, p, new
  <2>8. RelaysOK(Popped(free), table \union {new})
    BY <2>2, <2>3, <2>5, <2>6 DEF RelaysOK
  <2>. QED  BY <2>1, <2>7, <2>8 DEF table
<1>. QED  BY <1>1, <1>2

-----------------------------------------------------------------------------
(* The repository                                                           *)

OidsUnique == \A j, k \in DOMAIN hosts : hosts[j].oid = hosts[k].oid => j = k

\* A host that players were told of is there, with the address they were told.
ToldKept ==
    \A k \in told : \E i \in DOMAIN hosts : hosts[i].oid = k[1] /\ hosts[i].rinfo = k[2]

HostsOK ==
    /\ open \subseteq Conn
    /\ hosts \in Seq(HostEntity)
    /\ told \subseteq Oid \X Address
    /\ OidsUnique
    /\ \A k \in DOMAIN hosts : hosts[k].socket \in open
    /\ ToldKept

LEMMA HostOfFacts ==
    ASSUME NEW o, KnownOid(o)
    PROVE  \E k \in DOMAIN hosts : HostOf(o) = hosts[k] /\ hosts[k].oid = o
<1>1. HostOf(o) \in Range(hosts) /\ HostOf(o).oid = o
  BY DEF KnownOid, HostOf
<1>. QED  BY <1>1 DEF Range

\* findBySocket finds a host of the connection, and the first one.
LEMMA HostOnFacts ==
    ASSUME HostsOK, NEW c, KnownSocket(c)
    PROVE  \E k \in DOMAIN hosts :
              /\ HostOn(c) = hosts[k] /\ hosts[k].socket = c
              /\ \A j \in DOMAIN hosts : hosts[j].socket = c => k <= j
<1>1. DOMAIN hosts = 1 .. Len(hosts) /\ Len(hosts) \in Nat
  BY LenProperties DEF HostsOK
<1>. DEFINE I == {i \in 1 .. Len(hosts) : hosts[i].socket = c}
<1>2. I \in SUBSET Nat /\ I # {}
  BY <1>1 DEF KnownSocket, Range
<1>3. HostOn(c) = hosts[Min(I)]
  BY <1>2 DEF HostOn, SelectInSeq
<1>4. Min(I) \in I /\ \A j \in I : Min(I) <= j
  BY <1>2, MinFacts
<1>. QED  BY <1>1, <1>3, <1>4

LEMMA KnownHost ==
    ASSUME HostsOK, NEW k \in DOMAIN hosts
    PROVE  /\ hosts[k] \in HostEntity
           /\ KnownOid(hosts[k].oid)
           /\ HostOf(hosts[k].oid) = hosts[k]
<1>1. hosts[k] \in HostEntity
  BY LenProperties, ElementOfSeq DEF HostsOK
<1>2. KnownOid(hosts[k].oid)
  BY DEF KnownOid, Range
<1>3. PICK j \in DOMAIN hosts :
         HostOf(hosts[k].oid) = hosts[j] /\ hosts[j].oid = hosts[k].oid
  BY <1>2, HostOfFacts
<1>. QED  BY <1>1, <1>2, <1>3 DEF HostsOK, OidsUnique

-----------------------------------------------------------------------------
(* The steps and the relay handler                                          *)

\* A command or datagram that is none of the relay's leaves the relays in order.
LEMMA ConnectRelayInv ==
    ASSUME Inv, HostsOK, NEW c \in Conn, NEW o \in Oid, ConnectRelay(c, o)
    PROVE  /\ Inv'
           /\ relayTable \subseteq relayTable'
           /\ HostOf(o).rinfo \in Address /\ HostOn(c).rinfo \in Address
           /\ \E e \in relayTable' : e.address = HostOf(o).rinfo
           /\ \E e \in relayTable' : e.address = HostOn(c).rinfo
           /\ sessions' = sessions \union
                            {Told(HostOf(o).rinfo, HostOn(c).rinfo, relayTable')}
<1>. DEFINE h == HostOf(o).rinfo
            k == HostOn(c).rinfo
            afterHost == Ensured(Relays, h)
            afterBoth == Ensured(afterHost, k)
<1>1. /\ Ensurable(Relays, h) /\ Ensurable(afterHost, k)
      /\ freePorts' = afterBoth.free
      /\ relayTable' = afterBoth.table
      /\ sessions' = sessions \union {Told(h, k, afterBoth.table)}
      /\ UNCHANGED <<sockets, sinceCleanup, status>>
  BY DEF ConnectRelay
<1>2. h \in Address /\ k \in Address
  <2>1. PICK i \in DOMAIN hosts : HostOf(o) = hosts[i]
    BY HostOfFacts DEF ConnectRelay
  <2>2. PICK j \in DOMAIN hosts : HostOn(c) = hosts[j]
    BY HostOnFacts DEF ConnectRelay
  <2>. QED  BY <1>1, <2>1, <2>2, KnownHost DEF HostEntity, Ensurable
<1>3. /\ RelaysOK(Relays.free, Relays.table)
      /\ Relays.table = relayTable
  BY InvRelaysOK DEF Relays
<1>4. /\ RelaysOK(afterHost.free, afterHost.table)
      /\ relayTable \subseteq afterHost.table
      /\ \E e \in afterHost.table : e.address = h
  <2>. HIDE DEF h
  <2>. QED  BY <1>1, <1>2, <1>3, EnsuredFacts
<1>5. /\ RelaysOK(afterBoth.free, afterBoth.table)
      /\ afterHost.table \subseteq afterBoth.table
      /\ \E e \in afterBoth.table : e.address = k
  <2>. HIDE DEF k, afterHost
  <2>. QED  BY <1>1, <1>2, <1>4, EnsuredFacts
<1>. HIDE DEF h, k, afterHost, afterBoth
<1>6. Inv'
  BY <1>1, <1>5, RelaysOKInv
<1>. QED  BY <1>1, <1>2, <1>4, <1>5, <1>6 DEF h, k

LEMMA ConnectRelayHalfInv ==
    ASSUME Inv, HostsOK, NEW c \in Conn, NEW o \in Oid, ConnectRelayHalf(c, o)
    PROVE  Inv' /\ relayTable \subseteq relayTable'
<1>. DEFINE h == HostOf(o).rinfo
            afterHost == Ensured(Relays, h)
<1>1. /\ Ensurable(Relays, h)
      /\ freePorts' = afterHost.free
      /\ relayTable' = afterHost.table
      /\ UNCHANGED <<sockets, sinceCleanup, status>>
  BY DEF ConnectRelayHalf
<1>2. h \in Address
  <2>1. PICK i \in DOMAIN hosts : HostOf(o) = hosts[i]
    BY HostOfFacts DEF ConnectRelayHalf
  <2>. QED  BY <1>1, <2>1, KnownHost DEF HostEntity, Ensurable
<1>3. RelaysOK(Relays.free, Relays.table) /\ Relays.table = relayTable
  BY InvRelaysOK DEF Relays
<1>4. RelaysOK(afterHost.free, afterHost.table) /\ relayTable \subseteq afterHost.table
  <2>. HIDE DEF h
  <2>. QED  BY <1>1, <1>2, <1>3, EnsuredFacts
<1>. HIDE DEF h, afterHost
<1>. QED  BY <1>1, <1>4, RelaysOKInv

\* All other steps are steps of the relay handler, or leave it alone.
LEMMA HandlerStep ==
    ASSUME [NorayNext]_norayVars,
           ~ \E c \in Conn, o \in Oid : ConnectRelay(c, o) \/ ConnectRelayHalf(c, o)
    PROVE  [Next]_vars
<1>1. CASE \E c \in Conn : Accept(c) \/ Close(c)
  BY <1>1 DEF Accept, Close, vars
<1>2. CASE \E c \in Conn, o \in Oid : RegisterHost(c, o) \/ Connect(c, o)
  BY <1>2 DEF RegisterHost, Connect, vars
<1>3. CASE \E a \in Address, o \in Oid : RegisterRemote(a, o)
  BY <1>3 DEF RegisterRemote, vars
<1>4. CASE RelayTraffic
  BY <1>4 DEF RelayTraffic, Next
<1>5. CASE NorayTick \/ NorayCleanup \/ NorayShutdown
  BY <1>5 DEF NorayTick, NorayCleanup, NorayShutdown, Next
<1>6. CASE UNCHANGED norayVars
  BY <1>6 DEF norayVars, vars
<1>. QED  BY <1>1, <1>2, <1>3, <1>4, <1>5, <1>6 DEF NorayNext

LEMMA HandlerInv ==
    ASSUME Inv, HostsOK, [NorayNext]_norayVars
    PROVE  Inv'
<1>1. CASE \E c \in Conn, o \in Oid : ConnectRelay(c, o) \/ ConnectRelayHalf(c, o)
  BY <1>1, ConnectRelayInv, ConnectRelayHalfInv
<1>2. CASE ~ \E c \in Conn, o \in Oid : ConnectRelay(c, o) \/ ConnectRelayHalf(c, o)
  BY <1>2, HandlerStep, NextInv
<1>. QED  BY <1>1, <1>2

-----------------------------------------------------------------------------
(* The steps and the hosts                                                  *)

LEMMA RegisterHostHosts ==
    ASSUME HostsOK, NEW c \in Conn, NEW o \in Oid, RegisterHost(c, o)
    PROVE  HostsOK'
<1>. DEFINE new == [oid |-> o, socket |-> c, rinfo |-> NoAddress]
            n == Len(hosts)
<1>1. new \in HostEntity /\ hosts \in Seq(HostEntity)
  BY DEF HostEntity, HostsOK
<1>2. /\ n \in Nat /\ DOMAIN hosts = 1 .. n
      /\ hosts' \in Seq(HostEntity)
      /\ DOMAIN hosts' = 1 .. n + 1
      /\ \A k \in 1 .. n : hosts'[k] = hosts[k]
      /\ hosts'[n + 1] = new
  BY <1>1, AppendProperties, LenProperties DEF RegisterHost
<1>3. \A k \in DOMAIN hosts : hosts[k].oid # o
  BY DEF RegisterHost, KnownOid, Range
<1>4. open' = open /\ told' = told /\ c \in open
  BY DEF RegisterHost
<1>. HIDE DEF n
<1>5. OidsUnique'
  BY <1>2, <1>3 DEF HostsOK, OidsUnique
<1>6. \A k \in DOMAIN hosts' : hosts'[k].socket \in open'
  BY <1>2, <1>4 DEF HostsOK
<1>7. ToldKept'
  BY <1>2, <1>4 DEF HostsOK, ToldKept
<1>. QED  BY <1>2, <1>4, <1>5, <1>6, <1>7 DEF HostsOK

LEMMA RegisterRemoteHosts ==
    ASSUME HostsOK, NEW a \in Address, NEW o \in Oid, RegisterRemote(a, o)
    PROVE  HostsOK'
<1>1. /\ DOMAIN hosts = 1 .. Len(hosts) /\ Len(hosts) \in Nat
      /\ \A k \in DOMAIN hosts : hosts[k] \in HostEntity
  BY LenProperties, ElementOfSeq DEF HostsOK
<1>2. /\ open' = open /\ told' = told
      /\ DOMAIN hosts' = DOMAIN hosts
      /\ \A k \in DOMAIN hosts :
            hosts'[k] = IF hosts[k].oid = o /\ hosts[k].rinfo = NoAddress
                        THEN [hosts[k] EXCEPT !.rinfo = a] ELSE hosts[k]
  BY DEF RegisterRemote
<1>3. \A k \in DOMAIN hosts :
         /\ hosts'[k] \in HostEntity
         /\ hosts'[k].oid = hosts[k].oid /\ hosts'[k].socket = hosts[k].socket
         /\ hosts[k].rinfo # NoAddress => hosts'[k].rinfo = hosts[k].rinfo
  BY <1>1, <1>2 DEF HostEntity
<1>4. hosts' \in Seq(HostEntity)
  <2>1. hosts' = [k \in 1 .. Len(hosts) |-> hosts'[k]]
    BY <1>1 DEF RegisterRemote
  <2>. QED  BY <1>1, <1>3, <2>1, IsASeq
<1>5. OidsUnique'
  BY <1>2, <1>3 DEF HostsOK, OidsUnique
<1>6. \A k \in DOMAIN hosts' : hosts'[k].socket \in open'
  BY <1>2, <1>3 DEF HostsOK
<1>7. ToldKept'
  <2>. SUFFICES ASSUME NEW k \in told
       PROVE  \E i \in DOMAIN hosts : hosts'[i].oid = k[1] /\ hosts'[i].rinfo = k[2]
    BY <1>2 DEF ToldKept
  <2>1. PICK i \in DOMAIN hosts : hosts[i].oid = k[1] /\ hosts[i].rinfo = k[2]
    BY DEF HostsOK, ToldKept
  <2>2. k[2] \in Address
    BY DEF HostsOK
  <2>. QED  BY <1>3, <2>1, <2>2, NoAddressAssumption
<1>. QED  BY <1>2, <1>4, <1>5, <1>6, <1>7 DEF HostsOK

\* Hosts of a connection that closes go, and with them what was told of them.
LEMMA CloseHosts ==
    ASSUME HostsOK, NEW c \in Conn, Close(c)
    PROVE  HostsOK'
<1>. DEFINE K == {k \in DOMAIN hosts : hosts[k].socket # c}
<1>1. /\ hosts \in Seq(HostEntity) /\ hosts' \in Kept(hosts, K)
      /\ K \in SUBSET DOMAIN hosts
      /\ open' = open \ {c}
      /\ told' = {k \in told : HostOf(k[1]).socket # c}
  BY DEF HostsOK, Close
<1>2. DOMAIN hosts = 1 .. Len(hosts) /\ Len(hosts) \in Nat
  BY <1>1, LenProperties
<1>. HIDE DEF K
<1>3. hosts' \in Seq(HostEntity)
  BY <1>1, KeptFacts
<1>4. PICK places :
         /\ DOMAIN places = DOMAIN hosts'
         /\ Ascending(places)
         /\ \A i \in DOMAIN hosts' : places[i] \in K /\ hosts'[i] = hosts[places[i]]
         /\ \A k \in K : \E i \in DOMAIN hosts' : places[i] = k
  BY <1>1, KeptFacts
<1>5. DOMAIN hosts' = 1 .. Len(hosts') /\ Len(hosts') \in Nat
  BY <1>3, LenProperties
<1>6. \A i, j \in DOMAIN hosts' : places[i] = places[j] => i = j
  <2>1. \A i \in DOMAIN hosts' : places[i] \in Nat
    BY <1>1, <1>2, <1>4
  <2>2. \A i, j \in DOMAIN hosts' : i < j => places[i] < places[j]
    BY <1>4 DEF Ascending
  <2>. QED  BY <1>5, <2>1, <2>2
<1>7. OidsUnique'
  BY <1>1, <1>4, <1>6 DEF HostsOK, OidsUnique
<1>8. \A i \in DOMAIN hosts' : hosts'[i].socket \in open'
  BY <1>1, <1>4 DEF HostsOK, K
<1>9. ToldKept'
  <2>. SUFFICES ASSUME NEW k \in told'
       PROVE  \E i \in DOMAIN hosts' : hosts'[i].oid = k[1] /\ hosts'[i].rinfo = k[2]
    BY DEF ToldKept
  <2>1. k \in told /\ HostOf(k[1]).socket # c
    BY <1>1
  <2>2. PICK j \in DOMAIN hosts : hosts[j].oid = k[1] /\ hosts[j].rinfo = k[2]
    BY <2>1 DEF HostsOK, ToldKept
  <2>3. j \in K
    BY <2>1, <2>2, KnownHost DEF K
  <2>. QED  BY <1>4, <2>2, <2>3
<1>10. open' \subseteq Conn /\ told' \subseteq Oid \X Address
  BY <1>1 DEF HostsOK
<1>. QED  BY <1>3, <1>7, <1>8, <1>9, <1>10 DEF HostsOK

LEMMA ConnectHosts ==
    ASSUME HostsOK, NEW c \in Conn, NEW o \in Oid, Connect(c, o)
    PROVE  HostsOK'
<1>1. PICK i \in DOMAIN hosts : HostOf(o) = hosts[i] /\ hosts[i].oid = o
  BY HostOfFacts DEF Connect
<1>2. PICK j \in DOMAIN hosts : HostOn(c) = hosts[j]
  BY HostOnFacts DEF Connect
<1>3. /\ told' = told \union {<<o, hosts[i].rinfo>>, <<hosts[j].oid, hosts[j].rinfo>>}
      /\ hosts[i].rinfo # NoAddress /\ hosts[j].rinfo # NoAddress
      /\ open' = open /\ hosts' = hosts
  BY <1>1, <1>2 DEF Connect
<1>4. hosts[i] \in HostEntity /\ hosts[j] \in HostEntity
  BY KnownHost
<1>5. told' \subseteq Oid \X Address
  BY <1>3, <1>4 DEF HostsOK, HostEntity
<1>6. ToldKept'
  BY <1>1, <1>3 DEF HostsOK, ToldKept
<1>. QED  BY <1>3, <1>5, <1>6 DEF HostsOK, OidsUnique

LEMMA HostsInv ==
    ASSUME HostsOK, [NorayNext]_norayVars
    PROVE  HostsOK'
<1>1. ASSUME NEW c \in Conn, Accept(c) PROVE HostsOK'
  BY <1>1 DEF Accept, HostsOK, OidsUnique, ToldKept
<1>2. ASSUME UNCHANGED <<open, hosts, told>> PROVE HostsOK'
  BY <1>2 DEF HostsOK, OidsUnique, ToldKept
<1>3. CASE \E c \in Conn, o \in Oid : ConnectRelay(c, o) \/ ConnectRelayHalf(c, o)
  BY <1>2, <1>3 DEF ConnectRelay, ConnectRelayHalf, serverVars
<1>4. CASE RelayTraffic \/ NorayTick \/ NorayCleanup \/ NorayShutdown
  BY <1>2, <1>4 DEF RelayTraffic, NorayTick, NorayCleanup, NorayShutdown, serverVars
<1>5. CASE UNCHANGED norayVars
  BY <1>2, <1>5 DEF norayVars, serverVars
<1>. QED
  BY <1>1, <1>3, <1>4, <1>5, CloseHosts, RegisterHostHosts, RegisterRemoteHosts,
     ConnectHosts DEF NorayNext

-----------------------------------------------------------------------------
(* The steps and the sessions                                               *)

SessionsOK == sessions \subseteq Session /\ SessionsServed

\* Sessions last while the entries of their parties stay, whatever their times.
LEMMA SessionsStay ==
    ASSUME SessionsOK, sessions' = sessions,
           \A d \in relayTable : \E e \in relayTable' : Stems(e, d)
    PROVE  SessionsOK'
BY DEF SessionsOK, SessionsServed, Stems

LEMMA ConnectRelaySessions ==
    ASSUME Inv, HostsOK, SessionsOK, NEW c \in Conn, NEW o \in Oid, ConnectRelay(c, o)
    PROVE  SessionsOK'
<1>. DEFINE h == HostOf(o).rinfo
            k == HostOn(c).rinfo
            new == Told(h, k, relayTable')
<1>1. /\ Inv'
      /\ relayTable \subseteq relayTable'
      /\ h \in Address /\ k \in Address
      /\ \E e \in relayTable' : e.address = h
      /\ \E e \in relayTable' : e.address = k
      /\ sessions' = sessions \union {new}
  BY ConnectRelayInv
<1>2. ASSUME NEW a, \E e \in relayTable' : e.address = a
      PROVE  /\ \E e \in relayTable' : e.address = a /\ e.port = PortIn(relayTable', a)
             /\ PortIn(relayTable', a) \in Port
  <2>. DEFINE e == CHOOSE e \in relayTable' : e.address = a
  <2>1. e \in relayTable' /\ e.address = a
    BY <1>2
  <2>2. e.port = PortIn(relayTable', a)
    BY DEF PortIn
  <2>3. e.port \in Port
    BY <1>1, <2>1 DEF Inv, TypeOK, RelayEntry
  <2>. HIDE DEF e
  <2>. QED  BY <2>1, <2>2, <2>3
<1>3. /\ new \in Session
      /\ \E e \in relayTable' : e.address = new.host /\ e.port = new.toldClient
      /\ \E e \in relayTable' : e.address = new.client /\ e.port = new.toldHost
  <2>. HIDE DEF h, k
  <2>. QED  BY <1>1, <1>2 DEF Told, Session
<1>. HIDE DEF new
<1>. QED  BY <1>1, <1>3 DEF SessionsOK, SessionsServed

LEMMA CleanupSessions ==
    ASSUME Inv, SessionsOK, NorayCleanup
    PROVE  SessionsOK'
<1>. DEFINE gone == {e.address : e \in Expired}
<1>1. /\ relayTable' = relayTable \ Expired
      /\ sessions' = sessions \ {s \in sessions : s.host \in gone \/ s.client \in gone}
  BY DEF NorayCleanup, Cleanup, EndSessions
<1>2. \A e \in relayTable : e.address \notin gone => e \in relayTable'
  BY <1>1
<1>. HIDE DEF gone
<1>. QED  BY <1>1, <1>2 DEF SessionsOK, SessionsServed

LEMMA SessionsInv ==
    ASSUME Inv, HostsOK, SessionsOK, [NorayNext]_norayVars
    PROVE  SessionsOK'
<1>1. ASSUME sessions' = sessions, relayTable \subseteq relayTable'  PROVE SessionsOK'
  BY <1>1 DEF SessionsOK, SessionsServed
<1>2. CASE \E c \in Conn : Accept(c) \/ Close(c)
  BY <1>1, <1>2 DEF Accept, Close, vars
<1>3. CASE \E c \in Conn, o \in Oid : RegisterHost(c, o) \/ Connect(c, o)
  BY <1>1, <1>3 DEF RegisterHost, Connect, vars
<1>4. CASE \E a \in Address, o \in Oid : RegisterRemote(a, o)
  BY <1>1, <1>4 DEF RegisterRemote, vars
<1>5. CASE \E c \in Conn, o \in Oid : ConnectRelay(c, o)
  BY <1>5, ConnectRelaySessions
<1>6. CASE \E c \in Conn, o \in Oid : ConnectRelayHalf(c, o)
  BY <1>1, <1>6, ConnectRelayHalfInv DEF ConnectRelayHalf, serverVars
<1>7. CASE RelayTraffic
  <2>1. sessions' = sessions
    BY <1>7 DEF RelayTraffic, serverVars
  <2>2. CASE \E a \in Address, p \in Port : DynamicRelay(a, p)
    BY <2>1, <2>2, DynamicRelayAdds, SessionsStay
  <2>3. CASE \/ \E cause \in Status : Die(cause)
             \/ \E a \in Address, p \in Port : Transmit(a, p)
    BY <2>1, <2>3, TimesOnly, SessionsStay
  <2>. QED
    BY <1>7, <2>2, <2>3 DEF RelayTraffic, TransmitVetoed, DynamicRelayVetoed,
       DynamicRelayExhausted, Status
<1>8. CASE NorayTick
  BY <1>8, TimesOnly, SessionsStay DEF NorayTick, serverVars
<1>9. CASE NorayCleanup
  BY <1>9, CleanupSessions
<1>10. CASE NorayShutdown
  BY <1>10 DEF NorayShutdown, EndSessions, SessionsOK, SessionsServed
<1>11. CASE UNCHANGED norayVars
  BY <1>1, <1>11 DEF norayVars, vars, serverVars
<1>. QED
  BY <1>2, <1>3, <1>4, <1>5, <1>6, <1>7, <1>8, <1>9, <1>10, <1>11 DEF NorayNext

-----------------------------------------------------------------------------
(* The inductive invariant                                                  *)

NorayInv == Inv /\ HostsOK /\ SessionsOK

LEMMA NorayInitInv == NorayInit => NorayInv
<1>. SUFFICES ASSUME NorayInit PROVE NorayInv
  OBVIOUS
<1>1. Inv
  BY InitInv DEF NorayInit
<1>2. HostsOK
  BY DEF NorayInit, HostsOK, OidsUnique, ToldKept
<1>3. SessionsOK
  BY DEF NorayInit, SessionsOK, SessionsServed
<1>. QED  BY <1>1, <1>2, <1>3 DEF NorayInv

LEMMA NorayInvariance == NoraySpec => []NorayInv
<1>1. NorayInv /\ [NorayNext]_norayVars => NorayInv'
  BY HandlerInv, HostsInv, SessionsInv DEF NorayInv
<1>. QED  BY <1>1, NorayInitInv, PTL DEF NoraySpec

-----------------------------------------------------------------------------
(* The invariants                                                           *)

\* The repository never holds more hosts than there are ids: ids differ.
LEMMA HostsBounded == HostsOK => Len(hosts) <= Cardinality(Oid)
<1>. SUFFICES ASSUME HostsOK PROVE Len(hosts) <= Cardinality(Oid)
  OBVIOUS
<1>. DEFINE n == Len(hosts)
            f == [k \in 1 .. n |-> hosts[k].oid]
<1>1. n \in Nat /\ DOMAIN hosts = 1 .. n
  BY LenProperties DEF HostsOK
<1>2. \A k \in 1 .. n : hosts[k] \in HostEntity
  BY <1>1, KnownHost
<1>3. f \in Injection(1 .. n, Oid)
  <2>1. f \in [1 .. n -> Oid]
    BY <1>2 DEF HostEntity
  <2>2. IsInjective(f)
    BY <1>1 DEF HostsOK, OidsUnique, IsInjective
  <2>. QED  BY <2>1, <2>2 DEF Injection
<1>4. Cardinality(1 .. n) <= Cardinality(Oid)
  <2>. HIDE DEF f, n
  <2>. QED  BY <1>3, OidAssumption, FS_Injection
<1>5. Cardinality(1 .. n) = n
  BY <1>1, PlacesFinite
<1>. QED  BY <1>4, <1>5

\* Hosts, connections, sessions and what was told are of the right types, and no two
\* hosts share an id.
THEOREM NorayTypeCorrect == NoraySpec => []NorayTypeOK
<1>1. NorayInv => NorayTypeOK
  BY HostsBounded DEF NorayInv, Inv, HostsOK, SessionsOK, NorayTypeOK
<1>. QED  BY <1>1, NorayInvariance, PTL

\* With commands that create two relays, or one and then fail, each port is still
\* given to one player, and each player has one relay.
THEOREM RelaysStayExclusive == NoraySpec => []RelaysExclusive
<1>1. NorayInv => RelaysExclusive
  BY DEF NorayInv, Inv, RelaysExclusive
<1>. QED  BY <1>1, NorayInvariance, PTL

\* Also with commands, an idle relay is freed in time and no relay is without a socket.
THEOREM RelaysStayTimely == NoraySpec => [](RetentionBound /\ SocketBacked)
<1>1. NorayInv => RetentionBound /\ SocketBacked
  <2>1. \A e \in RelayEntry : IdleFor(e) \in Nat
    BY TimesAssumption DEF RelayEntry, IdleFor, Age, MaxAge
  <2>. QED  BY <2>1, TimesAssumption DEF NorayInv, Inv, TypeOK, RetentionInd, RetentionBound
<1>. QED  BY <1>1, NorayInvariance, PTL

\* A connection takes all of its hosts with it.
THEOREM HostsStayConnected == NoraySpec => []HostsConnected
<1>1. NorayInv => HostsConnected
  BY DEF NorayInv, HostsOK, HostsConnected, Range
<1>. QED  BY <1>1, NorayInvariance, PTL

\* A host is never replaced, and never loses its address, while its connection is open.
THEOREM HostsStayThere == NoraySpec => HostsStay
<1>1. ASSUME HostsOK, [NorayNext]_norayVars PROVE KeepsHosts
  <2>1. ASSUME hosts' = hosts PROVE KeepsHosts
    BY <2>1 DEF KeepsHosts
  <2>2. ASSUME NEW c \in Conn, NEW o \in Oid, RegisterHost(c, o) PROVE KeepsHosts
    <3>1. hosts \in Seq(HostEntity) /\ [oid |-> o, socket |-> c, rinfo |-> NoAddress] \in HostEntity
      BY <1>1 DEF HostsOK, HostEntity
    <3>2. \A k \in DOMAIN hosts : k \in DOMAIN hosts' /\ hosts'[k] = hosts[k]
      BY <2>2, <3>1, AppendProperties, LenProperties DEF RegisterHost
    <3>. QED  BY <3>2 DEF KeepsHosts
  <2>3. ASSUME NEW a \in Address, NEW o \in Oid, RegisterRemote(a, o) PROVE KeepsHosts
    <3>1. \A k \in DOMAIN hosts : hosts[k] \in HostEntity
      BY <1>1, KnownHost
    <3>2. \A k \in DOMAIN hosts :
             /\ k \in DOMAIN hosts'
             /\ hosts'[k] = IF hosts[k].oid = o /\ hosts[k].rinfo = NoAddress
                            THEN [hosts[k] EXCEPT !.rinfo = a] ELSE hosts[k]
      BY <2>3 DEF RegisterRemote
    <3>3. \A k \in DOMAIN hosts :
             /\ hosts'[k].oid = hosts[k].oid /\ hosts'[k].socket = hosts[k].socket
             /\ hosts[k].rinfo # NoAddress => hosts'[k].rinfo = hosts[k].rinfo
      BY <3>1, <3>2 DEF HostEntity
    <3>. QED  BY <3>2, <3>3 DEF KeepsHosts
  <2>4. ASSUME NEW c \in Conn, Close(c) PROVE KeepsHosts
    <3>. DEFINE K == {k \in DOMAIN hosts : hosts[k].socket # c}
    <3>1. /\ hosts \in Seq(HostEntity) /\ hosts' \in Kept(hosts, K)
          /\ K \in SUBSET DOMAIN hosts
          /\ open' = open \ {c}
      BY <1>1, <2>4 DEF HostsOK, Close
    <3>2. \A k \in DOMAIN hosts : hosts[k].socket \in open' => k \in K
      BY <3>1
    <3>. HIDE DEF K
    <3>3. \A k \in K : \E m \in DOMAIN hosts' : hosts'[m] = hosts[k]
      BY <3>1, KeptFacts
    <3>. QED  BY <3>2, <3>3 DEF KeepsHosts
  <2>5. CASE \E c \in Conn, o \in Oid : Connect(c, o) \/ ConnectRelay(c, o) \/ ConnectRelayHalf(c, o)
    BY <2>1, <2>5 DEF Connect, ConnectRelay, ConnectRelayHalf, serverVars
  <2>6. CASE \E c \in Conn : Accept(c)
    BY <2>1, <2>6 DEF Accept
  <2>7. CASE RelayTraffic \/ NorayTick \/ NorayCleanup \/ NorayShutdown
    BY <2>1, <2>7 DEF RelayTraffic, NorayTick, NorayCleanup, NorayShutdown, serverVars
  <2>8. CASE UNCHANGED norayVars
    BY <2>1, <2>8 DEF norayVars, serverVars
  <2>. QED
    BY <1>1, <2>2, <2>3, <2>4, <2>5, <2>6, <2>7, <2>8 DEF NorayNext
<1>2. NorayInv => HostsOK
  BY DEF NorayInv
<1>. QED  BY <1>1, <1>2, NorayInvariance, PTL DEF NoraySpec, HostsStay

\* The ports that both parties of a session were told lead to each other for as long
\* as the session lasts, whatever other players and the cleanup job do.
THEOREM SessionsStayServed == NoraySpec => []SessionsServed
<1>1. NorayInv => SessionsServed
  BY DEF NorayInv, SessionsOK
<1>. QED  BY <1>1, NorayInvariance, PTL

\* An address that was told of a host is its address until the host is gone.
THEOREM AddressesStayTold == NoraySpec => []AddressesTold
<1>1. NorayInv => AddressesTold
  <2>. SUFFICES ASSUME HostsOK, NEW k \in told
       PROVE  KnownOid(k[1]) /\ HostOf(k[1]).rinfo = k[2]
    BY DEF NorayInv, AddressesTold
  <2>1. PICK i \in DOMAIN hosts : hosts[i].oid = k[1] /\ hosts[i].rinfo = k[2]
    BY DEF HostsOK, ToldKept
  <2>. QED  BY <2>1, KnownHost
<1>. QED  BY <1>1, NorayInvariance, PTL

-----------------------------------------------------------------------------
(* The hosts implement a repository                                         *)

ItemOf(h) == [id |-> h.oid, fields |-> [socket |-> h.socket, rinfo |-> h.rinfo]]

HostItem == [id     : Oid,
             fields : [socket : Conn, rinfo : Address \union {NoAddress}]]

ItemsFollowHosts ==
    /\ DOMAIN HostItems = DOMAIN hosts
    /\ \A k \in DOMAIN hosts :
          HostItems[k] = ItemOf(hosts[k]) /\ HostItems[k] \in HostItem
    /\ HostItems \in Seq(HostItem)
    /\ Len(HostItems) = Len(hosts)

LEMMA HostItemsFacts == HostsOK => ItemsFollowHosts
<1>. SUFFICES ASSUME HostsOK PROVE ItemsFollowHosts
  OBVIOUS
<1>1. DOMAIN hosts = 1 .. Len(hosts) /\ Len(hosts) \in Nat
  BY LenProperties DEF HostsOK
<1>2. /\ DOMAIN HostItems = DOMAIN hosts
      /\ \A k \in DOMAIN hosts : HostItems[k] = ItemOf(hosts[k])
  BY DEF HostItems, ItemOf
<1>3. \A k \in DOMAIN hosts : HostItems[k] \in HostItem
  BY <1>2, KnownHost DEF HostEntity, HostItem, ItemOf
<1>4. HostItems \in [1 .. Len(hosts) -> HostItem]
  BY <1>1, <1>2, <1>3 DEF HostItems
<1>5. HostItems \in Seq(HostItem)
  BY <1>1, <1>4
<1>6. Len(HostItems) = Len(hosts)
  BY <1>1, <1>4, LenProperties
<1>. QED  BY <1>2, <1>3, <1>5, <1>6 DEF ItemsFollowHosts

LEMMA HostItemsFactsPrime == HostsOK' => ItemsFollowHosts'
BY HostItemsFacts, PTL

LEMMA InitRepo == NorayInit => Repo!RepositoryInit
BY DEF NorayInit, Repo!RepositoryInit, HostItems

\* register-host adds an item.
LEMMA RegisterHostAdds ==
    ASSUME HostsOK, HostsOK', NEW c \in Conn, NEW o \in Oid, RegisterHost(c, o)
    PROVE  Repo!Add(o, [socket |-> c, rinfo |-> NoAddress])
<1>. DEFINE new == [oid |-> o, socket |-> c, rinfo |-> NoAddress]
            item == [id |-> o, fields |-> [socket |-> c, rinfo |-> NoAddress]]
            n == Len(hosts)
<1>1. ItemsFollowHosts /\ ItemsFollowHosts'
  BY HostItemsFacts, HostItemsFactsPrime
<1>2. ~Repo!Has(o)
  BY <1>1 DEF RegisterHost, KnownOid, Range, Repo!Has, Repo!IdOf, ItemsFollowHosts, ItemOf
<1>3. new \in HostEntity /\ item \in HostItem /\ ItemOf(new) = item
  BY DEF HostEntity, HostItem, ItemOf
<1>4. n \in Nat /\ DOMAIN hosts = 1 .. n /\ hosts \in Seq(HostEntity)
  BY LenProperties DEF HostsOK
<1>5. /\ DOMAIN hosts' = 1 .. n + 1
      /\ \A k \in 1 .. n : hosts'[k] = hosts[k]
      /\ hosts'[n + 1] = new
      /\ Len(hosts') = n + 1
  <2>1. hosts' = Append(hosts, new)
    BY DEF RegisterHost
  <2>. HIDE DEF new
  <2>. QED  BY <1>3, <1>4, <2>1, AppendProperties, LenProperties
<1>6. /\ Append(HostItems, item) \in Seq(HostItem)
      /\ Len(Append(HostItems, item)) = n + 1
      /\ \A k \in 1 .. n : Append(HostItems, item)[k] = HostItems[k]
      /\ Append(HostItems, item)[n + 1] = item
  <2>. HIDE DEF item, n
  <2>1. HostItems \in Seq(HostItem) /\ Len(HostItems) = n
    BY <1>1 DEF ItemsFollowHosts, n
  <2>. QED  BY <1>3, <2>1, AppendProperties
<1>. HIDE DEF new, item, n
<1>7. \A k \in 1 .. n + 1 : HostItems'[k] = Append(HostItems, item)[k]
  <2>1. \A k \in 1 .. n : HostItems'[k] = HostItems[k]
    BY <1>1, <1>4, <1>5 DEF ItemsFollowHosts
  <2>2. HostItems'[n + 1] = item
    BY <1>1, <1>3, <1>4, <1>5 DEF ItemsFollowHosts
  <2>. QED  BY <1>4, <1>6, <2>1, <2>2
<1>8. HostItems' = Append(HostItems, item)
  <2>1. HostItems' \in Seq(HostItem) /\ Len(HostItems') = n + 1
    BY <1>1, <1>5 DEF ItemsFollowHosts
  <2>. QED  BY <1>6, <1>7, <2>1, SeqEqual
<1>. QED  BY <1>2, <1>8 DEF Repo!Add, item

\* The first address of a host is an update of its item; a later one changes
\* nothing.
LEMMA RegisterRemoteUpdates ==
    ASSUME HostsOK, HostsOK', NEW a \in Address, NEW o \in Oid, RegisterRemote(a, o)
    PROVE  Repo!Update(o, [rinfo |-> a]) \/ HostItems' = HostItems
<1>. DEFINE p == Repo!PlaceOf(o)
<1>1. ItemsFollowHosts /\ ItemsFollowHosts'
  BY HostItemsFacts, HostItemsFactsPrime
<1>2. Repo!Has(o)
  BY <1>1 DEF RegisterRemote, KnownPid, KnownOid, Range, Repo!Has, Repo!IdOf,
     ItemsFollowHosts, ItemOf
<1>3. p \in DOMAIN hosts /\ hosts[p].oid = o
  BY <1>1, <1>2 DEF Repo!Has, Repo!PlaceOf, Repo!IdOf, ItemsFollowHosts, ItemOf
<1>. HIDE DEF p
<1>4. /\ DOMAIN hosts' = DOMAIN hosts
      /\ \A k \in DOMAIN hosts \ {p} : hosts'[k] = hosts[k]
      /\ hosts[p].rinfo # NoAddress => hosts'[p] = hosts[p]
      /\ hosts[p].rinfo = NoAddress => hosts'[p] = [hosts[p] EXCEPT !.rinfo = a]
  BY <1>3 DEF RegisterRemote, HostsOK, OidsUnique
<1>5. /\ DOMAIN HostItems' = DOMAIN HostItems
      /\ \A k \in DOMAIN HostItems \ {p} : HostItems'[k] = HostItems[k]
      /\ HostItems = [k \in DOMAIN HostItems |-> HostItems[k]]
      /\ HostItems' = [k \in DOMAIN HostItems' |-> HostItems'[k]]
  BY <1>1, <1>4 DEF ItemsFollowHosts, HostItems
<1>6. CASE hosts[p].rinfo # NoAddress
  <2>1. HostItems'[p] = HostItems[p]
    BY <1>1, <1>3, <1>4, <1>6 DEF ItemsFollowHosts
  <2>. QED  BY <1>5, <2>1
<1>7. CASE hosts[p].rinfo = NoAddress
  <2>. DEFINE fields == HostItems[p].fields
  <2>1. /\ HostItems[p] = [id |-> o, fields |-> fields]
        /\ fields = [socket |-> hosts[p].socket, rinfo |-> hosts[p].rinfo]
    BY <1>1, <1>3 DEF ItemsFollowHosts, ItemOf
  <2>2. hosts[p] \in HostEntity
    BY <1>3, KnownHost
  <2>3. /\ hosts'[p].oid = o /\ hosts'[p].socket = hosts[p].socket
        /\ hosts'[p].rinfo = a
    BY <1>3, <1>4, <1>7, <2>2 DEF HostEntity
  <2>4. HostItems'[p] = [id |-> o, fields |-> [socket |-> hosts[p].socket, rinfo |-> a]]
    BY <1>1, <1>3, <1>4, <2>3 DEF ItemsFollowHosts, ItemOf
  <2>5. Repo!Merged(fields, [rinfo |-> a]) = [socket |-> hosts[p].socket, rinfo |-> a]
    BY <2>1 DEF Repo!Merged, Repo!Over
  <2>6. HostItems' = [HostItems EXCEPT ![p].fields = Repo!Merged(@, [rinfo |-> a])]
    <3>1. HostItems'[p] = [HostItems[p] EXCEPT
                              !.fields = Repo!Merged(fields, [rinfo |-> a])]
      BY <2>1, <2>4, <2>5
    <3>2. p \in DOMAIN HostItems
      BY <1>1, <1>3 DEF ItemsFollowHosts
    <3>. QED  BY <1>5, <3>1, <3>2
  <2>. QED  BY <1>2, <2>6 DEF Repo!Update, p
<1>. QED  BY <1>6, <1>7

\* The items of the hosts that stay stay, in their order.
LEMMA KeptItems ==
    ASSUME NEW K \in SUBSET DOMAIN hosts, hosts' \in Kept(hosts, K), HostsOK
    PROVE  HostItems' \in Repo!Kept(HostItems, K)
<1>1. PICK places \in SetToSeqs(K) :
         /\ Ascending(places)
         /\ hosts' = [i \in DOMAIN places |-> hosts[places[i]]]
  BY DEF Kept
<1>2. \A i \in DOMAIN places : places[i] \in K
  BY <1>1 DEF SetToSeqs
<1>3. HostItems' = [i \in DOMAIN places |-> HostItems[places[i]]]
  <2>1. \A i \in DOMAIN places : HostItems[places[i]] = ItemOf(hosts[places[i]])
    BY <1>2 DEF HostItems, ItemOf
  <2>2. HostItems' = [i \in DOMAIN places |-> ItemOf(hosts[places[i]])]
    BY <1>1 DEF HostItems, ItemOf
  <2>. QED  BY <2>1, <2>2
<1>4. Repo!SetToSeqs(K) = SetToSeqs(K)
  BY DEF SetToSeqs, Repo!SetToSeqs, Cardinality, Repo!Cardinality,
     IsFiniteSet, Repo!IsFiniteSet
<1>5. places \in Repo!SetToSeqs(K) /\ Repo!Ascending(places)
  BY <1>1, <1>4 DEF Ascending, Repo!Ascending
<1>. QED  BY <1>3, <1>5 DEF Repo!Kept

\* A connection that closes removes its hosts, if it has any.
LEMMA CloseRemoves ==
    ASSUME HostsOK, NEW c \in Conn, Close(c)
    PROVE  \/ \E gone \in SUBSET Oid : Repo!RemoveItems(gone)
           \/ HostItems' = HostItems
<1>. DEFINE K == {k \in DOMAIN hosts : hosts[k].socket # c}
            gone == {hosts[k].oid : k \in DOMAIN hosts \ K}
<1>1. hosts \in Seq(HostEntity) /\ hosts' \in Kept(hosts, K)
  BY DEF HostsOK, Close
<1>2. CASE gone = {}
  <2>1. K = DOMAIN hosts
    BY <1>2
  <2>2. hosts' = hosts
    <3>. HIDE DEF K
    <3>. QED  BY <1>1, <2>1, KeptAll
  <2>. QED  BY <2>2 DEF HostItems
<1>3. CASE gone # {}
  <2>1. ItemsFollowHosts
    BY HostItemsFacts
  <2>2. gone \in SUBSET Oid
    BY KnownHost DEF HostEntity
  <2>3. \A id \in gone : Repo!Has(id)
    BY <2>1 DEF Repo!Has, Repo!IdOf, ItemsFollowHosts, ItemOf
  <2>4. K = {k \in DOMAIN HostItems : Repo!IdOf(HostItems[k]) \notin gone}
    BY <2>1 DEF Repo!IdOf, ItemsFollowHosts, ItemOf, HostsOK, OidsUnique
  <2>5. K \in SUBSET DOMAIN hosts
    OBVIOUS
  <2>. HIDE DEF K, gone
  <2>6. HostItems' \in Repo!Kept(HostItems, K)
    BY <1>1, <2>5, KeptItems
  <2>. QED  BY <1>3, <2>2, <2>3, <2>4, <2>6 DEF Repo!RemoveItems
<1>. QED  BY <1>2, <1>3

LEMMA StepRepo ==
    HostsOK /\ HostsOK' /\ [NorayNext]_norayVars => [Repo!RepositoryNext]_HostItems
<1>. SUFFICES ASSUME HostsOK, HostsOK', [NorayNext]_norayVars
     PROVE  [Repo!RepositoryNext]_HostItems
  OBVIOUS
<1>1. ASSUME hosts' = hosts PROVE HostItems' = HostItems
  BY <1>1 DEF HostItems
<1>2. CASE \E c \in Conn : Accept(c)
  BY <1>1, <1>2 DEF Accept
<1>3. CASE \E c \in Conn : Close(c)
  BY <1>3, CloseRemoves DEF Repo!RepositoryNext
<1>4. CASE \E c \in Conn, o \in Oid : RegisterHost(c, o)
  <2>1. PICK c \in Conn, o \in Oid : RegisterHost(c, o)
    BY <1>4
  <2>2. [socket |-> c, rinfo |-> NoAddress]
            \in [socket : Conn, rinfo : Address \union {NoAddress}]
    OBVIOUS
  <2>. QED  BY <2>1, <2>2, RegisterHostAdds DEF Repo!RepositoryNext
<1>5. CASE \E a \in Address, o \in Oid : RegisterRemote(a, o)
  <2>1. PICK a \in Address, o \in Oid : RegisterRemote(a, o)
    BY <1>5
  <2>2. [rinfo |-> a] \in [rinfo : Address]
    OBVIOUS
  <2>. QED  BY <2>1, <2>2, RegisterRemoteUpdates DEF Repo!RepositoryNext
<1>6. CASE \E c \in Conn, o \in Oid :
              Connect(c, o) \/ ConnectRelay(c, o) \/ ConnectRelayHalf(c, o)
  BY <1>1, <1>6 DEF Connect, ConnectRelay, ConnectRelayHalf, serverVars
<1>7. CASE RelayTraffic \/ NorayTick \/ NorayCleanup \/ NorayShutdown
  BY <1>1, <1>7 DEF RelayTraffic, NorayTick, NorayCleanup, NorayShutdown, serverVars
<1>8. CASE UNCHANGED norayVars
  BY <1>1, <1>8 DEF norayVars, serverVars
<1>. QED
  BY <1>2, <1>3, <1>4, <1>5, <1>6, <1>7, <1>8 DEF NorayNext

\* Every command and every datagram changes the hosts as one operation of the
\* repository does, or not at all.
THEOREM HostsImplementRepository == NoraySpec => ImplementsRepository
<1>1. NorayInv => HostsOK
  BY DEF NorayInv
<1>. QED
  BY <1>1, InitRepo, StepRepo, NorayInvariance, PTL
     DEF NoraySpec, ImplementsRepository, Repo!RepositorySpec

\* What is proved of any repository, for the hosts.
RepoProofs == INSTANCE Repository_proofs WITH
    Id <- Oid,
    Fields <- [socket : Conn, rinfo : Address \union {NoAddress}],
    Updates <- [rinfo : Address],
    items <- HostItems

\* Hosts keep the order in which they registered, whatever commands, datagrams and
\* closed connections come in between: findBySocket goes on to find the first one.
COROLLARY HostsKeepOrder == NoraySpec => RepoProofs!OrderStable
<1>0. \A fields \in [socket : Conn, rinfo : Address \union {NoAddress}],
         update \in [rinfo : Address] :
         RepoProofs!Merged(fields, update) \in [socket : Conn, rinfo : Address \union {NoAddress}]
  BY DEF RepoProofs!Merged, RepoProofs!Over
<1>1. RepoProofs!RepositorySpec => RepoProofs!OrderStable
  BY <1>0, RepoProofs!OrderKept
<1>2. Repo!RepositoryInit => RepoProofs!RepositoryInit
  BY DEF Repo!RepositoryInit, RepoProofs!RepositoryInit
<1>3. [Repo!RepositoryNext]_HostItems => [RepoProofs!RepositoryNext]_HostItems
  <2>1. /\ \A id : Repo!Has(id) <=> RepoProofs!Has(id)
        /\ \A id : Repo!PlaceOf(id) = RepoProofs!PlaceOf(id)
        /\ \A item : Repo!IdOf(item) = RepoProofs!IdOf(item)
    BY DEF Repo!Has, RepoProofs!Has, Repo!PlaceOf, RepoProofs!PlaceOf, Repo!IdOf, RepoProofs!IdOf
  <2>2. \A current, update : Repo!Merged(current, update) = RepoProofs!Merged(current, update)
    BY DEF Repo!Merged, RepoProofs!Merged, Repo!Over, RepoProofs!Over
  <2>3. \A seq, K : Repo!Kept(seq, K) = RepoProofs!Kept(seq, K)
    <3>1. \A K : Repo!SetToSeqs(K) = RepoProofs!SetToSeqs(K)
      <4>1. \A S : Repo!Cardinality(S) = RepoProofs!Cardinality(S)
        BY Zenon DEF Repo!Cardinality, RepoProofs!Cardinality
      <4>. QED  BY <4>1 DEF Repo!SetToSeqs, RepoProofs!SetToSeqs
    <3>2. \A places : Repo!Ascending(places) <=> RepoProofs!Ascending(places)
      BY DEF Repo!Ascending, RepoProofs!Ascending
    <3>. QED  BY <3>1, <3>2 DEF Repo!Kept, RepoProofs!Kept
  <2>4. \A id, fields : Repo!Add(id, fields) => RepoProofs!Add(id, fields)
    BY <2>1 DEF Repo!Add, RepoProofs!Add
  <2>5. \A id, update : Repo!Update(id, update) => RepoProofs!Update(id, update)
    BY <2>1, <2>2 DEF Repo!Update, RepoProofs!Update
  <2>6. \A gone : Repo!RemoveItems(gone) => RepoProofs!RemoveItems(gone)
    BY <2>1, <2>3 DEF Repo!RemoveItems, RepoProofs!RemoveItems
  <2>. QED  BY <2>4, <2>5, <2>6 DEF Repo!RepositoryNext, RepoProofs!RepositoryNext
<1>. QED  BY <1>1, <1>2, <1>3, HostsImplementRepository, PTL
     DEF ImplementsRepository, Repo!RepositorySpec, RepoProofs!RepositorySpec

=============================================================================
