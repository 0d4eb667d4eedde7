------------------------------- MODULE Noray -------------------------------
(***************************************************************************)
(* The noray server: the host repository and the register-host command     *)
(* (repository.mjs, hosts/), the UDP remote registrar                      *)
(* (relay/udp.remote.registrar.mjs) and the connect and connect-relay      *)
(* commands (connection/connection.commands.mjs), composed with the relay  *)
(* handler.  The hosts are a refinement of Repository.                     *)
(*                                                                         *)
(* Players send commands over TCP connections and datagrams from UDP       *)
(* addresses; nothing ties the two together but the private id that the    *)
(* server gives to a host over TCP and receives over UDP.  A command or    *)
(* datagram whose handler throws is answered with an error and leaves what *)
(* the handler had done until then.                                        *)
(***************************************************************************)
EXTENDS UDPRelayHandler, Collections

CONSTANTS
    Conn,       \* TCP connections
    Oid,        \* open ids that the server draws; a private id is as good as one
    NoAddress   \* the rinfo of a host that is not registered over UDP

ASSUME NoAddressAssumption == NoAddress \notin Address

\* Ids have a configured length.
ASSUME OidAssumption == IsFiniteSet(Oid)

VARIABLES
    open,       \* connections that are open
    hosts,      \* the repository, hosts in the order of their registration
    told,       \* history: pairs of a host's oid and the address told of it
    sessions    \* history: relayed connections that both parties were told of

serverVars == <<open, hosts, told, sessions>>
norayVars == <<vars, serverVars>>

HostEntity == [oid : Oid, socket : Conn, rinfo : Address \union {NoAddress}]

\* Both parties of a connect-relay command.  Each was told the other's port.
Session == [host : Address, client : Address, toldHost : Port, toldClient : Port]

NorayTypeOK ==
    /\ TypeOK
    /\ open \subseteq Conn
    /\ hosts \in Seq(HostEntity)
    /\ Len(hosts) <= Cardinality(Oid)
    /\ told \subseteq Oid \X Address
    /\ sessions \subseteq Session

NorayInit ==
    /\ Init
    /\ open = {}
    /\ hosts = << >>
    /\ told = {}
    /\ sessions = {}

-----------------------------------------------------------------------------
(* The repository                                                           *)

Alive == status \in {"running", "closed"}

KnownOid(o) == \E h \in Range(hosts) : h.oid = o

\* findByPid; the private id of a host goes with its open id.
KnownPid(o) == KnownOid(o)

HostOf(o) == CHOOSE h \in Range(hosts) : h.oid = o

KnownSocket(c) == \E h \in Range(hosts) : h.socket = c

\* findBySocket: the host that was registered first on the connection.
HostOn(c) == hosts[SelectInSeq(hosts, LAMBDA h : h.socket = c)]

-----------------------------------------------------------------------------
(* TCP connections and the register-host command                            *)

\* The listening socket is closed by the shutdown, connections are not.
Accept(c) ==
    /\ status = "running"
    /\ c \notin open
    /\ open' = open \union {c}
    /\ UNCHANGED <<hosts, told, sessions, vars>>

\* Mutant: the id is not looked up, and Map.set puts the host in the other one's place.
RegisterHostOver(c, o) ==
    /\ Alive
    /\ c \in open
    /\ LET host == [oid |-> o, socket |-> c, rinfo |-> NoAddress]
       IN  hosts' = IF KnownOid(o)
                    THEN [k \in DOMAIN hosts |-> IF hosts[k].oid = o THEN host ELSE hosts[k]]
                    ELSE Append(hosts, host)
    /\ UNCHANGED <<open, told, sessions, vars>>

\* register-host draws an id.  The command fails when the id is in use.  A
\* connection may register any number of hosts.
RegisterHost(c, o) ==
    /\ Alive
    /\ c \in open
    /\ ~KnownOid(o)
    /\ hosts' = Append(hosts, [oid |-> o, socket |-> c, rinfo |-> NoAddress])
    /\ UNCHANGED <<open, told, sessions, vars>>

\* Mutant: only the host that findBySocket returns is removed.
CloseFirst(c) ==
    /\ Alive
    /\ c \in open
    /\ open' = open \ {c}
    /\ hosts' = IF KnownSocket(c) THEN Remove(hosts, HostOn(c)) ELSE hosts
    /\ UNCHANGED <<told, sessions, vars>>

\* The connection closes: the 'close' listener of every host registered on it
\* removes the host.  Its relay is left to the cleanup job.
Close(c) ==
    /\ Alive
    /\ c \in open
    /\ open' = open \ {c}
    /\ hosts' \in Kept(hosts, {k \in DOMAIN hosts : hosts[k].socket # c})
    /\ told' = {k \in told : HostOf(k[1]).socket # c}
    /\ UNCHANGED <<sessions, vars>>

-----------------------------------------------------------------------------
(* The remote registrar                                                     *)

\* Mutant: a later address replaces the one that is registered.
RegisterRemoteLatest(a, o) ==
    /\ status = "running"
    /\ KnownOid(o)
    /\ hosts' = [i \in DOMAIN hosts |->
                    IF hosts[i].oid = o THEN [hosts[i] EXCEPT !.rinfo = a] ELSE hosts[i]]
    /\ UNCHANGED <<open, told, sessions, vars>>

\* Mutant: the host is taken out of the repository and put back with its address.
RegisterRemoteAnew(a, o) ==
    /\ status = "running"
    /\ KnownOid(o)
    /\ HostOf(o).rinfo = NoAddress
    /\ hosts' = Append(Remove(hosts, HostOf(o)), [HostOf(o) EXCEPT !.rinfo = a])
    /\ UNCHANGED <<open, told, sessions, vars>>

\* A datagram with the private id of host o arrives from address a.  The first
\* address that is seen is kept; every sender is answered 'OK'.  An unknown id
\* is answered with an error.
RegisterRemote(a, o) ==
    /\ status = "running"
    /\ KnownPid(o)
    /\ hosts' = [i \in DOMAIN hosts |->
                    IF hosts[i].oid = o /\ hosts[i].rinfo = NoAddress
                    THEN [hosts[i] EXCEPT !.rinfo = a] ELSE hosts[i]]
    /\ UNCHANGED <<open, told, sessions, vars>>

-----------------------------------------------------------------------------
(* The connect command                                                      *)

\* connect on connection c to the host o: each is told the other's address.
\* The command fails when one of them has none.
Connect(c, o) ==
    /\ Alive
    /\ c \in open
    /\ KnownOid(o) /\ KnownSocket(c)
    /\ HostOf(o).rinfo # NoAddress /\ HostOn(c).rinfo # NoAddress
    /\ told' = told \union {<<o, HostOf(o).rinfo>>, <<HostOn(c).oid, HostOn(c).rinfo>>}
    /\ UNCHANGED <<open, hosts, sessions, vars>>

-----------------------------------------------------------------------------
(* The connect-relay command                                                *)

\* The pool and the table, as far as getRelay uses them.
Relays == [free |-> freePorts, table |-> relayTable]

HasRelayIn(state, a) == \E e \in state.table : e.address = a

\* getRelay does not throw: there is an address, and a relay or a port for it.
Ensurable(state, a) ==
    /\ a # NoAddress
    /\ HasRelayIn(state, a) \/ HasFreePort(state.free)

\* Mutant: getRelay takes a free port without looking for an existing relay.
EnsuredAnew(state, a) ==
    IF ~HasFreePort(state.free)
    THEN state
    ELSE [free  |-> Popped(state.free),
          table |-> state.table \union {NewRelay(a, NextPort(state.free))}]

\* What getRelay leaves if it does not throw.
Ensured(state, a) ==
    IF HasRelayIn(state, a)
    THEN state
    ELSE [free  |-> Popped(state.free),
          table |-> state.table \union {NewRelay(a, NextPort(state.free))}]

PortInEntry(table, a) ==     \* mutant: getRelay returns the entry, not its port
    CHOOSE e \in table : e.address = a

PortIn(table, a) == (CHOOSE e \in table : e.address = a).port

ToldOwn(h, k, table) ==        \* mutant: each party is told its own port
    [host |-> h, client |-> k, toldHost |-> PortIn(table, h), toldClient |-> PortIn(table, k)]

\* The client is told the host's port and the host the client's.
Told(h, k, table) ==
    [host |-> h, client |-> k, toldHost |-> PortIn(table, k), toldClient |-> PortIn(table, h)]

\* connect-relay on connection c to the host o: a relay for the host, then one
\* for the client, then both are told.
ConnectRelay(c, o) ==
    /\ Alive
    /\ c \in open
    /\ KnownOid(o) /\ KnownSocket(c)
    /\ LET h == HostOf(o).rinfo
           k == HostOn(c).rinfo
           afterHost == Ensured(Relays, h)
           afterBoth == Ensured(afterHost, k)
       IN  /\ Ensurable(Relays, h)
           /\ Ensurable(afterHost, k)
           /\ freePorts' = afterBoth.free
           /\ relayTable' = afterBoth.table
           /\ sessions' = sessions \union {Told(h, k, afterBoth.table)}
    /\ UNCHANGED <<open, hosts, told, sockets, sinceCleanup, status>>

\* The relay of the host is created, but there is none for the client: it never
\* registered over UDP, or no port is left.  The client gets an error, the host
\* gets nothing, and the host's relay stays.
ConnectRelayHalf(c, o) ==
    /\ Alive
    /\ c \in open
    /\ KnownOid(o) /\ KnownSocket(c)
    /\ LET h == HostOf(o).rinfo
           k == HostOn(c).rinfo
           afterHost == Ensured(Relays, h)
       IN  /\ Ensurable(Relays, h)
           /\ ~Ensurable(afterHost, k)
           /\ freePorts' = afterHost.free
           /\ relayTable' = afterHost.table
    /\ UNCHANGED <<serverVars, sockets, sinceCleanup, status>>

-----------------------------------------------------------------------------
(* The relay handler at work                                                *)

RelayTraffic ==
    /\ \E a \in Address, p \in Port :
          \/ Transmit(a, p)
          \/ TransmitVetoed(a, p)
          \/ DynamicRelay(a, p)
          \/ DynamicRelayVetoed(a, p)
          \/ DynamicRelayExhausted(a, p)
    /\ UNCHANGED serverVars

NorayTick == Tick /\ UNCHANGED serverVars

\* A session ends when the relay of one of its parties is freed.  Nobody is told.
EndSessions(over) == sessions' = sessions \ over

NorayCleanup ==
    /\ Cleanup
    /\ LET gone == {e.address : e \in Expired}
       IN  EndSessions({s \in sessions : s.host \in gone \/ s.client \in gone})
    /\ UNCHANGED <<open, hosts, told>>

NorayShutdown ==
    /\ Shutdown
    /\ EndSessions(sessions)
    /\ UNCHANGED <<open, hosts, told>>

NorayNext ==
    \/ \E c \in Conn :
          \/ Accept(c)
          \/ Close(c)
          \/ \E o \in Oid :
                \/ RegisterHost(c, o)
                \/ Connect(c, o)
                \/ ConnectRelay(c, o)
                \/ ConnectRelayHalf(c, o)
    \/ \E a \in Address, o \in Oid : RegisterRemote(a, o)
    \/ RelayTraffic
    \/ NorayTick
    \/ NorayCleanup
    \/ NorayShutdown

NoraySpec == NorayInit /\ [][NorayNext]_norayVars

-----------------------------------------------------------------------------
(* Properties                                                               *)

\* The repository holds the hosts of open connections only, however many a
\* connection registered: nobody can be sent to a player that left.
HostsConnected == \A h \in Range(hosts) : h.socket \in open

\* A host keeps its place among the hosts for as long as its connection is open: a
\* command of another player, and an id that is drawn twice, neither takes its id
\* from it nor its address once that is known.
KeepsHosts ==
    \A k \in DOMAIN hosts :
       hosts[k].socket \in open' =>
          \E m \in DOMAIN hosts' :
             /\ hosts'[m].oid = hosts[k].oid
             /\ hosts'[m].socket = hosts[k].socket
             /\ hosts[k].rinfo # NoAddress => hosts'[m].rinfo = hosts[k].rinfo

HostsStay == [][KeepsHosts]_norayVars

\* While a session lasts, what both parties were told is right: a datagram of the
\* client to the port it was told reaches the host through the port that the host
\* was told, and the other way round.
SessionsServed ==
    \A s \in sessions :
       /\ \E e \in relayTable : e.address = s.host /\ e.port = s.toldClient
       /\ \E e \in relayTable : e.address = s.client /\ e.port = s.toldHost

\* A relay that connect-relay left without a session is no different from others:
\* the promises of the relay handler hold with commands that create two relays.
RelaysExclusive == PortExclusive /\ AddressUnique /\ SocketBacked

\* The address that players were told of a host stays the host's address as long as
\* the host is registered, however often and from where it registers again.
AddressesTold == \A k \in told : KnownOid(k[1]) /\ HostOf(k[1]).rinfo = k[2]

\* The hosts as items of a repository, the open id as their id.
HostItems ==
    [k \in DOMAIN hosts |->
        [id     |-> hosts[k].oid,
         fields |-> [socket |-> hosts[k].socket, rinfo |-> hosts[k].rinfo]]]

Repo == INSTANCE Repository WITH
    Id <- Oid,
    Fields <- [socket : Conn, rinfo : Address \union {NoAddress}],
    Updates <- [rinfo : Address],
    items <- HostItems

\* The commands and datagrams use the repository by its operations only: hosts keep
\* their order, and a change of a host's address does not move it.
ImplementsRepository == Repo!RepositorySpec

=============================================================================
