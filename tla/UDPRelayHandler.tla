-------------------------- MODULE UDPRelayHandler --------------------------
(***************************************************************************)
(* The UDP relay of noray: the relay table and its handler                 *)
(* (relay/udp.relay.handler.mjs, relay/relay.entry.mjs), the dynamic       *)
(* creation of relays (relay/dynamic.relaying.mjs), the periodic cleanup   *)
(* (relay/udp.relay.cleanup.mjs) and the hooks that start and close them   *)
(* (relay/relay.mjs), on top of the socket pool.                           *)
(*                                                                         *)
(* The process runs one event loop: every handler below runs to its end    *)
(* before the next event is taken, with the microtasks it left behind, and *)
(* is therefore one action.  Events arrive in any order.                   *)
(*                                                                         *)
(* Time passes in ticks.  A timestamp t of an entry is kept as the time    *)
(* that passed since t, which stops counting at MaxAge: no comparison in   *)
(* the code tells larger values apart.                                     *)
(***************************************************************************)
EXTENDS UDPSocketPool, FiniteSets

CONSTANTS
    Address,            \* remote addresses that send datagrams
    RelayTimeout,       \* config udpRelay.timeout, in ticks
    CleanupInterval,    \* config udpRelay.cleanupInterval, in ticks
    NoPort              \* stands for the port of an address without a relay

ASSUME PortsAssumption == IsFiniteSet(Port)

ASSUME NoPortAssumption == NoPort \notin Port

ASSUME TimesAssumption ==
    /\ RelayTimeout \in Nat \ {0}
    /\ CleanupInterval \in Nat \ {0}

VARIABLES
    relayTable,     \* set of relay entries
    sinceCleanup,   \* ticks since the cleanup job last ran
    status          \* of the process, see Status

vars == <<sockets, freePorts, relayTable, sinceCleanup, status>>

-----------------------------------------------------------------------------
(* Time                                                                     *)

MaxAge == RelayTimeout + CleanupInterval + 1

Age == 0 .. MaxAge

Older(age) == IF age < MaxAge THEN age + 1 ELSE age

\* A timestamp of 0, the start of the epoch, is as old as can be.
Epoch == MaxAge

-----------------------------------------------------------------------------
(* Relay entries                                                            *)

RelayEntry == [address      : Address,
               port         : Port,
               lastSent     : Age,      \* ticks since lastSent
               lastReceived : Age]      \* ticks since lastReceived

\* The process runs, or was closed, or died of an exception: one of a limit on
\* traffic, or 'No more free ports!'.
Status == {"running", "closed", "diedOfLimit", "diedOfPorts"}

TypeOK ==
    /\ PoolTypeOK
    /\ relayTable \subseteq RelayEntry
    /\ sinceCleanup \in 0 .. CleanupInterval
    /\ status \in Status

\* Ticks since the later of the two timestamps.
IdleFor(e) == IF e.lastSent < e.lastReceived THEN e.lastSent ELSE e.lastReceived

HasRelayNever(a) == FALSE     \* mutant: compares objects, not addresses

HasRelay(a) == \E e \in relayTable : e.address = a

RelaysOf(a) == {e \in relayTable : e.address = a}

RelaysOn(p) == {e \in relayTable : e.port = p}

NewRelay(a, p) == [address |-> a, port |-> p, lastSent |-> Epoch, lastReceived |-> 0]

\* An entry after a datagram of `sender' was relayed to `target'.  A player may
\* write to its own relay port.
Touch(e, sender, target) ==
    [e EXCEPT !.lastReceived = IF e = sender THEN 0 ELSE @,
              !.lastSent     = IF e = target THEN 0 ELSE @]

Touched(table, sender, target) == {Touch(e, sender, target) : e \in table}

\* An entry one tick later.
Aged(e) == [e EXCEPT !.lastSent = Older(@), !.lastReceived = Older(@)]

-----------------------------------------------------------------------------
(* Startup and shutdown                                                     *)

\* The startup hook binds the configured ports one after the other and skips
\* those that cannot be bound.  It ends before the first player can connect.
Init ==
    /\ PoolStarted
    /\ relayTable = {}
    /\ sinceCleanup = 0
    /\ status = "running"

\* Mutant: the hook forgets the relay handler.
ShutdownPoolOnly ==
    /\ status = "running"
    /\ ClearPool
    /\ status' = "closed"
    /\ UNCHANGED <<relayTable, sinceCleanup>>

\* The 'close' hook: stop the cleanup job, clear the pool, clear the handler,
\* which finds no socket any more to return its ports to.
Shutdown ==
    /\ status = "running"
    /\ ClearPool
    /\ relayTable' = {}
    /\ status' = "closed"
    /\ UNCHANGED sinceCleanup

\* An exception that nobody catches, or a rejected promise that nobody awaits,
\* ends the process.  Its memory is never looked at again.
Die(cause) ==
    /\ status' = cause
    /\ UNCHANGED <<sockets, freePorts, relayTable, sinceCleanup>>

-----------------------------------------------------------------------------
(* The handler                                                              *)

\* Mutant: the port that was taken is not written into the entry.
CreateRelayPortless(a) ==
    /\ status \in {"running", "closed"}
    /\ ~HasRelay(a)
    /\ HasFreePort(freePorts)
    /\ freePorts' = Popped(freePorts)
    /\ relayTable' = relayTable \union {NewRelay(a, NoPort)}
    /\ UNCHANGED <<sockets, sinceCleanup, status>>

\* createRelay for a connect-relay command.  An address that has a relay keeps
\* it; without a free port the command fails.  TCP commands are still served
\* after the shutdown.
CreateRelay(a) ==
    /\ status \in {"running", "closed"}
    /\ ~HasRelay(a)
    /\ HasFreePort(freePorts)
    /\ freePorts' = Popped(freePorts)
    /\ relayTable' = relayTable \union {NewRelay(a, NextPort(freePorts))}
    /\ UNCHANGED <<sockets, sinceCleanup, status>>

\* A datagram from address a arrives on port p.
Arrives(a, p) ==
    /\ status = "running"
    /\ p \in sockets

\* relay: both ends are known and no 'transmit' listener objects.  The datagram
\* leaves through the sender's port to the target's address.
Transmit(a, p) ==
    /\ Arrives(a, p)
    /\ \E sender \in RelaysOf(a), target \in RelaysOn(p) :
          /\ sender.port \in sockets
          /\ relayTable' = Touched(relayTable, sender, target)
    /\ UNCHANGED <<sockets, freePorts, sinceCleanup, status>>

\* relay: a 'transmit' listener throws.  The listeners are in RelayConstraints.
TransmitVetoed(a, p) ==
    /\ Arrives(a, p)
    /\ \E sender \in RelaysOf(a) : sender.port \in sockets
    /\ RelaysOn(p) # {}
    /\ Die("diedOfLimit")

\* A datagram of an unknown sender for a known target: the 'drop' listener of
\* dynamic relaying.  It takes one port from the pool for the new entry, and
\* createRelay overwrites it with a second one.  The datagram is then relayed.
DynamicRelay(a, p) ==
    /\ Arrives(a, p)
    /\ ~HasRelay(a)
    /\ Len(freePorts) >= 2
    /\ \E target \in RelaysOn(p) :
          LET rest   == Popped(freePorts)
              sender == NewRelay(a, NextPort(rest))
          IN  /\ freePorts' = Popped(rest)
              /\ relayTable' = Touched(relayTable \union {sender}, sender, target)
    /\ UNCHANGED <<sockets, sinceCleanup, status>>

\* The same, but the datagram is vetoed when it is relayed.  Nobody handles the
\* promise that is rejected.
DynamicRelayVetoed(a, p) ==
    /\ Arrives(a, p)
    /\ ~HasRelay(a)
    /\ Len(freePorts) >= 2
    /\ RelaysOn(p) # {}
    /\ Die("diedOfLimit")

\* The same, but one of the two calls of getPort throws.
DynamicRelayExhausted(a, p) ==
    /\ Arrives(a, p)
    /\ ~HasRelay(a)
    /\ Len(freePorts) < 2
    /\ RelaysOn(p) # {}
    /\ Die("diedOfPorts")

-----------------------------------------------------------------------------
(* The clock and the cleanup job                                            *)

\* Timers that are due run before time is seen to pass.
Tick ==
    /\ status = "running"
    /\ sinceCleanup < CleanupInterval
    /\ sinceCleanup' = sinceCleanup + 1
    /\ relayTable' = {Aged(e) : e \in relayTable}
    /\ UNCHANGED <<sockets, freePorts, status>>

\* Mutants: an entry is kept one tick too long; only one of the timestamps is
\* looked at; an entry that never sent anything is skipped.
ExpiredLate == {e \in relayTable : IdleFor(e) > RelayTimeout}
ExpiredByReceived == {e \in relayTable : e.lastReceived >= RelayTimeout}
ExpiredOnlySenders == {e \in relayTable : e.lastSent # Epoch /\ IdleFor(e) >= RelayTimeout}

Expired == {e \in relayTable : IdleFor(e) >= RelayTimeout}

\* cleanupUdpRelayTable: freeRelay for every entry that is idle for too long.
\* A port without a socket is not returned.  The ports are returned in the order
\* of the table, which is not modelled.
Cleanup ==
    /\ status = "running"
    /\ sinceCleanup = CleanupInterval
    /\ sinceCleanup' = 0
    /\ relayTable' = relayTable \ Expired
    /\ \E order \in SetToSeqs({e \in Expired : e.port \in sockets}) :
          freePorts' = Returned(freePorts, order)
    /\ UNCHANGED <<sockets, status>>

-----------------------------------------------------------------------------
Next ==
    \/ \E a \in Address : CreateRelay(a)
    \/ \E a \in Address, p \in Port :
          \/ Transmit(a, p)
          \/ TransmitVetoed(a, p)
          \/ DynamicRelay(a, p)
          \/ DynamicRelayVetoed(a, p)
          \/ DynamicRelayExhausted(a, p)
    \/ Tick
    \/ Cleanup
    \/ Shutdown

\* Time passes, and the event loop runs the timers that are due.
Fairness == WF_vars(Tick) /\ WF_vars(Cleanup)

Spec == Init /\ [][Next]_vars /\ Fairness
-----------------------------------------------------------------------------
(* Properties                                                               *)

TablePorts == {e.port : e \in relayTable}

\* No address has two entries: relay() forwards from and to the first entry
\* that it finds, so that a second one would swallow traffic.
AddressUnique ==
    \A e, f \in relayTable : e.address = f.address => e = f

\* A port is dedicated to one player at a time: it is on the stack of free
\* ports once, or in one entry of the table, never both.
PortExclusive ==
    /\ IsInjective(freePorts)
    /\ \A e, f \in relayTable : e.port = f.port => e = f
    /\ Range(freePorts) \intersect TablePorts = {}

\* Every port that is handed out has a socket: createRelay uses the socket of
\* the port it got without a check, and relay() would drop the datagram.  It
\* also says that nothing can be handed out after the shutdown.
SocketBacked == Range(freePorts) \union TablePorts \subseteq sockets

\* An idle relay holds its port for less than the timeout and one interval of
\* the cleanup job.
RetentionBound ==
    \A e \in relayTable : IdleFor(e) < RelayTimeout + CleanupInterval

\* A relay that sent or received a datagram within the timeout is not freed,
\* and keeps its port, until the process is shut down.
KeepsActiveRelays ==
    \A e \in relayTable :
       e.lastSent < RelayTimeout \/ e.lastReceived < RelayTimeout =>
          \/ \E f \in relayTable' : f.address = e.address /\ f.port = e.port
          \/ status' = "closed"

ActiveRelayKept == [][KeepsActiveRelays]_vars

\* Address a has a relay, and its last datagram was some time ago.
Quiet(a) == \E e \in RelaysOf(a) : IdleFor(e) > 0

\* A relay whose player is gone does not stay: either there is traffic again,
\* or the relay is freed, or the process ends.
QuietRelayFreed ==
    \A a \in Address : Quiet(a) ~> (~Quiet(a) \/ status # "running")

\* Every bound port is free or belongs to a player, while the process runs.
PortsAccounted ==
    status = "running" => sockets = Range(freePorts) \union TablePorts

-----------------------------------------------------------------------------
(* The relay handler implements the leases promised to the players.         *)

LeaseOf(a) ==
    IF HasRelay(a) THEN (CHOOSE e \in relayTable : e.address = a).port ELSE NoPort

Leases == INSTANCE RelayLeases WITH
            lease     <- [a \in Address |-> LeaseOf(a)],
            available <- Range(freePorts)

\* Every behaviour of the handler is one of RelayLeases: a player keeps its
\* port as long as its relay lives, and no port serves two players.
ImplementsLeases == Leases!Spec

=============================================================================
