--------------------------- MODULE NorayLifecycle ---------------------------
(***************************************************************************)
(* The life of the noray process (noray.mjs, bin/noray.mjs): the modules   *)
(* register hooks, the hooks open what the server needs (relay/relay.mjs,  *)
(* metrics/metrics.mjs, hosts/host.mjs, connection/connection.mjs), the    *)
(* TCP server opens last, and SIGINT closes all of it.                     *)
(*                                                                         *)
(* An action is what runs until the next await or event.  Other events may *)
(* come in between whenever a socket is awaited.  The HTTP and TCP servers *)
(* listen on an IP address, as configured by default: Node binds them, or  *)
(* fails, before it takes another event.                                   *)
(***************************************************************************)
EXTENDS UDPSocketPool

CONSTANTS
    PortLists,      \* values of config.udpRelay.ports; << >> for undefined, which
                    \* ports() returns in place of an empty list
    Conn            \* TCP connections

ASSUME PortListsAssumption ==
    /\ 0 \notin Port
    /\ PortLists \subseteq Seq(Port \union {0})

VARIABLES
    phase,      \* how far start() came
    toBind,     \* configured relay ports that were not tried yet
    registrar,  \* the socket of the remote registrar
    http,       \* the metrics server is up
    tcp,        \* the TCP server is up
    timer,      \* the cleanup job is scheduled
    closers,    \* listeners of noray's 'close' event, in order
    installed,  \* what players find when they connect
    conns,      \* open TCP connections
    stopped,    \* shutdown() returned
    process     \* "running" or "ended"

poolVars == <<sockets, freePorts>>
startVars == <<phase, toBind, closers, installed>>
openVars == <<registrar, http, tcp, timer>>
endVars == <<stopped, process>>

lifeVars == <<poolVars, startVars, openVars, conns, endVars>>

\* The commands that the hooks of hosts/host.mjs and connection/connection.mjs
\* install.
HostHook == {"register-host"}
ConnectionHook == {"connect", "connect-relay"}

\* The listeners that the relay hook gives to the relay handler at its end.
Limits == {"limits"}
UseDynamicRelay == {"dynamic relaying"}

\* What the players' commands and datagrams need.
Everything == HostHook \union ConnectionHook \union Limits \union UseDynamicRelay

LifeTypeOK ==
    /\ PoolTypeOK
    /\ phase \in {"importing", "binding", "listening"}
    /\ toBind \in Seq(Port \union {0})
    /\ registrar \in {"created", "binding", "bound", "failed", "closed"}
    /\ {http, tcp, timer, stopped} \subseteq BOOLEAN
    /\ closers \in Seq({"metrics", "relay"})
    /\ installed \subseteq Everything
    /\ conns \subseteq Conn
    /\ process \in {"running", "ended"}

\* bin/noray.mjs has called start() and installed its listeners of 'SIGINT' and
\* 'exit'; start() awaits the import of the modules.
LifeInit ==
    /\ sockets = {} /\ freePorts = << >>
    /\ phase = "importing"
    /\ toBind \in PortLists
    /\ registrar = "created"
    /\ http = FALSE /\ tcp = FALSE /\ timer = FALSE
    /\ closers = << >>
    /\ installed = {}
    /\ conns = {}
    /\ stopped = FALSE /\ process = "running"

\* An exception or a rejection that nobody handles, or an 'error' event without
\* a listener, ends the process; the system closes whatever it had open.
Crash ==
    /\ process = "running"
    /\ process' = "ended"
    /\ UNCHANGED <<poolVars, startVars, openVars, conns, stopped>>

-----------------------------------------------------------------------------
(* start()                                                                  *)

MetricsHook == http' = TRUE

\* The relay hook up to its first await, which is for the first relay port.
\* Nobody awaits the registrar's listen().
RelayHookBegins ==
    /\ timer' = TRUE
    /\ registrar' = "binding"

\* Mutant: start() does not await the hooks.
LaunchUnawaited ==
    /\ process = "running"
    /\ phase = "importing"
    /\ toBind # << >>
    /\ phase' = "binding"
    /\ MetricsHook
    /\ RelayHookBegins
    /\ closers' = << "metrics" >>
    /\ installed' = HostHook \union ConnectionHook
    /\ tcp' = TRUE
    /\ UNCHANGED <<poolVars, toBind, conns, endVars>>

\* The hooks run one after the other; the relay hook does not end here, and its
\* 'close' listener is not installed yet.
LaunchHooks ==
    /\ process = "running"
    /\ phase = "importing"
    /\ toBind # << >>
    /\ phase' = "binding"
    /\ MetricsHook
    /\ RelayHookBegins
    /\ closers' = << "metrics" >>
    /\ installed' = HostHook \union ConnectionHook
    /\ UNCHANGED <<poolVars, toBind, tcp, conns, endVars>>

\* The HTTP port is in use, or no relay port is configured: the relay hook reads
\* the length of an undefined list.
LaunchFails == phase = "importing" /\ Crash

\* Mutant: a port that could not be bound is offered all the same.
BindPortAnyway(p) ==
    /\ freePorts' = Append(freePorts, p)
    /\ sockets' \in {sockets, sockets \union {p}}

\* Mutant: the socket's port is read before it is bound.
AddSocketUnread(p) ==
    /\ sockets' = sockets \union {0}
    /\ freePorts' = Append(freePorts, p)

\* addSocket, for a socket that was bound to port p.
AddSocket(p) ==
    /\ sockets' = sockets \union {p}
    /\ freePorts' = Append(freePorts, p)

\* The ports that bind may choose from: the system chooses for port 0.
Bindable(p) == (IF p = 0 THEN Port ELSE {p}) \ sockets

\* allocatePort resolves, or rejects and the relay hook ignores it.
AllocatePort(p) ==
    \/ \E q \in Bindable(p) : AddSocket(q)
    \/ UNCHANGED <<sockets, freePorts>>

\* Mutant: a port that could not be bound is tried again after the others.
BindRetries ==
    /\ process = "running"
    /\ phase = "binding"
    /\ Len(toBind) > 1
    /\ \/ /\ \E q \in Bindable(Head(toBind)) : AddSocket(q)
          /\ toBind' = Tail(toBind)
       \/ /\ toBind' = Append(Tail(toBind), Head(toBind))
          /\ UNCHANGED <<sockets, freePorts>>
    /\ UNCHANGED <<phase, closers, installed, openVars, conns, endVars>>

\* The relay hook goes on with the next port.
BindNextPort ==
    /\ process = "running"
    /\ phase = "binding"
    /\ Len(toBind) > 1
    /\ AllocatePort(Head(toBind))
    /\ toBind' = Tail(toBind)
    /\ UNCHANGED <<phase, closers, installed, openVars, conns, endVars>>

\* After the last port the relay hook ends, with it all hooks, and start() opens
\* the TCP server.
BindLastPort ==
    /\ process = "running"
    /\ phase = "binding"
    /\ Len(toBind) = 1
    /\ AllocatePort(Head(toBind))
    /\ toBind' = << >>
    /\ installed' = installed \union Limits \union UseDynamicRelay
    /\ closers' = Append(closers, "relay")
    /\ phase' = "listening"
    /\ tcp' = TRUE
    /\ UNCHANGED <<registrar, http, timer, conns, endVars>>

\* The TCP port is in use: the 'error' listener is installed too late for that.
ServeFails == phase = "binding" /\ Len(toBind) = 1 /\ Crash

RegistrarBinds ==
    /\ process = "running"
    /\ registrar = "binding"
    /\ registrar' = "bound"
    /\ UNCHANGED <<poolVars, startVars, http, tcp, timer, conns, endVars>>

\* The registrar's port is in use.  bind() with a callback listens for 'error' itself
\* meanwhile: listen() neither resolves nor rejects, and the server goes on without
\* a registrar.
RegistrarFails ==
    /\ process = "running"
    /\ registrar = "binding"
    /\ registrar' = "failed"
    /\ UNCHANGED <<poolVars, startVars, http, tcp, timer, conns, endVars>>

-----------------------------------------------------------------------------
(* Players                                                                  *)

Connects(c) ==
    /\ process = "running"
    /\ tcp
    /\ conns' = conns \union {c}
    /\ UNCHANGED <<poolVars, startVars, openVars, endVars>>

Leaves(c) ==
    /\ process = "running"
    /\ c \in conns
    /\ conns' = conns \ {c}
    /\ UNCHANGED <<poolVars, startVars, openVars, endVars>>

-----------------------------------------------------------------------------
(* shutdown()                                                               *)

\* Mutant: the cleanup job is not cancelled.
RelayClosesNoTimer ==
    /\ registrar # "closed"
    /\ registrar' = "closed"
    /\ ClearPool
    /\ UNCHANGED timer

\* The 'close' listener of the relay module; closing the registrar's socket a
\* second time throws before the pool is cleared.
RelayCloses ==
    /\ registrar # "closed"
    /\ timer' = FALSE
    /\ registrar' = "closed"
    /\ ClearPool

\* Mutant: #server?.close(), which forgives a shutdown before there is a server;
\* only the listeners that are installed by then run.
ShutdownEarly ==
    /\ process = "running"
    /\ closers # << >>
    /\ http' = FALSE
    /\ IF Last(closers) = "relay" THEN RelayCloses
                                  ELSE UNCHANGED <<timer, registrar, sockets, freePorts>>
    /\ tcp' = FALSE
    /\ stopped' = TRUE
    /\ UNCHANGED <<startVars, conns, process>>

\* SIGINT, once start() has opened the TCP server.  Connections stay open.
Shutdown ==
    /\ process = "running"
    /\ phase = "listening"
    /\ http' = FALSE
    /\ RelayCloses
    /\ tcp' = FALSE
    /\ stopped' = TRUE
    /\ UNCHANGED <<startVars, conns, process>>

\* SIGINT before there is a server to close, or a second time.
ShutdownThrows == (phase # "listening" \/ registrar = "closed") /\ Crash

\* Nothing is left that keeps the event loop alive.
Idle ==
    /\ phase = "listening"
    /\ ~http /\ ~tcp /\ ~timer
    /\ registrar = "closed"
    /\ sockets = {}
    /\ conns = {}

\* The process ends.  The 'exit' listener calls shutdown() once more, which
\* throws when there was one before.
Exit == Idle /\ Crash

LifeNext ==
    \/ LaunchHooks
    \/ LaunchFails
    \/ BindNextPort
    \/ BindLastPort
    \/ ServeFails
    \/ RegistrarBinds
    \/ RegistrarFails
    \/ \E c \in Conn : Connects(c) \/ Leaves(c)
    \/ Shutdown
    \/ ShutdownThrows
    \/ Exit

\* Imports and binds come to an end, well or badly, and a process that has
\* nothing to wait for exits.  Nobody makes players leave.
LifeFairness ==
    /\ WF_lifeVars(LaunchHooks \/ LaunchFails)
    /\ WF_lifeVars(BindNextPort)
    /\ WF_lifeVars(BindLastPort \/ ServeFails)
    /\ WF_lifeVars(Exit)

LifeSpec == LifeInit /\ [][LifeNext]_lifeVars /\ LifeFairness

-----------------------------------------------------------------------------
(* Properties                                                               *)

\* start() awaits its hooks: a player that gets a connection finds every command,
\* the limits and dynamic relaying in place, and every port was tried.
ReadyBeforeServing ==
    tcp => /\ installed = Everything
           /\ toBind = << >>
           /\ timer /\ http /\ registrar # "closed"

\* The server opens with a pool that the relay handler can start from: no port
\* twice on the stack, and exactly the bound ones on it.
PoolReady == tcp => PoolStarted

\* A shutdown that the process survives leaves nothing open but the players'
\* connections, whenever the signal came: no relay port stays bound, and no port
\* is bound after it.
ShutdownReleases ==
    stopped => /\ sockets = {} /\ freePorts = << >>
               /\ registrar = "closed"
               /\ ~http /\ ~tcp /\ ~timer

\* Whatever cannot be bound, start() ends: with a server, or with the process.
StartEnds == <>(phase = "listening" \/ process = "ended")

\* After a shutdown the process ends, once the last player has left: nothing
\* else keeps it alive.
ShutdownEnds == stopped ~> (process = "ended" \/ conns # {})

=============================================================================
