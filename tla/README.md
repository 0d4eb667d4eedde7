# Verification of bevy-noray

bevy-noray is a multiplayer game (Rust, `src/src/`) and the server it plays
over: *noray* (JavaScript, `src/noray/`), which introduces players to each
other and relays their UDP traffic. This directory models the server, from its
start to its shutdown, and how the game's players find each other and keep in
step, in TLA+, checks it with TLC and proves its main safety properties with TLAPS.
`PROJECT.json` relates every definition to the lines it models, every property
to a mutation of the code that breaks it, and lists the hazards the properties
are aimed at.

## 1. Inventory

### The server

| part | state | operations |
|------|-------|-----------|
| socket pool (`relay/udp.socket.pool.mjs`) | port to socket, stack of free ports | allocatePort, deallocatePort, getPort, returnPort, clear |
| relay handler (`relay/udp.relay.handler.mjs`, `relay.entry.mjs`) | relay table: address, port, two timestamps, creation time | createRelay, freeRelay, relay, clear; emits create, transmit, drop, destroy |
| dynamic relaying (`relay/dynamic.relaying.mjs`) | buffers of datagrams | listener of drop: a relay for an unknown sender |
| cleanup (`relay/udp.relay.cleanup.mjs`) | a timer | frees idle relays |
| limits (`relay/constraints.mjs`, `bandwidth.limiter.mjs`) | limiter by relay, global limiter, bytes by relay | listeners of transmit (may throw) and destroy |
| remote registrar (`relay/udp.remote.registrar.mjs`) | - | private id by UDP: sets a host's remote address |
| host repository and commands (`repository.mjs`, `hosts/`) | hosts by open id | register-host, close of the connection |
| connection commands (`connection/`) | - | connect, connect-relay |
| lifecycle (`noray.mjs`, `bin/noray.mjs`, `relay/relay.mjs`) | hooks, TCP server, cleanup timer | start, shutdown |
| configuration and utilities (`config*.mjs`, `utils.mjs`, `assertions.mjs`, `wordlist.mjs`) | - | parsing, formatting, arrays, word ids |
| metrics, logging | HTTP server | output |

A player opens a TCP connection, sends `register-host` and gets an open and a
private id; sends the private id by UDP to the registrar, which notes the
sender's address in the host entity; and sends `connect-relay` with another
player's open id, upon which the handler ensures a relay for both and each is
told the other's port. A datagram that then arrives on a relay port is looked
up twice, by its sender's address and by the port it came to, and leaves
through the *sender's* port to the *target's* address.

The server is one event loop. Handlers do not interleave inside; what makes it
hard is the order in which commands, datagrams, timers, closed connections and
the shutdown arrive, what each leaves in a table that another one reads, and
what happens when one step of several throws. Nothing is persisted.

What makes the parts correct: a port belongs to one player at a time; a relay
in use keeps its port; an idle one gives it back in time; every port in use has
a socket; what players were told stays true while their session lasts; limits
count what they should and forget it with the relay; hosts leave with their
connection.

### The game

| part | state | operations |
|------|-------|-----------|
| noray client (`network/noray_client.rs`) | TCP stream, buffered reader | register_only, wait_for_connection(s), accept_additional_connections, connect_to_relay(_with_stream) |
| packet handler (`network/packet_handler.rs`) | UDP socket, bounded channel | register_udp_socket, start_udp_relay, send_game_state |
| session and synchronisation (`main.rs`, `sync/`) | frame counter, remote players | run_host, run_joiner, sync_local_state, receive_remote_updates, update_remote_player_transforms |
| game loop (`game/`) | position, velocity, jumping | input, velocity, physics and jump systems, run in any order |

Hard here: read loops with timeouts, end of file and partial lines; lost,
repeated and overtaken datagrams; a fixed packet size; systems without an order.

## 2. Modules

| module | models |
|--------|--------|
| `UDPSocketPool` | the pool: state and the operations on it |
| `UDPRelayHandler` | pool, table, dynamic relaying, cleanup job, shutdown: the core |
| `RelayLeases` | abstract: what players are promised about ports |
| `BandwidthLimiter` | one limiter, as operators |
| `RelayConstraints` | the four limits, composed with the handler |
| `Collections` | deletion that keeps an order, and one table over another: the operators of `Repository` and `GameSync` on Maps and arrays |
| `Repository` | the repository with its operations: abstract for `Noray`, checked on its own in `Library` |
| `Noray` | connections, hosts, registrar and commands, composed with the handler |
| `NorayLifecycle` | startup, ports bound one by one, shutdown, exit |
| `Utils`, `ConfigParsers`, `NetAddress` | pure functions, as operators |
| `Library` | one repository, or one call of a pure function, against its reference |
| `NorayClient` | how players register, wait and join through the server |
| `GameSync` | the running game: systems of a frame, sending and receiving threads, datagrams in flight |
| `MC...` | instances for TLC, with symmetry where it is sound |
| `Collections_proofs` | lemmas about numbers, sequences, tables, recursive functions and orders that several proofs rest on |
| `UDPRelayHandler_proofs`, `RelayConstraints_proofs`, `Noray_proofs`, `Startup_proofs` (the functions of `Library` and `NorayLifecycle`), `Repository_proofs`, `NorayClient_proofs`, `GameSync_proofs` | theorems |

```
UDPSocketPool <- UDPRelayHandler <- RelayConstraints (<- BandwidthLimiter)
       |               |         <- Noray -- implements Repository
       |               '- implements RelayLeases
       '- NorayLifecycle (ports from ConfigParsers in its instance)
Utils <- ConfigParsers, NetAddress <- Library (<- Repository)
Collections <- Repository, GameSync
NorayClient (the server as far as its answers go), GameSync (the relay is its network)
```

### State and actions of the core

| TLA+ | code |
|------|------|
| `sockets`, `freePorts` | `#sockets` (keys), `#freePorts`: an array used as a stack |
| `relayTable` | `#relayTable`, a set; the order matters to `find` only if two entries match, which `AddressUnique` and `PortExclusive` exclude |
| `lastSent`, `lastReceived` | the timestamps of an entry, as ticks since then, saturated at `MaxAge`; `lastSent` starts at the epoch |
| `sinceCleanup` | the timer of the cleanup job |
| `status` | running, closed by the shutdown, or ended by an exception (which kind) |
| `CreateRelay` | `createRelay` when called for a command |
| `Transmit`, `TransmitVetoed` | `relay` with both entries known; a listener lets it pass or throws |
| `DynamicRelay`, `...Vetoed`, `...Exhausted` | the `drop` listener with the two calls of `getPort`, `createRelay` and the datagram relayed at the end; a listener throws; `getPort` throws |
| `Tick`, `Cleanup` | time, `cleanupUdpRelayTable` |
| `Shutdown` | the `close` listener |

A datagram that is only dropped changes nothing and is no action. The `drop`
listener awaits a value that is no promise: it goes on in a microtask, before
the event loop delivers another datagram, so the whole listener is one action
and its buffer never holds more than one datagram. An exception that leaves a
socket's listener, or rejects a promise nobody awaits, ends the process: `Die`.

`TransmitVetoed` may happen whenever a datagram is relayed in
`UDPRelayHandler`, which leaves the limits open; `RelayConstraints` says exactly
when it happens. There, a limiter's slice is kept as the ticks since its start and
`created` as the age of an entry. Two histories are read by properties only:
`datagrams`, whether a slice carried none, one or several, and `carried`, the bytes that
the global limit let pass within windows that began so many ticks ago.

`Noray` identifies an open id with its private id, keeps the hosts in the order
of the repository's map (`findBySocket` takes the first), and adds two history
variables for the properties: `told`, the addresses that `connect` told of hosts
still registered, and `sessions`, the relayed connections both parties were told
of, until a relay of one of them is freed. `host.relay` is written and never
read. After the shutdown TCP connections are still served, as in the code,
where only the listening socket is closed. `ImplementsRepository` maps the hosts
to the items of `Repository`: the open id is the id, the connection and the
remote address are the fields, and the registrar's assignment to `host.rinfo` is
an update in place.

`NorayLifecycle` cuts the startup at its awaits: `LaunchHooks` (all hooks up to
the relay hook's first await; nobody awaits the registrar's `listen`),
`BindNextPort` for each relay port, `BindLastPort`, which goes on to the TCP
server. `phase` is where `start()` is, `closers` the listeners of `close` there
are by then, `installed` what players would find. A bind of a UDP socket
succeeds or fails at will; for port 0 it yields any port that is not bound. The
registrar binds or fails at any time meanwhile. A bind that fails leaves the server
running without a registrar (`RegistrarFails`): `bind` with a callback takes the error
event for itself, so `listen` neither resolves nor rejects. The HTTP and the TCP server
listen on IP addresses, for which Node binds in the same turn, so a port in use
ends the process in the action that opens it (`LaunchFails`, `ServeFails`).
`Shutdown` is SIGINT once there is a TCP server. Before (`#server` is undefined)
and a second time (the registrar's socket is closed) `shutdown` throws:
`ShutdownThrows`. The process `Exit`s when nothing keeps its event loop alive;
its exit listener then calls `shutdown` once more, which throws in a process that
ends anyway.

`Utils`, `ConfigParsers` and `NetAddress` translate the pure functions. A text is a sequence
of tokens, a number with a fraction a ratio in lowest terms (so rounding of
floats is not modelled), `undefined` and exceptions are constants. `Kilo`
stands for 1024, because TLC's integers are 32 bits wide. The word list is data and
not translated: `Words` and `Capital` (the syllables that start with a capital) are
constants, and their assumption, `WordsAssumption`, says what makes the ids distinct:
words start with a capital, and a capital inside one does not follow another word. The
2638 words of `wordlist.mjs` satisfy it (CD is the only one with an inner capital); the
instance holds the kinds of words that come near to breaking it (Book, Bookcase, Case;
Butter, Butterfly, Fly; CD). `NorayConfig` is every setting of `config.mjs`, and
`EnvExample` the variables as `.env.example` sets them. `ToInt32` in `range` and the
32-bit overflow of `combine` are not modelled.

`NorayClient` has, for each player, the parts of lines on their way (`stream`),
those in the `BufReader` of the current function (`buf`), and the function it is
in (`step`). A line travels in two parts, so that a read can time out between
them: `read_line` then loses the first, and the second is a line of its own that
no function knows. When a function returns, its `BufReader` is lost with what
it had read ahead. A function counts its reads in `tries`;
`wait_for_connections` does not. The server answers `connect-relay` to both
players or with an error, and it or the network may close or reset a connection
(`Disconnect`), upon which any end of what was under way to the player does not
arrive, in the middle of a line perhaps. `read_line` then returns the part as a line
(`EndOfLine`), then nothing (`EndOfFile`), or it fails (`ReadError`). A part may
be the command with a shorter id or port (`CutShort`); noray's ports have five digits, so a
shorter one is nobody's, and a player that takes it has a `Stranger` for a partner. A
datagram with a private id may be lost, and a socket that cannot be bound or does not send
ends the process (`RegisterUdpFails`).

`GameSync` has one action for each system of the game loop that takes part in
the synchronisation, which runs once per frame in any order (`todo`: the systems
are added to the schedule without an order), one for each thread, and `net`, the
datagrams ever sent: one that is never received is lost, one that is received
late was overtaken, and one may be received twice. That is what UDP does, and the
relay in between. `send_to` may fail, and resolves the server's name anew for each
datagram: `unsent` is a history of the datagrams that were given to the socket in vain,
which `main.rs` ignores. A state's position is stood for by its frame. `target` is what
the game was told before it started: any pairing that joining can lead to, where
a player may have entered its own id. The physics and input systems also move the
avatars of remote players until the next state; positions are floats and not modelled.

## 3. What is checked

| run | instance | result |
|-----|----------|--------|
| `relay_handler` | 3 addresses, 3 ports of which any subset could be bound, timeout 2, interval 1; 115,672 states | passes |
| `relay_port_leak` | the same | `PortsAccounted` is violated |
| `relay_limits` | 2 addresses, 3 ports, datagrams of 1, 2, 4 bytes, limits 2, 3, 6 bytes, lifetime 3; 89,370 states | passes |
| `relay_slices` | the same | `SliceAllotted` is violated |
| `relay_limit_death` | the same | `LimitsOnlyBlock` is violated |
| `noray` | 2 addresses, 3 ports, 2 connections, 2 ids, timeout 1, interval 1; 361,320 states | passes |
| `lifecycle` | 3 ports, 6 texts of ports, 2 connections; 258 states | passes |
| `library` | 3 ids; about 5,800 calls: ranges and pairs of them, sizes 0 to 1100, durations around every unit, arrays of up to 5 elements, ids of up to 3 words, environments, pairs of senders; 6,048 states | passes |
| `client` | a host of a game of three, two joiners, 2 reads per function; 250,763 states | passes |
| `game_sync` | 2 players, ids of 24 characters, 2 states each, channels of 1; 285,968 states | passes |
| `game_order` | the same, channel to the game loop of 2 | `UpdatesOrdered` is violated |
| `game_default` | the same with ids of 21 characters, the server's default | `EveryStateSent` is violated |

What the passing runs show:

* `PortExclusive`, `AddressUnique`, `SocketBacked`: ports and addresses have one
  entry each, free ports are not in use, and none is without a socket.
* `RetentionBound`, `QuietRelayFreed`, `ActiveRelayKept`: an idle relay is gone
  before timeout and interval have passed, and is gone in the end, while one
  with traffic in either direction keeps its port.
* `ImplementsLeases`: the handler implements `RelayLeases`.
* `CountersFollowRelays`, `WindowBound`, `SliceExcess`: counters agree with each
  other and live as long as their relay; any window as long as a slice carries at
  most two slices' worth, where the second may be a single long datagram; a slice
  carries its allotment, or one datagram and nothing else until it is over.
* `HostsConnected`, `SessionsServed`, `RelaysExclusive`, `AddressesTold`: hosts
  leave with their connection, however many it registered; what both parties of a
  session were told is right until one of the two relays is freed; and this with
  commands that create two relays and may fail after the first; the address that
  `connect` told of a host stays its address, whoever registers for it again.
* `HostsStay`: a host keeps its id, its connection and, once it is known, its address
  until its connection closes, though ids are drawn at random and one that is in use
  may be drawn again: `add` throws rather than replace the host in the map.
* `ImplementsRepository`, `OrderStable`: the hosts change as the items
  of a repository do, whose order no operation changes.
* `ReadyBeforeServing`, `PoolReady`: players find all of it when they connect, and
  the pool is one that the handler's initial state allows. This justifies `Init`
  of `UDPRelayHandler`.
* `ShutdownReleases`, `StartEnds`, `ShutdownEnds`: a shutdown that returns has
  closed everything for good, and one that comes too early or twice ends the
  process; the start ends, and a closed server's process ends once the
  last player left.
* `PortsMeant`, `SizesRoundTrip`, `DurationsAgree`, `SettingsApart`: the configuration
  is read as it is meant, what is shown can be put back, units that look alike are
  told apart. Each of the twenty settings is decided by its own variable, whatever the
  others are set to, and one that is not set is what `.env.example` says.
* `NothingLost`, `NamesDistinct`: chunks and combinations are complete; different
  words make different ids though nothing separates them, and the texts that relays'
  counters and senders' buffers are kept by tell different addresses and ports apart.
  The latter is why `RelayConstraints` may take a pair for the id of a relay.
* `JoinersKnown`, `HostLearns`, `JoinEnds`: the line that tells a host of a joiner
  is lost to a timeout in its very middle only, or with the connection, and not to
  other lines, other joiners or what was read ahead; joining always ends, also when a
  connection is closed in the middle of a line. A host's
  waiting need not end (`wait_for_connections` reads the end of file for ever).
* `EveryStateSent`, `PartnersOnly`, `ShownInTime`, `ChannelsMove`: the game
  drops no state, if ids have the length that fits: it waits or is given to the socket,
  which may refuse it; tables hold what
  partners sent to this player, never its own states; avatars lag a frame at most
  whatever the order of the systems; full channels drain.

What the violations show (details under "findings" in `PROJECT.json`):

* a dynamic relay takes two ports and uses one, so the pool runs dry, after
  which one datagram of an unknown sender ends the process;
* a limit that is hit ends the process instead of blocking the relay;
* a slice that starts with a datagram larger than its allotment carries it: `validate`
  looks at the limit for later datagrams only, though its comment says that it throws if
  traffic is over limit. With the default limits, a slice is allotted 13107 bytes;
* the game ignores the number of a state, so that an older one replaces a newer;
* with the server's default length of ids the game sends no state at all.

Findings without a run: `ports()` compares numbers as texts when it sorts them, so
that `9-10` becomes 10, 9 (`PortsMeant` therefore speaks of the set of ports);
a port that was told to a player is given to another one without
notice (sessions end in `NorayCleanup`); an OK of the registrar does not mean
that the sender's address is registered (`AddressesTold`: the first one stays);
the gauge of active hosts stays too high after a collision of ids.

Bounds. Three addresses are a target, a sender and an unknown one. Three ports
are one dynamic relay beside one other, and the initial states have every
smaller pool. `MaxAge` is exact: no comparison tells larger ages apart. Timeout
2 and interval 1 separate a relay that is recent, at the cut-off and beyond it,
and let the job run between. In `relay_limits`, datagrams are below, at and
above the individual limit, and the lifetime's 6 bytes are reached by several of them. In `noray` time needs two values only, so that
relays can expire between commands. In `lifecycle` the lists of ports are none,
one, several, overlapping ones and ports of the system's choice, as `ports()`
makes them of texts. In `library` the inputs contain every boundary of the
functions: empty, backwards, overlapping and malformed ranges, sizes around
each power of `Kilo` beyond the last unit (1100 > 2^9), durations at and around
each unit, and environments that set settings which are read alike, or stand side by
side, to every combination of set, malformed, zero and none. In `client` two reads per function are
enough for one that is in vain and one that counts as the last, two
joiners and a game of three have lines of different joiners meet in a host's
buffer, and `OneDisconnect` bounds the connections that are lost while their
players read to one at a time. In `game_sync` a channel of 1 is
full as soon as it is used, which is what the properties are about; `MaxFrame`
bounds the states a player takes, after which its game goes on (`SyncBeyondBound`)
so that the bound does not stop the loop. Symmetry is used where no liveness
is checked. `CHECK_DEADLOCK FALSE`: a process that was closed or died stops.

Fairness. `WF(Tick)` and `WF(Cleanup)`: time passes, and the event loop runs a
timer that is due. Nothing is assumed of players: they may fall silent. A due
cleanup runs before the next tick; a timer that is late by less than a tick is
covered, one that starves is not. In `GameSync` the game
loop runs its systems and frames, and the sending thread is scheduled, all weakly
fair: the game engine and the operating system do that. Nothing is assumed of the
network, so no property says that a state arrives. `LifeFairness`: imports and
binds end, well or badly, and an idle process exits, both by Node; nothing makes
players leave or the operator shut down. `SetupFairness`: a joiner's process runs,
so that its reads get something, time out or end, and what was sent to a host on
an open connection arrives and is read, as TCP does; nothing is assumed of
datagrams, of the server's answers, or of what is sent to joiners. Fairness is used
by `QuietRelayFreed`, `ChannelsMove`, `StartEnds`, `ShutdownEnds`, `HostLearns` and
`JoinEnds` only.

## 4. What is proved

Every theorem holds for all values of the constants, under the `ASSUME`s of the
modules only. Those are: sets of ports and of open ids are finite (`SetToSeqs` orders
the ports a cleanup returns, and a connection's close goes through the hosts; the set of
ids that a run of the server draws is finite), timeouts, intervals and limits are above
0, the "none" values are none, and an update gives a repository fields of the right
form (`UpdatesAssumption`, which is discharged for the hosts). For the functions of
`Library`: `Kilo` is above 1, the characters `-` and `+` differ (`CharactersAssumption`),
`undefined` and an exception are no numbers, texts or lists (`OutcomesAssumption`), the
word list is as `WordsAssumption` says, and the arguments are of the kinds that the functions are
for (`CallsAssumption`: natural sizes, durations in lowest terms, positive sizes of
chunks, arrays without repetition to combine, ports that are numbers). `PROJECT.json`
lists the theorems with the properties they state.

**Relay handler** (`UDPRelayHandler_proofs`): `TypeCorrect`, `AddressesUnique`,
`PortsExclusive`, `PortsHaveSockets`, `RetentionBounded`, `ActiveRelaysKept`;
`HandlerImplementsLeases` (`Spec => Leases!Spec`); `LeasesExclusive` (`RelayLeases`
alone keeps its leases exclusive), and `HandlerLeasesExclusive`, which follows from the two.

The inductive invariant `Inv` is the conjunction of type correctness, the three
exclusiveness invariants, and `RetentionInd`: an entry has been idle for less
than the timeout and the time *since the last cleanup*. `RetentionBound` alone is
not inductive: it allows a relay that a cleanup should already have removed, which the
next tick takes over the bound. `PortExclusive` and `SocketBacked` need each other, since
a port without a socket is not returned. `NextInv` has one lemma per action.
`PopFacts` and `ConcatFacts` say what pop and push do to a stack without
duplicates; `SetToSeqsFacts` that the order in which a cleanup returns its ports
is a permutation. The refinement maps a command or a dynamic relay to `Grant`
(the second port of a dynamic relay is lost, which `Grant` allows), a cleanup to
`Revoke`, the shutdown to `Close`, and all else to a stutter.

**Limits** (`RelayConstraints_proofs`): `LimitsRefineHandler`
(`LimitedSpec => Init /\ [][Next]_vars`: every step with the limits is a step of the
handler or a stutter, so that the handler's invariants hold), `LimitsTypeCorrect`,
`CountersFollow`, `SlicesBounded` and `WindowBounded`. The first invariant is the
handler's `Inv` with the three properties: they are inductive together, since
`Inv` gives every sender one relay, so one id is charged. `CountFacts` says what a
datagram does to the counters, `ForgetInv` and `UncountedInv` what the other
actions leave. `SliceExcess` rests on `datagrams`: a
slice is over its allotment only with its first datagram, and then takes no second one.
`WindowBound` needs `CarriedInSlice` besides: what a window that began
after the current slice carried is in the slice's counter, and an older one has at most the
rest of one earlier slice in addition.

**Repository** (`Repository_proofs`): `RepositoryTypeCorrect`, `OrderKept`.
`RepositoryInv` is typing with unique ids, without which an item has no place of its own; `Moved` follows an item from its
place before an operation to that after it, and the facts of every operation say
that this map is monotone.

**Server** (`Noray_proofs`): `NorayTypeCorrect`, `RelaysStayExclusive`,
`RelaysStayTimely`, `HostsStayConnected`, `SessionsStayServed`, `AddressesStayTold`,
`HostsStayThere`, `HostsImplementRepository`, and from it `HostsKeepOrder`: the repository's theorem
`OrderKept`, instantiated for the hosts. `NorayInv` has three parts.

* The handler's `Inv`. One `connect-relay` makes two relays, so it is no step of the
  handler and its lemmas do not apply as they are. `RelaysOK(free, table)` is what
  `Inv` says of a stack and a table, and `getRelay` preserves it; the command
  composes it with itself, or stops after the first.
* `HostsOK`: ids are unique, every host has an open connection, and an address that was
  told is that of a registered host (`ToldKept`, which says it of the places of `hosts`
  rather than of `HostOf`, a CHOOSE).
* `SessionsOK`. A session lasts while the relays of its parties do, whatever becomes of
  their timestamps: `SessionsStay`, by the relation `Stems` between the entries before
  and after a step.

**Joining** (`NorayClient_proofs`): `JoinersStayKnown`. `JoinersKnown` is not inductive,
since it says nothing before the joiner plays. `ClientInv` strengthens it: a line for a
joiner that is still *unread* (`LinesOK`) already has its counterpart at the host; a
player that introduced itself by UDP has registered (`IntroducedOK`), as a host that has
not yet begun to wait could otherwise lose the line; and the parts of lines are in order
(`PairedOK`): a first part is followed by its second one or is the last thing there is,
the latter only if the connection is closed, so that what `read_line` takes and what a
timeout drops is one line at most. `Reads` is what the steps of all reading functions have in
common, `LeftOf` that reading only takes from the front.

**Game** (`GameSync_proofs`): `GameTypeCorrect`, `PartnersStay`, `ShownStaysInTime`,
and `StatesStaySent`, which assumes `IsPacket`: that ids have the length that packets are
made for: a state that was taken waits, or was sent, or was refused by the socket.
The length is the point of the property, and the run `game_default` shows a
configuration without it. `ReceivedOK` traces what is in a channel or a table to a
datagram that was sent to this player; `ShownOK` says which of the systems that show
remote players have already run in this frame, and what the avatars then show.

**Lifecycle** (`Startup_proofs`): `LifeTypeCorrect`, `ServesWhenReady`,
`OpensWithPool` and `ShutdownLeavesNothing`. `LifeInv` strengthens them by what holds
before the server opens: `PoolInd` (the stack holds the bound ports, each once, at every
await), `PhaseInd` (how far the start came decides what is installed and open) and
`ShutdownInd` (what a shutdown that returned has closed stays closed, as there is
no bind left). `PushFacts` and `StackOfItsPorts` are its facts about stacks.

**Configuration and pure functions** (`Startup_proofs`): `PortsRead`, `SizesRead`,
`DurationsRead`, `ArraysKept` and `NamesTell`: what the run `library`
shows of ports, sizes, durations, arrays and names for bounded inputs holds for all of them. The invariant is only that the call is one of
`Calls` (`CallTyped`); all the work is in what the functions return.

* *Recursive functions.* `Decimal`, `Gcd`, `KiloToThe` and `CountUpTo` are written as
  recursive functions, which are CHOOSEs: `Recursion` shows that one exists whenever a
  measure in the naturals falls with each call, so that the equation holds.
  `Induction` and `StrongInduction` state the principle for a *set* of numbers, from the
  least element of its complement; no theorem with an operator parameter is needed.
  `FlattenBuilt` does the same for the library's `FlattenSeq`.
* *Ports.* Two ports have different decimal texts (`DecimalInjective`), so `TextBefore` is a strict
  total order on them although it compares texts. `Sorted` over any such order has each element
  at the place of its rank (`RankedFacts`), hence once. `SpansFacts` says that the ranges the
  code collects in separate passes for `-`, `+` and single ports are the ones that were meant. `PortsCanBeBound` joins this to the
  lifecycle: the result has the form that `PortListsAssumption` asks for, and no port comes
  twice.
* *Sizes and durations.* `Gcd` divides both numbers, and every common divisor divides it
  (Euclid), so `Ratio` is a number in lowest terms and there is one of each; multiplying
  by the unit that was divided by gives the number back, although `Product` cancels before
  it multiplies.
* *Arrays.* `Chunks` are adjacent parts, whose concatenation is the array. `Combine` writes the
  number of an item in mixed radix (`Radix`); such digits exist and are unique, so the result
  has every combination once.
* *Names.* No syllable inside a word starts another one that is left over (`WordsAssumption`), so the first
  word of an id can be told, then the rest by induction. Addresses and ports are cut apart at
  their separators.

All of the invariants above were model-checked on the instances of the runs before they
were proved. Where a proof needs the first or the last place of something in a
sequence, `MinFacts` and `MaxFacts` give it, from the well-foundedness of the naturals.
Nothing is known to the prover about `SelectSeq` and `@@`, so the modules use
`Kept`, `SelectInSeq` and `Over`, whose facts are proved in `Collections_proofs`.

Model-checked only: the liveness properties (`QuietRelayFreed`, `ChannelsMove`,
`StartEnds`, `ShutdownEnds`, `HostLearns`, `JoinEnds`), which are beyond this prover, and
`SettingsApart`, which follows from the definition of `NorayConfig` for all values at once
and would show no more as a theorem. Every other safety property of a passing run is a theorem, for `EveryStateSent` under the assumption that
`game_default` shows to be necessary.

## 5. Not modelled, and why

* The game loop and its physics (`game/`): positions are floats that each system
  adds to; which of two systems runs first matters for them only.
* Metrics (the gauge of active hosts included) and logging: no decision reads them.
* `memoize`, `asSingletonFactory`, `sleep`, `withTimeout`: no caller in the server.
  `time` is the clock, and ticks stand for it.
* `wait_for_connection`, `accept_additional_connections` and `connect_to_relay` of the
  client: variants that the game does not call. The probe `test_noray.rs` repeats
  the client's calls by hand.
* Payloads, the TCP command syntax and ids as strings: abstracted to values.
* The menu of `main.rs`, spawning the local avatar, scripts and deployment.

## 6. Plan

All modules of the plan are written, and the safety properties that a run checks are
proved. What is left:

1. `NorayLifecycle` and `Noray`: that a server that was started by the one begins in
   a state of the other, as a theorem about their composition (`OpensWithPool` is its core).
2. `RelayConstraints` over `Noray`: the limits with commands.
3. Fractions of sizes and durations are ratios here; the rounding of floats would need a
   model of its own.
