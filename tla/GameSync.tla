------------------------------ MODULE GameSync ------------------------------
(***************************************************************************)
(* The running game: how the players exchange the states of their avatars  *)
(* (src/main.rs, network/packet_handler.rs, sync/).                        *)
(*                                                                         *)
(* Every player runs three threads: the game loop, which runs each of its  *)
(* systems once per frame and in any order; a thread that sends the states *)
(* of a channel over UDP; and a thread that receives states over UDP into  *)
(* another channel.  Datagrams travel through the relay to the player that *)
(* `target' says, and may be lost, repeated and overtaken on the way.      *)
(*                                                                         *)
(* The position, velocity and jump flag of a state are stood for by the    *)
(* frame they were taken in.                                               *)
(***************************************************************************)
EXTENDS Collections, FiniteSets

CONSTANTS
    Player,         \* the players, named by their open ids
    OidLength,      \* characters of an open id: the server's configuration
    OutCapacity,    \* of the channel to the sending thread: 100 in the code
    InCapacity,     \* of the channel from the receiving thread: 100 in the code
    MaxFrame        \* bound: states that a player takes

ASSUME GameAssumption ==
    /\ OidLength \in Nat
    /\ OutCapacity \in Nat \ {0}
    /\ InCapacity \in Nat \ {0}
    /\ MaxFrame \in Nat

VARIABLES
    target,     \* the player behind the relay port that a player was told
    frame,      \* FrameCounter
    todo,       \* systems that are yet to run in the current frame
    outgoing,   \* channel from the game loop to the sending thread: frames
    net,        \* datagrams that were ever sent
    unsent,     \* history: datagrams that the socket refused to send
    incoming,   \* channel from the receiving thread to the game loop: states
    remote,     \* RemotePlayerData.players: by open id, the state received last
    before,     \* history: `remote' when the current frame began
    shown       \* the avatars of remote players: by open id, the state that the
                \* avatar was last put to (physics moves it on until the next)

vars == <<target, frame, todo, outgoing, net, unsent, incoming, remote, before, shown>>

\* The systems of the game loop that the synchronisation consists of.
System == {"sync", "receive", "update"}

Datagram == [from : Player, to : Player, frame : 0 .. MaxFrame - 1]

State == [from : Player, frame : 0 .. MaxFrame - 1]

\* Tables of states by open id.
Table == UNION {[Q -> 0 .. MaxFrame - 1] : Q \in SUBSET Player}

GameTypeOK ==
    /\ target \in [Player -> Player]
    /\ frame \in [Player -> 0 .. MaxFrame]
    /\ todo \in [Player -> SUBSET System]
    /\ outgoing \in [Player -> Seq(0 .. MaxFrame - 1)]
    /\ net \subseteq Datagram /\ unsent \subseteq Datagram
    /\ incoming \in [Player -> Seq(State)]
    /\ \A p \in Player : Len(outgoing[p]) <= OutCapacity /\ Len(incoming[p]) <= InCapacity
    /\ remote \in [Player -> Table]
    /\ before \in [Player -> Table]
    /\ shown \in [Player -> Table]

-----------------------------------------------------------------------------
(* Packets                                                                  *)

\* OID_LENGTH and PACKET_SIZE of packet_handler.rs.
OID_LENGTH == 32

PACKET_SIZE == 4 + OID_LENGTH + 4 + 4 + 4 + 4 + 1

\* bincode writes the length of a string in 8 bytes and then the string, and
\* numbers and flags in their width.
EncodedSize == 8 + OidLength + 4 + 4 + 4 + 4 + 4 + 1

\* send_game_state does not send packets of any other size, and start_udp_relay
\* does not look at them.
IsPacket == EncodedSize = PACKET_SIZE

-----------------------------------------------------------------------------
\* A joiner was told the port of the host whose open id was entered, which may be
\* its own.  A host sends to the first player that joined it (peers[0]), whatever
\* the number of players it waited for.
Pairings == {t \in [Player -> Player] : \A p \in Player : t[t[t[p]]] = t[p]}

Init ==
    /\ target \in Pairings
    /\ frame = [p \in Player |-> 0]
    /\ todo = [p \in Player |-> System]
    /\ outgoing = [p \in Player |-> << >>]
    /\ net = {} /\ unsent = {}
    /\ incoming = [p \in Player |-> << >>]
    /\ remote = [p \in Player |-> << >>]
    /\ before = [p \in Player |-> << >>]
    /\ shown = [p \in Player |-> << >>]

-----------------------------------------------------------------------------
(* The game loop                                                            *)

Ran(p, system) ==
    /\ system \in todo[p]
    /\ todo' = [todo EXCEPT ![p] = @ \ {system}]

\* Mutant: a state is dropped when the channel is full.
SyncOrDrop(p) ==
    /\ Ran(p, "sync")
    /\ frame[p] < MaxFrame
    /\ outgoing' = IF Len(outgoing[p]) < OutCapacity
                   THEN [outgoing EXCEPT ![p] = Append(@, frame[p])] ELSE outgoing
    /\ frame' = [frame EXCEPT ![p] = @ + 1]
    /\ UNCHANGED <<target, net, unsent, incoming, remote, before, shown>>

\* Mutant: the channel is not bounded.
SyncUnbounded(p) ==
    /\ Ran(p, "sync")
    /\ frame[p] < MaxFrame
    /\ outgoing' = [outgoing EXCEPT ![p] = Append(@, frame[p])]
    /\ frame' = [frame EXCEPT ![p] = @ + 1]
    /\ UNCHANGED <<target, net, unsent, incoming, remote, before, shown>>

\* sync_local_state: the state of the local player, with the next number, into
\* the channel.  The game loop waits while the channel is full.
SyncLocalState(p) ==
    /\ Ran(p, "sync")
    /\ frame[p] < MaxFrame
    /\ Len(outgoing[p]) < OutCapacity
    /\ outgoing' = [outgoing EXCEPT ![p] = Append(@, frame[p])]
    /\ frame' = [frame EXCEPT ![p] = @ + 1]
    /\ UNCHANGED <<target, net, unsent, incoming, remote, before, shown>>

\* Beyond the bound a player takes no more states; its game goes on.
SyncBeyondBound(p) ==
    /\ Ran(p, "sync")
    /\ frame[p] = MaxFrame
    /\ UNCHANGED <<target, frame, outgoing, net, unsent, incoming, remote, before, shown>>

\* Mutant: the player's own states are not skipped.
OthersNotSkipped(p, states) == {s.from : s \in Range(states)}

\* The players that states are taken from: everybody else.
Others(p, states) == {s.from : s \in Range(states)} \ {p}

\* The last of the states of a player q, whatever its number.
LastOf(q, states) == states[SelectLastInSeq(states, LAMBDA s : s.from = q)].frame

\* receive_remote_updates: everything that is in the channel, in its order.  What
\* arrives meanwhile is as good as there from the start, or left for later.
ReceiveRemoteUpdates(p) ==
    /\ Ran(p, "receive")
    /\ remote' = [remote EXCEPT ![p] =
                     Over([q \in Others(p, incoming[p]) |-> LastOf(q, incoming[p])], @)]
    /\ incoming' = [incoming EXCEPT ![p] = << >>]
    /\ UNCHANGED <<target, frame, outgoing, net, unsent, before, shown>>

\* Mutant: avatars are spawned and never moved.
UpdateSpawnsOnly(p) ==
    /\ Ran(p, "update")
    /\ shown' = [shown EXCEPT ![p] = Over(@, remote[p])]
    /\ UNCHANGED <<target, frame, outgoing, net, unsent, incoming, remote, before>>

\* update_remote_player_transforms: every remote player's avatar is moved, or
\* spawned if there is none.  No avatar is ever removed.
UpdateRemotePlayerTransforms(p) ==
    /\ Ran(p, "update")
    /\ shown' = [shown EXCEPT ![p] = Over(remote[p], @)]
    /\ UNCHANGED <<target, frame, outgoing, net, unsent, incoming, remote, before>>

NextFrame(p) ==
    /\ todo[p] = {}
    /\ todo' = [todo EXCEPT ![p] = System]
    /\ before' = [before EXCEPT ![p] = remote[p]]
    /\ UNCHANGED <<target, frame, outgoing, net, unsent, incoming, remote, shown>>

-----------------------------------------------------------------------------
(* The threads                                                              *)

\* The datagram that is sent for the state n of player p, if it is a packet.
Packed(p, n) ==
    {d \in {[from |-> p, to |-> target[p], frame |-> n]} : IsPacket}

\* Mutant: the thread sends no more than it received.
SendInTurns(p) ==
    /\ outgoing[p] # << >>
    /\ Cardinality({d \in net : d.from = p}) <= Cardinality({d \in net : d.to = p})
    /\ outgoing' = [outgoing EXCEPT ![p] = Tail(@)]
    /\ net' = net \union Packed(p, Head(outgoing[p]))
    /\ UNCHANGED <<target, frame, todo, unsent, incoming, remote, before, shown>>

\* The sending thread: the next state of the channel is sent to the relay.  The
\* socket may refuse it, as when the name of the server cannot be resolved, which is
\* done for every packet.  When send_game_state fails, for this or for the size, the
\* state is gone and nobody is told.
SendGameState(p) ==
    /\ outgoing[p] # << >>
    /\ outgoing' = [outgoing EXCEPT ![p] = Tail(@)]
    /\ \/ net' = net \union Packed(p, Head(outgoing[p])) /\ UNCHANGED unsent
       \/ unsent' = unsent \union Packed(p, Head(outgoing[p])) /\ UNCHANGED net
    /\ UNCHANGED <<target, frame, todo, incoming, remote, before, shown>>

\* The receiving thread: a datagram that was sent at some time arrives, for the
\* first time or again.  The thread waits while the channel is full.
ReceivePacket(p) ==
    /\ IsPacket
    /\ Len(incoming[p]) < InCapacity
    /\ \E d \in net :
          /\ d.to = p
          /\ incoming' = [incoming EXCEPT ![p] =
                             Append(@, [from |-> d.from, frame |-> d.frame])]
    /\ UNCHANGED <<target, frame, todo, outgoing, net, unsent, remote, before, shown>>

-----------------------------------------------------------------------------
Next ==
    \E p \in Player :
       \/ SyncLocalState(p)
       \/ SyncBeyondBound(p)
       \/ ReceiveRemoteUpdates(p)
       \/ UpdateRemotePlayerTransforms(p)
       \/ NextFrame(p)
       \/ SendGameState(p)
       \/ ReceivePacket(p)

\* The game loop goes from system to system and from frame to frame, and the
\* operating system runs the sending thread.  Nothing is assumed of the network.
Fairness ==
    \A p \in Player :
       /\ WF_vars(SyncLocalState(p) \/ SyncBeyondBound(p))
       /\ WF_vars(ReceiveRemoteUpdates(p))
       /\ WF_vars(UpdateRemotePlayerTransforms(p))
       /\ WF_vars(NextFrame(p))
       /\ WF_vars(SendGameState(p))

Spec == Init /\ [][Next]_vars /\ Fairness

-----------------------------------------------------------------------------
(* Properties                                                               *)

\* Every state that was taken is on its way to the target, or waits its turn, or was
\* put to the socket and refused by it: the game itself loses none, as the game loop
\* waits rather than drop a state, and the thread tries each that it takes.
EveryStateSent ==
    \A p \in Player, n \in 0 .. MaxFrame - 1 :
       n < frame[p] => \/ n \in Range(outgoing[p])
                       \/ [from |-> p, to |-> target[p], frame |-> n] \in net \union unsent

\* A player's table has states of others that were sent to it, and never its own,
\* even if its open id was entered in its own game and its datagrams come back.
PartnersOnly ==
    \A p \in Player : \A q \in DOMAIN remote[p] :
       /\ q # p
       /\ [from |-> q, to |-> p, frame |-> remote[p][q]] \in net

\* Whatever the order of the systems: at the end of a frame the avatars show
\* what had been received by the beginning of the frame, or by its end.
ShownInTime ==
    \A p \in Player : todo[p] = {} => shown[p] \in {before[p], remote[p]}

\* A full channel does not stop the game for good, on either side of it.
ChannelsMove ==
    \A p \in Player :
       /\ Len(outgoing[p]) = OutCapacity ~> Len(outgoing[p]) < OutCapacity
       /\ Len(incoming[p]) = InCapacity ~> Len(incoming[p]) < InCapacity

\* The number of a state orders the updates: a state is not replaced by an older
\* one.
KeepsOrder ==
    \A p \in Player : \A q \in DOMAIN remote[p] : remote'[p][q] >= remote[p][q]

UpdatesOrdered == [][KeepsOrder]_vars

=============================================================================
