--------------------------- MODULE GameSync_proofs ---------------------------
(***************************************************************************)
(* Proofs about GameSync, for any players, any capacities of the channels  *)
(* and any number of states.                                               *)
(***************************************************************************)
EXTENDS GameSync, Collections_proofs

FrameNo == 0 .. MaxFrame - 1

-----------------------------------------------------------------------------
(* Types                                                                    *)

LEMMA TableFacts ==
    ASSUME NEW f
    PROVE  f \in Table <=> /\ f = [q \in DOMAIN f |-> f[q]]
                           /\ DOMAIN f \subseteq Player
                           /\ \A q \in DOMAIN f : f[q] \in FrameNo
<1>1. ASSUME f \in Table
      PROVE  /\ f = [q \in DOMAIN f |-> f[q]]
             /\ DOMAIN f \subseteq Player
             /\ \A q \in DOMAIN f : f[q] \in FrameNo
  <2>1. PICK Q \in SUBSET Player : f \in [Q -> FrameNo]
    BY <1>1 DEF Table, FrameNo
  <2>. QED  BY <2>1
<1>2. ASSUME f = [q \in DOMAIN f |-> f[q]], DOMAIN f \subseteq Player,
             \A q \in DOMAIN f : f[q] \in FrameNo
      PROVE  f \in Table
  <2>1. f \in [DOMAIN f -> FrameNo]
    BY <1>2
  <2>. QED  BY <1>2, <2>1 DEF Table, FrameNo
<1>. QED  BY <1>1, <1>2

LEMMA OverTable ==
    ASSUME NEW new \in Table, NEW old \in Table
    PROVE  Over(new, old) \in Table
<1>1. /\ DOMAIN new \subseteq Player /\ DOMAIN old \subseteq Player
      /\ \A q \in DOMAIN new : new[q] \in FrameNo
      /\ \A q \in DOMAIN old : old[q] \in FrameNo
  BY TableFacts
<1>2. DOMAIN Over(new, old) \subseteq Player
  BY <1>1, OverFacts
<1>3. ASSUME NEW q \in DOMAIN Over(new, old) PROVE Over(new, old)[q] \in FrameNo
  <2>1. CASE q \in DOMAIN new
    BY <1>1, <2>1, OverFacts
  <2>2. CASE q \in DOMAIN old \ DOMAIN new
    <3>1. Over(new, old)[q] = old[q]
      BY <2>2 DEF Over
    <3>. QED  BY <1>1, <2>2, <3>1
  <2>. QED  BY <2>1, <2>2, OverFacts
<1>4. Over(new, old) = [q \in DOMAIN Over(new, old) |-> Over(new, old)[q]]
  BY DEF Over
<1>. QED  BY <1>2, <1>3, <1>4, TableFacts

\* What receive_remote_updates takes of a player is one of the states that came, the
\* last one.
LEMMA LastOfFacts ==
    ASSUME NEW states \in Seq(State), NEW p, NEW q \in Others(p, states)
    PROVE  /\ q # p /\ q \in Player
           /\ \E i \in DOMAIN states :
                 /\ states[i].from = q
                 /\ LastOf(q, states) = states[i].frame
                 /\ \A j \in DOMAIN states : states[j].from = q => j <= i
<1>1. DOMAIN states = 1 .. Len(states) /\ Len(states) \in Nat
  BY LenProperties
<1>. DEFINE I == {i \in 1 .. Len(states) : states[i].from = q}
<1>2. I \in SUBSET (0 .. Len(states)) /\ I # {}
  <2>1. I # {}
    BY <1>1 DEF Others, Range
  <2>2. I \in SUBSET (0 .. Len(states))
    BY <1>1
  <2>. QED  BY <2>1, <2>2
<1>3. LastOf(q, states) = states[Max(I)].frame
  BY <1>2 DEF LastOf, SelectLastInSeq
<1>4. Max(I) \in I /\ \A j \in I : Max(I) >= j
  <2>. HIDE DEF I
  <2>. QED  BY <1>1, <1>2, MaxFacts
<1>5. \A i \in DOMAIN states : states[i] \in State
  BY <1>1, ElementOfSeq
<1>6. q # p /\ q \in Player
  BY <1>1, <1>4, <1>5 DEF Others, State
<1>7. \A j \in DOMAIN states : states[j].from = q => j <= Max(I)
  <2>1. \A j \in DOMAIN states : states[j].from = q => j \in I
    BY <1>1
  <2>2. I \subseteq Nat
    BY <1>1
  <2>. HIDE DEF I
  <2>. QED  BY <1>4, <2>1, <2>2
<1>. QED  BY <1>1, <1>3, <1>4, <1>6, <1>7

LEMMA UpdatesTable ==
    ASSUME NEW states \in Seq(State), NEW p
    PROVE  [q \in Others(p, states) |-> LastOf(q, states)] \in Table
<1>. DEFINE f == [q \in Others(p, states) |-> LastOf(q, states)]
<1>1. ASSUME NEW q \in Others(p, states)
      PROVE  q \in Player /\ LastOf(q, states) \in FrameNo
  <2>1. PICK i \in DOMAIN states : LastOf(q, states) = states[i].frame
    BY LastOfFacts
  <2>2. states[i] \in State
    BY ElementOfSeq, LenProperties
  <2>. QED  BY <2>1, <2>2, LastOfFacts DEF State, FrameNo
<1>2. f \in [Others(p, states) -> FrameNo] /\ Others(p, states) \in SUBSET Player
  BY <1>1
<1>. QED  BY <1>2 DEF Table, FrameNo

LEMMA GameInitType == Init => GameTypeOK
<1>. SUFFICES ASSUME Init PROVE GameTypeOK
  OBVIOUS
<1>1. << >> \in Table
  <2>1. << >> \in [{} -> FrameNo] /\ {} \in SUBSET Player
    OBVIOUS
  <2>. QED  BY <2>1 DEF Table, FrameNo
<1>2. target \in [Player -> Player]
  BY DEF Init, Pairings
<1>. QED  BY <1>1, <1>2, GameAssumption DEF Init, GameTypeOK

LEMMA RanType ==
    ASSUME GameTypeOK, NEW p \in Player, NEW system, Ran(p, system)
    PROVE  todo' \in [Player -> SUBSET System]
BY DEF GameTypeOK, Ran

LEMMA SyncType ==
    ASSUME GameTypeOK, NEW p \in Player, SyncLocalState(p)
    PROVE  GameTypeOK'
<1>1. /\ frame[p] \in FrameNo /\ frame[p] + 1 \in 0 .. MaxFrame
      /\ outgoing[p] \in Seq(FrameNo) /\ Len(outgoing[p]) < OutCapacity
      /\ Len(outgoing[p]) \in Nat /\ OutCapacity \in Nat
  BY GameAssumption, LenProperties DEF GameTypeOK, SyncLocalState, FrameNo
<1>2. /\ Append(outgoing[p], frame[p]) \in Seq(FrameNo)
      /\ Len(Append(outgoing[p], frame[p])) = Len(outgoing[p]) + 1
  BY <1>1, AppendProperties
<1>3. /\ outgoing' = [outgoing EXCEPT ![p] = Append(outgoing[p], frame[p])]
      /\ frame' = [frame EXCEPT ![p] = frame[p] + 1]
      /\ UNCHANGED <<target, net, unsent, incoming, remote, before, shown>>
  BY DEF SyncLocalState
<1>4. todo' \in [Player -> SUBSET System]
  BY RanType DEF SyncLocalState
<1>5. outgoing' \in [Player -> Seq(FrameNo)] /\ frame' \in [Player -> 0 .. MaxFrame]
  BY <1>1, <1>2, <1>3 DEF GameTypeOK, FrameNo
<1>6. \A r \in Player : Len(outgoing'[r]) <= OutCapacity /\ Len(incoming'[r]) <= InCapacity
  BY <1>1, <1>2, <1>3 DEF GameTypeOK
<1>. QED  BY <1>3, <1>4, <1>5, <1>6 DEF GameTypeOK, FrameNo

LEMMA ReceiveUpdatesType ==
    ASSUME GameTypeOK, NEW p \in Player, ReceiveRemoteUpdates(p)
    PROVE  GameTypeOK'
<1>. DEFINE updates == [q \in Others(p, incoming[p]) |-> LastOf(q, incoming[p])]
<1>1. incoming[p] \in Seq(State) /\ remote[p] \in Table
  BY DEF GameTypeOK
<1>2. Over(updates, remote[p]) \in Table
  BY <1>1, UpdatesTable, OverTable
<1>3. /\ remote' = [remote EXCEPT ![p] = Over(updates, remote[p])]
      /\ incoming' = [incoming EXCEPT ![p] = << >>]
      /\ UNCHANGED <<target, frame, outgoing, net, unsent, before, shown>>
  BY DEF ReceiveRemoteUpdates
<1>. HIDE DEF updates
<1>4. todo' \in [Player -> SUBSET System]
  BY RanType DEF ReceiveRemoteUpdates
<1>5. remote' \in [Player -> Table] /\ incoming' \in [Player -> Seq(State)]
  BY <1>2, <1>3 DEF GameTypeOK
<1>6. \A r \in Player : Len(incoming'[r]) <= InCapacity
  BY <1>3, GameAssumption DEF GameTypeOK
<1>. QED  BY <1>3, <1>4, <1>5, <1>6 DEF GameTypeOK

LEMMA UpdateType ==
    ASSUME GameTypeOK, NEW p \in Player, UpdateRemotePlayerTransforms(p)
    PROVE  GameTypeOK'
<1>1. Over(remote[p], shown[p]) \in Table
  BY OverTable DEF GameTypeOK
<1>2. todo' \in [Player -> SUBSET System]
  BY RanType DEF UpdateRemotePlayerTransforms
<1>. QED  BY <1>1, <1>2 DEF UpdateRemotePlayerTransforms, GameTypeOK

LEMMA SendType ==
    ASSUME GameTypeOK, NEW p \in Player, SendGameState(p)
    PROVE  GameTypeOK'
<1>1. outgoing[p] \in Seq(FrameNo) /\ outgoing[p] # << >>
  BY DEF GameTypeOK, FrameNo, SendGameState
<1>2. /\ Head(outgoing[p]) \in FrameNo
      /\ Tail(outgoing[p]) \in Seq(FrameNo)
      /\ Len(Tail(outgoing[p])) = Len(outgoing[p]) - 1
      /\ Len(outgoing[p]) \in Nat
  BY <1>1, HeadTailProperties, LenProperties
<1>3. Packed(p, Head(outgoing[p])) \subseteq Datagram
  BY <1>2 DEF Packed, Datagram, GameTypeOK, FrameNo
<1>4. /\ outgoing' = [outgoing EXCEPT ![p] = Tail(outgoing[p])]
      /\ \/ net' = net \union Packed(p, Head(outgoing[p])) /\ unsent' = unsent
         \/ unsent' = unsent \union Packed(p, Head(outgoing[p])) /\ net' = net
      /\ UNCHANGED <<target, frame, todo, incoming, remote, before, shown>>
  BY DEF SendGameState
<1>5. \A r \in Player : Len(outgoing'[r]) <= OutCapacity
  BY <1>2, <1>4, GameAssumption DEF GameTypeOK
<1>6. /\ outgoing' \in [Player -> Seq(FrameNo)]
      /\ net' \subseteq Datagram /\ unsent' \subseteq Datagram
  BY <1>2, <1>3, <1>4 DEF GameTypeOK, FrameNo
<1>. QED  BY <1>4, <1>5, <1>6 DEF GameTypeOK, FrameNo

LEMMA ReceivePacketType ==
    ASSUME GameTypeOK, NEW p \in Player, ReceivePacket(p)
    PROVE  GameTypeOK'
<1>1. PICK d \in net :
         incoming' = [incoming EXCEPT
                         ![p] = Append(incoming[p], [from |-> d.from, frame |-> d.frame])]
  BY DEF ReceivePacket
<1>. DEFINE s == [from |-> d.from, frame |-> d.frame]
<1>2. s \in State /\ incoming[p] \in Seq(State)
  BY DEF GameTypeOK, Datagram, State
<1>3. /\ Append(incoming[p], s) \in Seq(State)
      /\ Len(Append(incoming[p], s)) = Len(incoming[p]) + 1
      /\ Len(incoming[p]) \in Nat /\ Len(incoming[p]) < InCapacity
  BY <1>2, AppendProperties, LenProperties DEF ReceivePacket
<1>4. /\ UNCHANGED <<target, frame, todo, outgoing, net, unsent, remote, before, shown>>
      /\ incoming' = [incoming EXCEPT ![p] = Append(incoming[p], s)]
  BY <1>1 DEF ReceivePacket
<1>. HIDE DEF s
<1>5. \A r \in Player : Len(incoming'[r]) <= InCapacity
  BY <1>3, <1>4, GameAssumption DEF GameTypeOK
<1>6. incoming' \in [Player -> Seq(State)]
  BY <1>3, <1>4 DEF GameTypeOK
<1>. QED  BY <1>4, <1>5, <1>6 DEF GameTypeOK

LEMMA GameNextType == GameTypeOK /\ [Next]_vars => GameTypeOK'
<1>. SUFFICES ASSUME GameTypeOK, [Next]_vars PROVE GameTypeOK'
  OBVIOUS
<1>1. ASSUME NEW p \in Player, SyncBeyondBound(p) PROVE GameTypeOK'
  BY <1>1, RanType DEF SyncBeyondBound, GameTypeOK
<1>2. ASSUME NEW p \in Player, NextFrame(p) PROVE GameTypeOK'
  BY <1>2 DEF NextFrame, GameTypeOK
<1>3. CASE UNCHANGED vars
  BY <1>3 DEF vars, GameTypeOK
<1>. QED
  BY <1>1, <1>2, <1>3, SyncType, ReceiveUpdatesType, UpdateType, SendType,
     ReceivePacketType DEF Next

-----------------------------------------------------------------------------
(* What was received was sent                                               *)

Sent(from, to, n) == [from |-> from, to |-> to, frame |-> n] \in net

\* PartnersOnly, of the states in a table and of those that are still in a channel.
ReceivedOK ==
    /\ \A p \in Player : \A i \in DOMAIN incoming[p] :
          Sent(incoming[p][i].from, p, incoming[p][i].frame)
    /\ \A p \in Player : \A q \in DOMAIN remote[p] : q # p /\ Sent(q, p, remote[p][q])

LEMMA ReceiveUpdatesReceived ==
    ASSUME GameTypeOK, ReceivedOK, NEW p \in Player, ReceiveRemoteUpdates(p)
    PROVE  ReceivedOK'
<1>. DEFINE updates == [q \in Others(p, incoming[p]) |-> LastOf(q, incoming[p])]
<1>1. /\ remote' = [remote EXCEPT ![p] = Over(updates, remote[p])]
      /\ incoming' = [incoming EXCEPT ![p] = << >>]
      /\ net' = net
      /\ remote \in [Player -> Table] /\ incoming \in [Player -> Seq(State)]
  BY DEF ReceiveRemoteUpdates, GameTypeOK
<1>2. ASSUME NEW q \in DOMAIN updates
      PROVE  q # p /\ Sent(q, p, updates[q])
  <2>1. /\ q # p
        /\ \E i \in DOMAIN incoming[p] :
              incoming[p][i].from = q /\ updates[q] = incoming[p][i].frame
    BY <1>1, LastOfFacts
  <2>. QED  BY <2>1 DEF ReceivedOK
<1>. HIDE DEF updates
<1>3. ASSUME NEW q \in DOMAIN remote'[p]
      PROVE  q # p /\ Sent(q, p, remote'[p][q])
  <2>1. remote'[p] = Over(updates, remote[p])
    BY <1>1
  <2>2. CASE q \in DOMAIN updates
    <3>1. remote'[p][q] = updates[q]
      BY <2>1, <2>2 DEF Over
    <3>. QED  BY <1>2, <2>2, <3>1
  <2>3. CASE q \notin DOMAIN updates
    <3>1. q \in DOMAIN remote[p] /\ remote'[p][q] = remote[p][q]
      BY <2>1, <2>3 DEF Over
    <3>. QED  BY <3>1 DEF ReceivedOK
  <2>. QED  BY <2>2, <2>3
<1>4. \A r \in Player : \A q \in DOMAIN remote'[r] : q # r /\ Sent(q, r, remote'[r][q])
  BY <1>1, <1>3 DEF ReceivedOK
<1>5. \A r \in Player : \A i \in DOMAIN incoming'[r] :
         Sent(incoming'[r][i].from, r, incoming'[r][i].frame)
  BY <1>1 DEF ReceivedOK
<1>. QED  BY <1>1, <1>4, <1>5 DEF ReceivedOK, Sent

LEMMA ReceivePacketReceived ==
    ASSUME GameTypeOK, ReceivedOK, NEW p \in Player, ReceivePacket(p)
    PROVE  ReceivedOK'
<1>1. PICK d \in net :
         /\ d.to = p
         /\ incoming' = [incoming EXCEPT
                            ![p] = Append(incoming[p], [from |-> d.from, frame |-> d.frame])]
  BY DEF ReceivePacket
<1>. DEFINE s == [from |-> d.from, frame |-> d.frame]
            n == Len(incoming[p])
<1>2. s \in State /\ incoming[p] \in Seq(State) /\ incoming \in [Player -> Seq(State)]
  BY DEF GameTypeOK, Datagram, State
<1>3. Sent(s.from, p, s.frame)
  <2>1. d = [from |-> d.from, to |-> p, frame |-> d.frame]
    BY <1>1 DEF GameTypeOK, Datagram
  <2>. QED  BY <2>1 DEF Sent
<1>4. /\ n \in Nat
      /\ DOMAIN incoming[p] = 1 .. n /\ DOMAIN incoming'[p] = 1 .. n + 1
      /\ \A i \in 1 .. n : incoming'[p][i] = incoming[p][i]
      /\ incoming'[p][n + 1] = s
  <2>1. incoming'[p] = Append(incoming[p], s)
    BY <1>1, <1>2
  <2>. HIDE DEF s
  <2>. QED  BY <1>2, <2>1, AppendProperties, LenProperties
<1>. HIDE DEF s, n
<1>5. \A i \in DOMAIN incoming'[p] : Sent(incoming'[p][i].from, p, incoming'[p][i].frame)
  <2>. TAKE i \in DOMAIN incoming'[p]
  <2>1. CASE i \in 1 .. n
    BY <1>4, <2>1 DEF ReceivedOK
  <2>2. CASE i = n + 1
    BY <1>3, <1>4, <2>2
  <2>. QED  BY <1>4, <2>1, <2>2
<1>6. ASSUME NEW r \in Player
      PROVE  \A i \in DOMAIN incoming'[r] :
                Sent(incoming'[r][i].from, r, incoming'[r][i].frame)
  <2>1. CASE r = p
    BY <1>5, <2>1
  <2>2. CASE r # p
    <3>1. incoming'[r] = incoming[r]
      BY <1>1, <1>2, <2>2
    <3>. QED  BY <3>1 DEF ReceivedOK
  <2>. QED  BY <2>1, <2>2
<1>7. net' = net /\ remote' = remote
  BY DEF ReceivePacket
<1>. QED  BY <1>6, <1>7 DEF ReceivedOK, Sent

\* In all other steps datagrams are sent at most, and nothing is received.
LEMMA ReceivedNext == GameTypeOK /\ ReceivedOK /\ [Next]_vars => ReceivedOK'
<1>. SUFFICES ASSUME GameTypeOK, ReceivedOK, [Next]_vars PROVE ReceivedOK'
  OBVIOUS
<1>1. ASSUME incoming' = incoming, remote' = remote, net \subseteq net'
      PROVE  ReceivedOK'
  BY <1>1 DEF ReceivedOK, Sent
<1>2. ASSUME NEW p \in Player,
             \/ SyncLocalState(p) \/ SyncBeyondBound(p)
             \/ UpdateRemotePlayerTransforms(p) \/ NextFrame(p) \/ SendGameState(p)
      PROVE  ReceivedOK'
  BY <1>1, <1>2 DEF SyncLocalState, SyncBeyondBound, UpdateRemotePlayerTransforms,
     NextFrame, SendGameState
<1>3. CASE UNCHANGED vars
  BY <1>1, <1>3 DEF vars
<1>. QED
  BY <1>2, <1>3, ReceiveUpdatesReceived, ReceivePacketReceived DEF Next

-----------------------------------------------------------------------------
(* What was taken is sent                                                   *)

LEMMA SyncSent ==
    ASSUME GameTypeOK, EveryStateSent, NEW p \in Player, SyncLocalState(p)
    PROVE  EveryStateSent'
<1>1. /\ outgoing[p] \in Seq(FrameNo) /\ frame[p] \in FrameNo
      /\ outgoing \in [Player -> Seq(FrameNo)]
      /\ frame \in [Player -> 0 .. MaxFrame]
  BY GameAssumption DEF GameTypeOK, SyncLocalState, FrameNo
<1>2. /\ outgoing' = [outgoing EXCEPT ![p] = Append(outgoing[p], frame[p])]
      /\ frame' = [frame EXCEPT ![p] = frame[p] + 1]
      /\ UNCHANGED <<target, net, unsent>>
  BY DEF SyncLocalState
<1>3. Range(outgoing'[p]) = Range(outgoing[p]) \union {frame[p]}
  <2>1. outgoing'[p] = Append(outgoing[p], frame[p])
    BY <1>1, <1>2
  <2>2. /\ Len(outgoing[p]) \in Nat /\ DOMAIN outgoing[p] = 1 .. Len(outgoing[p])
        /\ DOMAIN outgoing'[p] = 1 .. Len(outgoing[p]) + 1
        /\ \A i \in 1 .. Len(outgoing[p]) : outgoing'[p][i] = outgoing[p][i]
        /\ outgoing'[p][Len(outgoing[p]) + 1] = frame[p]
    BY <1>1, <2>1, AppendProperties, LenProperties
  <2>. QED  BY <2>2 DEF Range
<1>. SUFFICES ASSUME NEW r \in Player, NEW n \in FrameNo, n < frame'[r]
     PROVE  \/ n \in Range(outgoing'[r])
            \/ [from |-> r, to |-> target[r], frame |-> n] \in net \union unsent
  BY <1>2 DEF EveryStateSent, FrameNo
<1>4. CASE r = p
  <2>1. n < frame[p] \/ n = frame[p]
    BY <1>1, <1>2, <1>4 DEF FrameNo
  <2>. QED  BY <1>3, <1>4, <2>1 DEF EveryStateSent, FrameNo
<1>5. CASE r # p
  BY <1>1, <1>2, <1>5 DEF EveryStateSent, FrameNo
<1>. QED  BY <1>4, <1>5

LEMMA SendSent ==
    ASSUME IsPacket, GameTypeOK, EveryStateSent, NEW p \in Player, SendGameState(p)
    PROVE  EveryStateSent'
<1>. DEFINE d == [from |-> p, to |-> target[p], frame |-> Head(outgoing[p])]
<1>1. /\ outgoing[p] \in Seq(FrameNo) /\ outgoing[p] # << >>
      /\ outgoing \in [Player -> Seq(FrameNo)]
  BY DEF GameTypeOK, SendGameState, FrameNo
<1>2. /\ outgoing' = [outgoing EXCEPT ![p] = Tail(outgoing[p])]
      /\ net' \union unsent' = net \union unsent \union {d}
      /\ UNCHANGED <<target, frame>>
  BY DEF SendGameState, Packed
<1>3. Range(outgoing[p]) \subseteq Range(outgoing'[p]) \union {Head(outgoing[p])}
  <2>. DEFINE n == Len(outgoing[p])
  <2>1. /\ n \in Nat /\ DOMAIN outgoing[p] = 1 .. n
        /\ DOMAIN Tail(outgoing[p]) = 1 .. n - 1
        /\ \A i \in 1 .. n - 1 : Tail(outgoing[p])[i] = outgoing[p][i + 1]
        /\ Head(outgoing[p]) = outgoing[p][1]
    BY <1>1, HeadTailProperties, LenProperties
  <2>2. outgoing'[p] = Tail(outgoing[p])
    BY <1>1, <1>2
  <2>3. ASSUME NEW i \in 1 .. n
        PROVE  outgoing[p][i] \in Range(outgoing'[p]) \union {Head(outgoing[p])}
    <3>1. CASE i = 1
      BY <2>1, <3>1
    <3>2. CASE i # 1
      <4>1. i - 1 \in 1 .. n - 1 /\ (i - 1) + 1 = i
        BY <2>1, <3>2
      <4>. HIDE DEF n
      <4>2. outgoing[p][i] = Tail(outgoing[p])[i - 1] /\ i - 1 \in DOMAIN Tail(outgoing[p])
        BY <2>1, <4>1
      <4>. QED  BY <2>2, <4>2 DEF Range
    <3>. QED  BY <3>1, <3>2
  <2>. QED  BY <2>1, <2>3 DEF Range
<1>. SUFFICES ASSUME NEW r \in Player, NEW n \in FrameNo, n < frame[r]
     PROVE  \/ n \in Range(outgoing'[r])
            \/ [from |-> r, to |-> target[r], frame |-> n] \in net' \union unsent'
  BY <1>2 DEF EveryStateSent, FrameNo
<1>4. \/ n \in Range(outgoing[r])
      \/ [from |-> r, to |-> target[r], frame |-> n] \in net \union unsent
  BY DEF EveryStateSent, FrameNo
<1>5. CASE r = p
  BY <1>2, <1>3, <1>4, <1>5
<1>6. CASE r # p
  BY <1>1, <1>2, <1>4, <1>6
<1>. QED  BY <1>5, <1>6

LEMMA SentNext ==
    ASSUME IsPacket
    PROVE  GameTypeOK /\ EveryStateSent /\ [Next]_vars => EveryStateSent'
<1>. SUFFICES ASSUME GameTypeOK, EveryStateSent, [Next]_vars PROVE EveryStateSent'
  OBVIOUS
<1>1. ASSUME UNCHANGED <<target, frame, outgoing, net, unsent>> PROVE EveryStateSent'
  BY <1>1 DEF EveryStateSent
<1>2. ASSUME NEW p \in Player,
             \/ SyncBeyondBound(p) \/ ReceiveRemoteUpdates(p)
             \/ UpdateRemotePlayerTransforms(p) \/ NextFrame(p) \/ ReceivePacket(p)
      PROVE  EveryStateSent'
  BY <1>1, <1>2 DEF SyncBeyondBound, ReceiveRemoteUpdates, UpdateRemotePlayerTransforms,
     NextFrame, ReceivePacket
<1>3. CASE UNCHANGED vars
  BY <1>1, <1>3 DEF vars
<1>. QED  BY <1>2, <1>3, SyncSent, SendSent DEF Next

-----------------------------------------------------------------------------
(* What was received is shown                                               *)

\* ShownInTime, with what holds within a frame: the table is what it was at its
\* beginning until the updates are received, and the avatars show one of the two
\* once they have been moved.  Only players in the table have avatars.
ShownOK ==
    \A p \in Player :
       /\ DOMAIN shown[p] \subseteq DOMAIN remote[p]
       /\ "receive" \in todo[p] => remote[p] = before[p]
       /\ "update" \notin todo[p] => shown[p] \in {before[p], remote[p]}

LEMMA RanFacts ==
    ASSUME GameTypeOK, NEW p \in Player, NEW system, Ran(p, system)
    PROVE  /\ system \in todo[p]
           /\ todo'[p] = todo[p] \ {system}
           /\ \A r \in Player \ {p} : todo'[r] = todo[r]
BY DEF GameTypeOK, Ran

LEMMA ReceiveUpdatesShown ==
    ASSUME GameTypeOK, ShownOK, NEW p \in Player, ReceiveRemoteUpdates(p)
    PROVE  ShownOK'
<1>1. /\ "receive" \in todo[p] /\ todo'[p] = todo[p] \ {"receive"}
      /\ \A r \in Player \ {p} : todo'[r] = todo[r]
  BY RanFacts DEF ReceiveRemoteUpdates
<1>2. /\ DOMAIN remote[p] \subseteq DOMAIN remote'[p]
      /\ \A r \in Player \ {p} : remote'[r] = remote[r]
      /\ shown' = shown /\ before' = before
  BY DEF ReceiveRemoteUpdates, GameTypeOK, Over
<1>3. remote[p] = before[p]
  BY <1>1 DEF ShownOK
<1>. SUFFICES ASSUME NEW r \in Player
     PROVE  /\ DOMAIN shown'[r] \subseteq DOMAIN remote'[r]
            /\ "receive" \in todo'[r] => remote'[r] = before'[r]
            /\ "update" \notin todo'[r] => shown'[r] \in {before'[r], remote'[r]}
  BY DEF ShownOK
<1>4. CASE r = p
  BY <1>1, <1>2, <1>3, <1>4 DEF ShownOK
<1>5. CASE r # p
  BY <1>1, <1>2, <1>5 DEF ShownOK
<1>. QED  BY <1>4, <1>5

LEMMA UpdateShown ==
    ASSUME GameTypeOK, ShownOK, NEW p \in Player, UpdateRemotePlayerTransforms(p)
    PROVE  ShownOK'
<1>1. /\ todo'[p] = todo[p] \ {"update"}
      /\ \A r \in Player \ {p} : todo'[r] = todo[r]
  BY RanFacts DEF UpdateRemotePlayerTransforms
<1>2. /\ shown'[p] = Over(remote[p], shown[p])
      /\ \A r \in Player \ {p} : shown'[r] = shown[r]
      /\ remote' = remote /\ before' = before
  BY DEF UpdateRemotePlayerTransforms, GameTypeOK
<1>3. shown'[p] = remote[p]
  <2>1. DOMAIN shown[p] \subseteq DOMAIN remote[p]
    BY DEF ShownOK
  <2>2. remote[p] = [q \in DOMAIN remote[p] |-> remote[p][q]]
    BY TableFacts DEF GameTypeOK
  <2>. QED  BY <1>2, <2>1, <2>2 DEF Over
<1>. SUFFICES ASSUME NEW r \in Player
     PROVE  /\ DOMAIN shown'[r] \subseteq DOMAIN remote'[r]
            /\ "receive" \in todo'[r] => remote'[r] = before'[r]
            /\ "update" \notin todo'[r] => shown'[r] \in {before'[r], remote'[r]}
  BY DEF ShownOK
<1>4. CASE r = p
  BY <1>1, <1>2, <1>3, <1>4 DEF ShownOK
<1>5. CASE r # p
  BY <1>1, <1>2, <1>5 DEF ShownOK
<1>. QED  BY <1>4, <1>5

LEMMA NextFrameShown ==
    ASSUME GameTypeOK, ShownOK, NEW p \in Player, NextFrame(p)
    PROVE  ShownOK'
<1>1. /\ todo'[p] = System /\ before'[p] = remote[p]
      /\ \A r \in Player \ {p} : todo'[r] = todo[r] /\ before'[r] = before[r]
      /\ remote' = remote /\ shown' = shown
  BY DEF NextFrame, GameTypeOK
<1>. QED  BY <1>1 DEF ShownOK, System

LEMMA ShownNext == GameTypeOK /\ ShownOK /\ [Next]_vars => ShownOK'
<1>. SUFFICES ASSUME GameTypeOK, ShownOK, [Next]_vars PROVE ShownOK'
  OBVIOUS
<1>1. ASSUME NEW p \in Player, SyncLocalState(p) \/ SyncBeyondBound(p)
      PROVE  ShownOK'
  <2>1. Ran(p, "sync") /\ UNCHANGED <<remote, before, shown>>
    BY <1>1 DEF SyncLocalState, SyncBeyondBound
  <2>2. \A r \in Player :
           /\ "receive" \in todo'[r] <=> "receive" \in todo[r]
           /\ "update" \in todo'[r] <=> "update" \in todo[r]
    BY <2>1, RanFacts
  <2>. QED  BY <2>1, <2>2 DEF ShownOK
<1>2. ASSUME UNCHANGED <<todo, remote, before, shown>> PROVE ShownOK'
  BY <1>2 DEF ShownOK
<1>3. ASSUME NEW p \in Player, SendGameState(p) \/ ReceivePacket(p) PROVE ShownOK'
  BY <1>2, <1>3 DEF SendGameState, ReceivePacket
<1>4. CASE UNCHANGED vars
  BY <1>2, <1>4 DEF vars
<1>. QED
  BY <1>1, <1>3, <1>4, ReceiveUpdatesShown, UpdateShown, NextFrameShown DEF Next

-----------------------------------------------------------------------------
(* Theorems                                                                 *)

LEMMA GameInvariance == Spec => [](GameTypeOK /\ ReceivedOK /\ ShownOK)
<1>1. Init => GameTypeOK /\ ReceivedOK /\ ShownOK
  <2>. SUFFICES ASSUME Init PROVE GameTypeOK /\ ReceivedOK /\ ShownOK
    OBVIOUS
  <2>1. ReceivedOK
    BY DEF Init, ReceivedOK
  <2>2. ShownOK
    BY DEF Init, ShownOK, System
  <2>. QED  BY <2>1, <2>2, GameInitType
<1>. QED  BY <1>1, GameNextType, ReceivedNext, ShownNext, PTL DEF Spec

\* The channels stay within their capacities, and the tables hold states of players.
THEOREM GameTypeCorrect == Spec => []GameTypeOK
<1>. QED  BY GameInvariance, PTL

\* The table of remote players holds only what another player sent to this one, even
\* where datagrams are lost, repeated and reordered, and a player's own come back.
THEOREM PartnersStay == Spec => []PartnersOnly
<1>1. ReceivedOK => PartnersOnly
  BY DEF ReceivedOK, PartnersOnly, Sent
<1>. QED  BY <1>1, GameInvariance, PTL

\* In whichever order the systems of a frame run, the avatars are at most one frame
\* behind.
THEOREM ShownStaysInTime == Spec => []ShownInTime
<1>1. ShownOK => ShownInTime
  BY DEF ShownOK, ShownInTime
<1>. QED  BY <1>1, GameInvariance, PTL

\* With open ids of the length that the packets are made for, a state is lost on its
\* way to the network only where the socket refuses to send it.
THEOREM StatesStaySent ==
    ASSUME IsPacket
    PROVE  Spec => []EveryStateSent
<1>1. Init => EveryStateSent
  BY GameAssumption DEF Init, EveryStateSent
<1>2. GameTypeOK /\ EveryStateSent /\ [Next]_vars => EveryStateSent'
  BY SentNext
<1>. QED  BY <1>1, <1>2, GameInvariance, PTL DEF Spec

=============================================================================
