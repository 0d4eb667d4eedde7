---------------------------- MODULE NorayClient ----------------------------
(***************************************************************************)
(* How the game's players find each other through noray                    *)
(* (src/src/network/noray_client.rs, register_udp_socket in                *)
(* packet_handler.rs, run_host and run_joiner in main.rs).  The server is  *)
(* as module Noray has it, as far as its answers go.                       *)
(*                                                                         *)
(* A line of the server may arrive in two parts.  `buf' is what read_line  *)
(* has read: a part of a line, or more than a line.  A read that times out *)
(* loses the part, and the rest is a line of its own later, which no       *)
(* function knows; at the end of the file the part counts as a line.  Each *)
(* function has a BufReader of its own, and what it has read ahead is lost *)
(* when it returns.                                                        *)
(***************************************************************************)
EXTENDS Naturals, Sequences, FiniteSets, SequencesExt

CONSTANTS
    Host,           \* players that host a game
    Joiner,         \* players that join one
    NumPlayers,     \* players of a game, as chosen by its host
    RegisterTries,  \* reads of register_only, 10 in the code
    ConnectTries,   \* reads of connect_to_relay_with_stream, 150 in the code
    NoPlayer,
    Stranger        \* who is behind a port that is not a player's

Player == Host \union Joiner

ASSUME ClientAssumption ==
    /\ Host \intersect Joiner = {}
    /\ {NoPlayer, Stranger} \intersect Player = {} /\ NoPlayer # Stranger
    /\ NumPlayers \in Nat \ {0, 1}
    /\ RegisterTries \in Nat \ {0} /\ ConnectTries \in Nat \ {0}

VARIABLES
    step,       \* what a player is doing
    tries,      \* reads of the current function so far
    got,        \* the ids that register_only has
    peers,      \* the players whose relay ports a player was told, in order
    stream,     \* parts of lines on their way to a player
    buf,        \* parts of lines that the current BufReader holds
    open,       \* players whose connection is open
    rinfo,      \* players that the server knows the UDP address of
    pids,       \* players whose datagram with the private id is on its way
    asked,      \* the host that a joiner's connect-relay on its way names
    cut         \* history: lines that a timeout cut in two, by reader

clientVars == <<step, tries, got, peers, stream, buf>>
serverVars == <<open, rinfo, pids, asked>>
setupVars == <<clientVars, serverVars, cut>>

Steps == {"off", "registering", "registered", "waiting", "connecting", "playing", "failed"}

Line(command, of) == [command |-> command, of |-> of]

\* A line as it travels.
Parts(line) == << [line |-> line, part |-> 1], [line |-> line, part |-> 2] >>

SetupInit ==
    /\ step = [p \in Player |-> "off"]
    /\ tries = [p \in Player |-> 0]
    /\ got = [p \in Player |-> {}]
    /\ peers = [p \in Player |-> << >>]
    /\ stream = [p \in Player |-> << >>]
    /\ buf = [p \in Player |-> << >>]
    /\ open = {}
    /\ rinfo = {}
    /\ pids = {}
    /\ asked = [p \in Player |-> NoPlayer]
    /\ cut = [p \in Player |-> {}]

-----------------------------------------------------------------------------
(* Reading lines                                                            *)

Reading(p) == step[p] \in {"registering", "waiting", "connecting"}

Ends(parts) == {k \in DOMAIN parts : parts[k].part = 2}

\* read_line needs more, and the next parts arrive.
Fill(p) ==
    /\ Reading(p)
    /\ Ends(buf[p]) = {}
    /\ \E n \in 1..Len(stream[p]) :
          /\ buf' = [buf EXCEPT ![p] = @ \o SubSeq(stream[p], 1, n)]
          /\ stream' = [stream EXCEPT ![p] = SubSeq(@, n + 1, Len(@))]
    /\ UNCHANGED <<step, tries, got, peers, serverVars, cut>>

\* The line that read_line returns; its end alone is no known command.
FirstLine(p) ==
    IF buf[p][1].part = 1 THEN buf[p][1].line ELSE Line("tail", NoPlayer)

\* Mutant: a new BufReader for every line.
RestLost(p) == << >>

\* What the BufReader holds after that line.
Rest(p) == SubSeq(buf[p], IF buf[p][1].part = 1 THEN 3 ELSE 2, Len(buf[p]))

\* The reads that a function makes; wait_for_connections goes on for ever.
Limit(p) == IF step[p] = "registering" THEN RegisterTries ELSE ConnectTries

\* The function returned and its connection is dropped, with what is unread; the
\* server removes the host.
Leave(p, to) ==
    /\ step' = [step EXCEPT ![p] = to]
    /\ tries' = [tries EXCEPT ![p] = 0]
    /\ got' = [got EXCEPT ![p] = {}]
    /\ buf' = [buf EXCEPT ![p] = << >>]
    /\ stream' = [stream EXCEPT ![p] = << >>]
    /\ open' = open \ {p}
    /\ rinfo' = rinfo \ {p}
    /\ pids' = pids \ {p}

GoOn(p, rest, ids) ==
    /\ tries' = IF step[p] = "waiting" THEN tries ELSE [tries EXCEPT ![p] = @ + 1]
    /\ buf' = [buf EXCEPT ![p] = rest]
    /\ got' = [got EXCEPT ![p] = ids]
    /\ UNCHANGED <<step, stream, open, rinfo, pids>>

\* Mutant: only reads that return something are counted.
NextTryUncounted(p, rest, ids) ==
    IF step[p] # "waiting" /\ tries[p] + 1 = Limit(p) /\ buf[p] # << >>
    THEN Leave(p, "failed")
    ELSE IF buf[p] = << >> THEN UNCHANGED <<clientVars, open, rinfo, pids, peers>>
    ELSE GoOn(p, rest, ids)

\* The function did not get what it waits for.  After the last read it returns an
\* error, and the player's process ends.
NextTry(p, rest, ids) ==
    IF step[p] # "waiting" /\ tries[p] + 1 = Limit(p)
    THEN Leave(p, "failed")
    ELSE GoOn(p, rest, ids)

\* A read that times out.
Timeout(p) ==
    /\ Reading(p)
    /\ Ends(buf[p]) = {}
    /\ p \in open
    /\ NextTry(p, << >>, got[p])
    /\ cut' = IF step[p] = "waiting"
              THEN [cut EXCEPT ![p] = @ \union {part.line : part \in Range(buf[p])}] ELSE cut
    /\ UNCHANGED <<peers, asked>>

\* The connection was closed and everything is read: read_line returns at once.
EndOfFile(p) ==
    /\ Reading(p)
    /\ buf[p] = << >> /\ stream[p] = << >>
    /\ p \notin open
    /\ NextTry(p, << >>, got[p])
    /\ UNCHANGED <<peers, asked, cut>>

\* What a line may be when its end is missing: nothing that is known, or the command
\* with a part of its id, or of its port, which is another port or none.
CutShort(line) ==
    {Line("tail", NoPlayer), Line(line.command, NoPlayer)} \union
    {l \in {Line("connect-relay", Stranger)} : l.command = line.command}

\* The connection was closed in the middle of a line: read_line returns the part.
EndOfLine(p) ==
    /\ Reading(p)
    /\ Len(buf[p]) = 1 /\ buf[p][1].part = 1
    /\ stream[p] = << >>
    /\ p \notin open
    /\ \E line \in CutShort(buf[p][1].line) : buf' = [buf EXCEPT ![p] = Parts(line)]
    /\ UNCHANGED <<step, tries, got, peers, stream, serverVars, cut>>

\* The connection was reset: the read fails, the function returns an error, and the
\* process ends.
ReadError(p) ==
    /\ Reading(p)
    /\ p \notin open
    /\ Leave(p, "failed")
    /\ UNCHANGED <<peers, asked, cut>>

-----------------------------------------------------------------------------
(* Registration                                                             *)

\* The process starts, connects, and sends register-host; the server answers.
Start(p) ==
    /\ step[p] = "off"
    /\ step' = [step EXCEPT ![p] = "registering"]
    /\ open' = open \union {p}
    /\ stream' = [stream EXCEPT ![p] =
          Parts(Line("set-oid", NoPlayer)) \o Parts(Line("set-pid", NoPlayer))]
    /\ UNCHANGED <<tries, got, peers, buf, rinfo, pids, asked, cut>>

\* register_only reads a line, and returns with both ids.
ReadId(p) ==
    /\ step[p] = "registering"
    /\ Ends(buf[p]) # {}
    /\ LET ids == {"set-oid", "set-pid"}
           now == got[p] \union ({FirstLine(p).command} \intersect ids)
       IN  IF now = ids
           THEN /\ step' = [step EXCEPT ![p] = "registered"]
                /\ tries' = [tries EXCEPT ![p] = 0]
                /\ got' = [got EXCEPT ![p] = {}]
                /\ buf' = [buf EXCEPT ![p] = << >>]
                /\ UNCHANGED <<stream, open, rinfo, pids>>
           ELSE NextTry(p, Rest(p), now)
    /\ UNCHANGED <<peers, asked, cut>>

\* register_udp_socket sends the private id once and goes on without an answer.
\* A host then waits for its players, and a joiner sends connect-relay with the id
\* of a host that has shown its id.
RegisterUdp(p) ==
    /\ step[p] = "registered"
    /\ pids' = pids \union {p}
    /\ \/ /\ p \in Host
          /\ step' = [step EXCEPT ![p] = "waiting"]
          /\ UNCHANGED asked
       \/ /\ p \in Joiner
          /\ \E h \in Host :
                /\ step[h] \notin {"off", "registering"}
                /\ asked' = [asked EXCEPT ![p] = h]
          /\ step' = [step EXCEPT ![p] = "connecting"]
    /\ UNCHANGED <<tries, got, peers, stream, buf, open, rinfo, cut>>

\* There is no socket, or it does not send: the player's process ends.
RegisterUdpFails(p) ==
    /\ step[p] = "registered"
    /\ Leave(p, "failed")
    /\ UNCHANGED <<peers, asked, cut>>

\* The datagram arrives, sooner or later or never.
PidArrives(p) ==
    /\ p \in pids
    /\ pids' = pids \ {p}
    /\ rinfo' = IF p \in open THEN rinfo \union {p} ELSE rinfo
    /\ UNCHANGED <<clientVars, open, asked, cut>>

-----------------------------------------------------------------------------
(* Connecting                                                               *)

\* The server answers connect-relay to both players.  The host's connection may be
\* closed, one may have no address, or no port may be left: then the joiner gets
\* an error, which has the command's name as well.
Answer(j) ==
    /\ asked[j] # NoPlayer
    /\ LET h == asked[j]
       IN  \/ /\ {j, h} \subseteq rinfo
              /\ stream' = [stream EXCEPT
                    ![j] = @ \o Parts(Line("connect-relay", h)),
                    ![h] = @ \o Parts(Line("connect-relay", j))]
           \/ stream' = [stream EXCEPT ![j] =
                    IF j \in open THEN @ \o Parts(Line("connect-relay", NoPlayer)) ELSE @]
    /\ asked' = [asked EXCEPT ![j] = NoPlayer]
    /\ UNCHANGED <<step, tries, got, peers, buf, open, rinfo, pids, cut>>

\* wait_for_connections reads a line: a port, or something else.  With enough players the game starts, and the
\* connection is dropped.
ReadPeer(h) ==
    /\ step[h] = "waiting"
    /\ Ends(buf[h]) # {}
    /\ LET line == FirstLine(h)
           now == IF line.command = "connect-relay" /\ line.of # NoPlayer
                  THEN Append(peers[h], line.of) ELSE peers[h]
       IN  /\ peers' = [peers EXCEPT ![h] = now]
           /\ IF Len(now) = NumPlayers - 1
              THEN Leave(h, "playing")
              ELSE NextTry(h, Rest(h), {})
    /\ UNCHANGED <<asked, cut>>

\* connect_to_relay_with_stream reads a line: a port, an error in its place, or
\* something that is neither.
ReadPort(j) ==
    /\ step[j] = "connecting"
    /\ Ends(buf[j]) # {}
    /\ LET line == FirstLine(j)
       IN  \/ /\ line.command # "connect-relay"
              /\ NextTry(j, Rest(j), {})
              /\ UNCHANGED peers
           \/ /\ line = Line("connect-relay", NoPlayer)
              /\ Leave(j, "failed")
              /\ UNCHANGED peers
           \/ /\ line.command = "connect-relay" /\ line.of # NoPlayer
              /\ Leave(j, "playing")
              /\ peers' = [peers EXCEPT ![j] = << line.of >>]
    /\ UNCHANGED <<asked, cut>>

\* Bound: one connection at a time is closed while its player still reads.
OneDisconnect == \A p \in Player \ open : ~Reading(p)

\* The server closes the connection, or ends, or the network fails.  What was not
\* sent by then does not arrive.
Disconnect(p) ==
    /\ p \in open
    /\ OneDisconnect
    /\ open' = open \ {p}
    /\ rinfo' = rinfo \ {p}
    /\ \E n \in 0..Len(stream[p]) : stream' = [stream EXCEPT ![p] = SubSeq(@, 1, n)]
    /\ UNCHANGED <<step, tries, got, peers, buf, pids, asked, cut>>

SetupNext ==
    \/ \E p \in Player :
          \/ Start(p)
          \/ Fill(p) \/ Timeout(p) \/ EndOfFile(p) \/ EndOfLine(p) \/ ReadError(p)
          \/ ReadId(p)
          \/ RegisterUdp(p) \/ RegisterUdpFails(p)
          \/ PidArrives(p)
          \/ Disconnect(p)
    \/ \E h \in Host : ReadPeer(h)
    \/ \E j \in Joiner : Answer(j) \/ ReadPort(j)

\* A joiner's process runs: its reads get something, time out, or end.  What was
\* sent to a host arrives and is read.  Nothing is asked of datagrams, of the
\* server, or of what is sent to a joiner on an open connection.
SetupFairness ==
    /\ \A j \in Joiner :
          WF_setupVars(\/ Fill(j) \/ Timeout(j) \/ EndOfFile(j) \/ EndOfLine(j)
                       \/ ReadId(j) \/ ReadPort(j))
    /\ \A h \in Host : WF_setupVars(Fill(h)) /\ WF_setupVars(ReadPeer(h))

SetupSpec == SetupInit /\ [][SetupNext]_setupVars /\ SetupFairness

-----------------------------------------------------------------------------
(* Properties                                                               *)

\* The line for the host about joiner j is on its way.
Coming(j, h) ==
    \E k \in DOMAIN (buf[h] \o stream[h]) :
        /\ (buf[h] \o stream[h])[k].line = Line("connect-relay", j)
        /\ (buf[h] \o stream[h])[k].part = 1

\* The host no longer waits, or lost the line to a timeout in its middle.
Missed(j, h) ==
    \/ step[h] # "waiting" \/ h \notin open
    \/ Line("connect-relay", j) \in cut[h]

Plays(j, h) == step[j] = "playing" /\ peers[j] = << h >>

\* A joiner that plays is known to its host, or will be: no other line that a host
\* reads, and no other joiner, makes the host lose the line about this one.
JoinersKnown ==
    \A j \in Joiner, h \in Host :
        Plays(j, h) => j \in Range(peers[h]) \/ Coming(j, h) \/ Missed(j, h)

\* The host gets to know a joiner that plays, as long as it waits and its connection
\* holds, however often its reads time out between lines.
HostLearns ==
    \A j \in Joiner, h \in Host :
        Plays(j, h) ~> j \in Range(peers[h]) \/ Missed(j, h)

\* Joining ends, with a game or with an error, whatever the server says or does not
\* say, and also when the connection is closed.
JoinEnds ==
    \A j \in Joiner :
        step[j] \in {"registering", "connecting"} ~>
            step[j] \in {"registered", "playing", "failed"}

=============================================================================
