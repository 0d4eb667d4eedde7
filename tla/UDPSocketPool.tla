--------------------------- MODULE UDPSocketPool ---------------------------
(***************************************************************************)
(* The pool of UDP sockets that noray relays through                       *)
(* (src/noray/src/relay/udp.socket.pool.mjs).                              *)
(*                                                                         *)
(* A socket is identified with the port it is bound to: `sockets' is the   *)
(* key set of the map #sockets.  `freePorts' is the array #freePorts; it   *)
(* is used as a stack, so the port given back last is handed out first.    *)
(* The pool does not remember who holds a port: returnPort trusts its      *)
(* caller.                                                                 *)
(***************************************************************************)
EXTENDS Naturals, Sequences, SequencesExt

CONSTANT
    Port        \* port numbers that the deployment may bind

VARIABLES
    sockets,    \* ports with a bound socket
    freePorts   \* stack of ports that are ready to be handed out

PoolTypeOK ==
    /\ sockets \subseteq Port
    /\ freePorts \in Seq(Port)

-----------------------------------------------------------------------------
(* getPort asserts HasFreePort, returns NextPort and leaves Popped.           *)

HasFreePort(free) == Len(free) > 0

PoppedNot(free)    == free           \* mutant: reads the top, does not pop it
NextPortHead(free) == Head(free)     \* mutant: reads the wrong end

NextPort(free) == Last(free)
Popped(free)   == Front(free)

-----------------------------------------------------------------------------
(* returnPort for the port of every entry of `order', one after the other.     *)
(* Whether the port is on the stack already is not checked.                    *)

Returned(free, order) == free \o [i \in DOMAIN order |-> order[i].port]

-----------------------------------------------------------------------------
(* The startup hook calls allocatePort for the configured ports, one after the *)
(* other; a port that cannot be bound is skipped.                              *)

PoolStarted ==
    /\ sockets \in SUBSET Port
    /\ freePorts \in SetToSeqs(sockets)

\* clear: deallocatePort closes the socket of every port of the map and drops
\* the port from the map and from the stack.  The stack only ever holds ports of
\* the map (SocketBacked in UDPRelayHandler), so nothing is left on it.
ClearPool ==
    /\ sockets' = {}
    /\ freePorts' = <<>>

=============================================================================
