---------------------------- MODULE RelayLeases ----------------------------
(***************************************************************************)
(* What noray promises its players about relay ports, without tables,      *)
(* sockets, timers or packets: every address has at most one relay port,   *)
(* no port serves two addresses, a granted port never changes while the    *)
(* lease lasts, and a port is granted anew only after it was given back.   *)
(*                                                                         *)
(* UDPRelayHandler is shown to implement this specification.               *)
(***************************************************************************)
CONSTANTS
    Address,    \* remote addresses of the players
    Port,       \* relay ports
    NoPort      \* the lease of an address without a relay

VARIABLES
    lease,      \* the relay port of every address, or NoPort
    available   \* the ports that can be granted

vars == <<lease, available>>

Leased == {lease[a] : a \in Address} \ {NoPort}

Init ==
    /\ lease = [a \in Address |-> NoPort]
    /\ available \in SUBSET Port

\* An address without a lease is granted an available port.  Other available
\* ports may be lost on the way: a promise to players says nothing of them.
Grant(a, p) ==
    /\ lease[a] = NoPort
    /\ p \in available
    /\ lease' = [lease EXCEPT ![a] = p]
    /\ available' \in SUBSET (available \ {p})

\* The leases of some addresses end together and their ports are available.
Revoke(A) ==
    /\ \A a \in A : lease[a] # NoPort
    /\ lease' = [a \in Address |-> IF a \in A THEN NoPort ELSE lease[a]]
    /\ available' = available \union {lease[a] : a \in A}

\* The service closes.
Close ==
    /\ lease' = [a \in Address |-> NoPort]
    /\ available' = {}

Next ==
    \/ \E a \in Address, p \in Port : Grant(a, p)
    \/ \E A \in SUBSET Address : Revoke(A)
    \/ Close

Spec == Init /\ [][Next]_vars

-----------------------------------------------------------------------------
\* No port is leased to two addresses, and no leased port can be granted.
Exclusive ==
    /\ \A a, b \in Address : lease[a] = lease[b] /\ lease[a] # NoPort => a = b
    /\ Leased \intersect available = {}

=============================================================================
