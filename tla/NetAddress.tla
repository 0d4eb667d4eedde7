----------------------------- MODULE NetAddress -----------------------------
(***************************************************************************)
(* Addresses of players (relay/net.address.mjs) and the texts that relays  *)
(* and buffers are kept by (relay/relay.entry.mjs,                         *)
(* relay/dynamic.relaying.mjs).  A text is a sequence of its characters, a *)
(* digit is the number it stands for.                                      *)
(***************************************************************************)
EXTENDS Utils

CONSTANTS
    Colon, At, Arrow        \* the characters : @ >

ASSUME SeparatorsAssumption == Cardinality({Colon, At, Arrow} \ (0..9)) = 3

Equals(a, b) == a.address = b.address /\ a.port = b.port

AddressText(a) == a.address \o << Colon >> \o Decimal[a.port]

\* What a datagram says of its sender, without the family and the size.
FromRinfo(rinfo) == [address |-> rinfo.address, port |-> rinfo.port]

\* Mutant: the port of a relay follows the address of its player at once.
EntryIdTight(address, port) == AddressText(address) \o Decimal[port]

\* RelayEntry.id, which the limits keep their counters by.
EntryId(address, port) == AddressText(address) \o << At >> \o Decimal[port]

\* The key of the buffer for a sender and a relay port.
BufferKey(sender, targetPort) == AddressText(sender) \o << Arrow >> \o Decimal[targetPort]

=============================================================================
