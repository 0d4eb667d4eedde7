------------------------- MODULE MCUDPRelayHandler -------------------------
(* Instances of UDPRelayHandler for TLC.                                    *)
EXTENDS UDPRelayHandler, TLC

\* Addresses and ports are only compared with each other.
Symmetry == Permutations(Address) \union Permutations(Port)
=============================================================================
