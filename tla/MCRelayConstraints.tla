------------------------- MODULE MCRelayConstraints -------------------------
(* Instances of RelayConstraints for TLC.                                   *)
EXTENDS RelayConstraints, TLC

Symmetry == Permutations(Address) \union Permutations(Port)
=============================================================================
