------------------------------ MODULE MCNoray ------------------------------
(* Instances of Noray for TLC.                                              *)
EXTENDS Noray, TLC

Symmetry ==
    Permutations(Address) \union Permutations(Port) \union
    Permutations(Conn) \union Permutations(Oid)
=============================================================================
