--------------------------- MODULE MCNorayClient ---------------------------
(* Instances of NorayClient for TLC.                                        *)
EXTENDS NorayClient
=============================================================================
