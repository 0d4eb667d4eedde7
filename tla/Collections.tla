----------------------------- MODULE Collections -----------------------------
(***************************************************************************)
(* Operations of a Map or an array that keep an order, for the repository  *)
(* (repository.mjs) and the tables of the game (sync/receive.rs).          *)
(***************************************************************************)
EXTENDS Naturals, Sequences, SequencesExt

Ascending(places) == \A i, j \in DOMAIN places : i < j => places[i] < places[j]

\* What is left of a sequence when all but the elements at the places K are deleted:
\* a set with one element.
Kept(seq, K) ==
    {[i \in DOMAIN places |-> seq[places[i]]] : places \in {q \in SetToSeqs(K) : Ascending(q)}}

\* The entries of `new', and those of `old' that it says nothing of.
Over(new, old) ==
    [k \in DOMAIN new \union DOMAIN old |-> IF k \in DOMAIN new THEN new[k] ELSE old[k]]

=============================================================================
