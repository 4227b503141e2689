----------------------------- MODULE JobRegistry ------------------------------
(***************************************************************************)
(* What the registries of background jobs share: a dictionary in the order *)
(* of insertion, from which the oldest finished jobs are dropped.          *)
(***************************************************************************)
EXTENDS Naturals, FiniteSets

\* What is left of seq at these places, in its order.
Rank(place, places) == Cardinality({p \in places : p < place})
AtPlaces(seq, places) ==
    [n \in 1..Cardinality(places) |-> seq[CHOOSE p \in places : Rank(p, places) = n - 1]]

\* All but the last `keep` of the finished ones are surplus.
Surplus(finished, keep) ==
    {i \in finished : Cardinality({k \in finished : k > i}) >= keep}
Pruned(seq, finished, keep) == AtPlaces(seq, DOMAIN seq \ Surplus(finished, keep))
=============================================================================
