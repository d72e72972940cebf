------------------------- MODULE MCConsumerDispatch -------------------------
(* Two streams, both of which may be restarted. *)
EXTENDS ConsumerDispatch

Symmetry == Permutations(Stream)
=============================================================================
