------------------------- MODULE MCConnectionTable -------------------------
(* Instances of ConnectionTable for TLC. *)
EXTENDS ConnectionTable, TLC

Symmetry == Permutations(Clients) \cup Permutations(Fds)
=============================================================================
