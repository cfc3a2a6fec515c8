------------------------------- MODULE MCQueries -------------------------------
(* Instances of Queries for TLC. *)
EXTENDS Queries, TLC

Symmetry == Permutations(Handlers) \cup Permutations(Nids) \cup Permutations(Tasks)

=============================================================================
