------------------------------ MODULE MCTs ------------------------------
(* Instances of the Ts port. *)
EXTENDS TsCa, TLC

Symmetry == Permutations(Handlers) \cup Permutations(Keys) \cup Permutations(Nids)

=============================================================================
