------------------------------ MODULE MCThreaded ------------------------------
(* Instances of the threaded ports for TLC; the policies are in the cfg files. *)
EXTENDS ThreadedCa, TLC

Symmetry == Permutations(Handlers) \cup Permutations(Nids) \cup Permutations(Keys)

=============================================================================
