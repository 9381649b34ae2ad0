----------------------------- MODULE MCNodeList -----------------------------
(* Instances of NodeList for TLC. *)
EXTENDS NodeList, TLC

Symmetry == Permutations(Chunks) \cup Permutations(Names)

=============================================================================
