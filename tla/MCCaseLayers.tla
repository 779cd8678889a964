----------------------------- MODULE MCCaseLayers -----------------------------
(* Instances of CaseLayers for TLC. *)
EXTENDS CaseLayers, TLC

Symmetry == Permutations(Chat) \cup Permutations(Case) \cup Permutations(Turn)

NotCrossed == ~crossed
=============================================================================
