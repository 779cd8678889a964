----------------------------- MODULE MCLiveTurns -----------------------------
(* Instances of LiveTurns for TLC. *)
EXTENDS LiveTurns, TLC

Symmetry ==
    Permutations(Chat) \cup Permutations(Conn \ Chat) \cup Permutations(Stream)
        \cup Permutations(Turn)
=============================================================================
