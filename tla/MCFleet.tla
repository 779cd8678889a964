------------------------------ MODULE MCFleet ------------------------------
(* Instances of SessionFleet for TLC: the sessions, tabs and tasks are       *)
(* interchangeable, which the safety runs use to explore fewer states.       *)
EXTENDS SessionFleet, TLC

Symmetry == Permutations(Session) \cup Permutations(Task) \cup Permutations(Tab)
=============================================================================
