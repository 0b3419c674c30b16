---------------------------- MODULE MCTutorSession ----------------------------
(* Constants and symmetry for checking TutorSession. *)
EXTENDS TutorSession

Symmetry == Permutations(Sids) \cup Permutations(Turns)
=============================================================================
