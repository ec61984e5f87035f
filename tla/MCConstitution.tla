---------------------------- MODULE MCConstitution ----------------------------
(* Constitution over interchangeable sessions. *)
EXTENDS Constitution, TLC

Symmetry == Permutations(Sessions)
=============================================================================
