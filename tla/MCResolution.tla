----------------------------- MODULE MCResolution -----------------------------
(* Instances of Resolution for TLC. *)
EXTENDS Resolution, TLC

Symmetry == Permutations(Threads)
===============================================================================
