------------------------------ MODULE MCDNSCache ------------------------------
(* An instance of DNSCache for TLC. *)
EXTENDS DNSCache, TLC

Symmetry == Permutations(Keys)
===============================================================================
