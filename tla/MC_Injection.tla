---------------------------- MODULE MC_Injection ----------------------------
(* Small instances of Injection.                                           *)
EXTENDS Injection, TLC

LinkFaults == {"link"}
Symmetry == Permutations(Cpus)
=============================================================================
