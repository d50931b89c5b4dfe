---------------------------- MODULE MC_Shutdown -----------------------------
(* Small instances of Shutdown.                                            *)
EXTENDS Shutdown, TLC

AllFaults == {"clone", "link"}
LostClones == {"clone"}
Symmetry == Permutations(Cpus)
=============================================================================
