----------------------------- MODULE MC_UdpFlow -----------------------------
(* Small instances of UdpFlow: two packets to a window, counters up to 3.  *)
EXTENDS UdpFlow, TLC

OneConfig == {[packets |-> 2, both |-> TRUE, idle |-> 2]}
TwoConfigs == OneConfig \cup {[packets |-> 1, both |-> FALSE, idle |-> 1]}
Symmetry == Permutations(Cpus) \cup Permutations(Keys)
=============================================================================
