-------------------------- MODULE MC_TokenBucket --------------------------
(* Small instances of TokenBucket: seconds of two ticks, two rates.        *)
EXTENDS TokenBucket, TLC

MCConfigs == {[rate |-> 1, burst |-> 2, repeat |-> 1],
              [rate |-> 3, burst |-> 3, repeat |-> 2]}
OneConfig == {[rate |-> 1, burst |-> 2, repeat |-> 2]}
Symmetry == Permutations(Cpus)
=============================================================================
