--------------------------- MODULE MC_Publication ---------------------------
(* Small instances of Publication: two rules, two variants, three texts.   *)
EXTENDS Publication, TLC

MCOptions == {[rules |-> {0, 1}, many |-> {0, 1, 2}, bytes |-> 1],
              [rules |-> {1}, many |-> {1, 2}, bytes |-> 2],
              [rules |-> {1}, many |-> {1, 2}, bytes |-> 3]}
Symmetry == Permutations(Cpus)
=============================================================================
