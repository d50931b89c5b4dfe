--------------------------- MODULE MC_LuciPlugin ---------------------------
EXTENDS LuciPlugin, TLC

\* Every edit differs from the other in the file and in the switch; the mixtures
\* come from the saves that fail half-way.
TwoEdits == {[config |-> 1, enabled |-> FALSE], [config |-> 2, enabled |-> TRUE]}

\* Neither the pages nor the process ids differ.
Symmetry == Permutations(Pages) \cup Permutations(Pids)

\* Nothing is claimed from a mistaken takeover on until all is quiet again.
Claimed == ~mistaken
=============================================================================
