---------------------------- MODULE MC_Interfaces ----------------------------
(* Small instances of Interfaces.                                          *)
EXTENDS Interfaces

\* Two ifindexes for two WANs: every device that is created takes one over
\* that another has had.
FewIndices == {5, 6}
=============================================================================
