--------------------------- MODULE MCProjectTransfer ---------------------------
(* Projects and windows are interchangeable.                                 *)
EXTENDS ProjectTransfer, TLC

Symmetry == Permutations(Projects) \cup Permutations(Windows)
=============================================================================
