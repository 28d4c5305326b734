--------------------------- MODULE MCTerminalStreams ---------------------------
(* Sessions and phones are interchangeable.                                   *)
EXTENDS TerminalStreams, TLC

Symmetry == Permutations(Sessions) \cup Permutations(Devices)

=============================================================================
