---------------------------- MODULE MCCompanionSync ----------------------------
(* Items are interchangeable.                                                *)
EXTENDS CompanionSync, TLC

Symmetry == Permutations(Items)

=============================================================================
