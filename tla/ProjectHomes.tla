------------------------------ MODULE ProjectHomes ------------------------------
(***************************************************************************)
(* What moving projects between windows promises, without renderers, stores, *)
(* journals or crashes: every project is in exactly one window, and a move   *)
(* takes one project from its window to another in one step.                 *)
(***************************************************************************)
CONSTANTS Projects, Windows

VARIABLE homes  \* the windows each project is in

Init == \E home \in [Projects -> Windows] : homes = [p \in Projects |-> {home[p]}]

Move(p, from, to) ==
    /\ homes[p] = {from} /\ to # from
    /\ homes' = [homes EXCEPT ![p] = {to}]

Next == \E p \in Projects, from, to \in Windows : Move(p, from, to)

Spec == Init /\ [][Next]_homes
=============================================================================
