------------------------------ MODULE ReplicaView ------------------------------
(***************************************************************************)
(* What the companion promises a phone, without log, cursors or connections: *)
(* the phone shows nothing, or the desktop exactly as it was at some moment, *)
(* and what it shows only ever moves on to a later moment.                   *)
(***************************************************************************)
EXTENDS Naturals, Sequences

CONSTANTS States, Blank

VARIABLES
    history,  \* every state the desktop has been in
    view,     \* the one the phone shows, 0 for none
    shown     \* what the phone shows

vars == <<history, view, shown>>

Init == /\ \E state \in States : history = <<state>>
        /\ view = 0 /\ shown = Blank

Change == /\ \E state \in States : history' = Append(history, state)
          /\ UNCHANGED <<view, shown>>

CatchUp == /\ \E later \in view + 1 .. Len(history) : view' = later /\ shown' = history[later]
           /\ UNCHANGED history

Forget == view' = 0 /\ shown' = Blank /\ UNCHANGED history

Spec == Init /\ [][Change \/ CatchUp \/ Forget]_vars
=============================================================================
