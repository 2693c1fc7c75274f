--------------------------- MODULE TerminalStream ---------------------------
(***************************************************************************)
(* What a terminal session promises the panes that show it: a pane holds a *)
(* prefix of one stream of output, and the prefix only grows.  It may join *)
(* anywhere (it starts from a picture of the screen) and skip ahead (the   *)
(* picture of a later screen replaces what it was not sent), and nothing   *)
(* it shows is ever out of order, shown twice or taken back.               *)
(***************************************************************************)
EXTENDS Integers

CONSTANT Panes

VARIABLES
    produced,   \* how many bytes of output there are
    view        \* pane -> how many of them it shows

vars == <<produced, view>>

Absent == -1

Init == produced = 0 /\ view = [p \in Panes |-> Absent]

Joins(p) ==
    /\ view[p] = Absent
    /\ \E n \in 0 .. produced : view' = [view EXCEPT ![p] = n]
    /\ UNCHANGED produced

Follows(p) ==
    /\ view[p] # Absent
    /\ \E n \in view[p] .. produced : view' = [view EXCEPT ![p] = n]
    /\ UNCHANGED produced

Leaves(gone) ==
    /\ view' = [p \in Panes |-> IF p \in gone THEN Absent ELSE view[p]]
    /\ UNCHANGED produced

Produces == produced' > produced /\ UNCHANGED view

Next ==
    \/ Produces
    \/ \E p \in Panes : Joins(p) \/ Follows(p)
    \/ \E gone \in SUBSET Panes : Leaves(gone)

Spec == Init /\ [][Next]_vars
=============================================================================
