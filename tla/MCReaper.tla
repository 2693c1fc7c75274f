------------------------------ MODULE MCReaper ------------------------------
(***************************************************************************)
(* Small instances of Reaper for TLC: a tab of the person's with two       *)
(* panes, one with one pane, and one that cide opened.                     *)
(***************************************************************************)
EXTENDS Reaper

CONSTANTS one, two, review, other, main, byCide, side

Placed == [s \in Sessions |-> CASE s = review -> byCide [] s = other -> side [] OTHER -> main]

\* With these tabs open: so many closings and reopenings, and each of these
\* things once
Case(tabs, closes, reopens, chances) ==
    [tabs |-> tabs, left |-> [k \in Chances |->
        IF k = "close" THEN closes ELSE IF k = "reopen" THEN reopens
        ELSE IF k \in chances THEN 1 ELSE 0]]

Mixed == {Case({main}, 1, 1, {"exit"}), Case({side}, 2, 1, {"hold", "exit"}),
          Case({byCide}, 2, 2, {"setting"}), Case({byCide, side}, 1, 1, {"exit", "project"}),
          Case({byCide, side}, 2, 1, {})}
=============================================================================
