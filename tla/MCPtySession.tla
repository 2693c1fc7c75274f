---------------------------- MODULE MCPtySession ----------------------------
(***************************************************************************)
(* Small instances of PtySession for TLC.  A frame is three bytes at most, *)
(* a flush two, a sink chokes at three owed: five bytes choke it, let it   *)
(* recover and choke it again.                                             *)
(***************************************************************************)
EXTENDS PtySession

CONSTANTS p1, p2, w1, w2

Case(bytes, attaches, panes, leaves, watchers, ends) ==
    [bytes |-> bytes, attaches |-> attaches, panes |-> panes, watchers |-> watchers,
     leaves |-> leaves, ends |-> ends]

Mixtures ==
    {Case(5, 1, {p1}, 0, {}, {}),                      \* choked, forgiven, choked again
     Case(3, 2, {p1}, 1, {}, {"output"}),              \* comes and goes around the end
     Case(2, 2, {p1, p2}, 0, {}, {}),                  \* a mirrored session
     Case(1, 1, {p1}, 0, {w1, w2}, {"child", "output"})}
OnePane == {Case(4, 1, {p1}, 0, {}, {"output"})}
=============================================================================
