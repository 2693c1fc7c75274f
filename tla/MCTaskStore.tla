----------------------------- MODULE MCTaskStore -----------------------------
(***************************************************************************)
(* Small instances of TaskStore for TLC: one store that may crash, be      *)
(* closed and fail to write, and two over one directory.                   *)
(***************************************************************************)
EXTENDS TaskStore

CONSTANTS s1, s2, t1, t2

None == [edits |-> 0, kinds |-> {}, stores |-> {}, tasks |-> {},
         crashes |-> 0, fails |-> 0, conflicts |-> 0, closes |-> 0]

\* Two stores comment, rewrite and withdraw in one log
Log == [None EXCEPT !.edits = 4, !.kinds = {"comment", "rewrite", "withdraw"},
                    !.stores = {s1, s2}, !.tasks = {t1}]

\* Two stores move the row, its edge and its log
Row == [Log EXCEPT !.edits = 3, !.kinds = {"comment", "title", "move", "link"}]

\* A new task, and the one beside it, in two stores
Board == [Log EXCEPT !.edits = 3, !.kinds = {"create", "comment", "title"}]

\* One store writes a task's whole life, and dies or fails anywhere
Life == [None EXCEPT !.edits = 3, !.kinds = {"create", "comment", "body", "withdraw", "delete"},
                     !.stores = {s1}, !.crashes = 1, !.fails = 1]

\* The tracker in conflict, the window closed
Merge == [None EXCEPT !.edits = 2, !.kinds = {"create", "comment", "link", "delete"},
                      !.stores = {s1}, !.tasks = {t1}, !.fails = 1, !.conflicts = 1, !.closes = 1]

\* One of two stores dies and is opened again
Restart == [Log EXCEPT !.edits = 3, !.kinds = {"comment", "withdraw", "body"}, !.crashes = 1]

\* One store deletes what the other comments on
Deletion == [Log EXCEPT !.edits = 2, !.kinds = {"comment", "delete"}]

Cases1 == {Log, Row, Board, Life, Merge, Restart}
Cases2 == {Deletion}
=============================================================================
