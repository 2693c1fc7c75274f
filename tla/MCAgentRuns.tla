---------------------------- MODULE MCAgentRuns ----------------------------
(***************************************************************************)
(* Small instances of AgentRuns for TLC: two runs of one role in one       *)
(* project, on two tasks or on one.  Two runs are enough for everything a  *)
(* run can do to another: share a queue, a cap, a checkout, a pair.        *)
(***************************************************************************)
EXTENDS AgentRuns

CONSTANTS r1, r2, developer, taskA, taskB, project

OneRole == [r \in Runs |-> developer]
TwoTasks == [r \in Runs |-> IF r = r1 THEN taskA ELSE taskB]
SameTask == [r \in Runs |-> taskA]
OneProject == [r \in Runs |-> project]
OneEach == [r \in Runs |-> 1]
TwoEach == [r \in Runs |-> 2]

\* So many runs are dispatched, each of these things may happen once, and
\* nothing else the environment decides
Mixture(dispatches, chances) ==
    [c \in Chances |-> IF c = "dispatch" THEN dispatches
                       ELSE IF c \in chances THEN 1 ELSE 0]

Queueing == {Mixture(2, {"stuck", "follow"}), Mixture(2, {"fail", "ask", "follow"}),
             Mixture(2, {"stuck", "fail"}),
             [Mixture(1, {"stop", "fail", "stuck"}) EXCEPT !["stuck"] = 2],
             Mixture(1, {"pause", "edit", "exit"}), Mixture(2, {"pause"}),
             Mixture(1, {"pause", "stop"}), Mixture(1, {"pause", "fail"}),
             [Mixture(1, {"pause", "stuck"}) EXCEPT !["stuck"] = 2]}
\* With r1 interrupted: another run of its pair is dispatched, or it is alone
OnePair == {Mixture(1, {"exit", "term", "fail"}), Mixture(0, {"stop", "pause"}),
            [Mixture(0, {"stop", "exit"}) EXCEPT !["stop"] = 2],
            [Mixture(0, {"stop", "fail", "stuck"}) EXCEPT !["stuck"] = 2],
            [Mixture(0, {"term", "stuck"}) EXCEPT !["stuck"] = 2],
            [Mixture(1, {"stuck"}) EXCEPT !["stuck"] = 2],
            Mixture(1, {"stop", "stuck"})}
Progress == {Mixture(2, {"stop", "exit"}), Mixture(1, {"ask", "fail", "follow"})}
Ending == {Mixture(2, {"stop", "exit"})}
JustStop == {Mixture(2, {"stop"})}
=============================================================================
