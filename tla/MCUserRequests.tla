-------------------------- MODULE MCUserRequests --------------------------
(***************************************************************************)
(* Small instances of UserRequests for TLC: two records of the question    *)
(* and two calls, so that a call may be cut off, retried and answered      *)
(* around the delivery thread.  Every case is one conversation with one    *)
(* mixture of troubles, each of which may happen once.                     *)
(***************************************************************************)
EXTENDS UserRequests

Case(harness, run, asks, chances) ==
    [origin |-> [harness |-> harness, run |-> run, asks |-> asks],
     budget |-> [c \in Chances |-> IF c \in chances THEN 1 ELSE 0]]

ClaudePane == {Case("claude", FALSE, "task", chances) :
                   chances \in {{"crash", "save"}, {"exit", "lost", "refuse"}, {"cut"}}}
ClaudeRun == {Case("claude", TRUE, "plain", chances) :
                  chances \in {{"exit", "fail", "crash"}, {"exit", "lost"}, {"exit", "refuse"}, {"again"}}}
OpencodePane == {Case("opencode", FALSE, "plain", chances) :
                     chances \in {{"crash"}, {"lost", "turn"}}}
CodexPane == {Case("codex", FALSE, "moves", chances) :
                  chances \in {{"crash", "refuse"}, {"save", "notSent"}, {"cut"}, {"turn"}, {"exit"}}}

Mixtures == ClaudePane \cup ClaudeRun \cup OpencodePane \cup CodexPane
=============================================================================
