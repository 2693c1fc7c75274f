---------------------------- MODULE UserRequests ----------------------------
(***************************************************************************)
(* Decisions asked of the person, and how the answer gets back to the      *)
(* conversation that asked: crates/cide-core/src/user_requests.rs (the     *)
(* saved file, the leases of waiting calls, deliver_answer), the delivery  *)
(* loop and ConversationDelivery of crates/cide-app/src/user_requests.rs,  *)
(* deliver_user_request of agents.rs and the tool call of agent_rpc.rs.    *)
(*                                                                         *)
(* An answer has two roads: the reply of a tool call that still waits, and *)
(* a user turn typed into the conversation (or given to it as the opening  *)
(* of a reopened one).  A crash of cide keeps the file and nothing else.   *)
(*                                                                         *)
(* One conversation asks one question, perhaps more than once: `Requests`  *)
(* are the records this can come to.  A native question batch never takes  *)
(* the second road and is not modelled here.                               *)
(***************************************************************************)
EXTENDS Naturals, FiniteSets

CONSTANTS
    Requests, Calls,
    NoRequest,
    Cases,           \* what to check: the asking conversation (its harness, whether it is an
                     \* agent run, what it asks), and, as a bound, how often each thing the
                     \* environment decides may happen
    MaxTurns,        \* bound: turns of the conversation
    TurnLost         \* bound: whether a process may die with its turn unfinished in the transcript

Chances == {"crash", "exit", "save", "lost", "notSent", "refuse", "cut", "turn", "fail",
            "again"}

ASSUME NoRequestIsNone == NoRequest \notin Requests
Conversations == [harness : {"claude", "opencode", "codex"},
                  run : BOOLEAN,
                  asks : {"plain", "task", "moves"}]

ASSUME CasesAreRecords == Cases \subseteq [origin : Conversations, budget : [Chances -> Nat]]
ASSUME Bounds == MaxTurns \in Nat \ {0} /\ TurnLost \in BOOLEAN

Turns == 1 .. MaxTurns

VARIABLES
    origin,      \* the asking conversation; it never changes
    \* the saved file
    row, attempts, replies,
    \* the task tracker's file: requests whose decision it holds
    tasksDone,
    \* apply_response, under its mutex
    apply,
    \* the tool calls, with the lease each holds in `waiters`
    call,
    \* the conversation: its process, its turns and its transcript
    conv, turn, ended, shown, consumed,
    \* the origin run's opening (LiveRun::prompt, requeued), in memory and in the snapshot
    opening, snapshot,
    \* the delivery thread, inside deliver_answer
    del,
    \* history: turns submitted after a claim, openings forked, replies written,
    \* answers a person removed
    sent, opened, written, dismissed,
    budget

file == <<row, attempts, replies>>
convVars == <<conv, turn, ended, shown, consumed>>
openVars == <<opening, snapshot>>
ghosts == <<sent, opened, written, dismissed>>
vars == <<origin, file, tasksDone, apply, call, convVars, openVars, del, ghosts, budget>>

Spend(chance) == /\ budget[chance] > 0
                 /\ budget' = [budget EXCEPT ![chance] = @ - 1]

------------------------------------------------------------------------------
(* Helpers *)

Rows == [resp : {"absent", "none", "yes", "no"}, applying : BOOLEAN, delivered : BOOLEAN]
Absent == [resp |-> "absent", applying |-> FALSE, delivered |-> FALSE]
Asked == [Absent EXCEPT !.resp = "none"]
Openings == [prompt : Requests \cup {NoRequest}, requeued : BOOLEAN]
NotThere == [at |-> "idle", of |-> NoRequest, how |-> "none"]
NoApplication == [at |-> "idle", of |-> NoRequest]
CallStates == {"none", "waiting", "read", "reply", "written", "over"}
NoCall == [st |-> "none", of |-> NoRequest, turn |-> 0, cut |-> FALSE]

Codex == origin.harness = "codex"
\* The answer was put into the conversation
Submitted(r) == sent[r] + opened[r] > 0

Decided(r) == row[r].resp \in {"yes", "no"}

\* decide: an approval of moves, or any decision on a task's own question,
\* has to reach the tracker before anybody is told of it
MustApply(resp) == \/ origin.asks = "moves" /\ resp = "yes"
                   \/ origin.asks = "task"

\* Mutant: a call that is over still holds its lease
LeasesForEver(c) == call[c].st # "none"

Leases(c) == call[c].st \in {"waiting", "read", "reply", "written"}
HasWaiter(r) == \E c \in Calls : Leases(c) /\ call[c].of = r

\* A call that keeps its turn open until it is answered or cut off
Calling == \E c \in Calls : /\ call[c].st \in {"waiting", "read", "reply"}
                            /\ call[c].turn = turn
                            /\ ~call[c].cut

\* received_answer: the marker in a user's turn, or a codex tool result that
\* the model has been given in a turn a reply was prepared for
Received(r) == \/ r \in shown
               \/ Codex /\ \E t \in replies[r] : <<r, t>> \in consumed
\* ... and until those turns have ended, the absence of it proves nothing
TurnsFinished(r) == replies[r] \subseteq ended

\* A new turn of the conversation starts
StartsTurn == /\ turn < MaxTurns
              /\ turn' = turn + 1
              /\ conv' = "busy"

\* Whatever the process was doing stops; its transcript may miss the turn's end
Dies == /\ conv' = "gone"
        /\ \E recorded \in IF TurnLost THEN BOOLEAN ELSE {TRUE} :
              ended' = IF conv = "busy" /\ recorded THEN ended \cup {turn} ELSE ended
        /\ UNCHANGED <<turn, shown, consumed>>

------------------------------------------------------------------------------
Init ==
    /\ \E case \in Cases : origin = case.origin /\ budget = case.budget
    /\ row = [r \in Requests |-> Absent]
    /\ attempts = {}
    /\ replies = [r \in Requests |-> {}]
    /\ tasksDone = {}
    /\ apply = NoApplication
    /\ call = [c \in Calls |-> NoCall]
    /\ conv = "busy" /\ turn = 1 /\ ended = {}
    /\ shown = {} /\ consumed = {}
    /\ opening = [prompt |-> NoRequest, requeued |-> FALSE]
    /\ snapshot = opening
    /\ del = NotThere
    /\ sent = [r \in Requests |-> 0] /\ opened = [r \in Requests |-> 0]
    /\ written = {} /\ dismissed = {}

------------------------------------------------------------------------------
(* The saved file: each operation is one `update`, saved before it returns *)

\* Requests::delivered
MarksDelivered(r) ==
    /\ row' = [row EXCEPT ![r].delivered = TRUE]
    /\ attempts' = attempts \ {r}
    /\ replies' = [replies EXCEPT ![r] = {}]

\* `update` could not save: everything is as before
NotSaved == Spend("save") /\ UNCHANGED file

\* Mutant: a second window's decision replaces the first
DecidesAgain(r, resp) ==
    /\ row[r].resp # "absent" /\ ~row[r].delivered
    /\ row' = [row EXCEPT ![r].resp = resp, ![r].applying = MustApply(resp)]
    /\ UNCHANGED <<origin, attempts, replies, tasksDone, apply, call, convVars, openVars,
                   del, ghosts, budget>>

\* decide, from any window
Decides(r, resp) ==
    /\ row[r].resp = "none" /\ ~row[r].delivered
    /\ row' = [row EXCEPT ![r].resp = resp, ![r].applying = MustApply(resp)]
    /\ UNCHANGED <<origin, attempts, replies, tasksDone, apply, call, convVars, openVars,
                   del, ghosts, budget>>

\* dismiss: the person removes a saved decision from Waiting
Dismisses(r) ==
    /\ Decided(r) /\ ~row[r].applying
    /\ MarksDelivered(r)
    /\ dismissed' = dismissed \cup {r}
    /\ UNCHANGED <<origin, tasksDone, apply, call, convVars, openVars, del, sent, opened, written, budget>>

------------------------------------------------------------------------------
(* apply_response: the command's thread or the loop's, one at a time *)

ApplyBegins(r) ==
    /\ apply.at = "idle" /\ row[r].applying
    /\ apply' = [at |-> "tasks", of |-> r]
    /\ UNCHANGED <<origin, file, tasksDone, call, convVars, openVars, del, ghosts, budget>>

\* The tracker takes the answer or the moves, and has it on disk
ApplySaves ==
    /\ apply.at = "tasks"
    /\ tasksDone' = tasksDone \cup {apply.of}
    /\ apply' = [apply EXCEPT !.at = "complete"]
    /\ UNCHANGED <<origin, file, call, convVars, openVars, del, ghosts, budget>>

\* reset_application: the milestone or a proposed task changed meanwhile
ApplyResets ==
    /\ apply.at = "tasks" /\ origin.asks = "moves"
    /\ Spend("refuse")
    /\ row' = [row EXCEPT ![apply.of].resp = "none", ![apply.of].applying = FALSE]
    /\ apply' = NoApplication
    /\ UNCHANGED <<origin, attempts, replies, tasksDone, call, convVars, openVars, del, ghosts>>

\* The tracker's file, or the reset's, could not be saved: tried again later
ApplyFails ==
    /\ apply.at = "tasks"
    /\ NotSaved
    /\ apply' = NoApplication
    /\ UNCHANGED <<origin, tasksDone, call, convVars, openVars, del, ghosts>>

\* complete_application
ApplyCompletes ==
    /\ apply.at = "complete"
    /\ \/ /\ row' = [row EXCEPT ![apply.of].applying = FALSE]
          /\ UNCHANGED <<attempts, replies, budget>>
       \/ NotSaved
    /\ apply' = NoApplication
    /\ UNCHANGED <<origin, tasksDone, call, convVars, openVars, del, ghosts>>

------------------------------------------------------------------------------
(* The tool call: cide_user_request and cide_user_request_result *)

CallBegins(c, r, st) == call' = [call EXCEPT ![c] = [NoCall EXCEPT !.st = st, !.of = r, !.turn = turn]]

\* Mutant: every call asks anew
CallAsksAnew(c) ==
    /\ conv = "busy" /\ call[c].st = "none"
    /\ \E r \in Requests, st \in {"waiting", "over"} :
          /\ row[r].resp = "absent" /\ row' = [row EXCEPT ![r] = Asked]
          /\ CallBegins(c, r, st)
    /\ UNCHANGED <<origin, attempts, replies, tasksDone, apply, convVars, openVars, del, ghosts, budget>>

\* create: a question still open is not asked a second time
CallAsks(c) ==
    /\ conv = "busy" /\ call[c].st = "none"
    /\ \E r \in Requests, st \in {"waiting", "over"} :
          /\ IF \E s \in Requests : row[s].resp = "none"
             THEN row[r].resp = "none" /\ UNCHANGED <<row, budget>>
             ELSE /\ row[r].resp = "absent"
                  /\ row' = [row EXCEPT ![r] = Asked]
                  /\ IF \E s \in Requests : Decided(s) THEN Spend("again") ELSE UNCHANGED budget
          /\ CallBegins(c, r, st)
    /\ UNCHANGED <<origin, attempts, replies, tasksDone, apply, convVars, openVars, del, ghosts>>

\* ... and one asked before is read again
CallReconnects(c, r) ==
    /\ conv = "busy" /\ call[c].st = "none" /\ row[r].resp # "absent"
    /\ CallBegins(c, r, "waiting")
    /\ UNCHANGED <<origin, file, tasksDone, apply, convVars, openVars, del, ghosts, budget>>

\* Mutant: the wait ends at the decision, applied or not
CallReadsEarly(c) ==
    /\ call[c].st = "waiting" /\ ~call[c].cut
    /\ Decided(call[c].of)
    /\ call' = [call EXCEPT ![c].st = IF Codex THEN "read" ELSE "reply"]
    /\ UNCHANGED <<origin, file, tasksDone, apply, convVars, openVars, del, ghosts, budget>>

\* wait: the answer is there and applied
CallReads(c) ==
    /\ call[c].st = "waiting" /\ ~call[c].cut
    /\ Decided(call[c].of) /\ ~row[call[c].of].applying
    /\ call' = [call EXCEPT ![c].st = IF Codex THEN "read" ELSE "reply"]
    /\ UNCHANGED <<origin, file, tasksDone, apply, convVars, openVars, del, ghosts, budget>>

\* tool_reply: saved before a codex reply, whose writing proves nothing
CallRecordsReply(c) ==
    /\ call[c].st = "read"
    /\ LET r == call[c].of IN
       \/ /\ replies' = IF Decided(r) /\ ~row[r].applying /\ ~row[r].delivered
                        THEN [replies EXCEPT ![r] = @ \cup {call[c].turn}] ELSE replies
          /\ call' = [call EXCEPT ![c].st = "reply"]
          /\ UNCHANGED <<row, attempts, budget>>
       \/ NotSaved /\ call' = [call EXCEPT ![c].st = "over"]
    /\ UNCHANGED <<origin, tasksDone, apply, convVars, openVars, del, ghosts>>

CallWrites(c) ==
    /\ call[c].st = "reply" /\ ~call[c].cut
    /\ call' = [call EXCEPT ![c].st = "written"]
    /\ written' = written \cup {<<call[c].of, call[c].turn>>}
    /\ UNCHANGED <<origin, file, tasksDone, apply, convVars, openVars, del, sent, opened, dismissed, budget>>

\* Mutant: codex's socket write counts as a receipt too
CallFinishesForAll(c) ==
    /\ call[c].st = "written"
    /\ call' = [call EXCEPT ![c].st = "over"]
    /\ MarksDelivered(call[c].of) /\ UNCHANGED budget
    /\ UNCHANGED <<origin, tasksDone, apply, convVars, openVars, del, ghosts>>

\* The completion of on_reply: the receipt, and only then the lease
CallFinishes(c) ==
    /\ call[c].st = "written"
    /\ call' = [call EXCEPT ![c].st = "over"]
    /\ \/ ~Codex /\ MarksDelivered(call[c].of) /\ UNCHANGED budget
       \/ ~Codex /\ NotSaved
       \/ Codex /\ UNCHANGED <<file, budget>>
    /\ UNCHANGED <<origin, tasksDone, apply, convVars, openVars, del, ghosts>>

\* Cancelled, interrupted, or its socket closed: the lease goes, nothing is marked
CallFails(c) ==
    /\ call[c].st \in {"waiting", "reply"} /\ call[c].cut
    /\ call' = [call EXCEPT ![c].st = "over"]
    /\ UNCHANGED <<origin, file, tasksDone, apply, convVars, openVars, del, ghosts, budget>>

CallCutOff(c) ==
    /\ call[c].st \in {"waiting", "read", "reply"} /\ ~call[c].cut
    /\ Spend("cut")
    /\ call' = [call EXCEPT ![c].cut = TRUE]
    /\ UNCHANGED <<origin, file, tasksDone, apply, convVars, openVars, del, ghosts>>

------------------------------------------------------------------------------
(* The conversation *)

\* A codex execution cell may outlive its turn; elsewhere a call keeps it open
TurnEnds ==
    /\ conv = "busy"
    /\ Codex \/ ~Calling
    /\ conv' = "idle"
    /\ ended' = ended \cup {turn}
    /\ UNCHANGED <<origin, file, tasksDone, apply, call, turn, shown, consumed, openVars, del, ghosts, budget>>

\* The person types something of their own
TurnStarts ==
    /\ conv = "idle" /\ Spend("turn")
    /\ StartsTurn
    /\ UNCHANGED <<origin, file, tasksDone, apply, call, ended, shown, consumed, openVars, del, ghosts>>

\* A submitted answer appears in the transcript as a user's turn
LineShown(r) ==
    /\ Submitted(r) /\ r \notin shown
    /\ shown' = shown \cup {r}
    /\ UNCHANGED <<origin, file, tasksDone, apply, call, conv, turn, ended, consumed, openVars, del,
                   ghosts, budget>>

\* The model of a codex turn is given a tool result; once the turn is over it never is
ModelConsumes(r) ==
    /\ Codex /\ conv = "busy"
    /\ <<r, turn>> \in written \ consumed
    /\ consumed' = consumed \cup {<<r, turn>>}
    /\ UNCHANGED <<origin, file, tasksDone, apply, call, conv, turn, ended, shown, openVars, del,
                   ghosts, budget>>

CutsAll == call' = [c \in Calls |-> [call[c] EXCEPT !.cut = @ \/ Leases(c)]]

ProcessExits ==
    /\ conv \in {"idle", "busy"} /\ Spend("exit")
    /\ Dies /\ CutsAll
    /\ UNCHANGED <<origin, file, tasksDone, apply, openVars, del, ghosts>>

\* Admission takes the opening of a run requeued for an answer ...
RunAdmitted ==
    /\ conv = "queued"
    /\ conv' = "starting"
    /\ opening' = [opening EXCEPT !.requeued = FALSE]
    /\ UNCHANGED <<origin, file, tasksDone, apply, call, turn, ended, shown, consumed, snapshot, del,
                   ghosts, budget>>

\* ... and its child is forked with the answer as the first prompt, or is not
RunOpens ==
    /\ conv = "starting"
    /\ \/ /\ StartsTurn
          /\ opened' = [opened EXCEPT ![opening.prompt] = @ + 1]
          /\ UNCHANGED budget
       \/ /\ Spend("fail")
          /\ conv' = "failed"
          /\ UNCHANGED <<turn, opened>>
    /\ UNCHANGED <<origin, file, tasksDone, apply, call, ended, shown, consumed, openVars, del,
                   sent, written, dismissed>>

\* mark_changed's coalesced save, some time after the change
SnapshotSaved ==
    /\ snapshot # opening
    /\ snapshot' = opening
    /\ UNCHANGED <<origin, file, tasksDone, apply, call, convVars, opening, del, ghosts, budget>>

------------------------------------------------------------------------------
(* The delivery thread: deliver_answer, one request at a time *)

Goes(at) == del' = [del EXCEPT !.at = at]
\* Mutant: the request in hand is not let go of
LeavesHolding == del' = [del EXCEPT !.at = "idle"]
Leaves == del' = NotThere

\* get, and the checks on what it returned
DeliverFetches(r) ==
    /\ del.at = "idle"
    /\ Decided(r) /\ ~row[r].applying /\ ~row[r].delivered /\ ~HasWaiter(r)
    /\ del' = [NotThere EXCEPT !.at = "transcript", !.of = r]
    /\ UNCHANGED <<origin, file, tasksDone, apply, call, convVars, openVars, ghosts, budget>>

\* received: a receipt, an answer that is not known yet, or no sign of it
ReadsTranscript ==
    /\ del.at = "transcript"
    /\ \/ Received(del.of) /\ Goes("receipt")
       \/ ~Received(del.of) /\ ~TurnsFinished(del.of) /\ Leaves
       \/ ~Received(del.of) /\ TurnsFinished(del.of) /\ Goes("attempts")
    /\ UNCHANGED <<origin, file, tasksDone, apply, call, convVars, openVars, ghosts, budget>>

ChecksAttempts ==
    /\ del.at = "attempts"
    /\ IF del.of \in attempts THEN Leaves ELSE Goes("offer")
    /\ UNCHANGED <<origin, file, tasksDone, apply, call, convVars, openVars, ghosts, budget>>

\* plan_user_request_delivery: the run was opened with this very answer
OpenedWith(r) == /\ origin.run
                 /\ opening.prompt = r /\ ~opening.requeued
                 /\ conv \in {"idle", "busy", "gone"}

\* submit, up to `begin`: the conversation is idle, or was opened with the
\* answer, or is a pane's that can be opened again
Offers ==
    /\ del.at = "offer"
    /\ \/ OpenedWith(del.of) /\ del' = [del EXCEPT !.at = "begin", !.how = "opened"]
       \/ ~OpenedWith(del.of) /\ conv = "idle" /\ del' = [del EXCEPT !.at = "begin", !.how = "write"]
       \/ ~origin.run /\ conv = "gone" /\ del' = [del EXCEPT !.at = "begin", !.how = "open"]
    /\ UNCHANGED <<origin, file, tasksDone, apply, call, convVars, openVars, ghosts, budget>>

\* ... it is busy, about to open, or could not be opened with this answer
OfferWaits ==
    /\ del.at = "offer" /\ ~OpenedWith(del.of)
    /\ \/ conv \in {"busy", "queued", "starting"}
       \/ conv = "failed" /\ opening.prompt = del.of
    /\ Leaves
    /\ UNCHANGED <<origin, file, tasksDone, apply, call, convVars, openVars, ghosts, budget>>

\* ... an ended run is queued again with the answer as its opening; the
\* snapshot is saved before the pump
OfferRequeues ==
    /\ del.at = "offer" /\ ~OpenedWith(del.of) /\ origin.run
    /\ conv = "gone" \/ (conv = "failed" /\ opening.prompt # del.of)
    /\ conv' = "queued"
    /\ opening' = [prompt |-> del.of, requeued |-> TRUE]
    /\ snapshot' = opening'
    /\ Leaves
    /\ UNCHANGED <<origin, file, tasksDone, apply, call, turn, ended, shown, consumed, ghosts, budget>>

\* ... or its transcript, its directory or its task is not to be had now
OfferRefused ==
    /\ del.at = "offer" /\ conv = "gone" /\ ~OpenedWith(del.of)
    /\ Spend("refuse")
    /\ Leaves
    /\ UNCHANGED <<origin, file, tasksDone, apply, call, convVars, openVars, ghosts>>

\* begin: first the leases ...
BeginLooksForWaiter ==
    /\ del.at = "begin"
    /\ IF HasWaiter(del.of) THEN Leaves ELSE Goes("claim")
    /\ UNCHANGED <<origin, file, tasksDone, apply, call, convVars, openVars, ghosts, budget>>

\* Mutant: begin trusts the check made before the transcript was read
ClaimableUnlessTried(r) == Decided(r) /\ ~row[r].applying /\ r \notin attempts

Claimable(r) == ~row[r].delivered /\ Decided(r) /\ ~row[r].applying /\ r \notin attempts

\* ... then, in another lock, the claim, on disk before anything is written
BeginClaims ==
    /\ del.at = "claim"
    /\ \/ /\ Claimable(del.of)
          /\ attempts' = attempts \cup {del.of}
          /\ IF del.how = "opened" THEN Leaves ELSE Goes("send")
          /\ UNCHANGED <<row, replies, budget>>
       \/ ~Claimable(del.of) /\ Leaves /\ UNCHANGED <<file, budget>>
       \/ NotSaved /\ Leaves
    /\ UNCHANGED <<origin, tasksDone, apply, call, convVars, openVars, ghosts>>

\* The answer goes in.  A turn starts unless one is already running.
Lands ==
    /\ conv \in {"idle", "busy", "gone"}
    /\ sent' = [sent EXCEPT ![del.of] = @ + 1]
    /\ IF conv = "busy" THEN UNCHANGED <<conv, turn>> ELSE StartsTurn

\* A tab is opened on the old conversation with the answer as its prompt, or is not
SendOpens ==
    /\ del.at = "send" /\ del.how = "open"
    /\ \/ Lands /\ UNCHANGED budget
       \/ Spend("lost") /\ UNCHANGED <<conv, turn, sent>>
    /\ Leaves
    /\ UNCHANGED <<origin, file, tasksDone, apply, call, ended, shown, consumed, openVars,
                   opened, written, dismissed>>

\* The harness says it has taken the turn (a run's opencode console does not say)
SendConfirmed ==
    /\ del.at = "send" /\ del.how = "write"
    /\ Codex \/ (origin.harness = "opencode" /\ ~origin.run)
    /\ conv = "idle" \/ (~Codex /\ conv = "busy")
    /\ Lands
    /\ Goes("receipt")
    /\ UNCHANGED <<origin, file, tasksDone, apply, call, ended, shown, consumed, openVars,
                   opened, written, dismissed, budget>>

\* Typed and Enter pressed: that is no receipt, and it may have got nowhere
SendTyped ==
    /\ del.at = "send" /\ del.how = "write"
    /\ ~Codex /\ (origin.harness = "claude" \/ origin.run)
    /\ \/ conv # "gone" /\ Lands /\ UNCHANGED budget
       \/ conv = "gone" /\ UNCHANGED <<conv, turn, sent, budget>>
       \/ Spend("lost") /\ UNCHANGED <<conv, turn, sent>>
    /\ Leaves
    /\ UNCHANGED <<origin, file, tasksDone, apply, call, ended, shown, consumed, openVars,
                   opened, written, dismissed>>

\* Mutant: an uncertain submission gives its claim back
SendFailsReleasing ==
    /\ del.at = "send" /\ del.how = "write"
    /\ \/ Spend("lost") /\ conv # "gone" /\ Lands
       \/ Spend("lost") /\ UNCHANGED <<conv, turn, sent>>
    /\ attempts' = attempts \ {del.of}
    /\ Leaves
    /\ UNCHANGED <<origin, row, replies, tasksDone, apply, call, ended, shown, consumed, openVars,
                   opened, written, dismissed>>

\* An error after the claim: written or not, nobody knows
SendFails ==
    /\ del.at = "send" /\ del.how = "write"
    /\ \/ Spend("lost") /\ conv # "gone" /\ Lands
       \/ Spend("lost") /\ UNCHANGED <<conv, turn, sent>>
       \/ conv = "gone" /\ ~Codex /\ UNCHANGED <<conv, turn, sent, budget>>
    /\ Leaves
    /\ UNCHANGED <<origin, file, tasksDone, apply, call, ended, shown, consumed, openVars,
                   opened, written, dismissed>>

\* Codex's console says that nothing was written: busy, or another conversation
SendNotSent ==
    /\ del.at = "send" /\ del.how = "write" /\ Codex
    /\ \/ conv \in {"busy", "gone"} /\ UNCHANGED budget
       \/ Spend("notSent")
    /\ Goes("unclaim")
    /\ UNCHANGED <<origin, file, tasksDone, apply, call, convVars, openVars, ghosts>>

Unclaims ==
    /\ del.at = "unclaim"
    /\ \/ attempts' = attempts \ {del.of} /\ UNCHANGED <<row, replies, budget>>
       \/ NotSaved
    /\ Leaves
    /\ UNCHANGED <<origin, tasksDone, apply, call, convVars, openVars, ghosts>>

DeliverMarks ==
    /\ del.at = "receipt"
    /\ \/ MarksDelivered(del.of) /\ UNCHANGED budget
       \/ NotSaved
    /\ Leaves
    /\ UNCHANGED <<origin, tasksDone, apply, call, convVars, openVars, ghosts>>

\* cide dies.  The file, the tracker, the transcripts and the snapshot remain;
\* an interrupted run comes back as the snapshot knew it.
Crash ==
    /\ Spend("crash")
    /\ IF conv = "failed" /\ snapshot = opening THEN UNCHANGED convVars ELSE Dies
    /\ opening' = snapshot
    /\ call' = [c \in Calls |-> IF Leases(c) THEN [call[c] EXCEPT !.st = "over"] ELSE call[c]]
    /\ del' = NotThere
    /\ apply' = NoApplication
    /\ UNCHANGED <<origin, file, tasksDone, snapshot, ghosts>>

------------------------------------------------------------------------------
Apply == \/ \E r \in Requests : ApplyBegins(r)
         \/ ApplySaves \/ ApplyResets \/ ApplyFails \/ ApplyCompletes

Serves(c) == CallReads(c) \/ CallRecordsReply(c) \/ CallWrites(c) \/ CallFinishes(c) \/ CallFails(c)

Submits == \/ Offers \/ OfferWaits \/ OfferRequeues \/ OfferRefused
           \/ SendOpens \/ SendConfirmed \/ SendTyped \/ SendFails \/ SendNotSent

Delivers == \/ ReadsTranscript \/ ChecksAttempts \/ Submits
            \/ BeginLooksForWaiter \/ BeginClaims \/ Unclaims \/ DeliverMarks

Next ==
    \/ \E r \in Requests, resp \in {"yes", "no"} : Decides(r, resp)
    \/ \E r \in Requests : Dismisses(r) \/ DeliverFetches(r) \/ LineShown(r) \/ ModelConsumes(r)
    \/ \E c \in Calls : CallAsks(c) \/ CallCutOff(c) \/ Serves(c)
    \/ \E c \in Calls, r \in Requests : CallReconnects(c, r)
    \/ Apply \/ Delivers
    \/ TurnEnds \/ TurnStarts \/ ProcessExits \/ RunAdmitted \/ RunOpens
    \/ SnapshotSaved \/ Crash

Spec == Init /\ [][Next]_vars

\* The loop visits every row on every pass; calls, the applying thread and the
\* admission go on; a turn that waits for nobody ends.  Nobody has to answer,
\* type, dismiss or consume anything.
Fairness ==
    /\ \A r \in Requests : SF_vars(ApplyBegins(r)) /\ SF_vars(DeliverFetches(r))
    /\ WF_vars(ApplySaves \/ ApplyCompletes)
    /\ \A c \in Calls : WF_vars(Serves(c))
    /\ WF_vars(TurnEnds /\ ~Calling)
    /\ WF_vars(RunAdmitted) /\ WF_vars(RunOpens)
    /\ WF_vars(Delivers)

FairSpec == Spec /\ Fairness

------------------------------------------------------------------------------
(* Properties *)

FileTyped ==
    /\ row \in [Requests -> Rows]
    /\ attempts \subseteq Requests
    /\ replies \in [Requests -> SUBSET Turns]

ApplyTyped ==
    /\ tasksDone \subseteq Requests
    /\ apply \in [at : {"idle", "tasks", "complete"}, of : Requests \cup {NoRequest}]
    /\ (apply.at = "idle") <=> (apply.of = NoRequest)

CallsTyped == call \in [Calls -> [st : CallStates, of : Requests \cup {NoRequest},
                                  turn : {0} \cup Turns, cut : BOOLEAN]]

ConversationTyped ==
    /\ origin \in Conversations
    /\ conv \in {"idle", "busy", "gone", "queued", "starting", "failed"}
    /\ turn \in Turns /\ ended \subseteq Turns
    /\ shown \subseteq Requests /\ consumed \subseteq Requests \X Turns
    /\ opening \in Openings /\ snapshot \in Openings

DeliveryTyped ==
    /\ del \in [at : {"idle", "transcript", "attempts", "offer", "begin", "claim", "send",
                      "unclaim", "receipt"},
                of : Requests \cup {NoRequest}, how : {"none", "write", "open", "opened"}]
    /\ (del.at = "idle") <=> (del.of = NoRequest)

HistoryTyped ==
    /\ sent \in [Requests -> Nat] /\ opened \in [Requests -> Nat]
    /\ written \subseteq Requests \X Turns
    /\ dismissed \subseteq Requests

\* The shapes of the state; the delivery thread and the applying thread hold a
\* request exactly while they are at work
TypeOK == /\ FileTyped /\ ApplyTyped /\ CallsTyped /\ ConversationTyped
          /\ DeliveryTyped /\ HistoryTyped /\ budget \in [Chances -> Nat]

WrittenBack(r) == \E t \in Turns : <<r, t>> \in written
ToldIt(r) == Submitted(r) \/ WrittenBack(r)

\* No answer is claimed twice for submission, whatever is retried and wherever
\* cide dies: deliver_answer, begin, delivery_attempts
ClaimedOnce == \A r \in Requests : sent[r] <= 1

\* An answer that changes the tracker is told to nobody before the tracker has
\* it on disk: decide's `applying`, apply_response, wait, deliver_answer
AppliedFirst ==
    \A r \in Requests : ToldIt(r) /\ MustApply(row[r].resp) => r \in tasksDone

\* A row counts as delivered only when the answer was submitted, or written
\* back to a waiting call; to codex, only when its model was given it.  Only a
\* person may close it otherwise: on_reply, tool_reply, received, delivered
DeliveredWasTold ==
    \A r \in Requests : row[r].delivered /\ r \notin dismissed =>
        \/ Submitted(r)
        \/ ~Codex /\ WrittenBack(r)
        \/ Codex /\ \E t \in Turns : <<r, t>> \in consumed

\* The conversation's question is open at most once, so a retried call cannot
\* ask it again: create (of a move proposal, a reset may open an older one)
OneOpenDecision ==
    origin.asks # "moves" =>
        \A r, s \in Requests : row[r].resp = "none" /\ row[s].resp = "none" => r = s

\* What the conversation has been told is not decided again: decide from
\* another window, reset_application
ToldIsFinal ==
    [][\A r \in Requests : ToldIt(r) => row'[r].resp = row[r].resp]_vars

\* A decision a person removed from Waiting is not reopened, nor claimed for
\* another submission by a delivery already under way: dismiss, begin
DismissedStays ==
    [][\A r \in Requests : r \in dismissed => row'[r].delivered /\ r \notin attempts']_vars

\* The conversation waits for a decision
AwaitsThePerson == \E c \in Calls : /\ call[c].st = "waiting" /\ ~call[c].cut
                                    /\ row[call[c].of].resp = "none"

\* Every decision gets back to the conversation that asked, or is claimed for
\* its one submission, unless that conversation keeps waiting for another
\* decision or could not be opened again: the loop of `start`, deliver_answer
DecidedIsHeard ==
    \/ []<>AwaitsThePerson
    \/ \A r \in Requests :
          Decided(r) ~> \/ row[r].delivered \/ r \in attempts
                        \/ ~Decided(r) \/ conv = "failed"
=============================================================================
