----------------------------- MODULE DiffBroker -----------------------------
(***************************************************************************)
(* The openDiff calls that agents wait on and every way one can end        *)
(* (crates/cide-ide-mcp/src/{diff_broker,tools,server}.rs), with the pump  *)
(* that turns them into tabs and the closings of tabs, project and         *)
(* application (crates/cide-app/src/ide.rs, cmd/).                         *)
(*                                                                         *)
(* A call runs on a task of its own; the requests that wait (`pending`)    *)
(* and the tabs their client may withdraw (`tabs`) are behind two locks    *)
(* that no one holds together, and the requests reach the pump through a   *)
(* bounded channel.  A step is one critical section.  One project; each    *)
(* request is made at most once.                                           *)
(***************************************************************************)
EXTENDS Naturals, Sequences, FiniteSets

CONSTANTS
    Requests,       \* openDiff calls, the ids DiffRequest gives them
    Conns,          \* connections of clients
    Sessions,       \* those of them that are a ToolSession, not a socket
    Owner,          \* who makes a request,
    File,           \* for which file,
    Name,           \* under which tab name
    Worlds,         \* bound: the calls made, and what else may happen
    EventCapacity   \* of the channel to the pump

ASSUME ConstantsAssumption ==
    /\ Sessions \subseteq Conns
    /\ Owner \in [Requests -> Conns]
    /\ EventCapacity \in Nat \ {0}

VARIABLES
    task,       \* where the call's task is
    older,      \* the requests it found for its file and has yet to supersede
    reply,      \* what was sent down its oneshot
    answer,     \* what the call returned
    pending,    \* DiffBroker::inner
    tabs,       \* DiffBroker::tabs
    queue,      \* the events on their way to the pump
    telling,    \* withdrawals whose event waits for room
    screen,     \* the request's tab, and whether the pane with the diff is in it
    link,       \* the client's socket, or its ToolSession
    closing,    \* its close_tab call: still to withdraw, then to tell the pump
    dropping,   \* its cancel_connection: still to cancel
    leaving,    \* what the person's closing of tab or project has yet to cancel
    stage,      \* of closing the project, or of the quit, and of the shutdown
    stopping,   \* its cancel_all: still to cancel
    project,    \* is the project still in the workspace?
    world,      \* what agents and the person may do in this behaviour
    loose       \* history: announced, or left untold, after its tab was given up

calls == <<task, older, reply, answer>>
broker == <<pending, tabs>>
events == <<queue, telling>>
clients == <<link, closing, dropping>>
person == <<leaving, stage, stopping, project>>
noted == <<world, loose>>
vars == <<calls, broker, events, screen, clients, person, noted>>

Tasks == {"unsent", "read", "tabbed", "superseding", "announcing", "waiting", "done"}
Stages == {"up", "leaving", "left", "closing", "sweeping", "draining", "drained"}
Verdicts == {"accepted", "rejected"}
Names == {Name[r]: r \in Requests}
Idle == [left |-> {}, told |-> {}]
Event(kind, r) == [kind |-> kind, id |-> r]

Init ==
    /\ task = [r \in Requests |-> "unsent"]
    /\ older = [r \in Requests |-> {}]
    /\ reply = [r \in Requests |-> "none"]
    /\ answer = [r \in Requests |-> "none"]
    /\ pending = {} /\ tabs = {} /\ queue = <<>> /\ telling = {}
    /\ screen = [r \in Requests |-> "none"]
    /\ link = [c \in Conns |-> "open"]
    /\ closing = [c \in Conns |-> Idle]
    /\ dropping = [c \in Conns |-> {}]
    /\ world \in Worlds
    /\ leaving = {} /\ stage = "up" /\ stopping = {} /\ project = TRUE /\ loose = {}

Of(c, requests) == {r \in requests: Owner[r] = c}
\* Connections::closed, and the senders of its registry dropped
Closed == stage \in {"closing", "sweeping", "draining", "drained"}
Cleared == stage \in {"draining", "drained"}
\* ToolSession::call's stopped(), but for the caller's own flag
Stopped(c) == c \in Sessions /\ (link[c] # "open" \/ Closed)
\* Whether a frame of c is read and given to a task
Served(c) == link[c] = "open" /\ IF c \in Sessions THEN ~Closed ELSE ~Cleared
InFlight(r) == task[r] \notin {"unsent", "done"}

\* Mutant: a verdict goes down the oneshot whether or not the request was removed
VerdictAgain(r, v) == pending' = pending \ {r} /\ reply' = [reply EXCEPT ![r] = v]

\* DiffBroker::resolve and cancel: the verdict of a request that still waits
Verdict(r, v) == /\ pending' = pending \ {r}
                 /\ reply' = IF r \in pending THEN [reply EXCEPT ![r] = v] ELSE reply

Refused(r) == Verdict(r, "rejected")

\* DiffBroker::withdraw: nothing of it when the request no longer waits
Withdrawn(r) == Refused(r) /\ tabs' = IF r \in pending THEN tabs \ {r} ELSE tabs

---------------------------------------------------------------------------
(* The call: open_diff and DiffBroker::open *)

\* serve reads the frame and spawns dispatch, or ToolSession::call begins
Reads(r) == /\ task[r] = "unsent" /\ Served(Owner[r])
            /\ task' = [task EXCEPT ![r] = "read"]
            /\ UNCHANGED <<older, reply, answer, broker, events, screen, clients, person, noted>>

NamesTab(r) == /\ task[r] = "read"
               /\ task' = [task EXCEPT ![r] = "tabbed"]
               /\ tabs' = tabs \union {r}
               /\ UNCHANGED <<older, reply, answer, pending, events, screen, clients, person, noted>>

LooksForOlder(r) ==
    /\ task[r] = "tabbed"
    /\ task' = [task EXCEPT ![r] = "superseding"]
    /\ older' = [older EXCEPT ![r] = {o \in pending: File[o] = File[r]}]
    /\ UNCHANGED <<reply, answer, broker, events, screen, clients, person, noted>>

Supersedes(r, o) == /\ task[r] = "superseding" /\ o \in older[r]
                    /\ older' = [older EXCEPT ![r] = @ \ {o}]
                    /\ Refused(o)
                    /\ UNCHANGED <<task, answer, tabs, events, screen, clients, person, noted>>

Registers(r) == /\ task[r] = "superseding" /\ older[r] = {}
                /\ task' = [task EXCEPT ![r] = "announcing"]
                /\ pending' = pending \union {r}
                /\ UNCHANGED <<older, reply, answer, tabs, events, screen, clients, person, noted>>

\* Mutant: one event too many
RoomForOneMore == Len(queue) <= EventCapacity

Room == Len(queue) < EventCapacity

\* emit(DiffRequested), which a verdict meanwhile does not prevent
Announces(r) == /\ task[r] = "announcing" /\ Room
                /\ task' = [task EXCEPT ![r] = "waiting"]
                /\ queue' = Append(queue, Event("requested", r))
                /\ loose' = IF r \in tabs THEN loose ELSE loose \union {r}
                /\ UNCHANGED <<older, reply, answer, broker, telling, screen, clients, person, world>>

\* Either branch of the select, or the wait after it
Returns(r) == /\ task[r] \in {"announcing", "waiting"} /\ reply[r] # "none"
              /\ task' = [task EXCEPT ![r] = "done"]
              /\ answer' = [answer EXCEPT ![r] = reply[r]]
              /\ UNCHANGED <<older, reply, broker, events, screen, clients, person, noted>>

\* Mutant: the withdrawal is told only when there is room at once
DropsUntold(r) == /\ task[r] \in {"announcing", "waiting"}
                  /\ task' = [task EXCEPT ![r] = "done"]
                  /\ answer' = [answer EXCEPT ![r] = "error"]
                  /\ Withdrawn(r)
                  /\ telling' = IF r \in pending /\ Room THEN telling \union {r} ELSE telling
                  /\ UNCHANGED <<older, queue, screen, clients, person, noted>>

\* ToolSession::call drops the future: PendingDiff::drop, then notify_withdrawn
Drops(r) == /\ task[r] \in {"announcing", "waiting"}
            /\ task' = [task EXCEPT ![r] = "done"]
            /\ answer' = [answer EXCEPT ![r] = "error"]
            /\ Withdrawn(r)
            /\ telling' = IF r \in pending THEN telling \union {r} ELSE telling
            /\ UNCHANGED <<older, queue, screen, clients, person, noted>>

\* The client cancels the call; the session closed, or the server
IsCancelled(r) == Owner[r] \in Sessions /\ Drops(r)
IsStopped(r) == Stopped(Owner[r]) /\ Drops(r)

---------------------------------------------------------------------------
(* Withdrawals: close_tab, closeAllDiffTabs, ToolSession::close *)

Takes(c, taken) == /\ closing[c] = Idle
                   /\ tabs' = tabs \ taken
                   /\ closing' = [closing EXCEPT ![c] = [left |-> taken, told |-> taken]]

\* withdraw_tabs begins; one such call of a connection at a time
ClosesTabs(c, names) == LET taken == {r \in Of(c, tabs): Name[r] \in names}
                        IN  /\ Served(c) /\ taken # {}
                            /\ Takes(c, taken)
                            /\ UNCHANGED <<calls, pending, events, screen, link, dropping, person, noted>>

SessionCloses(c) == /\ c \in Sessions /\ link[c] = "open"
                    /\ link' = [link EXCEPT ![c] = "closed"]
                    /\ Takes(c, Of(c, tabs))
                    /\ UNCHANGED <<calls, pending, events, screen, dropping, person, noted>>

WithdrawsTab(c, r) == /\ r \in closing[c].left
                      /\ closing' = [closing EXCEPT ![c].left = @ \ {r}]
                      /\ Withdrawn(r)
                      /\ UNCHANGED <<task, older, answer, events, screen, link, dropping, person, noted>>

\* The withdrawn are told one after the other, by the call itself
TellsOfTab(c, r) == /\ closing[c].left = {} /\ r \in closing[c].told /\ Room
                    /\ closing' = [closing EXCEPT ![c].told = @ \ {r}]
                    /\ queue' = Append(queue, Event("withdrawn", r))
                    /\ UNCHANGED <<calls, broker, telling, screen, link, dropping, person, noted>>

\* A close_tab that waits for room is dropped as any call of a session may be
GivesUpTelling(c) == /\ c \in Sessions /\ link[c] = "open" /\ closing[c].left = {} /\ ~Room
                     /\ closing[c].told # {}
                     /\ closing' = [closing EXCEPT ![c] = Idle]
                     /\ loose' = loose \union closing[c].told
                     /\ UNCHANGED <<calls, broker, events, screen, link, dropping, person, world>>

\* notify_withdrawn: at once, or by a task of its own when there is no room
Notifies(r) == /\ r \in telling /\ Room
               /\ telling' = telling \ {r}
               /\ queue' = Append(queue, Event("withdrawn", r))
               /\ UNCHANGED <<calls, broker, screen, clients, person, noted>>

---------------------------------------------------------------------------
(* The end of a connection: serve after its loop, ToolSession::drop *)

SocketEnds(c) == /\ c \notin Sessions /\ link[c] = "open"
                 /\ link' = [link EXCEPT ![c] = "closed"]
                 /\ UNCHANGED <<calls, broker, events, screen, closing, dropping, person, noted>>

\* Its registry entry is gone and the last task with a sender for it is done
SocketRunsDry(c) == /\ Cleared /\ closing[c] = Idle
                    /\ \A r \in Of(c, Requests): ~InFlight(r)
                    /\ SocketEnds(c)

\* cancel_connection; a session is dropped after the last of its calls
Disconnects(c) ==
    /\ link[c] = "closed"
    /\ c \in Sessions => closing[c] = Idle /\ \A r \in Of(c, Requests): ~InFlight(r)
    /\ link' = [link EXCEPT ![c] = "gone"]
    /\ dropping' = [dropping EXCEPT ![c] = Of(c, pending)]
    /\ UNCHANGED <<calls, broker, events, screen, closing, person, noted>>

CancelsOrphan(c, r) == /\ r \in dropping[c]
                       /\ dropping' = [dropping EXCEPT ![c] = @ \ {r}]
                       /\ Refused(r)
                       /\ UNCHANGED <<task, older, answer, tabs, events, screen, link, closing, person, noted>>

---------------------------------------------------------------------------
(* The pump: open_diff_tab, close_diff_tab_by_name *)

Head1 == Head(queue)

\* Mutant: a request that comes after its project was closed is only logged
OpensTabOrNot == /\ queue # <<>> /\ Head1.kind = "requested"
                 /\ queue' = Tail(queue)
                 /\ screen' = IF project THEN [screen EXCEPT ![Head1.id] = "shown"] ELSE screen
                 /\ UNCHANGED <<calls, broker, telling, clients, person, noted>>

OpensTab == /\ queue # <<>> /\ Head1.kind = "requested"
            /\ queue' = Tail(queue)
            /\ \/ /\ project
                  /\ screen' = [screen EXCEPT ![Head1.id] = "shown"]
                  /\ UNCHANGED <<pending, reply>>
               \/ /\ ~project /\ Refused(Head1.id)
                  /\ UNCHANGED screen
            /\ UNCHANGED <<task, older, answer, tabs, telling, clients, person, noted>>

\* Mutant: the tab of a withdrawn request stays
LeavesTabUp == /\ queue # <<>> /\ Head1.kind = "withdrawn"
               /\ queue' = Tail(queue)
               /\ UNCHANGED <<calls, broker, telling, screen, clients, person, noted>>

TakesTabDown == /\ queue # <<>> /\ Head1.kind = "withdrawn"
                /\ queue' = Tail(queue)
                /\ screen' = [screen EXCEPT ![Head1.id] = "none"]
                /\ UNCHANGED <<calls, broker, telling, clients, person, noted>>

---------------------------------------------------------------------------
(* The person, on the main thread: one command at a time *)

AtHand == stage = "up" /\ leaving = {}

\* claude_diff_result
Answers(r, v) == /\ AtHand /\ screen[r] = "shown" /\ r \in pending
                 /\ Verdict(r, v)
                 /\ UNCHANGED <<task, older, answer, tabs, events, screen, clients, person, noted>>

\* close_tab_checked, then resolve_or_cancel
ClosesTab(r) == /\ AtHand /\ screen[r] # "none"
                /\ screen' = [screen EXCEPT ![r] = "none"]
                /\ leaving' = {r}
                /\ UNCHANGED <<calls, broker, events, clients, stage, stopping, project, noted>>

\* pane_close, of a tab that was split
ClosesPane(r) == /\ AtHand /\ screen[r] = "shown"
                 /\ screen' = [screen EXCEPT ![r] = "closed"]
                 /\ UNCHANGED <<calls, broker, events, clients, person, noted>>

\* close_project_here: pending_request_ids, close_project, cancel_for_tabs
ReadsDiffs == /\ AtHand
              /\ leaving' = {r \in Requests: screen[r] # "none"}
              /\ stage' = "leaving"
              /\ UNCHANGED <<calls, broker, events, screen, clients, stopping, project, noted>>

ClosesProject == /\ stage = "leaving"
                 /\ stage' = "left" /\ project' = FALSE
                 /\ screen' = [r \in Requests |-> "none"]
                 /\ UNCHANGED <<calls, broker, events, clients, leaving, stopping, noted>>

\* close_project refuses a buffer that is not saved
StaysOpen == /\ stage = "leaving"
             /\ stage' = "up" /\ leaving' = {}
             /\ UNCHANGED <<calls, broker, events, screen, clients, stopping, project, noted>>

\* Mutant: the request of a closed tab is forgotten and not cancelled
ForgetsClosed(r) == /\ stage \in {"up", "left"} /\ r \in leaving
                    /\ leaving' = leaving \ {r}
                    /\ tabs' = tabs \ {r}
                    /\ UNCHANGED <<calls, pending, events, screen, clients, stage, stopping, project, noted>>

CancelsClosed(r) == /\ stage \in {"up", "left"} /\ r \in leaving
                    /\ leaving' = leaving \ {r}
                    /\ Refused(r) /\ tabs' = tabs \ {r}
                    /\ UNCHANGED <<task, older, answer, events, screen, clients, stage, stopping, project, noted>>

\* IdeServer::shutdown: of a closed project, or of the quit (not inside a command)
ShutsDown == /\ leaving = {} /\ stage \in {"up", "left"}
             /\ stage' = "closing"
             /\ UNCHANGED <<calls, broker, events, screen, clients, leaving, stopping, project, noted>>

\* cancel_all
SweepsAll == /\ stage = "closing"
             /\ stage' = "sweeping" /\ stopping' = pending
             /\ UNCHANGED <<calls, broker, events, screen, clients, leaving, project, noted>>

CancelsAtShutdown(r) == /\ r \in stopping
                        /\ stopping' = stopping \ {r}
                        /\ Refused(r)
                        /\ UNCHANGED <<task, older, answer, tabs, events, screen, clients, leaving, stage, project, noted>>

ClearsConnections == /\ stage = "sweeping" /\ stopping = {}
                     /\ stage' = "draining"
                     /\ UNCHANGED <<calls, broker, events, screen, clients, leaving, stopping, project, noted>>

Drains == /\ stage = "draining"
          /\ stage' = "drained"
          /\ UNCHANGED <<calls, broker, events, screen, clients, leaving, stopping, project, noted>>

\* Every socket's task ended, or DRAIN_TIMEOUT is over
HasDrained == (\A c \in Conns \ Sessions: link[c] # "open") /\ Drains
DrainTimesOut == (\E c \in Conns \ Sessions: link[c] = "open") /\ Drains

---------------------------------------------------------------------------
\* What the threads do by themselves once it is begun
CallStep(r) == \/ NamesTab(r) \/ LooksForOlder(r) \/ Registers(r) \/ Announces(r) \/ Returns(r)
               \/ IsStopped(r) \/ Notifies(r) \/ CancelsClosed(r) \/ CancelsAtShutdown(r)
               \/ \E o \in Requests: Supersedes(r, o)

ConnStep(c) == \/ SocketRunsDry(c) \/ Disconnects(c)
               \/ \E r \in Requests: WithdrawsTab(c, r) \/ TellsOfTab(c, r) \/ CancelsOrphan(c, r)

Threads == \/ \E r \in Requests: CallStep(r)
           \/ \E c \in Conns: ConnStep(c)
           \/ OpensTab \/ TakesTabDown
           \/ ClosesProject \/ (~project /\ ShutsDown) \/ SweepsAll \/ ClearsConnections \/ HasDrained

May(kind) == kind \in world.may

\* What agents, their processes and the person decide
World ==
    \/ \E r \in Requests: \/ r \in world.calls /\ Reads(r)
                          \/ May("cancel") /\ IsCancelled(r)
                          \/ May("answer") /\ \E v \in Verdicts: Answers(r, v)
                          \/ May("closeTab") /\ ClosesTab(r)
                          \/ May("closePane") /\ ClosesPane(r)
    \/ \E c \in Conns: \/ May("withdraw") /\ \E n \in Names: ClosesTabs(c, {n})
                       \/ May("withdraw") /\ ClosesTabs(c, Names)
                       \/ May("cancel") /\ GivesUpTelling(c)
                       \/ May("session") /\ SessionCloses(c)
                       \/ May("socket") /\ SocketEnds(c)
    \/ May("project") /\ (ReadsDiffs \/ StaysOpen)
    \/ May("quit") /\ project /\ ShutsDown
    \/ DrainTimesOut

Next == Threads \/ World

Spec == Init /\ [][Next]_vars

\* Threads run; nobody has to decide anything
FairSpec == Spec /\ WF_vars(Threads)

---------------------------------------------------------------------------
(* Properties *)

TypeOK ==
    /\ task \in [Requests -> Tasks]
    /\ older \in [Requests -> SUBSET Requests]
    /\ reply \in [Requests -> Verdicts \union {"none"}]
    /\ answer \in [Requests -> Verdicts \union {"none", "error"}]
    /\ pending \subseteq Requests /\ tabs \subseteq Requests
    /\ queue \in Seq([kind: {"requested", "withdrawn"}, id: Requests])
    /\ Len(queue) <= EventCapacity
    /\ telling \subseteq Requests
    /\ screen \in [Requests -> {"none", "shown", "closed"}]
    /\ link \in [Conns -> {"open", "closed", "gone"}]
    /\ closing \in [Conns -> [left: SUBSET Requests, told: SUBSET Requests]]
    /\ dropping \in [Conns -> SUBSET Requests]
    /\ leaving \subseteq Requests /\ stage \in Stages /\ stopping \subseteq Requests
    /\ project \in BOOLEAN /\ loose \subseteq Requests /\ world \in Worlds

Queued(kind, r) == \E i \in 1..Len(queue): queue[i] = Event(kind, r)

\* Someone is about to refuse it
BeingRefused(r) == \/ \E o \in Requests: r \in older[o]
                   \/ r \in closing[Owner[r]].left \/ r \in dropping[Owner[r]]
                   \/ r \in leaving \/ r \in stopping
                   \/ stage \in {"left", "closing"}

\* A request that waits is on its way to the screen, has its tab there, or is
\* about to be refused: whoever took the tab down refuses the request too.
\* The tab may have lost the pane with the diff (WaitsWithADiff).  (One
\* withdrawn while it was being registered is `loose`; its client does not
\* wait for it any more.)
WaitsWithATab == \A r \in pending \ loose:
    task[r] = "announcing" \/ Queued("requested", r) \/ screen[r] # "none" \/ BeingRefused(r)

\* The same of the diff itself, not of the tab it was in
\* ("the pane showing it is closed" is a way the person can vanish).  False,
\* and in no run: pane_close cancels nothing
WaitsWithADiff == \A r \in pending \ loose: screen[r] = "closed" => BeingRefused(r)

\* On its way off the screen
BeingTakenDown(r) == \/ r \in closing[Owner[r]].told \/ r \in telling
                     \/ Queued("withdrawn", r)

\* Its client is there, and a close_tab of it would find the tab
CanWithdraw(r) == Served(Owner[r]) /\ r \in tabs

\* While a client is served, each of its tabs on the screen is one it can
\* still withdraw, or is being taken down, unless it was only announced after
\* it was given up: no event is lost and none overtakes the one before it
TabsCanGo == \A r \in Requests \ loose:
    screen[r] # "none" /\ Served(Owner[r]) => CanWithdraw(r) \/ BeingTakenDown(r)

\* The tab of a client that died goes too ("without it, a `claude` that died
\* mid-diff leaves ... a diff tab nothing will ever close").  False, and in no
\* run: cancel_connection refuses the requests and withdraws no tab, which
\* then only the person can close
TabsOfTheDeadGo == \A r \in Requests \ loose:
    screen[r] # "none" /\ link[Owner[r]] = "gone" /\ dropping[Owner[r]] = {} => BeingTakenDown(r)

\* Two diffs of one file are never waiting together
\* ("a second request for a file already under diff supersedes the first").
\* False: two calls may each look before the other has registered
OneLiveDiff == \A r, o \in pending: File[r] = File[o] => r = o

\* The drain after a project is closed ends without its timeout: every call
\* returns, those included that come while the calls are being swept
DrainEnds == []<>(stage = "draining" => project)

\* What is withdrawn gets off the screen
WithdrawnTabGoes == []<>(\A r \in Requests \ loose: screen[r] # "none" => r \in tabs)

\* Every call is one of DiffCalls: one verdict, an acceptance only for a
\* diff on the screen, and the answer is the verdict
Calls == INSTANCE DiffCalls WITH verdict <- reply, shown <- {r \in Requests: screen[r] = "shown"}
EveryCallKept == Calls!Spec
=============================================================================
