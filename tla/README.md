# cide, a verification project

cide is an IDE for coding agents: a Rust backend that runs the harness CLIs (claude, codex,
opencode) in pseudo-terminals, a registry of agent runs with queues and concurrency caps, a task
tracker, decisions asked of the person, a diff review protocol, and a web front end that draws it
all. This directory holds TLA+ modules translated from the backend's source, the instances TLC
checks, and proofs the TLA+ proof system checks.

Paths below are relative to the repository's root. The two files most often meant are
`crates/cide-app/src/agents.rs` (the registry of runs) and `crates/cide-core/src/user_requests.rs`
(the decisions asked of the person).

| module | what it is |
| --- | --- |
| `AgentRuns.tla` | the run registry: dispatch, queues, admission, slots, the state machine, child processes, Stop, Pause, Resume, exits |
| `MCAgentRuns.tla`, `Agents*.cfg`, `CancelRace.cfg`, `EndedCheckout.cfg` | its instances |
| `AgentRunsProofs.tla` | its theorems for all values of the constants, and their proofs |
| `AgentRunsOrderProofs.tla` | its theorems that need the environment to leave something undone |
| `AgentRunsPauseProofs.tla` | its theorem about the children that a Pause stops |
| `UserRequests.tla` | decisions asked of the person and the way the answers take back |
| `MCUserRequests.tla`, `Requests.cfg` | its instances |
| `UserRequestsProofs.tla` | its theorems and their proofs |
| `TerminalStream.tla` | what a terminal session promises the panes that show it (abstract) |
| `PtySession.tla` | a terminal session: reader, coalescer, credit, attach and detach, the exit; implements `TerminalStream` |
| `MCPtySession.tla`, `PtyStream.cfg`, `LostTail.cfg` | its instances |
| `PtySessionProofs.tla` | its theorems and their proofs, the refinement among them |
| `DiffCalls.tla` | what an agent that calls `openDiff` is promised (abstract) |
| `DiffBroker.tla` | the calls that wait for a review, and everything that can end them; implements `DiffCalls` |
| `MCDiffBroker.tla`, `Diffs.cfg` | its instances |
| `DiffBrokerProofs.tla` | its theorems and their proofs, the refinement among them |
| `Reaper.tla` | sessions of closed tabs: the reaper's tick and ladder against Ctrl+Shift+T |
| `MCReaper.tla`, `Reaper.cfg` | its instances |
| `ReaperProofs.tla` | its theorems and their proofs |
| `TaskStore.tla` | the task tracker: an index and a file per task, shared by several stores, merged and flushed |
| `MCTaskStore.tla`, `Tasks.cfg`, `GhostTask.cfg` | its instances |
| `TaskStoreProofs.tla` | its theorems and their proofs |
| `PROJECT.json` | components, runs, mutants, the map from definitions to source lines, findings, hazards, theorems |

Run a check with `tlc -workers 2 -config Requests.cfg MCUserRequests.tla`, a proof with
`tlapm UserRequestsProofs.tla`. A definition under the comment "mutant" is a plausible bug of the
definition beside it, which nothing uses: put in its place, it must make the property that
`PROJECT.json` names with it fail.

## 1. Inventory

### 1.1 The run registry (`cide-app/src/agents.rs`): modelled, partly

*State.* One mutex, `Inner`: the rows (`LiveRun`: state, slot, session, freeze, stop record, held
follow-ups), a FIFO queue per (project, role), slot counters per role and per project, the set of
paused projects, the table of frozen sessions, the restarts waiting for an old child to go.
*Operations.* `dispatch`, `pump`/`take_admissions`, `start`/`bring_up`, `note_hook` (hook frames),
`watch_exit_with` (a child is gone), `follow_up`, `stop`, `pause`, `resume`, and what a failed or
unsubmitted opening prompt does.
*Interactions.* Every operation is "lock, decide, unlock, act": what is done after the unlock
(fork, `SIGSTOP`, `SIGCONT`, `end_tree`, typing into a terminal, a sleeping grace timer) races
every other operation. Hook frames of a child arrive on one ordered thread, exits on the reaper's.
*Hard.* Decisions that are stale when carried out; a Stop between admission and fork; a Pause
between a permission and its answer; an exit under a restart; a slot released twice or never; a
queue nobody looks at again.
*Right when:* a counter is never below the runs that hold its slots; nothing is admitted over a
cap, and a slot a freeze gave away is given back or waited for; one run per (role, task) and one
child that stays per checkout; an ended run stays ended; a stopped child can be continued; when
everything has settled, no queue has a front that could run and every row says what its child does.

### 1.2 User requests (`cide-core/src/user_requests.rs`, `cide-app/src/user_requests.rs`): modelled, partly

*State.* One saved file (rows, claims `delivery_attempts`, prepared codex replies `tool_replies`),
in memory the leases of waiting calls (`waiters`).
*Operations.* `create`, `decide`, `dismiss`, `apply_response`/`apply_move`, `wait`, `tool_reply`,
`deliver_answer`, and the submission in each kind of conversation.
*Interactions.* An answer goes back by one of two roads: the reply of the tool call that waits, or
a turn typed into the conversation (a run that ended is queued again with it). The road is chosen
by looking at leases, transcript, claims and the conversation's state, each under a lock of its
own. The task tracker must have the decision on disk before anybody is told.
*Hard.* A crash between claim and submission; an Enter with no receipt; a call cut off after its
reply was written; a save that fails; a person who removes the answer meanwhile.
*Right when:* an answer is claimed and submitted once, applied before it is told, closed only when
told, final once told, and gets back to whoever asked.

### 1.3 Terminal sessions (`cide-pty/src/lib.rs`): modelled, partly

*State.* One child in a pseudo-terminal; a reader thread with a bounded queue; a coalescer thread
that owns the pending bytes, feeds the `vt100` mirror, and sends frames to the sinks, each with a
window of unacknowledged bytes; an exit slot with its watchers. In the app, one attachment per pane;
in the webview, a link per pane and the frames it has yet to parse.
*Operations.* `attach` (through the coalescer, or without it when it does not answer), `detach`,
`ack`, the coalescer's flushes, its idle tick and its end, `on_exit` and the reaper's publication.
*Interactions.* The child blocks on the reader, the reader on the coalescer; the coalescer must never
wait for a pane, so a pane that does not acknowledge is choked, skipped, and redrawn later.
*Hard.* Bytes both in the snapshot and in the next frame; a catch-up that overtakes or repeats;
acknowledgements that come after a detach, or after the debt was forgiven; the end of the output
with all of that under way; an attach sent to a coalescer that is going.
*Right when:* a pane shows a prefix of the output that only grows; a pane that stopped parsing stalls
nobody; the thread that attaches comes back; a watcher hears of the exit, once.

### 1.4 Diff reviews (`cide-ide-mcp/src/{diff_broker,tools,server}.rs`, `cide-app/src/ide.rs`): modelled, partly

*State.* The requests that wait (`pending`), the tabs a client may withdraw (`tabs`), each behind a
lock; a bounded channel to the pump that turns requests into tabs; a task per call.
*Operations.* `openDiff` (names its tab, supersedes older requests of the file, registers,
announces, waits), `close_tab`, `closeAllDiffTabs`, the end of a socket or of a tool session, a
cancelled call, the person's verdict, the closing of tab, pane and project, the server's shutdown.
*Hard.* Everything that ends a call races everything else that does, and the announcement.
*Right when:* a call gets one verdict, accepted only while its diff is on screen, and returns it;
no agent waits for a person who has nothing to answer; a tab can be withdrawn while it is up; the
drain of a closed project ends. (The second is true of the tab only, the third only while the client
lives: section 9.)

### 1.5 Closed tabs and the reaper (`reaper.rs`, `closed_tabs.rs`, `claude_tab.rs`): modelled, partly

*State.* Which sessions a pane names, the undo stack of closed tabs, the reaper's clock and its
`ending` set, the registry's entry per session, what each parked terminal shows.
*Operations.* A tick (snapshot of the tree, the ids, one look per session, signals, the ladder,
removals, the retirement of parked terminals), closing a tab, reopening it (wait for the ladder,
adopt the child or resume its conversation, put the tab back), closing a project.
*Hard.* The tick reads each fact at a moment of its own; a reopen in between must get either the
living child or a new one, never the one that is being ended, nor its parked terminal.
*Right when:* a pane on screen never has a child that is being ended or the terminal of another; no
child is out of the registry's reach; what nothing holds goes; a reopen ends.

### 1.6 The task tracker (`cide-tasks/src/lib.rs`, `cide-app/src/tasks_state.rs`): modelled, partly

*State.* `.cide/tasks.json` (the rows) and `.cide/tasks/<id>/task.json` (body, comments, history),
written by every store that is open over the directory; in each store the rows, the content loaded
so far, what of it is dirty, the ids removed, and the stamps of the files it last saw.
*Operations.* `open`, `get`, `create`, `edit`, `delete`, `refresh_from_disk`, `reload`, `write_now`
(reconcile, contents, directories, index), `close` and `flush_all`.
*Hard.* No lock between processes: a store may write what it read long ago, so every write is
preceded by a merge; a crash falls between any two files of a flush; a write fails; git leaves
conflict markers in the index.
*Right when:* whoever writes last, no entry, no withdrawal and no unlink is taken back; a row never
goes to disk before its content; what was accepted is saved in the end; a task edited by one and
deleted by another survives with the edit.

### 1.7 Not modelled

* **Native question batches** (`cide-app/src/native_questions.rs`): a question dialog of the
  harness itself, claimed (`claim_native`), finished, or retired when the call disappears, and
  reopened by a repeated event. Right when a retired answer never becomes a turn. The rows live in
  the store of `UserRequests`; its delivery is not that of this module.
* **Task dispatch and milestones**: auto-dispatch of runnable tasks, the integration of a
  milestone's batch. Right when a task is dispatched once and a batch lands once. The claim of a
  task and its dispatch are `AgentRuns`' `Dispatch`; the planner and the git steps are not there.
* **Agent RPC and tools**: MCP tools that call the registry, the tracker and the requests: each call
  is one of their operations.
* **Hooks** (`cide-app/src/hooks.rs`, `cide-hook`): the socket and the spool. What the registry
  needs of them, a frame at a time per child and in order, is what `AgentRuns` assumes.
* **Shutdown ladder** (`lifecycle.rs`, `logind.rs`): thaw, hang up, wait, kill, save, once, in one
  thread. The server's part of it is in `DiffBroker`, the tracker's in `TaskStore`'s `Close`.
* **Workspace tree, tabs, windows** (`workspace_state.rs`, `cide-core`'s layout): edits of a tree
  by one thread under one lock; long pure functions of a tree.
* **Persistence and the session journal** (`persist.rs`, `sessions.rs`): debounced atomic saves of
  one process's own files, quarantine, merges.
* **Edit wait, peer chat and consoles, remote, file index and watch, language servers**: each has
  a small protocol of its own.
* **Out of scope.** Git, search, symbols, spec files, docker, gitlab, extensions and the single
  instance socket are calls of outside programs, parsing or pure I/O; `jobs.rs` and `screen.rs`
  render one process's output; settings, key maps and wire types are data; the front end draws
  (but for a pane's link to its session, which is in `PtySession`); `cide-headless` and `xtask`
  drive and build.

## 2. Plan

Done, in this order: `AgentRuns` and its proofs; `UserRequests` and its proofs; `PtySession`
implementing `TerminalStream`; `DiffBroker` implementing `DiffCalls`; `Reaper`; `TaskStore`; the
proofs of each of these; and last, in `AgentRunsOrderProofs`, what of the registry is true only
while the environment leaves something undone, with Pause and Resume in `AgentRunsPauseProofs`. The
modules do not share state in the code but at a few calls, each of which is an action of the module
that owns the state: a run's answer is typed into a conversation
(`UserRequests`' `Send*`), a session's child is ended (`AgentRuns`' `EndOldChildren`, `Reaper`'s
ladder), a project is closed (`DiffBroker`, `Reaper`, `TaskStore` each have their part of it).

Next, by what it would add: `NativeQuestions` over the rows of `UserRequests`; auto-dispatch and
milestones over `TaskStore`'s rows and `AgentRuns`' `Dispatch`; inside `AgentRuns`, pools and
failover, parked prompts, the snapshot and the restart, panes that view a run, retirement.

## 3. AgentRuns

### 3.1 How it corresponds to the code

One action is one critical section of `Inner`. What an operation still has to do after it unlocks
is a record in `ops` (`[do, run, gen]`) that a later action takes up, so anything may happen in
between exactly where the code allows it. The two loops that hold the lock over several rows
(`take_admissions`, and `resume`'s reclaiming and requeueing) are taken one row per step under
`Unlocked`, which every other critical section has as its guard.

| code | model |
| --- | --- |
| `LiveRun` | `state slot session frozen stop stopping held openings seq` |
| `Inner` | `queues agentSlots projectSlots paused frozenSessions restarts` |
| `set_state_from_session` | `SetState`, with `Landed`, `WindDownStep`, `Wakes`, `ForgetsFreeze`; `Settle` is the caller that compares first |
| `enqueue_unique`, `insert_run` | `Dispatch` |
| `pump`, `take_admissions`, `admit_a_pass` | `pumpDue`, `PumpStarts`, `PumpVisits` (`Admit`/`PassOver`), `PumpTurns` |
| `start`, `bring_up`, `start_child` | `Bind`, `Fork`, `BootFails`, `FinishFailed` |
| the opening prompt's watch | `OpeningDone`, `AbandonUnsubmitted`, `OpeningGivesUp` |
| `note_hook`, `Harness::observe`, `next_state` | `ApplyFrame`, `Heeds`, `Meaning` |
| `watch_exit_with`, `external_stop`, `plan_restart` | `ExitDecided`, `ExternalStop`, `ExitRestarts` |
| `plan_stop` and its routes, `kill_child`, `ask_to_wind_down`, `plan_forced_stop` | `PlanStop`, `CancelDequeues`, `CancelLands`, `KillLands`, `AskToWindDown`, `GraceRunsOut` |
| `plan_follow_up`, `reserve_blocked_retry`, `send_prompt` | `FollowUp`, `HeldFollowUp`, `Reserve`, `SendPrompt` |
| `take_freezes`, the `SIGSTOP`s | `PauseRun`, `PauseProject`, `SigStop` |
| `resume` | `Resume` ... `ResumeDone`, one action per lock it takes |

External: the harness CLI (`Child*` actions). A child shows its splash screen, takes a typed line,
works, may ask for a permission or have its turn fail, and goes; each step sends one hook frame,
except that a child may exit at any time. A stopped child does nothing at all.

Abstractions. A run's n-th child is `<<run, n>>`, in place of a fresh session id; `start` may name the
old session again for a row that is resumed (`resume_point`), and its child is a new one all the same.
Where the code unlocks between two sections that nothing else can tell apart, they are one step:
`finish_failed`'s two (`FailedStart`), and `plan_restart`'s failure of a run that is being stopped
(`ExitRestarts`). `going_down` is not modelled: the application runs. Every run has a
task and worktree isolation, so (role, task) determines the checkout. Held follow-up lines are one
flag. What a failed turn says is not kept: a blocked row is one that gave up its slot. That a pane
views a run's conversation is a free choice where the code asks (`ReclaimKeeps` without room,
`RequeueOne`'s skip). `bring_up` also ends idle children left in the run's checkout; an Idle run
holds its pair, so with every run on a task there is never one to end.

### 3.2 What the runs check

| run | instance | properties |
| --- | --- | --- |
| `AgentsQueue` | two runs of one role on two tasks, caps 1 and 2: two dispatches with an opening that never takes, or a failed turn, and a follow-up, the latter with a permission, or with a Pause; one dispatch with a Stop, a failure and an opening stuck twice, or with a Pause and one of: a Stop, a failure, an opening stuck twice, changed settings and an exit | `TypeOK`, `NoLostWakeup`, `NoChildLeftStopped`, `AdmittedUnderTheCaps`, `SlotOwedIsReturned` |
| `AgentsPair` | two runs of one (role, task), one of them Interrupted at launch, up to three children each: a dispatch beside it with an exit, an outside SIGTERM and a failure, with an opening stuck twice, or with a Stop and a stuck opening; or the interrupted one alone with a Stop and a Pause, two Stops and an exit, a Stop, a failure and an opening stuck twice, or an outside SIGTERM and an opening stuck twice | `OneRunPerPair`, `OneChildStays`, `SlotsCovered`, `EndedStaysEnded` |
| `AgentsFair` | two runs, cap 1, a Stop and an exit; one run with a permission, a failure and a follow-up; under fairness | `RowMatchesChild`, `QueuedRunStarts`, `AskedRunEnds` |
| `CancelRace`, `EndedCheckout` | violated: see section 9 | one each |

The properties are in words beside their definitions. Three of them are the part that is true of a
stronger sentence one would like to say, and the sentence itself stands beside them, named, marked
False and in no run: `NoHangUpPends` beside `NoChildLeftStopped`, `OneLiveChildPerCheckout` beside
`OneChildStays`; `EndedStaysEnded` excepts by name the two ways an ended run does come back
(`SignalPending`, `FailedInQueue`). Section 9 has what happens there.

`SlotsCovered` says that a counter is never
too low, and that is all that is true of it: once two Stops and a Pause race a restart, a counter
may say more than the runs that hold its slots, since `release` saturates and a freeze releases a
slot that a racing thaw takes again. Never too low is what admission under the caps needs.

*Bounds.* `Runs`: two, since everything one run can do to another goes through a shared queue, cap
or checkout. `Budgets`: how often runs are dispatched, and how often the environment may do each
thing it decides (press Pause, fail a boot, ...); each run of TLC takes the mixtures its question is
about, and between them every action fires. `MaxGen` (2) children per run: one to be restarted or
requeued from and one after it; in `AgentsFair`, 1, which leaves restarts out of the liveness
question. In `AgentsPair` it is 3: an interrupted row comes with the child it had, and an opening that
is tried again needs two more. `MaxFrames` (1) frame in flight per child: frames of one child are
applied in order, so a second only delays. `OpeningRequeues` is 1, as in the code. `Overlapping = FALSE`: a button is not
pressed again while the signals and steps an earlier press decided for that run are still to be
carried out; the races that need two presses inside one such window are listed in section 9. Of the
theorems of section 10.1, those of `AgentRunsProofs` hold with `Overlapping = TRUE`; the others say
what they need. `RequeueTakesLock` waits until the frames of
children that are gone have been applied: a bound on how late a frame may be.
`CHECK_DEADLOCK FALSE`: the registry may come to rest, every run ended or waiting for a press.

*Fairness* (`FairSpec`). Weak fairness of what the code runs by itself: the admission loop (each
`pump` runs to its end), the tasks spawned per start, per stop and per grace timer, the ordered
hook thread, the exit watcher; and of the child: it gets ready, takes a line, ends a turn, and goes
once hung up. Nothing is assumed of a person, of permissions, of a child that was not asked to end,
or of `resume`, which needs a press. `QueuedRunStarts` therefore leaves Pause and failures out of
its instance: a paused project's queue rightly waits for ever.

## 4. UserRequests

### 4.1 How it corresponds to the code

| code | model |
| --- | --- |
| `File` (rows, `delivery_attempts`, `tool_replies`) | `row attempts replies`; each `update` is saved before it returns, or (`NotSaved`) changes nothing |
| `waiters`, `WaitedRequest` | `Leases` of `call` |
| the tracker's file, `apply_response`, `apply_move` | `tasksDone`, `ApplyBegins` ... `ApplyCompletes`, `ApplyFails`, `ApplyResets` |
| `create`, `decide`, `dismiss`, `delivered` | `CallAsks`, `Decides`, `Dismisses`, `MarksDelivered` |
| `AppTools::user_request`, `wait`, `tool_reply`, the completion of `on_reply` | `CallReads`, `CallRecordsReply`, `CallWrites`, `CallFinishes`, `CallFails` |
| `deliver_answer` | `DeliverFetches`, `ReadsTranscript`, `ChecksAttempts`, `Offers` and its alternatives, `BeginLooksForWaiter`, `BeginClaims`, `Send*`, `Unclaims`, `DeliverMarks`: a step per lock |
| `plan_user_request_delivery` | `OpenedWith`, `Offers`, `OfferWaits`, `OfferRequeues`, `OfferRefused` |
| `received_answer` | `Received`, `TurnsFinished` |
| `LiveRun::prompt`/`requeued`, the snapshot of runs | `opening`, `snapshot` (saved later, by `SnapshotSaved`) |

The conversation (`conv`, `turn`, `ended`, `shown`, `consumed`) is external: a harness that is idle
or busy with a turn, whose process may go, and whose transcript shows what was said. `Crash` keeps
the file, the tracker's, the transcripts and the snapshot, and nothing else. `sent`, `opened`,
`written` and `dismissed` are history and guard nothing.

One conversation asks one question. `Requests` are the records this can come to (a retried call
asks anew once the first record is answered), `Calls` the tool calls. The three kinds of question
differ in what must be applied: nothing, a task's own question, or a proposal of moves.

### 4.2 What the runs check

`Requests` checks, for a claude pane, a claude run, an opencode pane and a codex pane, each with a
few mixtures of troubles: `TypeOK`, `ClaimedOnce`, `AppliedFirst`, `DeliveredWasTold`,
`OneOpenDecision`, `ToldIsFinal`, `DismissedStays`, and under fairness `DecidedIsHeard`.

*Bounds.* Two records and two calls: a question, its retry, and a call that is cut off while another
waits. `Cases` names the conversations and, with each, the things its environment may do (once
each). All combinations at once are out of reach; the mixtures were chosen so that every step of
every kind of conversation happens, and each property has been seen to fail under a plausible bug
(the mutants). `MaxTurns` (5) is above what any mixture can use but for the person's own turn.
`TurnLost = FALSE` in `Requests`: a process that dies has its turn's end in the transcript; with
`TRUE`, `DecidedIsHeard` is false (section 9, the stranded reply).

*Fairness.* The delivery loop visits every row on every pass, so fetching a row that is again and
again deliverable happens (strong fairness, as one row's delivery blocks another's); the same for
the thread that applies, behind its mutex; calls, admissions and a delivery under way go on; a turn
that waits for no call ends. Nobody has to answer, to type, to dismiss, and no model has to look at
a tool result. `DecidedIsHeard` excuses a conversation that for ever waits for another decision, and
one that could not be opened again.

## 5. PtySession

### 5.1 How it corresponds to the code

Output is a stream of bytes numbered from 1, and each party is how far it has got:
`read >= queued >= mirror >= sent`, and for each pane the last byte it shows. A step is what one
thread does between two places where another can get in: one critical section of the sinks, one
message of a channel.

| code | model |
| --- | --- |
| the reader thread and its bounded channel | `Reads`, `Queues` (blocks while `~HasRoom`), `ReaderEnds` |
| `coalesce`: output, idle, control, end of file | `Takes`, `Splits`, `Flushes`; `Idles`, `Ticks`; `ServeAttach`; `Ends` |
| `broadcast`, `Registered`, `CreditPolicy` | `SinksAfter`, `InboxAfter`, `Skipped`, `Choked`, `Delivered`, `Payload`, `Served` |
| the watchdog of a choked sink | `WatchdogPasses` (its time is up), `late` |
| `attach_with_snapshot` and its fallback | `AttachAsks`, `AttachGivesUp`, `AttachPushes`, `AttachRenders`, `AttachReturns` |
| `session_detach`, `session_ack` | `Detaches`, `AckLands`, `Acked` |
| the sink of a pane in the web front end | `PaneParses`, `PaneCloses`, `PaneReloads`, `PaneVanishes` |
| the reaper, `ExitSlot`, `on_exit` | `Reaps`, `Flags`, `Calls`, `OnExit` |

`TerminalStream` knows only how many bytes there are and how many of them a pane shows: a pane joins
anywhere, only moves forward, and leaves. `StreamKept` maps the mirror to the first and a pane that
attached at the cut point to the second (`Showing`), with a value outside the abstract state once a
frame did not start where the pane had stopped. A pane that came by the fallback (a coalescer that
does not answer in time) is not mapped: the code says that such a pair is not synchronised. Nor is a
pane that was sent the screen in the middle of a chunk that fills a frame and more (`DrawnAhead`):
section 9 says why. The ids of both are kept in `loose`, which the code does not have.

### 5.2 What the runs check

`PtyStream`: `TypeOK`, the refinement `StreamKept`, and under fairness `WatchersHear`, `ReachesSink`,
`MainComesBack`. `LostTail` is violated: see section 9.

*Bounds.* Each is the smallest that makes the case happen. A frame is three bytes, a flush two, a
read one to three (as in the code, where one read may fill a frame), a picture of the screen one; a sink chokes at three owed and is clear again at one:
five bytes choke it, let it recover and choke it again. The queue holds one chunk, so a second blocks
the reader. Four mixtures: one pane and five bytes; a pane that comes and goes around the end of the
output; two mirrors of one session; two watchers around the child's death.
`CHECK_DEADLOCK FALSE`: a session that has ended, or whose child is silent, comes to rest.

*Fairness.* The threads of the session run and time passes (`Threads`). Weak fairness to all of them
together is fairness to each, since none can go on for ever without a step of the child, of a pane
or of an attach, and those are bounded. A child need not write or die, and a pane need not parse
(`ReachesSink` is about a pane that does not); `LostTail` alone assumes a pane that parses and
acknowledges everything (`HealthySpec`).

*Left out.* The writer thread and its Ctrl-C handshake, jobs, the line renderer, resizes, and what a
screen looks like: a snapshot of the mirror is the number of bytes it has taken.

## 6. DiffBroker

### 6.1 How it corresponds to the code

| code | model |
| --- | --- |
| `open_diff`, `DiffBroker::open` | `Reads`, `NamesTab`, `LooksForOlder`, `Supersedes`, `Registers`, `Announces`, `Returns` |
| `PendingDiff::drop`, `notify_withdrawn` | `Drops` (`IsCancelled`, `IsStopped`), `Notifies` |
| `resolve`, `cancel`, `withdraw` | `Verdict`, `Refused`, `Withdrawn` |
| `close_tab`, `closeAllDiffTabs`, `ToolSession::close` | `ClosesTabs`, `SessionCloses`, `WithdrawsTab`, `TellsOfTab`, `GivesUpTelling` |
| `serve`'s end, `cancel_connection`, `ToolSession::drop` | `SocketEnds`, `SocketRunsDry`, `Disconnects`, `CancelsOrphan` |
| the pump's two diff events | `OpensTab`, `TakesTabDown` |
| `claude_diff_result`, `close_tab_checked`, `pane_close`, `close_project_here` | `Answers`, `ClosesTab`, `ClosesPane`, `ReadsDiffs`, `ClosesProject`, `StaysOpen`, `CancelsClosed` |
| `IdeServer::shutdown` | `ShutsDown`, `SweepsAll`, `CancelsAtShutdown`, `ClearsConnections`, `HasDrained`, `DrainTimesOut` |

A oneshot is sent in the step that takes its request out of `pending`: nobody can look in between,
as whoever removed the request is the only one with its sender. For the same reason the two locks of
`PendingDiff::drop` are one step. `loose` is history: the requests whose announcement came after
their tab had been given up, or whose withdrawal a cancelled call never told. The code leaves the
tab of such a request up (section 9), and the properties are about the others.

`DiffCalls` says, per request: no verdict, then one, never changed; accepted only while the diff is
on screen; and an answer that is the verdict, or an error when the call was given up.

### 6.2 What the run checks

`Diffs`: `TypeOK`, `WaitsWithATab`, `TabsCanGo`, the refinement `EveryCallKept`, and under fairness
`DrainEnds` and `WithdrawnTabGoes`. `WaitsWithATab` is about the tab, not the diff in it, and `TabsCanGo`
about the tabs of a client that is served. What one would like besides, `WaitsWithADiff`,
`TabsOfTheDeadGo` and `OneLiveDiff`, is stated beside them, is false, and is in no run (section 9).

*Bounds.* One project; a socket with two requests and a tool session with one, all of one file; each
request is made once; one `close_tab` per connection at a time; the channel to the pump holds one
event (it holds 64 in the code), so that it is often full. Six mixtures (`Mixed`) of who may end what.
The application is not quit from inside another command. `CHECK_DEADLOCK FALSE`: everything may be
answered.

*Fairness* of the threads together: the call tasks, the pump, the ends of connections, the command
that is under way. Agents and the person are not fair. `DRAIN_TIMEOUT` may pass at any time and is
never relied on: `DrainEnds` holds without it.

*Left out.* `cancel_tab` and `cancel_pane`, which no code of the application calls; the end of the
asynchronous runtime under its tasks; what a diff holds; the other tools.

## 7. Reaper

### 7.1 How it corresponds to the code

| code | model |
| --- | --- |
| `tick`: the snapshot, `registry.ids`, `Clock::retain`, `due` | `Ticks`, `TicksOff`, `ReadsIds`, `ReadsOne` |
| `end_ladder`, the removals, `panes_retired`, the `ending` set | `Begins`, `LadderEnds`, `Removes`, `Tells`, `Clears` |
| `wait_out`, `resume_closed` | `WaitedOut`, `Adopts`, `Resumes`, `Spawns`, `FailsToSpawn` |
| `tab_reopen_closed`, `reinsert_record` | `Reopens`, `Reinserts`, `Mounted` |
| `close_tab_checked`, `ClosedTabs::push` | `ClosesTab`, `Pushed` |
| `close_project_here`, `stop_closed_sessions` | `ClosesProject`, `StopsOne` |

A conversation that is resumed keeps its session id, so its children have generations, and
`registry[s]` is the generation its entry holds. Abstractions: the rungs of the ladder are one
(`LadderEnds` may come before a child is gone); `wait_out`'s 3 s do not run out before the ladder's
2.5 s do; the clock is how old an entry is at most (`age`), so time may pass at any speed; what holds
a session besides a pane (a turn, a run, a pair, a device's look) is `held`; the events that retire
parked terminals and the mounting of the pane are one step, and so are the tree's update, the hang-ups
and the push of `close_tab`.

`hasty` is history: a reopen that decides while a tick is between its look at the tree and the
`ending` set it publishes, or that finds a child that was signalled by someone who publishes nothing.
The code is not safe then, see section 9, and the two safety properties are about the others.

### 7.2 What the run checks

`Reaper`: `TypeOK`, `NoDeadPane`, `NoChildLost`, and under fairness `DetachedGoes` and `ReopenEnds`.

*Bounds.* Three tabs (two panes, one pane, one that cide opened by itself), two children per
conversation, an undo stack of one record, so that the second closing pushes the first off it. Five
mixtures of closings, reopenings, an exit, a look, the setting and the project's closing.
`CHECK_DEADLOCK FALSE`: with the setting off and nothing left to do, nothing happens.

*Fairness.* The reaper's thread, the clock, the death of a child that was signalled (at the latest by
`SIGKILL`), and a reopen that was begun. Nobody has to close, reopen, look away or switch.

## 8. TaskStore

### 8.1 How it corresponds to the code

| code | model |
| --- | --- |
| `tasks.json`, `task.json`, `DiskState` | `index`, `file`, `tracker` |
| `TaskStore::inner`, `ContentCache` (`loaded`, `dirty`, `removed`), `Debouncer` | `mem[s]`: `rows held dirty removed due` |
| `FileStamp`s | `seen`, `fresh`: the stores whose recorded stamp is that of the file as it is now |
| `reconcile_comment`, `merge_content`, `merge_row`, `merge`, `newest_content_stamp` | `MergeEntry`, `MergeContent`, `MergeRow`, `MergeRows`, `Raised` |
| `reconcile_content`, `reconcile` | `Moved`, `ContentTaken`, `Reconciled` |
| `refresh_from_disk`, `reload` | `Refresh`, `Reload` |
| `update` with `create`, `edit`, `delete` | `Edits`, `Put`; `Create`, `SetTitle`, `SetBody`, `Comment`, `SetStatus`, `EditComment`, `DeleteComment`, `Link`, `Delete` |
| `write_now` | `Flush` or `Close`, `WriteContent`/`ContentFails`, `RemoveDirs`, `WriteIndex`/`IndexFails` |
| `open`, `TasksStores::close`, `flush_all`, a death | `Open`, `Close`, `Crash` |
| git's conflict markers in the index | `Conflicts`, `Resolves` |

A time is the stamp of an edit; a comment or a status change is named by the stamp it was made at and
holds the stamp of its last edit and whether it is withdrawn. A row has the stamps of its creation,
of its last change, of its scalars and of one edge. `told` (what was accepted), `deleted` and
`spoilt` (tasks of which a content file could not be written) are history and guard nothing but
`Create`: an id is not minted again while anybody knows it.

### 8.2 What the runs check

`Tasks`: `TypeOK`, `IndexIsBacked`, `NothingTakenBack`, and under fairness `EditsAreSaved`.
`GhostTask` is violated: see section 9.

*Bounds.* Two stores, two tasks, up to four edits. One edit per millisecond; two flushes do not
overlap and git does not touch the index during one (`Alone`): the window between a store's look at
the stamps and its rename is the one `write_now` documents and declines to close. Six mixtures: two
stores writing one log; one row with its edge; a new task beside another; one store that dies and
fails anywhere in a task's life; a tracker in conflict and a store that is closed; two stores one of
which dies. A deletion beside a second writer is `GhostTask` alone. A row of the history may be
rewritten like a comment: more than the code does.

*Fairness.* The flusher thread of a store that is open, and the watcher that tells a store of what
moved on disk. Nobody has to edit, to close, or to resolve a conflict.

*Left out.* Ids that collide between two machines, checkouts of older states of the files, quarantine
of a broken file, migration of older schemas, attachments, the order of the board, validation.

## 9. Where the code and what is said of it disagree

Each of these is a run that TLC must find violated; `PROJECT.json` quotes the line contradicted.

| run | what happens |
| --- | --- |
| `CancelRace` | A Stop reads a queued row and unlocks; admission takes the run; the Stop then cancels a row whose start is under way, and the child is forked for a run that "was cancelled before it started". |
| `EndedCheckout` | `holds_its_checkout` asks the stop record before the state, so a run that ended while winding down, with a wind-down never recorded as over, keeps its checkout, and a queued run of that pair never starts. |
| `LostTail` | At the end of the output a sink that is choked or owes a catch-up is skipped by the last broadcast, and there is no later tick: the pane never shows the tail. |
| `GhostTask` | A store that deleted a task merges back the row another store has edited since, and removes the content directory all the same: the row stays, its body and conversation are gone. |

Others met while modelling, which are not runs.

*The registry.*

* `kill_child` between `bind_session` and the fork finds no registered child; the fork follows, and
  the run recorded as killed works on (`agents.rs:9683`).
* A frame applied while the row is Paused is dropped; after the thaw the row says what was true
  before the freeze, and may read Running over an idle child, holding its slot. `RowMatchesChild` is
  false with a Pause in the mixture.
* A project's Pause freezes an Interrupted row that still names a session (`freeze_run` refuses only
  ended rows and rows with no session, `agents.rs:4907`); the row then reads Paused with no child, and
  `OneRunPerPair` is false with a Pause in `AgentsPair`'s first mixture.
* The comment there says that a queued run is never frozen, since it has no child. But
  `requeue_interrupted` (`agents.rs:5703`) leaves a row its session: paused before it is admitted, it
  reads Paused while it stands in its queue, the loop admits it with its freeze, and `finish_thaws`
  puts Queued over a run that works.
* `kill_child` takes the freeze record off, continues the child and hangs it up (`agents.rs:9677`)
  while Pause's `SIGSTOP` is still to come; the signal then stops a child no table names, and the
  hang-up stays pending. The kill of a grace timer that runs out during a Pause does this too, and so
  does a run that is paused between `abandon_unsubmitted`'s decision to give up and `finish_failed`.
  `NoHangUpPends` says that it does not happen, and is false; `NoChildLeftStopped` is about children
  nobody has hung up.
* `follow_up` reads the freeze under the lock and types after it (`agents.rs:3405`): a Pause in
  between stops the child first. Follow-ups held for a hand-back are dropped with a run that ends
  before it (`agents.rs:3812`).
* A blocked run whose turn starts by itself takes its slot back past the cap (`agents.rs:3751`).
* `reclaim_slots` requeues a frozen run, and the pump may fork its next child before `end_tree` has
  ended the old one (`agents.rs:5309`); a bound on the order of the two keeps it out of the runs.
* A run frozen while Idle held no slot; restarted on thaw for changed settings, it goes to Starting
  without one. A follow-up to an Idle run that is then paused and resumed does the same by design:
  `SlotOwedIsReturned` is therefore about slots that a freeze gave away.
* A Pause of a restarted run between `plan_restarts` and `finish_thaws`: the latter thaws by run, not
  by session (`agents.rs:5443`), and clears the new freeze with the slot it owes. `SlotOwedIsReturned`
  is false with `Overlapping = TRUE`, two Pauses and one change of settings, in 16 steps.
* A restart of a run that was stopped meanwhile fails the run and pumps nobody (`agents.rs:698`,
  8738): a queue is left with a front that could run, and `NoLostWakeup` is false with two
  dispatches, a Pause, a change of settings and a Stop.
* A run that is paused while its opening gives up or its boot fails, and requeued by `reclaim_slots`
  in between, is failed by `finish_failed` while it stands in its queue; the admission loop then
  starts it again. The same when an outside signal interrupts a run whose start is failing and a
  Resume requeues it. This is `FailedInQueue`, which `EndedStaysEnded` excepts: `AgentsPair` has the
  second way in its mixtures.
* `external_stop` writes Interrupted without a compare, whatever has become of the row since the
  signal: it brings back a run that `finish_failed` ended, or interrupts one whose opening was
  requeued and which has its next child. This is `SignalPending`, which `EndedStaysEnded` excepts and
  `AgentsPair` has in its mixtures. `RowMatchesChild` and, with a run of the same pair beside it,
  `OneRunPerPair` are false with an outside signal and an opening stuck twice.
* A Stop decides to discard an interrupted row, a Resume requeues it, the Stop lands: the row is
  Cancelled and stands in its queue, and the admission loop starts it (14 steps, `Overlapping =
  TRUE`). `EndedStaysEnded` is false.
* `abandon_unsubmitted` gives up the checkout before its child is killed (`agents.rs:8709`); its next
  child, or a run of the same pair, may be forked beside it. `OneLiveChildPerCheckout` is false;
  `OneChildStays`, which `AgentsPair` checks with such openings, says that one of the two is being
  ended, or was cancelled as in `CancelRace`.

*User requests.*

* The stranded reply: a codex reply was prepared and the process died before its turn's end was
  recorded. `received_answer` waits for that end for ever and the answer is never submitted
  (`conversations.rs:122`; `docs/journal.md:18026` says it is). The same for a reply prepared for a
  turn nobody could name.
* `plan_user_request_delivery` queues an ended run with the answer as its opening without calling
  `begin` (`agents.rs:3382`): closed meanwhile by another road, the answer is given a second time.
  A dismissed answer whose run is already queued with it is said all the same.
* `submit_mobile` refuses before it writes anything (a draft in the composer, another message in its
  lane), and that is an error, not `NotSent`: the claim stays and the answer is never submitted. The
  same when the save that gives a claim back fails. `DecidedIsHeard` counts a claimed answer as on
  its way, so it does not see this.
* Between `begin`'s look at the leases and its claim a call may start to wait: the answer is told
  once as a tool result and once as a turn.
* After a crash with the moves applied and not yet completed, a milestone that changed resets the
  answer although the tasks have moved. The snapshot of runs lags behind admission: after a crash an
  opening that was said looks queued.

*Terminal sessions.*

* An attach that times out while the coalescer is alive falls back to the unsynchronised pair and the
  request it left in the channel is still served: the sink is registered twice under one id.
* One read may fill a frame (`READ_BUF` and `MAX_FRAME` are both 64 KiB) and find bytes pending
  before it. The split then sends one frame of what the mirror has already (`lib.rs:1860`); a sink
  that owes a catch-up is sent the whole screen instead (`lib.rs:2006`), and the rest of the chunk is
  sent to it once more as bytes: they show twice. The proof of `StreamIsKept` met this; TLC has it in
  24 steps of an instance with seven bytes, two more than `PtyStream` has. The model notes the ids of
  such sinks in `loose`, and the refinement is about the others.
* A process that the child left behind keeps the output open after `exited` is set, so "exited" does
  not say that the output has been drained (`lib.rs:2073`).

*Diff reviews.*

* A diff's tab is split and the pane with the diff is closed: `pane_close` (`pane.rs:361`) closes the
  pane and nothing else, and `cancel_pane` has no caller. The request waits for a person who has
  nothing to answer, although `diff_broker.rs:15` lists the closed pane among what is handled. This
  is `WaitsWithADiff`.
* Two calls of one file at once supersede nothing, since `open` looks for older requests and inserts
  its own under two locks (`diff_broker.rs:98`): `OneLiveDiff` is false in nine steps.
* A client that dies while its diff is up: `cancel_connection` (`diff_broker.rs:217`) refuses its
  requests and withdraws no tab, so the tab stays until the person closes it, although the comment
  above it says that without the call there would be "a diff tab nothing will ever close". This is
  `TabsOfTheDeadGo`.
* A `close_tab`, or the end of the socket, handled between a call's registration and its announcement
  leaves a tab nobody can withdraw; so does a `close_tab` that is cancelled while it waits for room.

*The reaper.*

* A reopen between a tick's look and the `ending` set adopts the child that is about to be ended (five
  steps), or resumes the conversation, whose new child the tick's removal then takes out of the
  registry by id (`reaper.rs:288`, seventeen steps): the child runs on with no handle to it.
  `wait_out` protects only a reopen that decides later.
* "Continuously unreferenced" is sampled at the ticks: a tab closed, reopened and closed again between
  two of them counts as closed, or as open, all along.

*The task tracker.*

* Loaded content that is not dirty is never read again (`lib.rs:3739`): an open card shows an old
  conversation, and a body cached before another store changed it is written back with the next
  comment. `dotcide.rs:143` says the route is there to prevent the first.
* Both sides of a tie keep their own copy in `merge_row`, and `reconcile_content` raises stamps to
  equality: two stores that differ in a scalar under one stamp rewrite the index in turn, for ever.
* A directory left by a crash before its row was written keeps its log; a task that is later given
  its id starts with a blank one, and drops it at its first flush.

## 10. What is proved

### 10.1 The registry

`AgentRunsProofs.tla`, for every value of the constants (`Overlapping` included):

| theorem | what it says |
| --- | --- |
| `RegistryTyped` | `Spec => []TypeOK`, the queues and the records of `resume` included |
| `SlotsNeverUndercount` | `Spec => []SlotsCovered`: no counter ever says less than the number of runs that hold one of its slots |
| `AdmissionUnderTheCaps` | `Spec => AdmittedUnderTheCaps`: the loop admits a run only while fewer runs than its stamped limits hold a slot of its role and of its project |

`AgentRunsOrderProofs.tla`, for every value of the constants that satisfies the assumption named:

| theorem | assumes | what it says |
| --- | --- | --- |
| `OwedSlotsAreReturned` | `~Overlapping` | `Spec => SlotOwedIsReturned` |
| `OnePairOneRun` | `Undisturbed` | `Spec => []OneRunPerPair` |
| `TheEndedStayEnded` | `Undisturbed` | `Spec => EndedStaysEnded` |
| `NoWakeupIsLost` | `Undisturbed` | `Spec => []NoLostWakeup` |
| `RowsMatchTheirChildren` | `Undisturbed` | `Spec => []RowMatchesChild` |
| `OneChildPerCheckout` | `Undisturbed` | `Spec => []OneChildStays` |
| `NoStoppedChildIsForgotten` (in `AgentRunsPauseProofs.tla`) | `Untroubled` | `Spec => []NoChildLeftStopped` |

*Assumptions.* The named `ASSUME`s of `AgentRuns`: finitely many runs; stamps and limits are
functions of the right type; runs of one (role, task) are of one role, runs of one role of one
project; bounds are natural numbers. TLC evaluates them in every run. What the second table assumes
is not a fact about the code: it is the part of the environment under which the statement is true,
and section 9 has what happens outside it. `~Overlapping` says that nobody presses a button of a run
while what an earlier press decided for it is still to be carried out; without it a second Pause
loses the slot that is owed. `Undisturbed` says that nobody presses Pause, that no child is signalled
from outside, and that presses overlap only where no previous cide left rows behind. With a Pause
three of its statements are false: an Interrupted row is frozen (`OneRunPerPair`), a restart pumps
nobody (`NoLostWakeup`), a frame is dropped (`RowMatchesChild`); the other two are checked with one in
`AgentsPair`, not proved. With an outside signal `external_stop` lands on whatever the row says by then,
and with overlapping presses and rows of a previous cide a Stop that decided to discard a row lands
after Resume has requeued it. Everything else may happen, any number of times and in any order: dispatches,
Stops forced or not, Resumes of interrupted rows, follow-ups, exits, failed boots and turns,
permissions, openings that never take. Beyond that the runs check all but `RowMatchesChild` with a
Pause or an outside signal in the mixtures that leave them true.

`Untroubled` is about the theorem with Pause and Resume in it. Everything a person and a run can do is
there, without bound: Pauses of runs and of projects, Resumes, Stops with and without force, dispatches,
follow-ups, settings restarts, exits, failed boots and turns, permissions, openings that never take.
Three things are taken away. Buttons pressed one over the other, as above. An outside signal: one that
was decided before a Pause and a restarting Resume interrupts a run whose next child is stopped, and
the next Resume requeues the row as one without a child. Rows of a previous cide, because one that is
requeued still names a session and can be frozen in its queue: TLC finds no violation with such a row
on the instances tried, but the invariant does not hold of it.

*Argument, for all constants.* The inductive invariant is `IInv == TypeOK /\ ThawsKnown /\
SlotsCovered`. `ThawsKnown` is there because reclaiming a slot takes its session from `resume.todo`,
whose elements are pairs of a run and a number, and only being among `resume.thaws` makes them
sessions. `NextTyped` has a lemma per group of actions. For the queues, `Places` says what a
`SelectSeq` keeps in terms of places, and `DequeuedLeaves` that a retain leaves a queue of runs. For
the counters, `SlotSteps` shows that every step moves slots in one of
three ways: it takes one (`TakeSlot`), gives one up, saturating (`GiveSlot`), or gives up those of a
set of frozen runs (`Freeze`); or leaves them. `TakeSlotCovers`, `GiveSlotCovers` and `FreezeCovers`
show each of them to keep the covering, by the cardinality of the set of holders before and after.
`OnlyAdmissionMoves` says that under the admission loop's lock a row moves by `Admit` alone, whose
gate reads counters that are, by the invariant, no less than the holders.

*Argument, slots owed.* A debt is cleared by a thaw, and a thaw needs to know that what it clears was
repaid: `Repaid` says which sessions of a `resume` may still be owed a slot at each of its phases.
Every other step is `Honoured`: it makes no debt, or takes one off with a slot, a queue or the end.

*Argument, the order of things.* `OneRunPerPair` and `EndedStaysEnded` are not inductive: they fail
as soon as two decisions about one run are under way that contradict each other. `Order` says which
may be: a run is in one place of its start (`OneStart`), whoever stands in a queue is queued
(`QueuedWait`), a row that has not been started has no child and is nobody's to end (`Waits`,
`Ghosts`), what a Stop decided is still so when it lands (`StopsDecided`), and a Resume has only
interrupted rows to requeue (`Resuming`). `Passing` adds that the pass of the admission loop has only
fronts before it. Each group of actions has its lemma (`...InOrder`).

*Argument, wakeups.* `Woken` says of every state what the code's "pump after each release" amounts to:
no front can be admitted, or the loop has it before it, or something is on its way that starts the
loop: a pass that is due, a Resume, a Stop of a queued run, or a child's exit. A step that frees room
or a checkout must leave one of these (`StillWoken`, `SameRowsWoken`). The step that decides about it
is `SendPrompt`, which gives back a reservation and pumps nobody: it does so only when the child is
gone, and `Born` says that then the exit of that child is still to be decided (`ExitSeen`), after
which there is a pass.

*Argument, rows and children.* A row may only be compared with its child once its frames are heard, so
`Told` speaks of the frames: read as what the child did before and after each (`Before`, `After`),
those in flight follow one another up to what the child does now (`InSequence`), and the row says what
was true before the first of them (`ToldBy`). The lemma about hearing, `HearingTells`, and the one
about the child's turns, `TurnTells`, move along that sequence; `TailLeaves` and `FramesMean` are about
the sequences themselves. A boot to come has no child yet, so a new child starts with nothing unheard.

*Argument, one child.* That one pair has one run says nothing about the children of the runs that
ended. `Lone` does: a live child is about to be killed, or is its run's present one and that run holds
its pair or was cancelled, so of two live children of a pair that stay both would be of one run and of
one generation. It is kept because whatever is under way suits the child a run has (`Suits`): an
opening is given up only with the kill of every other live child to come, an exit decided only once the
child is gone, and a boot is of the present generation of a run whose earlier children are all gone or
to be killed. `StillLone` is about steps that leave a row its pair.

*Argument, stopped children.* `Known` says why a stopped child is not forgotten: it is marked, or the
Resume in progress has still to end it, or its run is over and out of the queue (`Rests`). `Sound` says
of each run that its stopped children are (`ChildSound`), that its marks are on its present child and
only while its row is frozen, and that each step under way agrees (`StepSound`): a start is of a run
without session and out of line, a `SIGSTOP` to come finds the mark its Pause made, or a child that is
going, or a run that rests, and is for no run of a Resume in progress. The middle case is a Stop's
kill between mark and signal, the last a run that failed there. That a row in line has no session
(`InLine`) is what makes a late failure of a requeued run harmless: it ends a row with no marks.
A fork must not meet a stopped child under its name: `Births` says that every session is forked once,
also when a restart and the pump mint at the same time. `MovedIsSound` and `SameIsSound` say what
leaves a run sound, a run that a step is about and one that it passes by; each group of actions has its
lemma (`...AreSound`).

*Not proved, only checked.* `QueuedRunStarts` and `AskedRunEnds` are liveness.

### 10.2 User requests

`UserRequestsProofs.tla`, for any sets of records and calls, any conversation, any number of turns
and any budgets of crashes, failed saves and lost input:

| theorem | what it says |
| --- | --- |
| `TypesHold` | `Spec => []TypeOK` |
| `ClaimsAreSentOnce` | `Spec => []ClaimedOnce`: no answer is sent twice by the delivery thread |
| `ToldAfterApplied` | `Spec => []AppliedFirst`: the tracker has it before anybody is told |
| `ClosedOnEvidence` | `Spec => []DeliveredWasTold`: no row is closed without a receipt, but by the person |
| `AskedOnce` | `Spec => []OneOpenDecision` |
| `DecisionsAreFinal` | `Spec => ToldIsFinal` |
| `DismissalIsFinal` | `Spec => DismissedStays` |

*Assumptions.* `NoRequestIsNone`, `CasesAreRecords` and `Bounds` of `UserRequests`.

*Argument.* A row is `Settled` when it is decided and has nothing left to apply. `RowSteps` lists
what a step may do to a row: ask, decide, close, reset, complete; `SettledStays` shows that none of
them takes a settled row back, because a reset and a completion are of the row being applied, which
is not settled. `InHand` says where an answer may be on its way: told already, held by the delivery
thread, the opening of a run or of its snapshot, or read by a call. `HandsTakeSettled` shows that
each of these either had it from another or tested the row when it took it, so `HandsHoldSettled` is
kept: this is what `AppliedFirst` and `ToldIsFinal` follow from, and neither is inductive without
it. For the claims, `ClaimKept` says that a claim lasts from before the submission until the row is
closed, and that a thread about to send, or about to give its claim back, has sent nothing;
`Claimable` then refuses whoever comes later, after any crash. `Receipts` ties the two kinds of
evidence (a line of the transcript, a written reply) to what was sent, opened, consumed or written.

### 10.3 Diff reviews

`DiffBrokerProofs.tla`, for any requests, connections, owners, files, names and capacity of the
channel, and any mixture of what agents and the person may do:

| theorem | what it says |
| --- | --- |
| `DiffsTyped` | `Spec => []TypeOK` |
| `NoneWaitsInVain` | `Spec => []WaitsWithATab`: a request that waits has its tab (the diff in it may be closed), is on its way there, or is about to be refused |
| `TabsCanBeWithdrawn` | `Spec => []TabsCanGo`: while a client is served it can withdraw each of its tabs that is up, or the withdrawal is on its way |
| `CallsKept` | `Spec => EveryCallKept`: `DiffBroker` implements `DiffCalls` |

*Assumption.* `ConstantsAssumption` of `DiffBroker`.

*Argument.* The refinement needs `CallsOK` only: a request is pending exactly from its registration
to its verdict, and an answer is given when the call is done. Each action is then a decision, a
return, an abandonment, a change of what is on screen, or a stutter. The other three rest on
`IInv == TypeOK /\ CallsOK /\ OrderOK /\ Kept`. `WaitsWithATab` alone is not inductive: that a refusal
is on its way depends on where in the closing of the project the request was read (`Refusing`), and a
tab that is up can go only if the announcement came before the withdrawal (`OrderOK`, on the order
of the channel) and was given up at most once (`TabOf`). All this is said of one request at a time
(`KeptOf`), so that a step about one leaves the others `Untouched`, which one lemma handles.

### 10.4 The task tracker

`TaskStoreProofs.tla`, for any stores over the directory, any tasks, any number of edits of any kind,
crashes, failed writes, closings and conflicts:

| theorem | what it says |
| --- | --- |
| `TypeCorrect` | `Spec => []TypeOK` |
| `IndexAlwaysBacked` | `Spec => []IndexIsBacked`: a row goes to disk after its content, wherever a crash falls |
| `NothingIsTakenBack` | `Spec => NothingTakenBack`: whichever store writes last |

*Assumption.* `ConstantsAssumption` of `TaskStore`; and, in the model itself, one edit per
millisecond and no two flushes at once (section 8.2). Of a task that some store has deleted the
theorems say nothing of its content: that is where `GhostTask` lives.

*Argument.* The inductive invariant is `IInv == TypeOK /\ ToldPast /\ OneFlush /\ Kept`, and `Kept` is
said of one task at a time, of the disk (`DiskOf`), of a store's memory against the disk (`HeldBy`),
of the edge (`Linked`) and of two memories against one another (`TwinsOf`). `NothingTakenBack` is not
inductive: a flush is safe only because what it is about to write is no older than the file, and that
in turn only because the store's recorded stamp is that of the file (`fresh`) or the content was
merged when the flush began: `AboveDisk` says it of both, for the entries made after the row was,
since a crash may leave a log without its row. For the index, `Linked` says that a store which has
seen the present index, or is writing over it, has an edge at least as late; and `SameEdge`, between
any two copies, that an edge's stamp says what the edge is, without which the later stamp would not
be enough. `IndexIsBacked` needs to know where an accepted edit is before its row is written
(`Told`: in memory or in the file) and that what a store need not write is already there (`OnFile`);
`OneFlush` keeps the directory still between the reading and the renaming.

`EntryMerged`, `ContentMerged`, `RowMerged` and `RowRaised` are the lemmas about the merge; `BegunHeld`
and `ReconciledHeld` put them together for what a flush or a refresh leaves in memory; `StepKeeps` and
`TaskStepKeeps` reduce a step to what it says of one store and one task, and each action has its lemma
(`...Keeps`).

*Not proved, only checked.* `SurvivesWithItsEdit` is false (section 9), `EditsAreSaved` is liveness.

### 10.5 The reaper

`ReaperProofs.tla`, for any tabs, any number of sessions in each, any depth of the undo stack, any
number of children of a conversation, and any mixture of closings, reopenings, exits, looks and ticks:

| theorem | what it says |
| --- | --- |
| `ReaperTyped` | `Spec => []TypeOK` |
| `NoPaneIsDead` | `Spec => []NoDeadPane`: no pane on screen has a child that is being ended, or the terminal of one that was |
| `NoChildIsLost` | `Spec => []NoChildLost`: no child that runs on is out of the registry's reach |

*Assumption.* `ConstantsAssumption` of `Reaper`. Both safety theorems are about the sessions that
are not `hasty` (section 7.1). The comment of `wait_out` (`reaper.rs:102-104`) makes no such exception: a
reopen that adopts a dying child is "the dead pane this module promises not to cause". In the `hasty`
windows the code causes it (section 9).

*Argument.* None of the three is inductive. What a tick ends, it decides from three facts read at
three moments, so the invariant says what each still means at every later point (`Ticking`, `Apart`):
from the snapshot until the `ending` set is cleared, a session found due has no pane on screen and no
reopen that has decided about it, because a reopen that decides before the set is published is
`hasty`, and one that decides after waits. `Found` keeps what the tick found due the registry's
child, without which its removal by id would drop another; `Chosen` keeps what a reopen decided (an
adopted child is not signalled, a resumed conversation has no living child) true until the pane is
back; `Terminals` says of a terminal that is not on screen that it shows the registry's child or is
about to go. That a tab is in one place, the tree, the stack or a reopen (`Somewhere`), and that a
closed project has nothing left to reopen (`Closing`), hold them together; `Numbered` makes a new
child no old one. Each action has its lemma (`...Keeps`).

### 10.6 Terminal sessions

`PtySessionProofs.tla`, for any panes and watchers, any sizes of chunks, frames, windows and queue,
any number of bytes, attachments and departures:

| theorem | what it says |
| --- | --- |
| `SessionTyped` | `Spec => []TypeOK`: nobody is ahead of the one it reads from, and the queue keeps its depth |
| `StreamIsKept` | `Spec => StreamKept`: the refinement of `TerminalStream` |
| `WatchersCalledOnce` | `Spec => []CalledOnce`: no callback of the exit is called twice (the safety half of `WatchersHear`) |

*Assumptions.* `Sizes` (a flush fits a frame, a frame is not empty, `Low < High`) and
`CasesAreBounds` of `PtySession`: nothing about how large a read is, so the theorem covers reads that
exceed a frame.

*Argument.* A pane's future is decided by frames it has not parsed and by sinks it does not see, so
`Streams` speaks of all three: from where a pane starts, the frames it was delivered are `Chained`
(each starts where the one before ended, or is a picture of a later screen), and they reach `sent`
unless every sink of the pane owes a catch-up (`Fed`). That needs the pane to have one sink: `Single`
says that an id is asked for once, and registered twice only when it is `loose`, and keeps the request
in the channel, the registered sink and the thread that waits apart. `Asking` keeps a pane that asks
from hearing anything before it is registered, which is what makes the picture it gets and the first
frame after it meet. `Channelled` orders the chunks in the reader's channel after the mirror.
A broadcast takes sinks out and serves the others: `SinksServed` and `InboxTyped` say so in terms of
places (`Places`: each place of a set is the k-th for one k), `StreamServed` is the case analysis of
one pane against one broadcast, and `BroadcastStep` what every flush and tick uses. Detaching and
acknowledging leave sinks that are `Kin` to those before. Each action has its lemma (`...Keeps`);
`StreamStep` maps it to a step of `TerminalStream` or to none.

*Not proved, only checked.* `ReachesSink`, `MainComesBack`, `TailIsShown` and the rest of
`WatchersHear` are liveness.

### 10.7 Beyond the proofs

Liveness under fairness (`QueuedRunStarts`, `AskedRunEnds`, `DecidedIsHeard`, `WatchersHear`,
`ReachesSink`, `MainComesBack`, `DrainEnds`, `WithdrawnTabGoes`, `DetachedGoes`, `ReopenEnds`,
`EditsAreSaved`) is checked by TLC alone: the proof system has no rules for it.
