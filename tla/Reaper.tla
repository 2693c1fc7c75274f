------------------------------- MODULE Reaper -------------------------------
(***************************************************************************)
(* The sessions of closed tabs: the reaper that ends those nothing has     *)
(* held for long enough (crates/cide-app/src/reaper.rs), the undo stack    *)
(* of closed tabs, and Ctrl+Shift+T, which must find a child alive or      *)
(* resume its conversation before the tab is back (claude_tab.rs,          *)
(* cmd/project.rs).                                                        *)
(*                                                                         *)
(* A tick runs on the reaper's own thread and reads each of its facts at   *)
(* a moment of its own; a reopen is an asynchronous command; the closings  *)
(* are commands of the main thread.  A conversation keeps its session id   *)
(* when it is resumed, so each child of it has a generation.               *)
(***************************************************************************)
EXTENDS Naturals, Sequences, FiniteSets

CONSTANTS
    Sessions,     \* routing ids of console sessions, each in one pane
    Tabs,
    TabOf,        \* the tab whose pane it is
    Ephemeral,    \* the tabs cide opened by itself
    Depth,        \* MAX_CLOSED
    MaxGen,       \* bound: children of one conversation
    Worlds        \* bound: the tabs at first, and how often each thing may happen

Chances == {"close", "reopen", "exit", "hold", "setting", "project"}

ASSUME ConstantsAssumption ==
    /\ TabOf \in [Sessions -> Tabs]
    /\ Ephemeral \subseteq Tabs
    /\ Depth \in Nat \ {0} /\ MaxGen \in Nat \ {0}
    /\ Worlds \subseteq [tabs : SUBSET Tabs, left : [Chances -> Nat]]

VARIABLES
    registry,     \* the generation its entry holds, 0 for no entry
    spawned,      \* generations so far
    alive,        \* those that run
    killed,       \* those the application has signalled to end
    held,         \* sessions mid-turn, or that a device looks at
    open,         \* tabs in the tree
    undo,         \* ClosedTabs, newest first
    step,         \* where a reopen is with the session's pane
    host,         \* the child its terminal shows, mounted or parked
    project,      \* is the project still in the workspace?
    stopping,     \* children that stop_closed_sessions waits for
    enabled,      \* reap_detached_after_minutes is not 0
    age,          \* the clock: no entry, fresh, past the grace, past the timeout
    ending,       \* the ending set
    phase,        \* where the tick is
    named,        \* its snapshot of the tree: sessions a pane names
    unread,       \* ids it has yet to look at
    due,          \* children it found due
    ended,        \* those of them that are gone
    left,         \* what may still happen
    hasty         \* history: reopened where the reaper does not see it

sessions == <<registry, spawned, alive, killed, held>>
tree == <<open, undo, step, host, project, stopping>>
tick == <<age, ending, phase, named, unread, due, ended>>
noted == <<left, hasty>>
vars == <<sessions, tree, enabled, tick, noted>>

Steps == {"none", "todo", "spawning", "adopted", "dead", "failed", "started"}
Phases == {"asleep", "named", "reading", "ladder", "removing", "telling"}
Gens == 0..MaxGen
Nobody == [s \in Sessions |-> 0]

Init ==
    /\ \E w \in Worlds: open = w.tabs /\ left = w.left
    /\ registry = [s \in Sessions |-> IF TabOf[s] \in open THEN 1 ELSE 0]
    /\ spawned = registry
    /\ alive = [s \in Sessions |-> {registry[s]} \ {0}]
    /\ killed = [s \in Sessions |-> {}]
    /\ held = {}
    /\ undo = <<>>
    /\ step = [s \in Sessions |-> "none"]
    /\ host = registry
    /\ project = TRUE /\ stopping = Nobody
    /\ enabled = TRUE
    /\ age = Nobody /\ ending = {} /\ phase = "asleep"
    /\ named = {} /\ unread = {} /\ due = Nobody /\ ended = {}
    /\ hasty = {}

In(t) == {s \in Sessions: TabOf[s] = t}
Live(s) == registry[s] \in alive[s]
Shown == {s \in Sessions: TabOf[s] \in open}
Reopening(t) == \E s \in In(t): step[s] # "none"
\* A reopen has decided what to do with its pane
Decided(s) == step[s] \notin {"none", "todo"}
Settled(s) == step[s] \in {"adopted", "dead", "failed", "started"}

May(kind) == /\ left[kind] > 0
             /\ left' = [left EXCEPT ![kind] = @ - 1]

---------------------------------------------------------------------------
(* Children and their turns *)

\* A signal is obeyed, at the latest SIGKILL
Dies(s) == \E g \in alive[s] \cap killed[s]:
    /\ alive' = [alive EXCEPT ![s] = @ \ {g}]
    /\ held' = IF registry[s] = g THEN held \ {s} ELSE held
    /\ UNCHANGED <<registry, spawned, killed, tree, enabled, tick, noted>>

Exits(s) == /\ Live(s) /\ May("exit")
            /\ alive' = [alive EXCEPT ![s] = @ \ {registry[s]}]
            /\ held' = held \ {s}
            /\ UNCHANGED <<registry, spawned, killed, tree, enabled, tick, hasty>>

\* A turn, or a device's look at it
Holds(s) == /\ Live(s) /\ s \notin held /\ May("hold")
            /\ held' = held \union {s}
            /\ UNCHANGED <<registry, spawned, alive, killed, tree, enabled, tick, hasty>>

LetsGo(s) == /\ s \in held
             /\ held' = held \ {s}
             /\ UNCHANGED <<registry, spawned, alive, killed, tree, enabled, tick, noted>>

---------------------------------------------------------------------------
(* Tabs: close_tab_checked, ClosedTabs::push, close_project_here *)

\* Mutant: a record is pushed and none drops off
PushedWhole(t) == <<t>> \o undo

Pushed(t) == SubSeq(<<t>> \o undo, 1, IF Len(undo) < Depth THEN Len(undo) + 1 ELSE Depth)

Signalled(which) == [s \in Sessions |-> IF s \in which /\ Live(s) THEN killed[s] \union {registry[s]}
                                        ELSE killed[s]]

\* The children of a tab that cide opened are killed, the others run on
ClosesTab(t) == /\ t \in open /\ May("close")
                /\ open' = open \ {t}
                /\ undo' = Pushed(t)
                /\ killed' = IF t \in Ephemeral THEN Signalled(In(t)) ELSE killed
                /\ UNCHANGED <<registry, spawned, alive, held, step, host, project, stopping, enabled, tick, hasty>>

\* stop_closed_sessions stops those a pane names
ClosesProject == /\ project /\ May("project")
                 /\ project' = FALSE /\ open' = {} /\ undo' = <<>>
                 /\ stopping' = [s \in Sessions |-> IF s \in Shown THEN registry[s] ELSE 0]
                 /\ killed' = Signalled(Shown)
                 /\ UNCHANGED <<registry, spawned, alive, held, step, host, enabled, tick, hasty>>

\* Its ladder is over: one that outlived it stays registered
StopsOne(s) == /\ stopping[s] # 0
               /\ stopping' = [stopping EXCEPT ![s] = 0]
               /\ registry' = IF stopping[s] \in alive[s] THEN registry ELSE [registry EXCEPT ![s] = 0]
               /\ UNCHANGED <<spawned, alive, killed, held, open, undo, step, host, project, enabled, tick, noted>>

---------------------------------------------------------------------------
(* tab_reopen_closed: resume_closed, then reinsert_record *)

\* The newest record is popped; nothing else holds what its panes name
Reopens == /\ undo # <<>> /\ May("reopen")
           /\ undo' = Tail(undo)
           /\ step' = [s \in Sessions |-> IF TabOf[s] = Head(undo) THEN "todo" ELSE step[s]]
           /\ UNCHANGED <<sessions, open, host, project, stopping, enabled, tick, hasty>>

\* The panes one after the other
Turn(s) == step[s] = "todo" /\ \A o \in In(TabOf[s]): step[o] # "spawning"

\* The reopen meets a tick that has read the tree and has yet to say what it
\* ends, or a child that has been killed and is not known to be dead
Unseen(s) == \/ phase \in {"named", "reading"}
             \/ Live(s) /\ registry[s] \in killed[s] /\ s \notin ending

Decides(s, decision) ==
    /\ step' = [step EXCEPT ![s] = decision]
    /\ hasty' = IF Unseen(s) THEN hasty \union {s} ELSE hasty
    /\ UNCHANGED <<spawned, alive, killed, held, open, undo, host, project, stopping, enabled, tick, left>>

\* Mutant: the ending set is not asked
WaitedForNobody(s) == TRUE

\* wait_out
WaitedOut(s) == s \notin ending

Adopts(s) == /\ Turn(s) /\ WaitedOut(s) /\ Live(s)
             /\ Decides(s, "adopted")
             /\ UNCHANGED registry

\* Mutant: a child that runs is not asked about
ResumesAnyway(s) == /\ Turn(s) /\ WaitedOut(s)
                    /\ \/ Decides(s, "spawning") /\ spawned[s] < MaxGen
                       \/ Decides(s, "dead")
                    /\ UNCHANGED registry

\* The dead entry is dropped, but for a tab that cide opened; the
\* conversation can be resumed, or cannot
Resumes(s) == /\ Turn(s) /\ WaitedOut(s) /\ ~Live(s)
              /\ \/ Decides(s, "spawning") /\ spawned[s] < MaxGen
                 \/ Decides(s, "dead")
              /\ registry' = IF TabOf[s] \in Ephemeral THEN registry ELSE [registry EXCEPT ![s] = 0]

\* spawn_session, or its failure
Spawns(s) == /\ step[s] = "spawning"
             /\ step' = [step EXCEPT ![s] = "started"]
             /\ spawned' = [spawned EXCEPT ![s] = @ + 1]
             /\ alive' = [alive EXCEPT ![s] = @ \union {spawned'[s]}]
             /\ registry' = [registry EXCEPT ![s] = spawned'[s]]
             /\ UNCHANGED <<killed, held, open, undo, host, project, stopping, enabled, tick, noted>>

FailsToSpawn(s) == /\ step[s] = "spawning"
                   /\ step' = [step EXCEPT ![s] = "failed"]
                   /\ UNCHANGED <<sessions, open, undo, host, project, stopping, enabled, tick, noted>>

\* panes_retired: the parked terminal goes, and the pane mounts on the registry's
Retires(s) == step[s] = "started" \/ (step[s] \in {"dead", "failed"} /\ TabOf[s] \notin Ephemeral)
Mounted(s) == IF Retires(s) \/ host[s] = 0 THEN registry[s] ELSE host[s]

\* The tab is back, or its project is gone and what was started is killed
Reinserts(t) ==
    /\ Reopening(t) /\ \A s \in In(t): Settled(s)
    /\ step' = [s \in Sessions |-> IF s \in In(t) THEN "none" ELSE step[s]]
    /\ IF project
       THEN /\ open' = open \union {t}
            /\ host' = [s \in Sessions |-> IF s \in In(t) THEN Mounted(s) ELSE host[s]]
            /\ UNCHANGED killed
       ELSE /\ killed' = Signalled({s \in In(t): step[s] = "started"})
            /\ host' = [s \in Sessions |-> IF s \in In(t) /\ Retires(s) THEN 0 ELSE host[s]]
            /\ UNCHANGED open
    /\ UNCHANGED <<registry, spawned, alive, held, undo, project, stopping, enabled, tick, noted>>

---------------------------------------------------------------------------
(* The clock and the tick *)

\* Time passes
Ages == /\ \E s \in Sessions: age[s] \in {1, 2}
        /\ age' = [s \in Sessions |-> IF age[s] \in {1, 2} THEN age[s] + 1 ELSE age[s]]
        /\ UNCHANGED <<sessions, tree, enabled, ending, phase, named, unread, due, ended, noted>>

Switches == /\ May("setting")
            /\ enabled' = ~enabled
            /\ UNCHANGED <<sessions, tree, tick, hasty>>

\* Mutant: what the undo stack names is held too
NamedByUndo == Shown \union {s \in Sessions: \E i \in 1..Len(undo): undo[i] = TabOf[s]}

\* referenced(): what a pane names
Referenced == Shown

\* The snapshot: reaping is off and the clock is cleared, or the tree is read
TicksOff == /\ phase = "asleep" /\ ~enabled
            /\ age' = Nobody
            /\ UNCHANGED <<sessions, tree, enabled, ending, phase, named, unread, due, ended, noted>>

Ticks == /\ phase = "asleep" /\ enabled
         /\ phase' = "named" /\ named' = Referenced
         /\ hasty' = hasty \union {s \in Sessions: Decided(s)}
         /\ UNCHANGED <<sessions, tree, enabled, age, ending, unread, due, ended, left>>

\* registry.ids, and Clock::retain
ReadsIds == /\ phase = "named"
            /\ phase' = "reading"
            /\ unread' = {s \in Sessions: registry[s] # 0}
            /\ age' = [s \in Sessions |-> IF registry[s] = 0 THEN 0 ELSE age[s]]
            /\ UNCHANGED <<sessions, tree, enabled, ending, named, due, ended, noted>>

\* Clock::due, of facts that are read now but for the tree
Held(s) == s \in named \/ s \in held
Due(s) == ~Held(s) /\ age[s] >= (IF Live(s) THEN 3 ELSE 2)

ReadsOne(s) ==
    /\ phase = "reading" /\ s \in unread
    /\ unread' = unread \ {s}
    /\ due' = IF registry[s] # 0 /\ Due(s) THEN [due EXCEPT ![s] = registry[s]] ELSE due
    /\ age' = [age EXCEPT ![s] = IF registry[s] = 0 THEN @ ELSE IF Held(s) THEN 0
                                 ELSE IF @ = 0 THEN 1 ELSE @]
    /\ UNCHANGED <<sessions, tree, enabled, ending, phase, named, ended, noted>>

DueOnes == {s \in Sessions: due[s] # 0}

\* The ending set, and the signals of the ladder
Begins == /\ phase = "reading" /\ unread = {}
          /\ phase' = IF DueOnes = {} THEN "asleep" ELSE "ladder"
          /\ ending' = ending \union DueOnes
          /\ killed' = [s \in Sessions |-> killed[s] \union ({due[s]} \cap alive[s])]
          /\ UNCHANGED <<registry, spawned, alive, held, tree, enabled, age, named, unread, due, ended, noted>>

\* All of them exited, or the graces are over
LadderEnds == /\ phase = "ladder"
              /\ phase' = "removing"
              /\ UNCHANGED <<sessions, tree, enabled, age, ending, named, unread, due, ended, noted>>

\* One that outlived the ladder is left for the next tick
Removes(s) ==
    /\ phase = "removing" /\ due[s] # 0
    /\ due' = [due EXCEPT ![s] = 0]
    /\ IF due[s] \in alive[s]
       THEN UNCHANGED <<registry, age, ended>>
       ELSE /\ registry' = [registry EXCEPT ![s] = 0]
            /\ age' = [age EXCEPT ![s] = 0]
            /\ ended' = ended \union {s}
    /\ UNCHANGED <<spawned, alive, killed, held, tree, enabled, ending, phase, named, unread, noted>>

\* panes_retired: the parked terminals of the ended go, a mounted one is spared
Retired == [s \in Sessions |-> IF s \in ended /\ s \notin Shown THEN 0 ELSE host[s]]

Tells == /\ phase = "removing" /\ DueOnes = {}
         /\ phase' = "telling"
         /\ host' = Retired /\ ended' = {}
         /\ UNCHANGED <<sessions, open, undo, step, project, stopping, enabled, age, ending, named, unread, due, noted>>

\* Mutant: the ending set keeps those of this tick
Uncleared == ending

Cleared == {}

Clears == /\ phase = "telling"
          /\ phase' = "asleep" /\ ending' = Cleared
          /\ UNCHANGED <<sessions, tree, enabled, age, named, unread, due, ended, noted>>

---------------------------------------------------------------------------
Tick == \/ Ticks \/ ReadsIds \/ Begins \/ LadderEnds \/ Tells \/ Clears
        \/ \E s \in Sessions: ReadsOne(s) \/ Removes(s)

\* The commands that are begun, the children and the clock
Session(s) == Dies(s) \/ StopsOne(s)
Reopen(t) == \/ Reinserts(t)
             \/ \E s \in In(t): Adopts(s) \/ Resumes(s) \/ Spawns(s) \/ FailsToSpawn(s)

World == \/ \E s \in Sessions: Exits(s) \/ Holds(s) \/ LetsGo(s)
         \/ \E t \in Tabs: ClosesTab(t)
         \/ ClosesProject \/ Reopens \/ Switches

Next == \/ Tick \/ TicksOff \/ Ages \/ World
        \/ \E s \in Sessions: Session(s)
        \/ \E t \in Tabs: Reopen(t)

Spec == Init /\ [][Next]_vars

FairSpec == /\ Spec /\ WF_vars(Tick) /\ WF_vars(Ages)
            /\ \A s \in Sessions: WF_vars(Session(s))
            /\ \A t \in Tabs: WF_vars(Reopen(t))

---------------------------------------------------------------------------
(* Properties *)

TypeOK ==
    /\ registry \in [Sessions -> Gens] /\ spawned \in [Sessions -> Gens]
    /\ alive \in [Sessions -> SUBSET Gens] /\ killed \in [Sessions -> SUBSET Gens]
    /\ held \subseteq Sessions /\ open \subseteq Tabs
    /\ undo \in Seq(Tabs) /\ Len(undo) <= Depth
    /\ step \in [Sessions -> Steps] /\ host \in [Sessions -> Gens]
    /\ project \in BOOLEAN /\ stopping \in [Sessions -> Gens] /\ enabled \in BOOLEAN
    /\ age \in [Sessions -> 0..3] /\ ending \subseteq Sessions /\ phase \in Phases
    /\ named \subseteq Sessions /\ unread \subseteq Sessions
    /\ due \in [Sessions -> Gens] /\ ended \subseteq Sessions
    /\ left \in [Chances -> Nat] /\ hasty \subseteq Sessions

\* A pane on screen never has a child that the application is ending, nor the
\* terminal of one that a tick ended before, however its tab was closed and
\* reopened around the ticks.  (But for a reopen that is `hasty`.)
NoDeadPane == \A s \in Shown \ hasty:
    /\ Live(s) => registry[s] \notin killed[s]
    /\ host[s] = registry[s]

\* The registry is the only handle to a child that runs on
NoChildLost == \A s \in Sessions \ hasty: alive[s] \subseteq killed[s] \union {registry[s]}

\* A session that nothing holds does not stay: its record may have dropped off
\* the undo stack, its project be closed, its child have outlived a ladder
DetachedGoes == \A s \in Sessions:
    []<>(s \in Shown \/ step[s] # "none" \/ s \in held \/ ~enabled \/ registry[s] = 0)

\* A reopen ends
ReopenEnds == \A t \in Tabs: []<>~Reopening(t)
=============================================================================
