------------------------------ MODULE AgentRuns ------------------------------
(***************************************************************************)
(* The run registry of crates/cide-app/src/agents.rs: dispatch, the queues *)
(* and their admission, the concurrency slots, a run's state machine, its  *)
(* child process and the hook frames it sends, Stop and its wind-down,     *)
(* Pause and Resume, and the child's exit.                                 *)
(*                                                                         *)
(* The registry is one mutex (`Inner`) and every operation is "lock,       *)
(* decide, unlock, act".  One action is one critical section; what an      *)
(* operation still has to do after unlocking is a record in `ops`, so the  *)
(* rest of the program may run in between exactly where the code allows.   *)
(*                                                                         *)
(* Sessions: the code mints a SessionId per child; here the n-th child of  *)
(* a run is the pair <<run, n>> and session 0 is `None`.  Every run has a  *)
(* task and worktree isolation, so its checkout `<role>-<task>` is a       *)
(* function of its (role, task) pair.                                      *)
(***************************************************************************)
EXTENDS Naturals, Sequences, FiniteSets

CONSTANTS
    Runs,          \* the runs that may ever be dispatched
    Restored,      \* those a previous cide left behind: rows Interrupted at launch
    Keys,          \* the role queues, one per (project, role)
    Pairs,         \* the (role, task) pairs
    Projects,
    PairOf, KeyOf, ProjectOf,    \* functions on Runs
    AgentLimit, ProjectLimit,    \* functions on Runs, stamped at dispatch
    OpeningRequeues,             \* OPENING_REQUEUES
    MaxGen,        \* bound: children a run may be given
    MaxFrames,     \* bound: hook frames of one child in flight
    Overlapping,   \* bound: whether Pause, Resume or Stop may be pressed before
                   \* what an earlier one decided has been carried out
    Budgets        \* bound: how often each thing the environment decides may happen, by case

ASSUME RunsAreFinite == IsFiniteSet(Runs) /\ Restored \subseteq Runs
ASSUME Stamps ==
    /\ PairOf \in [Runs -> Pairs]
    /\ KeyOf \in [Runs -> Keys]
    /\ ProjectOf \in [Runs -> Projects]
    /\ \A r, s \in Runs : PairOf[r] = PairOf[s] => KeyOf[r] = KeyOf[s]
    /\ \A r, s \in Runs : KeyOf[r] = KeyOf[s] => ProjectOf[r] = ProjectOf[s]
ASSUME Limits ==
    /\ AgentLimit \in [Runs -> Nat \ {0}]
    /\ ProjectLimit \in [Runs -> Nat \ {0}]
    /\ OpeningRequeues \in Nat
    /\ MaxGen \in Nat \ {0}
    /\ MaxFrames \in Nat \ {0}

Chances == {"pause", "stop", "follow", "exit", "term", "ask", "fail", "stuck", "edit", "dispatch"}
ASSUME OverlappingIsBoolean == Overlapping \in BOOLEAN
ASSUME BudgetsAreNat == Budgets \subseteq [Chances -> Nat]

Gens == 1 .. MaxGen
Sessions == Runs \X Gens

Ended == {"Finished", "Cancelled", "Failed"}
Over == Ended \cup {"Interrupted"}
RunStates == {"None", "Queued", "Starting", "Running", "Blocked", "Idle",
              "AwaitingPermission", "Paused"} \cup Over
StopHow == {"None", "BeforeStart", "Discarded", "Immediate",
            "Asked", "Ending", "WoundDown", "Forced"}
WindingDown == {"Asked", "Ending"}    \* StopHow::WindingDown{saw_a_turn}

Freezes == [at : RunStates, slot : BOOLEAN]
NoFreeze == [at |-> "None", slot |-> FALSE]

Frames == {"SessionStart", "Prompt", "Tool", "Stop", "Permission", "TurnFailed"}
Children == [st : {"none", "live", "dying", "gone"},
             mode : {"splash", "prompt", "busy", "asking"},
             halted : BOOLEAN, typed : BOOLEAN]
NoChild == [st |-> "none", mode |-> "splash", halted |-> FALSE, typed |-> FALSE]

ResumePhases == {"idle", "planned", "reclaim", "restart", "cont", "finish", "end",
                 "waiting", "requeue"}

OpKinds == {"start", "boot", "giveUp", "opening", "dequeue", "cancel", "discard", "kill",
            "stopKill", "ask", "grace", "follow", "send", "type", "typeReserved",
            "sigstop", "exitOk", "exitErr", "exitTerm", "external"}
Ops == [do : OpKinds, run : Runs, gen : 0 .. MaxGen]
Op(do, r, g) == [do |-> do, run |-> r, gen |-> g]

VARIABLES
    \* LiveRun, one entry per run
    state, slot, session, frozen, stop, stopping, held, openings, seq,
    \* Inner
    queues, agentSlots, projectSlots, paused, frozenSessions, restarts,
    \* take_admissions' loop and `resume`, both in progress or not
    pumpDue, pump, resume,
    \* the processes, their frames, and the operations between two locks
    child, minted, frames, ops, budget

rowVars == <<state, slot, session, frozen, stop, stopping, held, openings, seq>>
slotVars == <<slot, agentSlots, projectSlots>>
innerVars == <<queues, agentSlots, projectSlots, paused, frozenSessions, restarts>>
procVars == <<child, minted, frames>>
vars == <<rowVars, innerVars, pumpDue, pump, resume, procVars, ops, budget>>

------------------------------------------------------------------------------
(* Bounds and the registry's lock *)

\* Only one critical section at a time: the admission loop and resume's two
\* loops hold the mutex across several of the steps below.
Unlocked == ~pump.on /\ resume.phase \notin {"reclaim", "requeue"}

Spend(chance) == /\ budget[chance] > 0
                 /\ budget' = [budget EXCEPT ![chance] = @ - 1]

\* Whether somebody may press a button now
Pressable(r) == \/ Overlapping
                \/ /\ resume.phase = "idle"
                   /\ \A o \in ops : o.run = r => o.do \notin
                        {"sigstop", "kill", "stopKill", "ask", "dequeue", "cancel", "discard"}

------------------------------------------------------------------------------
(* Helpers of the registry *)

IdlePump == [on |-> FALSE, pass |-> {}, moved |-> FALSE]
NoResume == [phase |-> "idle", whole |-> FALSE, runs |-> {}, todo |-> {},
             thaws |-> {}, ends |-> {}]

HoldsAPair(s) == s \notin Over \cup {"None"}

HoldsItsCheckout(r) ==
    \/ stop[r] \in WindingDown
    \/ state[r] \in {"Starting", "Running", "Blocked", "AwaitingPermission", "Paused"}

\* Mutant: the admission gate's predicate asked instead of the pair's
HolderInItsCheckout(pair) == {r \in Runs : PairOf[r] = pair /\ HoldsItsCheckout(r)}

HolderIn(pair) == {r \in Runs : PairOf[r] = pair /\ HoldsAPair(state[r])}

\* Mutant: off by one
HasRoomForOneMore(r) == /\ agentSlots[KeyOf[r]] <= AgentLimit[r]
                        /\ projectSlots[ProjectOf[r]] <= ProjectLimit[r]

HasRoom(r) == /\ agentSlots[KeyOf[r]] < AgentLimit[r]
              /\ projectSlots[ProjectOf[r]] < ProjectLimit[r]

TakeSlot(r) ==
    /\ slot' = [slot EXCEPT ![r] = TRUE]
    /\ agentSlots' = [agentSlots EXCEPT ![KeyOf[r]] = @ + 1]
    /\ projectSlots' = [projectSlots EXCEPT ![ProjectOf[r]] = @ + 1]

\* Mutant: released without taking the mark off, and without saturating
GiveSlotKeepsMark(r) ==
    /\ IF slot[r]
         THEN /\ agentSlots' = [agentSlots EXCEPT ![KeyOf[r]] = @ - 1]
              /\ projectSlots' = [projectSlots EXCEPT ![ProjectOf[r]] = @ - 1]
         ELSE UNCHANGED <<agentSlots, projectSlots>>
    /\ UNCHANGED slot

\* `mem::replace(&mut live.slot, false)` and `release` when it was held
GiveSlot(r) ==
    /\ slot' = [slot EXCEPT ![r] = FALSE]
    /\ IF slot[r]
         THEN /\ agentSlots' = [agentSlots EXCEPT ![KeyOf[r]] = IF @ = 0 THEN 0 ELSE @ - 1]
              /\ projectSlots' = [projectSlots EXCEPT ![ProjectOf[r]] = IF @ = 0 THEN 0 ELSE @ - 1]
         ELSE UNCHANGED <<agentSlots, projectSlots>>

PushBack(r) == [queues EXCEPT ![KeyOf[r]] = Append(@, r)]
PushFront(r) == [queues EXCEPT ![KeyOf[r]] = <<r>> \o @]

\* The k-th of a set of places in a queue
Place(P, k) == CHOOSE i \in P : Cardinality(P \cap (1 .. i)) = k

\* `queue.retain(|queued| *queued != run)`
Dequeued(r) ==
    LET q == queues[KeyOf[r]]
        kept == {i \in 1 .. Len(q) : q[i] # r}
    IN [queues EXCEPT ![KeyOf[r]] = [k \in 1 .. Cardinality(kept) |-> q[Place(kept, k)]]]

\* The oldest dispatch of a set of runs
Oldest(S) == CHOOSE r \in S : \A q \in S : seq[r] <= seq[q]

(***************************************************************************)
(* set_state_from_session: the one transition function of a run.           *)
(***************************************************************************)
Landed(r, next) ==
    IF next = "Finished" /\ stop[r] \in WindingDown \cup {"WoundDown", "Forced", "Immediate"}
      THEN "Cancelled" ELSE next

NeverHandsBack(r, to) == FALSE    \* mutant: the hand-back edge is not seen
HandsBack(r, to) == state[r] \in {"Running", "AwaitingPermission"} /\ to = "Idle"

WindDownStep(how, handsBack, next, clean) ==
    IF how \notin WindingDown THEN how
    ELSE IF next = "Finished" THEN (IF clean THEN "WoundDown" ELSE how)
    ELSE IF handsBack THEN (IF how = "Ending" THEN "WoundDown" ELSE how)
    ELSE IF next \in {"Running", "AwaitingPermission"} THEN "Ending"
    ELSE how

\* Mutant: the wind-down turn's end is recorded and nobody kills
WakesNobodyKills(r, next) ==
    IF HandsBack(r, Landed(r, next)) /\ stop[r] = "None" /\ held[r]
      THEN {Op("follow", r, 0)} ELSE {}

\* What the transition leaves to do once the lock is dropped
Wakes(r, next) ==
    LET handsBack == HandsBack(r, Landed(r, next)) IN
    (IF handsBack /\ stop[r] = "None" /\ held[r]
       THEN {Op("follow", r, 0)} ELSE {}) \cup
    (IF handsBack /\ stop[r] = "Ending" THEN {Op("kill", r, session[r])} ELSE {})

\* The `over` arm: nothing left to thaw
ForgetsFreeze(r, over) ==
    /\ frozen' = IF over THEN [frozen EXCEPT ![r] = NoFreeze] ELSE frozen
    /\ frozenSessions' = IF over THEN {s \in frozenSessions : s[1] # r} ELSE frozenSessions

SetState(r, next, clean) ==
    LET to == Landed(r, next)
        handsBack == HandsBack(r, to)
        over == to \in Over IN
    /\ state' = [state EXCEPT ![r] = to]
    /\ CASE state[r] = "Blocked" /\ to = "Running" /\ ~slot[r] -> TakeSlot(r)
         [] handsBack \/ over \/ to = "Blocked" -> GiveSlot(r)
         [] OTHER -> UNCHANGED slotVars
    /\ ForgetsFreeze(r, over)
    /\ stop' = [stop EXCEPT ![r] = WindDownStep(@, handsBack, next, clean)]
    /\ held' = IF handsBack /\ stop[r] = "None" THEN [held EXCEPT ![r] = FALSE] ELSE held

\* The same call from a caller that may find the row already there
Settle(r, next, clean) ==
    IF Landed(r, next) = state[r]
      THEN UNCHANGED <<state, slotVars, frozen, frozenSessions, stop, held>>
      ELSE SetState(r, next, clean)
------------------------------------------------------------------------------
(* Dispatch and admission *)

\* enqueue_unique and insert_run: refused while the pair is held
Dispatch(r) ==
    /\ Unlocked
    /\ state[r] = "None" /\ HolderIn(PairOf[r]) = {}
    /\ Spend("dispatch")
    /\ state' = [state EXCEPT ![r] = "Queued"]
    /\ seq' = [seq EXCEPT ![r] = 1 + Cardinality({q \in Runs : seq[q] > 0})]
    /\ queues' = PushBack(r)
    /\ pumpDue' = TRUE
    /\ UNCHANGED <<slotVars, session, frozen, stop, stopping, held, openings, paused,
                   frozenSessions, restarts, pump, resume, procVars, ops>>

Fronts == {r \in Runs : /\ queues[KeyOf[r]] # <<>>
                        /\ Head(queues[KeyOf[r]]) = r}

\* The gates of admit_a_pass, in its order
Admits(r) ==
    /\ ProjectOf[r] \notin paused
    /\ HasRoom(r)
    /\ \A q \in Runs \ {r} : PairOf[q] = PairOf[r] => ~HoldsItsCheckout(q)

\* take_admissions: the lock is taken and one pass over the queue fronts begins
PumpStarts ==
    /\ Unlocked /\ pumpDue
    /\ pumpDue' = FALSE
    /\ pump' = [on |-> TRUE, pass |-> Fronts, moved |-> FALSE]
    /\ UNCHANGED <<rowVars, innerVars, resume, procVars, ops, budget>>

Admit(r) ==
    /\ Admits(r)
    /\ TakeSlot(r)
    /\ queues' = Dequeued(r)
    /\ state' = [state EXCEPT ![r] = "Starting"]
    /\ ops' = ops \cup {Op("start", r, 0)}
    /\ pump' = [pump EXCEPT !.pass = @ \ {r}, !.moved = TRUE]

PassOver(r) ==
    /\ ~Admits(r)
    /\ pump' = [pump EXCEPT !.pass = @ \ {r}]
    /\ UNCHANGED <<slotVars, queues, state, ops>>

PumpVisits ==
    /\ pump.on /\ pump.pass # {}
    /\ LET r == Oldest(pump.pass) IN Admit(r) \/ PassOver(r)
    /\ UNCHANGED <<session, frozen, stop, stopping, held, openings, seq, paused,
                   frozenSessions, restarts, pumpDue, resume, procVars, budget>>

\* Another pass while the last one admitted something
PumpTurns ==
    /\ pump.on /\ pump.pass = {}
    /\ pump' = IF pump.moved THEN [on |-> TRUE, pass |-> Fronts, moved |-> FALSE]
                             ELSE IdlePump
    /\ UNCHANGED <<rowVars, innerVars, pumpDue, resume, procVars, ops, budget>>

------------------------------------------------------------------------------
(* Starting a child: start, bring_up, start_child *)

\* bind_session: whatever became of the run since it was admitted
Bind(r) ==
    /\ Unlocked /\ Op("start", r, 0) \in ops /\ minted[r] < MaxGen
    /\ minted' = [minted EXCEPT ![r] = @ + 1]
    /\ session' = [session EXCEPT ![r] = minted'[r]]
    /\ ops' = (ops \ {Op("start", r, 0)}) \cup {Op("boot", r, minted'[r])}
    /\ UNCHANGED <<state, slotVars, frozen, stop, stopping, held, openings, seq, queues, paused,
                   frozenSessions, restarts, pumpDue, pump, resume, child, frames, budget>>

\* start_child spawned it: it is registered, and the opening prompt is typed
\* if the run still carries this session
Fork(r, g) ==
    /\ Unlocked /\ Op("boot", r, g) \in ops
    /\ LET current == session[r] = g IN
       /\ child' = [child EXCEPT ![<<r, g>>] = [NoChild EXCEPT !.st = "live", !.typed = current]]
       /\ ops' = (ops \ {Op("boot", r, g)}) \cup
                 (IF current THEN {Op("opening", r, g)} ELSE {})
    /\ UNCHANGED <<rowVars, innerVars, pumpDue, pump, resume, minted, frames, budget>>

\* start_child refused
BootFails(r, g) ==
    /\ Op("boot", r, g) \in ops
    /\ Spend("fail")
    /\ ops' = (ops \ {Op("boot", r, g)}) \cup {Op("giveUp", r, 0)}
    /\ UNCHANGED <<rowVars, innerVars, pumpDue, pump, resume, procVars>>

\* finish_failed (its two critical sections as one), whatever became of the run
\* meanwhile; then the child of an opening never submitted (gen # 0) is killed
FailedStart(r, g) ==
    /\ Unlocked /\ Op("giveUp", r, g) \in ops
    /\ session' = [session EXCEPT ![r] = 0]
    /\ Settle(r, "Failed", FALSE)
    /\ ops' = (ops \ {Op("giveUp", r, g)}) \cup Wakes(r, "Failed")
                 \cup (IF g = 0 THEN {} ELSE {Op("kill", r, g)})
    /\ UNCHANGED <<stopping, openings, seq, queues, paused, restarts, pump, resume, procVars,
                   budget>>

FinishFailedUnpumped(r, g) == FailedStart(r, g) /\ UNCHANGED pumpDue    \* mutant
FinishFailed(r, g) == FailedStart(r, g) /\ pumpDue' = TRUE

OpeningNeverTook(r, g) ==
    /\ session[r] = g /\ slot[r] /\ stop[r] = "None"
    /\ state[r] \in {"Starting", "Idle"}

\* abandon_unsubmitted: the last Enter of the opening prompt started no turn,
\* so the run goes back to the front of its queue, and its child is killed ...
AbandonUnsubmitted(r, g) ==
    /\ Unlocked /\ Op("opening", r, g) \in ops
    /\ OpeningNeverTook(r, g) /\ openings[r] < OpeningRequeues
    /\ Spend("stuck")
    /\ session' = [session EXCEPT ![r] = 0]
    /\ openings' = [openings EXCEPT ![r] = @ + 1]
    /\ state' = [state EXCEPT ![r] = "Queued"]
    /\ GiveSlot(r)
    /\ queues' = PushFront(r)
    /\ ops' = (ops \ {Op("opening", r, g)}) \cup {Op("kill", r, g)}
    /\ pumpDue' = TRUE
    /\ UNCHANGED <<frozen, stop, stopping, held, seq, paused, frozenSessions, restarts, pump,
                   resume, procVars>>

\* ... or, its requeues spent, is failed
OpeningGivesUp(r, g) ==
    /\ Unlocked /\ Op("opening", r, g) \in ops
    /\ OpeningNeverTook(r, g) /\ openings[r] >= OpeningRequeues
    /\ Spend("stuck")
    /\ ops' = (ops \ {Op("opening", r, g)}) \cup {Op("giveUp", r, g)}
    /\ UNCHANGED <<rowVars, innerVars, pumpDue, pump, resume, procVars>>

\* The watch of an opening prompt that took, or whose run has moved on
OpeningDone(r, g) ==
    /\ Unlocked /\ Op("opening", r, g) \in ops
    /\ ~OpeningNeverTook(r, g)
    /\ ops' = ops \ {Op("opening", r, g)}
    /\ UNCHANGED <<rowVars, innerVars, pumpDue, pump, resume, procVars, budget>>

------------------------------------------------------------------------------
(* The child process and its hook frames (external: the harness CLI) *)

Alive(s) == child[s].st \in {"live", "dying"} /\ ~child[s].halted
Sends(s, f) == /\ Len(frames[s]) < MaxFrames
               /\ frames' = [frames EXCEPT ![s] = Append(@, f)]

Turn(s, from, to, f) ==
    /\ Alive(s) /\ child[s].st = "live" /\ child[s].mode = from
    /\ Sends(s, f)
    /\ UNCHANGED <<rowVars, innerVars, pumpDue, pump, resume, minted, ops>>
    /\ child' = [child EXCEPT ![s].mode = to, ![s].typed = @ /\ f # "Prompt"]

ChildReady(s)    == Turn(s, "splash", "prompt", "SessionStart") /\ UNCHANGED budget
ChildTakesLine(s) == child[s].typed /\ Turn(s, "prompt", "busy", "Prompt") /\ UNCHANGED budget
ChildEndsTurn(s) == Turn(s, "busy", "prompt", "Stop") /\ UNCHANGED budget
ChildAsks(s)     == Turn(s, "busy", "asking", "Permission") /\ Spend("ask")
ChildAnswered(s) == Turn(s, "asking", "busy", "Tool") /\ UNCHANGED budget
ChildFailsTurn(s) == Turn(s, "busy", "prompt", "TurnFailed") /\ Spend("fail")

ExitKinds == {"exitOk", "exitErr", "exitTerm"}

\* end_tree brought it down, or it went by itself; on_exit's callback follows
ChildExits(s, how) ==
    /\ Alive(s)
    /\ IF child[s].st = "live" THEN Spend(IF how = "exitTerm" THEN "term" ELSE "exit")
                               ELSE how = "exitErr" /\ UNCHANGED budget
    /\ child' = [child EXCEPT ![s].st = "gone"]
    /\ ops' = ops \cup {Op(how, s[1], s[2])}
    /\ UNCHANGED <<rowVars, innerVars, pumpDue, pump, resume, minted, frames>>

\* What a frame says of a run, whatever it was (cide_claude::next_state)
Meaning(f) == CASE f \in {"SessionStart", "Stop"} -> "Idle"
                [] f \in {"Prompt", "Tool"} -> "Running"
                [] f = "Permission" -> "AwaitingPermission"
                [] f = "TurnFailed" -> "Blocked"

\* Mutants: a late frame heeded by an ended row; none by a blocked one
HeedsWhenOver(r, f) == state[r] \notin {"None", "Paused", Meaning(f)}
HeedsUnlessBlocked(r, f) ==
    state[r] \notin {"None", "Paused", "Blocked", Meaning(f)} \cup Over

\* Harness::observe: Paused, ended and interrupted rows absorb every frame,
\* and only an accepted prompt moves a blocked one
Heeds(r, f) == /\ state[r] \notin {"None", "Paused"} \cup Over
               /\ state[r] = "Blocked" => f = "Prompt"
               /\ state[r] # Meaning(f)

\* note_hook on the single ordered hook thread
ApplyFrame(s) ==
    /\ Unlocked /\ frames[s] # <<>>
    /\ frames' = [frames EXCEPT ![s] = Tail(@)]
    /\ LET r == s[1]
           f == Head(frames[s]) IN
       IF session[r] = s[2] /\ Heeds(r, f)
         THEN /\ SetState(r, Meaning(f), FALSE)
              /\ ops' = ops \cup Wakes(r, Meaning(f))
              /\ pumpDue' = TRUE
         ELSE UNCHANGED <<state, slotVars, frozen, frozenSessions, stop, held, ops, pumpDue>>
    /\ UNCHANGED <<session, stopping, openings, seq, queues, paused, restarts, pump, resume,
                   child, minted, budget>>

------------------------------------------------------------------------------
(* A child's exit: watch_exit_with *)

RestartsOf(s) == {x \in restarts : x.run = s[1] /\ x.old = s[2]}

\* plan_restart: the old child of a settings restart is gone
ExitRestarts(s) ==
    /\ Unlocked
    /\ \E how \in ExitKinds, x \in RestartsOf(s) :
         /\ Op(how, s[1], s[2]) \in ops
         /\ restarts' = restarts \ {x}
         /\ IF stopping[s[1]]
              THEN /\ Settle(s[1], "Failed", FALSE)
                   /\ ops' = (ops \ {Op(how, s[1], s[2])}) \cup Wakes(s[1], "Failed")
              ELSE /\ ops' = (ops \ {Op(how, s[1], s[2])}) \cup {Op("boot", s[1], x.new)}
                   /\ UNCHANGED <<state, slotVars, frozen, frozenSessions, stop, held>>
    /\ UNCHANGED <<session, stopping, openings, seq, queues, paused, pumpDue, pump, resume,
                   procVars, budget>>

\* external_stop's first half: a signal from outside cide, decided and unlocked
OutsideStop(r, how) ==
    how = "exitTerm" /\ ~stopping[r] /\ state[r] \notin {"Queued", "Interrupted", "Finished", "Failed"}

ExitDecided(s) ==
    /\ Unlocked /\ RestartsOf(s) = {}
    /\ \E how \in ExitKinds :
         LET r == s[1]
             done == ops \ {Op(how, r, s[2])}
             next == IF state[r] = "Blocked" THEN "Failed" ELSE "Finished"
         IN
         /\ Op(how, r, s[2]) \in ops
         /\ CASE session[r] # s[2] ->
                    /\ ops' = done
                    /\ UNCHANGED <<state, slotVars, frozen, frozenSessions, stop, held, pumpDue>>
              [] session[r] = s[2] /\ OutsideStop(r, how) ->
                    /\ ops' = done \cup {Op("external", r, s[2])}
                    /\ UNCHANGED <<state, slotVars, frozen, frozenSessions, stop, held, pumpDue>>
              [] OTHER ->    \* observe(Exit): the one observation every state heeds
                    /\ Settle(r, next, how = "exitOk")
                    /\ ops' = done \cup Wakes(r, next)
                    /\ pumpDue' = (pumpDue \/ Landed(r, next) # state[r])
    /\ UNCHANGED <<session, stopping, openings, seq, queues, paused, restarts, pump, resume,
                   procVars, budget>>

\* external_stop's second half: set_state with no compare
ExternalStop(s) ==
    /\ Unlocked /\ Op("external", s[1], s[2]) \in ops
    /\ Settle(s[1], "Interrupted", FALSE)
    /\ ops' = (ops \ {Op("external", s[1], s[2])}) \cup Wakes(s[1], "Interrupted")
    /\ pumpDue' = TRUE
    /\ UNCHANGED <<session, stopping, openings, seq, queues, paused, restarts, pump, resume,
                   procVars, budget>>
------------------------------------------------------------------------------
(* Stop: plan_stop decides and latches, the rest happens after the unlock *)

StopRoute(r, force) ==
    CASE state[r] = "Queued" -> "Cancel"
      [] state[r] \in Ended -> "Nothing"
      [] state[r] = "Interrupted" -> "Discard"
      [] OTHER ->
           IF \/ session[r] = 0
              \/ force
              \/ stop[r] \in WindingDown                  \* already asked
              \/ \E x \in restarts : x.run = r            \* restart pending
              \/ state[r] \in {"Paused", "AwaitingPermission"}
             THEN "Kill" ELSE "Ask"

StopRecord == [Cancel |-> "BeforeStart", Discard |-> "Discarded",
               Kill |-> "Immediate", Ask |-> "Asked"]
StopFollows == [Cancel |-> "dequeue", Discard |-> "discard",
                Kill |-> "stopKill", Ask |-> "ask"]

PlanStop(r, force) ==
    /\ Unlocked /\ Pressable(r) /\ state[r] # "None"
    /\ Spend("stop")
    /\ stopping' = [stopping EXCEPT ![r] = TRUE]
    /\ LET route == StopRoute(r, force) IN
       IF route = "Nothing"
         THEN pumpDue' = TRUE /\ UNCHANGED <<stop, ops>>
         ELSE /\ stop' = [stop EXCEPT ![r] = StopRecord[route]]
              /\ ops' = ops \cup {Op(StopFollows[route], r, session[r])}
              /\ UNCHANGED pumpDue
    /\ UNCHANGED <<state, slotVars, session, frozen, held, openings, seq, queues, paused,
                   frozenSessions, restarts, pump, resume, procVars>>

\* StopRoute::Cancel, its second critical section ...
CancelDequeues(r) ==
    /\ Unlocked
    /\ \E g \in 0 .. MaxGen :
         /\ Op("dequeue", r, g) \in ops
         /\ ops' = (ops \ {Op("dequeue", r, g)}) \cup {Op("cancel", r, g)}
    /\ queues' = Dequeued(r)
    /\ UNCHANGED <<rowVars, agentSlots, projectSlots, paused, frozenSessions, restarts, pumpDue,
                   pump, resume, procVars, budget>>

\* ... and its third; StopRoute::Discard has only this one
CancelLands(r) ==
    /\ Unlocked
    /\ \E do \in {"cancel", "discard"}, g \in 0 .. MaxGen :
         /\ Op(do, r, g) \in ops
         /\ ops' = (ops \ {Op(do, r, g)}) \cup Wakes(r, "Cancelled")
    /\ Settle(r, "Cancelled", FALSE)
    /\ pumpDue' = TRUE
    /\ UNCHANGED <<session, stopping, openings, seq, queues, paused, restarts, pump, resume,
                   procVars, budget>>

\* In the session registry, which lets a child go when it is reaped
Registered(s) == s[2] # 0 /\ child[s].st \in {"live", "dying"}

\* kill_child: continue a child this registry froze, then end_tree it; a
\* session with no registered child is nobody to kill
Killed(s) ==
    IF Registered(s)
      THEN /\ child' = [child EXCEPT ![s].st = "dying",
                                     ![s].halted = @ /\ s \notin frozenSessions]
           /\ frozenSessions' = frozenSessions \ {s}
      ELSE UNCHANGED <<child, frozenSessions>>

KillLands(r) ==
    /\ Unlocked
    /\ \E do \in {"kill", "stopKill"}, g \in 0 .. MaxGen :
         /\ Op(do, r, g) \in ops
         /\ ops' = ops \ {Op(do, r, g)}
         /\ Killed(<<r, g>>)
         /\ pumpDue' = (pumpDue \/ do = "stopKill")
    /\ UNCHANGED <<rowVars, queues, agentSlots, projectSlots, paused, restarts, pump, resume,
                   minted, frames, budget>>

\* ask_to_wind_down: typed into the child, or else recorded Forced and killed
AskToWindDown(r) ==
    /\ Unlocked
    /\ \E g \in 0 .. MaxGen :
         /\ Op("ask", r, g) \in ops
         /\ IF Registered(<<r, g>>)
              THEN /\ child' = [child EXCEPT ![<<r, g>>].typed = TRUE]
                   /\ ops' = (ops \ {Op("ask", r, g)}) \cup {Op("grace", r, 0)}
                   /\ UNCHANGED <<stop, frozenSessions>>
              ELSE /\ stop' = [stop EXCEPT ![r] = IF @ \in WindingDown THEN "Forced" ELSE @]
                   /\ ops' = ops \ {Op("ask", r, g)}
                   /\ UNCHANGED <<child, frozenSessions>>
    /\ pumpDue' = TRUE
    /\ UNCHANGED <<state, slotVars, session, frozen, stopping, held, openings, seq, queues, paused,
                   restarts, pump, resume, minted, frames, budget>>

\* plan_forced_stop: the grace ran out
GraceRunsOut(r) ==
    /\ Unlocked /\ Op("grace", r, 0) \in ops
    /\ IF stop[r] \in WindingDown /\ state[r] \notin Over
         THEN /\ stop' = [stop EXCEPT ![r] = "Forced"]
              /\ ops' = (ops \ {Op("grace", r, 0)}) \cup {Op("kill", r, session[r])}
         ELSE /\ ops' = ops \ {Op("grace", r, 0)}
              /\ UNCHANGED stop
    /\ UNCHANGED <<state, slotVars, session, frozen, stopping, held, openings, seq, queues, paused,
                   frozenSessions, restarts, pumpDue, pump, resume, procVars, budget>>

------------------------------------------------------------------------------
(* Follow-ups *)

\* plan_follow_up: sent at once, or held for the next hand-back
PlanFollowUp(r) ==
    IF state[r] \in {"Idle", "Blocked"} /\ session[r] # 0 /\ frozen[r] = NoFreeze
      THEN /\ held' = [held EXCEPT ![r] = FALSE]
           /\ ops' = (ops \ {Op("follow", r, 0)}) \cup {Op("send", r, session[r])}
      ELSE /\ held' = [held EXCEPT ![r] =
                         @ \/ state[r] \in {"Queued", "Starting", "Running",
                                            "AwaitingPermission", "Idle"}]
           /\ ops' = ops \ {Op("follow", r, 0)}

UnchangedByFollowUp == UNCHANGED <<state, slotVars, session, frozen, stop, stopping, openings,
                                   seq, queues, paused, frozenSessions, restarts, pumpDue, pump,
                                   resume, procVars>>

FollowUp(r) ==
    /\ Unlocked /\ state[r] # "None" /\ stop[r] = "None"
    /\ Spend("follow")
    /\ PlanFollowUp(r)
    /\ UnchangedByFollowUp

\* The held lines a hand-back released, delivered by the task it spawned
HeldFollowUp(r) ==
    /\ Unlocked /\ Op("follow", r, 0) \in ops
    /\ IF stop[r] = "None" THEN PlanFollowUp(r)
         ELSE ops' = ops \ {Op("follow", r, 0)} /\ UNCHANGED held
    /\ UnchangedByFollowUp /\ UNCHANGED budget

\* send_prompt's reserve_blocked_retry: a blocked run needs a slot back first
Reserve(r) ==
    /\ Unlocked
    /\ \E g \in Gens :
         LET rest == ops \ {Op("send", r, g)} IN
         /\ Op("send", r, g) \in ops
         /\ IF state[r] = "Blocked" /\ ~slot[r]
              THEN IF /\ ProjectOf[r] \notin paused /\ frozen[r] = NoFreeze
                      /\ stop[r] = "None" /\ HasRoom(r)
                     THEN TakeSlot(r) /\ ops' = rest \cup {Op("typeReserved", r, g)}
                     ELSE ops' = rest /\ UNCHANGED slotVars
              ELSE ops' = rest \cup {Op("type", r, g)} /\ UNCHANGED slotVars
    /\ UNCHANGED <<state, session, frozen, stop, stopping, held, openings, seq, queues, paused,
                   frozenSessions, restarts, pumpDue, pump, resume, procVars, budget>>

\* send_prompt_inner, and the reservation given back when nobody reads
SendPrompt(r) ==
    /\ Unlocked
    /\ \E do \in {"type", "typeReserved"}, g \in Gens :
         /\ Op(do, r, g) \in ops
         /\ ops' = ops \ {Op(do, r, g)}
         /\ IF Registered(<<r, g>>)
              THEN child' = [child EXCEPT ![<<r, g>>].typed = TRUE] /\ UNCHANGED slotVars
              ELSE /\ UNCHANGED child
                   /\ IF do = "typeReserved" /\ session[r] = g /\ state[r] = "Blocked" /\ slot[r]
                        THEN GiveSlot(r) ELSE UNCHANGED slotVars
    /\ UNCHANGED <<state, session, frozen, stop, stopping, held, openings, seq, queues, paused,
                   frozenSessions, restarts, pumpDue, pump, resume, minted, frames, budget>>
------------------------------------------------------------------------------
(* Pause: take_freezes marks under the lock, the SIGSTOPs come after it *)

\* freeze_run's refusals
Freezable(r) == session[r] # 0 /\ frozen[r] = NoFreeze /\ state[r] \notin Ended

Freeze(S) ==
    /\ state' = [r \in Runs |-> IF r \in S THEN "Paused" ELSE state[r]]
    /\ frozen' = [r \in Runs |-> IF r \in S THEN [at |-> state[r], slot |-> slot[r]] ELSE frozen[r]]
    /\ slot' = [r \in Runs |-> slot[r] /\ r \notin S]
    /\ agentSlots' = [k \in Keys |->
           agentSlots[k] - Cardinality({r \in S : slot[r] /\ KeyOf[r] = k})]
    /\ projectSlots' = [p \in Projects |->
           projectSlots[p] - Cardinality({r \in S : slot[r] /\ ProjectOf[r] = p})]
    /\ frozenSessions' = frozenSessions \cup {<<r, session[r]>> : r \in S}
    /\ ops' = ops \cup {Op("sigstop", r, session[r]) : r \in S}
    /\ UNCHANGED <<session, stop, stopping, held, openings, seq, queues, restarts, pump, resume,
                   procVars>>

PauseRun(r) ==
    /\ Unlocked /\ Pressable(r) /\ Freezable(r) /\ state[r] # "None"
    /\ Spend("pause")
    /\ Freeze({r})
    /\ UNCHANGED <<paused, pumpDue>>

PauseProject(p) ==
    /\ Unlocked /\ \A r \in Runs : ProjectOf[r] = p => Pressable(r)
    /\ Spend("pause")
    /\ LET S == {r \in Runs : ProjectOf[r] = p /\ state[r] # "None" /\ Freezable(r)} IN
       /\ Freeze(S)
       /\ pumpDue' = (pumpDue \/ S = {})
    /\ paused' = paused \cup {p}

SigStop(s) ==
    /\ Unlocked /\ Op("sigstop", s[1], s[2]) \in ops
    /\ ops' = ops \ {Op("sigstop", s[1], s[2])}
    /\ child' = IF Registered(s) THEN [child EXCEPT ![s].halted = TRUE] ELSE child
    /\ pumpDue' = TRUE
    /\ UNCHANGED <<rowVars, innerVars, pump, resume, minted, frames, budget>>

------------------------------------------------------------------------------
(* Resume: plan_thaws, reclaim_slots, plan_restarts, SIGCONT, finish_thaws,  *)
(* the old children's end_tree, requeue_interrupted; a lock for each of them *)

\* plan_thaws, for one run or for the whole project
ResumePlans(whole, S) ==
    /\ Unlocked /\ resume.phase = "idle"
    /\ \A r \in S : Pressable(r)
    /\ \E r \in S : state[r] \in {"Paused", "Interrupted"} \/ frozen[r] # NoFreeze
                    \/ ProjectOf[r] \in paused
    /\ LET thaws == IF whole THEN {s \in frozenSessions : s[1] \in S}
                    ELSE {<<r, session[r]>> : r \in {r \in S : frozen[r] # NoFreeze /\ session[r] # 0}}
       IN resume' = [phase |-> "planned", whole |-> whole, runs |-> S, todo |-> thaws,
                     thaws |-> thaws, ends |-> {}]
    /\ UNCHANGED <<rowVars, innerVars, pumpDue, pump, procVars, ops, budget>>

Resume == \/ \E p \in Projects : ResumePlans(TRUE, {r \in Runs : ProjectOf[r] = p})
          \/ \E r \in Runs : ResumePlans(FALSE, {r})

ReclaimTakesLock ==
    /\ Unlocked /\ resume.phase = "planned"
    /\ resume' = [resume EXCEPT !.phase = IF resume.todo = {} THEN "restart" ELSE "reclaim"]
    /\ UNCHANGED <<rowVars, innerVars, pumpDue, pump, procVars, ops, budget>>

\* Oldest dispatch first
NextThaw == CHOOSE s \in resume.todo : \A t \in resume.todo : seq[s[1]] <= seq[t[1]]

Reclaimed(s, thaws, ends) ==
    resume' = [resume EXCEPT !.todo = @ \ {s}, !.thaws = thaws, !.ends = ends,
                             !.phase = IF resume.todo = {s} THEN "restart" ELSE @]

\* Mutant: thawed in place, and its slot forgotten
ReclaimForgotten(s) ==
    /\ frozen' = [frozen EXCEPT ![s[1]].slot = FALSE]
    /\ Reclaimed(s, resume.thaws, resume.ends)
    /\ UNCHANGED <<state, session, queues, frozenSessions, slotVars>>

\* A thaw that needs its slot back has room, or must have it: it is being
\* stopped, or (viewed) a pane drives its conversation
ReclaimKeeps(s) ==
    LET r == s[1] IN
    /\ IF frozen[r].slot
         THEN TakeSlot(r) /\ frozen' = [frozen EXCEPT ![r].slot = FALSE]
         ELSE UNCHANGED <<slotVars, frozen>>
    /\ Reclaimed(s, resume.thaws, resume.ends)
    /\ UNCHANGED <<state, session, queues, frozenSessions>>

\* No room: back to the front of its queue, its frozen child to be ended
ReclaimRequeues(s) ==
    LET r == s[1] IN
    /\ frozen[r].slot /\ ~stopping[r] /\ ~HasRoom(r)
    /\ frozen' = [frozen EXCEPT ![r] = NoFreeze]
    /\ session' = [session EXCEPT ![r] = 0]
    /\ state' = [state EXCEPT ![r] = "Queued"]
    /\ frozenSessions' = frozenSessions \ {s}
    /\ queues' = PushFront(r)
    /\ Reclaimed(s, resume.thaws \ {s}, resume.ends \cup {s})
    /\ UNCHANGED slotVars

ReclaimSlot ==
    /\ resume.phase = "reclaim" /\ ~pump.on /\ resume.todo # {}
    /\ ReclaimKeeps(NextThaw) \/ ReclaimRequeues(NextThaw)
    /\ UNCHANGED <<stop, stopping, held, openings, seq, paused, restarts, pumpDue, pump,
                   procVars, ops, budget>>

\* Whether a fork of this process recorded its settings (`forked_with`)
ForkedHere(r) == \E g \in Gens : child[<<r, g>>].st # "none" /\ ~(r \in Restored /\ g = 1)

\* plan_restarts: those whose settings changed since the fork and no pane views
PlanRestarts ==
    /\ Unlocked /\ resume.phase = "restart"
    /\ \E S \in SUBSET {s \in resume.thaws : /\ frozen[s[1]] # NoFreeze /\ session[s[1]] = s[2]
                                            /\ ForkedHere(s[1]) /\ minted[s[1]] < MaxGen} :
         LET R == {s[1] : s \in S} IN
         /\ IF S = {} THEN UNCHANGED budget ELSE Spend("edit")
         /\ minted' = [r \in Runs |-> IF r \in R THEN minted[r] + 1 ELSE minted[r]]
         /\ session' = [r \in Runs |-> IF r \in R THEN minted[r] + 1 ELSE session[r]]
         /\ frozen' = [r \in Runs |-> IF r \in R THEN NoFreeze ELSE frozen[r]]
         /\ state' = [r \in Runs |-> IF r \in R THEN "Starting" ELSE state[r]]
         /\ frozenSessions' = frozenSessions \ S
         /\ restarts' = {x \in restarts : <<x.run, x.old>> \notin S} \cup
                        {[run |-> s[1], old |-> s[2], new |-> minted[s[1]] + 1] : s \in S}
         /\ resume' = [resume EXCEPT !.phase = "cont", !.ends = @ \cup S]
    /\ UNCHANGED <<slotVars, stop, stopping, held, openings, seq, queues, paused, pumpDue, pump,
                   child, frames, ops>>

SigCont ==
    /\ Unlocked /\ resume.phase = "cont"
    /\ child' = [s \in Sessions |->
           IF s \in resume.thaws THEN [child[s] EXCEPT !.halted = FALSE] ELSE child[s]]
    /\ resume' = [resume EXCEPT !.phase = "finish"]
    /\ UNCHANGED <<rowVars, innerVars, pumpDue, pump, minted, frames, ops, budget>>

\* finish_thaws: marks cleared and the queue reopened, after the signals
FinishThaws ==
    /\ Unlocked /\ resume.phase = "finish"
    /\ LET R == {s[1] : s \in resume.thaws} IN
       /\ state' = [r \in Runs |-> IF r \in R /\ frozen[r] # NoFreeze THEN frozen[r].at ELSE state[r]]
       /\ frozen' = [r \in Runs |-> IF r \in R THEN NoFreeze ELSE frozen[r]]
    /\ frozenSessions' = frozenSessions \ resume.thaws
    /\ paused' = IF resume.whole THEN paused \ {ProjectOf[r] : r \in resume.runs} ELSE paused
    /\ resume' = [resume EXCEPT !.phase = "end"]
    /\ UNCHANGED <<slotVars, session, stop, stopping, held, openings, seq, queues, restarts,
                   pumpDue, pump, procVars, ops, budget>>

\* Mutant: not continued first, so that the hang-up waits for a SIGCONT
HungUpPends(s) == IF child[s].halted THEN child[s] ELSE [child[s] EXCEPT !.st = "dying"]
HungUp(s) == [child[s] EXCEPT !.st = "dying", !.halted = FALSE]

\* The children of restarted and requeued runs are brought down
EndOldChildren ==
    /\ Unlocked /\ resume.phase = "end"
    /\ child' = [s \in Sessions |->
           IF s \in resume.ends /\ child[s].st = "live" THEN HungUp(s) ELSE child[s]]
    /\ resume' = [resume EXCEPT !.phase = "waiting"]
    /\ UNCHANGED <<rowVars, innerVars, pumpDue, pump, minted, frames, ops, budget>>

\* Bound: the last frames of the children that are gone have been applied by then
RequeueTakesLock ==
    /\ Unlocked /\ resume.phase = "waiting"
    /\ \A s \in Sessions : s[1] \in resume.runs /\ child[s].st = "gone" => frames[s] = <<>>
    /\ resume' = [resume EXCEPT !.phase = "requeue",
                                !.todo = {<<r, 0>> : r \in {r \in resume.runs : state[r] = "Interrupted"}}]
    /\ UNCHANGED <<rowVars, innerVars, pumpDue, pump, procVars, ops, budget>>

\* requeue_interrupted, one row at a time: skipped when a pane views its
\* conversation or a newer run holds its pair
RequeueOne(r) ==
    /\ resume.phase = "requeue" /\ ~pump.on /\ <<r, 0>> \in resume.todo
    /\ resume' = [resume EXCEPT !.todo = @ \ {<<r, 0>>}]
    /\ \/ /\ HolderIn(PairOf[r]) = {}
          /\ state' = [state EXCEPT ![r] = "Queued"]
          /\ queues' = PushBack(r)
       \/ UNCHANGED <<state, queues>>
    /\ UNCHANGED <<slotVars, session, frozen, stop, stopping, held, openings, seq, paused,
                   frozenSessions, restarts, pumpDue, pump, procVars, ops, budget>>

ResumeDone ==
    /\ resume.phase = "requeue" /\ ~pump.on /\ resume.todo = {}
    /\ resume' = NoResume
    /\ pumpDue' = TRUE
    /\ UNCHANGED <<rowVars, innerVars, pump, procVars, ops, budget>>

------------------------------------------------------------------------------
Init ==
    /\ state = [r \in Runs |-> IF r \in Restored THEN "Interrupted" ELSE "None"]
    /\ slot = [r \in Runs |-> FALSE]
    /\ session = [r \in Runs |-> IF r \in Restored THEN 1 ELSE 0]
    /\ frozen = [r \in Runs |-> NoFreeze]
    /\ stop = [r \in Runs |-> "None"]
    /\ stopping = [r \in Runs |-> FALSE]
    /\ held = [r \in Runs |-> FALSE]
    /\ openings = [r \in Runs |-> 0]
    /\ seq \in {f \in [Runs -> 0 .. Cardinality(Restored)] :
                  \A r \in Runs : /\ f[r] = 0 <=> r \notin Restored
                                  /\ \A q \in Restored \ {r} : f[q] # f[r]}
    /\ queues = [k \in Keys |-> <<>>]
    /\ agentSlots = [k \in Keys |-> 0]
    /\ projectSlots = [p \in Projects |-> 0]
    /\ paused = {} /\ frozenSessions = {} /\ restarts = {}
    /\ pumpDue = FALSE /\ pump = IdlePump /\ resume = NoResume
    /\ child = [s \in Sessions |->
           IF s[1] \in Restored /\ s[2] = 1 THEN [NoChild EXCEPT !.st = "gone"] ELSE NoChild]
    /\ minted = [r \in Runs |-> IF r \in Restored THEN 1 ELSE 0]
    /\ frames = [s \in Sessions |-> <<>>]
    /\ ops = {}
    /\ budget \in Budgets

Admission == PumpStarts \/ PumpVisits \/ PumpTurns

Starts == \E r \in Runs :
    \/ Bind(r)
    \/ \E g \in Gens : Fork(r, g) \/ BootFails(r, g) \/ AbandonUnsubmitted(r, g)
                      \/ OpeningGivesUp(r, g) \/ OpeningDone(r, g)
    \/ \E g \in 0 .. MaxGen : FinishFailed(r, g)

ChildSteps == \E s \in Sessions :
    \/ ChildReady(s) \/ ChildTakesLine(s) \/ ChildEndsTurn(s)
    \/ ChildAsks(s) \/ ChildAnswered(s) \/ ChildFailsTurn(s)
    \/ \E how \in ExitKinds : ChildExits(s, how)

Reactions == \E s \in Sessions :
    ApplyFrame(s) \/ ExitRestarts(s) \/ ExitDecided(s) \/ ExternalStop(s) \/ SigStop(s)

Stops == \E r \in Runs :
    \/ \E force \in BOOLEAN : PlanStop(r, force)
    \/ CancelDequeues(r) \/ CancelLands(r) \/ KillLands(r) \/ AskToWindDown(r) \/ GraceRunsOut(r)

FollowUps == \E r \in Runs : FollowUp(r) \/ HeldFollowUp(r) \/ Reserve(r) \/ SendPrompt(r)

Pauses == (\E r \in Runs : PauseRun(r)) \/ (\E p \in Projects : PauseProject(p))

Resumes == \/ Resume \/ ReclaimTakesLock \/ ReclaimSlot \/ PlanRestarts \/ SigCont \/ FinishThaws
           \/ EndOldChildren \/ RequeueTakesLock \/ ResumeDone
           \/ \E r \in Runs : RequeueOne(r)

Next == \/ \E r \in Runs : Dispatch(r)
        \/ Admission \/ Starts \/ ChildSteps \/ Reactions \/ Stops \/ FollowUps \/ Pauses \/ Resumes

Spec == Init /\ [][Next]_vars

\* What runs by itself: the async tasks and threads the registry starts, the
\* reaper's callback, the hook thread; and a child that works on what it is
\* given and goes when it is hung up.  No person is assumed to press anything,
\* answer a permission, or resume.
Fairness ==
    /\ WF_vars(Admission)
    /\ \A r \in Runs :
         /\ WF_vars(Bind(r)) /\ WF_vars(\E g \in 0 .. MaxGen : FinishFailed(r, g))
         /\ WF_vars(CancelDequeues(r)) /\ WF_vars(CancelLands(r)) /\ WF_vars(KillLands(r))
         /\ WF_vars(AskToWindDown(r)) /\ WF_vars(GraceRunsOut(r))
    /\ \A s \in Sessions :
         /\ WF_vars(Fork(s[1], s[2])) /\ WF_vars(ApplyFrame(s)) /\ WF_vars(ExitDecided(s))
         /\ WF_vars(ChildReady(s)) /\ WF_vars(ChildTakesLine(s)) /\ WF_vars(ChildEndsTurn(s))
         /\ WF_vars(child[s].st = "dying" /\ ChildExits(s, "exitErr"))

FairSpec == Spec /\ Fairness

------------------------------------------------------------------------------
(* What must hold *)

RowsTyped ==
    /\ state \in [Runs -> RunStates] /\ slot \in [Runs -> BOOLEAN]
    /\ session \in [Runs -> 0 .. MaxGen] /\ frozen \in [Runs -> Freezes]
    /\ stop \in [Runs -> StopHow] /\ stopping \in [Runs -> BOOLEAN]
    /\ held \in [Runs -> BOOLEAN] /\ openings \in [Runs -> Nat] /\ seq \in [Runs -> Nat]

InnerTyped ==
    /\ agentSlots \in [Keys -> Nat] /\ projectSlots \in [Projects -> Nat]
    /\ paused \subseteq Projects /\ frozenSessions \subseteq Sessions
    /\ restarts \subseteq [run : Runs, old : Gens, new : Gens]

StepsTyped ==
    /\ pumpDue \in BOOLEAN
    /\ pump \in [on : BOOLEAN, pass : SUBSET Runs, moved : BOOLEAN]
    /\ resume \in [phase : ResumePhases, whole : BOOLEAN, runs : SUBSET Runs,
                   todo : SUBSET (Runs \X (0 .. MaxGen)), thaws : SUBSET Sessions,
                   ends : SUBSET Sessions]
    /\ ops \subseteq Ops

ChildrenTyped ==
    /\ child \in [Sessions -> Children] /\ minted \in [Runs -> 0 .. MaxGen]
    /\ frames \in [Sessions -> Seq(Frames)] /\ budget \in [Chances -> Nat]

\* Every variable keeps its type: the row, queue and slot tables of `Inner`, the
\* admission loop, `resume` and the child processes.
TypeOK == /\ RowsTyped /\ InnerTyped /\ StepsTyped /\ ChildrenTyped
          /\ queues \in [Keys -> Seq(Runs)]

Holders(k) == {r \in Runs : slot[r] /\ KeyOf[r] = k}
ProjectHolders(p) == {r \in Runs : slot[r] /\ ProjectOf[r] = p}

\* A slot is taken at admission and released once, whatever ends, freezes, blocks
\* or requeues the run (the accounting in the header of agents.rs): a counter never
\* says less than the runs that hold a slot of it, so `has_room` never sees room
\* that is not there.
SlotsCovered ==
    /\ \A k \in Keys : Cardinality(Holders(k)) <= agentSlots[k]
    /\ \A p \in Projects : Cardinality(ProjectHolders(p)) <= projectSlots[p]

\* The admission loop starts a run only while fewer runs than its stamped limits
\* really hold a slot of its role and of its project (admit_a_pass), whatever a
\* Pause gave back, a thaw took again or a failed start released meanwhile.
AdmittedUnderTheCaps ==
    [][\A r \in Runs : pump.on /\ state'[r] # state[r] =>
         /\ Cardinality(Holders(KeyOf[r])) < AgentLimit[r]
         /\ Cardinality(ProjectHolders(ProjectOf[r])) < ProjectLimit[r]]_vars

\* enqueue_unique's promise, which resume's requeue must keep too: no two runs
\* of one (role, task) pair hold it at once.
OneRunPerPair ==
    \A r, s \in Runs : r # s /\ PairOf[r] = PairOf[s] =>
        ~(HoldsAPair(state[r]) /\ HoldsAPair(state[s]))

Waking == pumpDue \/ pump.on \/ resume # NoResume \/ ops # {}

\* No lost wakeup: when nothing of the program is in progress, no queue has a
\* front that admit_a_pass would take ("runs start as slots free").
NoLostWakeup == ~Waking => \A r \in Fronts : ~Admits(r)

\* A child that stands stopped and that nobody has hung up is in the table of
\* frozen sessions, where the next Resume or Stop finds it and continues it
\* (take_freezes, kill_child), or is one that the Resume in progress brings down.
\* It says nothing of a child already hung up (NoHangUpPends), nor of one whose
\* run is over, nor of presses that overlap (Overlapping).
NoChildLeftStopped ==
    \A s \in Sessions : child[s].st = "live" /\ child[s].halted /\ state[s[1]] \notin Over =>
        s \in frozenSessions \/ s \in resume.ends

\* False, and in no run: agents.rs 9677-9683 has a frozen child continued before it
\* is hung up, but a kill_child between the mark and the SIGSTOP of a Pause takes the
\* mark off, and the SIGSTOP then stops a child that was told to go.
NoHangUpPends == \A s \in Sessions : child[s].st = "dying" => ~child[s].halted

\* Somebody has decided to end the child: kill_child is to come, or resume's end_tree
BeingEnded(s) == s \in resume.ends \/ \E do \in {"kill", "stopKill"} : Op(do, s[1], s[2]) \in ops

\* One checkout, one child that stays: of two live children of one (role, task) pair
\* one is being brought down, or belongs to a run cancelled in its queue whose start
\* was under way (CancelledNeverRan).
OneChildStays ==
    \A s, t \in Sessions :
        /\ PairOf[s[1]] = PairOf[t[1]] /\ s # t
        /\ child[s].st = "live" /\ child[t].st = "live"
        => \E u \in {s, t} : BeingEnded(u) \/ state[u[1]] = "Cancelled"

\* False, and in no run: what "one checkout, one process" would mean word for word.
\* The next child is forked beside one whose kill_child is still to come
\* (abandon_unsubmitted), whose end is awaited (reclaim_slots), or who was cancelled.
OneLiveChildPerCheckout ==
    \A s, t \in Sessions :
        PairOf[s[1]] = PairOf[t[1]] /\ child[s].st = "live" /\ child[t].st = "live" => s = t

\* Nothing of the run is in progress
Quiet(r) == /\ \A g \in Gens : frames[<<r, g>>] = <<>>
            /\ \A o \in ops : o.run # r
            /\ resume = NoResume

HasLiveChild(r) == session[r] # 0 /\ child[<<r, session[r]>>].st = "live"

\* Once its frames are applied and nothing of it is in progress, a row says what
\* its live child does: Running exactly while the child works on a turn.  A row
\* left Running over an idle child holds its slot and stalls the queue.
RowMatchesChild ==
    \A r \in Runs : Quiet(r) /\ HasLiveChild(r) /\ state[r] \notin Over \cup {"Paused"} =>
        (state[r] = "Running" <=> child[<<r, session[r]>>].mode = "busy")

\* A frozen run that gave its slot away (`Frozen::slot`) is owed one until it
\* has one again, waits in its queue for one, or is over: no thaw, restart or
\* requeue (reclaim_slots, plan_restarts, finish_thaws) forgets the debt and sets
\* the run to work without a slot.
SlotOwedIsReturned ==
    [][\A r \in Runs : frozen[r].slot =>
        frozen'[r].slot \/ slot'[r] \/ state'[r] \in Over \cup {"Queued"}]_vars

\* external_stop has decided, and has yet to set the row
SignalPending(r) == \E g \in Gens : Op("external", r, g) \in ops

\* Failed in its queue: by a start or an opening given up before Resume requeued the run
FailedInQueue(r) == state[r] = "Failed" /\ \E i \in 1 .. Len(queues[KeyOf[r]]) : queues[KeyOf[r]][i] = r

\* No late frame, exit, failed start, opening that gives up, Stop or Resume brings back
\* a run that ended.  Two things do, and are excepted by name: a signal from outside
\* decided before the end and applied after it (external_stop sets the row with no
\* compare), and the pump, which admits what stands in a queue and does not look at the
\* row (finish_failed leaves a requeued run where it stands).
EndedStaysEnded ==
    [][\A r \in Runs : state[r] \in Ended /\ ~SignalPending(r) /\ ~FailedInQueue(r) =>
         state'[r] \in Ended]_vars

\* The terminal states hold no checkout: a run of the same pair can be admitted.
EndedFreesItsCheckout ==
    \A r \in Runs : state[r] \in Ended => ~HoldsItsCheckout(r)

\* A run cancelled before it started has no child (StopHow::BeforeStart).
CancelledNeverRan ==
    \A r \in Runs : stop[r] = "BeforeStart" /\ state[r] = "Cancelled" => ~HasLiveChild(r)

\* A queued run starts, or is stopped, as slots free.
QueuedRunStarts == \A r \in Runs : state[r] = "Queued" ~> state[r] # "Queued"

\* A run asked to wind down ends: by itself inside the grace, or at its end.
AskedRunEnds ==
    \A r \in Runs : stop[r] \in WindingDown /\ HasLiveChild(r) ~> state[r] \in Over
==============================================================================
