------------------------ MODULE AgentRunsOrderProofs ------------------------
(***************************************************************************)
(* Theorems about AgentRuns whose constants say what the environment does  *)
(* not do: nobody presses a button again before what an earlier press      *)
(* decided has been carried out, or nobody pauses and no signal comes from *)
(* outside.  Without these the statements are false (README, section 10).  *)
(***************************************************************************)
EXTENDS AgentRunsProofs, SequenceTheorems

------------------------------------------------------------------------------
(* The slot a freeze gave away *)

\* Whatever resume has not got to yet may still be owed its slot; the rest is not.
Repaid ==
    /\ resume.phase \in {"planned", "reclaim"} =>
         \A s \in resume.thaws : s \in resume.todo \/ ~frozen[s[1]].slot
    /\ resume.phase \in {"restart", "cont", "finish"} => \A s \in resume.thaws : ~frozen[s[1]].slot

\* A step that makes no debt, and takes one off only as it should.
Honours(r) == /\ frozen'[r].slot => frozen[r].slot
              /\ frozen[r].slot => frozen'[r].slot \/ slot'[r] \/ state'[r] \in Over \cup {"Queued"}

Honoured == \A r \in Runs : Honours(r)

LEMMA NothingOwed == NoFreeze \in Freezes /\ ~NoFreeze.slot
BY DEF NoFreeze, Freezes, RunStates

LEMMA SettleHonours ==
  ASSUME Typed, NEW r \in Runs, NEW next \in RunStates, NEW clean,
         SetState(r, next, clean) \/ Settle(r, next, clean)
  PROVE  Honoured
<1>1. ASSUME SetState(r, next, clean) PROVE Honoured
  <2>1. /\ state' = [state EXCEPT ![r] = Landed(r, next)]
        /\ frozen' = IF Landed(r, next) \in Over THEN [frozen EXCEPT ![r] = NoFreeze] ELSE frozen
    BY <1>1 DEF SetState, ForgetsFreeze
  <2>2. state \in [Runs -> RunStates] /\ frozen \in [Runs -> Freezes]
    BY DEF Typed, RowsTyped
  <2>3. ASSUME NEW q \in Runs PROVE Honours(q)
    <3>1. CASE Landed(r, next) \in Over /\ q = r
      <4>1. state'[q] \in Over /\ frozen'[q] = NoFreeze
        BY <2>1, <2>2, <3>1
      <4>. QED
        BY <4>1, NothingOwed DEF Honours
    <3>2. CASE ~(Landed(r, next) \in Over /\ q = r)
      <4>1. frozen'[q] = frozen[q]
        BY <2>1, <2>2, <3>2
      <4>. QED
        BY <4>1 DEF Honours
    <3>. QED
      BY <3>1, <3>2
  <2>. QED
    BY <2>3 DEF Honoured
<1>2. ASSUME frozen' = frozen PROVE Honoured
  BY <1>2 DEF Honoured, Honours
<1>3. Settle(r, next, clean) => SetState(r, next, clean) \/ frozen' = frozen
  BY DEF Settle
<1>. QED
  BY <1>1, <1>2, <1>3

\* Outside Pause and Resume, a debt goes only with a run that is over.
LEMMA StepsHonour ==
  ASSUME Typed, Next, ~Pauses, ~Resumes
  PROVE  Honoured /\ resume' = resume
<1>. DEFINE Goal == Honoured /\ resume' = resume
<1>0. ASSUME frozen' = frozen, resume' = resume PROVE Goal
  BY <1>0 DEF Honoured, Honours
<1>1. ASSUME NEW r \in Runs, NEW next \in RunStates, NEW clean,
             SetState(r, next, clean) \/ Settle(r, next, clean), resume' = resume
      PROVE  Goal
  BY <1>1, SettleHonours
<1>2. Over \subseteq RunStates
  BY DEF RunStates
<1>3. ASSUME NEW r \in Runs, Dispatch(r) PROVE Goal
  BY <1>0, <1>3 DEF Dispatch
<1>4. CASE Admission
  BY <1>0, <1>4 DEF Admission, PumpStarts, PumpVisits, PumpTurns, rowVars
<1>5. CASE Starts
  <2>1. PICK r \in Runs :
          \/ Bind(r)
          \/ \E g \in Gens : Fork(r, g) \/ BootFails(r, g) \/ AbandonUnsubmitted(r, g)
                           \/ OpeningGivesUp(r, g) \/ OpeningDone(r, g)
          \/ \E g \in 0 .. MaxGen : FinishFailed(r, g)
    BY <1>5 DEF Starts
  <2>2. CASE \E g \in 0 .. MaxGen : FinishFailed(r, g)
    <3>1. Settle(r, "Failed", FALSE) /\ resume' = resume
      BY <2>2 DEF FinishFailed, FailedStart
    <3>. QED
      BY <3>1, <1>1, <1>2 DEF Over, Ended
  <2>3. CASE Bind(r)
    BY <1>0, <2>3 DEF Bind
  <2>4. CASE \E g \in Gens : AbandonUnsubmitted(r, g)
    BY <1>0, <2>4 DEF AbandonUnsubmitted
  <2>5. CASE \E g \in Gens : Fork(r, g) \/ BootFails(r, g) \/ OpeningGivesUp(r, g) \/ OpeningDone(r, g)
    BY <1>0, <2>5 DEF Fork, BootFails, OpeningGivesUp, OpeningDone, rowVars
  <2>. QED
    BY <2>1, <2>2, <2>3, <2>4, <2>5
<1>6. CASE ChildSteps
  <2>1. frozen' = frozen /\ resume' = resume
    BY <1>6 DEF ChildSteps, ChildReady, ChildTakesLine, ChildEndsTurn, ChildAsks, ChildAnswered,
              ChildFailsTurn, Turn, ChildExits, rowVars
  <2>. QED
    BY <1>0, <2>1
<1>7. CASE Reactions
  <2>1. PICK s \in Sessions : \/ ApplyFrame(s) \/ ExitRestarts(s) \/ ExitDecided(s)
                             \/ ExternalStop(s) \/ SigStop(s)
    BY <1>7 DEF Reactions
  <2>2. s[1] \in Runs
    BY DEF Sessions
  <2>3. CASE ApplyFrame(s)
    <3>1. Head(frames[s]) \in Frames
      BY <2>3 DEF ApplyFrame, Typed, ChildrenTyped
    <3>2. Meaning(Head(frames[s])) \in RunStates
      BY <3>1 DEF Meaning, Frames, RunStates
    <3>3. resume' = resume /\ (SetState(s[1], Meaning(Head(frames[s])), FALSE) \/ frozen' = frozen)
      BY <2>3 DEF ApplyFrame
    <3>. QED
      BY <1>0, <1>1, <2>2, <3>2, <3>3
  <2>4. CASE ExitRestarts(s)
    <3>1. resume' = resume /\ (Settle(s[1], "Failed", FALSE) \/ frozen' = frozen)
      BY <2>4 DEF ExitRestarts
    <3>. QED
      BY <1>0, <1>1, <1>2, <2>2, <3>1 DEF Over, Ended
  <2>5. CASE ExitDecided(s)
    <3>1. /\ resume' = resume
          /\ \/ \E how \in ExitKinds :
                  Settle(s[1], IF state[s[1]] = "Blocked" THEN "Failed" ELSE "Finished", how = "exitOk")
             \/ frozen' = frozen
      BY <2>5 DEF ExitDecided
    <3>2. (IF state[s[1]] = "Blocked" THEN "Failed" ELSE "Finished") \in RunStates
      BY <1>2 DEF Over, Ended
    <3>. QED
      BY <1>0, <1>1, <2>2, <3>1, <3>2
  <2>6. CASE ExternalStop(s)
    <3>1. resume' = resume /\ Settle(s[1], "Interrupted", FALSE)
      BY <2>6 DEF ExternalStop
    <3>. QED
      BY <1>1, <1>2, <2>2, <3>1 DEF Over
  <2>7. CASE SigStop(s)
    BY <1>0, <2>7 DEF SigStop, rowVars
  <2>. QED
    BY <2>1, <2>3, <2>4, <2>5, <2>6, <2>7
<1>8. CASE Stops
  <2>1. PICK r \in Runs :
          \/ \E force \in BOOLEAN : PlanStop(r, force)
          \/ CancelDequeues(r) \/ CancelLands(r) \/ KillLands(r) \/ AskToWindDown(r) \/ GraceRunsOut(r)
    BY <1>8 DEF Stops
  <2>2. CASE CancelLands(r)
    <3>1. resume' = resume /\ Settle(r, "Cancelled", FALSE)
      BY <2>2 DEF CancelLands
    <3>. QED
      BY <1>1, <1>2, <3>1 DEF Over, Ended
  <2>3. CASE ~CancelLands(r)
    <3>1. frozen' = frozen /\ resume' = resume
      BY <2>1, <2>3 DEF PlanStop, CancelDequeues, KillLands, AskToWindDown, GraceRunsOut, rowVars
    <3>. QED
      BY <1>0, <3>1
  <2>. QED
    BY <2>2, <2>3
<1>9. CASE FollowUps
  <2>1. frozen' = frozen /\ resume' = resume
    BY <1>9 DEF FollowUps, FollowUp, HeldFollowUp, UnchangedByFollowUp, Reserve, SendPrompt
  <2>. QED
    BY <1>0, <2>1
<1>. QED
  BY <1>3, <1>4, <1>5, <1>6, <1>7, <1>8, <1>9 DEF Next

\* No button is pressed while a Resume is under way.
LEMMA PausesWait ==
  ASSUME ~Overlapping, Pauses, Typed
  PROVE  /\ resume' = resume
         /\ \A r \in Runs : /\ frozen[r].slot => frozen'[r].slot
                            /\ frozen'[r].slot => frozen[r].slot \/ resume.phase = "idle"
<1>1. ASSUME NEW S \in SUBSET Runs, Freeze(S), \A r \in S : frozen[r] = NoFreeze /\ Pressable(r)
      PROVE  /\ resume' = resume
             /\ \A r \in Runs : /\ frozen[r].slot => frozen'[r].slot
                                /\ frozen'[r].slot => frozen[r].slot \/ resume.phase = "idle"
  <2>1. resume' = resume
    BY <1>1 DEF Freeze
  <2>2. \A r \in Runs : r \notin S => frozen'[r] = frozen[r]
    BY <1>1 DEF Freeze
  <2>3. \A r \in S : ~frozen[r].slot /\ resume.phase = "idle"
    BY <1>1, NothingOwed DEF Pressable
  <2>. QED
    BY <2>1, <2>2, <2>3
<1>2. ASSUME NEW r \in Runs, PauseRun(r)
      PROVE  Freeze({r}) /\ \A q \in {r} : frozen[q] = NoFreeze /\ Pressable(q)
  BY <1>2 DEF PauseRun, Freezable
<1>3. ASSUME NEW p \in Projects, PauseProject(p)
      PROVE  \E S \in SUBSET Runs : Freeze(S) /\ \A q \in S : frozen[q] = NoFreeze /\ Pressable(q)
  <2>. DEFINE S == {r \in Runs : ProjectOf[r] = p /\ state[r] # "None" /\ Freezable(r)}
  <2>1. Freeze(S) /\ \A q \in S : frozen[q] = NoFreeze /\ Pressable(q)
    BY <1>3 DEF PauseProject, Freezable
  <2>2. S \in SUBSET Runs
    OBVIOUS
  <2>. HIDE DEF S
  <2>. QED
    BY <2>1, <2>2
<1>4. PICK S \in SUBSET Runs : Freeze(S) /\ \A q \in S : frozen[q] = NoFreeze /\ Pressable(q)
  <2>1. CASE \E r \in Runs : PauseRun(r)
    <3>1. PICK r \in Runs : PauseRun(r)
      BY <2>1
    <3>2. {r} \in SUBSET Runs
      OBVIOUS
    <3>. QED
      BY <1>2, <3>1, <3>2
  <2>2. CASE \E p \in Projects : PauseProject(p)
    BY <1>3, <2>2
  <2>. QED
    BY <2>1, <2>2 DEF Pauses
<1>. QED
  BY <1>1, <1>4
LEMMA ReclaimRepays ==
  ASSUME IInv, Repaid, ReclaimSlot
  PROVE  Repaid' /\ \A r \in Runs : frozen[r].slot => frozen'[r].slot \/ slot'[r] \/ state'[r] = "Queued"
<1>. DEFINE s == NextThaw
            r == s[1]
<1>1. /\ Typed /\ resume.phase = "reclaim" /\ resume.todo \subseteq resume.thaws
      /\ s \in resume.todo /\ s \in Sessions /\ r \in Runs
  <2>1. Typed /\ resume.phase = "reclaim" /\ resume.todo # {} /\ resume.todo \subseteq resume.thaws
    BY DEF IInv, TypeOK, Typed, ThawsKnown, ReclaimSlot
  <2>2. resume.thaws \subseteq Sessions
    BY <2>1 DEF Typed, StepsTyped
  <2>3. s \in resume.todo
    BY <2>1, <2>2, NextThawIsThere
  <2>. QED
    BY <2>1, <2>2, <2>3 DEF Sessions
<1>2. /\ \A t \in resume.thaws : t \in resume.todo \/ ~frozen[t[1]].slot
      /\ \A t \in resume.thaws : t[1] \in Runs
  BY <1>1 DEF Repaid, Typed, StepsTyped, Sessions
<1>3. frozen \in [Runs -> Freezes] /\ slot \in [Runs -> BOOLEAN] /\ state \in [Runs -> RunStates]
  BY <1>1 DEF Typed, RowsTyped
<1>. HIDE DEF s
<1>4. CASE ReclaimKeeps(s)
  <2>1. /\ resume'.thaws = resume.thaws /\ resume'.todo = resume.todo \ {s}
        /\ resume'.phase \in {"reclaim", "restart"}
        /\ resume'.phase = "restart" => resume.todo = {s}
    BY <1>1, <1>4 DEF ReclaimKeeps, Reclaimed, Typed, StepsTyped
  <2>2. /\ \A q \in Runs : q # r => frozen'[q] = frozen[q]
        /\ ~frozen'[r].slot
        /\ frozen[r].slot => slot'[r]
    BY <1>1, <1>3, <1>4 DEF ReclaimKeeps, TakeSlot, Freezes
  <2>3. \A t \in resume.thaws : t \in resume'.todo \/ ~frozen'[t[1]].slot
    BY <1>2, <2>1, <2>2
  <2>4. Repaid'
    BY <2>1, <2>3 DEF Repaid
  <2>. QED
    BY <2>2, <2>4
<1>5. CASE ReclaimRequeues(s)
  <2>1. /\ resume'.thaws = resume.thaws \ {s} /\ resume'.todo = resume.todo \ {s}
        /\ resume'.phase \in {"reclaim", "restart"}
        /\ resume'.phase = "restart" => resume.todo = {s}
    BY <1>1, <1>5 DEF ReclaimRequeues, Reclaimed, Typed, StepsTyped
  <2>2. /\ \A q \in Runs : q # r => frozen'[q] = frozen[q]
        /\ frozen'[r] = NoFreeze /\ state'[r] = "Queued"
    BY <1>1, <1>3, <1>5 DEF ReclaimRequeues
  <2>3. \A t \in resume'.thaws : t \in resume'.todo \/ ~frozen'[t[1]].slot
    BY <1>2, <2>1, <2>2, NothingOwed
  <2>4. Repaid'
    BY <2>1, <2>3 DEF Repaid
  <2>. QED
    BY <2>2, <2>4
<1>. QED
  BY <1>4, <1>5 DEF ReclaimSlot, s

\* Each stage of a Resume leaves repaid what the next one takes for repaid.
LEMMA ResumesRepay ==
  ASSUME IInv, Repaid, Resumes
  PROVE  Repaid' /\ \A r \in Runs : frozen[r].slot => frozen'[r].slot \/ slot'[r] \/ state'[r] = "Queued"
<1>. DEFINE Goal == Repaid' /\ \A r \in Runs : frozen[r].slot => frozen'[r].slot \/ slot'[r] \/ state'[r] = "Queued"
<1>0. /\ Typed /\ resume.thaws \subseteq Sessions
      /\ frozen \in [Runs -> Freezes] /\ \A s \in Sessions : s[1] \in Runs
  BY DEF IInv, TypeOK, Typed, StepsTyped, RowsTyped, Sessions
<1>1. CASE ReclaimSlot
  BY <1>1, ReclaimRepays
<1>2. CASE Resume
  <2>1. frozen' = frozen /\ resume'.phase = "planned" /\ resume'.todo = resume'.thaws
    BY <1>2 DEF Resume, ResumePlans, rowVars
  <2>. QED
    BY <2>1 DEF Repaid
<1>3. CASE ReclaimTakesLock
  <2>1. /\ frozen' = frozen /\ resume'.todo = resume.todo /\ resume'.thaws = resume.thaws
        /\ resume.phase = "planned"
        /\ resume'.phase = IF resume.todo = {} THEN "restart" ELSE "reclaim"
    BY <1>0, <1>3 DEF ReclaimTakesLock, rowVars, Typed, StepsTyped
  <2>. QED
    BY <2>1 DEF Repaid
<1>4. CASE PlanRestarts
  <2>1. PICK S \in SUBSET resume.thaws :
          LET R == {s[1] : s \in S} IN
          /\ frozen' = [r \in Runs |-> IF r \in R THEN NoFreeze ELSE frozen[r]]
          /\ resume'.phase = "cont" /\ resume'.thaws = resume.thaws /\ resume.phase = "restart"
    BY <1>0, <1>4 DEF PlanRestarts, Typed, StepsTyped
  <2>2. \A s \in resume.thaws : ~frozen[s[1]].slot
    BY <2>1 DEF Repaid
  <2>3. \A r \in Runs : frozen'[r] = frozen[r] \/ (~frozen[r].slot /\ ~frozen'[r].slot)
    BY <2>1, <2>2, NothingOwed
  <2>4. \A s \in resume'.thaws : ~frozen'[s[1]].slot
    BY <1>0, <2>1, <2>2, <2>3
  <2>. QED
    BY <2>1, <2>3, <2>4 DEF Repaid
<1>5. CASE FinishThaws
  <2>1. /\ resume'.phase = "end"
        /\ \A r \in Runs : \/ frozen'[r] = frozen[r]
                           \/ \E s \in resume.thaws : s[1] = r /\ ~frozen[r].slot
    BY <1>0, <1>5 DEF FinishThaws, Repaid, Typed, StepsTyped
  <2>. QED
    BY <2>1 DEF Repaid
<1>6. CASE SigCont
  <2>1. frozen' = frozen /\ resume.phase = "cont" /\ resume'.phase = "finish" /\ resume'.thaws = resume.thaws
    BY <1>0, <1>6 DEF SigCont, rowVars, Typed, StepsTyped
  <2>. QED
    BY <2>1 DEF Repaid
<1>7. CASE EndOldChildren \/ RequeueTakesLock \/ ResumeDone \/ \E r \in Runs : RequeueOne(r)
  <2>1. frozen' = frozen
    BY <1>7 DEF EndOldChildren, RequeueTakesLock, ResumeDone, RequeueOne, rowVars
  <2>2. CASE EndOldChildren \/ RequeueTakesLock
    <3>1. resume'.phase \in {"waiting", "requeue"}
      BY <1>0, <2>2 DEF EndOldChildren, RequeueTakesLock, Typed, StepsTyped
    <3>. QED
      BY <2>1, <3>1 DEF Repaid
  <2>3. CASE ResumeDone
    BY <2>1, <2>3 DEF ResumeDone, NoResume, Repaid
  <2>4. CASE \E r \in Runs : RequeueOne(r)
    <3>1. resume'.phase = "requeue"
      BY <1>0, <2>4 DEF RequeueOne, Typed, StepsTyped
    <3>. QED
      BY <2>1, <3>1 DEF Repaid
  <2>. QED
    BY <1>7, <2>2, <2>3, <2>4
<1>. QED
  BY <1>1, <1>2, <1>3, <1>4, <1>5, <1>6, <1>7 DEF Resumes

\* One step, when no button is pressed before an earlier one is done with.
LEMMA StepRepays ==
  ASSUME ~Overlapping, IInv, Repaid, [Next]_vars
  PROVE  /\ Repaid'
         /\ \A r \in Runs : frozen[r].slot =>
              frozen'[r].slot \/ slot'[r] \/ state'[r] \in Over \cup {"Queued"}
<1>. DEFINE Goal == /\ Repaid'
                    /\ \A r \in Runs : frozen[r].slot =>
                         frozen'[r].slot \/ slot'[r] \/ state'[r] \in Over \cup {"Queued"}
<1>0. Typed /\ resume.thaws \subseteq Sessions /\ \A s \in Sessions : s[1] \in Runs
  BY DEF IInv, TypeOK, Typed, StepsTyped, Sessions
<1>1. CASE Resumes
  BY <1>1, ResumesRepay
<1>2. CASE Next /\ ~Pauses /\ ~Resumes
  <2>1. Honoured /\ resume' = resume
    BY <1>0, <1>2, StepsHonour
  <2>2. \A s \in resume.thaws : frozen'[s[1]].slot => frozen[s[1]].slot
    BY <1>0, <2>1 DEF Honoured, Honours
  <2>. QED
    BY <2>1, <2>2 DEF Repaid, Honoured, Honours
<1>3. CASE Pauses
  <2>1. /\ resume' = resume
        /\ \A r \in Runs : /\ frozen[r].slot => frozen'[r].slot
                           /\ frozen'[r].slot => frozen[r].slot \/ resume.phase = "idle"
    BY <1>0, <1>3, PausesWait
  <2>2. \A s \in resume.thaws : frozen'[s[1]].slot => frozen[s[1]].slot \/ resume.phase = "idle"
    BY <1>0, <2>1
  <2>. QED
    BY <2>1, <2>2 DEF Repaid
<1>4. CASE UNCHANGED vars
  BY <1>4 DEF vars, rowVars, Repaid
<1>. QED
  BY <1>1, <1>2, <1>3, <1>4

\* A run that froze holding a slot is owed it until it holds one, waits in its
\* queue for one or is over, whatever Pause, Stop, Resume, a settings restart and
\* the child's own end do to it (take_freezes, reclaim_slots, plan_restarts,
\* finish_thaws), as long as no button is pressed while an earlier one is at work.
THEOREM OwedSlotsAreReturned == ASSUME ~Overlapping PROVE Spec => SlotOwedIsReturned
<1>1. Init => IInv /\ Repaid
  <2>1. Init => Repaid
    BY DEF Init, NoResume, Repaid
  <2>. QED
    BY <2>1, InitInv
<1>2. IInv /\ Repaid /\ [Next]_vars => (IInv /\ Repaid)'
  BY NextInv, StepRepays
<1>3. IInv /\ Repaid /\ [Next]_vars =>
        [\A r \in Runs : frozen[r].slot =>
           frozen'[r].slot \/ slot'[r] \/ state'[r] \in Over \cup {"Queued"}]_vars
  BY StepRepays
<1>. QED
  BY <1>1, <1>2, <1>3, PTL DEF Spec, SlotOwedIsReturned

------------------------------------------------------------------------------
(* Nobody pauses, and no signal comes from outside *)

\* Buttons may be pressed on top of each other only where no previous cide has left
\* a row behind; nobody presses Pause; no child is signalled by anybody else.
Undisturbed ==
    /\ Overlapping => Restored = {}
    /\ \A b \in Budgets : b["pause"] = 0 /\ b["term"] = 0

\* The child of a previous cide, which is gone; a run that has no other
Ghost(r, g) == r \in Restored /\ g = 1
Unborn(r) == session[r] = 0 \/ Ghost(r, session[r])

BeforeAStart == {"None", "Queued", "Interrupted"}
Chain == {"start", "boot", "opening", "giveUp"}    \* the steps of one start
Exits == {"exitOk", "exitErr"}

Calm ==
    /\ budget["pause"] = 0 /\ budget["term"] = 0
    /\ frozenSessions = {} /\ restarts = {} /\ paused = {}
    /\ \A r \in Runs : frozen[r] = NoFreeze /\ state[r] # "Paused"
    /\ \A o \in ops : o.do \notin {"sigstop", "exitTerm", "external"}

\* A Resume has only interrupted rows to requeue.
Resuming ==
    /\ resume.phase # "reclaim" /\ (resume.phase # "requeue" => resume.todo = {})
    /\ \A t \in resume.todo : t[2] = 0 /\ state[t[1]] = "Interrupted" /\ t[1] \in resume.runs
    /\ resume.phase = "idle" => resume.runs = {}

\* A row that has not been started has no child of this process.
Waits ==
    \A r \in Runs :
        /\ state[r] \in BeforeAStart => Unborn(r)
        /\ state[r] = "None" => stop[r] = "None"
        /\ state[r] = "Interrupted" => r \in Restored /\ stop[r] \in {"None", "Discarded"}

Ghosts ==
    \A r \in Restored :
        /\ minted[r] >= 1 /\ child[<<r, 1>>].st = "gone" /\ frames[<<r, 1>>] = <<>>
        /\ \A o \in ops : o.do \in Exits \cup {"boot"} /\ o.run = r => o.gen # 1

\* A run is started by one task at a time, and not before it is admitted.
OneStart ==
    /\ \A o, p \in ops : o.do \in Chain /\ p.do \in Chain /\ o.run = p.run => o = p
    /\ \A o \in ops : o.do \in Chain => state[o.run] \notin BeforeAStart
    /\ \A o \in ops : o.do = "start" => state[o.run] \in {"Starting"} \cup Over /\ Unborn(o.run)

InQueue(r) == \E k \in Keys : \E i \in 1 .. Len(queues[k]) : queues[k][i] = r

QueuedWait ==
    \A k \in Keys : \A i \in 1 .. Len(queues[k]) :
        KeyOf[queues[k][i]] = k /\ state[queues[k][i]] = "Queued"

\* What a Stop decided is still so when it lands.
StopsDecided ==
    \A o \in ops :
        /\ o.do \in {"dequeue", "cancel"} =>
             stop[o.run] # "None" /\ state[o.run] \notin {"None", "Interrupted"}
        /\ o.do = "cancel" => ~InQueue(o.run)
        /\ o.do = "discard" => /\ ~Overlapping /\ state[o.run] \in Over
                               /\ o.run \notin resume.runs

Order == /\ Calm /\ Resuming /\ Waits /\ Ghosts /\ OneStart /\ QueuedWait /\ StopsDecided
         /\ OneRunPerPair

\* The pass of the admission loop has only fronts before it, and nothing else runs.
Passing ==
    /\ pump.pass \subseteq Fronts
    /\ pump.on => resume.phase # "requeue"
    /\ ~pump.on => pump = IdlePump

\* What every step leaves of these
Aside == {"kill", "stopKill", "ask", "grace", "follow", "send", "type", "typeReserved"}

Steady ==
    /\ frozen' = frozen /\ frozenSessions' = frozenSessions
    /\ restarts' = restarts /\ paused' = paused
    /\ budget'["pause"] = 0 /\ budget'["term"] = 0
    /\ \A r \in Restored : /\ minted'[r] >= 1 /\ child'[<<r, 1>>].st = "gone"
                           /\ frames'[<<r, 1>>] = <<>>
    /\ \A r \in Runs : \/ stop'[r] = stop[r]
                       \/ stop[r] # "None" /\ stop'[r] # "None" /\ state[r] \notin {"None", "Interrupted"}

OpsAside == \A o \in ops' : \/ o \in ops \/ o.do \in Aside
                            \/ o.do \in Exits /\ ~Ghost(o.run, o.gen)

LEMMA StillInOrder ==
  ASSUME Typed, Order, Steady, OpsAside, Resuming',
         \/ resume'.runs \subseteq resume.runs
         \/ \A o \in ops : o.do = "discard" => o.run \notin resume'.runs,
         state' = state, session' = session, queues' = queues
  PROVE  Order'
<1>1. Calm'
  BY DEF Order, Calm, Steady, OpsAside, Aside, Exits
<1>2. Waits'
  BY DEF Order, Waits, Steady, Unborn
<1>3. Ghosts'
  <2>. SUFFICES ASSUME NEW r \in Restored, NEW o \in ops', o.do \in Exits \cup {"boot"}, o.run = r
                PROVE  o.gen # 1
    BY DEF Ghosts, Steady
  <2>1. CASE o \in ops
    BY <2>1 DEF Order, Ghosts
  <2>2. CASE o \notin ops
    BY <2>2 DEF OpsAside, Aside, Exits, Ghost
  <2>. QED
    BY <2>1, <2>2
<1>4. OneStart'
  BY DEF Order, OneStart, OpsAside, Aside, Exits, Chain, Unborn
<1>5. QueuedWait' /\ OneRunPerPair'
  BY DEF Order, QueuedWait, OneRunPerPair
<1>6. StopsDecided'
  <2>. SUFFICES ASSUME NEW o \in ops',
                       o.do \in {"dequeue", "cancel", "discard"}
                PROVE  /\ o.do \in {"dequeue", "cancel"} =>
                            stop'[o.run] # "None" /\ state'[o.run] \notin {"None", "Interrupted"}
                       /\ o.do = "cancel" => ~InQueue(o.run)'
                       /\ o.do = "discard" => /\ ~Overlapping /\ state'[o.run] \in Over
                                              /\ o.run \notin resume'.runs
    BY DEF StopsDecided
  <2>1. o \in ops /\ o.run \in Runs
    BY DEF OpsAside, Aside, Exits, Typed, StepsTyped, Ops
  <2>2. InQueue(o.run)' <=> InQueue(o.run)
    BY DEF InQueue
  <2>. QED
    BY <2>1, <2>2 DEF Order, StopsDecided, Steady
<1>. QED
  BY <1>1, <1>2, <1>3, <1>4, <1>5, <1>6 DEF Order

\* One row moves, and is in no queue: it ends, or what it did it did in a child.
LEMMA MoveInOrder ==
  ASSUME Typed, Order, Steady, OpsAside, resume' = resume, resume.todo = {},
         NEW r \in Runs, NEW to \in RunStates, to \notin BeforeAStart \cup {"Paused"},
         state' = [state EXCEPT ![r] = to], ~InQueue(r), queues' = queues,
         session' = session \/ session' = [session EXCEPT ![r] = 0],
         \/ to \in Ended
         \/ HoldsAPair(state[r]) /\ ~Unborn(r) /\ session' = session
  PROVE  Order'
<1>0. /\ state \in [Runs -> RunStates] /\ session \in [Runs -> 0 .. MaxGen] /\ ops \subseteq Ops
      /\ \A o \in Ops : o.run \in Runs
      /\ \A q \in Runs : Unborn(q) => Unborn(q)'
  BY DEF Typed, RowsTyped, StepsTyped, Ops, Unborn, Ghost
<1>1. Calm'
  BY <1>0 DEF Order, Calm, Steady, OpsAside, Aside, Exits
<1>2. Waits'
  BY <1>0 DEF Order, Waits, Steady, BeforeAStart
<1>3. Ghosts'
  <2>. SUFFICES ASSUME NEW q \in Restored, NEW o \in ops', o.do \in Exits \cup {"boot"}, o.run = q
                PROVE  o.gen # 1
    BY DEF Ghosts, Steady
  <2>1. CASE o \in ops
    BY <2>1 DEF Order, Ghosts
  <2>2. CASE o \notin ops
    BY <2>2 DEF OpsAside, Aside, Exits, Ghost
  <2>. QED
    BY <2>1, <2>2
<1>4. OneStart'
  <2>1. \A o \in ops' : o.do \in Chain => o \in ops
    BY DEF OpsAside, Aside, Exits, Chain
  <2>2. \A o, p \in ops' : o.do \in Chain /\ p.do \in Chain /\ o.run = p.run => o = p
    BY <2>1 DEF Order, OneStart
  <2>3. \A o \in ops' : o.do \in Chain => state'[o.run] \notin BeforeAStart
    BY <1>0, <2>1 DEF Order, OneStart
  <2>4. ASSUME NEW o \in ops', o.do = "start"
        PROVE  state'[o.run] \in {"Starting"} \cup Over /\ Unborn(o.run)'
    <3>1. o \in ops /\ o.run \in Runs /\ state[o.run] \in {"Starting"} \cup Over /\ Unborn(o.run)
      BY <1>0, <2>1, <2>4 DEF Order, OneStart, Chain
    <3>2. o.run = r => to \in Ended
      BY <3>1
    <3>. QED
      BY <1>0, <3>1, <3>2 DEF Over
  <2>. QED
    BY <2>2, <2>3, <2>4 DEF OneStart
<1>5. QueuedWait'
  <2>. SUFFICES ASSUME NEW k \in Keys, NEW i \in 1 .. Len(queues[k])
                PROVE  KeyOf[queues[k][i]] = k /\ state'[queues[k][i]] = "Queued"
    BY DEF QueuedWait
  <2>1. queues[k][i] # r
    BY DEF InQueue
  <2>. QED
    BY <1>0, <2>1 DEF Order, QueuedWait
<1>6. OneRunPerPair'
  <2>1. \A q \in Runs : HoldsAPair(state'[q]) => HoldsAPair(state[q])
    BY <1>0 DEF HoldsAPair, Over
  <2>. QED
    BY <2>1 DEF Order, OneRunPerPair
<1>7. StopsDecided'
  <2>. SUFFICES ASSUME NEW o \in ops',
                       o.do \in {"dequeue", "cancel", "discard"}
                PROVE  /\ o.do \in {"dequeue", "cancel"} =>
                            stop'[o.run] # "None" /\ state'[o.run] \notin {"None", "Interrupted"}
                       /\ o.do = "cancel" => ~InQueue(o.run)'
                       /\ o.do = "discard" => /\ ~Overlapping /\ state'[o.run] \in Over
                                              /\ o.run \notin resume'.runs
    BY DEF StopsDecided
  <2>1. o \in ops /\ o.run \in Runs
    BY <1>0 DEF OpsAside, Aside, Exits
  <2>2. InQueue(o.run)' <=> InQueue(o.run)
    BY DEF InQueue
  <2>3. state'[o.run] = state[o.run] \/ (o.run = r /\ state'[o.run] = to)
    BY <1>0, <2>1
  <2>4. o.do = "discard" => state'[o.run] \in Over
    BY <2>1, <2>3 DEF Order, StopsDecided, HoldsAPair, Over
  <2>. QED
    BY <2>1, <2>2, <2>3, <2>4 DEF Order, StopsDecided, Steady, BeforeAStart
<1>8. Resuming'
  BY DEF Order, Resuming
<1>. QED
  BY <1>1, <1>2, <1>3, <1>4, <1>5, <1>6, <1>7, <1>8 DEF Order

\* What a queue holds after one of its steps.
LEMMA PushedHold ==
  ASSUME Typed, queues \in [Keys -> Seq(Runs)], NEW r \in Runs,
         queues' = PushBack(r) \/ queues' = PushFront(r),
         NEW k \in Keys, NEW i \in 1 .. Len(queues'[k])
  PROVE  \/ queues'[k][i] = r /\ k = KeyOf[r]
         \/ \E j \in 1 .. Len(queues[k]) : queues'[k][i] = queues[k][j]
<1>1. KeyOf[r] \in Keys /\ queues[KeyOf[r]] \in Seq(Runs)
  BY Stamps DEF Stamps
<1>2. CASE k # KeyOf[r]
  <2>1. queues'[k] = queues[k]
    BY <1>2 DEF PushBack, PushFront
  <2>. QED
    BY <2>1
<1>3. CASE k = KeyOf[r] /\ queues' = PushBack(r)
  <2>1. queues'[k] = Append(queues[k], r)
    BY <1>1, <1>3 DEF PushBack
  <2>. QED
    BY <1>1, <1>3, <2>1
<1>4. CASE k = KeyOf[r] /\ queues' = PushFront(r)
  <2>1. queues'[k] = <<r>> \o queues[k]
    BY <1>1, <1>4 DEF PushFront
  <2>2. Len(queues'[k]) = 1 + Len(queues[k]) /\ Len(queues[k]) \in Nat
    BY <1>1, <1>4, <2>1
  <2>3. queues'[k][i] = IF i = 1 THEN r ELSE queues[k][i - 1]
    BY <1>1, <1>4, <2>1, <2>2
  <2>. QED
    BY <1>4, <2>2, <2>3
<1>. QED
  BY <1>2, <1>3, <1>4

LEMMA DequeuedHold ==
  ASSUME Typed, queues \in [Keys -> Seq(Runs)], QueuedWait, NEW r \in Runs, queues' = Dequeued(r)
  PROVE  /\ \A k \in Keys : \A i \in 1 .. Len(queues'[k]) :
              \E j \in 1 .. Len(queues[k]) : queues'[k][i] = queues[k][j]
         /\ ~InQueue(r)'
         /\ \A q \in Runs : InQueue(q)' => InQueue(q)
<1>. DEFINE d == Dequeued(r)
<1>0. /\ \A k \in Keys : \A i \in 1 .. Len(d[k]) :
           /\ \E j \in 1 .. Len(queues[k]) : d[k][i] = queues[k][j]
           /\ k = KeyOf[r] => d[k][i] # r
  BY DequeuedLeaves
<1>1. /\ \A k \in Keys : \A i \in 1 .. Len(queues'[k]) :
           /\ \E j \in 1 .. Len(queues[k]) : queues'[k][i] = queues[k][j]
           /\ k = KeyOf[r] => queues'[k][i] # r
  <2>1. queues' = d
    OBVIOUS
  <2>. HIDE DEF d
  <2>. QED
    BY <1>0, <2>1
<1>2. \A k \in Keys : \A i \in 1 .. Len(queues'[k]) : queues'[k][i] # r
  BY <1>1 DEF QueuedWait
<1>. QED
  BY <1>1, <1>2 DEF InQueue

\* A run goes to its queue: fresh, interrupted, or its opening prompt never took.
LEMMA EnqueueInOrder ==
  ASSUME Typed, queues \in [Keys -> Seq(Runs)], Order, Steady, OpsAside,
         Resuming', resume'.runs = resume.runs,
         NEW r \in Runs, state' = [state EXCEPT ![r] = "Queued"],
         queues' = PushBack(r) \/ queues' = PushFront(r),
         session' = session \/ session' = [session EXCEPT ![r] = 0], Unborn(r)',
         \A o \in ops : o \in ops' /\ o.run = r => o.do \notin Chain \cup {"cancel", "discard"},
         HoldsAPair(state[r]) \/ HolderIn(PairOf[r]) = {}
  PROVE  Order'
<1>0. /\ state \in [Runs -> RunStates] /\ session \in [Runs -> 0 .. MaxGen] /\ ops \subseteq Ops
      /\ \A o \in Ops : o.run \in Runs
      /\ \A q \in Runs : Unborn(q) => Unborn(q)'
      /\ queues' \in [Keys -> Seq(Runs)]
  <2>1. queues' \in [Keys -> Seq(Runs)]
    <3>1. KeyOf[r] \in Keys /\ queues[KeyOf[r]] \in Seq(Runs) /\ <<r>> \in Seq(Runs)
      BY Stamps DEF Stamps
    <3>2. Append(queues[KeyOf[r]], r) \in Seq(Runs) /\ <<r>> \o queues[KeyOf[r]] \in Seq(Runs)
      BY <3>1
    <3>. QED
      BY <3>1, <3>2 DEF PushBack, PushFront
  <2>. QED
    BY <2>1 DEF Typed, RowsTyped, StepsTyped, Ops, Unborn, Ghost
<1>1. Calm'
  BY <1>0 DEF Order, Calm, Steady, OpsAside, Aside, Exits
<1>2. Waits'
  BY <1>0 DEF Order, Waits, Steady, BeforeAStart
<1>3. Ghosts'
  <2>. SUFFICES ASSUME NEW q \in Restored, NEW o \in ops', o.do \in Exits \cup {"boot"}, o.run = q
                PROVE  o.gen # 1
    BY DEF Ghosts, Steady
  <2>1. CASE o \in ops
    BY <2>1 DEF Order, Ghosts
  <2>2. CASE o \notin ops
    BY <2>2 DEF OpsAside, Aside, Exits, Ghost
  <2>. QED
    BY <2>1, <2>2
<1>4. OneStart'
  <2>1. \A o \in ops' : o.do \in Chain => o \in ops /\ o.run \in Runs /\ o.run # r
    BY <1>0 DEF OpsAside, Aside, Exits, Chain
  <2>2. \A o, p \in ops' : o.do \in Chain /\ p.do \in Chain /\ o.run = p.run => o = p
    BY <2>1 DEF Order, OneStart
  <2>3. \A o \in ops' : o.do \in Chain => state'[o.run] \notin BeforeAStart
    BY <1>0, <2>1 DEF Order, OneStart
  <2>4. \A o \in ops' : o.do = "start" => state'[o.run] \in {"Starting"} \cup Over /\ Unborn(o.run)'
    BY <1>0, <2>1 DEF Order, OneStart, Chain
  <2>. QED
    BY <2>2, <2>3, <2>4 DEF OneStart
<1>5. QueuedWait'
  <2>. SUFFICES ASSUME NEW k \in Keys, NEW i \in 1 .. Len(queues'[k])
                PROVE  KeyOf[queues'[k][i]] = k /\ state'[queues'[k][i]] = "Queued"
    BY DEF QueuedWait
  <2>1. \/ queues'[k][i] = r /\ k = KeyOf[r]
        \/ \E j \in 1 .. Len(queues[k]) : queues'[k][i] = queues[k][j]
    BY PushedHold
  <2>2. queues'[k][i] \in Runs
    BY <1>0
  <2>. QED
    BY <1>0, <2>1, <2>2 DEF Order, QueuedWait
<1>6. OneRunPerPair'
  <2>1. \A q \in Runs : q # r => state'[q] = state[q]
    BY <1>0
  <2>2. \A q \in Runs : q # r /\ PairOf[q] = PairOf[r] => ~HoldsAPair(state[q])
    BY DEF Order, OneRunPerPair, HolderIn
  <2>. QED
    BY <2>1, <2>2 DEF Order, OneRunPerPair
<1>7. StopsDecided'
  <2>. SUFFICES ASSUME NEW o \in ops',
                       o.do \in {"dequeue", "cancel", "discard"}
                PROVE  /\ o.do \in {"dequeue", "cancel"} =>
                            stop'[o.run] # "None" /\ state'[o.run] \notin {"None", "Interrupted"}
                       /\ o.do = "cancel" => ~InQueue(o.run)'
                       /\ o.do = "discard" => /\ ~Overlapping /\ state'[o.run] \in Over
                                              /\ o.run \notin resume'.runs
    BY DEF StopsDecided
  <2>1. o \in ops /\ o.run \in Runs /\ (o.do # "dequeue" => o.run # r)
    BY <1>0 DEF OpsAside, Aside, Exits
  <2>2. o.run # r => (InQueue(o.run)' => InQueue(o.run))
    BY PushedHold DEF InQueue
  <2>. QED
    BY <1>0, <2>1, <2>2 DEF Order, StopsDecided, Steady
<1>. QED
  BY <1>1, <1>2, <1>3, <1>4, <1>5, <1>6, <1>7 DEF Order

LEMMA AdmitInOrder ==
  ASSUME Typed, queues \in [Keys -> Seq(Runs)], Order, Steady, NEW r \in Runs, Admit(r),
         state[r] = "Queued", resume' = resume, session' = session, stop' = stop, resume.todo = {}
  PROVE  Order'
<1>0. /\ state \in [Runs -> RunStates] /\ ops \subseteq Ops
      /\ \A o \in Ops : o.run \in Runs
      /\ \A q \in Runs : Unborn(q)' <=> Unborn(q)
      /\ state' = [state EXCEPT ![r] = "Starting"] /\ queues' = Dequeued(r)
      /\ ops' = ops \cup {Op("start", r, 0)}
      /\ Op("start", r, 0).do = "start" /\ Op("start", r, 0).run = r
  BY DEF Typed, RowsTyped, StepsTyped, Ops, Unborn, Admit, Op
<1>1. Calm'
  BY <1>0 DEF Order, Calm, Steady
<1>2. Waits'
  BY <1>0 DEF Order, Waits, Steady, BeforeAStart
<1>3. Ghosts'
  BY <1>0 DEF Order, Ghosts, Steady, Exits
<1>4. OneStart'
  <2>1. \A o \in ops : o.do \in Chain => o.run # r
    BY DEF Order, OneStart, BeforeAStart
  <2>2. \A o, p \in ops' : o.do \in Chain /\ p.do \in Chain /\ o.run = p.run => o = p
    BY <1>0, <2>1 DEF Order, OneStart
  <2>3. \A o \in ops' : o.do \in Chain => state'[o.run] \notin BeforeAStart
    BY <1>0, <2>1 DEF Order, OneStart, BeforeAStart
  <2>4. Unborn(r)
    BY DEF Order, Waits, BeforeAStart
  <2>5. ASSUME NEW o \in ops', o.do = "start"
        PROVE  state'[o.run] \in {"Starting"} \cup Over /\ Unborn(o.run)'
    <3>1. CASE o = Op("start", r, 0)
      BY <1>0, <2>4, <3>1
    <3>2. CASE o \in ops
      BY <1>0, <2>1, <2>5, <3>2 DEF Order, OneStart, Chain
    <3>. QED
      BY <1>0, <3>1, <3>2
  <2>. QED
    BY <2>2, <2>3, <2>5 DEF OneStart
<1>5. QueuedWait'
  <2>. SUFFICES ASSUME NEW k \in Keys, NEW i \in 1 .. Len(queues'[k])
                PROVE  KeyOf[queues'[k][i]] = k /\ state'[queues'[k][i]] = "Queued"
    BY DEF QueuedWait
  <2>1. /\ \E j \in 1 .. Len(queues[k]) : queues'[k][i] = queues[k][j]
        /\ queues'[k][i] # r
    BY <1>0, DequeuedHold DEF Order, InQueue
  <2>2. \A j \in 1 .. Len(queues[k]) : queues[k][j] \in Runs
    OBVIOUS
  <2>. QED
    BY <1>0, <2>1, <2>2 DEF Order, QueuedWait
<1>6. OneRunPerPair'
  <2>1. \A q \in Runs : HoldsAPair(state'[q]) => HoldsAPair(state[q])
    BY <1>0 DEF HoldsAPair, Over, Ended
  <2>. QED
    BY <2>1 DEF Order, OneRunPerPair
<1>7. StopsDecided'
  <2>. SUFFICES ASSUME NEW o \in ops',
                       o.do \in {"dequeue", "cancel", "discard"}
                PROVE  /\ o.do \in {"dequeue", "cancel"} =>
                            stop'[o.run] # "None" /\ state'[o.run] \notin {"None", "Interrupted"}
                       /\ o.do = "cancel" => ~InQueue(o.run)'
                       /\ o.do = "discard" => /\ ~Overlapping /\ state'[o.run] \in Over
                                              /\ o.run \notin resume'.runs
    BY DEF StopsDecided
  <2>1. o \in ops /\ o.run \in Runs
    BY <1>0
  <2>2. InQueue(o.run)' => InQueue(o.run)
    BY <1>0, <2>1, DequeuedHold DEF Order
  <2>3. state'[o.run] = state[o.run] \/ (state'[o.run] = "Starting" /\ state[o.run] = "Queued")
    BY <1>0, <2>1
  <2>. QED
    BY <2>1, <2>2, <2>3 DEF Order, StopsDecided, Over, Ended
<1>8. Resuming'
  BY DEF Order, Resuming
<1>. QED
  BY <1>1, <1>2, <1>3, <1>4, <1>5, <1>6, <1>7, <1>8 DEF Order

\* The task that starts a run takes its next step.
LEMMA SwapInOrder ==
  ASSUME Typed, Order, Steady, resume' = resume,
         state' = state, queues' = queues, NEW r \in Runs, NEW o1 \in ops, NEW o2,
         o1.do \in Chain, o1.run = r, o2.run = r, o2.do \in Chain \ {"start"},
         o2.do = "boot" => ~Ghost(r, o2.gen),
         \A q \in Runs : q # r => session'[q] = session[q],
         \A o \in ops' : \/ o \in ops /\ o # o1
                         \/ o = o2
  PROVE  Order'
<1>0. /\ ops \subseteq Ops /\ \A o \in Ops : o.run \in Runs
      /\ \A q \in Runs : q # r => (Unborn(q)' <=> Unborn(q))
      /\ state[r] \notin BeforeAStart
      /\ \A o \in ops : o.do \in Chain /\ o # o1 => o.run # r
  BY DEF Typed, StepsTyped, Ops, Unborn, Order, OneStart
<1>1. Calm'
  BY <1>0 DEF Order, Calm, Steady, Chain
<1>2. Waits'
  BY <1>0 DEF Order, Waits, Steady
<1>3. Ghosts'
  <2>. SUFFICES ASSUME NEW q \in Restored, NEW o \in ops', o.do \in Exits \cup {"boot"}, o.run = q
                PROVE  o.gen # 1
    BY DEF Ghosts, Steady
  <2>1. CASE o \in ops
    BY <2>1 DEF Order, Ghosts
  <2>2. CASE o = o2
    BY <2>2 DEF Exits, Ghost, Chain
  <2>. QED
    BY <2>1, <2>2
<1>4. OneStart'
  <2>1. \A o, p \in ops' : o.do \in Chain /\ p.do \in Chain /\ o.run = p.run => o = p
    BY <1>0 DEF Order, OneStart
  <2>2. \A o \in ops' : o.do \in Chain => state'[o.run] \notin BeforeAStart
    BY <1>0 DEF Order, OneStart
  <2>3. ASSUME NEW o \in ops', o.do = "start"
        PROVE  state'[o.run] \in {"Starting"} \cup Over /\ Unborn(o.run)'
    <3>1. o \in ops /\ o # o1 /\ o.run \in Runs /\ o.run # r
      BY <1>0, <2>3 DEF Chain
    <3>. QED
      BY <1>0, <2>3, <3>1 DEF Order, OneStart
  <2>. QED
    BY <2>1, <2>2, <2>3 DEF OneStart
<1>5. QueuedWait' /\ OneRunPerPair'
  BY DEF Order, QueuedWait, OneRunPerPair
<1>6. StopsDecided'
  <2>. SUFFICES ASSUME NEW o \in ops',
                       o.do \in {"dequeue", "cancel", "discard"}
                PROVE  /\ o.do \in {"dequeue", "cancel"} =>
                            stop'[o.run] # "None" /\ state'[o.run] \notin {"None", "Interrupted"}
                       /\ o.do = "cancel" => ~InQueue(o.run)'
                       /\ o.do = "discard" => /\ ~Overlapping /\ state'[o.run] \in Over
                                              /\ o.run \notin resume'.runs
    BY DEF StopsDecided
  <2>1. o \in ops /\ o.run \in Runs
    BY <1>0 DEF Chain
  <2>2. InQueue(o.run)' <=> InQueue(o.run)
    BY DEF InQueue
  <2>. QED
    BY <2>1, <2>2 DEF Order, StopsDecided, Steady
<1>7. Resuming'
  BY DEF Order, Resuming
<1>. QED
  BY <1>1, <1>2, <1>3, <1>4, <1>5, <1>6, <1>7 DEF Order

\* A Stop is pressed.
LEMMA StopInOrder ==
  ASSUME Typed, Order, Overlapping => Restored = {}, NEW r \in Runs, NEW force \in BOOLEAN,
         PlanStop(r, force)
  PROVE  Order'
<1>0. /\ stop \in [Runs -> StopHow] /\ ops \subseteq Ops /\ \A o \in Ops : o.run \in Runs
      /\ budget \in [Chances -> Nat]
      /\ state' = state /\ session' = session /\ queues' = queues /\ resume' = resume
      /\ frozen' = frozen /\ frozenSessions' = frozenSessions /\ restarts' = restarts
      /\ paused' = paused /\ child' = child /\ minted' = minted /\ frames' = frames
      /\ state[r] # "None" /\ Pressable(r)
      /\ \A q \in Runs : Unborn(q)' <=> Unborn(q)
      /\ \A q \in Runs : InQueue(q)' <=> InQueue(q)
  BY DEF Typed, RowsTyped, StepsTyped, ChildrenTyped, Ops, PlanStop, procVars, Unborn, InQueue
<1>1. budget'["pause"] = 0 /\ budget'["term"] = 0
  BY <1>0 DEF PlanStop, Spend, Order, Calm, Chances
<1>2. PICK do \in {"none", "dequeue", "discard", "stopKill", "ask"} :
        /\ IF do = "none" THEN ops' = ops /\ stop' = stop
           ELSE /\ ops' = ops \cup {Op(do, r, session[r])}
                /\ \A q \in Runs : q # r => stop'[q] = stop[q]
                /\ stop'[r] # "None"
                /\ state[r] = "Interrupted" <=> do = "discard"
                /\ do = "discard" => stop'[r] = "Discarded"
  <2>1. CASE StopRoute(r, force) = "Nothing"
    BY <2>1 DEF PlanStop
  <2>2. CASE StopRoute(r, force) # "Nothing"
    <3>. DEFINE route == StopRoute(r, force)
    <3>1. /\ route \in {"Cancel", "Discard", "Kill", "Ask"}
          /\ route = "Discard" <=> state[r] = "Interrupted"
      BY <2>2 DEF StopRoute, Ended
    <3>2. /\ stop' = [stop EXCEPT ![r] = StopRecord[route]]
          /\ ops' = ops \cup {Op(StopFollows[route], r, session[r])}
      BY <2>2 DEF PlanStop
    <3>. HIDE DEF route
    <3>3. /\ StopFollows[route] \in {"dequeue", "discard", "stopKill", "ask"}
          /\ StopRecord[route] # "None"
          /\ StopFollows[route] = "discard" <=> route = "Discard"
          /\ route = "Discard" => StopRecord[route] = "Discarded"
      BY <3>1 DEF StopFollows, StopRecord
    <3>. QED
      BY <1>0, <3>1, <3>2, <3>3
  <2>. QED
    BY <2>1, <2>2
<1>3. \A o \in ops' : \/ o \in ops
                      \/ do # "none" /\ o.do = do /\ o.run = r
  BY <1>2 DEF Op
<1>4. Calm'
  BY <1>0, <1>1, <1>3 DEF Order, Calm
<1>5. Waits'
  BY <1>0, <1>2 DEF Order, Waits
<1>6. Ghosts'
  BY <1>0, <1>3 DEF Order, Ghosts, Exits
<1>7. OneStart'
  BY <1>0, <1>3 DEF Order, OneStart, Chain
<1>8. QueuedWait' /\ OneRunPerPair' /\ Resuming'
  BY <1>0 DEF Order, QueuedWait, OneRunPerPair, Resuming
<1>9. StopsDecided'
  <2>. SUFFICES ASSUME NEW o \in ops',
                       o.do \in {"dequeue", "cancel", "discard"}
                PROVE  /\ o.do \in {"dequeue", "cancel"} =>
                            stop'[o.run] # "None" /\ state'[o.run] \notin {"None", "Interrupted"}
                       /\ o.do = "cancel" => ~InQueue(o.run)'
                       /\ o.do = "discard" => /\ ~Overlapping /\ state'[o.run] \in Over
                                              /\ o.run \notin resume'.runs
    BY DEF StopsDecided
  <2>1. CASE o \in ops
    <3>1. o.run \in Runs
      BY <1>0, <2>1
    <3>2. stop[o.run] # "None" => stop'[o.run] # "None"
      BY <1>0, <1>2, <3>1
    <3>. QED
      BY <1>0, <2>1, <3>1, <3>2 DEF Order, StopsDecided
  <2>2. CASE do # "none" /\ o.do = do /\ o.run = r
    <3>1. do = "discard" => r \in Restored /\ state[r] \in Over
      BY <1>2, <2>2 DEF Order, Waits, Over
    <3>2. do = "discard" => ~Overlapping /\ r \notin resume.runs
      BY <1>0, <3>1 DEF Pressable, Order, Resuming
    <3>. QED
      BY <1>0, <1>2, <2>2, <3>1, <3>2
  <2>. QED
    BY <1>3, <2>1, <2>2
<1>. QED
  BY <1>4, <1>5, <1>6, <1>7, <1>8, <1>9 DEF Order

LEMMA CancelInOrder ==
  ASSUME Typed, queues \in [Keys -> Seq(Runs)], Order, NEW r \in Runs, CancelDequeues(r)
  PROVE  Order'
<1>0. /\ ops \subseteq Ops /\ \A o \in Ops : o.run \in Runs
      /\ state' = state /\ session' = session /\ resume' = resume /\ stop' = stop
      /\ frozen' = frozen /\ frozenSessions' = frozenSessions /\ restarts' = restarts
      /\ paused' = paused /\ child' = child /\ minted' = minted /\ frames' = frames
      /\ budget' = budget /\ queues' = Dequeued(r)
      /\ \A q \in Runs : Unborn(q)' <=> Unborn(q)
  BY DEF Typed, StepsTyped, Ops, CancelDequeues, rowVars, procVars, Unborn
<1>1. PICK g \in 0 .. MaxGen : Op("dequeue", r, g) \in ops
                            /\ ops' = (ops \ {Op("dequeue", r, g)}) \cup {Op("cancel", r, g)}
  BY DEF CancelDequeues
<1>2. /\ \A k \in Keys : \A i \in 1 .. Len(queues'[k]) :
            \E j \in 1 .. Len(queues[k]) : queues'[k][i] = queues[k][j]
      /\ ~InQueue(r)'
      /\ \A q \in Runs : InQueue(q)' => InQueue(q)
  BY <1>0, DequeuedHold DEF Order
<1>3. \A o \in ops' : \/ o \in ops
                      \/ /\ o.do = "cancel" /\ o.run = r
                         /\ stop[r] # "None" /\ state[r] \notin {"None", "Interrupted"}
  <2>1. stop[r] # "None" /\ state[r] \notin {"None", "Interrupted"}
    BY <1>1 DEF Op, Order, StopsDecided
  <2>. QED
    BY <1>1, <2>1 DEF Op
<1>4. Calm' /\ Waits' /\ Ghosts' /\ OneStart' /\ OneRunPerPair' /\ Resuming'
  <2>1. Calm'
    BY <1>0, <1>3 DEF Order, Calm
  <2>2. Ghosts'
    BY <1>0, <1>3 DEF Order, Ghosts, Exits
  <2>3. OneStart'
    BY <1>0, <1>3 DEF Order, OneStart, Chain
  <2>. QED
    BY <1>0, <2>1, <2>2, <2>3 DEF Order, Waits, OneRunPerPair, Resuming
<1>5. QueuedWait'
  BY <1>0, <1>2 DEF Order, QueuedWait
<1>6. StopsDecided'
  BY <1>0, <1>2, <1>3 DEF Order, StopsDecided
<1>. QED
  BY <1>4, <1>5, <1>6 DEF Order

\* A transition of a run, nothing being frozen.
LEMMA SettleSteady ==
  ASSUME Typed, Calm, NEW r \in Runs, NEW next \in RunStates, NEW clean,
         SetState(r, next, clean) \/ Settle(r, next, clean)
  PROVE  /\ state' = [state EXCEPT ![r] = Landed(r, next)]
         /\ frozen' = frozen /\ frozenSessions' = frozenSessions
         /\ \A q \in Runs : \/ stop'[q] = stop[q]
                            \/ q = r /\ stop[r] \in WindingDown /\ stop'[r] # "None"
<1>0. /\ state \in [Runs -> RunStates] /\ frozen \in [Runs -> Freezes] /\ stop \in [Runs -> StopHow]
      /\ frozen[r] = NoFreeze /\ frozenSessions = {}
  BY DEF Typed, RowsTyped, Calm
<1>1. CASE SetState(r, next, clean)
  <2>1. /\ state' = [state EXCEPT ![r] = Landed(r, next)]
        /\ frozen' = frozen /\ frozenSessions' = frozenSessions
    BY <1>0, <1>1 DEF SetState, ForgetsFreeze
  <2>2. PICK h \in BOOLEAN :
          stop' = [stop EXCEPT ![r] = WindDownStep(stop[r], h, next, clean)]
    BY <1>1 DEF SetState, HandsBack
  <2>3. \/ WindDownStep(stop[r], h, next, clean) = stop[r]
        \/ stop[r] \in WindingDown /\ WindDownStep(stop[r], h, next, clean) # "None"
    BY DEF WindDownStep, WindingDown
  <2>. QED
    BY <1>0, <2>1, <2>2, <2>3
<1>2. CASE Landed(r, next) = state[r] /\ UNCHANGED <<state, slotVars, frozen, frozenSessions, stop, held>>
  BY <1>0, <1>2
<1>. QED
  BY <1>1, <1>2 DEF Settle

LEMMA WakesAside ==
  ASSUME NEW r \in Runs, NEW next
  PROVE  \A o \in Wakes(r, next) : o.do \in Aside
BY DEF Wakes, Op, Aside

\* A row ends.
LEMMA EndInOrder ==
  ASSUME Typed, Order, NEW r \in Runs, NEW next \in Ended, NEW clean, Settle(r, next, clean),
         resume' = resume, resume.todo = {}, ~InQueue(r), queues' = queues,
         session' = session \/ session' = [session EXCEPT ![r] = 0],
         restarts' = restarts, paused' = paused, budget' = budget,
         child' = child, minted' = minted, frames' = frames,
         \A o \in ops' : o \in ops \/ o.do \in Aside
  PROVE  Order'
<1>1. next \in RunStates /\ Landed(r, next) \in Ended /\ Calm /\ Landed(r, next) \in RunStates
  BY DEF RunStates, Over, Ended, Landed, Order
<1>2. /\ state' = [state EXCEPT ![r] = Landed(r, next)]
      /\ frozen' = frozen /\ frozenSessions' = frozenSessions
      /\ \A q \in Runs : \/ stop'[q] = stop[q]
                         \/ q = r /\ stop[r] \in WindingDown /\ stop'[r] # "None"
  BY <1>1, SettleSteady
<1>3. Steady
  BY <1>1, <1>2 DEF Steady, Order, Calm, Waits, Ghosts, WindingDown
<1>4. OpsAside
  BY DEF OpsAside
<1>5. Landed(r, next) \notin BeforeAStart \cup {"Paused"}
  BY <1>1 DEF BeforeAStart, Ended
<1>. HIDE DEF Landed
<1>. QED
  BY <1>1, <1>2, <1>3, <1>4, <1>5, MoveInOrder

\* A run that is not in its queue's state is in no queue.
LEMMA OnlyQueuedWait ==
  ASSUME Order, NEW r \in Runs, state[r] # "Queued"
  PROVE  ~InQueue(r)
BY DEF Order, QueuedWait, InQueue

LEMMA DispatchInOrder ==
  ASSUME Typed, queues \in [Keys -> Seq(Runs)], Order, NEW r \in Runs, Dispatch(r)
  PROVE  Order'
<1>1. /\ state' = [state EXCEPT ![r] = "Queued"] /\ queues' = PushBack(r)
      /\ session' = session /\ resume' = resume /\ ops' = ops /\ state[r] = "None"
      /\ HolderIn(PairOf[r]) = {}
  BY DEF Dispatch
<1>2. Steady
  BY DEF Dispatch, Spend, Steady, Order, Calm, Ghosts, Typed, ChildrenTyped, Chances, procVars
<1>3. OpsAside /\ Resuming'
  <2>1. r \in Runs => \A t \in resume.todo : t[1] # r
    BY <1>1 DEF Order, Resuming
  <2>2. \A t \in resume.todo : t[1] \in Runs
    BY DEF Typed, StepsTyped
  <2>. QED
    BY <1>1, <2>1, <2>2 DEF OpsAside, Order, Resuming, Typed, RowsTyped
<1>4. Unborn(r)'
  BY <1>1 DEF Order, Waits, Unborn, BeforeAStart
<1>5. \A o \in ops : o.run = r => o.do \notin Chain \cup {"cancel", "discard"}
  BY <1>1 DEF Order, OneStart, StopsDecided, BeforeAStart, Over, Ended
<1>. QED
  BY <1>1, <1>2, <1>3, <1>4, <1>5, EnqueueInOrder

LEMMA StartsInOrder ==
  ASSUME Typed, queues \in [Keys -> Seq(Runs)], Order, Starts
  PROVE  Order'
<1>0. /\ ops \subseteq Ops /\ budget \in [Chances -> Nat] /\ Calm
      /\ session \in [Runs -> 0 .. MaxGen] /\ minted \in [Runs -> 0 .. MaxGen]
      /\ child \in [Sessions -> Children] /\ frames \in [Sessions -> Seq(Frames)]
      /\ stop \in [Runs -> StopHow]
      /\ \A q \in Restored : <<q, 1>> \in Sessions
  BY Limits, RunsAreFinite
     DEF Typed, RowsTyped, StepsTyped, ChildrenTyped, Order, Limits, RunsAreFinite, Sessions, Gens
<1>1. PICK r \in Runs :
        \/ Bind(r)
        \/ \E g \in Gens : Fork(r, g) \/ BootFails(r, g) \/ AbandonUnsubmitted(r, g)
                         \/ OpeningGivesUp(r, g) \/ OpeningDone(r, g)
        \/ \E g \in 0 .. MaxGen : FinishFailed(r, g)
  BY DEF Starts
<1>2. CASE Bind(r)
  <2>. DEFINE o1 == Op("start", r, 0)
              g == minted[r] + 1
              o2 == Op("boot", r, g)
  <2>1. /\ o1 \in ops /\ minted' = [minted EXCEPT ![r] = g] /\ session' = [session EXCEPT ![r] = g]
        /\ ops' = (ops \ {o1}) \cup {o2} /\ resume' = resume /\ state' = state /\ queues' = queues
        /\ g \in Nat /\ Unlocked /\ budget' = budget /\ child' = child /\ frames' = frames
        /\ UNCHANGED <<frozen, frozenSessions, restarts, paused, stop>>
    BY <1>0, <1>2 DEF Bind, Typed, ChildrenTyped
  <2>2. Steady
    BY <1>0, <2>1 DEF Steady, Order, Calm, Ghosts
  <2>3. ~Ghost(r, g)
    <3>1. minted[r] \in 0 .. MaxGen /\ (r \in Restored => minted[r] >= 1)
      BY <1>0 DEF Order, Ghosts
    <3>2. MaxGen \in Nat
      BY Limits DEF Limits
    <3>. QED
      BY <3>1, <3>2 DEF Ghost
  <2>4. resume.todo = {}
    BY <2>1 DEF Unlocked, Order, Resuming
  <2>5. /\ o1.do \in Chain /\ o1.run = r /\ o2.run = r /\ o2.do \in Chain \ {"start"} /\ o2.gen = g
    BY DEF Op, Chain
  <2>6. \A q \in Runs : q # r => session'[q] = session[q]
    BY <1>0, <2>1
  <2>. HIDE DEF o1, o2, g
  <2>. QED
    BY <2>1, <2>2, <2>3, <2>4, <2>5, <2>6, SwapInOrder
<1>3. ASSUME NEW g \in Gens, Fork(r, g) PROVE Order'
  <2>. DEFINE o1 == Op("boot", r, g)
              o2 == Op("opening", r, g)
  <2>1. /\ o1 \in ops /\ resume' = resume /\ state' = state /\ queues' = queues /\ session' = session
        /\ Unlocked /\ budget' = budget /\ frames' = frames /\ minted' = minted
        /\ UNCHANGED <<frozen, frozenSessions, restarts, paused, stop>>
        /\ \E c : child' = [child EXCEPT ![<<r, g>>] = c]
        /\ ops' = (ops \ {o1}) \cup (IF session[r] = g THEN {o2} ELSE {})
    BY <1>3 DEF Fork, rowVars, innerVars
  <2>2. /\ o1.do = "boot" /\ o1.run = r /\ o1.gen = g /\ o2.run = r /\ o2.do = "opening"
    BY DEF Op
  <2>3. ~Ghost(r, g)
    BY <2>1, <2>2 DEF Order, Ghosts, Ghost
  <2>4. Steady
    BY <1>0, <2>1, <2>3 DEF Steady, Order, Calm, Ghosts, Ghost
  <2>5. resume.todo = {} /\ Resuming'
    BY <2>1 DEF Unlocked, Order, Resuming
  <2>. HIDE DEF o1, o2
  <2>6. CASE session[r] = g
    BY <2>1, <2>2, <2>4, <2>5, <2>6, SwapInOrder DEF Chain
  <2>7. CASE session[r] # g
    <3>1. OpsAside
      BY <2>1, <2>7 DEF OpsAside
    <3>. QED
      BY <2>1, <2>4, <2>5, <3>1, StillInOrder
  <2>. QED
    BY <2>6, <2>7
<1>4. ASSUME NEW g \in Gens, BootFails(r, g) \/ OpeningGivesUp(r, g) PROVE Order'
  <2>1. PICK o1 \in ops : \E h \in 0 .. MaxGen :
        /\ o1 = Op("boot", r, g) \/ o1 = Op("opening", r, g)
        /\ resume' = resume /\ state' = state /\ queues' = queues /\ session' = session
        /\ frames' = frames /\ minted' = minted /\ child' = child
        /\ UNCHANGED <<frozen, frozenSessions, restarts, paused, stop>>
        /\ ops' = (ops \ {o1}) \cup {Op("giveUp", r, h)}
        /\ Spend("fail") \/ Spend("stuck")
    <3>1. 0 \in 0 .. MaxGen /\ g \in 0 .. MaxGen
      BY Limits DEF Limits, Gens
    <3>. QED
      BY <1>4, <3>1 DEF BootFails, OpeningGivesUp, rowVars, innerVars, procVars
  <2>2. PICK h \in 0 .. MaxGen : ops' = (ops \ {o1}) \cup {Op("giveUp", r, h)}
    BY <2>1
  <2>3. Steady
    BY <1>0, <2>1 DEF Steady, Order, Calm, Ghosts, Spend, Chances
  <2>. DEFINE o2 == Op("giveUp", r, h)
  <2>4. /\ o1.do \in Chain /\ o1.run = r
        /\ o2.do \in Chain \ {"start"} /\ o2.run = r /\ o2.do # "boot"
    BY <2>1 DEF Op, Chain
  <2>. HIDE DEF o2
  <2>5. \A o \in ops' : (o \in ops /\ o # o1) \/ o = o2
    BY <2>2 DEF o2
  <2>. QED
    BY <2>1, <2>3, <2>4, <2>5, SwapInOrder
<1>5. ASSUME NEW g \in Gens, OpeningDone(r, g) PROVE Order'
  <2>1. /\ resume' = resume /\ state' = state /\ queues' = queues /\ session' = session
        /\ frames' = frames /\ minted' = minted /\ child' = child /\ budget' = budget
        /\ UNCHANGED <<frozen, frozenSessions, restarts, paused, stop>>
        /\ ops' \subseteq ops
    BY <1>5 DEF OpeningDone, rowVars, innerVars, procVars
  <2>2. Steady /\ OpsAside
    BY <2>1 DEF Steady, OpsAside, Order, Calm, Ghosts
  <2>3. Resuming'
    BY <2>1 DEF Order, Resuming
  <2>. QED
    BY <2>1, <2>2, <2>3, StillInOrder
<1>6. ASSUME NEW g \in Gens, AbandonUnsubmitted(r, g) PROVE Order'
  <2>. DEFINE o1 == Op("opening", r, g)
              o2 == Op("kill", r, g)
  <2>1. /\ o1 \in ops /\ resume' = resume /\ state' = [state EXCEPT ![r] = "Queued"]
        /\ queues' = PushFront(r) /\ session' = [session EXCEPT ![r] = 0]
        /\ Unlocked /\ frames' = frames /\ minted' = minted /\ child' = child
        /\ UNCHANGED <<frozen, frozenSessions, restarts, paused, stop>>
        /\ Spend("stuck") /\ ops' = (ops \ {o1}) \cup {o2}
        /\ state[r] \in {"Starting", "Idle"} /\ stop[r] = "None"
    BY <1>6 DEF AbandonUnsubmitted, OpeningNeverTook, procVars
  <2>2. o1.do = "opening" /\ o1.run = r /\ o2.do = "kill"
    BY DEF Op
  <2>3. Steady
    BY <1>0, <2>1 DEF Steady, Order, Calm, Ghosts, Spend, Chances
  <2>4. OpsAside
    BY <2>1, <2>2 DEF OpsAside, Aside
  <2>5. Resuming'
    BY <2>1 DEF Order, Resuming, Unlocked
  <2>6. Unborn(r)' /\ HoldsAPair(state[r])
    BY <1>0, <2>1 DEF Unborn, HoldsAPair, Over, Ended
  <2>7. ASSUME NEW o \in ops, o \in ops', o.run = r
        PROVE  o.do \notin Chain \cup {"cancel", "discard"}
    <3>1. o # o1
      BY <2>1, <2>2, <2>7
    <3>2. o.do \notin Chain
      BY <2>1, <2>2, <2>7, <3>1 DEF Order, OneStart, Chain
    <3>3. o.do \notin {"cancel", "discard"}
      BY <2>1, <2>7 DEF Order, StopsDecided, Over, Ended
    <3>. QED
      BY <3>2, <3>3
  <2>. HIDE DEF o1, o2
  <2>. QED
    BY <2>1, <2>3, <2>4, <2>5, <2>6, <2>7, EnqueueInOrder
<1>7. ASSUME NEW g \in 0 .. MaxGen, FinishFailed(r, g) PROVE Order'
  <2>1. /\ Op("giveUp", r, g) \in ops /\ resume' = resume /\ Settle(r, "Failed", FALSE)
        /\ queues' = queues /\ session' = [session EXCEPT ![r] = 0]
        /\ Unlocked /\ frames' = frames /\ minted' = minted /\ child' = child
        /\ UNCHANGED <<restarts, paused, budget>>
        /\ \A o \in ops' : o \in ops \/ o \in Wakes(r, "Failed") \/ o = Op("kill", r, g)
    BY <1>7 DEF FinishFailed, FailedStart, procVars
  <2>2. state[r] # "Queued"
    BY <2>1 DEF Order, OneStart, Op, Chain, BeforeAStart
  <2>3. \A o \in ops' : o \in ops \/ o.do \in Aside
    <3>1. Op("kill", r, g).do \in Aside
      BY DEF Op, Aside
    <3>. QED
      BY <2>1, <3>1, WakesAside
  <2>4. resume.todo = {}
    BY <2>1 DEF Unlocked, Order, Resuming
  <2>5. ~InQueue(r) /\ "Failed" \in Ended
    BY <2>2, OnlyQueuedWait DEF Ended
  <2>. QED
    BY <2>1, <2>3, <2>4, <2>5, EndInOrder
<1>. QED
  BY <1>1, <1>2, <1>3, <1>4, <1>5, <1>6, <1>7

LEMMA AdmissionInOrder ==
  ASSUME Typed, queues \in [Keys -> Seq(Runs)], Order, Passing, Admission
  PROVE  Order'
<1>1. CASE PumpStarts \/ PumpTurns
  <2>1. /\ resume' = resume /\ state' = state /\ queues' = queues /\ session' = session
        /\ frames' = frames /\ minted' = minted /\ child' = child /\ budget' = budget
        /\ UNCHANGED <<frozen, frozenSessions, restarts, paused, stop>>
        /\ ops' \subseteq ops
    BY <1>1 DEF PumpStarts, PumpTurns, rowVars, innerVars, procVars
  <2>2. Steady /\ OpsAside
    BY <2>1 DEF Steady, OpsAside, Order, Calm, Ghosts
  <2>3. Resuming'
    BY <2>1 DEF Order, Resuming
  <2>. QED
    BY <2>1, <2>2, <2>3, StillInOrder
<1>2. CASE PumpVisits
  <2>1. /\ resume' = resume /\ session' = session
        /\ frames' = frames /\ minted' = minted /\ child' = child /\ budget' = budget
        /\ UNCHANGED <<frozen, frozenSessions, restarts, paused, stop>>
        /\ pump.on /\ pump.pass # {} /\ pump.pass \in SUBSET Runs
    BY <1>2 DEF PumpVisits, procVars, Typed, StepsTyped
  <2>2. Steady
    BY <2>1 DEF Steady, Order, Calm, Ghosts
  <2>3. Oldest(pump.pass) \in pump.pass
    BY <2>1, OldestIsThere
  <2>4. PICK r \in pump.pass : Admit(r) \/ PassOver(r)
    BY <1>2, <2>3 DEF PumpVisits
  <2>5. CASE Admit(r)
    <3>1. r \in Fronts
      BY <2>1, <2>4 DEF Passing
    <3>2. KeyOf[r] \in Keys /\ queues[KeyOf[r]] \in Seq(Runs) /\ queues[KeyOf[r]] # <<>>
          /\ Head(queues[KeyOf[r]]) = r
      BY <3>1, Stamps DEF Fronts, Stamps
    <3>3. 1 \in 1 .. Len(queues[KeyOf[r]]) /\ queues[KeyOf[r]][1] = r
      BY <3>2
    <3>4. state[r] = "Queued"
      BY <3>2, <3>3 DEF Order, QueuedWait
    <3>5. resume.todo = {}
      BY <2>1 DEF Passing, Order, Resuming
    <3>. QED
      BY <2>1, <2>2, <2>4, <2>5, <3>4, <3>5, AdmitInOrder
  <2>6. CASE PassOver(r)
    <3>1. state' = state /\ queues' = queues /\ OpsAside /\ Resuming'
      BY <2>1, <2>6 DEF PassOver, OpsAside, Order, Resuming
    <3>. QED
      BY <2>1, <2>2, <3>1, StillInOrder
  <2>. QED
    BY <2>4, <2>5, <2>6
<1>. QED
  BY <1>1, <1>2 DEF Admission

LEMMA ChildInOrder ==
  ASSUME Typed, Order, ChildSteps
  PROVE  Order'
<1>0. /\ budget \in [Chances -> Nat] /\ child \in [Sessions -> Children]
      /\ frames \in [Sessions -> Seq(Frames)]
      /\ \A q \in Restored : <<q, 1>> \in Sessions
  BY Limits, RunsAreFinite
     DEF Typed, ChildrenTyped, Limits, RunsAreFinite, Sessions, Gens
<1>1. PICK s \in Sessions :
        \/ ChildReady(s) \/ ChildTakesLine(s) \/ ChildEndsTurn(s)
        \/ ChildAsks(s) \/ ChildAnswered(s) \/ ChildFailsTurn(s)
        \/ \E how \in ExitKinds : ChildExits(s, how)
  BY DEF ChildSteps
<1>2. ASSUME Alive(s) PROVE ~Ghost(s[1], s[2])
  <2>1. s = <<s[1], s[2]>>
    BY DEF Sessions
  <2>. QED
    BY <1>2, <2>1 DEF Alive, Ghost, Order, Ghosts
<1>3. ASSUME NEW how \in ExitKinds, ChildExits(s, how) PROVE Order'
  <2>1. /\ resume' = resume /\ state' = state /\ queues' = queues /\ session' = session
        /\ frames' = frames /\ minted' = minted
        /\ UNCHANGED <<frozen, frozenSessions, restarts, paused, stop>>
        /\ Alive(s) /\ ops' = ops \cup {Op(how, s[1], s[2])}
        /\ child' = [child EXCEPT ![s].st = "gone"]
    BY <1>3 DEF ChildExits, rowVars, innerVars
  <2>2. \/ how = "exitErr" /\ budget' = budget
        \/ how # "exitTerm" /\ Spend("exit")
    BY <1>3 DEF ChildExits, Spend, Order, Calm
  <2>3. Steady
    <3>1. budget'["pause"] = 0 /\ budget'["term"] = 0
      BY <1>0, <2>2 DEF Spend, Chances, Order, Calm
    <3>2. \A q \in Restored : child'[<<q, 1>>].st = "gone"
      BY <1>0, <2>1 DEF Order, Ghosts, Children
    <3>. QED
      BY <2>1, <3>1, <3>2 DEF Steady, Order, Ghosts
  <2>4. OpsAside
    BY <1>2, <2>1, <2>2 DEF OpsAside, Op, Exits, ExitKinds
  <2>5. Resuming'
    BY <2>1 DEF Order, Resuming
  <2>. QED
    BY <2>1, <2>3, <2>4, <2>5, StillInOrder
<1>4. ASSUME NEW from, NEW to, NEW f, Turn(s, from, to, f),
             \/ budget' = budget \/ Spend("ask") \/ Spend("fail")
      PROVE  Order'
  <2>1. /\ resume' = resume /\ state' = state /\ queues' = queues /\ session' = session
        /\ minted' = minted /\ ops' = ops
        /\ UNCHANGED <<frozen, frozenSessions, restarts, paused, stop>>
        /\ Alive(s)
        /\ child' = [child EXCEPT ![s].mode = to, ![s].typed = @ /\ f # "Prompt"]
        /\ frames' = [frames EXCEPT ![s] = Append(@, f)]
    BY <1>4 DEF Turn, Sends, rowVars, innerVars
  <2>2. Steady
    <3>1. budget'["pause"] = 0 /\ budget'["term"] = 0
      BY <1>0, <1>4 DEF Spend, Chances, Order, Calm
    <3>2. \A q \in Restored : <<q, 1>> # s
      BY <1>2, <2>1 DEF Ghost
    <3>3. \A q \in Restored : child'[<<q, 1>>].st = "gone" /\ frames'[<<q, 1>>] = <<>>
      BY <1>0, <2>1, <3>2 DEF Order, Ghosts
    <3>. QED
      BY <2>1, <3>1, <3>3 DEF Steady, Order, Ghosts
  <2>3. OpsAside /\ Resuming'
    BY <2>1 DEF OpsAside, Order, Resuming
  <2>. QED
    BY <2>1, <2>2, <2>3, StillInOrder
<1>5. CASE ChildReady(s) \/ ChildTakesLine(s) \/ ChildEndsTurn(s) \/ ChildAnswered(s)
  BY <1>4, <1>5 DEF ChildReady, ChildTakesLine, ChildEndsTurn, ChildAnswered
<1>6. CASE ChildAsks(s) \/ ChildFailsTurn(s)
  BY <1>4, <1>6 DEF ChildAsks, ChildFailsTurn
<1>. QED
  BY <1>1, <1>3, <1>5, <1>6

LEMMA ReactionsInOrder ==
  ASSUME Typed, Order, Reactions
  PROVE  Order'
<1>1. PICK s \in Sessions : ApplyFrame(s) \/ ExitRestarts(s) \/ ExitDecided(s) \/ ExternalStop(s) \/ SigStop(s)
  BY DEF Reactions
<1>. DEFINE r == s[1]
<1>2. /\ r \in Runs /\ s[2] \in Gens /\ s = <<r, s[2]>> /\ Calm /\ 0 \notin Gens
      /\ session \in [Runs -> 0 .. MaxGen] /\ frames \in [Sessions -> Seq(Frames)]
      /\ \A q \in Restored : <<q, 1>> \in Sessions
  BY Limits, RunsAreFinite
     DEF Sessions, Order, Gens, Typed, RowsTyped, ChildrenTyped, Limits, RunsAreFinite
\* Whose session is not before a start is in no queue
<1>3. ASSUME session[r] = s[2], ~Ghost(r, s[2])
      PROVE  ~Unborn(r) /\ state[r] \notin BeforeAStart /\ ~InQueue(r)
  <2>1. ~Unborn(r)
    BY <1>2, <1>3 DEF Unborn
  <2>2. state[r] \notin BeforeAStart
    BY <1>2, <2>1 DEF Order, Waits
  <2>3. ~InQueue(r)
    BY <1>2, <2>2, OnlyQueuedWait DEF BeforeAStart
  <2>. QED
    BY <2>1, <2>2, <2>3
<1>4. CASE ApplyFrame(s)
  <2>. DEFINE f == Head(frames[s])
  <2>1. /\ resume' = resume /\ queues' = queues /\ session' = session /\ Unlocked
        /\ minted' = minted /\ child' = child /\ budget' = budget
        /\ UNCHANGED <<restarts, paused>>
        /\ frames' = [frames EXCEPT ![s] = Tail(@)] /\ frames[s] # <<>>
    BY <1>4 DEF ApplyFrame
  <2>2. ~Ghost(r, s[2])
    BY <1>2, <2>1 DEF Ghost, Order, Ghosts
  <2>3. \A q \in Restored : frames'[<<q, 1>>] = <<>>
    <3>1. \A q \in Restored : <<q, 1>> # s
      BY <2>2 DEF Ghost
    <3>. QED
      BY <1>2, <2>1, <3>1 DEF Order, Ghosts
  <2>5. CASE ~(session[r] = s[2] /\ Heeds(r, f))
    <3>1. state' = state /\ ops' = ops /\ UNCHANGED <<frozen, frozenSessions, stop>>
      BY <1>4, <2>5 DEF ApplyFrame
    <3>2. Steady
      BY <2>1, <2>3, <3>1 DEF Steady, Order, Calm, Ghosts
    <3>3. OpsAside /\ Resuming'
      BY <2>1, <3>1 DEF OpsAside, Order, Resuming
    <3>. QED
      BY <2>1, <3>1, <3>2, <3>3, StillInOrder
  <2>6. CASE session[r] = s[2] /\ Heeds(r, f)
    <3>1. f \in Frames
      BY <1>2, <2>1
    <3>2. /\ SetState(r, Meaning(f), FALSE) /\ ops' = ops \cup Wakes(r, Meaning(f))
          /\ state[r] \notin {"None", "Paused"} \cup Over
      BY <1>4, <2>6 DEF ApplyFrame, Heeds
    <3>. HIDE DEF f
    <3>3. PICK to \in RunStates :
            /\ to = Meaning(f) /\ Landed(r, to) = to /\ to \notin BeforeAStart \cup {"Paused"}
      BY <3>1 DEF Meaning, Frames, Landed, RunStates, BeforeAStart
    <3>4. SetState(r, to, FALSE) /\ ops' = ops \cup Wakes(r, to)
      BY <3>2, <3>3
    <3>5. /\ state' = [state EXCEPT ![r] = to]
          /\ frozen' = frozen /\ frozenSessions' = frozenSessions
          /\ \A q \in Runs : \/ stop'[q] = stop[q]
                             \/ q = r /\ stop[r] \in WindingDown /\ stop'[r] # "None"
      <4>1. /\ state' = [state EXCEPT ![r] = Landed(r, to)]
            /\ frozen' = frozen /\ frozenSessions' = frozenSessions
            /\ \A q \in Runs : \/ stop'[q] = stop[q]
                               \/ q = r /\ stop[r] \in WindingDown /\ stop'[r] # "None"
        <5>. HIDE DEF r
        <5>. QED
          BY <1>2, <3>4, SettleSteady
      <4>2. Landed(r, to) = to
        BY <3>3
      <4>. QED
        BY <4>1, <4>2
    <3>6. Steady
      BY <1>2, <2>1, <2>3, <3>5 DEF Steady, Order, Calm, Ghosts, Waits, WindingDown
    <3>7. OpsAside
      BY <1>2, <3>4, WakesAside DEF OpsAside
    <3>8. ~Unborn(r) /\ state[r] \notin BeforeAStart /\ ~InQueue(r) /\ HoldsAPair(state[r])
      BY <1>3, <2>2, <2>6, <3>2 DEF HoldsAPair
    <3>9. resume.todo = {}
      BY <2>1 DEF Unlocked, Order, Resuming
    <3>. HIDE DEF r
    <3>. QED
      BY <1>2, <2>1, <3>3, <3>5, <3>6, <3>7, <3>8, <3>9, MoveInOrder
  <2>. QED
    BY <2>5, <2>6
<1>5. CASE ExitDecided(s)
  <2>1. PICK how \in ExitKinds :
          LET next == IF state[r] = "Blocked" THEN "Failed" ELSE "Finished"
              done == ops \ {Op(how, r, s[2])} IN
          /\ Op(how, r, s[2]) \in ops
          /\ \/ /\ ops' = done
                /\ UNCHANGED <<state, slotVars, frozen, frozenSessions, stop, held, pumpDue>>
             \/ how = "exitTerm"
             \/ /\ session[r] = s[2] /\ Settle(r, next, how = "exitOk")
                /\ ops' = done \cup Wakes(r, next)
    BY <1>5 DEF ExitDecided, OutsideStop
  <2>2. /\ resume' = resume /\ queues' = queues /\ session' = session /\ Unlocked
        /\ minted' = minted /\ child' = child /\ budget' = budget /\ frames' = frames
        /\ UNCHANGED <<restarts, paused>>
    BY <1>5 DEF ExitDecided, procVars
  <2>3. how \in Exits /\ ~Ghost(r, s[2])
    <3>1. how # "exitTerm"
      BY <2>1 DEF Op, Order, Calm
    <3>2. how \in Exits
      BY <3>1 DEF Exits, ExitKinds
    <3>. QED
      BY <2>1, <3>2 DEF Op, Order, Ghosts, Ghost
  <2>4. CASE UNCHANGED <<state, slotVars, frozen, frozenSessions, stop, held, pumpDue>> /\ ops' \subseteq ops
    <3>1. Steady
      BY <2>2, <2>4 DEF Steady, Order, Calm, Ghosts
    <3>2. OpsAside /\ Resuming'
      BY <2>2, <2>4 DEF OpsAside, Order, Resuming
    <3>. QED
      BY <2>2, <2>4, <3>1, <3>2, StillInOrder
  <2>5. ASSUME NEW next \in {"Failed", "Finished"}, session[r] = s[2],
               Settle(r, next, how = "exitOk"), ops' \subseteq ops \cup Wakes(r, next)
        PROVE  Order'
    <3>1. resume.todo = {}
      BY <2>2 DEF Unlocked, Order, Resuming
    <3>2. ~InQueue(r)
      BY <1>3, <2>3, <2>5
    <3>3. next \in Ended
      BY DEF Ended
    <3>4. \A o \in ops' : o \in ops \/ o.do \in Aside
      BY <1>2, <2>5, WakesAside
    <3>. HIDE DEF r
    <3>. QED
      BY <1>2, <2>2, <2>5, <3>1, <3>2, <3>3, <3>4, EndInOrder
  <2>6. how # "exitTerm"
    BY <2>3 DEF Exits
  <2>. DEFINE next == IF state[r] = "Blocked" THEN "Failed" ELSE "Finished"
              done == ops \ {Op(how, r, s[2])}
  <2>7. next \in {"Failed", "Finished"} /\ done \subseteq ops
    OBVIOUS
  <2>8. \/ /\ ops' = done
           /\ UNCHANGED <<state, slotVars, frozen, frozenSessions, stop, held, pumpDue>>
        \/ /\ session[r] = s[2] /\ Settle(r, next, how = "exitOk")
           /\ ops' = done \cup Wakes(r, next)
    BY <2>1, <2>6
  <2>. HIDE DEF next, done
  <2>. QED
    BY <2>4, <2>5, <2>7, <2>8
<1>6. ~ExitRestarts(s)
  BY DEF ExitRestarts, RestartsOf, Order, Calm
<1>7. ~ExternalStop(s) /\ ~SigStop(s)
  BY DEF ExternalStop, SigStop, Order, Calm, Op
<1>. QED
  BY <1>1, <1>4, <1>5, <1>6, <1>7

\* A line typed into a child leaves it as alive as it was.
LEMMA TypedKeeps ==
  ASSUME child \in [Sessions -> Children], NEW x, child' = [child EXCEPT ![x].typed = TRUE]
  PROVE  \A s \in Sessions : child'[s].st = child[s].st
BY DEF Children

LEMMA StopsInOrder ==
  ASSUME Typed, queues \in [Keys -> Seq(Runs)], Order, Overlapping => Restored = {}, Stops
  PROVE  Order'
<1>1. PICK r \in Runs :
        \/ \E force \in BOOLEAN : PlanStop(r, force)
        \/ CancelDequeues(r) \/ CancelLands(r) \/ KillLands(r) \/ AskToWindDown(r) \/ GraceRunsOut(r)
  BY DEF Stops
<1>0. /\ child \in [Sessions -> Children] /\ stop \in [Runs -> StopHow]
      /\ \A q \in Restored : <<q, 1>> \in Sessions
  BY Limits, RunsAreFinite
     DEF Sessions, Gens, Typed, RowsTyped, ChildrenTyped, Limits, RunsAreFinite
<1>2. CASE CancelLands(r)
  <2>1. PICK do \in {"cancel", "discard"}, g \in 0 .. MaxGen :
          /\ Op(do, r, g) \in ops
          /\ ops' = (ops \ {Op(do, r, g)}) \cup Wakes(r, "Cancelled")
    BY <1>2 DEF CancelLands
  <2>2. /\ resume' = resume /\ queues' = queues /\ session' = session /\ Unlocked
        /\ minted' = minted /\ child' = child /\ budget' = budget /\ frames' = frames
        /\ UNCHANGED <<restarts, paused>> /\ Settle(r, "Cancelled", FALSE)
    BY <1>2 DEF CancelLands, procVars
  <2>3. ~InQueue(r)
    <3>1. Op(do, r, g).do = do /\ Op(do, r, g).run = r
      BY DEF Op
    <3>2. CASE do = "cancel"
      BY <2>1, <3>1, <3>2 DEF Order, StopsDecided
    <3>3. CASE do = "discard"
      <4>1. state[r] \in Over
        BY <2>1, <3>1, <3>3 DEF Order, StopsDecided
      <4>. QED
        BY <4>1, OnlyQueuedWait DEF Over, Ended
    <3>. QED
      BY <3>2, <3>3
  <2>4. resume.todo = {}
    BY <2>2 DEF Unlocked, Order, Resuming
  <2>5. \A o \in ops' : o \in ops \/ o.do \in Aside
    BY <2>1, WakesAside
  <2>6. "Cancelled" \in Ended
    BY DEF Ended
  <2>. QED
    BY <2>2, <2>3, <2>4, <2>5, <2>6, EndInOrder
<1>3. CASE KillLands(r)
  <2>1. PICK g \in 0 .. MaxGen : Killed(<<r, g>>) /\ ops' \subseteq ops
    BY <1>3 DEF KillLands
  <2>2. /\ resume' = resume /\ state' = state /\ queues' = queues /\ session' = session
        /\ frames' = frames /\ minted' = minted /\ budget' = budget
        /\ UNCHANGED <<frozen, restarts, paused, stop>>
    BY <1>3 DEF KillLands, rowVars
  <2>3. frozenSessions' = frozenSessions /\ \A q \in Restored : child'[<<q, 1>>].st = "gone"
    <3>1. \A q \in Restored : child[<<q, 1>>].st = "gone"
      BY DEF Order, Ghosts
    <3>2. frozenSessions = {}
      BY DEF Order, Calm
    <3>. QED
      BY <1>0, <2>1, <3>1, <3>2 DEF Killed, Registered
  <2>4. Steady
    BY <2>2, <2>3 DEF Steady, Order, Calm, Ghosts
  <2>5. OpsAside /\ Resuming'
    BY <2>1, <2>2 DEF OpsAside, Order, Resuming
  <2>. QED
    BY <2>2, <2>4, <2>5, StillInOrder
<1>4. CASE AskToWindDown(r)
  <2>1. PICK g \in 0 .. MaxGen :
         /\ Op("ask", r, g) \in ops
         /\ IF Registered(<<r, g>>)
              THEN /\ child' = [child EXCEPT ![<<r, g>>].typed = TRUE]
                   /\ ops' = (ops \ {Op("ask", r, g)}) \cup {Op("grace", r, 0)}
                   /\ UNCHANGED <<stop, frozenSessions>>
              ELSE /\ stop' = [stop EXCEPT ![r] = IF @ \in WindingDown THEN "Forced" ELSE @]
                   /\ ops' = ops \ {Op("ask", r, g)}
                   /\ UNCHANGED <<child, frozenSessions>>
    BY <1>4 DEF AskToWindDown
  <2>2. /\ resume' = resume /\ state' = state /\ queues' = queues /\ session' = session
        /\ frames' = frames /\ minted' = minted /\ budget' = budget
        /\ UNCHANGED <<frozen, frozenSessions, restarts, paused>>
    BY <1>4, <2>1 DEF AskToWindDown
  <2>3. \A q \in Restored : child'[<<q, 1>>].st = "gone"
    <3>1. \A q \in Restored : child[<<q, 1>>].st = "gone"
      BY DEF Order, Ghosts
    <3>2. child' = child \/ child' = [child EXCEPT ![<<r, g>>].typed = TRUE]
      BY <2>1
    <3>. QED
      BY <1>0, <3>1, <3>2, TypedKeeps
  <2>4. \A q \in Runs : stop'[q] = stop[q] \/ (stop[q] \in WindingDown /\ stop'[q] = "Forced")
    BY <1>0, <2>1
  <2>5. Steady
    BY <2>2, <2>3, <2>4 DEF Steady, Order, Calm, Ghosts, Waits, WindingDown
  <2>6. OpsAside /\ Resuming'
    BY <2>1, <2>2 DEF OpsAside, Aside, Op, Order, Resuming
  <2>. QED
    BY <2>2, <2>5, <2>6, StillInOrder
<1>5. CASE GraceRunsOut(r)
  <2>1. /\ resume' = resume /\ state' = state /\ queues' = queues /\ session' = session
        /\ frames' = frames /\ minted' = minted /\ budget' = budget /\ child' = child
        /\ UNCHANGED <<frozen, frozenSessions, restarts, paused>>
        /\ \A o \in ops' : o \in ops \/ o = Op("kill", r, session[r])
        /\ stop' = stop \/ (stop[r] \in WindingDown /\ stop' = [stop EXCEPT ![r] = "Forced"])
    BY <1>5 DEF GraceRunsOut, procVars
  <2>2. Steady
    BY <1>0, <2>1 DEF Steady, Order, Calm, Ghosts, Waits, WindingDown
  <2>3. OpsAside /\ Resuming'
    BY <2>1 DEF OpsAside, Aside, Op, Order, Resuming
  <2>. QED
    BY <2>1, <2>2, <2>3, StillInOrder
<1>. QED
  BY <1>1, <1>2, <1>3, <1>4, <1>5, StopInOrder, CancelInOrder

LEMMA FollowUpsInOrder ==
  ASSUME Typed, Order, FollowUps
  PROVE  Order'
<1>0. /\ child \in [Sessions -> Children] /\ budget \in [Chances -> Nat]
      /\ \A q \in Restored : <<q, 1>> \in Sessions
  BY Limits, RunsAreFinite
     DEF Sessions, Gens, Typed, ChildrenTyped, Limits, RunsAreFinite
<1>1. PICK r \in Runs : FollowUp(r) \/ HeldFollowUp(r) \/ Reserve(r) \/ SendPrompt(r)
  BY DEF FollowUps
<1>2. /\ resume' = resume /\ state' = state /\ queues' = queues /\ session' = session
      /\ frames' = frames /\ minted' = minted /\ (budget' = budget \/ Spend("follow"))
      /\ UNCHANGED <<frozen, frozenSessions, restarts, paused, stop>>
  BY <1>1 DEF FollowUp, HeldFollowUp, UnchangedByFollowUp, Reserve, SendPrompt, procVars
<1>3. \A q \in Restored : child'[<<q, 1>>].st = "gone"
  <2>1. \A q \in Restored : child[<<q, 1>>].st = "gone"
    BY DEF Order, Ghosts
  <2>2. child' = child \/ \E g \in Gens : child' = [child EXCEPT ![<<r, g>>].typed = TRUE]
    BY <1>1 DEF FollowUp, HeldFollowUp, UnchangedByFollowUp, Reserve, SendPrompt, procVars
  <2>. QED
    BY <1>0, <2>1, <2>2, TypedKeeps
<1>4. budget'["pause"] = 0 /\ budget'["term"] = 0
  BY <1>0, <1>2 DEF Spend, Chances, Order, Calm
<1>5. Steady
  BY <1>2, <1>3, <1>4 DEF Steady, Order, Ghosts
<1>6. \A o \in ops' : o \in ops \/ o.do \in {"send", "type", "typeReserved"}
  <2>1. CASE PlanFollowUp(r)
    BY <2>1 DEF PlanFollowUp, Op
  <2>2. CASE HeldFollowUp(r) /\ ~PlanFollowUp(r)
    BY <2>2 DEF HeldFollowUp
  <2>3. CASE Reserve(r)
    BY <2>3 DEF Reserve, Op
  <2>4. CASE SendPrompt(r)
    BY <2>4 DEF SendPrompt
  <2>. QED
    BY <1>1, <2>1, <2>2, <2>3, <2>4 DEF FollowUp
<1>7. OpsAside /\ Resuming'
  BY <1>2, <1>6 DEF OpsAside, Aside, Order, Resuming
<1>. QED
  BY <1>2, <1>5, <1>7, StillInOrder

LEMMA ResumesInOrder ==
  ASSUME Typed, queues \in [Keys -> Seq(Runs)], Order, Resumes
  PROVE  Order'
<1>0. /\ child \in [Sessions -> Children] /\ budget \in [Chances -> Nat]
      /\ \A q \in Restored : <<q, 1>> \in Sessions
      /\ \A q \in Restored : child[<<q, 1>>].st = "gone"
      /\ state \in [Runs -> RunStates] /\ session \in [Runs -> 0 .. MaxGen]
      /\ frozen \in [Runs -> Freezes] /\ minted \in [Runs -> 0 .. MaxGen]
      /\ resume.todo \subseteq Runs \X (0 .. MaxGen)
      /\ \A r \in Runs : frozen[r] = NoFreeze
      /\ frozenSessions = {} /\ restarts = {} /\ paused = {}
  <2>1. \A q \in Restored : <<q, 1>> \in Sessions
    BY Limits, RunsAreFinite DEF Sessions, Gens, Limits, RunsAreFinite
  <2>2. \A q \in Restored : child[<<q, 1>>].st = "gone"
    BY DEF Order, Ghosts
  <2>3. /\ child \in [Sessions -> Children] /\ minted \in [Runs -> 0 .. MaxGen]
        /\ budget \in [Chances -> Nat] /\ resume.todo \subseteq Runs \X (0 .. MaxGen)
    BY DEF Typed, ChildrenTyped, StepsTyped
  <2>4. /\ state \in [Runs -> RunStates] /\ session \in [Runs -> 0 .. MaxGen]
        /\ frozen \in [Runs -> Freezes]
    BY DEF Typed, RowsTyped
  <2>5. /\ \A r \in Runs : frozen[r] = NoFreeze
        /\ frozenSessions = {} /\ restarts = {} /\ paused = {}
    BY DEF Order, Calm
  <2>. QED
    BY <2>1, <2>2, <2>3, <2>4, <2>5
\* What most of its stages do: nothing but to go on
<1>1. ASSUME UNCHANGED <<state, session, stop, frozen, frozenSessions, restarts, paused, queues,
                         minted, frames, budget, ops>>,
             \A q \in Restored : child'[<<q, 1>>].st = "gone",
             Resuming',
             \/ resume'.runs \subseteq resume.runs
             \/ \A o \in ops : o.do = "discard" => o.run \notin resume'.runs
      PROVE  Order'
  <2>1. Steady
    BY <1>1 DEF Steady, Order, Calm, Ghosts
  <2>2. OpsAside
    BY <1>1 DEF OpsAside
  <2>. QED
    BY <1>1, <2>1, <2>2, StillInOrder
<1>2. CASE Resume
  <2>1. PICK whole \in BOOLEAN, S \in SUBSET Runs : ResumePlans(whole, S)
    <3>1. ASSUME NEW p \in Projects, ResumePlans(TRUE, {r \in Runs : ProjectOf[r] = p})
          PROVE  \E whole \in BOOLEAN, S \in SUBSET Runs : ResumePlans(whole, S)
      <4>. DEFINE T == {r \in Runs : ProjectOf[r] = p}
      <4>1. T \in SUBSET Runs
        OBVIOUS
      <4>2. ResumePlans(TRUE, T)
        BY <3>1
      <4>. HIDE DEF T
      <4>. QED
        BY <4>1, <4>2
    <3>2. ASSUME NEW r \in Runs, ResumePlans(FALSE, {r})
          PROVE  \E whole \in BOOLEAN, S \in SUBSET Runs : ResumePlans(whole, S)
      <4>1. {r} \in SUBSET Runs
        OBVIOUS
      <4>. QED
        BY <3>2, <4>1
    <3>. QED
      BY <1>2, <3>1, <3>2 DEF Resume
  <2>2. UNCHANGED <<state, session, stop, frozen, frozenSessions, restarts, paused, queues,
                    minted, frames, budget, ops, child>>
    BY <2>1 DEF ResumePlans, rowVars, innerVars, procVars
  <2>3. resume'.phase = "planned" /\ resume'.todo = {} /\ resume'.runs = S
    BY <1>0, <2>1 DEF ResumePlans
  <2>4. \A o \in ops : o.do = "discard" => o.run \notin S
    BY <2>1 DEF ResumePlans, Pressable, Order, StopsDecided
  <2>5. Resuming'
    BY <2>3 DEF Resuming
  <2>. QED
    BY <1>0, <1>1, <2>2, <2>3, <2>4, <2>5
<1>3. CASE ReclaimTakesLock
  <2>1. /\ UNCHANGED <<state, session, stop, frozen, frozenSessions, restarts, paused, queues,
                    minted, frames, budget, ops, child>>
        /\ resume'.phase = "restart" /\ resume'.todo = resume.todo /\ resume'.runs = resume.runs
        /\ resume.phase = "planned"
    BY <1>3 DEF ReclaimTakesLock, rowVars, innerVars, procVars, Typed, StepsTyped, Order, Resuming
  <2>2. Resuming'
    BY <2>1 DEF Order, Resuming
  <2>. QED
    BY <1>0, <1>1, <2>1, <2>2
<1>4. CASE PlanRestarts
  <2>1. PICK S \in SUBSET {s \in resume.thaws : /\ frozen[s[1]] # NoFreeze /\ session[s[1]] = s[2]
                                              /\ ForkedHere(s[1]) /\ minted[s[1]] < MaxGen} :
         LET R == {s[1] : s \in S} IN
         /\ IF S = {} THEN UNCHANGED budget ELSE Spend("edit")
         /\ minted' = [r \in Runs |-> IF r \in R THEN minted[r] + 1 ELSE minted[r]]
         /\ session' = [r \in Runs |-> IF r \in R THEN minted[r] + 1 ELSE session[r]]
         /\ frozen' = [r \in Runs |-> IF r \in R THEN NoFreeze ELSE frozen[r]]
         /\ state' = [r \in Runs |-> IF r \in R THEN "Starting" ELSE state[r]]
         /\ frozenSessions' = frozenSessions \ S
         /\ restarts' = {x \in restarts : <<x.run, x.old>> \notin S} \cup
                        {[run |-> s[1], old |-> s[2], new |-> minted[s[1]] + 1] : s \in S}
         /\ resume' = [resume EXCEPT !.phase = "cont", !.ends = @ \cup S]
    BY <1>4 DEF PlanRestarts
  <2>2. S = {}
    <3>1. \A s \in resume.thaws : s[1] \in Runs
      BY DEF Typed, StepsTyped, Sessions
    <3>. QED
      BY <1>0, <3>1
  <2>3. /\ minted' = minted /\ session' = session /\ frozen' = frozen /\ state' = state
        /\ frozenSessions' = frozenSessions /\ restarts' = restarts /\ budget' = budget
    BY <1>0, <2>1, <2>2
  <2>4. /\ UNCHANGED <<stop, paused, queues, frames, ops, child>> /\ resume.phase = "restart"
    BY <1>4 DEF PlanRestarts
  <2>5. resume'.phase = "cont" /\ resume'.todo = resume.todo /\ resume'.runs = resume.runs
    BY <2>1 DEF Typed, StepsTyped
  <2>6. Resuming'
    BY <2>4, <2>5 DEF Order, Resuming
  <2>. QED
    BY <1>0, <1>1, <2>3, <2>4, <2>5, <2>6
<1>5. CASE SigCont \/ EndOldChildren
  <2>1. /\ UNCHANGED <<state, session, stop, frozen, frozenSessions, restarts, paused, queues,
                    minted, frames, budget, ops>>
        /\ resume'.phase \in {"finish", "waiting"} /\ resume'.todo = resume.todo
        /\ resume'.runs = resume.runs /\ resume.phase \in {"cont", "end"}
    BY <1>5 DEF SigCont, EndOldChildren, rowVars, innerVars, procVars, Typed, StepsTyped
  <2>2. \A q \in Restored : child'[<<q, 1>>].st = "gone"
    <3>1. CASE SigCont
      BY <1>0, <3>1 DEF SigCont, Children
    <3>2. CASE EndOldChildren
      BY <1>0, <3>2 DEF EndOldChildren
    <3>. QED
      BY <1>5, <3>1, <3>2
  <2>3. Resuming'
    BY <2>1 DEF Order, Resuming
  <2>. QED
    BY <1>1, <2>1, <2>2, <2>3
<1>6. CASE FinishThaws
  <2>1. /\ state' = state /\ frozen' = frozen /\ frozenSessions' = frozenSessions /\ paused' = paused
    BY <1>0, <1>6 DEF FinishThaws
  <2>2. /\ UNCHANGED <<session, stop, restarts, queues, minted, frames, budget, ops, child>>
        /\ resume'.phase = "end" /\ resume'.todo = resume.todo
        /\ resume'.runs = resume.runs /\ resume.phase = "finish"
    BY <1>6 DEF FinishThaws, procVars, Typed, StepsTyped
  <2>3. Resuming'
    BY <2>1, <2>2 DEF Order, Resuming
  <2>. QED
    BY <1>0, <1>1, <2>1, <2>2, <2>3
<1>7. CASE RequeueTakesLock
  <2>1. /\ UNCHANGED <<state, session, stop, frozen, frozenSessions, restarts, paused, queues,
                    minted, frames, budget, ops, child>>
        /\ resume'.phase = "requeue" /\ resume'.runs = resume.runs
        /\ resume'.todo = {<<r, 0>> : r \in {r \in resume.runs : state[r] = "Interrupted"}}
    BY <1>7 DEF RequeueTakesLock, rowVars, innerVars, procVars, Typed, StepsTyped
  <2>2. Resuming'
    BY <2>1 DEF Order, Resuming
  <2>. QED
    BY <1>0, <1>1, <2>1, <2>2
<1>8. CASE ResumeDone
  <2>1. /\ UNCHANGED <<state, session, stop, frozen, frozenSessions, restarts, paused, queues,
                    minted, frames, budget, ops, child>>
        /\ resume' = NoResume
    BY <1>8 DEF ResumeDone, rowVars, innerVars, procVars
  <2>2. Resuming' /\ resume'.runs = {}
    BY <2>1 DEF NoResume, Resuming
  <2>. QED
    BY <1>0, <1>1, <2>1, <2>2
<1>9. ASSUME NEW r \in Runs, RequeueOne(r) PROVE Order'
  <2>1. /\ UNCHANGED <<session, stop, frozen, frozenSessions, restarts, paused, minted, frames,
                       budget, ops, child>>
        /\ resume'.phase = "requeue" /\ resume'.runs = resume.runs
        /\ resume'.todo = resume.todo \ {<<r, 0>>} /\ <<r, 0>> \in resume.todo
    BY <1>9 DEF RequeueOne, slotVars, procVars, Typed, StepsTyped
  <2>2. state[r] = "Interrupted" /\ r \in resume.runs
    BY <2>1 DEF Order, Resuming
  <2>3. CASE state' = state /\ queues' = queues
    <3>1. Resuming'
      BY <2>1, <2>3 DEF Order, Resuming
    <3>. QED
      BY <1>0, <1>1, <2>1, <2>3, <3>1
  <2>4. CASE /\ HolderIn(PairOf[r]) = {} /\ state' = [state EXCEPT ![r] = "Queued"]
             /\ queues' = PushBack(r)
    <3>1. \A t \in resume'.todo : t[1] \in Runs /\ t[1] # r
      <4>. SUFFICES ASSUME NEW t \in resume'.todo PROVE t[1] \in Runs /\ t[1] # r
        OBVIOUS
      <4>1. t[2] = 0 /\ t = <<t[1], t[2]>> /\ t[1] \in Runs /\ t # <<r, 0>>
        BY <1>0, <2>1 DEF Order, Resuming
      <4>. QED
        BY <4>1
    <3>2. Resuming'
      BY <1>0, <2>1, <2>4, <3>1 DEF Order, Resuming
    <3>3. Steady /\ OpsAside
      BY <2>1 DEF Steady, OpsAside, Order, Calm, Ghosts
    <3>4. Unborn(r)'
      BY <2>1, <2>2 DEF Order, Waits, Unborn, BeforeAStart
    <3>5. \A o \in ops : o.run = r => o.do \notin Chain \cup {"cancel", "discard"}
      BY <2>2 DEF Order, OneStart, StopsDecided, BeforeAStart
    <3>. QED
      BY <2>1, <2>4, <3>2, <3>3, <3>4, <3>5, EnqueueInOrder
  <2>. QED
    BY <1>9, <2>3, <2>4 DEF RequeueOne
<1>10. ~ReclaimSlot
  BY DEF ReclaimSlot, Order, Resuming
<1>. QED
  BY <1>2, <1>3, <1>4, <1>5, <1>6, <1>7, <1>8, <1>9, <1>10 DEF Resumes

\* Only the admission loop moves its own state; all else waits for its lock, or
\* leaves the queues alone.
LEMMA AllElseWaits ==
  ASSUME Next, ~Admission, Typed
  PROVE  /\ pump' = pump
         /\ ~pump.on \/ (queues' = queues /\ resume' = resume)
<1>. DEFINE Goal == pump' = pump /\ (~pump.on \/ (queues' = queues /\ resume' = resume))
<1>1. ASSUME NEW r \in Runs, Dispatch(r) PROVE Goal
  BY <1>1 DEF Dispatch, Unlocked
<1>2. CASE Starts
  <2>1. PICK r \in Runs :
          \/ Bind(r)
          \/ \E g \in Gens : Fork(r, g) \/ BootFails(r, g) \/ AbandonUnsubmitted(r, g)
                            \/ OpeningGivesUp(r, g) \/ OpeningDone(r, g)
          \/ \E g \in 0 .. MaxGen : FinishFailed(r, g)
    BY <1>2 DEF Starts
  <2>2. CASE Bind(r)
    BY <2>2 DEF Bind, Unlocked, innerVars
  <2>3. ASSUME NEW g \in Gens,
               Fork(r, g) \/ BootFails(r, g) \/ OpeningGivesUp(r, g) \/ OpeningDone(r, g)
        PROVE  Goal
    BY <2>3 DEF Fork, BootFails, OpeningGivesUp, OpeningDone, innerVars
  <2>4. ASSUME NEW g \in Gens, AbandonUnsubmitted(r, g) PROVE Goal
    BY <2>4 DEF AbandonUnsubmitted, Unlocked
  <2>5. ASSUME NEW g \in 0 .. MaxGen, FinishFailed(r, g) PROVE Goal
    BY <2>5 DEF FinishFailed, FailedStart
  <2>. QED
    BY <2>1, <2>2, <2>3, <2>4, <2>5
<1>3. CASE ChildSteps
  BY <1>3 DEF ChildSteps, ChildReady, ChildTakesLine, ChildEndsTurn, ChildAsks, ChildAnswered,
              ChildFailsTurn, Turn, ChildExits, innerVars
<1>4. CASE Reactions
  BY <1>4 DEF Reactions, ApplyFrame, ExitRestarts, ExitDecided, ExternalStop, SigStop, Unlocked
<1>5. CASE Stops
  BY <1>5 DEF Stops, PlanStop, CancelDequeues, CancelLands, KillLands, AskToWindDown,
              GraceRunsOut, Unlocked
<1>6. CASE FollowUps
  BY <1>6 DEF FollowUps, FollowUp, HeldFollowUp, UnchangedByFollowUp, Reserve, SendPrompt, Unlocked
<1>7. CASE Pauses
  BY <1>7 DEF Pauses, PauseRun, PauseProject, Freeze, Unlocked
<1>8. CASE Resumes
  BY <1>8 DEF Resumes, Resume, ResumePlans, ReclaimTakesLock, ReclaimSlot, PlanRestarts, SigCont,
              FinishThaws, EndOldChildren, RequeueTakesLock, RequeueOne, ResumeDone, Unlocked
<1>. QED
  BY <1>1, <1>2, <1>3, <1>4, <1>5, <1>6, <1>7, <1>8 DEF Next

LEMMA PassingKept ==
  ASSUME Typed, queues \in [Keys -> Seq(Runs)], Passing, Next
  PROVE  Passing'
<1>1. CASE ~Admission
  <2>1. pump' = pump /\ (~pump.on \/ (queues' = queues /\ resume' = resume))
    BY <1>1, AllElseWaits
  <2>2. CASE ~pump.on
    BY <2>1, <2>2 DEF Passing, IdlePump
  <2>3. CASE queues' = queues /\ resume' = resume
    BY <2>1, <2>3 DEF Passing, Fronts
  <2>. QED
    BY <2>1, <2>2, <2>3
<1>2. CASE PumpStarts
  <2>1. pump' = [on |-> TRUE, pass |-> Fronts, moved |-> FALSE] /\ queues' = queues
        /\ resume' = resume /\ resume.phase # "requeue"
    BY <1>2 DEF PumpStarts, Unlocked, innerVars
  <2>2. Fronts' = Fronts
    BY <2>1 DEF Fronts
  <2>. QED
    BY <2>1, <2>2 DEF Passing
<1>3. CASE PumpTurns
  <2>1. /\ pump.on /\ queues' = queues /\ resume' = resume
        /\ pump' = IdlePump \/ pump' = [on |-> TRUE, pass |-> Fronts, moved |-> FALSE]
    BY <1>3 DEF PumpTurns, innerVars
  <2>2. Fronts' = Fronts
    BY <2>1 DEF Fronts
  <2>3. CASE pump' = IdlePump
    BY <2>3 DEF Passing, IdlePump
  <2>4. CASE pump' = [on |-> TRUE, pass |-> Fronts, moved |-> FALSE]
    BY <2>1, <2>2, <2>4 DEF Passing
  <2>. QED
    BY <2>1, <2>3, <2>4
<1>4. CASE PumpVisits
  <2>1. pump.pass # {} /\ pump.pass \in SUBSET Runs /\ pump.on /\ resume' = resume
    BY <1>4 DEF PumpVisits, Typed, StepsTyped
  <2>2. PICK r \in pump.pass : Admit(r) \/ PassOver(r)
    BY <1>4, <2>1, OldestIsThere DEF PumpVisits
  <2>3. pump'.pass = pump.pass \ {r} /\ pump'.on
    BY <2>1, <2>2 DEF Admit, PassOver, Typed, StepsTyped
  <2>4. ASSUME NEW q \in pump.pass, q # r PROVE q \in Fronts'
    <3>1. q \in Fronts /\ r \in Fronts /\ q \in Runs /\ r \in Runs
      BY <2>1 DEF Passing
    <3>2. KeyOf[q] # KeyOf[r]
      BY <2>4, <3>1 DEF Fronts
    <3>3. queues'[KeyOf[q]] = queues[KeyOf[q]]
      BY <2>2, <3>1, <3>2, Stamps DEF Admit, PassOver, Dequeued, Stamps
    <3>. QED
      BY <3>1, <3>3 DEF Fronts
  <2>. QED
    BY <2>1, <2>3, <2>4 DEF Passing
<1>. QED
  BY <1>1, <1>2, <1>3, <1>4 DEF Admission

LEMMA StepInOrder ==
  ASSUME Overlapping => Restored = {}, IInv, Order, Passing, [Next]_vars
  PROVE  Order' /\ Passing'
<1>1. Typed /\ queues \in [Keys -> Seq(Runs)]
  BY DEF IInv, TypeOK, Typed
<1>2. CASE UNCHANGED vars
  <2>1. /\ UNCHANGED <<state, session, stop, frozen, frozenSessions, restarts, paused, queues,
                    minted, frames, budget, ops, child, resume, pump>>
    BY <1>2 DEF vars, rowVars, innerVars, procVars
  <2>2. Steady /\ OpsAside /\ Resuming'
    BY <2>1 DEF Steady, OpsAside, Order, Calm, Ghosts, Resuming
  <2>3. Passing'
    BY <2>1 DEF Passing, Fronts
  <2>. QED
    BY <1>1, <2>1, <2>2, <2>3, StillInOrder
<1>3. CASE Next
  <2>1. Passing'
    BY <1>1, <1>3, PassingKept
  <2>2. ~Pauses
    BY DEF Pauses, PauseRun, PauseProject, Spend, Order, Calm
  <2>. QED
    BY <1>1, <1>3, <2>1, <2>2, DispatchInOrder, AdmissionInOrder, StartsInOrder, ChildInOrder,
       ReactionsInOrder, StopsInOrder, FollowUpsInOrder, ResumesInOrder DEF Next
<1>. QED
  BY <1>2, <1>3

LEMMA InitInOrder == ASSUME Undisturbed, Init PROVE Order /\ Passing
<1>1. Calm
  BY DEF Undisturbed, Init, Calm
<1>2. Resuming
  BY DEF Init, NoResume, Resuming
<1>3. Waits /\ Ghosts
  BY RunsAreFinite, Limits DEF Init, Waits, Ghosts, Unborn, Ghost, BeforeAStart, Sessions, Gens,
     RunsAreFinite, Limits, NoChild
<1>4. OneStart /\ StopsDecided
  BY DEF Init, OneStart, StopsDecided
<1>5. QueuedWait
  BY DEF Init, QueuedWait
<1>6. OneRunPerPair
  BY DEF Init, OneRunPerPair, HoldsAPair, Over
<1>7. Passing
  BY DEF Init, Passing, IdlePump, NoResume
<1>. QED
  BY <1>1, <1>2, <1>3, <1>4, <1>5, <1>6, <1>7 DEF Order

\* The invariant of a registry that is not disturbed, from its first step on.
Ordered == IInv /\ Order /\ Passing

LEMMA InitOrdered == ASSUME Undisturbed, Init PROVE Ordered
  BY InitInv, InitInOrder DEF Ordered

LEMMA NextOrdered == ASSUME Overlapping => Restored = {}, Ordered, [Next]_vars PROVE Ordered'
  BY NextInv, StepInOrder DEF Ordered

\* A (role, task) pair is held by one run at a time: enqueue_unique's refusal is not
\* got round by an opening prompt that never took and went back to its queue, by a
\* Stop that lands late, nor by the rows a Resume requeues (requeue_interrupted), so
\* long as nobody pauses and no child is signalled from outside cide.
THEOREM OnePairOneRun == ASSUME Undisturbed PROVE Spec => []OneRunPerPair
<1>1. Init => Ordered
  BY InitOrdered
<1>2. Ordered /\ [Next]_vars => Ordered'
  BY NextOrdered DEF Undisturbed
<1>3. Ordered => OneRunPerPair
  BY DEF Ordered, Order
<1>. QED
  BY <1>1, <1>2, <1>3, PTL DEF Spec

\* What ended stays ended, whichever step comes next.
LEMMA StepKeepsTheEnded ==
  ASSUME Ordered, Next
  PROVE  \A q \in Runs : state[q] \in Ended => state'[q] \in Ended
<1>. DEFINE Goal == \A q \in Runs : state[q] \in Ended => state'[q] \in Ended
<1>0. /\ Typed /\ Calm /\ restarts = {} /\ state \in [Runs -> RunStates]
      /\ queues \in [Keys -> Seq(Runs)] /\ \A r \in Runs : frozen[r] = NoFreeze
  BY DEF Ordered, IInv, TypeOK, Typed, RowsTyped, Order, Calm
<1>1. ASSUME state' = state PROVE Goal
  BY <1>1
<1>2. ASSUME NEW r \in Runs, NEW to, state[r] \notin Ended, state' = [state EXCEPT ![r] = to] PROVE Goal
  BY <1>0, <1>2
<1>3. ASSUME NEW r \in Runs, NEW next \in Ended, NEW clean, Settle(r, next, clean) PROVE Goal
  <2>1. next \in RunStates /\ Landed(r, next) \in Ended
    BY DEF RunStates, Over, Ended, Landed
  <2>2. state' = [state EXCEPT ![r] = Landed(r, next)]
    BY <1>0, <1>3, <2>1, SettleSteady
  <2>. HIDE DEF Landed
  <2>. QED
    BY <1>0, <2>1, <2>2
<1>4. "Failed" \in Ended /\ "Finished" \in Ended /\ "Cancelled" \in Ended
  BY DEF Ended
<1>5. ASSUME NEW r \in Runs, Dispatch(r) PROVE Goal
  <2>1. state[r] \notin Ended /\ state' = [state EXCEPT ![r] = "Queued"]
    BY <1>5 DEF Dispatch, Ended
  <2>. QED
    BY <1>2, <2>1
<1>6. CASE Admission
  <2>1. CASE PumpVisits
    <3>1. pump.pass # {} /\ pump.pass \in SUBSET Runs
      BY <1>0, <2>1 DEF PumpVisits, Typed, StepsTyped
    <3>2. PICK r \in pump.pass : Admit(r) \/ PassOver(r)
      BY <2>1, <3>1, OldestIsThere, <1>0 DEF PumpVisits
    <3>3. r \in Runs /\ queues[KeyOf[r]] # <<>> /\ Head(queues[KeyOf[r]]) = r /\ KeyOf[r] \in Keys
      BY <3>1, Stamps DEF Stamps, Ordered, Passing, Fronts
    <3>4. state[r] = "Queued"
      <4>1. queues[KeyOf[r]] \in Seq(Runs)
        BY <1>0, <3>3
      <4>2. 1 \in 1 .. Len(queues[KeyOf[r]]) /\ queues[KeyOf[r]][1] = r
        BY <3>3, <4>1
      <4>. QED
        BY <3>3, <4>2 DEF Ordered, Order, QueuedWait
    <3>5. state' = state \/ state' = [state EXCEPT ![r] = "Starting"]
      BY <3>2 DEF Admit, PassOver
    <3>. QED
      BY <1>1, <1>2, <3>3, <3>4, <3>5 DEF Ended
  <2>2. CASE ~PumpVisits
    BY <1>1, <1>6, <2>2 DEF Admission, PumpStarts, PumpTurns, rowVars
  <2>. QED
    BY <2>1, <2>2
<1>7. CASE Starts
  <2>1. PICK r \in Runs :
          \/ Bind(r)
          \/ \E g \in Gens : Fork(r, g) \/ BootFails(r, g) \/ AbandonUnsubmitted(r, g)
                           \/ OpeningGivesUp(r, g) \/ OpeningDone(r, g)
          \/ \E g \in 0 .. MaxGen : FinishFailed(r, g)
    BY <1>7 DEF Starts
  <2>2. CASE \E g \in 0 .. MaxGen : FinishFailed(r, g)
    <3>1. Settle(r, "Failed", FALSE)
      BY <2>2 DEF FinishFailed, FailedStart
    <3>. QED
      BY <1>3, <1>4, <3>1
  <2>3. CASE Bind(r)
    BY <1>1, <2>3 DEF Bind
  <2>4. CASE \E g \in Gens : AbandonUnsubmitted(r, g)
    <3>1. state[r] \notin Ended /\ state' = [state EXCEPT ![r] = "Queued"]
      BY <2>4 DEF AbandonUnsubmitted, OpeningNeverTook, Ended
    <3>. QED
      BY <1>2, <3>1
  <2>5. CASE \E g \in Gens : Fork(r, g) \/ BootFails(r, g) \/ OpeningGivesUp(r, g) \/ OpeningDone(r, g)
    BY <1>1, <2>5 DEF Fork, BootFails, OpeningGivesUp, OpeningDone, rowVars
  <2>. QED
    BY <2>1, <2>2, <2>3, <2>4, <2>5
<1>8. CASE ChildSteps
  <2>1. state' = state
    BY <1>8 DEF ChildSteps, ChildReady, ChildTakesLine, ChildEndsTurn, ChildAsks, ChildAnswered,
              ChildFailsTurn, Turn, ChildExits, rowVars
  <2>. QED
    BY <1>1, <2>1
<1>9. CASE Reactions
  <2>1. PICK s \in Sessions : \/ ApplyFrame(s) \/ ExitRestarts(s) \/ ExitDecided(s)
                             \/ ExternalStop(s) \/ SigStop(s)
    BY <1>9 DEF Reactions
  <2>2. s[1] \in Runs
    BY DEF Sessions
  <2>3. CASE ApplyFrame(s)
    <3>1. \/ state' = state
          \/ /\ SetState(s[1], Meaning(Head(frames[s])), FALSE)
             /\ state[s[1]] \notin Ended
      BY <2>3 DEF ApplyFrame, Heeds, Over
    <3>2. CASE SetState(s[1], Meaning(Head(frames[s])), FALSE) /\ state[s[1]] \notin Ended
      <4>1. state' = [state EXCEPT ![s[1]] = Landed(s[1], Meaning(Head(frames[s])))]
        BY <3>2 DEF SetState
      <4>. QED
        BY <1>2, <2>2, <3>2, <4>1
    <3>. QED
      BY <1>1, <3>1, <3>2
  <2>4. ~ExitRestarts(s)
    BY <1>0 DEF ExitRestarts, RestartsOf
  <2>5. CASE ExitDecided(s)
    <3>1. \/ \E how \in ExitKinds :
               Settle(s[1], IF state[s[1]] = "Blocked" THEN "Failed" ELSE "Finished", how = "exitOk")
          \/ state' = state
      BY <2>5 DEF ExitDecided
    <3>2. (IF state[s[1]] = "Blocked" THEN "Failed" ELSE "Finished") \in Ended
      BY <1>4
    <3>. QED
      BY <1>1, <1>3, <2>2, <3>1, <3>2
  <2>6. ~ExternalStop(s)
    BY <1>0 DEF ExternalStop, Calm, Op
  <2>7. CASE SigStop(s)
    BY <1>1, <2>7 DEF SigStop, rowVars
  <2>. QED
    BY <2>1, <2>3, <2>4, <2>5, <2>6, <2>7
<1>10. CASE Stops
  <2>1. PICK r \in Runs :
          \/ \E force \in BOOLEAN : PlanStop(r, force)
          \/ CancelDequeues(r) \/ CancelLands(r) \/ KillLands(r) \/ AskToWindDown(r) \/ GraceRunsOut(r)
    BY <1>10 DEF Stops
  <2>2. CASE CancelLands(r)
    <3>1. Settle(r, "Cancelled", FALSE)
      BY <2>2 DEF CancelLands
    <3>. QED
      BY <1>3, <1>4, <3>1
  <2>3. CASE ~CancelLands(r)
    <3>1. state' = state
      BY <2>1, <2>3 DEF PlanStop, CancelDequeues, KillLands, AskToWindDown, GraceRunsOut, rowVars
    <3>. QED
      BY <1>1, <3>1
  <2>. QED
    BY <2>2, <2>3
<1>11. CASE FollowUps
  <2>1. state' = state
    BY <1>11 DEF FollowUps, FollowUp, HeldFollowUp, UnchangedByFollowUp, Reserve, SendPrompt
  <2>. QED
    BY <1>1, <2>1
<1>12. ~Pauses
  BY <1>0 DEF Pauses, PauseRun, PauseProject, Spend, Calm
<1>13. CASE Resumes
  <2>1. CASE \E r \in Runs : RequeueOne(r)
    <3>1. PICK r \in Runs : RequeueOne(r)
      BY <2>1
    <3>2. <<r, 0>> \in resume.todo /\ (state' = state \/ state' = [state EXCEPT ![r] = "Queued"])
      BY <3>1 DEF RequeueOne
    <3>3. state[r] = "Interrupted"
      BY <3>2 DEF Ordered, Order, Resuming
    <3>. QED
      BY <1>1, <1>2, <3>2, <3>3 DEF Ended
  <2>2. CASE PlanRestarts
    <3>1. PICK S \in SUBSET {s \in resume.thaws : /\ frozen[s[1]] # NoFreeze /\ session[s[1]] = s[2]
                                                 /\ ForkedHere(s[1]) /\ minted[s[1]] < MaxGen} :
            state' = [r \in Runs |-> IF r \in {s[1] : s \in S} THEN "Starting" ELSE state[r]]
      BY <2>2 DEF PlanRestarts
    <3>2. \A s \in resume.thaws : s[1] \in Runs
      BY <1>0 DEF Typed, StepsTyped, Sessions
    <3>3. S = {}
      BY <1>0, <3>2
    <3>. QED
      BY <1>0, <3>1, <3>3
  <2>3. CASE FinishThaws
    <3>1. state' = [r \in Runs |-> IF r \in {s[1] : s \in resume.thaws} /\ frozen[r] # NoFreeze
                                     THEN frozen[r].at ELSE state[r]]
      BY <2>3 DEF FinishThaws
    <3>. QED
      BY <1>0, <3>1
  <2>4. ~ReclaimSlot
    BY DEF ReclaimSlot, Ordered, Order, Resuming
  <2>5. CASE Resume \/ ReclaimTakesLock \/ SigCont \/ EndOldChildren \/ RequeueTakesLock \/ ResumeDone
    BY <1>1, <2>5 DEF Resume, ResumePlans, ReclaimTakesLock, SigCont, EndOldChildren,
                     RequeueTakesLock, ResumeDone, rowVars
  <2>. QED
    BY <1>13, <2>1, <2>2, <2>3, <2>4, <2>5 DEF Resumes
<1>. QED
  BY <1>5, <1>6, <1>7, <1>8, <1>9, <1>10, <1>11, <1>12, <1>13 DEF Next

\* A run that ended is not brought back by a late frame of its child, a failed start,
\* a requeue of its opening prompt, a Stop or the requeue of interrupted rows.
THEOREM TheEndedStayEnded == ASSUME Undisturbed PROVE Spec => EndedStaysEnded
<1>1. Init => Ordered
  BY InitOrdered
<1>2. Ordered /\ [Next]_vars => Ordered'
  BY NextOrdered DEF Undisturbed
<1>3. Ordered /\ [Next]_vars =>
        [\A r \in Runs : state[r] \in Ended /\ ~SignalPending(r) /\ ~FailedInQueue(r) =>
           state'[r] \in Ended]_vars
  BY StepKeepsTheEnded
<1>. QED
  BY <1>1, <1>2, <1>3, PTL DEF Spec, EndedStaysEnded

------------------------------------------------------------------------------
(* No lost wakeup *)

\* The exit of the run's own child waits to be decided.
ExitSeen(r) == /\ ~Unborn(r)
               /\ \E o \in ops : o.do \in Exits /\ o.run = r /\ o.gen = session[r]

\* What is known of the children of this process: only a spawned one has frames, only a
\* minted one is spawned, and the end of a run's child is either decided or about to be.
Born ==
    /\ \A s \in Sessions : /\ frames[s] # <<>> => child[s].st # "none"
                           /\ s[2] > minted[s[1]] => child[s].st = "none"
    /\ \A o \in ops : o.do = "boot" => o.gen <= minted[o.run]
    /\ \A r \in Runs :
        /\ state[r] = "Blocked" => ~Unborn(r) /\ child[<<r, session[r]>>].st # "none"
        /\ ~Unborn(r) /\ child[<<r, session[r]>>].st = "gone" => state[r] \in Over \/ ExitSeen(r)

\* A front the loop would admit is before the loop, or something is on its way that
\* starts the loop: a pass that is due, a Resume, a Stop of a queued run, a child's exit.
Woken ==
    \/ pumpDue \/ resume.phase # "idle"
    \/ \E o \in ops : o.do = "cancel"
    \/ \E r \in Runs : state[r] \notin Over /\ ExitSeen(r)
    \/ \A r \in Fronts : ~Admits(r) \/ (pump.on /\ (r \in pump.pass \/ pump.moved))

\* What every step but bind_session's does to a row and its child.
Grows(r) ==
    \/ session'[r] = 0 /\ state'[r] # "Blocked"
    \/ /\ session'[r] = session[r]
       /\ \/ state'[r] = state[r] \/ state'[r] \in Over
          \/ /\ state[r] \notin Over \/ Unborn(r)
             /\ state'[r] = "Blocked" => ~Unborn(r) /\ child[<<r, session[r]>>].st # "none"

ExitTold(s) == \E o \in ops' : o.do \in Exits /\ o.run = s[1] /\ o.gen = s[2]

LEMMA StillBorn ==
  ASSUME Typed, Born, minted' = minted, \A r \in Runs : Grows(r),
         \A s \in Sessions :
           /\ child'[s].st = "none" => child[s].st = "none"
           /\ child[s].st = "none" => child'[s].st = "none" \/ s[2] <= minted[s[1]]
           /\ child'[s].st = "gone" => child[s].st = "gone" \/ ExitTold(s)
           /\ frames'[s] # <<>> => frames[s] # <<>> \/ child[s].st # "none",
         \A o \in ops' : o.do = "boot" => o \in ops,
         \A o \in ops : o.do \in Exits =>
           o \in ops' \/ o.gen # session[o.run] \/ state'[o.run] \in Over
  PROVE  Born'
<1>1. \A s \in Sessions : /\ frames'[s] # <<>> => child'[s].st # "none"
                          /\ s[2] > minted'[s[1]] => child'[s].st = "none"
  <2>. SUFFICES ASSUME NEW s \in Sessions
                PROVE  /\ frames'[s] # <<>> => child'[s].st # "none"
                       /\ s[2] > minted[s[1]] => child'[s].st = "none"
    OBVIOUS
  <2>1. minted[s[1]] \in Nat /\ s[2] \in Nat
    BY DEF Typed, ChildrenTyped, Sessions, Gens
  <2>. QED
    BY <2>1 DEF Born
<1>2. \A o \in ops' : o.do = "boot" => o.gen <= minted'[o.run]
  BY DEF Born
<1>3. ASSUME NEW r \in Runs
      PROVE  /\ state'[r] = "Blocked" => ~Unborn(r)' /\ child'[<<r, session'[r]>>].st # "none"
             /\ ~Unborn(r)' /\ child'[<<r, session'[r]>>].st = "gone"
                  => state'[r] \in Over \/ ExitSeen(r)'
  <2>1. CASE session'[r] = 0 /\ state'[r] # "Blocked"
    BY <2>1 DEF Unborn
  <2>2. CASE session'[r] = session[r] /\ session[r] = 0
    BY <2>2 DEF Unborn, Grows, Born, Over, Ended
  <2>3. CASE session'[r] = session[r] /\ session[r] # 0
    <3>1. <<r, session[r]>> \in Sessions /\ (Unborn(r)' <=> Unborn(r))
      BY <2>3 DEF Typed, RowsTyped, Sessions, Gens, Unborn
    <3>2. state'[r] = "Blocked" => ~Unborn(r)' /\ child'[<<r, session'[r]>>].st # "none"
      BY <2>3, <3>1 DEF Grows, Born, Over, Ended
    <3>3. ASSUME ~Unborn(r), child'[<<r, session[r]>>].st = "gone", state'[r] \notin Over
          PROVE  ExitSeen(r)'
      <4>1. CASE ExitTold(<<r, session[r]>>)
        BY <2>3, <3>1, <3>3, <4>1 DEF ExitSeen, ExitTold
      <4>2. CASE child[<<r, session[r]>>].st = "gone"
        <5>1. state[r] \notin Over
          BY <2>3, <3>3 DEF Grows
        <5>2. ExitSeen(r)
          BY <3>3, <4>2, <5>1 DEF Born
        <5>. QED
          BY <2>3, <3>1, <3>3, <5>2 DEF ExitSeen
      <4>. QED
        BY <3>1, <3>3, <4>1, <4>2
    <3>. QED
      BY <2>3, <3>1, <3>2, <3>3
  <2>. QED
    BY <2>1, <2>2, <2>3 DEF Grows
<1>. QED
  BY <1>1, <1>2, <1>3 DEF Born

LEMMA BornByBinding ==
  ASSUME Typed, Order, Born, NEW r \in Runs, Bind(r)
  PROVE  Born'
<1>0. /\ minted \in [Runs -> 0 .. MaxGen] /\ session \in [Runs -> 0 .. MaxGen]
      /\ minted' = [minted EXCEPT ![r] = @ + 1] /\ minted'[r] = minted[r] + 1
      /\ session' = [session EXCEPT ![r] = minted[r] + 1]
      /\ child' = child /\ frames' = frames /\ state' = state /\ minted[r] < MaxGen
      /\ ops' = (ops \ {Op("start", r, 0)}) \cup {Op("boot", r, minted[r] + 1)}
      /\ Op("start", r, 0) \in ops
  BY DEF Typed, RowsTyped, ChildrenTyped, Bind
<1>1. \A q \in Runs : minted'[q] \in Nat /\ minted[q] \in Nat /\ minted'[q] >= minted[q]
  BY <1>0
<1>2. \A s \in Sessions : /\ frames'[s] # <<>> => child'[s].st # "none"
                          /\ s[2] > minted'[s[1]] => child'[s].st = "none"
  <2>1. \A s \in Sessions : s[1] \in Runs /\ s[2] \in Nat
    BY DEF Sessions, Gens
  <2>. QED
    BY <1>0, <1>1, <2>1 DEF Born
<1>3. \A o \in ops' : o.do = "boot" => o.gen <= minted'[o.run]
  <2>1. \A o \in ops : o.run \in Runs /\ o.gen \in Nat
    BY DEF Typed, StepsTyped, Ops
  <2>2. \A o \in ops : o.do = "boot" => o.gen <= minted'[o.run]
    BY <1>1, <2>1 DEF Born
  <2>3. Op("boot", r, minted[r] + 1).gen = minted[r] + 1 /\ Op("boot", r, minted[r] + 1).run = r
    BY DEF Op
  <2>. QED
    BY <1>0, <1>1, <2>2, <2>3
<1>4. state[r] \in {"Starting"} \cup Over
  <2>1. Op("start", r, 0).do = "start" /\ Op("start", r, 0).run = r
    BY DEF Op
  <2>. QED
    BY <1>0, <2>1 DEF Order, OneStart
<1>5. child[<<r, minted[r] + 1>>].st = "none"
  <2>1. <<r, minted[r] + 1>> \in Sessions
    BY <1>0, Limits DEF Sessions, Gens, Limits
  <2>. QED
    BY <1>0, <1>1, <2>1 DEF Born
<1>6. ASSUME NEW q \in Runs
      PROVE  /\ state'[q] = "Blocked" => ~Unborn(q)' /\ child'[<<q, session'[q]>>].st # "none"
             /\ ~Unborn(q)' /\ child'[<<q, session'[q]>>].st = "gone"
                  => state'[q] \in Over \/ ExitSeen(q)'
  <2>1. CASE q = r
    BY <1>0, <1>4, <1>5, <2>1 DEF Over, Ended
  <2>2. CASE q # r
    <3>1. session'[q] = session[q] /\ (Unborn(q)' <=> Unborn(q))
      BY <1>0, <2>2 DEF Unborn
    <3>2. ExitSeen(q) => ExitSeen(q)'
      BY <1>0, <3>1 DEF ExitSeen, Op, Exits
    <3>. QED
      BY <1>0, <3>1, <3>2 DEF Born
  <2>. QED
    BY <2>1, <2>2
<1>. QED
  BY <1>2, <1>3, <1>6 DEF Born

\* A step that frees nothing and removes no wake-up.
LEMMA StillWoken ==
  ASSUME Woken, pump' = pump, queues' = queues, pumpDue => pumpDue',
         resume'.phase = "idle" => resume.phase = "idle",
         \A o \in ops : o.do = "cancel" => o \in ops',
         \A r \in Runs : state[r] \notin Over /\ ExitSeen(r) =>
           state'[r] \notin Over /\ ExitSeen(r)',
         \A r \in Fronts : Admits(r)' => Admits(r)
  PROVE  Woken'
<1>1. Fronts' = Fronts
  BY DEF Fronts
<1>. QED
  BY <1>1 DEF Woken

\* Only a run that ended holds the checkout of a front.
LEMMA FrontsHoldTheirPair ==
  ASSUME Typed, queues \in [Keys -> Seq(Runs)], Order, NEW r \in Fronts,
         NEW q \in Runs \ {r}, PairOf[q] = PairOf[r]
  PROVE  r \in Runs /\ state[r] = "Queued" /\ state[q] \in Over \cup {"None"}
<1>1. r \in Runs /\ queues[KeyOf[r]] # <<>> /\ Head(queues[KeyOf[r]]) = r /\ KeyOf[r] \in Keys
  BY Stamps DEF Stamps, Fronts
<1>2. 1 \in 1 .. Len(queues[KeyOf[r]]) /\ queues[KeyOf[r]][1] = r
  <2>1. queues[KeyOf[r]] \in Seq(Runs)
    BY <1>1
  <2>. QED
    BY <1>1, <2>1
<1>3. state[r] = "Queued"
  BY <1>1, <1>2 DEF Order, QueuedWait
<1>. QED
  BY <1>1, <1>3 DEF Order, OneRunPerPair, HoldsAPair, Over, Ended

LEMMA SameRowsWoken ==
  ASSUME Woken, pump' = pump, queues' = queues, pumpDue => pumpDue',
         resume'.phase = "idle" => resume.phase = "idle",
         UNCHANGED <<state, session, stop, slotVars, paused>>,
         \A o \in ops : o.do \in Exits \cup {"cancel"} => o \in ops'
  PROVE  Woken'
<1>1. \A r \in Runs : ExitSeen(r) => ExitSeen(r)'
  BY DEF ExitSeen, Unborn
<1>2. \A r \in Runs : Admits(r)' => Admits(r)
  BY DEF Admits, HasRoom, HoldsItsCheckout, slotVars
<1>3. Fronts \subseteq Runs
  BY DEF Fronts
<1>. QED
  BY <1>1, <1>2, <1>3, StillWoken

LEMMA EndingGrows ==
  ASSUME Typed, Calm, NEW r \in Runs, NEW next \in Ended, NEW clean, Settle(r, next, clean),
         session' = session \/ session' = [session EXCEPT ![r] = 0]
  PROVE  /\ \A q \in Runs : Grows(q)
         /\ state'[r] \in Over /\ \A q \in Runs : q # r => state'[q] = state[q]
<1>1. next \in RunStates /\ Landed(r, next) \in Ended
  BY DEF RunStates, Over, Ended, Landed
<1>2. state' = [state EXCEPT ![r] = Landed(r, next)] /\ state \in [Runs -> RunStates]
  BY <1>1, SettleSteady DEF Typed, RowsTyped
<1>3. state'[r] \in Ended /\ \A q \in Runs : q # r => state'[q] = state[q]
  BY <1>1, <1>2
<1>4. session \in [Runs -> 0 .. MaxGen]
  BY DEF Typed, RowsTyped
<1>. QED
  BY <1>3, <1>4 DEF Grows, Over, Ended

LEMMA StartsWake ==
  ASSUME Typed, queues \in [Keys -> Seq(Runs)], Order, Born, Woken, Starts
  PROVE  Born' /\ Woken'
<1>0. /\ ops \subseteq Ops /\ Calm /\ state \in [Runs -> RunStates]
      /\ session \in [Runs -> 0 .. MaxGen] /\ minted \in [Runs -> 0 .. MaxGen]
      /\ child \in [Sessions -> Children]
  BY DEF Typed, RowsTyped, StepsTyped, ChildrenTyped, Order
<1>1. PICK r \in Runs :
        \/ Bind(r)
        \/ \E g \in Gens : Fork(r, g) \/ BootFails(r, g) \/ AbandonUnsubmitted(r, g)
                         \/ OpeningGivesUp(r, g) \/ OpeningDone(r, g)
        \/ \E g \in 0 .. MaxGen : FinishFailed(r, g)
  BY DEF Starts
<1>2. CASE Bind(r)
  <2>1. Born'
    BY <1>2, BornByBinding
  <2>2. Unborn(r)
    BY <1>2 DEF Bind, Op, Order, OneStart
  <2>3. /\ pump' = pump /\ queues' = queues /\ pumpDue' = pumpDue /\ resume' = resume
        /\ state' = state /\ stop' = stop /\ UNCHANGED <<slotVars, paused>>
        /\ \A q \in Runs : q # r => session'[q] = session[q]
        /\ ops \ {Op("start", r, 0)} \subseteq ops'
    BY <1>0, <1>2 DEF Bind
  <2>4. \A q \in Runs : ExitSeen(q) => ExitSeen(q)'
    BY <2>2, <2>3 DEF ExitSeen, Unborn, Op, Exits
  <2>5. \A q \in Runs : Admits(q)' => Admits(q)
    BY <2>3 DEF Admits, HasRoom, HoldsItsCheckout, slotVars
  <2>6. \A o \in ops : o.do = "cancel" => o \in ops'
    BY <2>3 DEF Op
  <2>7. Fronts \subseteq Runs
    BY DEF Fronts
  <2>. QED
    BY <2>1, <2>3, <2>4, <2>5, <2>6, <2>7, StillWoken
<1>3. ASSUME NEW g \in Gens, Fork(r, g) PROVE Born' /\ Woken'
  <2>1. /\ pump' = pump /\ queues' = queues /\ pumpDue' = pumpDue /\ resume' = resume
        /\ UNCHANGED <<state, session, stop, slotVars, paused, minted, frames>>
        /\ child' = [child EXCEPT ![<<r, g>>] = [NoChild EXCEPT !.st = "live", !.typed = (session[r] = g)]]
        /\ Op("boot", r, g) \in ops
        /\ ops' = (ops \ {Op("boot", r, g)}) \cup (IF session[r] = g THEN {Op("opening", r, g)} ELSE {})
    BY <1>3 DEF Fork, rowVars, innerVars, slotVars
  <2>2. \A o \in ops : o.do \in Exits \cup {"cancel"} => o \in ops'
    BY <2>1 DEF Op, Exits
  <2>3. \A o \in ops' : o.do = "boot" => o \in ops
    BY <2>1 DEF Op
  <2>4. g <= minted[r]
    BY <2>1 DEF Born, Op
  <2>5. <<r, g>> \in Sessions /\ child'[<<r, g>>].st = "live"
    BY <1>0, <2>1 DEF Sessions, NoChild
  <2>6. \A s \in Sessions : s # <<r, g>> => child'[s] = child[s]
    BY <1>0, <2>1
  <2>7. Born'
    BY <2>1, <2>2, <2>3, <2>4, <2>5, <2>6, StillBorn DEF Grows
  <2>. QED
    BY <2>1, <2>2, <2>7, SameRowsWoken
<1>4. ASSUME NEW g \in Gens, BootFails(r, g) \/ OpeningGivesUp(r, g) \/ OpeningDone(r, g)
      PROVE  Born' /\ Woken'
  <2>1. /\ pump' = pump /\ queues' = queues /\ pumpDue' = pumpDue /\ resume' = resume
        /\ UNCHANGED <<state, session, stop, slotVars, paused, minted, frames, child>>
    BY <1>4 DEF BootFails, OpeningGivesUp, OpeningDone, rowVars, innerVars, procVars, slotVars
  <2>2. PICK o1 \in {Op("boot", r, g), Op("opening", r, g)} : \E p \in {Op("giveUp", r, 0), Op("giveUp", r, g)} :
          ops' = (ops \ {o1}) \cup {p} \/ ops' = ops \ {o1}
    BY <1>4 DEF BootFails, OpeningGivesUp, OpeningDone
  <2>3. \A o \in ops : o.do \in Exits \cup {"cancel"} => o \in ops'
    BY <2>2 DEF Op, Exits
  <2>4. \A o \in ops' : o.do = "boot" => o \in ops
    BY <2>2 DEF Op
  <2>5. Born'
    BY <2>1, <2>3, <2>4, StillBorn DEF Grows
  <2>. QED
    BY <2>1, <2>3, <2>5, SameRowsWoken
<1>5. ASSUME NEW g \in Gens, AbandonUnsubmitted(r, g) PROVE Born' /\ Woken'
  <2>1. /\ pumpDue' = TRUE /\ UNCHANGED <<minted, frames, child>>
        /\ session' = [session EXCEPT ![r] = 0] /\ state' = [state EXCEPT ![r] = "Queued"]
        /\ ops' = (ops \ {Op("opening", r, g)}) \cup {Op("kill", r, g)}
    BY <1>5 DEF AbandonUnsubmitted, procVars
  <2>2. \A q \in Runs : Grows(q)
    BY <1>0, <2>1 DEF Grows
  <2>3. (\A o \in ops : o.do \in Exits => o \in ops') /\ (\A o \in ops' : o.do = "boot" => o \in ops)
    BY <2>1 DEF Op, Exits
  <2>. QED
    BY <2>1, <2>2, <2>3, StillBorn DEF Woken
<1>6. ASSUME NEW g \in 0 .. MaxGen, FinishFailed(r, g) PROVE Born' /\ Woken'
  <2>1. /\ pumpDue' = TRUE /\ UNCHANGED <<minted, frames, child>>
        /\ session' = [session EXCEPT ![r] = 0] /\ Settle(r, "Failed", FALSE)
        /\ ops' = (ops \ {Op("giveUp", r, g)}) \cup Wakes(r, "Failed")
                     \cup (IF g = 0 THEN {} ELSE {Op("kill", r, g)})
    BY <1>6 DEF FinishFailed, FailedStart, procVars
  <2>2. \A q \in Runs : Grows(q)
    BY <1>0, <2>1, EndingGrows DEF Ended
  <2>3. \A o \in ops : o.do \in Exits => o \in ops'
    BY <2>1 DEF Op, Exits
  <2>4. \A o \in Wakes(r, "Failed") \cup {Op("kill", r, g)} : o.do # "boot"
    BY WakesAside DEF Aside, Op
  <2>5. \A o \in ops' : o.do = "boot" => o \in ops
    BY <2>1, <2>4
  <2>. QED
    BY <2>1, <2>2, <2>3, <2>5, StillBorn DEF Woken
<1>. QED
  BY <1>1, <1>2, <1>3, <1>4, <1>5, <1>6

LEMMA AdmissionWakes ==
  ASSUME Typed, queues \in [Keys -> Seq(Runs)], Order, Passing, Born, Woken, Admission
  PROVE  Born' /\ Woken'
<1>1. CASE PumpStarts
  <2>1. /\ UNCHANGED <<state, session, queues, child, minted, frames, ops>>
        /\ pump' = [on |-> TRUE, pass |-> Fronts, moved |-> FALSE]
    BY <1>1 DEF PumpStarts, rowVars, innerVars, procVars
  <2>2. Fronts' = Fronts
    BY <2>1 DEF Fronts
  <2>3. Born'
    BY <2>1, StillBorn DEF Grows
  <2>. QED
    BY <2>1, <2>2, <2>3 DEF Woken
<1>2. CASE PumpTurns
  <2>1. /\ UNCHANGED <<state, session, stop, slotVars, paused, queues, child, minted, frames, ops,
                      pumpDue, resume>>
        /\ pump.on /\ pump.pass = {}
        /\ pump' = IF pump.moved THEN [on |-> TRUE, pass |-> Fronts, moved |-> FALSE] ELSE IdlePump
    BY <1>2 DEF PumpTurns, rowVars, innerVars, procVars, slotVars
  <2>2. Fronts' = Fronts /\ Fronts \subseteq Runs
    BY <2>1 DEF Fronts
  <2>3. \A r \in Runs : Admits(r)' <=> Admits(r)
    BY <2>1 DEF Admits, HasRoom, HoldsItsCheckout, slotVars
  <2>4. \A r \in Runs : ExitSeen(r) => ExitSeen(r)'
    BY <2>1 DEF ExitSeen, Unborn
  <2>5. Born'
    BY <2>1, StillBorn DEF Grows
  <2>. QED
    BY <2>1, <2>2, <2>3, <2>4, <2>5 DEF Woken
<1>3. CASE PumpVisits
  <2>1. /\ UNCHANGED <<session, stop, paused, child, minted, frames, pumpDue, resume>>
        /\ pump.on /\ pump.pass # {} /\ pump.pass \in SUBSET Runs
    BY <1>3 DEF PumpVisits, procVars, Typed, StepsTyped
  <2>2. PICK r \in pump.pass : Admit(r) \/ PassOver(r)
    BY <1>3, <2>1, OldestIsThere DEF PumpVisits
  <2>3. CASE Admit(r)
    <3>1. /\ state' = [state EXCEPT ![r] = "Starting"] /\ ops' = ops \cup {Op("start", r, 0)}
          /\ pump' = [pump EXCEPT !.pass = @ \ {r}, !.moved = TRUE]
      BY <2>3 DEF Admit
    <3>2. r \in Fronts
      BY <2>1, <2>2 DEF Passing
    <3>3. state[r] = "Queued"
      <4>1. /\ KeyOf[r] \in Keys /\ queues[KeyOf[r]] \in Seq(Runs) /\ queues[KeyOf[r]] # <<>>
            /\ Head(queues[KeyOf[r]]) = r
        BY <3>2, Stamps DEF Fronts, Stamps
      <4>2. 1 \in 1 .. Len(queues[KeyOf[r]]) /\ queues[KeyOf[r]][1] = r
        BY <4>1
      <4>. QED
        BY <4>1, <4>2 DEF Order, QueuedWait
    <3>4. \A q \in Runs : Grows(q)
      BY <2>1, <3>1, <3>3 DEF Grows, Typed, RowsTyped, Over, Ended
    <3>5. \A o \in ops' : o.do = "boot" => o \in ops
      BY <3>1 DEF Op
    <3>6. Born'
      BY <2>1, <3>1, <3>4, <3>5, StillBorn
    <3>7. pump'.on /\ pump'.moved
      BY <2>1, <3>1 DEF Typed, StepsTyped
    <3>. QED
      BY <3>6, <3>7 DEF Woken
  <2>4. CASE PassOver(r)
    <3>1. /\ UNCHANGED <<state, slotVars, queues, ops>> /\ ~Admits(r)
          /\ pump' = [pump EXCEPT !.pass = @ \ {r}]
      BY <2>4 DEF PassOver
    <3>2. pump'.on /\ pump'.pass = pump.pass \ {r} /\ pump'.moved = pump.moved
      BY <2>1, <3>1 DEF Typed, StepsTyped
    <3>3. Fronts' = Fronts /\ Fronts \subseteq Runs
      BY <3>1 DEF Fronts
    <3>4. \A q \in Runs : Admits(q)' <=> Admits(q)
      BY <2>1, <3>1 DEF Admits, HasRoom, HoldsItsCheckout, slotVars
    <3>5. \A q \in Runs : ExitSeen(q) => ExitSeen(q)'
      BY <2>1, <3>1 DEF ExitSeen, Unborn
    <3>6. Born'
      BY <2>1, <3>1, StillBorn DEF Grows
    <3>. QED
      BY <2>1, <3>1, <3>2, <3>3, <3>4, <3>5, <3>6 DEF Woken
  <2>. QED
    BY <2>2, <2>3, <2>4
<1>. QED
  BY <1>1, <1>2, <1>3 DEF Admission

LEMMA ChildWakes ==
  ASSUME Typed, Order, Born, Woken, ChildSteps
  PROVE  Born' /\ Woken'
<1>0. child \in [Sessions -> Children] /\ frames \in [Sessions -> Seq(Frames)] /\ Calm
  BY DEF Typed, ChildrenTyped, Order
<1>1. PICK s \in Sessions :
        \/ ChildReady(s) \/ ChildTakesLine(s) \/ ChildEndsTurn(s)
        \/ ChildAsks(s) \/ ChildAnswered(s) \/ ChildFailsTurn(s)
        \/ \E how \in ExitKinds : ChildExits(s, how)
  BY DEF ChildSteps
<1>2. ASSUME NEW how \in ExitKinds, ChildExits(s, how) PROVE Born' /\ Woken'
  <2>1. /\ UNCHANGED <<state, session, stop, slotVars, paused, queues, minted, frames, pumpDue, pump, resume>>
        /\ child' = [child EXCEPT ![s].st = "gone"] /\ child[s].st \in {"live", "dying"}
        /\ ops' = ops \cup {Op(how, s[1], s[2])}
    BY <1>2 DEF ChildExits, rowVars, innerVars, slotVars, Alive
  <2>2. how # "exitTerm"
    BY <1>2 DEF ChildExits, Spend, Order, Calm
  <2>3. ExitTold(s)
    <3>1. how \in Exits
      BY <2>2 DEF Exits, ExitKinds
    <3>. DEFINE o1 == Op(how, s[1], s[2])
    <3>2. o1 \in ops' /\ o1.do \in Exits /\ o1.run = s[1] /\ o1.gen = s[2]
      BY <2>1, <3>1 DEF Op
    <3>. HIDE DEF o1
    <3>. QED
      BY <3>2 DEF ExitTold
  <2>4. \A o \in ops' : o.do = "boot" => o \in ops
    BY <2>1 DEF Op, ExitKinds
  <2>5. child'[s].st = "gone" /\ \A t \in Sessions : t # s => child'[t] = child[t]
    BY <1>0, <2>1 DEF Children
  <2>6. Born'
    BY <2>1, <2>3, <2>4, <2>5, StillBorn DEF Grows
  <2>. QED
    BY <2>1, <2>6, SameRowsWoken
<1>3. ASSUME NEW from, NEW to, NEW f, Turn(s, from, to, f) PROVE Born' /\ Woken'
  <2>1. /\ UNCHANGED <<state, session, stop, slotVars, paused, queues, minted, pumpDue, pump, resume, ops>>
        /\ child' = [child EXCEPT ![s].mode = to, ![s].typed = @ /\ f # "Prompt"]
        /\ frames' = [frames EXCEPT ![s] = Append(@, f)] /\ child[s].st # "none"
    BY <1>3 DEF Turn, Sends, rowVars, innerVars, slotVars, Alive
  <2>2. \A t \in Sessions : child'[t].st = child[t].st /\ (t # s => frames'[t] = frames[t])
    BY <1>0, <2>1 DEF Children
  <2>3. Born'
    BY <2>1, <2>2, StillBorn DEF Grows
  <2>. QED
    BY <2>1, <2>3, SameRowsWoken
<1>4. CASE ChildReady(s) \/ ChildTakesLine(s) \/ ChildEndsTurn(s) \/ ChildAnswered(s)
  BY <1>3, <1>4 DEF ChildReady, ChildTakesLine, ChildEndsTurn, ChildAnswered
<1>5. CASE ChildAsks(s) \/ ChildFailsTurn(s)
  BY <1>3, <1>5 DEF ChildAsks, ChildFailsTurn
<1>. QED
  BY <1>1, <1>2, <1>4, <1>5

LEMMA ReactionsWake ==
  ASSUME Typed, Order, Born, Woken, Reactions
  PROVE  Born' /\ Woken'
<1>1. PICK s \in Sessions : ApplyFrame(s) \/ ExitRestarts(s) \/ ExitDecided(s) \/ ExternalStop(s) \/ SigStop(s)
  BY DEF Reactions
<1>2. PICK r \in Runs : r = s[1] /\ s = <<r, s[2]>> /\ s[2] \in Gens /\ 0 \notin Gens
  BY Limits DEF Sessions, Gens, Limits
<1>3. /\ Calm /\ frames \in [Sessions -> Seq(Frames)] /\ state \in [Runs -> RunStates]
      /\ ops \subseteq Ops
  BY DEF Typed, RowsTyped, StepsTyped, ChildrenTyped, Order
<1>4. CASE ApplyFrame(s)
  <2>. DEFINE f == Head(frames[s])
  <2>1. /\ UNCHANGED <<session, queues, paused, pump, resume, child, minted>>
        /\ frames' = [frames EXCEPT ![s] = Tail(@)] /\ frames[s] # <<>>
        /\ \/ /\ session[r] = s[2] /\ Heeds(r, f) /\ pumpDue' = TRUE
              /\ state' = [state EXCEPT ![r] = Landed(r, Meaning(f))]
              /\ ops' = ops \cup Wakes(r, Meaning(f))
           \/ UNCHANGED <<state, slotVars, stop, ops, pumpDue>>
    BY <1>2, <1>4 DEF ApplyFrame, SetState
  <2>2. \A t \in Sessions : frames'[t] # <<>> => frames[t] # <<>>
    BY <1>3, <2>1
  <2>. HIDE DEF f
  <2>3. CASE UNCHANGED <<state, slotVars, stop, ops, pumpDue>>
    <3>1. Born'
      BY <2>1, <2>2, <2>3, StillBorn DEF Grows
    <3>. QED
      BY <2>1, <2>3, <3>1, SameRowsWoken
  <2>4. CASE /\ session[r] = s[2] /\ Heeds(r, f) /\ pumpDue' = TRUE
             /\ state' = [state EXCEPT ![r] = Landed(r, Meaning(f))]
             /\ ops' = ops \cup Wakes(r, Meaning(f))
    <3>1. ~Unborn(r)
      BY <1>2, <2>1, <2>4 DEF Unborn, Ghost, Order, Ghosts
    <3>2. child[<<r, session[r]>>].st # "none"
      BY <1>2, <2>1, <2>4 DEF Born
    <3>3. state[r] \notin Over
      BY <2>4 DEF Heeds
    <3>4. \A q \in Runs : Grows(q)
      BY <1>3, <2>1, <2>4, <3>1, <3>2, <3>3 DEF Grows
    <3>5. \A o \in ops' : o.do = "boot" => o \in ops
      BY <2>4, WakesAside DEF Aside
    <3>6. Born'
      BY <2>1, <2>2, <2>4, <3>4, <3>5, StillBorn
    <3>. QED
      BY <2>4, <3>6 DEF Woken
  <2>. QED
    BY <2>1, <2>3, <2>4
<1>5. CASE ExitDecided(s)
  <2>. DEFINE next == IF state[r] = "Blocked" THEN "Failed" ELSE "Finished"
  <2>1. PICK how \in ExitKinds :
          /\ Op(how, r, s[2]) \in ops
          /\ \/ /\ ops' = ops \ {Op(how, r, s[2])} /\ session[r] # s[2]
                /\ UNCHANGED <<state, slotVars, frozen, frozenSessions, stop, held, pumpDue>>
             \/ how = "exitTerm"
             \/ /\ session[r] = s[2] /\ Settle(r, next, how = "exitOk")
                /\ ops' = (ops \ {Op(how, r, s[2])}) \cup Wakes(r, next)
                /\ pumpDue' = (pumpDue \/ Landed(r, next) # state[r])
    BY <1>2, <1>5 DEF ExitDecided, OutsideStop
  <2>2. UNCHANGED <<session, queues, paused, pump, resume, child, minted, frames>>
    BY <1>5 DEF ExitDecided, procVars
  <2>3. how # "exitTerm"
    BY <1>3, <2>1 DEF Op, Calm
  <2>. DEFINE o1 == Op(how, r, s[2])
  <2>4. o1.do = how /\ o1.run = r /\ o1.gen = s[2] /\ how \in ExitKinds \ {"exitTerm"}
    BY <2>3 DEF Op
  <2>5. next \in Ended
    BY DEF Ended
  <2>6. \/ /\ ops' = ops \ {o1} /\ session[r] # s[2]
           /\ UNCHANGED <<state, slotVars, frozen, frozenSessions, stop, held, pumpDue>>
        \/ /\ session[r] = s[2] /\ Settle(r, next, how = "exitOk")
           /\ ops' = (ops \ {o1}) \cup Wakes(r, next)
           /\ pumpDue' = (pumpDue \/ Landed(r, next) # state[r])
    BY <2>1, <2>3
  <2>. HIDE DEF next, o1
  <2>7. CASE /\ ops' = ops \ {o1} /\ session[r] # s[2]
             /\ UNCHANGED <<state, slotVars, frozen, frozenSessions, stop, held, pumpDue>>
    <3>1. Born'
      BY <2>2, <2>4, <2>7, StillBorn DEF Grows
    <3>2. \A q \in Runs : ExitSeen(q) => ExitSeen(q)'
      BY <2>2, <2>4, <2>7 DEF ExitSeen, Unborn
    <3>3. \A q \in Runs : Admits(q)' => Admits(q)
      BY <2>2, <2>7 DEF Admits, HasRoom, HoldsItsCheckout, slotVars
    <3>4. \A o \in ops : o.do = "cancel" => o \in ops'
      BY <2>4, <2>7 DEF ExitKinds
    <3>5. Fronts \subseteq Runs
      BY DEF Fronts
    <3>. QED
      BY <2>2, <2>7, <3>1, <3>2, <3>3, <3>4, <3>5, StillWoken
  <2>8. CASE /\ session[r] = s[2] /\ Settle(r, next, how = "exitOk")
             /\ ops' = (ops \ {o1}) \cup Wakes(r, next)
             /\ pumpDue' = (pumpDue \/ Landed(r, next) # state[r])
    <3>1. /\ \A q \in Runs : Grows(q)
          /\ state'[r] \in Over /\ \A q \in Runs : q # r => state'[q] = state[q]
      BY <1>3, <2>2, <2>5, <2>8, EndingGrows
    <3>2. \A o \in ops : o # o1 => o \in ops'
      BY <2>8
    <3>3. \A o \in ops' : o.do = "boot" => o \in ops
      BY <2>8, WakesAside DEF Aside
    <3>4. Born'
      BY <2>2, <2>4, <3>1, <3>2, <3>3, StillBorn
    <3>5. CASE Landed(r, next) # state[r]
      BY <2>8, <3>4, <3>5 DEF Woken
    <3>6. CASE Landed(r, next) = state[r]
      <4>1. UNCHANGED <<state, slotVars, stop>> /\ (pumpDue => pumpDue')
        BY <2>8, <3>6 DEF Settle
      <4>2. \A q \in Runs : state[q] \notin Over /\ ExitSeen(q) => ExitSeen(q)'
        BY <2>2, <2>4, <3>1, <3>2, <4>1 DEF ExitSeen, Unborn
      <4>3. \A q \in Runs : Admits(q)' => Admits(q)
        BY <2>2, <4>1 DEF Admits, HasRoom, HoldsItsCheckout, slotVars
      <4>4. \A o \in ops : o.do = "cancel" => o \in ops'
        BY <2>4, <3>2 DEF ExitKinds
      <4>5. Fronts \subseteq Runs
        BY DEF Fronts
      <4>. QED
        BY <2>2, <3>4, <4>1, <4>2, <4>3, <4>4, <4>5, StillWoken
    <3>. QED
      BY <3>5, <3>6
  <2>. QED
    BY <2>6, <2>7, <2>8
<1>6. ~ExitRestarts(s)
  BY <1>3 DEF ExitRestarts, RestartsOf, Calm
<1>7. ~ExternalStop(s) /\ ~SigStop(s)
  BY <1>3 DEF ExternalStop, SigStop, Calm, Op
<1>. QED
  BY <1>1, <1>4, <1>5, <1>6, <1>7

\* What a Stop records of a run that holds its pair frees no checkout of a front.
LEMMA StopFreesNoFront ==
  ASSUME Typed, queues \in [Keys -> Seq(Runs)], Order, NEW r \in Runs,
         UNCHANGED <<state, slotVars, paused>>, \A q \in Runs : q # r => stop'[q] = stop[q],
         HoldsAPair(state[r]) \/ (stop[r] \notin WindingDown /\ stop'[r] \notin WindingDown)
  PROVE  \A f \in Fronts : Admits(f)' => Admits(f)
<1>. SUFFICES ASSUME NEW f \in Fronts, Admits(f)'
              PROVE  Admits(f)
  OBVIOUS
<1>1. ProjectOf[f] \notin paused /\ HasRoom(f)
  BY DEF Admits, HasRoom, slotVars
<1>2. ASSUME NEW q \in Runs \ {f}, PairOf[q] = PairOf[f]
      PROVE  ~HoldsItsCheckout(q)
  <2>1. ~HoldsItsCheckout(q)'
    BY <1>2 DEF Admits
  <2>2. state[q] \in Over \cup {"None"}
    BY <1>2, FrontsHoldTheirPair
  <2>3. CASE q # r
    BY <2>1, <2>3 DEF HoldsItsCheckout
  <2>4. CASE q = r
    <3>1. stop[q] \notin WindingDown
      BY <2>2, <2>4 DEF HoldsAPair
    <3>. QED
      BY <2>2, <3>1 DEF HoldsItsCheckout, Over, Ended
  <2>. QED
    BY <2>3, <2>4
<1>. QED
  BY <1>1, <1>2 DEF Admits

\* A line typed and a kill leave what a child shows as it is, and start none
LEMMA LooksTheSame ==
  ASSUME child \in [Sessions -> Children], NEW x,
         child' = child \/ child' = [child EXCEPT ![x].typed = TRUE] \/ Killed(x)
  PROVE  \A s \in Sessions : /\ child'[s].st = "none" <=> child[s].st = "none"
                             /\ child'[s].st = "gone" <=> child[s].st = "gone"
                             /\ child'[s].st = "live" => child[s].st = "live"
                             /\ child'[s].mode = child[s].mode
<1>1. ASSUME child' = [child EXCEPT ![x].typed = TRUE], NEW s \in Sessions
      PROVE  child'[s].st = child[s].st /\ child'[s].mode = child[s].mode
  BY <1>1 DEF Children
<1>2. ASSUME Registered(x), NEW s \in Sessions, NEW halted,
             child' = [child EXCEPT ![x].st = "dying", ![x].halted = halted]
      PROVE  /\ child'[s].st = "none" <=> child[s].st = "none"
             /\ child'[s].st = "gone" <=> child[s].st = "gone"
             /\ child'[s].st = "live" => child[s].st = "live"
             /\ child'[s].mode = child[s].mode
  <2>1. child[s] \in Children /\ child[x].st \in {"live", "dying"}
    BY <1>2 DEF Registered
  <2>2. CASE s = x
    <3>1. child'[s].st = "dying"
      BY <1>2, <2>1, <2>2 DEF Children
    <3>2. child'[s].mode = child[s].mode
      BY <1>2, <2>1, <2>2 DEF Children
    <3>. QED
      BY <2>1, <2>2, <3>1, <3>2
  <2>3. CASE s # x
    <3>1. child'[s] = child[s]
      BY <1>2, <2>3
    <3>. QED
      BY <3>1
  <2>. QED
    BY <2>2, <2>3
<1>3. ASSUME Killed(x), NEW s \in Sessions
      PROVE  /\ child'[s].st = "none" <=> child[s].st = "none"
             /\ child'[s].st = "gone" <=> child[s].st = "gone"
             /\ child'[s].st = "live" => child[s].st = "live"
             /\ child'[s].mode = child[s].mode
  <2>1. CASE Registered(x)
    <3>1. child' = [child EXCEPT ![x].st = "dying",
                                 ![x].halted = child[x].halted /\ x \notin frozenSessions]
      BY <1>3, <2>1 DEF Killed
    <3>. QED
      BY <1>2, <2>1, <3>1
  <2>2. CASE ~Registered(x)
    BY <1>3, <2>2 DEF Killed
  <2>. QED
    BY <2>1, <2>2
<1>. QED
  BY <1>1, <1>3

LEMMA StopsWake ==
  ASSUME Typed, queues \in [Keys -> Seq(Runs)], Order, Born, Woken, Stops
  PROVE  Born' /\ Woken'
<1>1. PICK r \in Runs :
        \/ \E force \in BOOLEAN : PlanStop(r, force)
        \/ CancelDequeues(r) \/ CancelLands(r) \/ KillLands(r) \/ AskToWindDown(r) \/ GraceRunsOut(r)
  BY DEF Stops
<1>0. /\ child \in [Sessions -> Children] /\ stop \in [Runs -> StopHow] /\ Calm
      /\ state \in [Runs -> RunStates] /\ Fronts \subseteq Runs
  BY DEF Typed, RowsTyped, ChildrenTyped, Order, Fronts
<1>2. ASSUME NEW force \in BOOLEAN, PlanStop(r, force) PROVE Born' /\ Woken'
  <2>. DEFINE route == StopRoute(r, force)
              o2 == Op(StopFollows[route], r, session[r])
  <2>1. /\ UNCHANGED <<state, session, slotVars, paused, queues, minted, frames, child, pump, resume>>
        /\ state[r] # "None" /\ (pumpDue => pumpDue')
        /\ \/ route = "Nothing" /\ pumpDue' = TRUE /\ stop' = stop /\ ops' = ops
           \/ /\ route # "Nothing" /\ stop' = [stop EXCEPT ![r] = StopRecord[route]]
              /\ ops' = ops \cup {o2}
    BY <1>2 DEF PlanStop, procVars
  <2>2. route \in {"Cancel", "Nothing", "Discard", "Kill", "Ask"}
    BY DEF StopRoute
  <2>3. route # "Nothing" => o2.do # "boot"
    BY <2>2 DEF Op, StopFollows
  <2>4. route # "Nothing" => state[r] \notin Ended /\ (state[r] = "Interrupted" => route = "Discard")
    BY DEF StopRoute, Ended
  <2>. HIDE DEF route, o2
  <2>5. Born'
    BY <2>1, <2>3, StillBorn DEF Grows
  <2>6. CASE route # "Nothing"
    <3>1. \/ HoldsAPair(state[r])
          \/ stop[r] \notin WindingDown /\ stop'[r] \notin WindingDown
      <4>1. CASE state[r] = "Interrupted"
        <5>1. stop[r] \in {"None", "Discarded"}
          BY <4>1 DEF Order, Waits
        <5>2. stop'[r] = "Discarded"
          BY <1>0, <2>1, <2>4, <2>6, <4>1 DEF StopRecord
        <5>. QED
          BY <5>1, <5>2 DEF WindingDown
      <4>2. CASE state[r] # "Interrupted"
        BY <2>1, <2>4, <2>6, <4>2 DEF HoldsAPair, Over
      <4>. QED
        BY <4>1, <4>2
    <3>2. \A q \in Runs : q # r => stop'[q] = stop[q]
      BY <1>0, <2>1
    <3>3. \A f \in Fronts : Admits(f)' => Admits(f)
      BY <2>1, <3>1, <3>2, StopFreesNoFront
    <3>4. ops \subseteq ops'
      BY <2>1
    <3>5. \A q \in Runs : ExitSeen(q) => ExitSeen(q)'
      BY <2>1, <3>4 DEF ExitSeen, Unborn
    <3>. QED
      BY <2>1, <2>5, <3>3, <3>4, <3>5, StillWoken
  <2>. QED
    BY <2>1, <2>5, <2>6 DEF Woken
<1>3. CASE CancelDequeues(r)
  <2>1. PICK g \in 0 .. MaxGen : ops' = (ops \ {Op("dequeue", r, g)}) \cup {Op("cancel", r, g)}
    BY <1>3 DEF CancelDequeues
  <2>2. UNCHANGED <<state, session, minted, frames, child>>
    BY <1>3 DEF CancelDequeues, rowVars, procVars
  <2>3. /\ \A o \in ops : o.do \in Exits => o \in ops'
        /\ \A o \in ops' : o.do = "boot" => o \in ops
        /\ \E o \in ops' : o.do = "cancel"
    <3>. DEFINE o1 == Op("dequeue", r, g)
                o2 == Op("cancel", r, g)
    <3>1. o1.do = "dequeue" /\ o2.do = "cancel" /\ ops' = (ops \ {o1}) \cup {o2}
      BY <2>1 DEF Op
    <3>. HIDE DEF o1, o2
    <3>. QED
      BY <3>1 DEF Exits
  <2>4. Born'
    BY <2>2, <2>3, StillBorn DEF Grows
  <2>. QED
    BY <2>3, <2>4 DEF Woken
<1>4. CASE CancelLands(r)
  <2>1. PICK do \in {"cancel", "discard"}, g \in 0 .. MaxGen :
          ops' = (ops \ {Op(do, r, g)}) \cup Wakes(r, "Cancelled")
    BY <1>4 DEF CancelLands
  <2>2. /\ UNCHANGED <<session, minted, frames, child>> /\ pumpDue' = TRUE
        /\ Settle(r, "Cancelled", FALSE)
    BY <1>4 DEF CancelLands, procVars
  <2>3. \A q \in Runs : Grows(q)
    BY <1>0, <2>2, EndingGrows DEF Ended
  <2>4. \A o \in ops : o.do \in Exits => o \in ops'
    BY <2>1 DEF Op, Exits
  <2>5. \A o \in ops' : o.do = "boot" => o \in ops
    BY <2>1, WakesAside DEF Aside
  <2>. QED
    BY <2>2, <2>3, <2>4, <2>5, StillBorn DEF Woken
<1>5. CASE KillLands(r)
  <2>1. PICK do \in {"kill", "stopKill"}, g \in 0 .. MaxGen :
          /\ Killed(<<r, g>>) /\ ops' = ops \ {Op(do, r, g)} /\ (pumpDue => pumpDue')
    BY <1>5 DEF KillLands
  <2>2. UNCHANGED <<state, session, stop, slotVars, paused, queues, minted, frames, pump, resume>>
    BY <1>5 DEF KillLands, rowVars, slotVars
  <2>3. \A o \in ops : o.do \in Exits \cup {"cancel"} => o \in ops'
    BY <2>1 DEF Op, Exits
  <2>4. \A s \in Sessions : /\ child'[s].st = "none" <=> child[s].st = "none"
                            /\ child'[s].st = "gone" => child[s].st = "gone"
    BY <1>0, <2>1, LooksTheSame
  <2>5. Born'
    BY <2>1, <2>2, <2>3, <2>4, StillBorn DEF Grows
  <2>. QED
    BY <2>1, <2>2, <2>3, <2>5, SameRowsWoken
<1>6. CASE AskToWindDown(r)
  <2>1. PICK g \in 0 .. MaxGen :
          /\ \A o \in ops : o # Op("ask", r, g) => o \in ops'
          /\ \A o \in ops' : o \in ops \/ o = Op("grace", r, 0)
          /\ child' = child \/ child' = [child EXCEPT ![<<r, g>>].typed = TRUE]
    BY <1>6 DEF AskToWindDown
  <2>2. UNCHANGED <<state, session, minted, frames>> /\ pumpDue' = TRUE
    BY <1>6 DEF AskToWindDown
  <2>3. \A s \in Sessions : child'[s].st = child[s].st
    BY <1>0, <2>1, TypedKeeps
  <2>4. /\ \A o \in ops : o.do \in Exits => o \in ops'
        /\ \A o \in ops' : o.do = "boot" => o \in ops
    BY <2>1 DEF Op, Exits
  <2>5. Born'
    BY <2>2, <2>3, <2>4, StillBorn DEF Grows
  <2>. QED
    BY <2>2, <2>5 DEF Woken
<1>7. CASE GraceRunsOut(r)
  <2>1. /\ UNCHANGED <<state, session, slotVars, paused, queues, minted, frames, child, pump, resume,
                       pumpDue>>
        /\ \A o \in ops : o # Op("grace", r, 0) => o \in ops'
        /\ \A o \in ops' : o \in ops \/ o = Op("kill", r, session[r])
        /\ \/ stop' = stop
           \/ /\ stop[r] \in WindingDown /\ state[r] \notin Over
              /\ stop' = [stop EXCEPT ![r] = "Forced"]
    BY <1>7 DEF GraceRunsOut, procVars
  <2>2. /\ \A o \in ops : o.do \in Exits \cup {"cancel"} => o \in ops'
        /\ \A o \in ops' : o.do = "boot" => o \in ops
    BY <2>1 DEF Op, Exits
  <2>3. Born'
    BY <2>1, <2>2, StillBorn DEF Grows
  <2>4. CASE stop' = stop
    BY <2>1, <2>2, <2>3, <2>4, SameRowsWoken
  <2>5. CASE /\ stop[r] \in WindingDown /\ state[r] \notin Over
             /\ stop' = [stop EXCEPT ![r] = "Forced"]
    <3>1. HoldsAPair(state[r])
      BY <2>5 DEF HoldsAPair, WindingDown, Order, Waits
    <3>2. \A q \in Runs : q # r => stop'[q] = stop[q]
      BY <1>0, <2>5
    <3>3. \A f \in Fronts : Admits(f)' => Admits(f)
      BY <2>1, <3>1, <3>2, StopFreesNoFront
    <3>4. \A q \in Runs : ExitSeen(q) => ExitSeen(q)'
      BY <2>1, <2>2 DEF ExitSeen, Unborn
    <3>. QED
      BY <2>1, <2>2, <2>3, <3>3, <3>4, StillWoken
  <2>. QED
    BY <2>1, <2>4, <2>5
<1>. QED
  BY <1>1, <1>2, <1>3, <1>4, <1>5, <1>6, <1>7

LEMMA FollowUpsWake ==
  ASSUME Typed, Order, Born, Woken, FollowUps
  PROVE  Born' /\ Woken'
<1>0. /\ child \in [Sessions -> Children] /\ Fronts \subseteq Runs
      /\ agentSlots \in [Keys -> Nat] /\ projectSlots \in [Projects -> Nat]
      /\ session \in [Runs -> 0 .. MaxGen] /\ slot \in [Runs -> BOOLEAN]
  BY DEF Typed, RowsTyped, InnerTyped, ChildrenTyped, Fronts
<1>1. PICK r \in Runs : FollowUp(r) \/ HeldFollowUp(r) \/ Reserve(r) \/ SendPrompt(r)
  BY DEF FollowUps
<1>2. UNCHANGED <<state, session, stop, paused, queues, minted, frames, pumpDue, pump, resume>>
  BY <1>1 DEF FollowUp, HeldFollowUp, UnchangedByFollowUp, Reserve, SendPrompt, procVars
<1>3. \A s \in Sessions : child'[s].st = child[s].st
  <2>1. child' = child \/ \E g \in Gens : child' = [child EXCEPT ![<<r, g>>].typed = TRUE]
    BY <1>1 DEF FollowUp, HeldFollowUp, UnchangedByFollowUp, Reserve, SendPrompt, procVars
  <2>. QED
    BY <1>0, <2>1, TypedKeeps
\* The operations of a follow-up come and go; no other does
<1>4. /\ \A o \in ops : o.do \in Exits \cup {"cancel"} => o \in ops'
      /\ \A o \in ops' : o.do = "boot" => o \in ops
  <2>1. CASE PlanFollowUp(r)
    BY <2>1 DEF PlanFollowUp, Op, Exits
  <2>2. CASE HeldFollowUp(r) /\ ~PlanFollowUp(r)
    BY <2>2 DEF HeldFollowUp, Op, Exits
  <2>3. CASE Reserve(r)
    BY <2>3 DEF Reserve, Op, Exits
  <2>4. CASE SendPrompt(r)
    BY <2>4 DEF SendPrompt, Op, Exits
  <2>. QED
    BY <1>1, <2>1, <2>2, <2>3, <2>4 DEF FollowUp
<1>5. Born'
  BY <1>2, <1>3, <1>4, StillBorn DEF Grows
<1>6. \A q \in Runs : ExitSeen(q) => ExitSeen(q)'
  BY <1>2, <1>4 DEF ExitSeen, Unborn
<1>7. CASE UNCHANGED slotVars
  BY <1>2, <1>4, <1>5, <1>7, SameRowsWoken
<1>8. CASE TakeSlot(r)
  <2>1. \A f \in Runs : HasRoom(f)' => HasRoom(f)
    <3>. SUFFICES ASSUME NEW f \in Runs, HasRoom(f)' PROVE HasRoom(f)
      OBVIOUS
    <3>1. /\ KeyOf[f] \in Keys /\ ProjectOf[f] \in Projects
          /\ AgentLimit[f] \in Nat /\ ProjectLimit[f] \in Nat
      BY Stamps, Limits DEF Stamps, Limits
    <3>2. /\ agentSlots'[KeyOf[f]] >= agentSlots[KeyOf[f]]
          /\ projectSlots'[ProjectOf[f]] >= projectSlots[ProjectOf[f]]
          /\ agentSlots'[KeyOf[f]] \in Nat /\ projectSlots'[ProjectOf[f]] \in Nat
      BY <1>0, <1>8, <3>1 DEF TakeSlot
    <3>. QED
      BY <1>0, <3>1, <3>2 DEF HasRoom
  <2>2. \A f \in Fronts : Admits(f)' => Admits(f)
    BY <1>0, <1>2, <2>1 DEF Admits, HoldsItsCheckout
  <2>. QED
    BY <1>2, <1>4, <1>5, <1>6, <2>2, StillWoken
\* A reservation given back: the child that did not take the line is gone, its exit not yet decided
<1>9. CASE SendPrompt(r) /\ ~UNCHANGED slotVars
  <2>1. PICK g \in Gens : ~Registered(<<r, g>>) /\ session[r] = g /\ state[r] = "Blocked"
    BY <1>9 DEF SendPrompt
  <2>2. <<r, g>> \in Sessions /\ g # 0
    BY Limits DEF Sessions, Gens, Limits
  <2>3. child[<<r, g>>].st = "gone"
    BY <1>0, <2>1, <2>2 DEF Registered, Born, Children
  <2>4. ExitSeen(r) /\ state[r] \notin Over
    BY <2>1, <2>3 DEF Born, Over, Ended
  <2>. QED
    BY <1>2, <1>5, <1>6, <2>4 DEF Woken
<1>10. UNCHANGED slotVars \/ TakeSlot(r) \/ SendPrompt(r)
  BY <1>1 DEF FollowUp, HeldFollowUp, UnchangedByFollowUp, Reserve
<1>. QED
  BY <1>7, <1>8, <1>9, <1>10

LEMMA ResumesWake ==
  ASSUME Typed, queues \in [Keys -> Seq(Runs)], Order, Born, Woken, Resumes
  PROVE  Born' /\ Woken'
<1>0. /\ child \in [Sessions -> Children] /\ state \in [Runs -> RunStates]
      /\ session \in [Runs -> 0 .. MaxGen] /\ minted \in [Runs -> 0 .. MaxGen]
      /\ \A r \in Runs : frozen[r] = NoFreeze
      /\ resume.todo \subseteq Runs \X (0 .. MaxGen)
  BY DEF Typed, RowsTyped, StepsTyped, ChildrenTyped, Order, Calm
<1>1. CASE ResumeDone
  <2>1. UNCHANGED <<state, session, minted, frames, child, ops>> /\ pumpDue' = TRUE
    BY <1>1 DEF ResumeDone, rowVars, procVars
  <2>2. Born'
    BY <2>1, StillBorn DEF Grows
  <2>. QED
    BY <2>1, <2>2 DEF Woken
<1>2. CASE Resume \/ ReclaimTakesLock \/ RequeueTakesLock
  <2>1. UNCHANGED <<state, session, minted, frames, child, ops>>
    BY <1>2 DEF Resume, ResumePlans, ReclaimTakesLock, RequeueTakesLock, rowVars, procVars
  <2>2. resume'.phase # "idle"
    <3>1. CASE Resume
      <4>1. ASSUME NEW whole, NEW S, ResumePlans(whole, S) PROVE resume'.phase = "planned"
        BY <4>1 DEF ResumePlans
      <4>. QED
        BY <3>1, <4>1 DEF Resume
    <3>2. CASE ReclaimTakesLock \/ RequeueTakesLock
      BY <3>2 DEF ReclaimTakesLock, RequeueTakesLock, Typed, StepsTyped
    <3>. QED
      BY <1>2, <3>1, <3>2
  <2>3. Born'
    BY <2>1, StillBorn DEF Grows
  <2>. QED
    BY <2>2, <2>3 DEF Woken
<1>3. CASE SigCont \/ EndOldChildren
  <2>1. UNCHANGED <<state, session, minted, frames, ops>> /\ resume'.phase # "idle"
    BY <1>3 DEF SigCont, EndOldChildren, rowVars, Typed, StepsTyped
  <2>2. \A s \in Sessions : /\ child'[s].st = "none" <=> child[s].st = "none"
                            /\ child'[s].st = "gone" => child[s].st = "gone"
    <3>1. CASE SigCont
      BY <1>0, <3>1 DEF SigCont, Children
    <3>2. CASE EndOldChildren
      BY <1>0, <3>2 DEF EndOldChildren, HungUp, Children
    <3>. QED
      BY <1>3, <3>1, <3>2
  <2>3. Born'
    BY <2>1, <2>2, StillBorn DEF Grows
  <2>. QED
    BY <2>1, <2>3 DEF Woken
<1>4. CASE FinishThaws
  <2>1. UNCHANGED <<session, minted, frames, child, ops>> /\ resume'.phase # "idle"
    BY <1>4 DEF FinishThaws, procVars, Typed, StepsTyped
  <2>2. state' = state
    BY <1>0, <1>4 DEF FinishThaws
  <2>3. Born'
    BY <2>1, <2>2, StillBorn DEF Grows
  <2>. QED
    BY <2>1, <2>3 DEF Woken
<1>5. CASE PlanRestarts
  <2>1. PICK S \in SUBSET {s \in resume.thaws : /\ frozen[s[1]] # NoFreeze /\ session[s[1]] = s[2]
                                              /\ ForkedHere(s[1]) /\ minted[s[1]] < MaxGen} :
         LET R == {s[1] : s \in S} IN
         /\ minted' = [r \in Runs |-> IF r \in R THEN minted[r] + 1 ELSE minted[r]]
         /\ session' = [r \in Runs |-> IF r \in R THEN minted[r] + 1 ELSE session[r]]
         /\ state' = [r \in Runs |-> IF r \in R THEN "Starting" ELSE state[r]]
    BY <1>5 DEF PlanRestarts
  <2>2. S = {}
    <3>1. \A s \in resume.thaws : s[1] \in Runs
      BY DEF Typed, StepsTyped, Sessions
    <3>. QED
      BY <1>0, <3>1
  <2>3. minted' = minted /\ session' = session /\ state' = state
    BY <1>0, <2>1, <2>2
  <2>4. UNCHANGED <<frames, child, ops>> /\ resume'.phase # "idle"
    BY <1>5 DEF PlanRestarts, Typed, StepsTyped
  <2>5. Born'
    BY <2>3, <2>4, StillBorn DEF Grows
  <2>. QED
    BY <2>4, <2>5 DEF Woken
<1>6. ASSUME NEW r \in Runs, RequeueOne(r) PROVE Born' /\ Woken'
  <2>1. /\ UNCHANGED <<session, minted, frames, child, ops>> /\ resume'.phase # "idle"
        /\ <<r, 0>> \in resume.todo
        /\ state' = state \/ state' = [state EXCEPT ![r] = "Queued"]
    BY <1>6 DEF RequeueOne, procVars, Typed, StepsTyped
  <2>2. state[r] = "Interrupted"
    BY <2>1 DEF Order, Resuming
  <2>3. Unborn(r)
    BY <2>2 DEF Order, Waits, BeforeAStart
  <2>4. \A q \in Runs : Grows(q)
    BY <1>0, <2>1, <2>3 DEF Grows
  <2>5. Born'
    BY <2>1, <2>4, StillBorn
  <2>. QED
    BY <2>1, <2>5 DEF Woken
<1>7. ~ReclaimSlot
  BY DEF ReclaimSlot, Order, Resuming
<1>. QED
  BY <1>1, <1>2, <1>3, <1>4, <1>5, <1>6, <1>7 DEF Resumes

LEMMA DispatchWakes ==
  ASSUME Typed, Order, Born, NEW r \in Runs, Dispatch(r)
  PROVE  Born' /\ Woken'
<1>1. /\ UNCHANGED <<session, minted, frames, child, ops>> /\ pumpDue' = TRUE
      /\ state' = [state EXCEPT ![r] = "Queued"] /\ state[r] = "None"
  BY DEF Dispatch, procVars
<1>2. \A q \in Runs : Grows(q)
  BY <1>1 DEF Grows, Typed, RowsTyped, Over, Ended
<1>3. Born'
  BY <1>1, <1>2, StillBorn
<1>. QED
  BY <1>1, <1>3 DEF Woken

LEMMA StepWakes ==
  ASSUME Ordered, Born, Woken, [Next]_vars
  PROVE  Born' /\ Woken'
<1>0. Typed /\ queues \in [Keys -> Seq(Runs)] /\ Order /\ Passing
  BY DEF Ordered, IInv, TypeOK, Typed
<1>1. CASE UNCHANGED vars
  <2>1. /\ UNCHANGED <<state, session, stop, slotVars, paused, queues, pumpDue, pump, resume, ops>>
        /\ UNCHANGED <<child, minted, frames>>
    BY <1>1 DEF vars, rowVars, innerVars, procVars, slotVars
  <2>2. Born'
    BY <1>0, <2>1, StillBorn DEF Grows
  <2>. QED
    BY <2>1, <2>2, SameRowsWoken
<1>2. CASE Next
  <2>1. ~Pauses
    BY <1>0 DEF Pauses, PauseRun, PauseProject, Spend, Order, Calm
  <2>. QED
    BY <1>0, <1>2, <2>1, DispatchWakes, AdmissionWakes, StartsWake, ChildWakes, ReactionsWake,
       StopsWake, FollowUpsWake, ResumesWake DEF Next
<1>. QED
  BY <1>1, <1>2

LEMMA InitWakes == ASSUME Undisturbed, Init PROVE Born /\ Woken
<1>1. Born
  BY RunsAreFinite, Limits DEF Init, Born, Sessions, Gens, Unborn, Ghost, RunsAreFinite, Limits, NoChild
<1>2. Woken
  BY Stamps DEF Init, Woken, Fronts, Stamps
<1>. QED
  BY <1>1, <1>2

\* No wakeup is lost: when nothing of the registry is in progress, no queue has a front
\* that admit_a_pass would take.  A reservation given back with its child gone
\* (send_prompt), a row dequeued before it is cancelled (StopRoute::Cancel) and a
\* recorded Stop free nothing without a pass of the loop to come.
THEOREM NoWakeupIsLost == ASSUME Undisturbed PROVE Spec => []NoLostWakeup
<1>. DEFINE Alert == Ordered /\ Born /\ Woken
<1>1. Init => Alert
  BY InitOrdered, InitWakes
<1>2. Alert /\ [Next]_vars => Alert'
  BY NextOrdered, StepWakes DEF Undisturbed
<1>3. Alert => NoLostWakeup
  BY DEF Woken, NoLostWakeup, Waking, NoResume, ExitSeen
<1>. QED
  BY <1>1, <1>2, <1>3, PTL DEF Spec

------------------------------------------------------------------------------
(* A row says what its child does *)

\* What the child was doing when it sent a frame, and what it did then; what a row takes
\* it to be doing.
Before(f) == CASE f = "SessionStart" -> "splash"
               [] f = "Prompt" -> "prompt"
               [] f = "Tool" -> "asking"
               [] f \in {"Stop", "Permission", "TurnFailed"} -> "busy"
After(f) == CASE f \in {"SessionStart", "Stop", "TurnFailed"} -> "prompt"
              [] f \in {"Prompt", "Tool"} -> "busy"
              [] f = "Permission" -> "asking"
Believed(st) == CASE st = "Starting" -> "splash"
                  [] st = "Running" -> "busy"
                  [] st = "AwaitingPermission" -> "asking"
                  [] st \in {"Idle", "Blocked"} -> "prompt"
Taking == {"Starting", "Running", "AwaitingPermission", "Idle", "Blocked"}

\* What the child did before the first frame the row has not heard yet
Unheard(s) == IF frames[s] = <<>> THEN child[s].mode ELSE Before(Head(frames[s]))

InSequence(s) ==
    \A i \in 1 .. Len(frames[s]) :
        After(frames[s][i]) = IF i = Len(frames[s]) THEN child[s].mode ELSE Before(frames[s][i + 1])

ToldBy(r, s) == IF child[s].st = "none" THEN state[r] = "Starting"
                ELSE state[r] \in Taking /\ Believed(state[r]) = Unheard(s)

\* A child's frames tell its turns one after the other, and its row has heard all but
\* those still on their way; a boot to come has no child yet.
Told ==
    /\ \A s \in Sessions : InSequence(s)
    /\ \A o \in ops : o.do = "boot" => o.gen \in Gens /\ child[<<o.run, o.gen>>].st = "none"
    /\ \A r \in Runs : ~Unborn(r) /\ state[r] \notin Over => ToldBy(r, <<r, session[r]>>)

\* What no step but the start of a child, its turns and its frames' hearing touches
Hears(r) == \/ Unborn(r)'
            \/ session'[r] = session[r] /\ (state'[r] = state[r] \/ state'[r] \in Over)

LEMMA StillTold ==
  ASSUME Typed, Told, \A r \in Runs : Hears(r), frames' = frames,
         \A s \in Sessions : /\ child'[s].st = "none" <=> child[s].st = "none"
                             /\ child'[s].mode = child[s].mode,
         \A o \in ops' : o.do = "boot" => o \in ops
  PROVE  Told'
<1>1. \A s \in Sessions : InSequence(s)'
  BY DEF Told, InSequence
<1>2. ASSUME NEW o \in ops', o.do = "boot" PROVE o.gen \in Gens /\ child'[<<o.run, o.gen>>].st = "none"
  <2>1. o \in ops /\ o.gen \in Gens /\ o.run \in Runs
    BY <1>2 DEF Typed, StepsTyped, Ops, Told
  <2>2. <<o.run, o.gen>> \in Sessions
    BY <2>1 DEF Sessions
  <2>. QED
    BY <1>2, <2>1, <2>2 DEF Told
<1>3. ASSUME NEW r \in Runs, ~Unborn(r)', state'[r] \notin Over
      PROVE  ToldBy(r, <<r, session[r]>>)' /\ session'[r] = session[r]
  <2>1. session'[r] = session[r] /\ state'[r] = state[r] /\ ~Unborn(r)
    BY <1>3 DEF Hears, Unborn
  <2>2. <<r, session[r]>> \in Sessions
    BY <2>1 DEF Unborn, Typed, RowsTyped, Sessions, Gens
  <2>3. ToldBy(r, <<r, session[r]>>)
    BY <1>3, <2>1 DEF Told
  <2>4. Unheard(<<r, session[r]>>)' = Unheard(<<r, session[r]>>)
    BY <2>1, <2>2 DEF Unheard
  <2>. QED
    BY <2>1, <2>2, <2>3, <2>4 DEF ToldBy
<1>4. \A r \in Runs : ~Unborn(r)' /\ state'[r] \notin Over => ToldBy(r, <<r, session[r]>>)'
  BY <1>3
<1>. QED
  BY <1>1, <1>2, <1>4 DEF Told

LEMMA BindTells ==
  ASSUME Typed, Order, Born, Told, NEW r \in Runs, Bind(r)
  PROVE  Told'
<1>0. /\ minted \in [Runs -> 0 .. MaxGen] /\ session \in [Runs -> 0 .. MaxGen]
      /\ session' = [session EXCEPT ![r] = minted[r] + 1] /\ session'[r] = minted[r] + 1
      /\ child' = child /\ frames' = frames /\ state' = state /\ minted[r] < MaxGen
      /\ minted' = [minted EXCEPT ![r] = @ + 1] /\ minted'[r] = minted[r] + 1
      /\ ops' = (ops \ {Op("start", r, 0)}) \cup {Op("boot", r, minted[r] + 1)}
      /\ Op("start", r, 0) \in ops
  BY DEF Typed, RowsTyped, ChildrenTyped, Bind
<1>1. child[<<r, minted[r] + 1>>].st = "none"
  <2>1. <<r, minted[r] + 1>> \in Sessions
    BY <1>0, Limits DEF Sessions, Gens, Limits
  <2>2. minted[r] + 1 > minted[r]
    BY <1>0
  <2>. QED
    BY <2>1, <2>2 DEF Born
<1>2. state[r] \in {"Starting"} \cup Over
  BY <1>0 DEF Op, Order, OneStart
<1>3. \A s \in Sessions : InSequence(s)'
  BY <1>0 DEF Told, InSequence
<1>4. ASSUME NEW o \in ops', o.do = "boot" PROVE o.gen \in Gens /\ child'[<<o.run, o.gen>>].st = "none"
  <2>. DEFINE o2 == Op("boot", r, minted[r] + 1)
  <2>1. o2.run = r /\ o2.gen = minted[r] + 1 /\ minted[r] + 1 \in Gens
    BY <1>0, Limits DEF Op, Gens, Limits
  <2>2. o \in ops \/ o = o2
    BY <1>0
  <2>. HIDE DEF o2
  <2>. QED
    BY <1>0, <1>1, <1>4, <2>1, <2>2 DEF Told
<1>5. ASSUME NEW q \in Runs, ~Unborn(q)', state'[q] \notin Over
      PROVE  ToldBy(q, <<q, session[q]>>)'
  <2>1. CASE q = r
    BY <1>0, <1>1, <1>2, <1>5, <2>1 DEF ToldBy
  <2>2. CASE q # r
    <3>1. session'[q] = session[q] /\ ~Unborn(q)
      BY <1>0, <1>5, <2>2 DEF Unborn
    <3>2. ToldBy(q, <<q, session[q]>>)
      BY <1>0, <1>5, <3>1 DEF Told
    <3>. QED
      BY <1>0, <3>1, <3>2 DEF ToldBy, Unheard
  <2>. QED
    BY <2>1, <2>2
<1>. QED
  BY <1>3, <1>4, <1>5 DEF Told

LEMMA ForkTells ==
  ASSUME Typed, Order, Born, Told, NEW r \in Runs, NEW g \in Gens, Fork(r, g)
  PROVE  Told'
<1>. DEFINE s == <<r, g>>
            o1 == Op("boot", r, g)
            o2 == Op("opening", r, g)
<1>0. /\ frames' = frames /\ state' = state /\ session' = session /\ s \in Sessions
      /\ child'[s].st = "live" /\ child'[s].mode = "splash"
      /\ \A t \in Sessions : t # s => child'[t] = child[t]
      /\ o1 \in ops /\ \A o \in ops' : (o \in ops /\ o # o1) \/ o = o2
      /\ o1.do = "boot" /\ o1.run = r /\ o1.gen = g /\ o2.do = "opening"
  <2>1. child \in [Sessions -> Children] /\ s \in Sessions
    BY DEF Typed, ChildrenTyped, Sessions
  <2>2. child' = [child EXCEPT ![s] = [NoChild EXCEPT !.st = "live", !.typed = (session[r] = g)]]
    BY DEF Fork
  <2>3. child'[s] = [NoChild EXCEPT !.st = "live", !.typed = (session[r] = g)]
    BY <2>1, <2>2
  <2>4. child'[s].st = "live" /\ child'[s].mode = "splash"
    BY <2>3 DEF NoChild
  <2>. QED
    BY <2>1, <2>2, <2>4 DEF Fork, Op, rowVars
<1>. HIDE DEF s, o1, o2
<1>1. child[s].st = "none" /\ frames[s] = <<>>
  <2>1. child[<<o1.run, o1.gen>>].st = "none"
    BY <1>0 DEF Told
  <2>2. s = <<o1.run, o1.gen>>
    BY <1>0 DEF s
  <2>. QED
    BY <1>0, <2>1, <2>2 DEF Born
<1>2. \A t \in Sessions : InSequence(t)'
  <2>. SUFFICES ASSUME NEW t \in Sessions PROVE InSequence(t)'
    OBVIOUS
  <2>1. CASE t = s
    <3>1. Len(frames'[t]) = 0
      BY <1>0, <1>1, <2>1
    <3>. QED
      BY <3>1 DEF InSequence
  <2>2. CASE t # s
    BY <1>0, <2>2 DEF Told, InSequence
  <2>. QED
    BY <2>1, <2>2
<1>3. ASSUME NEW o \in ops', o.do = "boot" PROVE o.gen \in Gens /\ child'[<<o.run, o.gen>>].st = "none"
  <2>1. o \in ops /\ o # o1 /\ o.run \in Runs
    BY <1>0, <1>3 DEF Typed, StepsTyped, Ops
  <2>2. o.run # r
    BY <1>0, <1>3, <2>1 DEF Order, OneStart, Chain
  <2>3. o.gen \in Gens /\ child[<<o.run, o.gen>>].st = "none"
    BY <1>3, <2>1 DEF Told
  <2>4. <<o.run, o.gen>> \in Sessions \ {s}
    BY <2>1, <2>2, <2>3 DEF Sessions, s
  <2>. QED
    BY <1>0, <2>3, <2>4
<1>4. ASSUME NEW q \in Runs, ~Unborn(q)', state'[q] \notin Over
      PROVE  ToldBy(q, <<q, session[q]>>)'
  <2>1. ~Unborn(q) /\ ToldBy(q, <<q, session[q]>>)
    BY <1>0, <1>4 DEF Unborn, Told
  <2>2. <<q, session[q]>> \in Sessions
    BY <2>1 DEF Unborn, Typed, RowsTyped, Sessions, Gens
  <2>3. CASE <<q, session[q]>> = s
    <3>1. state[q] = "Starting"
      BY <1>1, <2>1, <2>3 DEF ToldBy
    <3>. QED
      BY <1>0, <1>1, <2>3, <3>1 DEF ToldBy, Unheard, Taking, Believed
  <2>4. CASE <<q, session[q]>> # s
    BY <1>0, <2>1, <2>2, <2>4 DEF ToldBy, Unheard
  <2>. QED
    BY <2>3, <2>4
<1>. QED
  BY <1>2, <1>3, <1>4 DEF Told

LEMMA TurnTells ==
  ASSUME Typed, Told, NEW s \in Sessions, NEW from, NEW to, NEW f \in Frames,
         Turn(s, from, to, f), Before(f) = from, After(f) = to
  PROVE  Told'
<1>0. /\ state' = state /\ session' = session /\ ops' = ops
      /\ child[s].st = "live" /\ child[s].mode = from
      /\ child'[s].st = "live" /\ child'[s].mode = to
      /\ \A t \in Sessions : t # s => child'[t] = child[t] /\ frames'[t] = frames[t]
      /\ frames'[s] = Append(frames[s], f) /\ frames[s] \in Seq(Frames)
  BY DEF Turn, Sends, Typed, ChildrenTyped, Children, rowVars
<1>1. \A t \in Sessions : InSequence(t)'
  <2>. SUFFICES ASSUME NEW t \in Sessions, NEW i \in 1 .. Len(frames'[t])
                PROVE  After(frames'[t][i]) =
                         IF i = Len(frames'[t]) THEN child'[t].mode ELSE Before(frames'[t][i + 1])
    BY DEF InSequence
  <2>1. CASE t # s
    BY <1>0, <2>1 DEF Told, InSequence
  <2>2. CASE t = s
    <3>. DEFINE n == Len(frames[s])
    <3>1. n \in Nat /\ Len(frames'[t]) = n + 1 /\ frames'[t][n + 1] = f
          /\ \A j \in 1 .. n : frames'[t][j] = frames[s][j]
      BY <1>0, <2>2
    <3>2. \A j \in 1 .. n : After(frames[s][j]) = IF j = n THEN from ELSE Before(frames[s][j + 1])
      BY <1>0 DEF Told, InSequence
    <3>. HIDE DEF n
    <3>3. CASE i = n + 1
      BY <1>0, <2>2, <3>1, <3>3
    <3>4. CASE i = n
      <4>1. /\ n \in 1 .. n /\ n # n + 1
        BY <3>1, <3>4
      <4>2. After(frames'[t][n]) = from /\ Before(frames'[t][n + 1]) = from
        BY <2>2, <3>1, <3>2, <4>1
      <4>. QED
        BY <3>1, <3>4, <4>1, <4>2
    <3>5. CASE i < n
      <4>1. i \in 1 .. n /\ i + 1 \in 1 .. n
        BY <3>1, <3>5
      <4>2. frames'[t][i] = frames[s][i] /\ frames'[t][i + 1] = frames[s][i + 1] /\ i # n
        BY <2>2, <3>1, <3>5, <4>1
      <4>3. After(frames[s][i]) = Before(frames[s][i + 1])
        BY <3>2, <4>1, <4>2
      <4>4. i # Len(frames'[t])
        BY <3>1, <3>5
      <4>. QED
        BY <4>2, <4>3, <4>4
    <3>. QED
      BY <3>1, <3>3, <3>4, <3>5
  <2>. QED
    BY <2>1, <2>2
<1>2. ASSUME NEW o \in ops', o.do = "boot" PROVE o.gen \in Gens /\ child'[<<o.run, o.gen>>].st = "none"
  <2>1. o.run \in Runs /\ o.gen \in Gens /\ child[<<o.run, o.gen>>].st = "none"
    BY <1>0, <1>2 DEF Told, Typed, StepsTyped, Ops
  <2>2. <<o.run, o.gen>> \in Sessions \ {s}
    BY <1>0, <2>1 DEF Sessions
  <2>. QED
    BY <1>0, <2>1, <2>2
<1>3. ASSUME NEW q \in Runs, ~Unborn(q)', state'[q] \notin Over
      PROVE  ToldBy(q, <<q, session[q]>>)'
  <2>1. ~Unborn(q) /\ ToldBy(q, <<q, session[q]>>)
    BY <1>0, <1>3 DEF Unborn, Told
  <2>2. <<q, session[q]>> \in Sessions
    BY <2>1 DEF Unborn, Typed, RowsTyped, Sessions, Gens
  <2>3. CASE <<q, session[q]>> = s
    <3>1. Unheard(s)' = Unheard(s)
      <4>1. frames'[s] # <<>> /\ Head(frames'[s]) = IF frames[s] = <<>> THEN f ELSE Head(frames[s])
        BY <1>0
      <4>. QED
        BY <1>0, <4>1 DEF Unheard
    <3>. QED
      BY <1>0, <2>1, <2>3, <3>1 DEF ToldBy
  <2>4. CASE <<q, session[q]>> # s
    BY <1>0, <2>1, <2>2, <2>4 DEF ToldBy, Unheard
  <2>. QED
    BY <2>3, <2>4
<1>. QED
  BY <1>1, <1>2, <1>3 DEF Told

LEMMA FramesMean ==
  ASSUME NEW f \in Frames
  PROVE  /\ Meaning(f) \in Taking \ {"Starting"} /\ Believed(Meaning(f)) = After(f)
         /\ Before(f) = "prompt" => f = "Prompt"
BY DEF Frames, Meaning, Taking, Believed, After, Before

LEMMA TailLeaves ==
  ASSUME NEW q \in Seq(Frames), q # <<>>
  PROVE  /\ Len(Tail(q)) = Len(q) - 1 /\ Len(q) \in Nat \ {0} /\ Head(q) = q[1]
         /\ \A i \in 1 .. (Len(q) - 1) : Tail(q)[i] = q[i + 1]
         /\ Tail(q) # <<>> => Head(Tail(q)) = q[2]
         /\ Tail(q) = <<>> <=> Len(q) = 1
<1>1. Len(q) \in Nat \ {0} /\ Head(q) = q[1]
  OBVIOUS
<1>2. /\ Tail(q) \in Seq(Frames) /\ Len(Tail(q)) = Len(q) - 1
      /\ \A i \in 1 .. (Len(q) - 1) : Tail(q)[i] = q[i + 1]
  BY HeadTailProperties
<1>3. Tail(q) = <<>> <=> Len(Tail(q)) = 0
  BY <1>2, EmptySeq
<1>4. Tail(q) # <<>> => Head(Tail(q)) = Tail(q)[1] /\ 1 \in 1 .. (Len(q) - 1)
  BY <1>1, <1>2, <1>3
<1>. QED
  BY <1>1, <1>2, <1>3, <1>4

LEMMA HearingTells ==
  ASSUME Typed, Born, Told, NEW s \in Sessions, ApplyFrame(s)
  PROVE  Told'
<1>. DEFINE f == Head(frames[s])
            n == Len(frames[s])
<1>1. PICK r \in Runs : r = s[1] /\ s = <<r, s[2]>>
  BY DEF Sessions
<1>2. /\ child' = child /\ session' = session /\ frames[s] # <<>>
      /\ frames' = [frames EXCEPT ![s] = Tail(@)] /\ frames[s] \in Seq(Frames)
      /\ frames'[s] = Tail(frames[s]) /\ \A t \in Sessions : t # s => frames'[t] = frames[t]
  BY DEF ApplyFrame, Typed, ChildrenTyped
<1>3. f \in Frames /\ n \in Nat \ {0} /\ f = frames[s][1] /\ child[s].st # "none"
  BY <1>2, TailLeaves DEF Born
<1>4. /\ Len(frames'[s]) = n - 1
      /\ \A i \in 1 .. (n - 1) : frames'[s][i] = frames[s][i + 1]
      /\ frames'[s] # <<>> => Head(frames'[s]) = frames[s][2]
      /\ frames'[s] = <<>> <=> n = 1
  BY <1>2, TailLeaves
<1>5. \A i \in 1 .. n : After(frames[s][i]) = IF i = n THEN child[s].mode ELSE Before(frames[s][i + 1])
  BY DEF Told, InSequence
<1>6. \A t \in Sessions : InSequence(t)'
  <2>. SUFFICES ASSUME NEW t \in Sessions, NEW i \in 1 .. Len(frames'[t])
                PROVE  After(frames'[t][i]) =
                         IF i = Len(frames'[t]) THEN child'[t].mode ELSE Before(frames'[t][i + 1])
    BY DEF InSequence
  <2>1. CASE t # s
    BY <1>2, <2>1 DEF Told, InSequence
  <2>2. CASE t = s
    <3>. HIDE DEF n
    <3>1. i \in 1 .. (n - 1) /\ i + 1 \in 1 .. n /\ (i # n - 1 => i + 1 \in 1 .. (n - 1))
      BY <1>3, <1>4, <2>2
    <3>2. After(frames[s][i + 1]) =
            IF i + 1 = n THEN child[s].mode ELSE Before(frames[s][(i + 1) + 1])
      BY <1>5, <3>1
    <3>3. i = n - 1 <=> i + 1 = n
      BY <1>3, <3>1
    <3>. QED
      BY <1>2, <1>4, <2>2, <3>1, <3>2, <3>3
  <2>. QED
    BY <2>1, <2>2
\* The next frame was sent by what this one says the child did
<1>7. Unheard(s)' = After(f)
  <2>. HIDE DEF n, f
  <2>1. After(f) = IF n = 1 THEN child[s].mode ELSE Before(frames[s][2])
    <3>1. 1 \in 1 .. n /\ 1 + 1 = 2
      BY <1>3
    <3>. QED
      BY <1>3, <1>5, <3>1
  <2>2. CASE n = 1
    <3>1. frames'[s] = <<>>
      BY <1>4, <2>2
    <3>. QED
      BY <1>2, <2>1, <2>2, <3>1 DEF Unheard
  <2>3. CASE n # 1
    <3>1. frames'[s] # <<>> /\ Head(frames'[s]) = frames[s][2]
      BY <1>4, <2>3
    <3>. QED
      BY <2>1, <2>3, <3>1 DEF Unheard
  <2>. QED
    BY <2>2, <2>3
<1>8. \/ /\ session[r] = s[2] /\ Heeds(r, f) /\ state' = [state EXCEPT ![r] = Meaning(f)]
      \/ /\ ~(session[r] = s[2] /\ Heeds(r, f)) /\ state' = state
  <2>1. \/ /\ session[r] = s[2] /\ Heeds(r, f) /\ SetState(r, Meaning(f), FALSE)
        \/ /\ ~(session[r] = s[2] /\ Heeds(r, f)) /\ state' = state
    BY <1>1 DEF ApplyFrame
  <2>. HIDE DEF f
  <2>2. Landed(r, Meaning(f)) = Meaning(f)
    BY <1>3, FramesMean DEF Landed, Taking
  <2>. QED
    BY <2>1, <2>2 DEF SetState
<1>9. \A o \in ops' : o.do = "boot" => o \in ops
  <2>1. ops' = ops \/ ops' = ops \cup Wakes(r, Meaning(f))
    BY <1>1 DEF ApplyFrame
  <2>. HIDE DEF f
  <2>. QED
    BY <2>1, WakesAside DEF Aside
<1>. HIDE DEF f, n
<1>10. ASSUME NEW q \in Runs, ~Unborn(q)', state'[q] \notin Over
       PROVE  ToldBy(q, <<q, session[q]>>)'
  <2>1. ~Unborn(q)
    BY <1>2, <1>10 DEF Unborn
  <2>2. <<q, session[q]>> \in Sessions
    BY <2>1 DEF Unborn, Typed, RowsTyped, Sessions, Gens
  <2>3. CASE <<q, session[q]>> = s
    <3>1. q = r /\ session[r] = s[2]
      BY <1>1, <2>3
    <3>2. state'[r] \in Taking /\ Believed(state'[r]) = After(f)
      <4>1. CASE Heeds(r, f)
        <5>1. state'[r] = Meaning(f)
          BY <1>8, <3>1, <4>1 DEF Typed, RowsTyped
        <5>. QED
          BY <1>3, <5>1, FramesMean
      <4>2. CASE ~Heeds(r, f)
        <5>1. state'[r] = state[r]
          BY <1>8, <4>2
        <5>2. state[r] \in Taking /\ Believed(state[r]) = Before(f)
          <6>1. ToldBy(q, <<q, session[q]>>) /\ Unheard(s) = Before(f)
            BY <1>2, <1>10, <2>1, <3>1, <5>1 DEF Told, Unheard, f
          <6>. QED
            BY <1>3, <2>3, <3>1, <6>1 DEF ToldBy
        <5>3. state[r] = Meaning(f)
          <6>1. state[r] \notin {"None", "Paused"} \cup Over
            BY <5>2 DEF Taking, Over, Ended
          <6>2. state[r] = "Blocked" => f = "Prompt"
            BY <1>3, <5>2, FramesMean DEF Believed
          <6>. QED
            BY <4>2, <6>1, <6>2 DEF Heeds
        <5>. QED
          BY <1>3, <5>1, <5>3, FramesMean
      <4>. QED
        BY <4>1, <4>2
    <3>. QED
      BY <1>2, <1>3, <1>7, <2>3, <3>1, <3>2 DEF ToldBy
  <2>4. CASE <<q, session[q]>> # s
    <3>1. state'[q] = state[q]
      <4>1. q = r => session[r] # s[2]
        BY <1>1, <2>4
      <4>. QED
        BY <1>8, <4>1 DEF Typed, RowsTyped
    <3>2. ToldBy(q, <<q, session[q]>>)
      BY <1>10, <2>1, <3>1 DEF Told
    <3>. QED
      BY <1>2, <2>2, <2>4, <3>1, <3>2 DEF ToldBy, Unheard
  <2>. QED
    BY <2>3, <2>4
<1>11. \A q \in Runs : ~Unborn(q)' /\ state'[q] \notin Over => ToldBy(q, <<q, session[q]>>)'
  BY <1>10
<1>. QED
  BY <1>2, <1>6, <1>9, <1>11 DEF Told

LEMMA EndingHears ==
  ASSUME Typed, Calm, NEW r \in Runs, NEW next \in Ended, NEW clean, Settle(r, next, clean),
         session' = session \/ session' = [session EXCEPT ![r] = 0]
  PROVE  \A q \in Runs : Hears(q)
<1>1. state'[r] \in Over /\ \A q \in Runs : q # r => state'[q] = state[q]
  BY EndingGrows
<1>. QED
  BY <1>1 DEF Hears, Unborn, Typed, RowsTyped

LEMMA StepTells ==
  ASSUME Ordered, Born, Told, Next
  PROVE  Told'
<1>0. /\ Typed /\ Order /\ Passing /\ Calm /\ queues \in [Keys -> Seq(Runs)]
      /\ state \in [Runs -> RunStates] /\ session \in [Runs -> 0 .. MaxGen]
      /\ child \in [Sessions -> Children] /\ \A r \in Runs : frozen[r] = NoFreeze
  BY DEF Ordered, IInv, TypeOK, Typed, RowsTyped, ChildrenTyped, Order, Calm
<1>. DEFINE SameChildren == /\ frames' = frames
                            /\ \A s \in Sessions : /\ child'[s].st = "none" <=> child[s].st = "none"
                                                   /\ child'[s].mode = child[s].mode
            NoNewBoot == \A o \in ops' : o.do = "boot" => o \in ops
\* A step that moves no row, and one that puts an unstarted row in or out of its queue
<1>1. ASSUME state' = state, session' = session, SameChildren, NoNewBoot PROVE Told'
  BY <1>0, <1>1, StillTold DEF Hears
<1>2. ASSUME NEW r \in Runs, NEW to, state' = [state EXCEPT ![r] = to],
             (session' = session /\ Unborn(r)) \/ session' = [session EXCEPT ![r] = 0],
             SameChildren, NoNewBoot
      PROVE  Told'
  <2>1. \A q \in Runs : Hears(q)
    BY <1>0, <1>2 DEF Hears, Unborn
  <2>. QED
    BY <1>0, <1>2, <2>1, StillTold
\* A row ends
<1>3. ASSUME NEW r \in Runs, NEW next \in Ended, NEW clean, Settle(r, next, clean),
             session' = session \/ session' = [session EXCEPT ![r] = 0], SameChildren,
             \A o \in ops' : o \in ops \/ o \in Wakes(r, next) \/ o.do = "kill"
      PROVE  Told'
  <2>1. \A q \in Runs : Hears(q)
    BY <1>0, <1>3, EndingHears
  <2>2. NoNewBoot
    BY <1>3, WakesAside DEF Aside
  <2>. QED
    BY <1>0, <1>3, <2>1, <2>2, StillTold
<1>4. ASSUME NEW r \in Runs, Dispatch(r) PROVE Told'
  <2>1. /\ session' = session /\ frames' = frames /\ child' = child /\ ops' = ops
        /\ state' = [state EXCEPT ![r] = "Queued"] /\ state[r] = "None"
    BY <1>4 DEF Dispatch, procVars
  <2>2. Unborn(r)
    BY <1>0, <2>1 DEF Order, Waits, BeforeAStart
  <2>. QED
    BY <1>2, <2>1, <2>2
<1>5. CASE Admission
  <2>1. CASE PumpVisits
    <3>1. pump.pass # {} /\ pump.pass \in SUBSET Runs
      BY <1>0, <2>1 DEF PumpVisits, Typed, StepsTyped
    <3>2. PICK r \in pump.pass : Admit(r) \/ PassOver(r)
      BY <1>0, <2>1, <3>1, OldestIsThere DEF PumpVisits
    <3>3. session' = session /\ frames' = frames /\ child' = child
      BY <2>1 DEF PumpVisits, procVars
    <3>4. CASE Admit(r)
      <4>1. state' = [state EXCEPT ![r] = "Starting"] /\ ops' = ops \cup {Op("start", r, 0)}
        BY <3>4 DEF Admit
      <4>2. r \in Fronts
        BY <1>0, <3>2 DEF Passing
      <4>3. /\ KeyOf[r] \in Keys /\ queues[KeyOf[r]] \in Seq(Runs) /\ queues[KeyOf[r]] # <<>>
            /\ Head(queues[KeyOf[r]]) = r
        BY <1>0, <4>2, Stamps DEF Fronts, Stamps
      <4>4. 1 \in 1 .. Len(queues[KeyOf[r]]) /\ queues[KeyOf[r]][1] = r
        BY <4>3
      <4>5. Unborn(r)
        BY <1>0, <3>1, <4>3, <4>4 DEF Order, QueuedWait, Waits, BeforeAStart
      <4>6. NoNewBoot
        BY <4>1 DEF Op
      <4>. QED
        BY <1>2, <3>1, <3>3, <4>1, <4>5, <4>6
    <3>5. CASE PassOver(r)
      BY <1>1, <3>3, <3>5 DEF PassOver
    <3>. QED
      BY <3>2, <3>4, <3>5
  <2>2. CASE ~PumpVisits
    BY <1>1, <1>5, <2>2 DEF Admission, PumpStarts, PumpTurns, rowVars, procVars
  <2>. QED
    BY <2>1, <2>2
<1>6. CASE Starts
  <2>1. PICK r \in Runs :
          \/ Bind(r)
          \/ \E g \in Gens : Fork(r, g) \/ BootFails(r, g) \/ AbandonUnsubmitted(r, g)
                           \/ OpeningGivesUp(r, g) \/ OpeningDone(r, g)
          \/ \E g \in 0 .. MaxGen : FinishFailed(r, g)
    BY <1>6 DEF Starts
  <2>2. ASSUME NEW g \in 0 .. MaxGen, FinishFailed(r, g) PROVE Told'
    <3>1. /\ session' = [session EXCEPT ![r] = 0] /\ Settle(r, "Failed", FALSE)
          /\ frames' = frames /\ child' = child
          /\ \A o \in ops' : o \in ops \/ o \in Wakes(r, "Failed") \/ o = Op("kill", r, g)
      BY <2>2 DEF FinishFailed, FailedStart, procVars
    <3>2. Op("kill", r, g).do = "kill" /\ "Failed" \in Ended
      BY DEF Op, Ended
    <3>. QED
      BY <1>3, <3>1, <3>2
  <2>3. ASSUME NEW g \in Gens, AbandonUnsubmitted(r, g) PROVE Told'
    <3>1. /\ session' = [session EXCEPT ![r] = 0] /\ state' = [state EXCEPT ![r] = "Queued"]
          /\ frames' = frames /\ child' = child
          /\ \A o \in ops' : o \in ops \/ o = Op("kill", r, g)
      BY <2>3 DEF AbandonUnsubmitted, procVars
    <3>2. NoNewBoot
      BY <3>1 DEF Op
    <3>. QED
      BY <1>2, <3>1, <3>2
  <2>4. ASSUME NEW g \in Gens, BootFails(r, g) \/ OpeningGivesUp(r, g) \/ OpeningDone(r, g)
        PROVE  Told'
    <3>1. state' = state /\ session' = session /\ frames' = frames /\ child' = child
      BY <2>4 DEF BootFails, OpeningGivesUp, OpeningDone, rowVars, procVars
    <3>2. NoNewBoot
      BY <2>4 DEF BootFails, OpeningGivesUp, OpeningDone, Op
    <3>. QED
      BY <1>1, <3>1, <3>2
  <2>. QED
    BY <1>0, <2>1, <2>2, <2>3, <2>4, BindTells, ForkTells
<1>7. CASE ChildSteps
  <2>1. PICK s \in Sessions :
          \/ ChildReady(s) \/ ChildTakesLine(s) \/ ChildEndsTurn(s)
          \/ ChildAsks(s) \/ ChildAnswered(s) \/ ChildFailsTurn(s)
          \/ \E how \in ExitKinds : ChildExits(s, how)
    BY <1>7 DEF ChildSteps
  <2>2. ASSUME NEW how \in ExitKinds, ChildExits(s, how) PROVE Told'
    <3>1. /\ state' = state /\ session' = session /\ frames' = frames
          /\ child' = [child EXCEPT ![s].st = "gone"] /\ child[s].st # "none"
          /\ ops' = ops \cup {Op(how, s[1], s[2])}
      BY <2>2 DEF ChildExits, Alive, rowVars
    <3>2. SameChildren
      BY <1>0, <3>1 DEF Children
    <3>3. NoNewBoot
      BY <3>1 DEF Op, ExitKinds
    <3>. QED
      BY <1>1, <3>1, <3>2, <3>3
  <2>3. CASE ChildReady(s)
    BY <1>0, <2>3, TurnTells DEF ChildReady, Before, After, Frames
  <2>4. CASE ChildTakesLine(s)
    BY <1>0, <2>4, TurnTells DEF ChildTakesLine, Before, After, Frames
  <2>5. CASE ChildEndsTurn(s)
    BY <1>0, <2>5, TurnTells DEF ChildEndsTurn, Before, After, Frames
  <2>6. CASE ChildAsks(s)
    BY <1>0, <2>6, TurnTells DEF ChildAsks, Before, After, Frames
  <2>7. CASE ChildAnswered(s)
    BY <1>0, <2>7, TurnTells DEF ChildAnswered, Before, After, Frames
  <2>8. CASE ChildFailsTurn(s)
    BY <1>0, <2>8, TurnTells DEF ChildFailsTurn, Before, After, Frames
  <2>. QED
    BY <2>1, <2>2, <2>3, <2>4, <2>5, <2>6, <2>7, <2>8
<1>8. CASE Reactions
  <2>1. PICK s \in Sessions : \/ ApplyFrame(s) \/ ExitRestarts(s) \/ ExitDecided(s)
                             \/ ExternalStop(s) \/ SigStop(s)
    BY <1>8 DEF Reactions
  <2>2. s[1] \in Runs
    BY DEF Sessions
  <2>3. CASE ExitDecided(s)
    <3>1. \/ \E how \in ExitKinds, next \in Ended :
               Settle(s[1], next, how = "exitOk") /\ ops' \subseteq ops \cup Wakes(s[1], next)
          \/ state' = state /\ \A o \in ops' : o \in ops \/ o.do = "external"
      BY <2>3 DEF ExitDecided, Ended, Op
    <3>2. session' = session /\ frames' = frames /\ child' = child
      BY <2>3 DEF ExitDecided, procVars
    <3>. QED
      BY <1>1, <1>3, <2>2, <3>1, <3>2
  <2>4. ~ExitRestarts(s) /\ ~ExternalStop(s) /\ ~SigStop(s)
    BY <1>0 DEF ExitRestarts, RestartsOf, ExternalStop, SigStop, Calm, Op
  <2>. QED
    BY <1>0, <2>1, <2>3, <2>4, HearingTells
<1>9. CASE Stops
  <2>1. PICK r \in Runs :
          \/ \E force \in BOOLEAN : PlanStop(r, force)
          \/ CancelDequeues(r) \/ CancelLands(r) \/ KillLands(r) \/ AskToWindDown(r) \/ GraceRunsOut(r)
    BY <1>9 DEF Stops
  <2>2. CASE CancelLands(r)
    <3>1. /\ session' = session /\ frames' = frames /\ child' = child
          /\ Settle(r, "Cancelled", FALSE) /\ ops' \subseteq ops \cup Wakes(r, "Cancelled")
      BY <2>2 DEF CancelLands, procVars
    <3>2. "Cancelled" \in Ended
      BY DEF Ended
    <3>. QED
      BY <1>3, <3>1, <3>2
  <2>3. CASE ~CancelLands(r)
    <3>1. state' = state /\ session' = session /\ frames' = frames
      BY <2>1, <2>3 DEF PlanStop, CancelDequeues, KillLands, AskToWindDown, GraceRunsOut, rowVars, procVars
    <3>2. SameChildren
      <4>1. \/ child' = child
            \/ \E g \in 0 .. MaxGen :
                 child' = [child EXCEPT ![<<r, g>>].typed = TRUE] \/ Killed(<<r, g>>)
        BY <2>1, <2>3 DEF PlanStop, CancelDequeues, KillLands, AskToWindDown, GraceRunsOut, procVars
      <4>2. PICK x : child' = child \/ child' = [child EXCEPT ![x].typed = TRUE] \/ Killed(x)
        BY <4>1
      <4>. QED
        BY <1>0, <3>1, <4>2, LooksTheSame
    <3>3. NoNewBoot
      <4>1. CASE \E force \in BOOLEAN : PlanStop(r, force)
        <5>1. PICK force \in BOOLEAN : PlanStop(r, force)
          BY <4>1
        <5>2. StopRoute(r, force) \in {"Cancel", "Nothing", "Discard", "Kill", "Ask"}
          BY DEF StopRoute
        <5>3. StopRoute(r, force) # "Nothing" =>
                Op(StopFollows[StopRoute(r, force)], r, session[r]).do # "boot"
          BY <5>2 DEF StopFollows, Op
        <5>. QED
          BY <5>1, <5>3 DEF PlanStop
      <4>2. CASE CancelDequeues(r)
        <5>1. PICK g \in 0 .. MaxGen :
                ops' = (ops \ {Op("dequeue", r, g)}) \cup {Op("cancel", r, g)}
          BY <4>2 DEF CancelDequeues
        <5>2. Op("cancel", r, g).do = "cancel"
          BY DEF Op
        <5>. QED
          BY <5>1, <5>2
      <4>3. CASE KillLands(r)
        BY <4>3 DEF KillLands
      <4>4. CASE AskToWindDown(r)
        <5>1. \A o \in ops' : o \in ops \/ o = Op("grace", r, 0)
          BY <4>4 DEF AskToWindDown
        <5>2. Op("grace", r, 0).do = "grace"
          BY DEF Op
        <5>. QED
          BY <5>1, <5>2
      <4>5. CASE GraceRunsOut(r)
        <5>1. \A o \in ops' : o \in ops \/ o = Op("kill", r, session[r])
          BY <4>5 DEF GraceRunsOut
        <5>2. Op("kill", r, session[r]).do = "kill"
          BY DEF Op
        <5>. QED
          BY <5>1, <5>2
      <4>. QED
        BY <2>1, <2>3, <4>1, <4>2, <4>3, <4>4, <4>5
    <3>. QED
      BY <1>1, <3>1, <3>2, <3>3
  <2>. QED
    BY <2>2, <2>3
<1>10. CASE FollowUps
  <2>1. PICK r \in Runs : FollowUp(r) \/ HeldFollowUp(r) \/ Reserve(r) \/ SendPrompt(r)
    BY <1>10 DEF FollowUps
  <2>2. state' = state /\ session' = session /\ frames' = frames
    BY <2>1 DEF FollowUp, HeldFollowUp, UnchangedByFollowUp, Reserve, SendPrompt, procVars
  <2>3. SameChildren
    <3>1. child' = child \/ \E g \in Gens : child' = [child EXCEPT ![<<r, g>>].typed = TRUE]
      BY <2>1 DEF FollowUp, HeldFollowUp, UnchangedByFollowUp, Reserve, SendPrompt, procVars
    <3>2. PICK x : child' = child \/ child' = [child EXCEPT ![x].typed = TRUE] \/ Killed(x)
      BY <3>1
    <3>. QED
      BY <1>0, <2>2, <3>2, LooksTheSame
  <2>4. NoNewBoot
    <3>1. CASE PlanFollowUp(r)
      BY <3>1 DEF PlanFollowUp, Op
    <3>2. CASE HeldFollowUp(r) /\ ~PlanFollowUp(r)
      BY <3>2 DEF HeldFollowUp
    <3>3. CASE Reserve(r)
      BY <3>3 DEF Reserve, Op
    <3>4. CASE SendPrompt(r)
      BY <3>4 DEF SendPrompt
    <3>. QED
      BY <2>1, <3>1, <3>2, <3>3, <3>4 DEF FollowUp
  <2>. QED
    BY <1>1, <2>2, <2>3, <2>4
<1>11. ~Pauses
  BY <1>0 DEF Pauses, PauseRun, PauseProject, Spend, Calm
<1>12. CASE Resumes
  <2>1. ops' = ops /\ frames' = frames
    BY <1>12 DEF Resumes, Resume, ResumePlans, ReclaimTakesLock, ReclaimSlot, PlanRestarts, SigCont,
                FinishThaws, EndOldChildren, RequeueTakesLock, RequeueOne, ResumeDone, procVars
  <2>2. CASE \E r \in Runs : RequeueOne(r)
    <3>1. PICK r \in Runs : RequeueOne(r)
      BY <2>2
    <3>2. /\ <<r, 0>> \in resume.todo /\ session' = session /\ child' = child
          /\ state' = state \/ state' = [state EXCEPT ![r] = "Queued"]
      BY <3>1 DEF RequeueOne, procVars
    <3>3. Unborn(r)
      BY <1>0, <3>2 DEF Order, Resuming, Waits, BeforeAStart
    <3>. QED
      BY <1>1, <1>2, <2>1, <3>2, <3>3
  <2>3. CASE PlanRestarts
    <3>1. PICK S \in SUBSET {s \in resume.thaws : /\ frozen[s[1]] # NoFreeze /\ session[s[1]] = s[2]
                                                 /\ ForkedHere(s[1]) /\ minted[s[1]] < MaxGen} :
            LET R == {s[1] : s \in S} IN
            /\ session' = [r \in Runs |-> IF r \in R THEN minted[r] + 1 ELSE session[r]]
            /\ state' = [r \in Runs |-> IF r \in R THEN "Starting" ELSE state[r]]
      BY <2>3 DEF PlanRestarts
    <3>2. \A s \in resume.thaws : s[1] \in Runs
      BY <1>0 DEF Typed, StepsTyped, Sessions
    <3>3. S = {}
      BY <1>0, <3>2
    <3>4. session' = session /\ state' = state /\ child' = child
      BY <1>0, <2>3, <3>1, <3>3 DEF PlanRestarts
    <3>. QED
      BY <1>1, <2>1, <3>4
  <2>4. CASE FinishThaws
    <3>1. state' = state /\ session' = session /\ child' = child
      BY <1>0, <2>4 DEF FinishThaws, procVars
    <3>. QED
      BY <1>1, <2>1, <3>1
  <2>5. CASE SigCont \/ EndOldChildren
    <3>1. state' = state /\ session' = session
      BY <2>5 DEF SigCont, EndOldChildren, rowVars
    <3>2. SameChildren
      <4>1. CASE SigCont
        BY <1>0, <2>1, <4>1 DEF SigCont, Children
      <4>2. CASE EndOldChildren
        BY <1>0, <2>1, <4>2 DEF EndOldChildren, HungUp, Children
      <4>. QED
        BY <2>5, <4>1, <4>2
    <3>. QED
      BY <1>1, <2>1, <3>1, <3>2
  <2>6. ~ReclaimSlot
    BY <1>0 DEF ReclaimSlot, Order, Resuming
  <2>7. CASE Resume \/ ReclaimTakesLock \/ RequeueTakesLock \/ ResumeDone
    BY <1>1, <2>1, <2>7 DEF Resume, ResumePlans, ReclaimTakesLock, RequeueTakesLock, ResumeDone,
                           rowVars, procVars
  <2>. QED
    BY <1>12, <2>2, <2>3, <2>4, <2>5, <2>6, <2>7 DEF Resumes
<1>. QED
  BY <1>4, <1>5, <1>6, <1>7, <1>8, <1>9, <1>10, <1>11, <1>12 DEF Next

LEMMA InitTells == Init => Told
<1>. SUFFICES ASSUME Init PROVE Told
  OBVIOUS
<1>1. \A s \in Sessions : InSequence(s)
  BY DEF Init, InSequence
<1>2. \A r \in Runs : Unborn(r)
  BY DEF Init, Unborn, Ghost
<1>. QED
  BY <1>1, <1>2 DEF Init, Told

LEMMA NextTells ==
  ASSUME Ordered, Born, Told, [Next]_vars
  PROVE  Told'
<1>1. CASE UNCHANGED vars
  <2>1. UNCHANGED <<state, session, frames, child, ops>>
    BY <1>1 DEF vars, rowVars, procVars
  <2>. QED
    BY <2>1 DEF Told, InSequence, ToldBy, Unheard, Unborn
<1>. QED
  BY <1>1, StepTells

\* Once its frames are heard and nothing of it is in progress, a row says what its live
\* child does.  Every frame is heard in the order it was sent and by its own run only,
\* whatever a failed turn, a permission, a follow-up, a Stop or the run's next child does
\* meanwhile (note_hook, observe), so no row is left Running over an idle child.
THEOREM RowsMatchTheirChildren == ASSUME Undisturbed PROVE Spec => []RowMatchesChild
<1>. DEFINE Heard == Ordered /\ Born /\ Woken /\ Told
<1>1. Init => Heard
  BY InitOrdered, InitWakes, InitTells
<1>2. Heard /\ [Next]_vars => Heard'
  BY NextOrdered, StepWakes, NextTells DEF Undisturbed
<1>3. Heard => RowMatchesChild
  <2>. SUFFICES ASSUME Heard, NEW r \in Runs, Quiet(r), HasLiveChild(r),
                       state[r] \notin Over \cup {"Paused"}
                PROVE  state[r] = "Running" <=> child[<<r, session[r]>>].mode = "busy"
    BY DEF RowMatchesChild
  <2>1. ~Unborn(r)
    BY DEF HasLiveChild, Unborn, Ghost, Ordered, Order, Ghosts
  <2>2. session[r] \in Gens
    BY <2>1 DEF Unborn, Ordered, IInv, TypeOK, RowsTyped, Gens
  <2>3. ToldBy(r, <<r, session[r]>>) /\ frames[<<r, session[r]>>] = <<>>
    BY <2>1, <2>2 DEF Told, Quiet
  <2>4. state[r] \in Taking /\ Believed(state[r]) = child[<<r, session[r]>>].mode
    BY <2>3 DEF ToldBy, HasLiveChild, Unheard
  <2>. QED
    BY <2>4 DEF Taking, Believed
<1>. QED
  BY <1>1, <1>2, <1>3, PTL DEF Spec


------------------------------------------------------------------------------
(* One checkout, one child that stays *)

KillDue(s) == Op("kill", s[1], s[2]) \in ops

\* Whatever child the run has is one that somebody is about to kill.
Left(r) == \A s \in Sessions : s[1] = r /\ child[s].st = "live" => KillDue(s)

\* A row that may keep its child: it holds the pair, or was cancelled in its queue
\* while its start was under way.
MayKeep(x) == HoldsAPair(x) \/ x = "Cancelled"

\* What is still to be done for a run suits the child it has.
Suits(o) ==
    /\ o.do = "giveUp" => \A s \in Sessions : s[1] = o.run /\ child[s].st = "live" =>
                              s[2] = o.gen \/ KillDue(s)
    /\ o.do \in {"start", "boot"} => state[o.run] \notin Over \ {"Cancelled"} /\ Left(o.run)
    /\ o.do = "boot" => session[o.run] = o.gen
    /\ o.do \in Exits => o.gen # 0 /\ child[<<o.run, o.gen>>].st = "gone"

\* A child is about to be killed, or is its run's present one.
Lone ==
    /\ \A o \in ops : Suits(o)
    /\ \A s \in Sessions : child[s].st = "live" =>
           KillDue(s) \/ (session[s[1]] = s[2] /\ MayKeep(state[s[1]]))

\* A step that leaves a run its child, and its pair
Keeps(r) == /\ session'[r] = session[r]
            /\ state'[r] = state[r] \/ MayKeep(state'[r])

LEMMA StillLone ==
  ASSUME Typed, Lone,
         \A s \in Sessions :
            /\ child'[s].st = "live" => child[s].st = "live" /\ (KillDue(s) => KillDue(s)')
            /\ child[s].st = "gone" => child'[s].st = "gone",
         \A r \in Runs : Keeps(r) \/ Left(r)',
         \A o \in ops' : \/ Suits(o)'
                         \/ o \in ops /\ (o.do \in {"start", "boot"} => Keeps(o.run))
  PROVE  Lone'
<1>0. \A s \in Sessions : s[1] \in Runs
  BY DEF Sessions
<1>1. ASSUME NEW s \in Sessions, child'[s].st = "live"
      PROVE  KillDue(s)' \/ (session'[s[1]] = s[2] /\ MayKeep(state'[s[1]]))
  <2>1. child[s].st = "live" /\ (KillDue(s) => KillDue(s)')
    BY <1>1
  <2>2. CASE Left(s[1])'
    BY <1>1, <2>2 DEF Left
  <2>3. CASE Keeps(s[1])
    BY <2>1, <2>3 DEF Lone, Keeps
  <2>. QED
    BY <1>0, <2>2, <2>3
<1>2. ASSUME NEW o \in ops', o \in ops, o.do \in {"start", "boot"} => Keeps(o.run) PROVE Suits(o)'
  <2>1. Suits(o) /\ o.run \in Runs /\ o.gen \in 0 .. MaxGen
    BY <1>2 DEF Lone, Typed, StepsTyped, Ops
  <2>2. ASSUME o.do = "giveUp", NEW s \in Sessions, s[1] = o.run, child'[s].st = "live"
        PROVE  s[2] = o.gen \/ KillDue(s)'
    BY <2>1, <2>2 DEF Suits
  <2>3. ASSUME o.do \in {"start", "boot"} PROVE state'[o.run] \notin Over \ {"Cancelled"} /\ Left(o.run)'
    <3>1. Left(o.run)'
      BY <2>1, <2>3 DEF Suits, Left
    <3>. QED
      BY <1>2, <2>1, <2>3, <3>1 DEF Suits, Keeps, MayKeep, HoldsAPair
  <2>4. o.do = "boot" => session'[o.run] = o.gen
    BY <1>2, <2>1 DEF Suits, Keeps
  <2>5. o.do \in Exits => o.gen # 0 /\ child'[<<o.run, o.gen>>].st = "gone"
    <3>1. o.gen # 0 => <<o.run, o.gen>> \in Sessions
      BY <2>1 DEF Sessions, Gens
    <3>. QED
      BY <2>1, <3>1 DEF Suits
  <2>. QED
    BY <2>2, <2>3, <2>4, <2>5 DEF Suits
<1>. QED
  BY <1>1, <1>2 DEF Lone

LEMMA AsideSuits ==
  ASSUME NEW o, o.do \in Aside
  PROVE  Suits(o)'
BY DEF Suits, Aside, Exits

\* A child that is started is the only one its run has.
LEMMA ForkIsLone ==
  ASSUME Typed, Order, Told, Lone, NEW r \in Runs, NEW g \in Gens, Fork(r, g)
  PROVE  Lone'
<1>0. /\ Op("boot", r, g) \in ops /\ <<r, g>> \in Sessions
      /\ child \in [Sessions -> Children] /\ budget' = budget
      /\ state' = state /\ session' = session
      /\ \A o \in ops' : o \in ops \/ o = Op("opening", r, g)
      /\ \A o \in ops' : o # Op("boot", r, g)
      /\ \A o \in ops : o \in ops' \/ o = Op("boot", r, g)
  BY DEF Fork, Typed, ChildrenTyped, Sessions, rowVars, Op
<1>1. Op("boot", r, g).do = "boot" /\ Op("boot", r, g).run = r /\ Op("boot", r, g).gen = g
  BY DEF Op
<1>2. /\ session[r] = g /\ MayKeep(state[r]) /\ child[<<r, g>>].st = "none"
      /\ \A o \in ops : o.do \in Chain /\ o.run = r => o = Op("boot", r, g)
  <2>1. Suits(Op("boot", r, g)) /\ child[<<r, g>>].st = "none"
    BY <1>0, <1>1 DEF Lone, Told
  <2>2. \A o \in ops : o.do \in Chain /\ o.run = r => o = Op("boot", r, g)
    BY <1>0, <1>1 DEF Order, OneStart, Chain
  <2>3. state[r] \notin BeforeAStart
    BY <1>0, <1>1 DEF Order, OneStart, Chain
  <2>. QED
    BY <1>1, <2>1, <2>2, <2>3 DEF Suits, MayKeep, HoldsAPair, BeforeAStart
<1>3. /\ \A s \in Sessions : s # <<r, g>> => child'[s] = child[s]
      /\ \A s \in Sessions : KillDue(s) => KillDue(s)'
  <2>1. \A s \in Sessions : Op("kill", s[1], s[2]) # Op("boot", r, g)
    BY DEF Op
  <2>. QED
    BY <1>0, <2>1 DEF Fork, KillDue
<1>4. ASSUME NEW s \in Sessions, child'[s].st = "live"
      PROVE  KillDue(s)' \/ (session'[s[1]] = s[2] /\ MayKeep(state'[s[1]]))
  <2>1. CASE s = <<r, g>>
    BY <1>0, <1>2, <2>1
  <2>2. CASE s # <<r, g>>
    BY <1>0, <1>3, <1>4, <2>2 DEF Lone
  <2>. QED
    BY <2>1, <2>2
<1>5. ASSUME NEW o \in ops' PROVE Suits(o)'
  <2>1. CASE o = Op("opening", r, g)
    BY <2>1 DEF Suits, Op, Exits
  <2>2. CASE o \in ops
    <3>1. Suits(o) /\ o.run \in Runs /\ o.gen \in 0 .. MaxGen
      BY <2>2 DEF Lone, Typed, StepsTyped, Ops
    <3>2. o.do \in Chain => o.run # r
      BY <1>0, <1>2, <2>2, <1>5
    <3>3. o.do = "giveUp" => \A s \in Sessions : s[1] = o.run /\ child'[s].st = "live" =>
                                s[2] = o.gen \/ KillDue(s)'
      BY <1>3, <3>1, <3>2 DEF Suits, Chain
    <3>5. o.do \in {"start", "boot"} => Left(o.run)'
      BY <1>3, <3>1, <3>2 DEF Suits, Chain, Left
    <3>4. o.do \in Exits => o.gen # 0 /\ child'[<<o.run, o.gen>>].st = "gone"
      <4>1. o.gen # 0 => <<o.run, o.gen>> \in Sessions
        BY <3>1 DEF Sessions, Gens
      <4>2. o.do \in Exits => o.gen # 0 /\ child[<<o.run, o.gen>>].st = "gone"
        BY <3>1 DEF Suits
      <4>. QED
        BY <1>2, <1>3, <4>1, <4>2
    <3>. QED
      BY <1>0, <3>1, <3>3, <3>4, <3>5 DEF Suits
  <2>. QED
    BY <1>0, <1>5, <2>1, <2>2
<1>. QED
  BY <1>0, <1>4, <1>5 DEF Lone

\* A run ends whose child is gone, was never started, or is about to be killed.
LEMMA EndIsLone ==
  ASSUME Typed, Order, Lone, NEW r \in Runs, NEW next \in Ended, NEW clean, Settle(r, next, clean),
         session' = session \/ session' = [session EXCEPT ![r] = 0],
         child' = child, \A o \in ops : o.do = "kill" => o \in ops',
         \A o \in ops' : o \in ops \/ o.do \in Aside,
         Left(r)', \A o \in ops' : o.run = r => o.do \notin {"start", "boot"}
  PROVE  Lone'
<1>1. \A q \in Runs : q # r => state'[q] = state[q]
  BY EndingGrows DEF Order
<1>2. session \in [Runs -> 0 .. MaxGen]
  BY DEF Typed, RowsTyped
<1>3. \A q \in Runs : q # r => Keeps(q)
  BY <1>1, <1>2 DEF Keeps
<1>4. \A o \in ops : o.run \in Runs
  BY DEF Typed, StepsTyped, Ops
<1>5. \A o \in ops' : Suits(o)' \/ (o \in ops /\ (o.do \in {"start", "boot"} => Keeps(o.run)))
  BY <1>3, <1>4, AsideSuits
<1>6. \A s : KillDue(s) => KillDue(s)'
  BY DEF KillDue, Op
<1>7. \A q \in Runs : Keeps(q) \/ Left(q)'
  BY <1>3
<1>. QED
  BY <1>5, <1>6, <1>7, StillLone

LEMMA StartsAreLone ==
  ASSUME Typed, Order, Told, Lone, Starts
  PROVE  Lone'
<1>0. /\ session \in [Runs -> 0 .. MaxGen] /\ minted \in [Runs -> 0 .. MaxGen]
      /\ state \in [Runs -> RunStates]
      /\ \A o \in ops : o.run \in Runs
      /\ \A s \in Sessions : s[1] \in Runs /\ s[2] \in Gens /\ s = <<s[1], s[2]>>
  BY DEF Typed, RowsTyped, ChildrenTyped, StepsTyped, Ops, Sessions
<1>1. PICK r \in Runs :
        \/ Bind(r)
        \/ \E g \in Gens : Fork(r, g) \/ BootFails(r, g) \/ AbandonUnsubmitted(r, g)
                         \/ OpeningGivesUp(r, g) \/ OpeningDone(r, g)
        \/ \E g \in 0 .. MaxGen : FinishFailed(r, g)
  BY DEF Starts
\* What one of these steps takes off the list is not a kill.
<1>2. ASSUME NEW o1, o1.do # "kill", \A o \in ops : o \in ops' \/ o = o1
      PROVE  \A s : KillDue(s) => KillDue(s)'
  BY <1>2 DEF KillDue, Op
<1>3. ASSUME Bind(r) PROVE Lone'
  <2>0. PICK n : n = minted[r] + 1
    OBVIOUS
  <2>. DEFINE o1 == Op("start", r, 0)
              o2 == Op("boot", r, n)
  <2>1. /\ o1 \in ops /\ o1.do = "start" /\ o1.run = r
        /\ o2.do = "boot" /\ o2.run = r /\ o2.gen = n
        /\ session' = [session EXCEPT ![r] = n]
        /\ state' = state /\ child' = child
        /\ ops' = (ops \ {o1}) \cup {o2}
    BY <1>0, <1>3, <2>0 DEF Bind, Op
  <2>. HIDE DEF o1, o2
  <2>2. Suits(o1) /\ \A o \in ops : o.do \in Chain /\ o.run = r => o = o1
    BY <2>1 DEF Lone, Order, OneStart, Chain
  <2>3. \A s : KillDue(s) => KillDue(s)'
    BY <1>2, <2>1
  <2>4. Left(r)'
    BY <2>1, <2>2, <2>3 DEF Suits, Left
  <2>5. Suits(o2)'
    <3>1. state[r] \notin Over \ {"Cancelled"}
      BY <2>1, <2>2 DEF Suits
    <3>2. session'[r] = n
      BY <1>0, <2>1
    <3>. QED
      BY <2>1, <2>4, <3>1, <3>2 DEF Suits, Exits
  <2>6. \A q \in Runs : q # r => Keeps(q)
    BY <1>0, <2>1 DEF Keeps
  <2>7. \A o \in ops' : Suits(o)' \/ (o \in ops /\ (o.do \in {"start", "boot"} => Keeps(o.run)))
    BY <1>0, <2>1, <2>2, <2>5, <2>6 DEF Chain
  <2>8. \A q \in Runs : Keeps(q) \/ Left(q)'
    BY <2>4, <2>6
  <2>. QED
    BY <2>1, <2>3, <2>7, <2>8, StillLone
<1>4. ASSUME NEW g \in Gens, BootFails(r, g) PROVE Lone'
  <2>. DEFINE o1 == Op("boot", r, g)
              o2 == Op("giveUp", r, 0)
  <2>1. /\ o1 \in ops /\ o1.do = "boot" /\ o1.run = r /\ o1.gen = g
        /\ o2.do = "giveUp" /\ o2.run = r
        /\ session' = session /\ state' = state /\ child' = child
        /\ ops' = (ops \ {o1}) \cup {o2}
    BY <1>4 DEF BootFails, rowVars, procVars, Op
  <2>. HIDE DEF o1, o2
  <2>2. \A s : KillDue(s) => KillDue(s)'
    BY <1>2, <2>1
  <2>3. Left(r)'
    BY <2>1, <2>2 DEF Lone, Suits, Left
  <2>4. Suits(o2)'
    BY <2>1, <2>3 DEF Suits, Exits, Left
  <2>5. \A q \in Runs : Keeps(q)
    BY <2>1 DEF Keeps
  <2>6. \A o \in ops' : Suits(o)' \/ (o \in ops /\ (o.do \in {"start", "boot"} => Keeps(o.run)))
    BY <1>0, <2>1, <2>4, <2>5
  <2>. QED
    BY <2>1, <2>2, <2>5, <2>6, StillLone
<1>5. ASSUME NEW g \in Gens, OpeningDone(r, g) PROVE Lone'
  <2>. DEFINE o1 == Op("opening", r, g)
  <2>1. /\ session' = session /\ state' = state /\ child' = child
        /\ ops' = ops \ {o1} /\ o1.do = "opening"
    BY <1>5 DEF OpeningDone, rowVars, procVars, Op
  <2>. HIDE DEF o1
  <2>2. \A s : KillDue(s) => KillDue(s)'
    BY <1>2, <2>1
  <2>3. \A q : Keeps(q)
    BY <2>1 DEF Keeps
  <2>. QED
    BY <2>1, <2>2, <2>3, StillLone
\* The opening that gives up, or is tried again, was that of the run's present child.
<1>6. ASSUME NEW g \in Gens, OpeningNeverTook(r, g), NEW s \in Sessions, s[1] = r, child[s].st = "live"
      PROVE  s[2] = g \/ KillDue(s)
  BY <1>6 DEF OpeningNeverTook, Lone
<1>7. ASSUME NEW g \in Gens, OpeningGivesUp(r, g) PROVE Lone'
  <2>. DEFINE o1 == Op("opening", r, g)
              o2 == Op("giveUp", r, g)
  <2>1. /\ o1.do = "opening" /\ o2.do = "giveUp" /\ o2.run = r /\ o2.gen = g
        /\ OpeningNeverTook(r, g)
        /\ session' = session /\ state' = state /\ child' = child
        /\ ops' = (ops \ {o1}) \cup {o2}
    BY <1>7 DEF OpeningGivesUp, rowVars, procVars, Op
  <2>. HIDE DEF o1, o2
  <2>2. \A s : KillDue(s) => KillDue(s)'
    BY <1>2, <2>1
  <2>3. Suits(o2)'
    BY <1>6, <2>1, <2>2 DEF Suits, Exits
  <2>4. \A q \in Runs : Keeps(q)
    BY <2>1 DEF Keeps
  <2>5. \A o \in ops' : Suits(o)' \/ (o \in ops /\ (o.do \in {"start", "boot"} => Keeps(o.run)))
    BY <1>0, <2>1, <2>3, <2>4
  <2>. QED
    BY <2>1, <2>2, <2>4, <2>5, StillLone
<1>8. ASSUME NEW g \in Gens, AbandonUnsubmitted(r, g) PROVE Lone'
  <2>. DEFINE o1 == Op("opening", r, g)
              o2 == Op("kill", r, g)
  <2>1. /\ o1 \in ops /\ o1.do = "opening" /\ o1.run = r /\ o2.do = "kill" /\ o2.run = r
        /\ OpeningNeverTook(r, g)
        /\ session' = [session EXCEPT ![r] = 0] /\ state' = [state EXCEPT ![r] = "Queued"]
        /\ child' = child
        /\ ops' = (ops \ {o1}) \cup {o2}
    BY <1>8 DEF AbandonUnsubmitted, procVars, Op
  <2>2. KillDue(<<r, g>>)'
    BY <2>1 DEF KillDue
  <2>. HIDE DEF o1, o2
  <2>3. \A s : KillDue(s) => KillDue(s)'
    BY <1>2, <2>1
  <2>4. Left(r)'
    <3>. SUFFICES ASSUME NEW s \in Sessions, s[1] = r, child[s].st = "live" PROVE KillDue(s)'
      BY <2>1 DEF Left
    <3>1. s[2] = g \/ KillDue(s)
      BY <1>6, <2>1
    <3>. QED
      BY <1>0, <2>2, <2>3, <3>1
  <2>5. \A o \in ops : o.do \in Chain /\ o.run = r => o = o1
    BY <2>1 DEF Order, OneStart, Chain
  <2>6. \A q \in Runs : q # r => Keeps(q)
    BY <1>0, <2>1 DEF Keeps
  <2>7. \A o \in ops' : Suits(o)' \/ (o \in ops /\ (o.do \in {"start", "boot"} => Keeps(o.run)))
    <3>1. Suits(o2)'
      BY <2>1, AsideSuits DEF Aside
    <3>. QED
      BY <1>0, <2>1, <2>5, <2>6, <3>1 DEF Chain
  <2>8. \A q \in Runs : Keeps(q) \/ Left(q)'
    BY <2>4, <2>6
  <2>. QED
    BY <2>1, <2>3, <2>7, <2>8, StillLone
<1>9. ASSUME NEW g \in 0 .. MaxGen, FinishFailed(r, g) PROVE Lone'
  <2>. DEFINE o1 == Op("giveUp", r, g)
  <2>1. /\ o1 \in ops /\ o1.do = "giveUp" /\ o1.run = r /\ o1.gen = g
        /\ session' = [session EXCEPT ![r] = 0] /\ Settle(r, "Failed", FALSE)
        /\ child' = child
        /\ \A o \in ops' : o \in ops \ {o1} \/ o \in Wakes(r, "Failed") \/ o = Op("kill", r, g)
        /\ \A o \in ops : o \in ops' \/ o = o1
        /\ g # 0 => Op("kill", r, g) \in ops'
    BY <1>9 DEF FinishFailed, FailedStart, procVars, Op
  <2>. HIDE DEF o1
  <2>2. \A s : KillDue(s) => KillDue(s)'
    BY <1>2, <2>1
  <2>3. Left(r)'
    <3>. SUFFICES ASSUME NEW s \in Sessions, s[1] = r, child[s].st = "live" PROVE KillDue(s)'
      BY <2>1 DEF Left
    <3>1. s[2] = g \/ KillDue(s)
      BY <2>1 DEF Lone, Suits
    <3>2. s[2] # 0
      BY <1>0 DEF Gens
    <3>. QED
      BY <2>1, <2>2, <3>1, <3>2 DEF KillDue
  <2>4. \A o \in ops : o.do \in Chain /\ o.run = r => o = o1
    BY <2>1 DEF Order, OneStart, Chain
  <2>5. Op("kill", r, g).do = "kill" /\ "Failed" \in Ended
    BY DEF Op, Ended
  <2>6. \A o \in ops' : o \in ops \/ o.do \in Aside
    BY <2>1, <2>5, WakesAside DEF Aside
  <2>7. \A o \in ops' : o.run = r => o.do \notin {"start", "boot"}
    BY <2>1, <2>4, <2>6 DEF Aside, Chain
  <2>8. \A o \in ops : o.do = "kill" => o \in ops'
    BY <2>1
  <2>. QED
    BY <2>1, <2>3, <2>5, <2>6, <2>7, <2>8, EndIsLone
<1>. QED
  BY <1>1, <1>3, <1>4, <1>5, <1>7, <1>8, <1>9, ForkIsLone

LEMMA StepIsLone ==
  ASSUME Ordered, Born, Told, Lone, Next
  PROVE  Lone'
<1>0. /\ Typed /\ Order /\ Passing /\ Calm /\ queues \in [Keys -> Seq(Runs)]
      /\ state \in [Runs -> RunStates] /\ session \in [Runs -> 0 .. MaxGen]
      /\ child \in [Sessions -> Children] /\ \A r \in Runs : frozen[r] = NoFreeze
      /\ \A o \in ops : o.run \in Runs
  BY DEF Ordered, IInv, TypeOK, Typed, RowsTyped, StepsTyped, Ops, ChildrenTyped, Order, Calm, Lone
<1>. DEFINE SameChildren == \A s \in Sessions :
                              /\ child'[s].st = "live" => child[s].st = "live"
                              /\ child[s].st = "gone" => child'[s].st = "gone"
            KillsStay == \A o \in ops : o.do = "kill" => o \in ops'
\* A step that leaves all runs their children, their pairs and what is to be killed
<1>1. ASSUME SameChildren, KillsStay, \A r \in Runs : Keeps(r),
             \A o \in ops' : o \in ops \/ o.do \in Aside \/ Suits(o)'
      PROVE  Lone'
  <2>1. \A s : KillDue(s) => KillDue(s)'
    BY <1>1 DEF KillDue, Op
  <2>. QED
    BY <1>0, <1>1, <2>1, StillLone, AsideSuits
<1>2. ASSUME NEW r \in Runs, Dispatch(r) PROVE Lone'
  <2>1. /\ session' = session /\ child' = child /\ ops' = ops
        /\ state' = [state EXCEPT ![r] = "Queued"]
    BY <1>2 DEF Dispatch, procVars
  <2>2. \A q \in Runs : Keeps(q)
    BY <1>0, <2>1 DEF Keeps, MayKeep, HoldsAPair, Over, Ended
  <2>. QED
    BY <1>1, <2>1, <2>2
<1>3. CASE Admission
  <2>1. CASE PumpVisits
    <3>1. pump.pass # {} /\ pump.pass \in SUBSET Runs
      BY <1>0, <2>1 DEF PumpVisits, Typed, StepsTyped
    <3>2. PICK r \in pump.pass : Admit(r) \/ PassOver(r)
      BY <1>0, <2>1, <3>1, OldestIsThere DEF PumpVisits
    <3>3. session' = session /\ child' = child /\ budget' = budget
      BY <2>1 DEF PumpVisits, procVars
    <3>4. CASE Admit(r)
      <4>1. state' = [state EXCEPT ![r] = "Starting"] /\ ops' = ops \cup {Op("start", r, 0)}
        BY <3>4 DEF Admit
      <4>2. \A q \in Runs : Keeps(q)
        BY <1>0, <3>3, <4>1 DEF Keeps, MayKeep, HoldsAPair, Over, Ended
      <4>3. state'[r] \notin Over \ {"Cancelled"}
        BY <1>0, <3>1, <4>1 DEF Over, Ended
      <4>4. Left(r)'
        <5>. SUFFICES ASSUME NEW s \in Sessions, s[1] = r, child[s].st = "live" PROVE KillDue(s)'
          BY <3>3 DEF Left
        <5>1. state[r] = "Queued"
          <6>1. r \in Fronts /\ r \in Runs /\ KeyOf[r] \in Keys
            BY <1>0, <3>1, Stamps DEF Passing
          <6>2. queues[KeyOf[r]] \in Seq(Runs) /\ queues[KeyOf[r]] # <<>> /\ Head(queues[KeyOf[r]]) = r
            BY <1>0, <6>1 DEF Fronts
          <6>3. 1 \in 1 .. Len(queues[KeyOf[r]]) /\ queues[KeyOf[r]][1] = r
            BY <6>2
          <6>. QED
            BY <1>0, <6>1, <6>3 DEF Order, QueuedWait
        <5>2. Unborn(r)
          BY <1>0, <3>1, <5>1 DEF Order, Waits, BeforeAStart
        <5>3. KillDue(s) \/ session[r] = s[2]
          BY DEF Lone
        <5>4. s[2] \in Gens /\ s = <<r, s[2]>>
          BY DEF Sessions
        <5>5. KillDue(s)
          BY <1>0, <3>1, <5>2, <5>3, <5>4 DEF Unborn, Ghost, Gens, Order, Ghosts
        <5>. QED
          BY <4>1, <5>5 DEF KillDue
      <4>5. Suits(Op("start", r, 0))'
        BY <4>3, <4>4 DEF Suits, Op, Exits
      <4>. QED
        BY <1>0, <1>1, <3>3, <4>1, <4>2, <4>5
    <3>5. CASE PassOver(r)
      <4>1. state' = state /\ ops' = ops
        BY <3>5 DEF PassOver
      <4>. QED
        BY <1>0, <1>1, <3>3, <4>1 DEF Keeps
    <3>. QED
      BY <3>2, <3>4, <3>5
  <2>2. CASE ~PumpVisits
    <3>1. state' = state /\ session' = session /\ child' = child /\ ops' = ops
      BY <1>3, <2>2 DEF Admission, PumpStarts, PumpTurns, rowVars, procVars
    <3>. QED
      BY <1>0, <1>1, <3>1 DEF Keeps
  <2>. QED
    BY <2>1, <2>2
<1>4. CASE ChildSteps
  <2>1. PICK s \in Sessions :
          \/ ChildReady(s) \/ ChildTakesLine(s) \/ ChildEndsTurn(s)
          \/ ChildAsks(s) \/ ChildAnswered(s) \/ ChildFailsTurn(s)
          \/ \E how \in ExitKinds : ChildExits(s, how)
    BY <1>4 DEF ChildSteps
  <2>2. ASSUME NEW how \in ExitKinds, ChildExits(s, how) PROVE Lone'
    <3>1. /\ state' = state /\ session' = session
          /\ child' = [child EXCEPT ![s].st = "gone"] /\ s[2] # 0 /\ s = <<s[1], s[2]>>
          /\ ops' = ops \cup {Op(how, s[1], s[2])}
      BY <1>0, <2>2 DEF ChildExits, rowVars, Sessions, Gens
    <3>2. SameChildren /\ child'[s].st = "gone"
      BY <1>0, <3>1 DEF Children
    <3>3. Suits(Op(how, s[1], s[2]))'
      BY <3>1, <3>2 DEF Suits, Op, ExitKinds
    <3>. QED
      BY <1>1, <3>1, <3>2, <3>3 DEF Keeps
  <2>3. ASSUME NEW from, NEW to, NEW f, Turn(s, from, to, f) PROVE Lone'
    <3>1. /\ state' = state /\ session' = session /\ ops' = ops
          /\ child' = [child EXCEPT ![s].mode = to, ![s].typed = @ /\ f # "Prompt"]
      BY <2>3 DEF Turn, rowVars
    <3>2. \A t \in Sessions : child'[t].st = child[t].st
      BY <1>0, <3>1 DEF Children
    <3>. QED
      BY <1>1, <2>3, <3>1, <3>2 DEF Keeps
  <2>. QED
    BY <2>1, <2>2, <2>3 DEF ChildReady, ChildTakesLine, ChildEndsTurn, ChildAsks, ChildAnswered,
                                  ChildFailsTurn
<1>5. CASE Reactions
  <2>1. PICK s \in Sessions : \/ ApplyFrame(s) \/ ExitRestarts(s) \/ ExitDecided(s)
                             \/ ExternalStop(s) \/ SigStop(s)
    BY <1>5 DEF Reactions
  <2>2. s[1] \in Runs /\ s[2] \in Gens /\ s = <<s[1], s[2]>>
    BY DEF Sessions
  <2>3. ASSUME NEW how \in ExitKinds, NEW next \in Ended, ExitDecided(s),
               Op(how, s[1], s[2]) \in ops, session[s[1]] = s[2],
               Settle(s[1], next, how = "exitOk"),
               ops' = (ops \ {Op(how, s[1], s[2])}) \cup Wakes(s[1], next)
        PROVE  Lone'
    <3>1. session' = session /\ child' = child /\ \A o \in ops : o.do = "kill" => o \in ops'
      <4>1. Op(how, s[1], s[2]).do # "kill"
        BY DEF Op, ExitKinds
      <4>. QED
        BY <2>3, <4>1 DEF ExitDecided, procVars
    <3>2. how \in Exits /\ child[s].st = "gone"
      <4>1. how # "exitTerm"
        BY <1>0, <2>3 DEF Calm, Op
      <4>2. how \in Exits
        BY <4>1 DEF ExitKinds, Exits
      <4>. QED
        BY <2>2, <2>3, <4>2 DEF Lone, Suits, Op
    <3>3. Left(s[1])'
      <4>. SUFFICES ASSUME NEW x \in Sessions, x[1] = s[1], child[x].st = "live" PROVE KillDue(x)'
        BY <3>1 DEF Left
      <4>1. KillDue(x) \/ x = s
        BY <2>2, <2>3 DEF Lone, Sessions
      <4>. QED
        BY <3>1, <3>2, <4>1 DEF KillDue, Op
    <3>4. \A o \in ops' : o.run = s[1] => o.do \notin {"start", "boot"}
      <4>. SUFFICES ASSUME NEW o \in ops', o.run = s[1], o.do \in {"start", "boot"} PROVE FALSE
        OBVIOUS
      <4>1. o \in ops
        BY <2>2, <2>3, WakesAside DEF Aside
      <4>2. CASE o.do = "start"
        <5>1. Unborn(s[1])
          BY <1>0, <4>1, <4>2 DEF Order, OneStart
        <5>2. s[1] \in Restored /\ s[2] = 1
          BY <2>2, <2>3, <5>1 DEF Unborn, Ghost, Gens
        <5>. QED
          BY <1>0, <2>3, <3>2, <5>2 DEF Order, Ghosts, Op
      <4>3. CASE o.do = "boot"
        <5>1. child[<<s[1], s[2]>>].st = "none"
          BY <2>3, <4>1, <4>3 DEF Lone, Suits, Told
        <5>. QED
          BY <2>2, <3>2, <5>1
      <4>. QED
        BY <4>2, <4>3
    <3>5. \A o \in ops' : o \in ops \/ o.do \in Aside
      BY <2>2, <2>3, WakesAside
    <3>. QED
      BY <1>0, <2>2, <2>3, <3>1, <3>3, <3>4, <3>5, EndIsLone
  <2>4. CASE ExitDecided(s)
    <3>1. PICK how \in ExitKinds :
            /\ Op(how, s[1], s[2]) \in ops
            /\ \/ /\ state' = state
                  /\ \A o \in ops' : o \in ops \/ o = Op("external", s[1], s[2])
                  /\ \A o \in ops : o \in ops' \/ o = Op(how, s[1], s[2])
               \/ \E next \in Ended :
                    /\ session[s[1]] = s[2] /\ Settle(s[1], next, how = "exitOk")
                    /\ ops' = (ops \ {Op(how, s[1], s[2])}) \cup Wakes(s[1], next)
      BY <2>4 DEF ExitDecided, Ended
    <3>2. session' = session /\ child' = child
      BY <2>4 DEF ExitDecided, procVars
    <3>3. Suits(Op("external", s[1], s[2]))' /\ Op(how, s[1], s[2]).do # "kill"
      BY DEF Suits, Op, Exits, ExitKinds
    <3>. QED
      BY <1>0, <1>1, <2>3, <2>4, <3>1, <3>2, <3>3 DEF Keeps
  <2>5. CASE ApplyFrame(s)
    <3>1. /\ session' = session /\ child' = child /\ budget' = budget /\ frames[s] # <<>>
          /\ \/ state' = state /\ ops' = ops
             \/ /\ SetState(s[1], Meaning(Head(frames[s])), FALSE)
                /\ ops' = ops \cup Wakes(s[1], Meaning(Head(frames[s])))
      BY <2>5 DEF ApplyFrame
    <3>2. Head(frames[s]) \in Frames
      BY <1>0, <3>1 DEF Typed, ChildrenTyped
    <3>3. CASE state' = state /\ ops' = ops
      BY <1>0, <1>1, <3>1, <3>3 DEF Keeps
    <3>4. CASE /\ SetState(s[1], Meaning(Head(frames[s])), FALSE)
               /\ ops' = ops \cup Wakes(s[1], Meaning(Head(frames[s])))
      <4>1. Meaning(Head(frames[s])) \in Taking
        BY <3>2, FramesMean
      <4>2. state' = [state EXCEPT ![s[1]] = Meaning(Head(frames[s]))]
        BY <3>4, <4>1 DEF SetState, Landed, Taking
      <4>3. \A q \in Runs : Keeps(q)
        BY <1>0, <3>1, <4>1, <4>2 DEF Keeps, MayKeep, HoldsAPair, Taking, Over, Ended
      <4>4. \A o \in ops' : o \in ops \/ o.do \in Aside
        BY <2>2, <3>4, WakesAside
      <4>. QED
        BY <1>0, <1>1, <3>1, <4>3, <4>4
    <3>. QED
      BY <3>1, <3>3, <3>4
  <2>6. ~ExitRestarts(s) /\ ~ExternalStop(s) /\ ~SigStop(s)
    BY <1>0 DEF ExitRestarts, RestartsOf, ExternalStop, SigStop, Calm, Op
  <2>. QED
    BY <2>1, <2>4, <2>5, <2>6
<1>6. CASE Stops
  <2>1. PICK r \in Runs :
          \/ \E force \in BOOLEAN : PlanStop(r, force)
          \/ CancelDequeues(r) \/ CancelLands(r) \/ KillLands(r) \/ AskToWindDown(r) \/ GraceRunsOut(r)
    BY <1>6 DEF Stops
  <2>2. CASE \E force \in BOOLEAN : PlanStop(r, force)
    <3>1. state' = state /\ session' = session /\ child' = child
      BY <2>2 DEF PlanStop, procVars
    <3>2. PICK route \in {"Cancel", "Discard", "Kill", "Ask"} :
            ops' = ops \/ ops' = ops \cup {Op(StopFollows[route], r, session[r])}
      BY <2>2 DEF PlanStop, StopRoute
    <3>3. Suits(Op(StopFollows[route], r, session[r]))'
      BY DEF Suits, Op, StopFollows, Exits
    <3>. QED
      BY <1>0, <1>1, <3>1, <3>2, <3>3 DEF Keeps
  <2>3. CASE CancelDequeues(r)
    <3>1. PICK g \in 0 .. MaxGen : ops' = (ops \ {Op("dequeue", r, g)}) \cup {Op("cancel", r, g)}
      BY <2>3 DEF CancelDequeues
    <3>2. state' = state /\ session' = session /\ child' = child
      BY <2>3 DEF CancelDequeues, rowVars, procVars
    <3>3. Suits(Op("cancel", r, g))' /\ Op("dequeue", r, g).do # "kill"
      BY DEF Suits, Op, Exits
    <3>. QED
      BY <1>0, <1>1, <3>1, <3>2, <3>3 DEF Keeps
  <2>4. CASE CancelLands(r)
    <3>1. PICK do \in {"cancel", "discard"}, g \in 0 .. MaxGen :
            ops' = (ops \ {Op(do, r, g)}) \cup Wakes(r, "Cancelled")
      BY <2>4 DEF CancelLands
    <3>2. session' = session /\ child' = child /\ Settle(r, "Cancelled", FALSE)
      BY <2>4 DEF CancelLands, procVars
    <3>3. Op(do, r, g).do # "kill" /\ \A o \in ops' : o \in ops \/ o.do \in Aside
      BY <3>1, WakesAside DEF Op
    <3>4. state' = state \/ state' = [state EXCEPT ![r] = "Cancelled"]
      BY <3>2 DEF Settle, SetState, Landed
    <3>5. \A q \in Runs : Keeps(q)
      BY <1>0, <3>2, <3>4 DEF Keeps, MayKeep
    <3>. QED
      BY <1>0, <1>1, <3>1, <3>2, <3>3, <3>5
  \* A kill that lands leaves no child of its session to be killed.
  <2>5. CASE KillLands(r)
    <3>1. PICK do \in {"kill", "stopKill"}, g \in 0 .. MaxGen :
            ops' = ops \ {Op(do, r, g)} /\ Killed(<<r, g>>)
      BY <2>5 DEF KillLands
    <3>2. state' = state /\ session' = session
      BY <2>5 DEF KillLands, rowVars
    <3>3. SameChildren
      BY <1>0, <3>1, LooksTheSame
    <3>4. ASSUME NEW s \in Sessions, child'[s].st = "live", KillDue(s) PROVE KillDue(s)'
      <4>1. s # <<r, g>>
        <5>. SUFFICES ASSUME s = <<r, g>> PROVE FALSE
          OBVIOUS
        <5>1. child[s].st = "live" /\ g # 0
          BY <3>3, <3>4 DEF Sessions, Gens
        <5>2. child'[s].st = "dying"
          BY <1>0, <3>1, <5>1 DEF Killed, Registered, Children
        <5>. QED
          BY <3>4, <5>2
      <4>2. Op("kill", s[1], s[2]) # Op(do, r, g)
        BY <4>1 DEF Op, Sessions
      <4>. QED
        BY <3>1, <3>4, <4>2 DEF KillDue
    <3>5. \A q \in Runs : Keeps(q)
      BY <3>2 DEF Keeps
    <3>. QED
      BY <1>0, <3>1, <3>3, <3>4, <3>5, StillLone
  <2>6. CASE AskToWindDown(r) \/ GraceRunsOut(r)
    <3>1. state' = state /\ session' = session
      BY <2>6 DEF AskToWindDown, GraceRunsOut, rowVars, procVars
    <3>2. PICK do \in {"ask", "grace"}, g \in 0 .. MaxGen :
            /\ \A o \in ops : o \in ops' \/ o = Op(do, r, g)
            /\ \A o \in ops' : \/ o \in ops
                              \/ o = Op("grace", r, 0) \/ o = Op("kill", r, session[r])
      <4>1. CASE AskToWindDown(r)
        <5>1. PICK g \in 0 .. MaxGen :
                \/ ops' = (ops \ {Op("ask", r, g)}) \cup {Op("grace", r, 0)}
                \/ ops' = ops \ {Op("ask", r, g)}
          BY <4>1 DEF AskToWindDown
        <5>. QED
          BY <5>1
      <4>2. CASE GraceRunsOut(r)
        <5>1. \/ ops' = (ops \ {Op("grace", r, 0)}) \cup {Op("kill", r, session[r])}
              \/ ops' = ops \ {Op("grace", r, 0)}
          BY <4>2 DEF GraceRunsOut
        <5>2. 0 \in 0 .. MaxGen
          BY Limits
        <5>. QED
          BY <5>1, <5>2
      <4>. QED
        BY <2>6, <4>1, <4>2
    <3>3. /\ \A n : Op("grace", r, n).do \in Aside /\ Op("kill", r, n).do \in Aside
          /\ Op(do, r, g).do # "kill"
      BY DEF Op, Aside
    <3>4. PICK x : child' = child \/ child' = [child EXCEPT ![x].typed = TRUE]
      BY <2>6 DEF AskToWindDown, GraceRunsOut, procVars
    <3>5. SameChildren
      BY <1>0, <3>4, LooksTheSame
    <3>. QED
      BY <1>0, <1>1, <3>1, <3>2, <3>3, <3>5 DEF Keeps
  <2>. QED
    BY <2>1, <2>2, <2>3, <2>4, <2>5, <2>6
<1>7. CASE FollowUps
  <2>1. PICK r \in Runs : FollowUp(r) \/ HeldFollowUp(r) \/ Reserve(r) \/ SendPrompt(r)
    BY <1>7 DEF FollowUps
  <2>2. state' = state /\ session' = session
    BY <2>1 DEF FollowUp, HeldFollowUp, UnchangedByFollowUp, Reserve, SendPrompt, procVars
  <2>3. PICK x : child' = child \/ child' = [child EXCEPT ![x].typed = TRUE] \/ Killed(x)
    BY <2>1 DEF FollowUp, HeldFollowUp, UnchangedByFollowUp, Reserve, SendPrompt, procVars
  <2>4. SameChildren
    BY <1>0, <2>3, LooksTheSame
  <2>5. KillsStay
    <3>1. CASE PlanFollowUp(r)
      BY <3>1 DEF PlanFollowUp, Op
    <3>2. CASE HeldFollowUp(r) /\ ~PlanFollowUp(r)
      BY <3>2 DEF HeldFollowUp, Op
    <3>3. CASE Reserve(r)
      BY <3>3 DEF Reserve, Op
    <3>4. CASE SendPrompt(r)
      BY <3>4 DEF SendPrompt, Op
    <3>. QED
      BY <2>1, <3>1, <3>2, <3>3, <3>4 DEF FollowUp
  <2>6. \A o \in ops' : o \in ops \/ o.do \in Aside
    <3>1. CASE PlanFollowUp(r)
      BY <3>1 DEF PlanFollowUp, Op, Aside
    <3>2. CASE HeldFollowUp(r) /\ ~PlanFollowUp(r)
      BY <3>2 DEF HeldFollowUp
    <3>3. CASE Reserve(r)
      BY <3>3 DEF Reserve, Op, Aside
    <3>4. CASE SendPrompt(r)
      BY <3>4 DEF SendPrompt
    <3>. QED
      BY <2>1, <3>1, <3>2, <3>3, <3>4 DEF FollowUp
  <2>. QED
    BY <1>1, <2>2, <2>4, <2>5, <2>6 DEF Keeps
<1>8. ~Pauses
  BY <1>0 DEF Pauses, PauseRun, PauseProject, Spend, Calm
<1>9. CASE Resumes
  <2>1. ops' = ops
    BY <1>9 DEF Resumes, Resume, ResumePlans, ReclaimTakesLock, ReclaimSlot, PlanRestarts, SigCont,
                FinishThaws, EndOldChildren, RequeueTakesLock, RequeueOne, ResumeDone, procVars
  <2>2. CASE \E r \in Runs : RequeueOne(r)
    <3>1. PICK r \in Runs : RequeueOne(r)
      BY <2>2
    <3>2. /\ session' = session /\ child' = child
          /\ state' = state \/ state' = [state EXCEPT ![r] = "Queued"]
      BY <3>1 DEF RequeueOne, procVars
    <3>3. \A q \in Runs : Keeps(q)
      BY <1>0, <3>2 DEF Keeps, MayKeep, HoldsAPair, Over, Ended
    <3>. QED
      BY <1>0, <1>1, <2>1, <3>2, <3>3
  <2>3. CASE PlanRestarts
    <3>1. PICK S \in SUBSET {s \in resume.thaws : /\ frozen[s[1]] # NoFreeze /\ session[s[1]] = s[2]
                                                 /\ ForkedHere(s[1]) /\ minted[s[1]] < MaxGen} :
            LET R == {s[1] : s \in S} IN
            /\ session' = [r \in Runs |-> IF r \in R THEN minted[r] + 1 ELSE session[r]]
            /\ state' = [r \in Runs |-> IF r \in R THEN "Starting" ELSE state[r]]
      BY <2>3 DEF PlanRestarts
    <3>2. \A s \in resume.thaws : s[1] \in Runs
      BY <1>0 DEF Typed, StepsTyped, Sessions
    <3>3. S = {}
      BY <1>0, <3>2
    <3>4. session' = session /\ state' = state /\ child' = child
      BY <1>0, <2>3, <3>1, <3>3 DEF PlanRestarts
    <3>. QED
      BY <1>0, <1>1, <2>1, <3>4 DEF Keeps
  <2>4. CASE FinishThaws
    <3>1. state' = state /\ session' = session /\ child' = child
      BY <1>0, <2>4 DEF FinishThaws, procVars
    <3>. QED
      BY <1>0, <1>1, <2>1, <3>1 DEF Keeps
  <2>5. CASE SigCont \/ EndOldChildren
    <3>1. state' = state /\ session' = session
      BY <2>5 DEF SigCont, EndOldChildren, rowVars
    <3>2. SameChildren
      <4>1. CASE SigCont
        BY <1>0, <4>1 DEF SigCont, Children
      <4>2. CASE EndOldChildren
        BY <1>0, <4>2 DEF EndOldChildren, HungUp, Children
      <4>. QED
        BY <2>5, <4>1, <4>2
    <3>. QED
      BY <1>0, <1>1, <2>1, <3>1, <3>2 DEF Keeps
  <2>6. ~ReclaimSlot
    BY <1>0 DEF ReclaimSlot, Order, Resuming
  <2>7. CASE Resume \/ ReclaimTakesLock \/ RequeueTakesLock \/ ResumeDone
    <3>1. state' = state /\ session' = session /\ child' = child
      BY <2>7 DEF Resume, ResumePlans, ReclaimTakesLock, RequeueTakesLock, ResumeDone, rowVars, procVars
    <3>. QED
      BY <1>0, <1>1, <2>1, <3>1 DEF Keeps
  <2>. QED
    BY <1>9, <2>2, <2>3, <2>4, <2>5, <2>6, <2>7 DEF Resumes
<1>. QED
  BY <1>0, <1>2, <1>3, <1>4, <1>5, <1>6, <1>7, <1>8, <1>9, StartsAreLone DEF Next

\* One checkout has one child that stays: of two live children of a (role, task) pair
\* kill_child is to come for one, or one is that of a run cancelled in its queue while
\* its start was under way.  Failed starts, openings that never take and are tried
\* again, Stops, exits, failed turns, a Resume of interrupted rows and a dispatch
\* beside them all included, as long as nobody presses Pause or signals a child.
THEOREM OneChildPerCheckout == ASSUME Undisturbed PROVE Spec => []OneChildStays
<1>. DEFINE Alone == Ordered /\ Born /\ Woken /\ Told /\ Lone
<1>1. Init => Alone
  <2>1. Init => Lone
    BY DEF Init, Lone, NoChild
  <2>. QED
    BY <2>1, InitOrdered, InitWakes, InitTells
<1>2. Alone /\ [Next]_vars => Alone'
  <2>. SUFFICES ASSUME Alone, [Next]_vars PROVE Alone'
    OBVIOUS
  <2>1. Ordered' /\ Born' /\ Woken' /\ Told'
    BY NextOrdered, StepWakes, NextTells DEF Undisturbed
  <2>2. CASE UNCHANGED vars
    <3>1. UNCHANGED <<state, session, child, ops>>
      BY <2>2 DEF vars, rowVars, procVars
    <3>2. Lone'
      BY <3>1 DEF Lone, Suits, Left, KillDue
    <3>. QED
      BY <2>1, <3>2
  <2>. QED
    BY <2>1, <2>2, StepIsLone
<1>3. Alone => OneChildStays
  <2>. SUFFICES ASSUME Alone, NEW s \in Sessions, NEW t \in Sessions,
                       PairOf[s[1]] = PairOf[t[1]], child[s].st = "live", child[t].st = "live",
                       \A u \in {s, t} : ~BeingEnded(u) /\ state[u[1]] # "Cancelled"
                PROVE  s = t
    BY DEF OneChildStays
  <2>1. \A u \in {s, t} : /\ session[u[1]] = u[2] /\ HoldsAPair(state[u[1]])
                         /\ u[1] \in Runs /\ u = <<u[1], u[2]>>
    BY DEF Lone, MayKeep, KillDue, BeingEnded, Sessions
  <2>2. s[1] = t[1]
    BY <2>1 DEF Ordered, Order, OneRunPerPair
  <2>. QED
    BY <2>1, <2>2
<1>. QED
  BY <1>1, <1>2, <1>3, PTL DEF Spec

=============================================================================
