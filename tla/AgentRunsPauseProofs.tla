------------------------ MODULE AgentRunsPauseProofs ------------------------
(***************************************************************************)
(* A theorem about AgentRuns with Pause, Resume and Stop in it: a child    *)
(* that was stopped is never forgotten.  Pause marks under the lock and    *)
(* signals after it, Resume continues and forgets in four critical         *)
(* sections, and between them runs exit, fail, are stopped, requeued and   *)
(* restarted for changed settings, and give up their openings.             *)
(***************************************************************************)
EXTENDS AgentRunsProofs

\* One button at a time, no row of a previous cide, and no child signalled by anybody
\* but cide.  Stops, failed starts and turns, and openings that do not take are allowed,
\* as many as there may be.
Untroubled ==
    /\ ~Overlapping /\ Restored = {}
    /\ \A b \in Budgets : b["term"] = 0

------------------------------------------------------------------------------
(* The invariant, run by run *)

\* The run stands in its queue, or before the admission loop
Stands(r) == \E i \in 1 .. Len(queues[KeyOf[r]]) : queues[KeyOf[r]][i] = r
InLine(r) == Stands(r) \/ r \in pump.pass

\* Over for good: a run that failed in its queue is admitted all the same
Rests(r) == state[r] \in Ended /\ ~InLine(r)

\* Until its SIGCONTs are sent and its marks forgotten, a resume thaws; until the old
\* children are ended, it still has something to continue.
Thawing == {"planned", "reclaim", "restart", "cont", "finish"}
Continuing == Thawing \cup {"end"}
Marked(s) == s \in frozenSessions
ToBeEnded(s) == s \in resume.ends /\ resume.phase \in Continuing
Known(s) == Marked(s) \/ ToBeEnded(s) \/ Rests(s[1])

RowSound(r) ==
    /\ state[r] # "Interrupted"
    /\ state[r] = "None" \/ InLine(r) => session[r] = 0
    /\ frozen[r] # NoFreeze => /\ state[r] = "Paused" /\ session[r] # 0
                               /\ frozen[r].at \notin {"None", "Interrupted"}

GoneOrGoing == {"dying", "gone"}

StartSound(o) == o.gen = 0 /\ state[o.run] # "None" /\ session[o.run] = 0 /\ ~InLine(o.run)

\* A SIGSTOP to come finds the mark its Pause made, or nobody it could leave stopped.
SignalSound(o) ==
    /\ o.gen # 0
    /\ \/ Marked(<<o.run, o.gen>>)
       \/ child[<<o.run, o.gen>>].st \in GoneOrGoing
       \/ Rests(o.run)
    /\ resume.phase = "idle" \/ o.run \notin resume.runs

StepSound(o) ==
    /\ o.do \notin {"exitTerm", "external"}
    /\ o.do = "start" => StartSound(o)
    /\ o.do = "sigstop" => SignalSound(o)

ThawSound(s) ==
    /\ s[1] \in resume.runs
    /\ frozen[s[1]] = NoFreeze \/ session[s[1]] = s[2]
    /\ resume.phase = "finish" => ~child[s].halted

ChildSound(s) ==
    /\ child[s].st = "live" /\ child[s].halted => Known(s)
    /\ Marked(s) => frozen[s[1]] # NoFreeze /\ session[s[1]] = s[2]
    /\ s \in resume.thaws /\ resume.phase \in Thawing => ThawSound(s)

Sound(r) ==
    /\ RowSound(r)
    /\ \A o \in ops : o.run = r => StepSound(o)
    /\ \A g \in Gens : ChildSound(<<r, g>>)

NoneToRequeue == resume.phase = "requeue" => resume.todo = {}

\* Every session is forked once.
Births ==
    /\ \A s \in Sessions : s[2] > minted[s[1]] => child[s].st = "none"
    /\ \A o \in ops : o.do = "boot" =>
         /\ o.gen # 0 /\ o.gen <= minted[o.run] /\ child[<<o.run, o.gen>>].st = "none"
         /\ \A x \in restarts : x.run = o.run => x.new # o.gen
    /\ \A x \in restarts :
         /\ x.new <= minted[x.run] /\ child[<<x.run, x.new>>].st = "none"
         /\ \A y \in restarts : y.run = x.run /\ y.new = x.new => y = x

SInv == /\ IInv /\ Births /\ NoneToRequeue /\ budget["term"] = 0
        /\ \A r \in Runs : Sound(r)

------------------------------------------------------------------------------
(* Every session is forked once *)

\* A step that mints, restarts and forks nothing.
LEMMA NoBirth ==
  ASSUME Typed, Births, minted' = minted, restarts' \subseteq restarts,
         \A o \in ops' : o.do = "boot" => o \in ops,
         \A s \in Sessions : child[s].st = "none" => child'[s].st = "none"
  PROVE  Births'
<1>1. /\ ops \subseteq Ops /\ restarts \subseteq [run : Runs, old : Gens, new : Gens]
  BY DEF Typed, StepsTyped, InnerTyped
<1>2. ASSUME NEW o \in ops', o.do = "boot"
      PROVE  /\ o.gen # 0 /\ o.gen <= minted'[o.run] /\ child'[<<o.run, o.gen>>].st = "none"
             /\ \A x \in restarts' : x.run = o.run => x.new # o.gen
  <2>1. /\ o \in ops /\ o.gen # 0 /\ o.gen <= minted[o.run] /\ child[<<o.run, o.gen>>].st = "none"
        /\ \A x \in restarts : x.run = o.run => x.new # o.gen
    BY <1>2 DEF Births
  <2>2. <<o.run, o.gen>> \in Sessions
    BY <1>1, <2>1, Limits DEF Ops, Gens, Limits, Sessions
  <2>. QED
    BY <2>1, <2>2
<1>3. \A x \in restarts : <<x.run, x.new>> \in Sessions
  BY <1>1 DEF Sessions
<1>4. ASSUME NEW x \in restarts'
      PROVE  /\ x.new <= minted'[x.run] /\ child'[<<x.run, x.new>>].st = "none"
             /\ \A y \in restarts' : y.run = x.run /\ y.new = x.new => y = x
  BY <1>3 DEF Births
<1>. QED
  BY <1>2, <1>4 DEF Births

\* A line typed into a child changes neither what becomes of it nor whether it stands.
LEMMA LinesStopNobody ==
  ASSUME Typed, NEW s, child' = child \/ child' = [child EXCEPT ![s].typed = TRUE]
  PROVE  \A t \in Sessions : child'[t].st = child[t].st /\ child'[t].halted = child[t].halted
<1>1. child \in [Sessions -> Children]
  BY DEF Typed, ChildrenTyped
<1>2. CASE child' = [child EXCEPT ![s].typed = TRUE]
  <2>. SUFFICES ASSUME NEW t \in Sessions
                PROVE  child'[t].st = child[t].st /\ child'[t].halted = child[t].halted
    OBVIOUS
  <2>1. child[t] \in Children
    BY <1>1
  <2>2. child'[t] = child[t] \/ child'[t] = [child[t] EXCEPT !.typed = TRUE]
    BY <1>1, <1>2
  <2>. QED
    BY <2>1, <2>2 DEF Children
<1>. QED
  BY <1>2

LEMMA RestartToCome ==
  ASSUME Typed, Births, NEW x \in restarts
  PROVE  /\ x.run \in Runs /\ x.new \in Nat /\ <<x.run, x.new>> \in Sessions
         /\ x.new <= minted[x.run] /\ child[<<x.run, x.new>>].st = "none"
<1>1. restarts \subseteq [run : Runs, old : Gens, new : Gens]
  BY DEF Typed, InnerTyped
<1>2. x.run \in Runs /\ x.new \in Gens
  BY <1>1
<1>3. x.new <= minted[x.run] /\ child[<<x.run, x.new>>].st = "none"
  BY DEF Births
<1>. QED
  BY <1>2, <1>3 DEF Gens, Sessions

LEMMA StartsBirths ==
  ASSUME Typed, Births, Starts
  PROVE  Births'
<1>0. /\ minted \in [Runs -> 0 .. MaxGen] /\ child \in [Sessions -> Children] /\ ops \subseteq Ops
      /\ restarts \subseteq [run : Runs, old : Gens, new : Gens] /\ MaxGen \in Nat
      /\ session \in [Runs -> 0 .. MaxGen]
  BY Limits DEF Typed, ChildrenTyped, StepsTyped, InnerTyped, RowsTyped, Limits
<1>1. PICK r \in Runs :
        \/ Bind(r)
        \/ \E g \in Gens : Fork(r, g) \/ BootFails(r, g) \/ AbandonUnsubmitted(r, g)
                         \/ OpeningGivesUp(r, g) \/ OpeningDone(r, g)
        \/ \E g \in 0 .. MaxGen : FinishFailed(r, g)
  BY DEF Starts
<1>2. CASE Bind(r)
  <2>. DEFINE n == minted[r] + 1
  <2>1. /\ minted' = [minted EXCEPT ![r] = n] /\ UNCHANGED <<restarts, child>>
        /\ ops' = (ops \ {Op("start", r, 0)}) \cup {Op("boot", r, n)} /\ minted[r] < MaxGen
    BY <1>0, <1>2 DEF Bind
  <2>2. n \in Nat /\ n # 0 /\ n \in Gens /\ minted[r] \in Nat /\ n > minted[r]
    BY <1>0, <2>1 DEF Gens
  <2>3. child[<<r, n>>].st = "none"
    <3>1. <<r, n>> \in Sessions
      BY <2>2 DEF Sessions
    <3>. QED
      BY <2>2, <3>1 DEF Births
  <2>4. \A x \in restarts : x.run = r => x.new # n
    <3>. SUFFICES ASSUME NEW x \in restarts, x.run = r PROVE x.new # n
      OBVIOUS
    <3>1. x.new \in Nat /\ x.new <= minted[x.run]
      BY RestartToCome
    <3>. QED
      BY <2>2, <3>1
  <2>5. \A q \in Runs : minted'[q] \in Nat /\ minted[q] \in Nat /\ minted[q] <= minted'[q]
    BY <1>0, <2>1, <2>2
  <2>6. minted'[r] = n
    BY <1>0, <2>1
  <2>7. ASSUME NEW o \in ops', o.do = "boot"
        PROVE  /\ o.gen # 0 /\ o.gen <= minted'[o.run] /\ child[<<o.run, o.gen>>].st = "none"
               /\ \A x \in restarts : x.run = o.run => x.new # o.gen
    <3>1. CASE o = Op("boot", r, n)
      BY <2>2, <2>3, <2>4, <2>6, <3>1 DEF Op
    <3>2. CASE o \in ops
      <4>1. o.run \in Runs /\ o.gen \in Nat
        BY <1>0, <3>2 DEF Ops
      <4>2. /\ o.gen # 0 /\ o.gen <= minted[o.run] /\ child[<<o.run, o.gen>>].st = "none"
            /\ \A x \in restarts : x.run = o.run => x.new # o.gen
        BY <2>7, <3>2 DEF Births
      <4>3. minted'[o.run] \in Nat /\ minted[o.run] \in Nat /\ minted[o.run] <= minted'[o.run]
        BY <2>5, <4>1
      <4>4. o.gen <= minted'[o.run]
        BY <4>1, <4>2, <4>3
      <4>. QED
        BY <4>2, <4>4
    <3>. QED
      BY <2>1, <3>1, <3>2
  <2>8. ASSUME NEW s \in Sessions, s[2] > minted'[s[1]] PROVE child[s].st = "none"
    <3>1. s[1] \in Runs /\ s[2] \in Nat
      BY DEF Sessions, Gens
    <3>. QED
      BY <2>5, <2>8, <3>1 DEF Births
  <2>9. ASSUME NEW x \in restarts PROVE x.new <= minted'[x.run]
    <3>1. /\ x.run \in Runs /\ x.new \in Nat /\ x.new <= minted[x.run]
      BY RestartToCome
    <3>2. minted'[x.run] \in Nat /\ minted[x.run] \in Nat /\ minted[x.run] <= minted'[x.run]
      BY <2>5, <3>1
    <3>. QED
      BY <3>1, <3>2
  <2>. QED
    BY <2>1, <2>7, <2>8, <2>9 DEF Births
<1>3. ASSUME NEW g \in Gens, Fork(r, g) PROVE Births'
  <2>1. /\ minted' = minted /\ restarts' = restarts /\ Op("boot", r, g) \in ops
        /\ ops' \subseteq (ops \ {Op("boot", r, g)}) \cup {Op("opening", r, g)}
        /\ child' = [child EXCEPT ![<<r, g>>] = [NoChild EXCEPT !.st = "live", !.typed = session[r] = g]]
    BY <1>3 DEF Fork, innerVars
  <2>2. /\ g <= minted[r] /\ \A x \in restarts : x.run = r => x.new # g
    BY <2>1 DEF Births, Op
  <2>3. \A s \in Sessions : s # <<r, g>> => child'[s] = child[s]
    BY <1>0, <2>1
  <2>4. ASSUME NEW o \in ops', o.do = "boot"
        PROVE  /\ o.gen # 0 /\ o.gen <= minted[o.run] /\ child'[<<o.run, o.gen>>].st = "none"
               /\ \A x \in restarts : x.run = o.run => x.new # o.gen
    <3>1. o \in ops /\ o # Op("boot", r, g)
      BY <2>1, <2>4 DEF Op
    <3>2. o.run \in Runs /\ o.gen \in Gens /\ <<o.run, o.gen>> # <<r, g>>
      <4>1. o \in Ops /\ o.gen # 0 /\ o.do = "boot"
        BY <1>0, <2>4, <3>1 DEF Births
      <4>2. <<o.run, o.gen>> = <<r, g>> => o = Op("boot", r, g)
        BY <4>1 DEF Ops, Op
      <4>. QED
        BY <1>0, <3>1, <4>1, <4>2 DEF Ops, Gens
    <3>3. /\ o.gen # 0 /\ o.gen <= minted[o.run] /\ child[<<o.run, o.gen>>].st = "none"
          /\ \A x \in restarts : x.run = o.run => x.new # o.gen
      BY <2>4, <3>1 DEF Births
    <3>. QED
      BY <2>3, <3>2, <3>3 DEF Sessions
  <2>5. ASSUME NEW s \in Sessions, s[2] > minted[s[1]] PROVE child'[s].st = "none"
    <3>1. s # <<r, g>>
      BY <1>0, <2>2, <2>5 DEF Gens
    <3>. QED
      BY <2>3, <2>5, <3>1 DEF Births
  <2>6. ASSUME NEW x \in restarts PROVE child'[<<x.run, x.new>>].st = "none"
    <3>1. <<x.run, x.new>> \in Sessions /\ <<x.run, x.new>> # <<r, g>>
      BY <1>0, <2>2 DEF Sessions
    <3>. QED
      BY <2>3, <3>1 DEF Births
  <2>. QED
    BY <2>1, <2>4, <2>5, <2>6 DEF Births
<1>4. ASSUME NEW g \in Gens, BootFails(r, g) \/ OpeningGivesUp(r, g) \/ OpeningDone(r, g)
      PROVE  Births'
  <2>1. /\ UNCHANGED <<minted, restarts, child>> /\ \A o \in ops' : o.do = "boot" => o \in ops
    BY <1>4 DEF BootFails, OpeningGivesUp, OpeningDone, innerVars, procVars, Op
  <2>. QED
    BY <2>1, NoBirth
<1>5. ASSUME NEW g \in Gens, AbandonUnsubmitted(r, g) PROVE Births'
  <2>1. /\ UNCHANGED <<minted, restarts, child>> /\ \A o \in ops' : o.do = "boot" => o \in ops
    BY <1>5 DEF AbandonUnsubmitted, procVars, Op
  <2>. QED
    BY <2>1, NoBirth
<1>6. ASSUME NEW g \in 0 .. MaxGen, FinishFailed(r, g) PROVE Births'
  <2>1. /\ UNCHANGED <<minted, restarts, child>> /\ \A o \in ops' : o.do = "boot" => o \in ops
    BY <1>6 DEF FinishFailed, FailedStart, procVars, Op, Wakes
  <2>. QED
    BY <2>1, NoBirth
<1>. QED
  BY <1>1, <1>2, <1>3, <1>4, <1>5, <1>6

LEMMA RestartBirths ==
  ASSUME Typed, Births, PlanRestarts
  PROVE  Births'
<1>0. /\ minted \in [Runs -> 0 .. MaxGen] /\ child \in [Sessions -> Children] /\ ops \subseteq Ops
      /\ restarts \subseteq [run : Runs, old : Gens, new : Gens] /\ MaxGen \in Nat
  BY Limits DEF Typed, ChildrenTyped, StepsTyped, InnerTyped, Limits
<1>1. PICK S \in SUBSET {s \in resume.thaws : /\ frozen[s[1]] # NoFreeze /\ session[s[1]] = s[2]
                                             /\ ForkedHere(s[1]) /\ minted[s[1]] < MaxGen} :
        /\ minted' = [r \in Runs |-> IF r \in {s[1] : s \in S} THEN minted[r] + 1 ELSE minted[r]]
        /\ restarts' = {x \in restarts : <<x.run, x.old>> \notin S} \cup
                       {[run |-> s[1], old |-> s[2], new |-> minted[s[1]] + 1] : s \in S}
        /\ UNCHANGED <<child, ops>>
  BY DEF PlanRestarts
<1>2. \A s \in S : s \in Sessions /\ s[1] \in Runs /\ session[s[1]] = s[2] /\ minted[s[1]] + 1 \in Gens
  BY <1>0, <1>1 DEF Typed, StepsTyped, Sessions, Gens
<1>3. \A q \in Runs : minted[q] \in Nat /\ minted'[q] \in Nat /\ minted[q] <= minted'[q]
  BY <1>0, <1>1
<1>4. \A s \in S : minted'[s[1]] = minted[s[1]] + 1
  BY <1>1, <1>2
<1>5. \A s \in S : child[<<s[1], minted[s[1]] + 1>>].st = "none"
  <2>. SUFFICES ASSUME NEW s \in S PROVE child[<<s[1], minted[s[1]] + 1>>].st = "none"
    OBVIOUS
  <2>1. <<s[1], minted[s[1]] + 1>> \in Sessions /\ minted[s[1]] + 1 > minted[s[1]]
    BY <1>2, <1>3 DEF Sessions
  <2>. QED
    BY <2>1 DEF Births
<1>6. ASSUME NEW s \in Sessions, s[2] > minted'[s[1]] PROVE child'[s].st = "none"
  <2>1. s[1] \in Runs /\ s[2] \in Nat
    BY DEF Sessions, Gens
  <2>. QED
    BY <1>1, <1>3, <1>6, <2>1 DEF Births
<1>7. ASSUME NEW x \in restarts'
      PROVE  \/ x \in restarts /\ x.run \in Runs /\ x.new \in Nat /\ x.new <= minted[x.run]
             \/ \E s \in S : x = [run |-> s[1], old |-> s[2], new |-> minted[s[1]] + 1]
  <2>1. CASE x \in restarts
    BY <2>1, RestartToCome
  <2>. QED
    BY <1>1, <2>1
<1>8. ASSUME NEW o \in ops', o.do = "boot"
      PROVE  /\ o.gen # 0 /\ o.gen <= minted'[o.run] /\ child'[<<o.run, o.gen>>].st = "none"
             /\ \A x \in restarts' : x.run = o.run => x.new # o.gen
  <2>1. /\ o \in ops /\ o.run \in Runs /\ o.gen \in Nat /\ o.gen # 0
        /\ o.gen <= minted[o.run] /\ child[<<o.run, o.gen>>].st = "none"
    BY <1>0, <1>1, <1>8 DEF Births, Ops
  <2>2. ASSUME NEW x \in restarts', x.run = o.run PROVE x.new # o.gen
    <3>1. CASE x \in restarts
      BY <1>8, <2>1, <2>2, <3>1 DEF Births
    <3>2. ASSUME NEW s \in S, x = [run |-> s[1], old |-> s[2], new |-> minted[s[1]] + 1]
          PROVE  x.new # o.gen
      BY <1>3, <2>1, <2>2, <3>2
    <3>. QED
      BY <1>7, <3>1, <3>2
  <2>. QED
    BY <1>1, <1>3, <2>1, <2>2
<1>9. ASSUME NEW x \in restarts'
      PROVE  /\ x.new <= minted'[x.run] /\ child'[<<x.run, x.new>>].st = "none"
  <2>1. CASE x \in restarts
    <3>1. x.run \in Runs /\ x.new \in Nat /\ x.new <= minted[x.run] /\ child[<<x.run, x.new>>].st = "none"
      BY <2>1, RestartToCome
    <3>. QED
      BY <1>1, <1>3, <3>1
  <2>2. ASSUME NEW s \in S, x = [run |-> s[1], old |-> s[2], new |-> minted[s[1]] + 1]
        PROVE  x.new <= minted'[x.run] /\ child'[<<x.run, x.new>>].st = "none"
    <3>1. x.run = s[1] /\ x.new = minted[s[1]] + 1
      BY <2>2
    <3>. QED
      BY <1>1, <1>2, <1>3, <1>4, <1>5, <3>1
  <2>. QED
    BY <1>7, <2>1, <2>2
<1>10. ASSUME NEW x \in restarts', NEW y \in restarts', y.run = x.run, y.new = x.new PROVE y = x
  <2>1. ASSUME NEW u \in restarts', NEW v \in restarts', u.run = v.run, u.new = v.new,
               u \in restarts, NEW s \in S,
               v = [run |-> s[1], old |-> s[2], new |-> minted[s[1]] + 1]
        PROVE  FALSE
    <3>1. /\ u.new <= minted[u.run] /\ u.run \in Runs /\ u.new \in Nat
      BY <2>1, RestartToCome
    <3>2. v.run = s[1] /\ v.new = minted[s[1]] + 1
      BY <2>1
    <3>. QED
      BY <1>3, <2>1, <3>1, <3>2
  <2>2. ASSUME NEW s \in S, x = [run |-> s[1], old |-> s[2], new |-> minted[s[1]] + 1],
               NEW t \in S, y = [run |-> t[1], old |-> t[2], new |-> minted[t[1]] + 1]
        PROVE  y = x
    <3>1. s[1] = t[1]
      BY <1>10, <2>2
    <3>2. s[2] = t[2]
      BY <1>2, <3>1
    <3>. QED
      BY <2>2, <3>1, <3>2
  <2>3. CASE x \in restarts /\ y \in restarts
    BY <1>10, <2>3 DEF Births
  <2>. QED
    BY <1>7, <1>10, <2>1, <2>2, <2>3
<1>. QED
  BY <1>6, <1>8, <1>9, <1>10 DEF Births

LEMMA ReactionBirths ==
  ASSUME Typed, Births, Reactions
  PROVE  Births'
<1>0. /\ child \in [Sessions -> Children] /\ ops \subseteq Ops
      /\ restarts \subseteq [run : Runs, old : Gens, new : Gens] /\ MaxGen \in Nat
  BY Limits DEF Typed, ChildrenTyped, StepsTyped, InnerTyped, Limits
<1>1. PICK s \in Sessions : ApplyFrame(s) \/ ExitRestarts(s) \/ ExitDecided(s) \/ ExternalStop(s) \/ SigStop(s)
  BY DEF Reactions
<1>2. CASE ApplyFrame(s) \/ ExitDecided(s) \/ ExternalStop(s)
  <2>1. UNCHANGED <<minted, restarts, child>>
    BY <1>2 DEF ApplyFrame, ExitDecided, ExternalStop, procVars
  <2>2. \A o \in ops' : o.do = "boot" => o \in ops
    <3>1. \A r, next : \A o \in Wakes(r, next) : o.do # "boot"
      BY DEF Wakes, Op
    <3>2. CASE ApplyFrame(s)
      BY <3>1, <3>2 DEF ApplyFrame
    <3>3. CASE ExitDecided(s)
      <4>1. PICK how \in ExitKinds :
              \/ ops' = ops \ {Op(how, s[1], s[2])}
              \/ ops' = (ops \ {Op(how, s[1], s[2])}) \cup {Op("external", s[1], s[2])}
              \/ \E next \in {"Failed", "Finished"} :
                   ops' = (ops \ {Op(how, s[1], s[2])}) \cup Wakes(s[1], next)
        BY <3>3 DEF ExitDecided
      <4>. QED
        BY <3>1, <4>1 DEF Op
    <3>4. CASE ExternalStop(s)
      BY <3>1, <3>4 DEF ExternalStop
    <3>. QED
      BY <1>2, <3>2, <3>3, <3>4
  <2>. QED
    BY <2>1, <2>2, NoBirth
<1>3. CASE SigStop(s)
  <2>1. /\ UNCHANGED <<minted, restarts>> /\ ops' \subseteq ops
        /\ child' = child \/ child' = [child EXCEPT ![s].halted = TRUE]
    BY <1>3 DEF SigStop, innerVars
  <2>2. \A t \in Sessions : child'[t].st = child[t].st
    BY <1>0, <2>1 DEF Children
  <2>. QED
    BY <2>1, <2>2, NoBirth
<1>4. CASE ExitRestarts(s)
  <2>1. PICK how \in ExitKinds, x \in RestartsOf(s) :
          /\ restarts' = restarts \ {x} /\ UNCHANGED <<minted, child>>
          /\ \/ ops' = (ops \ {Op(how, s[1], s[2])}) \cup Wakes(s[1], "Failed")
             \/ ops' = (ops \ {Op(how, s[1], s[2])}) \cup {Op("boot", s[1], x.new)}
    BY <1>4 DEF ExitRestarts, procVars
  <2>2. x \in restarts /\ x.run = s[1] /\ x.new \in Gens
    BY <1>0, <2>1 DEF RestartsOf
  <2>3. CASE ops' = (ops \ {Op(how, s[1], s[2])}) \cup Wakes(s[1], "Failed")
    <3>1. \A o \in ops' : o.do = "boot" => o \in ops
      BY <2>3 DEF Wakes, Op
    <3>. QED
      BY <2>1, <3>1, NoBirth
  <2>4. CASE ops' = (ops \ {Op(how, s[1], s[2])}) \cup {Op("boot", s[1], x.new)}
    <3>1. ASSUME NEW o \in ops', o.do = "boot"
          PROVE  /\ o.gen # 0 /\ o.gen <= minted[o.run] /\ child[<<o.run, o.gen>>].st = "none"
                 /\ \A y \in restarts' : y.run = o.run => y.new # o.gen
      <4>1. CASE o \in ops
        BY <2>1, <3>1, <4>1 DEF Births
      <4>2. CASE o = Op("boot", s[1], x.new)
        BY <2>1, <2>2, <4>2 DEF Births, Op, Gens
      <4>. QED
        BY <2>4, <4>1, <4>2
    <3>. QED
      BY <2>1, <3>1 DEF Births
  <2>. QED
    BY <2>1, <2>3, <2>4
<1>. QED
  BY <1>1, <1>2, <1>3, <1>4

LEMMA NextBirths ==
  ASSUME Typed, Births, Next
  PROVE  Births'
<1>0. /\ child \in [Sessions -> Children] /\ ops \subseteq Ops
      /\ restarts \subseteq [run : Runs, old : Gens, new : Gens]
  BY DEF Typed, ChildrenTyped, StepsTyped, InnerTyped
<1>. DEFINE Childless == /\ UNCHANGED <<minted, restarts, child>>
                         /\ \A o \in ops' : o.do = "boot" => o \in ops
<1>1. Childless => Births'
  BY NoBirth
<1>2. ASSUME NEW r \in Runs, Dispatch(r) PROVE Births'
  BY <1>1, <1>2 DEF Dispatch, procVars
<1>3. CASE Admission
  <2>1. UNCHANGED <<minted, restarts, child>>
    BY <1>3 DEF Admission, PumpStarts, PumpVisits, PumpTurns, innerVars, procVars
  <2>2. ops' = ops \/ \E r \in Runs : ops' = ops \cup {Op("start", r, 0)}
    <3>1. CASE PumpStarts \/ PumpTurns
      BY <3>1 DEF PumpStarts, PumpTurns
    <3>2. CASE PumpVisits
      <4>1. Oldest(pump.pass) \in Runs
        BY <3>2, OldestIsThere DEF PumpVisits, Typed, StepsTyped
      <4>. QED
        BY <3>2, <4>1 DEF PumpVisits, Admit, PassOver
    <3>. QED
      BY <1>3, <3>1, <3>2 DEF Admission
  <2>. QED
    BY <1>1, <2>1, <2>2 DEF Op
<1>4. CASE ChildSteps
  <2>1. PICK s \in Sessions : \/ \E from, to, f : Turn(s, from, to, f)
                             \/ \E how \in ExitKinds : ChildExits(s, how)
    BY <1>4 DEF ChildSteps, ChildReady, ChildTakesLine, ChildEndsTurn, ChildAsks, ChildAnswered,
                ChildFailsTurn
  <2>2. CASE \E from, to, f : Turn(s, from, to, f)
    <3>1. PICK from, to, f : Turn(s, from, to, f)
      BY <2>2
    <3>2. /\ minted' = minted /\ restarts' = restarts /\ ops' = ops
          /\ child' = [child EXCEPT ![s].mode = to, ![s].typed = @ /\ f # "Prompt"]
      BY <3>1 DEF Turn, innerVars
    <3>3. \A t \in Sessions : child'[t].st = child[t].st
      BY <1>0, <3>2 DEF Children
    <3>. QED
      BY <3>2, <3>3, NoBirth
  <2>3. CASE \E how \in ExitKinds : ChildExits(s, how)
    <3>1. PICK how \in ExitKinds : ChildExits(s, how)
      BY <2>3
    <3>2. /\ minted' = minted /\ restarts' = restarts /\ ops' = ops \cup {Op(how, s[1], s[2])}
          /\ child' = [child EXCEPT ![s].st = "gone"] /\ child[s].st # "none"
      BY <3>1 DEF ChildExits, Alive, innerVars
    <3>3. \A t \in Sessions : child[t].st = "none" => child'[t].st = "none"
      BY <1>0, <3>2
    <3>4. \A o \in ops' : o.do = "boot" => o \in ops
      BY <3>2 DEF Op, ExitKinds
    <3>. QED
      BY <3>2, <3>3, <3>4, NoBirth
  <2>. QED
    BY <2>1, <2>2, <2>3
<1>5. CASE Stops
  <2>1. PICK r \in Runs :
          \/ \E force \in BOOLEAN : PlanStop(r, force)
          \/ CancelDequeues(r) \/ CancelLands(r) \/ KillLands(r) \/ AskToWindDown(r) \/ GraceRunsOut(r)
    BY <1>5 DEF Stops
  <2>2. \A o \in Wakes(r, "Cancelled") : o.do # "boot"
    BY DEF Wakes, Op
  <2>3. CASE CancelDequeues(r) \/ CancelLands(r) \/ GraceRunsOut(r)
    <3>1. CASE CancelDequeues(r)
      BY <1>1, <3>1 DEF CancelDequeues, procVars, Op
    <3>2. CASE CancelLands(r)
      BY <1>1, <2>2, <3>2 DEF CancelLands, procVars
    <3>3. CASE GraceRunsOut(r)
      BY <1>1, <3>3 DEF GraceRunsOut, procVars, Op
    <3>. QED
      BY <2>3, <3>1, <3>2, <3>3
  <2>4. ASSUME NEW force \in BOOLEAN, PlanStop(r, force) PROVE Births'
    <3>1. UNCHANGED <<minted, restarts, child>>
      BY <2>4 DEF PlanStop, procVars
    <3>2. \A o \in ops' : o \in ops \/ o.do \in {"dequeue", "discard", "stopKill", "ask"}
      <4>1. \/ ops' = ops
            \/ ops' = ops \cup {Op(StopFollows[StopRoute(r, force)], r, session[r])}
        BY <2>4 DEF PlanStop
      <4>2. StopRoute(r, force) # "Nothing" => StopFollows[StopRoute(r, force)] \in {"dequeue", "discard", "stopKill", "ask"}
        BY DEF StopRoute, StopFollows
      <4>3. StopRoute(r, force) = "Nothing" => ops' = ops
        BY <2>4 DEF PlanStop
      <4>. QED
        BY <4>1, <4>2, <4>3 DEF Op
    <3>. QED
      BY <1>1, <3>1, <3>2
  <2>5. CASE KillLands(r) \/ AskToWindDown(r)
    <3>1. /\ minted' = minted /\ restarts' = restarts
          /\ \A o \in ops' : o.do = "boot" => o \in ops
      <4>1. CASE KillLands(r)
        BY <4>1 DEF KillLands
      <4>2. CASE AskToWindDown(r)
        BY <4>2 DEF AskToWindDown, Op
      <4>. QED
        BY <2>5, <4>1, <4>2
    <3>2. \A t \in Sessions : child[t].st = "none" => child'[t].st = "none"
      <4>1. ASSUME NEW g \in 0 .. MaxGen, Killed(<<r, g>>)
            PROVE  \A t \in Sessions : child[t].st = "none" => child'[t].st = "none"
        <5>1. child' = child \/ (Registered(<<r, g>>) /\ \A t \in Sessions : t # <<r, g>> => child'[t] = child[t])
          BY <1>0, <4>1 DEF Killed
        <5>. QED
          BY <5>1 DEF Registered
      <4>2. CASE KillLands(r)
        BY <4>1, <4>2 DEF KillLands
      <4>3. CASE AskToWindDown(r)
        <5>1. PICK g \in 0 .. MaxGen : child' = child \/ child' = [child EXCEPT ![<<r, g>>].typed = TRUE]
          BY <4>3 DEF AskToWindDown
        <5>. QED
          BY <5>1, LinesStopNobody
      <4>. QED
        BY <2>5, <4>2, <4>3
    <3>. QED
      BY <3>1, <3>2, NoBirth
  <2>. QED
    BY <2>1, <2>3, <2>4, <2>5
<1>6. CASE FollowUps
  <2>1. PICK r \in Runs : FollowUp(r) \/ HeldFollowUp(r) \/ Reserve(r) \/ SendPrompt(r)
    BY <1>6 DEF FollowUps
  <2>2. /\ minted' = minted /\ restarts' = restarts /\ \A o \in ops' : o.do = "boot" => o \in ops
        /\ child' = child \/ \E g \in Gens : child' = [child EXCEPT ![<<r, g>>].typed = TRUE]
    <3>1. CASE FollowUp(r) \/ HeldFollowUp(r)
      BY <3>1 DEF FollowUp, HeldFollowUp, PlanFollowUp, UnchangedByFollowUp, procVars, Op
    <3>2. CASE Reserve(r)
      BY <3>2 DEF Reserve, procVars, Op
    <3>3. CASE SendPrompt(r)
      BY <3>3 DEF SendPrompt
    <3>. QED
      BY <2>1, <3>1, <3>2, <3>3
  <2>3. \A t \in Sessions : child'[t].st = child[t].st
    BY <2>2, LinesStopNobody
  <2>. QED
    BY <2>2, <2>3, NoBirth
<1>7. CASE Pauses
  BY <1>1, <1>7 DEF Pauses, PauseRun, PauseProject, Freeze, procVars, Op
<1>8. CASE Resumes
  <2>1. CASE PlanRestarts
    BY <2>1, RestartBirths
  <2>2. CASE SigCont \/ EndOldChildren
    <3>1. UNCHANGED <<minted, restarts, ops>>
      BY <2>2 DEF SigCont, EndOldChildren, innerVars
    <3>2. \A t \in Sessions : child[t].st = "none" => child'[t].st = "none"
      BY <1>0, <2>2 DEF SigCont, EndOldChildren, Children
    <3>. QED
      BY <3>1, <3>2, NoBirth
  <2>3. CASE ReclaimSlot
    BY <1>1, <2>3 DEF ReclaimSlot, procVars
  <2>4. CASE FinishThaws
    BY <1>1, <2>4 DEF FinishThaws, procVars
  <2>5. CASE \E r \in Runs : RequeueOne(r)
    BY <1>1, <2>5 DEF RequeueOne, procVars
  <2>6. CASE Resume \/ ReclaimTakesLock \/ RequeueTakesLock \/ ResumeDone
    BY <1>1, <2>6 DEF Resume, ResumePlans, ReclaimTakesLock, RequeueTakesLock, ResumeDone,
                      innerVars, procVars
  <2>. QED
    BY <1>8, <2>1, <2>2, <2>3, <2>4, <2>5, <2>6 DEF Resumes
<1>. QED
  BY <1>2, <1>3, <1>4, <1>5, <1>6, <1>7, <1>8, StartsBirths, ReactionBirths DEF Next

------------------------------------------------------------------------------
(* What leaves a run sound *)

\* No child of the run is stopped, nor one that was going set up again.
Tame(r) ==
    \A g \in Gens : LET s == <<r, g>> IN
        /\ child'[s].st = "live" /\ child'[s].halted => child[s].st = "live"
        /\ child'[s].halted => child[s].halted
        /\ child[s].st \in GoneOrGoing => child'[s].st \in GoneOrGoing

\* What resume has before it of the run's children is what it had.
Onward(r) ==
    /\ \A g \in Gens : LET s == <<r, g>> IN
        /\ ToBeEnded(s) => ToBeEnded(s)' \/ child'[s].st # "live"
        /\ s \in resume'.thaws /\ resume'.phase \in Thawing =>
             /\ s \in resume.thaws /\ resume.phase \in Thawing
             /\ resume'.phase = "finish" => resume.phase = "finish" \/ ~child'[s].halted
    /\ resume'.runs = resume.runs \/ resume'.phase = "idle"
    /\ resume.phase = "idle" => resume'.phase = "idle"

\* A mark goes with the child it is on.
MarksStay(r) ==
    \A g \in Gens : LET s == <<r, g>> IN
        /\ Marked(s)' => Marked(s)
        /\ Marked(s) => Marked(s)' \/ child'[s].st \in GoneOrGoing

\* The run's marks go, when no SIGSTOP is to come that would look for one.
MarksGo(r) ==
    /\ frozen'[r] = NoFreeze
    /\ \A g \in Gens : LET s == <<r, g>> IN
        /\ ~Marked(s)'
        /\ Marked(s) => /\ child'[s].st = "live" /\ child'[s].halted => Known(s)'
                        /\ Rests(r)' \/ \A o \in ops : o.do = "sigstop" => o.run # r

LEMMA MovedIsSound ==
  ASSUME Typed, Typed', NEW r \in Runs, Sound(r), RowSound(r)', Onward(r), Tame(r),
         Rests(r) => Rests(r)',
         \/ /\ session'[r] = session[r] /\ (frozen'[r] = NoFreeze <=> frozen[r] = NoFreeze)
            /\ MarksStay(r)
         \/ MarksGo(r),
         \A o \in ops' : o.run = r => /\ o.do \notin {"exitTerm", "external"}
                                      /\ o.do = "start" => StartSound(o)'
                                      /\ o.do = "sigstop" => o \in ops
  PROVE  Sound(r)'
<1>1. ops \subseteq Ops /\ MaxGen \in Nat
  BY Limits DEF Typed, StepsTyped, Limits
<1>2. ASSUME NEW o \in ops', o.run = r PROVE StepSound(o)'
  <2>1. ASSUME o.do = "sigstop" PROVE SignalSound(o)'
    <3>1. o \in ops /\ SignalSound(o)
      BY <1>2, <2>1 DEF Sound, StepSound
    <3>2. o.gen \in Gens
      BY <1>1, <3>1 DEF SignalSound, Ops, Gens
    <3>3. \/ Marked(<<r, o.gen>>)'
          \/ child'[<<r, o.gen>>].st \in GoneOrGoing
          \/ Rests(r)'
      BY <1>2, <2>1, <3>1, <3>2 DEF SignalSound, MarksStay, MarksGo, Tame
    <3>. QED
      BY <1>2, <3>1, <3>2, <3>3 DEF SignalSound, Onward
  <2>. QED
    BY <1>2, <2>1 DEF StepSound
<1>3. ASSUME NEW g \in Gens PROVE ChildSound(<<r, g>>)'
  <2>. DEFINE s == <<r, g>>
  <2>1. ChildSound(s)
    BY DEF Sound
  <2>2. ASSUME child'[s].st = "live", child'[s].halted PROVE Known(s)'
    <3>1. Known(s) /\ ~(child'[s].st \in GoneOrGoing)
      BY <2>1, <2>2 DEF Tame, ChildSound, GoneOrGoing
    <3>. QED
      BY <2>2, <3>1 DEF Known, Onward, MarksStay, MarksGo
  <2>3. Marked(s)' => frozen'[r] # NoFreeze /\ session'[r] = g
    BY <2>1 DEF ChildSound, MarksStay, MarksGo
  <2>4. ASSUME s \in resume'.thaws, resume'.phase \in Thawing PROVE ThawSound(s)'
    <3>1. /\ s \in resume.thaws /\ resume.phase \in Thawing /\ resume'.runs = resume.runs
          /\ resume'.phase = "finish" => resume.phase = "finish" \/ ~child'[s].halted
      BY <2>4 DEF Onward, Thawing
    <3>2. ThawSound(s)
      BY <2>1, <3>1 DEF ChildSound
    <3>3. frozen'[r] = NoFreeze \/ session'[r] = g
      BY <3>2 DEF ThawSound, MarksGo
    <3>. QED
      BY <3>1, <3>2, <3>3 DEF ThawSound, Tame
  <2>. QED
    BY <2>2, <2>3, <2>4 DEF ChildSound
<1>. QED
  BY <1>2, <1>3 DEF Sound

\* A run that a step passes by: it may leave the line, steps of it may be done, and
\* steps may be added that neither start nor stop a child.
Same(r) ==
    /\ session'[r] = session[r] /\ state'[r] = state[r] /\ frozen'[r] = frozen[r]
    /\ (InLine(r)' => InLine(r)) /\ MarksStay(r) /\ Tame(r)
    /\ \A o \in ops' : o.run = r =>
         o \in ops \/ o.do \notin {"start", "sigstop", "exitTerm", "external"}

LEMMA SameIsSound ==
  ASSUME Typed, Typed', NEW r \in Runs, Sound(r), Same(r), Onward(r)
  PROVE  Sound(r)'
<1>1. RowSound(r)' /\ (Rests(r) => Rests(r)')
  BY DEF Same, Sound, RowSound, Rests
<1>2. \A o \in ops' : o.run = r => /\ o.do \notin {"exitTerm", "external"}
                                   /\ o.do = "start" => StartSound(o)'
                                   /\ o.do = "sigstop" => o \in ops
  BY DEF Same, Sound, StepSound, StartSound
<1>. QED
  BY <1>1, <1>2, MovedIsSound DEF Same

\* An unfrozen run has no marks, and one in line is not frozen.
LEMMA Unmarked ==
  ASSUME NEW r \in Runs, Sound(r), frozen[r] = NoFreeze \/ InLine(r)
  PROVE  frozen[r] = NoFreeze /\ \A g \in Gens : ~Marked(<<r, g>>)
BY DEF Sound, RowSound, ChildSound

\* A run that ends (set_state_from_session's `over` arm), in its queue or out of it.
LEMMA EndedIsSound ==
  ASSUME Typed, Typed', NEW r \in Runs, Sound(r), NEW next \in Ended, NEW clean,
         Settle(r, next, clean), session'[r] \in {session[r], 0}, InLine(r)' => InLine(r),
         Onward(r), Tame(r),
         \A o \in ops' : o.run = r =>
           o \in ops \/ o.do \notin {"start", "sigstop", "exitTerm", "external"}
  PROVE  Sound(r)'
<1>1. /\ state \in [Runs -> RunStates] /\ frozen \in [Runs -> Freezes]
  BY DEF Typed, RowsTyped
<1>2. Landed(r, next) \in Ended
  BY DEF Landed, Ended
<1>3. state'[r] \in Ended
  BY <1>1, <1>2 DEF Settle, SetState
<1>4. frozen'[r] = NoFreeze /\ \A g \in Gens : ~Marked(<<r, g>>)'
  <2>1. CASE Landed(r, next) = state[r]
    <3>1. UNCHANGED <<frozen, frozenSessions>> /\ state[r] # "Paused"
      BY <1>2, <2>1 DEF Settle, Ended
    <3>2. frozen[r] = NoFreeze
      BY <3>1 DEF Sound, RowSound
    <3>. QED
      BY <3>1, <3>2, Unmarked DEF Marked
  <2>2. CASE Landed(r, next) # state[r]
    <3>1. /\ frozen' = [frozen EXCEPT ![r] = NoFreeze]
          /\ frozenSessions' = {s \in frozenSessions : s[1] # r}
      BY <1>2, <2>2 DEF Settle, SetState, ForgetsFreeze, Over
    <3>. QED
      BY <1>1, <3>1 DEF Marked
  <2>. QED
    BY <2>1, <2>2
<1>5. RowSound(r)'
  BY <1>3, <1>4 DEF Sound, RowSound, Ended
<1>6. Rests(r) => Rests(r)'
  BY <1>3 DEF Rests
<1>7. ASSUME NEW g \in Gens, Marked(<<r, g>>) PROVE Rests(r)'
  BY <1>3, <1>7, Unmarked DEF Rests
<1>8. MarksGo(r)
  BY <1>4, <1>7 DEF MarksGo, Known
<1>9. \A o \in ops' : o.run = r => /\ o.do \notin {"exitTerm", "external"}
                                   /\ o.do = "start" => StartSound(o)'
                                   /\ o.do = "sigstop" => o \in ops
  BY <1>3 DEF Sound, StepSound, StartSound, Ended
<1>. QED
  BY <1>5, <1>6, <1>8, <1>9, MovedIsSound

\* What the same step leaves of the others.
LEMMA EndingPassesBy ==
  ASSUME Typed, NEW r \in Runs, NEW next, NEW clean,
         SetState(r, next, clean) \/ Settle(r, next, clean), NEW q \in Runs, q # r
  PROVE  /\ state'[q] = state[q] /\ frozen'[q] = frozen[q]
         /\ \A g \in Gens : Marked(<<q, g>>)' <=> Marked(<<q, g>>)
<1>1. /\ state \in [Runs -> RunStates] /\ frozen \in [Runs -> Freezes]
  BY DEF Typed, RowsTyped
<1>. QED
  BY <1>1 DEF Settle, SetState, ForgetsFreeze, Marked

AllSound == \A r \in Runs : Sound(r)

LEMMA StillOnward ==
  ASSUME NEW r \in Runs, resume' = resume
  PROVE  Onward(r)
BY DEF Onward, ToBeEnded

\* A step that touches nothing a run's soundness rests on.
Quietly == /\ UNCHANGED <<session, state, frozen, frozenSessions, resume>>
           /\ \A r \in Runs : Tame(r) /\ (InLine(r)' => InLine(r))
           /\ \A o \in ops' : o \in ops \/ o.do \notin {"start", "sigstop", "exitTerm", "external"}

LEMMA QuietIsSound ==
  ASSUME Typed, Typed', AllSound, Quietly
  PROVE  AllSound'
<1>. SUFFICES ASSUME NEW r \in Runs PROVE Sound(r)'
  BY DEF AllSound
<1>1. Same(r)
  BY DEF Quietly, Same, MarksStay, Marked
<1>2. Onward(r)
  BY StillOnward DEF Quietly
<1>. QED
  BY <1>1, <1>2, SameIsSound DEF AllSound

LEMMA SameLine == ASSUME queues' = queues, pump' = pump, NEW r \in Runs PROVE InLine(r)' <=> InLine(r)
BY DEF InLine, Stands

\* Joining a queue puts nobody else in line, and leaving it nobody.
LEMMA PushedInLine ==
  ASSUME queues \in [Keys -> Seq(Runs)], NEW r \in Runs, pump'.pass = pump.pass,
         queues' = PushBack(r) \/ queues' = PushFront(r), NEW q \in Runs, q # r
  PROVE  InLine(q)' => InLine(q)
<1>. SUFFICES ASSUME Stands(q)' PROVE Stands(q)
  BY DEF InLine
<1>1. /\ KeyOf[r] \in Keys /\ queues[KeyOf[r]] \in Seq(Runs)
      /\ KeyOf[q] \in Keys /\ queues[KeyOf[q]] \in Seq(Runs)
  BY Stamps DEF Stamps
<1>2. CASE KeyOf[q] # KeyOf[r]
  <2>1. queues'[KeyOf[q]] = queues[KeyOf[q]]
    BY <1>1, <1>2 DEF PushBack, PushFront
  <2>. QED
    BY <2>1 DEF Stands
<1>3. CASE KeyOf[q] = KeyOf[r] /\ queues' = PushBack(r)
  <2>1. queues'[KeyOf[q]] = Append(queues[KeyOf[q]], r)
    BY <1>1, <1>3 DEF PushBack
  <2>. QED
    BY <1>1, <2>1 DEF Stands
<1>4. CASE KeyOf[q] = KeyOf[r] /\ queues' = PushFront(r)
  <2>1. queues'[KeyOf[q]] = <<r>> \o queues[KeyOf[q]]
    BY <1>1, <1>4 DEF PushFront
  <2>2. PICK i \in 1 .. Len(queues'[KeyOf[q]]) : queues'[KeyOf[q]][i] = q
    BY DEF Stands
  <2>3. /\ i - 1 \in 1 .. Len(queues[KeyOf[q]]) /\ queues[KeyOf[q]][i - 1] = q
    BY <1>1, <2>1, <2>2
  <2>. QED
    BY <2>3 DEF Stands
<1>. QED
  BY <1>2, <1>3, <1>4

LEMMA DequeuedInLine ==
  ASSUME queues \in [Keys -> Seq(Runs)], NEW r \in Runs, queues' = Dequeued(r)
  PROVE  ~Stands(r)' /\ \A q \in Runs : Stands(q)' => Stands(q)
<1>1. \A k \in Keys : \A i \in 1 .. Len(queues'[k]) :
        /\ \E j \in 1 .. Len(queues[k]) : queues'[k][i] = queues[k][j]
        /\ k = KeyOf[r] => queues'[k][i] # r
  <2>. DEFINE d == Dequeued(r)
  <2>1. \A k \in Keys : \A i \in 1 .. Len(d[k]) :
          /\ \E j \in 1 .. Len(queues[k]) : d[k][i] = queues[k][j]
          /\ k = KeyOf[r] => d[k][i] # r
    BY DequeuedLeaves
  <2>2. queues' = d
    OBVIOUS
  <2>. HIDE DEF d
  <2>. QED
    BY <2>1, <2>2
<1>2. \A q \in Runs : KeyOf[q] \in Keys
  BY Stamps DEF Stamps
<1>. QED
  BY <1>1, <1>2 DEF Stands

LEMMA FrontsStand == ASSUME queues \in [Keys -> Seq(Runs)], NEW r \in Fronts PROVE Stands(r)
<1>1. /\ KeyOf[r] \in Keys /\ queues[KeyOf[r]] # <<>> /\ Head(queues[KeyOf[r]]) = r
      /\ queues[KeyOf[r]] \in Seq(Runs)
  BY Stamps DEF Fronts, Stamps
<1>2. Len(queues[KeyOf[r]]) \in Nat \ {0} /\ queues[KeyOf[r]][1] = r
  BY <1>1
<1>. QED
  BY <1>2 DEF Stands

------------------------------------------------------------------------------
(* Dispatch, admission, and the starts *)

LEMMA DispatchIsSound ==
  ASSUME Typed, Typed', queues \in [Keys -> Seq(Runs)], AllSound, NEW r \in Runs, Dispatch(r)
  PROVE  AllSound'
<1>1. /\ state[r] = "None" /\ state' = [state EXCEPT ![r] = "Queued"] /\ queues' = PushBack(r)
      /\ UNCHANGED <<session, frozen, child, frozenSessions, ops, resume, pump>>
  BY DEF Dispatch, procVars
<1>2. /\ state \in [Runs -> RunStates]
  BY DEF Typed, RowsTyped
<1>3. ASSUME NEW q \in Runs PROVE Tame(q) /\ Onward(q) /\ MarksStay(q)
  BY <1>1, StillOnward DEF Tame, MarksStay, Marked
<1>4. Sound(r)'
  <2>1. Sound(r) /\ session[r] = 0 /\ frozen[r] = NoFreeze /\ state'[r] = "Queued"
    BY <1>1, <1>2 DEF AllSound, Sound, RowSound
  <2>2. RowSound(r)' /\ ~Rests(r)
    BY <1>1, <2>1 DEF RowSound, Rests, Ended
  <2>3. \A o \in ops' : o.run = r => /\ o.do \notin {"exitTerm", "external", "start"}
                                     /\ o.do = "sigstop" => o \in ops
    BY <1>1, <2>1 DEF Sound, StepSound, StartSound
  <2>. QED
    BY <1>1, <1>3, <2>1, <2>2, <2>3, MovedIsSound
<1>5. ASSUME NEW q \in Runs, q # r PROVE Sound(q)'
  <2>1. Same(q)
    BY <1>1, <1>2, <1>3, <1>5, PushedInLine DEF Same
  <2>. QED
    BY <1>3, <2>1, SameIsSound DEF AllSound
<1>. QED
  BY <1>4, <1>5 DEF AllSound

LEMMA AdmitIsSound ==
  ASSUME Typed, Typed', queues \in [Keys -> Seq(Runs)], AllSound, NEW r \in pump.pass, r \in Runs,
         Admit(r), UNCHANGED <<session, frozen, child, frozenSessions, resume>>
  PROVE  AllSound'
<1>1. /\ state' = [state EXCEPT ![r] = "Starting"] /\ queues' = Dequeued(r)
      /\ ops' = ops \cup {Op("start", r, 0)}
      /\ pump' = [pump EXCEPT !.pass = @ \ {r}, !.moved = TRUE]
  BY DEF Admit
<1>2. state \in [Runs -> RunStates] /\ pump'.pass = pump.pass \ {r}
  BY <1>1 DEF Typed, RowsTyped, StepsTyped
<1>3. ~InLine(r)' /\ \A q \in Runs : InLine(q)' => InLine(q)
  BY <1>1, <1>2, DequeuedInLine DEF InLine
<1>4. ASSUME NEW q \in Runs PROVE Tame(q) /\ Onward(q) /\ MarksStay(q)
  BY <1>1, StillOnward DEF Tame, MarksStay, Marked
<1>5. /\ Op("start", r, 0).do = "start" /\ Op("start", r, 0).run = r /\ Op("start", r, 0).gen = 0
  BY DEF Op
<1>6. Sound(r)'
  <2>1. Sound(r) /\ InLine(r) /\ session[r] = 0 /\ frozen[r] = NoFreeze /\ state'[r] = "Starting"
    BY <1>1, <1>2, Unmarked DEF AllSound, Sound, RowSound, InLine
  <2>2. RowSound(r)' /\ ~Rests(r)
    BY <2>1 DEF RowSound, Rests
  <2>3. \A o \in ops' : o.run = r => /\ o.do \notin {"exitTerm", "external"}
                                     /\ o.do = "start" => StartSound(o)'
                                     /\ o.do = "sigstop" => o \in ops
    BY <1>1, <1>3, <1>5, <2>1 DEF Sound, StepSound, StartSound
  <2>. QED
    BY <1>4, <2>1, <2>2, <2>3, MovedIsSound
<1>7. ASSUME NEW q \in Runs, q # r PROVE Sound(q)'
  <2>1. Same(q)
    BY <1>1, <1>2, <1>3, <1>4, <1>5, <1>7 DEF Same
  <2>. QED
    BY <1>4, <2>1, SameIsSound DEF AllSound
<1>. QED
  BY <1>6, <1>7 DEF AllSound

LEMMA AdmissionIsSound ==
  ASSUME Typed, Typed', queues \in [Keys -> Seq(Runs)], AllSound, Admission
  PROVE  AllSound'
<1>1. UNCHANGED <<session, frozen, child, frozenSessions, resume>>
  BY DEF Admission, PumpStarts, PumpVisits, PumpTurns, rowVars, innerVars, procVars
<1>2. \A r \in Runs : Tame(r)
  BY <1>1 DEF Tame
<1>3. CASE PumpStarts \/ PumpTurns
  <2>1. UNCHANGED <<state, queues, ops>> /\ pump'.pass \subseteq Fronts
    BY <1>3 DEF PumpStarts, PumpTurns, IdlePump, rowVars, innerVars
  <2>2. \A r \in Runs : InLine(r)' => InLine(r)
    BY <2>1, FrontsStand DEF InLine, Stands
  <2>. QED
    BY <1>1, <1>2, <2>1, <2>2, QuietIsSound DEF Quietly
<1>4. CASE PumpVisits
  <2>1. Oldest(pump.pass) \in pump.pass /\ pump.pass \subseteq Runs
    BY <1>4, OldestIsThere DEF PumpVisits, Typed, StepsTyped
  <2>2. PICK r \in pump.pass : r \in Runs /\ (Admit(r) \/ PassOver(r))
    BY <1>4, <2>1 DEF PumpVisits
  <2>3. CASE PassOver(r)
    <3>1. UNCHANGED <<state, queues, ops>> /\ pump'.pass \subseteq pump.pass
      BY <2>3 DEF PassOver, Typed, StepsTyped
    <3>2. \A q \in Runs : InLine(q)' => InLine(q)
      BY <3>1 DEF InLine, Stands
    <3>. QED
      BY <1>1, <1>2, <3>1, <3>2, QuietIsSound DEF Quietly
  <2>. QED
    BY <1>1, <2>2, <2>3, AdmitIsSound
<1>. QED
  BY <1>3, <1>4 DEF Admission

LEMMA BindIsSound ==
  ASSUME Typed, Typed', AllSound, NEW r \in Runs, Bind(r)
  PROVE  AllSound'
<1>1. /\ Op("start", r, 0) \in ops /\ minted[r] < MaxGen
      /\ minted' = [minted EXCEPT ![r] = @ + 1] /\ session' = [session EXCEPT ![r] = minted'[r]]
      /\ ops' = (ops \ {Op("start", r, 0)}) \cup {Op("boot", r, minted'[r])}
      /\ UNCHANGED <<state, frozen, child, frozenSessions, queues, resume, pump>>
  BY DEF Bind
<1>2. /\ minted \in [Runs -> 0 .. MaxGen] /\ session \in [Runs -> 0 .. MaxGen] /\ ops \subseteq Ops
  BY DEF Typed, ChildrenTyped, RowsTyped, StepsTyped
<1>3. ASSUME NEW q \in Runs PROVE Tame(q) /\ Onward(q) /\ MarksStay(q) /\ (InLine(q)' <=> InLine(q))
  BY <1>1, StillOnward, SameLine DEF Tame, MarksStay, Marked
<1>4. Sound(r) /\ state[r] # "None" /\ session[r] = 0 /\ ~InLine(r) /\ frozen[r] = NoFreeze
  BY <1>1 DEF AllSound, Sound, StepSound, StartSound, Op, RowSound
<1>5. session'[r] # 0
  BY <1>1, <1>2
<1>6. \A o \in ops' : (o \in ops /\ (o.run = r => o.do # "start")) \/ o.do = "boot"
  <2>1. \A o \in ops : o.do = "start" /\ o.run = r => o = Op("start", r, 0)
    BY <1>2, <1>4 DEF Sound, StepSound, StartSound, Op, Ops
  <2>. QED
    BY <1>1, <2>1 DEF Op
<1>7. Sound(r)'
  <2>1. RowSound(r)' /\ (Rests(r) => Rests(r)') /\ MarksGo(r)
    BY <1>1, <1>3, <1>4, <1>5, Unmarked DEF Sound, RowSound, Rests, MarksGo, Marked
  <2>2. \A o \in ops' : o.run = r => /\ o.do \notin {"exitTerm", "external", "start"}
                                     /\ o.do = "sigstop" => o \in ops
    BY <1>4, <1>6 DEF Sound, StepSound
  <2>. QED
    BY <1>3, <1>4, <2>1, <2>2, MovedIsSound
<1>8. ASSUME NEW q \in Runs, q # r PROVE Sound(q)'
  <2>1. Same(q)
    BY <1>1, <1>2, <1>3, <1>6, <1>8 DEF Same
  <2>. QED
    BY <1>3, <2>1, SameIsSound DEF AllSound
<1>. QED
  BY <1>7, <1>8 DEF AllSound

LEMMA AbandonIsSound ==
  ASSUME Typed, Typed', queues \in [Keys -> Seq(Runs)], AllSound, NEW r \in Runs, NEW g \in Gens,
         AbandonUnsubmitted(r, g)
  PROVE  AllSound'
<1>1. /\ session[r] = g /\ state[r] \in {"Starting", "Idle"}
      /\ session' = [session EXCEPT ![r] = 0] /\ state' = [state EXCEPT ![r] = "Queued"]
      /\ queues' = PushFront(r)
      /\ ops' = (ops \ {Op("opening", r, g)}) \cup {Op("kill", r, g)}
      /\ UNCHANGED <<frozen, child, frozenSessions, resume, pump>>
  BY DEF AbandonUnsubmitted, OpeningNeverTook, procVars
<1>2. /\ state \in [Runs -> RunStates] /\ session \in [Runs -> 0 .. MaxGen] /\ g # 0
  BY DEF Typed, RowsTyped, Gens
<1>3. ASSUME NEW q \in Runs PROVE Tame(q) /\ Onward(q) /\ MarksStay(q)
  BY <1>1, StillOnward DEF Tame, MarksStay, Marked
<1>4. Sound(r) /\ frozen[r] = NoFreeze /\ state'[r] = "Queued" /\ session'[r] = 0
  BY <1>1, <1>2 DEF AllSound, Sound, RowSound
<1>5. \A o \in ops' : o \in ops \/ o.do = "kill"
  BY <1>1 DEF Op
<1>6. Sound(r)'
  <2>1. RowSound(r)' /\ ~Rests(r) /\ MarksGo(r)
    BY <1>1, <1>4, Unmarked DEF RowSound, Rests, Ended, MarksGo, Marked
  <2>2. \A o \in ops' : o.run = r => /\ o.do \notin {"exitTerm", "external", "start"}
                                     /\ o.do = "sigstop" => o \in ops
    BY <1>1, <1>2, <1>4, <1>5 DEF Sound, StepSound, StartSound
  <2>. QED
    BY <1>3, <1>4, <2>1, <2>2, MovedIsSound
<1>7. ASSUME NEW q \in Runs, q # r PROVE Sound(q)'
  <2>1. Same(q)
    BY <1>1, <1>2, <1>3, <1>5, <1>7, PushedInLine DEF Same
  <2>. QED
    BY <1>3, <2>1, SameIsSound DEF AllSound
<1>. QED
  BY <1>6, <1>7 DEF AllSound

\* A run that ends, with its session taken off it or not, while the others go on.
LEMMA OneEndsIsSound ==
  ASSUME Typed, Typed', AllSound, NEW r \in Runs, NEW next \in Ended, NEW clean,
         Settle(r, next, clean), session'[r] \in {session[r], 0},
         \A q \in Runs : q # r => session'[q] = session[q],
         UNCHANGED <<child, queues, pump, resume>>,
         \A o \in ops' : o \in ops \/ o.do \notin {"start", "sigstop", "exitTerm", "external"}
  PROVE  AllSound'
<1>1. ASSUME NEW q \in Runs PROVE Tame(q) /\ Onward(q) /\ (InLine(q)' <=> InLine(q))
  BY StillOnward, SameLine DEF Tame
<1>2. Sound(r)'
  BY <1>1, EndedIsSound DEF AllSound
<1>3. ASSUME NEW q \in Runs, q # r PROVE Sound(q)'
  <2>1. /\ state'[q] = state[q] /\ frozen'[q] = frozen[q]
        /\ \A g \in Gens : Marked(<<q, g>>)' <=> Marked(<<q, g>>)
    BY <1>3, EndingPassesBy
  <2>2. Same(q)
    BY <1>1, <1>3, <2>1 DEF Same, MarksStay
  <2>. QED
    BY <1>1, <2>2, SameIsSound DEF AllSound
<1>. QED
  BY <1>2, <1>3 DEF AllSound

LEMMA WakesStartNothing ==
  ASSUME NEW r, NEW next
  PROVE  \A o \in Wakes(r, next) : o.do \in {"follow", "kill"}
BY DEF Wakes, Op

LEMMA StartsAreSound ==
  ASSUME Typed, Typed', queues \in [Keys -> Seq(Runs)], AllSound, Births, Starts
  PROVE  AllSound'
<1>1. PICK r \in Runs :
        \/ Bind(r)
        \/ \E g \in Gens : Fork(r, g) \/ BootFails(r, g) \/ AbandonUnsubmitted(r, g)
                         \/ OpeningGivesUp(r, g) \/ OpeningDone(r, g)
        \/ \E g \in 0 .. MaxGen : FinishFailed(r, g)
  BY DEF Starts
<1>2. child \in [Sessions -> Children]
  BY DEF Typed, ChildrenTyped
<1>3. ASSUME NEW g \in Gens, Fork(r, g) PROVE AllSound'
  <2>1. /\ UNCHANGED <<session, state, frozen, frozenSessions, resume, queues, pump>>
        /\ Op("boot", r, g) \in ops
        /\ child' = [child EXCEPT ![<<r, g>>] = [NoChild EXCEPT !.st = "live", !.typed = session[r] = g]]
        /\ \A o \in ops' : o \in ops \/ o.do = "opening"
    BY <1>3 DEF Fork, rowVars, innerVars, Op
  <2>2. <<r, g>> \in Sessions /\ child[<<r, g>>].st = "none"
    BY <2>1 DEF Births, Op, Sessions
  <2>3. ~child'[<<r, g>>].halted
    BY <1>2, <2>1, <2>2 DEF NoChild
  <2>4. \A q \in Runs : Tame(q)
    BY <1>2, <2>1, <2>2, <2>3 DEF Tame, GoneOrGoing, Sessions
  <2>. QED
    BY <2>1, <2>4, SameLine, QuietIsSound DEF Quietly
<1>4. ASSUME NEW g \in Gens, BootFails(r, g) \/ OpeningGivesUp(r, g) \/ OpeningDone(r, g)
      PROVE  AllSound'
  <2>1. /\ UNCHANGED <<session, state, frozen, frozenSessions, resume, queues, pump, child>>
        /\ \A o \in ops' : o \in ops \/ o.do = "giveUp"
    BY <1>4 DEF BootFails, OpeningGivesUp, OpeningDone, rowVars, innerVars, procVars, Op
  <2>2. \A q \in Runs : Tame(q)
    BY <2>1 DEF Tame
  <2>. QED
    BY <2>1, <2>2, SameLine, QuietIsSound DEF Quietly
<1>5. ASSUME NEW g \in 0 .. MaxGen, FinishFailed(r, g) PROVE AllSound'
  <2>1. /\ Settle(r, "Failed", FALSE) /\ session' = [session EXCEPT ![r] = 0]
        /\ UNCHANGED <<child, queues, pump, resume>>
        /\ \A o \in ops' : o \in ops \/ o.do \in {"follow", "kill"}
    <3>1. /\ Settle(r, "Failed", FALSE) /\ session' = [session EXCEPT ![r] = 0]
          /\ UNCHANGED <<child, queues, pump, resume>>
          /\ ops' = (ops \ {Op("giveUp", r, g)}) \cup Wakes(r, "Failed")
                       \cup (IF g = 0 THEN {} ELSE {Op("kill", r, g)})
      BY <1>5 DEF FinishFailed, FailedStart, procVars
    <3>2. Op("kill", r, g).do = "kill"
      BY DEF Op
    <3>. QED
      BY <3>1, <3>2, WakesStartNothing
  <2>2. session \in [Runs -> 0 .. MaxGen]
    BY DEF Typed, RowsTyped
  <2>3. session'[r] = 0 /\ \A q \in Runs : q # r => session'[q] = session[q]
    BY <2>1, <2>2
  <2>. QED
    BY <2>1, <2>3, OneEndsIsSound DEF Ended
<1>. QED
  BY <1>1, <1>3, <1>4, <1>5, BindIsSound, AbandonIsSound

------------------------------------------------------------------------------
(* Children, their frames, exits and signals *)

LEMMA ChildStepsAreSound ==
  ASSUME Typed, Typed', AllSound, budget["term"] = 0, ChildSteps
  PROVE  AllSound'
<1>1. PICK s \in Sessions : \/ \E from, to, f : Turn(s, from, to, f)
                           \/ \E how \in ExitKinds : ChildExits(s, how)
  BY DEF ChildSteps, ChildReady, ChildTakesLine, ChildEndsTurn, ChildAsks, ChildAnswered,
         ChildFailsTurn
<1>2. child \in [Sessions -> Children] /\ child[s] \in Children
  BY DEF Typed, ChildrenTyped
<1>3. CASE \E from, to, f : Turn(s, from, to, f)
  <2>1. PICK from, to, f : Turn(s, from, to, f)
    BY <1>3
  <2>2. /\ UNCHANGED <<session, state, frozen, frozenSessions, resume, queues, pump, ops>>
        /\ child' = [child EXCEPT ![s].mode = to, ![s].typed = @ /\ f # "Prompt"]
    BY <2>1 DEF Turn, rowVars, innerVars
  <2>3. \A t \in Sessions : child'[t].st = child[t].st /\ child'[t].halted = child[t].halted
    BY <1>2, <2>2 DEF Children
  <2>4. \A q \in Runs : Tame(q)
    BY <2>3 DEF Tame, Sessions
  <2>. QED
    BY <2>2, <2>4, SameLine, QuietIsSound DEF Quietly
<1>4. ASSUME NEW how \in ExitKinds, ChildExits(s, how) PROVE AllSound'
  <2>1. /\ UNCHANGED <<session, state, frozen, frozenSessions, resume, queues, pump>>
        /\ child' = [child EXCEPT ![s].st = "gone"] /\ ops' = ops \cup {Op(how, s[1], s[2])}
        /\ ~child[s].halted
    BY <1>4 DEF ChildExits, Alive, rowVars, innerVars
  <2>2. how # "exitTerm"
    BY <1>4 DEF ChildExits, Spend
  <2>3. \A t \in Sessions : /\ t # s => child'[t] = child[t]
                            /\ child'[s].st = "gone" /\ child'[s].halted = child[s].halted
    BY <1>2, <2>1 DEF Children
  <2>4. \A q \in Runs : Tame(q)
    BY <2>1, <2>3 DEF Tame, Sessions, GoneOrGoing
  <2>5. \A o \in ops' : o \in ops \/ o.do \notin {"start", "sigstop", "exitTerm", "external"}
    BY <2>1, <2>2 DEF Op, ExitKinds
  <2>. QED
    BY <2>1, <2>4, <2>5, SameLine, QuietIsSound DEF Quietly
<1>. QED
  BY <1>1, <1>3, <1>4

LEMMA FrameIsSound ==
  ASSUME Typed, Typed', AllSound, NEW s \in Sessions, ApplyFrame(s)
  PROVE  AllSound'
<1>. DEFINE r == s[1]
            f == Head(frames[s])
            to == Meaning(f)
<1>1. r \in Runs /\ s[2] \in Gens /\ s[2] # 0 /\ f \in Frames
  BY DEF Sessions, Gens, ApplyFrame, Typed, ChildrenTyped
<1>2. UNCHANGED <<session, child, queues, pump, resume>>
  BY DEF ApplyFrame
<1>3. ASSUME NEW q \in Runs PROVE Tame(q) /\ Onward(q) /\ (InLine(q)' <=> InLine(q))
  BY <1>2, StillOnward, SameLine DEF Tame
<1>4. CASE session[r] = s[2] /\ Heeds(r, f)
  <2>1. /\ SetState(r, to, FALSE) /\ ops' = ops \cup Wakes(r, to)
        /\ state[r] \notin {"None", "Paused"} \cup Over
    BY <1>4 DEF ApplyFrame, Heeds
  <2>2. to \in {"Idle", "Running", "AwaitingPermission", "Blocked"}
    BY <1>1 DEF Meaning, Frames
  <2>3. Landed(r, to) = to
    BY <2>2 DEF Landed
  <2>4. /\ state' = [state EXCEPT ![r] = to] /\ UNCHANGED <<frozen, frozenSessions>>
    BY <2>1, <2>2, <2>3 DEF SetState, ForgetsFreeze, Over, Ended
  <2>5. state'[r] = to /\ \A q \in Runs : q # r => state'[q] = state[q]
    BY <1>1, <2>4 DEF Typed, RowsTyped
  <2>6. \A o \in ops' : o \in ops \/ o.do \in {"follow", "kill"}
    BY <2>1, WakesStartNothing
  <2>7. \A q \in Runs : MarksStay(q)
    BY <2>4 DEF MarksStay, Marked
  <2>8. Sound(r)'
    <3>1. Sound(r) /\ session[r] # 0 /\ frozen[r] = NoFreeze
      BY <1>1, <1>4, <2>1 DEF AllSound, Sound, RowSound
    <3>2. RowSound(r)' /\ ~Rests(r)
      BY <1>1, <1>2, <1>3, <2>1, <2>2, <2>4, <2>5, <3>1 DEF Sound, RowSound, Rests, Over
    <3>3. \A o \in ops' : o.run = r => /\ o.do \notin {"exitTerm", "external", "start"}
                                       /\ o.do = "sigstop" => o \in ops
      BY <2>6, <3>1 DEF Sound, StepSound, StartSound
    <3>. QED
      BY <1>1, <1>2, <1>3, <2>4, <2>7, <3>1, <3>2, <3>3, MovedIsSound
  <2>9. ASSUME NEW q \in Runs, q # r PROVE Sound(q)'
    <3>1. Same(q)
      BY <1>2, <1>3, <2>4, <2>5, <2>6, <2>7, <2>9 DEF Same
    <3>. QED
      BY <1>3, <3>1, SameIsSound DEF AllSound
  <2>. QED
    BY <2>8, <2>9 DEF AllSound
<1>5. CASE ~(session[r] = s[2] /\ Heeds(r, f))
  <2>1. UNCHANGED <<state, frozen, frozenSessions, ops>>
    BY <1>5 DEF ApplyFrame
  <2>. QED
    BY <1>2, <1>3, <2>1, QuietIsSound DEF Quietly
<1>. QED
  BY <1>4, <1>5

LEMMA SigStopIsSound ==
  ASSUME Typed, Typed', AllSound, NEW s \in Sessions, SigStop(s)
  PROVE  AllSound'
<1>. DEFINE r == s[1]
            o == Op("sigstop", r, s[2])
<1>1. /\ r \in Runs /\ s[2] \in Gens /\ s = <<r, s[2]>> /\ o.do = "sigstop" /\ o.run = r /\ o.gen = s[2]
  BY DEF Sessions, Op
<1>2. /\ UNCHANGED <<session, state, frozen, frozenSessions, resume, queues, pump>>
      /\ o \in ops /\ ops' \subseteq ops
      /\ child' = child \/ (Registered(s) /\ child' = [child EXCEPT ![s].halted = TRUE])
  BY DEF SigStop, rowVars, innerVars
<1>3. child \in [Sessions -> Children] /\ child[s] \in Children
  BY DEF Typed, ChildrenTyped
<1>4. /\ child'[s].st = child[s].st
      /\ \A t \in Sessions : t # s => child'[t] = child[t]
  BY <1>2, <1>3 DEF Children
<1>5. SignalSound(o)
  BY <1>1, <1>2 DEF AllSound, Sound, StepSound
<1>6. ASSUME NEW q \in Runs PROVE Onward(q) /\ (InLine(q)' <=> InLine(q)) /\ MarksStay(q)
  BY <1>2, StillOnward, SameLine DEF MarksStay, Marked
<1>7. ASSUME NEW q \in Runs, q # r PROVE Sound(q)'
  <2>1. Tame(q)
    BY <1>1, <1>4, <1>7 DEF Tame, Sessions
  <2>2. Same(q)
    BY <1>2, <1>6, <2>1 DEF Same
  <2>. QED
    BY <1>6, <2>2, SameIsSound DEF AllSound
<1>8. Sound(r)'
  <2>1. RowSound(r)' /\ (Rests(r) <=> Rests(r)') /\ Sound(r)
    BY <1>1, <1>2, <1>6 DEF AllSound, Sound, RowSound, Rests
  <2>2. \A g \in Gens : child'[<<r, g>>].st = child[<<r, g>>].st
    BY <1>1, <1>4 DEF Sessions
  <2>3. ASSUME NEW p \in ops', p.run = r PROVE StepSound(p)'
    <3>1. StepSound(p) /\ p \in Ops
      BY <1>2, <2>1, <2>3 DEF Sound, Typed, StepsTyped
    <3>2. p.gen # 0 => p.gen \in Gens
      BY <3>1, Limits DEF Ops, Gens, Limits
    <3>. QED
      BY <1>2, <1>6, <2>1, <2>2, <2>3, <3>1, <3>2, <1>1
         DEF StepSound, SignalSound, StartSound, Marked, GoneOrGoing
  <2>4. ASSUME NEW g \in Gens PROVE ChildSound(<<r, g>>)'
    <3>1. ChildSound(<<r, g>>)
      BY <2>1 DEF Sound
    <3>2. CASE g # s[2]
      <4>1. child'[<<r, g>>] = child[<<r, g>>]
        BY <1>1, <1>4, <3>2 DEF Sessions
      <4>. QED
        BY <1>2, <2>1, <3>1, <4>1 DEF ChildSound, Known, Marked, ToBeEnded, ThawSound
    <3>3. CASE g = s[2]
      <4>1. ~(s \in resume.thaws /\ resume.phase \in Thawing)
        BY <1>1, <1>5, <3>1, <3>3 DEF SignalSound, ChildSound, ThawSound, Thawing
      <4>2. child'[s].st = "live" => Known(s)'
        BY <1>1, <1>2, <1>4, <1>5, <2>1 DEF SignalSound, Known, Marked, GoneOrGoing
      <4>. QED
        BY <1>1, <1>2, <3>1, <3>3, <4>1, <4>2 DEF ChildSound, Marked
    <3>. QED
      BY <3>2, <3>3
  <2>. QED
    BY <2>1, <2>3, <2>4 DEF Sound
<1>. QED
  BY <1>7, <1>8 DEF AllSound

LEMMA ReactionsAreSound ==
  ASSUME Typed, Typed', AllSound, Reactions
  PROVE  AllSound'
<1>1. PICK s \in Sessions : ApplyFrame(s) \/ ExitRestarts(s) \/ ExitDecided(s) \/ ExternalStop(s) \/ SigStop(s)
  BY DEF Reactions
<1>2. s[1] \in Runs
  BY DEF Sessions
<1>3. ~ExternalStop(s)
  BY <1>2 DEF ExternalStop, AllSound, Sound, StepSound, Op
<1>4. CASE ExitRestarts(s)
  <2>1. UNCHANGED <<session, child, queues, pump, resume>>
    BY <1>4 DEF ExitRestarts, procVars
  <2>2. \A q \in Runs : Tame(q) /\ (InLine(q)' <=> InLine(q))
    BY <2>1, SameLine DEF Tame
  <2>3. CASE stopping[s[1]]
    <3>1. /\ Settle(s[1], "Failed", FALSE)
          /\ \A o \in ops' : o \in ops \/ o.do \in {"follow", "kill"}
      BY <1>4, <2>3, WakesStartNothing DEF ExitRestarts
    <3>. QED
      BY <1>2, <2>1, <3>1, OneEndsIsSound DEF Ended
  <2>4. CASE ~stopping[s[1]]
    <3>1. /\ UNCHANGED <<state, frozen, frozenSessions>>
          /\ \A o \in ops' : o \in ops \/ o.do = "boot"
      BY <1>4, <2>4 DEF ExitRestarts, Op
    <3>. QED
      BY <2>1, <2>2, <3>1, QuietIsSound DEF Quietly
  <2>. QED
    BY <2>3, <2>4
<1>5. CASE ExitDecided(s)
  <2>. DEFINE next == IF state[s[1]] = "Blocked" THEN "Failed" ELSE "Finished"
  <2>1. UNCHANGED <<session, child, queues, pump, resume>>
    BY <1>5 DEF ExitDecided, procVars
  <2>2. \A q \in Runs : Tame(q) /\ (InLine(q)' <=> InLine(q))
    BY <2>1, SameLine DEF Tame
  <2>3. PICK how \in ExitKinds :
          /\ Op(how, s[1], s[2]) \in ops
          /\ \/ /\ ops' = ops \ {Op(how, s[1], s[2])}
                /\ UNCHANGED <<state, frozen, frozenSessions>>
             \/ OutsideStop(s[1], how)
             \/ /\ Settle(s[1], next, how = "exitOk")
                /\ ops' = (ops \ {Op(how, s[1], s[2])}) \cup Wakes(s[1], next)
    BY <1>5 DEF ExitDecided
  <2>4. how # "exitTerm"
    BY <1>2, <2>3 DEF AllSound, Sound, StepSound, Op
  <2>5. CASE /\ Settle(s[1], next, how = "exitOk")
             /\ ops' = (ops \ {Op(how, s[1], s[2])}) \cup Wakes(s[1], next)
    <3>1. next \in Ended
      BY DEF Ended
    <3>2. \A o \in ops' : o \in ops \/ o.do \in {"follow", "kill"}
      BY <2>5, WakesStartNothing
    <3>. HIDE DEF next
    <3>. QED
      BY <1>2, <2>1, <2>5, <3>1, <3>2, OneEndsIsSound
  <2>6. CASE ops' = ops \ {Op(how, s[1], s[2])} /\ UNCHANGED <<state, frozen, frozenSessions>>
    BY <2>1, <2>2, <2>6, QuietIsSound DEF Quietly
  <2>. QED
    BY <2>3, <2>4, <2>5, <2>6 DEF OutsideStop
<1>. QED
  BY <1>1, <1>3, <1>4, <1>5, FrameIsSound, SigStopIsSound

------------------------------------------------------------------------------
(* Stop, follow-ups, and Pause *)

LEMMA KillIsSound ==
  ASSUME Typed, Typed', AllSound, NEW r \in Runs, KillLands(r)
  PROVE  AllSound'
<1>1. PICK g \in 0 .. MaxGen :
        /\ Killed(<<r, g>>) /\ ops' \subseteq ops
        /\ UNCHANGED <<session, state, frozen, resume, queues, pump>>
  BY DEF KillLands, rowVars
<1>2. child \in [Sessions -> Children]
  BY DEF Typed, ChildrenTyped
<1>3. \/ UNCHANGED <<child, frozenSessions>>
      \/ /\ <<r, g>> \in Sessions /\ frozenSessions' = frozenSessions \ {<<r, g>>}
         /\ child'[<<r, g>>].st = "dying" /\ (child'[<<r, g>>].halted => child[<<r, g>>].halted)
         /\ \A t \in Sessions : t # <<r, g>> => child'[t] = child[t]
  <2>1. CASE Registered(<<r, g>>)
    <3>1. <<r, g>> \in Sessions
      BY <2>1, RegisteredIsASession
    <3>2. /\ child' = [child EXCEPT ![<<r, g>>].st = "dying",
                                    ![<<r, g>>].halted = @ /\ <<r, g>> \notin frozenSessions]
          /\ frozenSessions' = frozenSessions \ {<<r, g>>}
      BY <1>1, <2>1 DEF Killed
    <3>3. child[<<r, g>>] \in Children
      BY <1>2, <3>1
    <3>. QED
      BY <1>2, <3>1, <3>2, <3>3 DEF Children
  <2>. QED
    BY <1>1, <2>1 DEF Killed
<1>4. ASSUME NEW q \in Runs PROVE Sound(q)'
  <2>1. Tame(q) /\ MarksStay(q)
    BY <1>3 DEF Tame, MarksStay, Marked, GoneOrGoing, Sessions
  <2>2. Same(q) /\ Onward(q)
    BY <1>1, <2>1, SameLine, StillOnward DEF Same
  <2>. QED
    BY <2>2, SameIsSound DEF AllSound
<1>. QED
  BY <1>4 DEF AllSound

LEMMA StopsAreSound ==
  ASSUME Typed, Typed', queues \in [Keys -> Seq(Runs)], AllSound, Stops
  PROVE  AllSound'
<1>1. PICK r \in Runs :
        \/ \E force \in BOOLEAN : PlanStop(r, force)
        \/ CancelDequeues(r) \/ CancelLands(r) \/ KillLands(r) \/ AskToWindDown(r) \/ GraceRunsOut(r)
  BY DEF Stops
<1>2. ASSUME NEW force \in BOOLEAN, PlanStop(r, force) PROVE AllSound'
  <2>1. UNCHANGED <<session, state, frozen, frozenSessions, resume, queues, pump, child>>
    BY <1>2 DEF PlanStop, procVars
  <2>2. \A o \in ops' : o \in ops \/ o.do \in {"dequeue", "discard", "stopKill", "ask"}
    <3>1. \/ ops' = ops
          \/ ops' = ops \cup {Op(StopFollows[StopRoute(r, force)], r, session[r])}
      BY <1>2 DEF PlanStop
    <3>2. StopRoute(r, force) # "Nothing" =>
            StopFollows[StopRoute(r, force)] \in {"dequeue", "discard", "stopKill", "ask"}
      BY DEF StopRoute, StopFollows
    <3>3. StopRoute(r, force) = "Nothing" => ops' = ops
      BY <1>2 DEF PlanStop
    <3>. QED
      BY <3>1, <3>2, <3>3 DEF Op
  <2>3. \A q \in Runs : Tame(q)
    BY <2>1 DEF Tame
  <2>. QED
    BY <2>1, <2>2, <2>3, SameLine, QuietIsSound DEF Quietly
<1>3. CASE CancelDequeues(r)
  <2>1. /\ UNCHANGED <<session, state, frozen, frozenSessions, resume, pump, child>>
        /\ queues' = Dequeued(r) /\ \A o \in ops' : o \in ops \/ o.do = "cancel"
    BY <1>3 DEF CancelDequeues, rowVars, procVars, Op
  <2>2. \A q \in Runs : Tame(q) /\ (InLine(q)' => InLine(q))
    BY <2>1, DequeuedInLine DEF Tame, InLine
  <2>. QED
    BY <2>1, <2>2, QuietIsSound DEF Quietly
<1>4. CASE CancelLands(r)
  <2>1. /\ UNCHANGED <<session, child, queues, pump, resume>> /\ Settle(r, "Cancelled", FALSE)
        /\ \A o \in ops' : o \in ops \/ o.do \in {"follow", "kill"}
    BY <1>4, WakesStartNothing DEF CancelLands, procVars
  <2>. QED
    BY <2>1, OneEndsIsSound DEF Ended
<1>5. CASE AskToWindDown(r)
  <2>1. /\ UNCHANGED <<session, state, frozen, frozenSessions, resume, queues, pump>>
        /\ \A o \in ops' : o \in ops \/ o.do = "grace"
        /\ \E s : child' = child \/ child' = [child EXCEPT ![s].typed = TRUE]
    <3>1. PICK g \in 0 .. MaxGen :
            \/ /\ child' = [child EXCEPT ![<<r, g>>].typed = TRUE]
               /\ ops' = (ops \ {Op("ask", r, g)}) \cup {Op("grace", r, 0)}
            \/ child' = child /\ ops' = ops \ {Op("ask", r, g)}
      BY <1>5 DEF AskToWindDown
    <3>2. UNCHANGED <<session, state, frozen, frozenSessions, resume, queues, pump>>
      BY <1>5 DEF AskToWindDown
    <3>3. child' = child \/ child' = [child EXCEPT ![<<r, g>>].typed = TRUE]
      BY <3>1
    <3>4. \A o \in ops' : o \in ops \/ o.do = "grace"
      BY <3>1 DEF Op
    <3>5. \E s : child' = child \/ child' = [child EXCEPT ![s].typed = TRUE]
      BY <3>3
    <3>. QED
      BY <3>2, <3>4, <3>5
  <2>2. \A q \in Runs : Tame(q)
    BY <2>1, LinesStopNobody DEF Tame, Sessions
  <2>. QED
    BY <2>1, <2>2, SameLine, QuietIsSound DEF Quietly
<1>6. CASE GraceRunsOut(r)
  <2>1. /\ UNCHANGED <<session, state, frozen, frozenSessions, resume, queues, pump, child>>
        /\ \A o \in ops' : o \in ops \/ o.do = "kill"
    BY <1>6 DEF GraceRunsOut, procVars, Op
  <2>2. \A q \in Runs : Tame(q)
    BY <2>1 DEF Tame
  <2>. QED
    BY <2>1, <2>2, SameLine, QuietIsSound DEF Quietly
<1>. QED
  BY <1>1, <1>2, <1>3, <1>4, <1>5, <1>6, KillIsSound

LEMMA FollowUpsAreSound ==
  ASSUME Typed, Typed', AllSound, FollowUps
  PROVE  AllSound'
<1>1. PICK r \in Runs : FollowUp(r) \/ HeldFollowUp(r) \/ Reserve(r) \/ SendPrompt(r)
  BY DEF FollowUps
<1>2. /\ UNCHANGED <<session, state, frozen, frozenSessions, resume, queues, pump>>
      /\ \A o \in ops' : o \in ops \/ o.do \in {"send", "type", "typeReserved"}
      /\ \E s : child' = child \/ child' = [child EXCEPT ![s].typed = TRUE]
  <2>1. CASE FollowUp(r) \/ HeldFollowUp(r)
    BY <2>1 DEF FollowUp, HeldFollowUp, PlanFollowUp, UnchangedByFollowUp, procVars, Op
  <2>2. CASE Reserve(r)
    BY <2>2 DEF Reserve, procVars, Op
  <2>3. CASE SendPrompt(r)
    BY <2>3 DEF SendPrompt
  <2>. QED
    BY <1>1, <2>1, <2>2, <2>3
<1>3. \A q \in Runs : Tame(q)
  BY <1>2, LinesStopNobody DEF Tame, Sessions
<1>. QED
  BY <1>2, <1>3, SameLine, QuietIsSound DEF Quietly

LEMMA PausesAreSound ==
  ASSUME Typed, Typed', AllSound, ~Overlapping, Pauses
  PROVE  AllSound'
<1>1. PICK S \in SUBSET Runs :
        /\ Freeze(S) /\ \A r \in S : Freezable(r) /\ state[r] # "None" /\ Pressable(r)
  <2>1. CASE \E r \in Runs : PauseRun(r)
    <3>1. PICK r \in Runs : PauseRun(r)
      BY <2>1
    <3>2. WITNESS {r} \in SUBSET Runs
    <3>. QED
      BY <3>1 DEF PauseRun
  <2>2. CASE \E p \in Projects : PauseProject(p)
    <3>1. PICK p \in Projects : PauseProject(p)
      BY <2>2
    <3>. DEFINE T == {r \in Runs : ProjectOf[r] = p /\ state[r] # "None" /\ Freezable(r)}
    <3>2. T \in SUBSET Runs /\ Freeze(T) /\ \A r \in Runs : ProjectOf[r] = p => Pressable(r)
      BY <3>1 DEF PauseProject
    <3>3. \A r \in T : Freezable(r) /\ state[r] # "None" /\ Pressable(r)
      BY <3>2
    <3>. HIDE DEF T
    <3>. QED
      BY <3>2, <3>3
  <2>. QED
    BY <2>1, <2>2 DEF Pauses
<1>2. /\ state' = [r \in Runs |-> IF r \in S THEN "Paused" ELSE state[r]]
      /\ frozen' = [r \in Runs |-> IF r \in S THEN [at |-> state[r], slot |-> slot[r]] ELSE frozen[r]]
      /\ frozenSessions' = frozenSessions \cup {<<r, session[r]>> : r \in S}
      /\ ops' = ops \cup {Op("sigstop", r, session[r]) : r \in S}
      /\ UNCHANGED <<session, queues, pump, resume, child>>
  BY <1>1 DEF Freeze, procVars
<1>3. ASSUME NEW q \in Runs PROVE Tame(q) /\ Onward(q) /\ (InLine(q)' <=> InLine(q))
  BY <1>2, StillOnward, SameLine DEF Tame
<1>4. ASSUME NEW q \in Runs, q \notin S PROVE Sound(q)'
  <2>1. MarksStay(q)
    BY <1>2, <1>4 DEF MarksStay, Marked
  <2>2. \A o \in ops' : o.run = q => o \in ops
    BY <1>2, <1>4 DEF Op
  <2>3. Same(q)
    BY <1>2, <1>3, <1>4, <2>1, <2>2 DEF Same
  <2>. QED
    BY <1>3, <2>3, SameIsSound DEF AllSound
<1>5. ASSUME NEW r \in S PROVE Sound(r)'
  <2>1. /\ Sound(r) /\ session[r] # 0 /\ frozen[r] = NoFreeze /\ resume.phase = "idle"
        /\ state[r] \notin {"None", "Interrupted"} \cup Ended /\ \A g \in Gens : ~Marked(<<r, g>>)
    BY <1>1, Unmarked DEF AllSound, Sound, RowSound, Freezable, Pressable
  <2>2. /\ state'[r] = "Paused" /\ frozen'[r].at = state[r] /\ frozen'[r] # NoFreeze
        /\ session'[r] = session[r] /\ Marked(<<r, session[r]>>)' /\ ~InLine(r)'
    BY <1>2, <1>3, <2>1 DEF NoFreeze, Marked, Sound, RowSound
  <2>3. RowSound(r)'
    BY <2>1, <2>2 DEF RowSound
  <2>4. ASSUME NEW o \in ops', o.run = r PROVE StepSound(o)'
    <3>1. CASE o \in ops
      <4>1. StepSound(o) /\ o.do # "start" /\ ~Rests(r) /\ o \in Ops
        BY <2>1, <2>4, <3>1 DEF Sound, StepSound, StartSound, Rests, Typed, StepsTyped
      <4>2. o.gen # 0 => o.gen \in Gens
        BY <4>1, Limits DEF Ops, Gens, Limits
      <4>. QED
        BY <1>2, <2>1, <2>4, <4>1, <4>2 DEF StepSound, SignalSound
    <3>2. CASE \E q \in S : o = Op("sigstop", q, session[q])
      <4>1. o.do = "sigstop" /\ o.gen = session[r]
        BY <2>4, <3>2 DEF Op
      <4>. QED
        BY <1>2, <2>1, <2>2, <2>4, <4>1 DEF StepSound, SignalSound
    <3>. QED
      BY <1>2, <3>1, <3>2
  <2>5. ASSUME NEW g \in Gens PROVE ChildSound(<<r, g>>)'
    <3>1. ChildSound(<<r, g>>) /\ ~Known(<<r, g>>)
      BY <2>1 DEF Sound, Known, ToBeEnded, Rests, Continuing, Thawing
    <3>2. Marked(<<r, g>>)' => g = session[r]
      BY <1>2, <2>1 DEF Marked
    <3>. QED
      BY <1>2, <2>1, <2>2, <3>1, <3>2 DEF ChildSound, Thawing
  <2>. QED
    BY <2>3, <2>4, <2>5 DEF Sound
<1>. QED
  BY <1>4, <1>5 DEF AllSound

------------------------------------------------------------------------------
(* Resume *)

\* One button at a time: what it is to thaw is not about to be stopped.
LEMMA PlansAreSound ==
  ASSUME Typed, Typed', AllSound, ~Overlapping, NEW whole \in BOOLEAN, NEW S \in SUBSET Runs,
         ResumePlans(whole, S)
  PROVE  AllSound' /\ resume'.phase = "planned"
<1>. DEFINE T == IF whole THEN {s \in frozenSessions : s[1] \in S}
                 ELSE {<<r, session[r]>> : r \in {r \in S : frozen[r] # NoFreeze /\ session[r] # 0}}
<1>1. /\ UNCHANGED <<session, state, frozen, frozenSessions, child, queues, pump, ops>>
      /\ resume.phase = "idle" /\ \A r \in S : Pressable(r)
      /\ resume' = [phase |-> "planned", whole |-> whole, runs |-> S, todo |-> T,
                    thaws |-> T, ends |-> {}]
  BY DEF ResumePlans, rowVars, innerVars, procVars
<1>2. \A s \in T : s[1] \in S /\ (\A r \in Runs, g \in Gens : s = <<r, g>> /\ Marked(s) => session[r] = g)
  BY DEF AllSound, Sound, ChildSound
<1>3. ASSUME NEW r \in Runs, NEW g \in Gens, <<r, g>> \in T PROVE r \in S /\ session[r] = g
  BY <1>2, <1>3 DEF Marked
<1>4. /\ resume'.phase = "planned" /\ resume'.runs = S /\ resume'.thaws = T
  BY <1>1
<1>. HIDE DEF T
<1>5. ASSUME NEW r \in Runs PROVE Sound(r)'
  <2>1. Sound(r) /\ (InLine(r)' <=> InLine(r))
    BY <1>1, SameLine DEF AllSound
  <2>2. RowSound(r)'
    BY <1>1, <2>1 DEF Sound, RowSound
  <2>3. ASSUME NEW o \in ops', o.run = r PROVE StepSound(o)'
    <3>1. StepSound(o) /\ (o.do = "sigstop" => r \notin S)
      BY <1>1, <2>1, <2>3 DEF Sound, Pressable
    <3>. QED
      BY <1>1, <1>4, <2>1, <2>3, <3>1 DEF StepSound, StartSound, SignalSound, Marked, Rests
  <2>4. ASSUME NEW g \in Gens PROVE ChildSound(<<r, g>>)'
    <3>1. ChildSound(<<r, g>>) /\ ~ToBeEnded(<<r, g>>)
      BY <1>1, <2>1 DEF Sound, ToBeEnded, Continuing, Thawing
    <3>2. <<r, g>> \in resume'.thaws => ThawSound(<<r, g>>)'
      BY <1>1, <1>3, <1>4 DEF ThawSound
    <3>. QED
      BY <1>1, <2>1, <3>1, <3>2 DEF ChildSound, Known, Marked, Rests
  <2>. QED
    BY <2>2, <2>3, <2>4 DEF Sound
<1>. QED
  BY <1>4, <1>5 DEF AllSound

\* What both outcomes of a reclaim leave resume with
ReclaimMoves(r, g, over) ==
    /\ resume'.phase \in {"restart", "reclaim"} /\ resume'.runs = resume.runs
    /\ resume'.thaws \subseteq resume.thaws /\ resume.ends \subseteq resume'.ends
    /\ over => <<r, g>> \in resume'.ends
    /\ resume.phase = "reclaim" /\ UNCHANGED <<pump, child, ops>>

LEMMA ReclaimMovesOn ==
  ASSUME NEW r, NEW g, NEW over, ReclaimMoves(r, g, over), NEW q \in Runs
  PROVE  Tame(q) /\ Onward(q)
BY DEF ReclaimMoves, Tame, Onward, ToBeEnded, Continuing, Thawing

LEMMA KeepsIsSound ==
  ASSUME Typed, Typed', AllSound, NEW r \in Runs, NEW g \in Gens, ReclaimKeeps(<<r, g>>),
         ReclaimMoves(r, g, FALSE)
  PROVE  AllSound'
<1>1. /\ UNCHANGED <<state, session, queues, frozenSessions, pump, child, ops>>
      /\ frozen' = frozen \/ (frozen[r].slot /\ frozen' = [frozen EXCEPT ![r].slot = FALSE])
  BY DEF ReclaimKeeps, ReclaimMoves
<1>2. frozen \in [Runs -> Freezes] /\ frozen[r] \in Freezes
  BY DEF Typed, RowsTyped
<1>3. Sound(r) /\ (frozen[r].slot => frozen[r] # NoFreeze)
  BY DEF AllSound, NoFreeze
<1>4. /\ frozen'[r] # NoFreeze <=> frozen[r] # NoFreeze
      /\ frozen'[r] # NoFreeze => frozen'[r].at = frozen[r].at
  <2>1. CASE frozen' = frozen
    BY <2>1
  <2>2. CASE frozen[r].slot /\ frozen' = [frozen EXCEPT ![r].slot = FALSE]
    <3>1. frozen'[r] = [frozen[r] EXCEPT !.slot = FALSE]
      BY <1>2, <2>2
    <3>2. frozen'[r].at = frozen[r].at
      BY <1>2, <3>1 DEF Freezes
    <3>3. frozen[r].at # "None" /\ frozen[r] # NoFreeze
      BY <1>3, <2>2 DEF Sound, RowSound
    <3>. QED
      BY <3>2, <3>3 DEF NoFreeze
  <2>. QED
    BY <1>1, <2>1, <2>2
<1>5. ASSUME NEW q \in Runs
      PROVE  (InLine(q)' <=> InLine(q)) /\ MarksStay(q) /\ Tame(q) /\ Onward(q)
  BY <1>1, SameLine, ReclaimMovesOn DEF MarksStay, Marked
<1>6. Sound(r)'
  <2>1. RowSound(r)' /\ (Rests(r) => Rests(r)')
    BY <1>1, <1>3, <1>4, <1>5 DEF Sound, RowSound, Rests
  <2>2. \A o \in ops' : o.run = r => /\ o.do \notin {"exitTerm", "external"}
                                     /\ o.do = "start" => StartSound(o)'
                                     /\ o.do = "sigstop" => o \in ops
    BY <1>1, <1>3, <1>5 DEF Sound, StepSound, StartSound
  <2>3. session'[r] = session[r] /\ (frozen'[r] = NoFreeze <=> frozen[r] = NoFreeze)
    BY <1>1, <1>4
  <2>. QED
    BY <1>3, <1>5, <2>1, <2>2, <2>3, MovedIsSound
<1>7. ASSUME NEW q \in Runs, q # r PROVE Sound(q)'
  <2>1. frozen'[q] = frozen[q]
    BY <1>1, <1>2, <1>7
  <2>2. Same(q)
    BY <1>1, <1>5, <2>1 DEF Same
  <2>. QED
    BY <1>5, <2>2, SameIsSound DEF AllSound
<1>. QED
  BY <1>6, <1>7 DEF AllSound

LEMMA RequeuesIsSound ==
  ASSUME Typed, Typed', queues \in [Keys -> Seq(Runs)], AllSound, NEW r \in Runs, NEW g \in Gens,
         ReclaimRequeues(<<r, g>>), ReclaimMoves(r, g, TRUE), <<r, g>> \in resume.thaws
  PROVE  AllSound'
<1>1. /\ frozen[r].slot /\ frozen' = [frozen EXCEPT ![r] = NoFreeze]
      /\ session' = [session EXCEPT ![r] = 0] /\ state' = [state EXCEPT ![r] = "Queued"]
      /\ frozenSessions' = frozenSessions \ {<<r, g>>} /\ queues' = PushFront(r)
      /\ resume.phase = "reclaim" /\ UNCHANGED <<pump, child, ops>>
  BY DEF ReclaimRequeues, ReclaimMoves
<1>2. /\ frozen \in [Runs -> Freezes] /\ state \in [Runs -> RunStates]
      /\ session \in [Runs -> 0 .. MaxGen]
  BY DEF Typed, RowsTyped
<1>3. Sound(r) /\ frozen[r] # NoFreeze
  BY <1>1 DEF AllSound, NoFreeze
<1>4. ThawSound(<<r, g>>)
  BY <1>1, <1>3 DEF Sound, ChildSound, Thawing
<1>5. session[r] = g /\ session[r] # 0 /\ state[r] = "Paused" /\ r \in resume.runs
  BY <1>3, <1>4 DEF Sound, RowSound, ThawSound
<1>6. \A o \in ops : o.run = r => o.do # "sigstop"
  BY <1>1, <1>3, <1>5 DEF Sound, StepSound, SignalSound
<1>7. frozen'[r] = NoFreeze /\ session'[r] = 0 /\ state'[r] = "Queued"
  BY <1>1, <1>2
<1>8. ASSUME NEW q \in Runs PROVE Tame(q) /\ Onward(q)
  BY ReclaimMovesOn
<1>9. Sound(r)'
  <2>1. RowSound(r)' /\ ~Rests(r)
    BY <1>5, <1>7 DEF RowSound, Rests, Ended
  <2>2. \A h \in Gens : Marked(<<r, h>>) => h = g
    BY <1>3, <1>5 DEF Sound, ChildSound
  <2>3. Known(<<r, g>>)'
    BY DEF ReclaimMoves, Known, ToBeEnded, Continuing, Thawing
  <2>4. MarksGo(r)
    BY <1>1, <1>6, <1>7, <2>2, <2>3 DEF MarksGo, Marked
  <2>5. \A o \in ops' : o.run = r => /\ o.do \notin {"exitTerm", "external", "start"}
                                     /\ o.do = "sigstop" => o \in ops
    BY <1>1, <1>3, <1>5 DEF Sound, StepSound, StartSound
  <2>. QED
    BY <1>3, <1>8, <2>1, <2>4, <2>5, MovedIsSound
<1>10. ASSUME NEW q \in Runs, q # r PROVE Sound(q)'
  <2>1. session'[q] = session[q] /\ state'[q] = state[q] /\ frozen'[q] = frozen[q]
    BY <1>1, <1>2, <1>10
  <2>2. MarksStay(q)
    BY <1>1, <1>10 DEF MarksStay, Marked
  <2>3. pump'.pass = pump.pass /\ (InLine(q)' => InLine(q))
    BY <1>1, <1>10, PushedInLine
  <2>4. Same(q)
    BY <1>1, <1>8, <2>1, <2>2, <2>3 DEF Same
  <2>. QED
    BY <1>8, <2>4, SameIsSound DEF AllSound
<1>. QED
  BY <1>9, <1>10 DEF AllSound

LEMMA ReclaimIsSound ==
  ASSUME Typed, Typed', queues \in [Keys -> Seq(Runs)], AllSound, ThawsKnown, ReclaimSlot
  PROVE  AllSound' /\ resume'.phase \in {"restart", "reclaim"}
<1>1. PICK s \in resume.todo : ReclaimKeeps(s) \/ ReclaimRequeues(s)
  BY NextThawIsThere DEF ReclaimSlot
<1>2. /\ s \in resume.thaws /\ s \in Sessions /\ resume.phase = "reclaim"
      /\ UNCHANGED <<pump, child, ops>>
  BY <1>1 DEF ThawsKnown, Typed, StepsTyped, ReclaimSlot, procVars
<1>3. s[1] \in Runs /\ s[2] \in Gens /\ s = <<s[1], s[2]>>
  BY <1>2 DEF Sessions
<1>4. ASSUME NEW thaws, NEW ends, Reclaimed(s, thaws, ends)
      PROVE  /\ resume'.phase \in {"restart", "reclaim"} /\ resume'.runs = resume.runs
             /\ resume'.thaws = thaws /\ resume'.ends = ends
  BY <1>2, <1>4 DEF Reclaimed, Typed, StepsTyped
<1>5. CASE ReclaimKeeps(s)
  <2>1. Reclaimed(s, resume.thaws, resume.ends)
    BY <1>5 DEF ReclaimKeeps
  <2>2. ReclaimMoves(s[1], s[2], FALSE)
    BY <1>2, <1>4, <2>1 DEF ReclaimMoves
  <2>. QED
    BY <1>3, <1>5, <2>2, KeepsIsSound DEF ReclaimMoves
<1>6. CASE ReclaimRequeues(s)
  <2>1. Reclaimed(s, resume.thaws \ {s}, resume.ends \cup {s})
    BY <1>6 DEF ReclaimRequeues
  <2>2. ReclaimMoves(s[1], s[2], TRUE)
    BY <1>2, <1>3, <1>4, <2>1 DEF ReclaimMoves
  <2>. QED
    BY <1>2, <1>3, <1>6, <2>2, RequeuesIsSound DEF ReclaimMoves
<1>. QED
  BY <1>1, <1>5, <1>6

LEMMA RestartsAreSound ==
  ASSUME Typed, Typed', AllSound, PlanRestarts
  PROVE  AllSound' /\ resume'.phase = "cont"
<1>1. PICK S \in SUBSET {s \in resume.thaws : /\ frozen[s[1]] # NoFreeze /\ session[s[1]] = s[2]
                                             /\ ForkedHere(s[1]) /\ minted[s[1]] < MaxGen} :
        LET R == {s[1] : s \in S} IN
        /\ session' = [r \in Runs |-> IF r \in R THEN minted[r] + 1 ELSE session[r]]
        /\ frozen' = [r \in Runs |-> IF r \in R THEN NoFreeze ELSE frozen[r]]
        /\ state' = [r \in Runs |-> IF r \in R THEN "Starting" ELSE state[r]]
        /\ frozenSessions' = frozenSessions \ S
        /\ resume' = [resume EXCEPT !.phase = "cont", !.ends = @ \cup S]
        /\ resume.phase = "restart" /\ UNCHANGED <<queues, pump, child, ops>>
  BY DEF PlanRestarts
<1>. DEFINE R == {s[1] : s \in S}
<1>2. /\ resume'.phase = "cont" /\ resume'.runs = resume.runs /\ resume'.thaws = resume.thaws
      /\ resume'.ends = resume.ends \cup S
  BY <1>1 DEF Typed, StepsTyped
<1>3. ASSUME NEW q \in Runs PROVE Tame(q) /\ Onward(q) /\ (InLine(q)' <=> InLine(q))
  BY <1>1, <1>2, SameLine DEF Tame, Onward, ToBeEnded, Continuing, Thawing
<1>4. ASSUME NEW s \in S PROVE Sound(s[1])'
  <2>. DEFINE r == s[1]
  <2>1. /\ s \in Sessions /\ r \in Runs /\ s[2] \in Gens /\ s = <<r, s[2]>>
        /\ s \in resume.thaws /\ session[r] = s[2] /\ frozen[r] # NoFreeze
    BY <1>1 DEF Typed, StepsTyped, Sessions
  <2>2. /\ Sound(r) /\ r \in resume.runs /\ session[r] # 0 /\ state[r] = "Paused" /\ ~InLine(r)
    BY <1>1, <2>1 DEF AllSound, Sound, RowSound, ChildSound, ThawSound, Thawing
  <2>3. /\ state'[r] = "Starting" /\ frozen'[r] = NoFreeze
    BY <1>1, <2>1
  <2>4. RowSound(r)' /\ ~Rests(r)
    BY <1>3, <2>1, <2>2, <2>3 DEF RowSound, Rests, Ended
  <2>5. \A g \in Gens : Marked(<<r, g>>) => <<r, g>> = s
    BY <2>1, <2>2 DEF Sound, ChildSound
  <2>6. Known(s)'
    BY <1>2 DEF Known, ToBeEnded, Continuing, Thawing
  <2>7. \A o \in ops : o.do = "sigstop" => o.run # r
    BY <1>1, <2>2 DEF Sound, StepSound, SignalSound
  <2>8. MarksGo(r)
    BY <1>1, <2>3, <2>5, <2>6, <2>7 DEF MarksGo, Marked
  <2>9. \A o \in ops' : o.run = r => /\ o.do \notin {"exitTerm", "external", "start"}
                                     /\ o.do = "sigstop" => o \in ops
    BY <1>1, <2>2 DEF Sound, StepSound, StartSound
  <2>. QED
    BY <1>3, <2>1, <2>2, <2>4, <2>8, <2>9, MovedIsSound
<1>5. ASSUME NEW q \in Runs, q \notin R PROVE Sound(q)'
  <2>1. session'[q] = session[q] /\ state'[q] = state[q] /\ frozen'[q] = frozen[q]
    BY <1>1, <1>5
  <2>2. MarksStay(q)
    BY <1>1, <1>5 DEF MarksStay, Marked
  <2>3. Same(q)
    BY <1>1, <1>3, <2>1, <2>2 DEF Same
  <2>. QED
    BY <1>3, <2>3, SameIsSound DEF AllSound
<1>. QED
  BY <1>2, <1>4, <1>5 DEF AllSound

LEMMA FinishIsSound ==
  ASSUME Typed, Typed', AllSound, FinishThaws
  PROVE  AllSound' /\ resume'.phase = "end"
<1>. DEFINE R == {s[1] : s \in resume.thaws}
<1>1. /\ state' = [r \in Runs |-> IF r \in R /\ frozen[r] # NoFreeze THEN frozen[r].at ELSE state[r]]
      /\ frozen' = [r \in Runs |-> IF r \in R THEN NoFreeze ELSE frozen[r]]
      /\ frozenSessions' = frozenSessions \ resume.thaws
      /\ resume.phase = "finish" /\ resume' = [resume EXCEPT !.phase = "end"]
      /\ UNCHANGED <<session, queues, pump, child, ops>>
  BY DEF FinishThaws, procVars
<1>2. /\ resume'.phase = "end" /\ resume'.runs = resume.runs /\ resume'.thaws = resume.thaws
      /\ resume'.ends = resume.ends
  BY <1>1 DEF Typed, StepsTyped
<1>3. ASSUME NEW q \in Runs PROVE Tame(q) /\ Onward(q) /\ (InLine(q)' <=> InLine(q))
  BY <1>1, <1>2, SameLine DEF Tame, Onward, ToBeEnded, Continuing, Thawing
<1>4. ASSUME NEW s \in resume.thaws PROVE Sound(s[1])'
  <2>. DEFINE r == s[1]
  <2>1. /\ s \in Sessions /\ r \in Runs /\ s[2] \in Gens /\ s = <<r, s[2]>>
    BY DEF Typed, StepsTyped, Sessions
  <2>2. /\ Sound(r) /\ r \in resume.runs /\ ~child[s].halted
        /\ frozen[r] = NoFreeze \/ session[r] = s[2]
    BY <1>1, <2>1 DEF AllSound, Sound, ChildSound, ThawSound, Thawing
  <2>3. /\ frozen'[r] = NoFreeze /\ state'[r] = IF frozen[r] # NoFreeze THEN frozen[r].at ELSE state[r]
    BY <1>1, <2>1
  <2>4. \A g \in Gens : Marked(<<r, g>>) => <<r, g>> = s
    BY <2>1, <2>2 DEF Sound, ChildSound
  <2>5. RowSound(r)' /\ (Rests(r) => Rests(r)')
    BY <1>1, <1>3, <2>1, <2>2, <2>3 DEF Sound, RowSound, Rests, Ended
  <2>6. \A o \in ops : o.do = "sigstop" => o.run # r
    BY <1>1, <2>2 DEF Sound, StepSound, SignalSound
  <2>7. MarksGo(r)
    BY <1>1, <2>2, <2>3, <2>4, <2>6 DEF MarksGo, Marked
  <2>8. \A o \in ops' : o.run = r => /\ o.do \notin {"exitTerm", "external"}
                                     /\ o.do = "start" => StartSound(o)'
                                     /\ o.do = "sigstop" => o \in ops
    BY <1>1, <1>3, <2>1, <2>2, <2>3 DEF Sound, RowSound, StepSound, StartSound
  <2>. QED
    BY <1>3, <2>1, <2>2, <2>5, <2>7, <2>8, MovedIsSound
<1>5. ASSUME NEW q \in Runs, q \notin R PROVE Sound(q)'
  <2>1. session'[q] = session[q] /\ state'[q] = state[q] /\ frozen'[q] = frozen[q]
    BY <1>1, <1>5
  <2>2. MarksStay(q)
    BY <1>1, <1>5 DEF MarksStay, Marked
  <2>3. Same(q)
    BY <1>1, <1>3, <2>1, <2>2 DEF Same
  <2>. QED
    BY <1>3, <2>3, SameIsSound DEF AllSound
<1>. QED
  BY <1>2, <1>4, <1>5 DEF AllSound

\* The steps of resume that move no row.
LEMMA SignalsAreSound ==
  ASSUME Typed, Typed', AllSound,
         UNCHANGED <<session, state, frozen, frozenSessions, queues, pump, ops>>,
         \A r \in Runs : Tame(r) /\ Onward(r)
  PROVE  AllSound'
<1>. SUFFICES ASSUME NEW r \in Runs PROVE Sound(r)'
  BY DEF AllSound
<1>1. Same(r)
  BY SameLine DEF Same, MarksStay, Marked
<1>. QED
  BY <1>1, SameIsSound DEF AllSound

LEMMA ResumesAreSound ==
  ASSUME Typed, Typed', queues \in [Keys -> Seq(Runs)], AllSound, ThawsKnown, NoneToRequeue,
         ~Overlapping, Resumes
  PROVE  AllSound' /\ NoneToRequeue'
<1>. DEFINE quiet == <<session, state, frozen, frozenSessions, queues, pump, ops>>
<1>0. child \in [Sessions -> Children] /\ \A r \in Runs, g \in Gens : <<r, g>> \in Sessions
  BY DEF Typed, ChildrenTyped, Sessions
<1>1. CASE Resume
  <2>1. PICK whole \in BOOLEAN, S \in SUBSET Runs : ResumePlans(whole, S)
    <3>1. CASE \E p \in Projects : ResumePlans(TRUE, {r \in Runs : ProjectOf[r] = p})
      BY <3>1
    <3>2. CASE \E r \in Runs : ResumePlans(FALSE, {r})
      BY <3>2
    <3>. QED
      BY <1>1, <3>1, <3>2 DEF Resume
  <2>. QED
    BY <2>1, PlansAreSound DEF NoneToRequeue
<1>2. CASE ReclaimTakesLock
  <2>1. /\ UNCHANGED quiet /\ child' = child /\ resume.phase = "planned"
        /\ resume'.phase \in {"restart", "reclaim"} /\ resume'.runs = resume.runs
        /\ resume'.thaws = resume.thaws /\ resume'.ends = resume.ends
    BY <1>2 DEF ReclaimTakesLock, rowVars, innerVars, procVars, Typed, StepsTyped
  <2>2. \A r \in Runs : Tame(r) /\ Onward(r)
    BY <2>1 DEF Tame, Onward, ToBeEnded, Continuing, Thawing
  <2>. QED
    BY <2>1, <2>2, SignalsAreSound DEF NoneToRequeue
<1>3. CASE ReclaimSlot
  BY <1>3, ReclaimIsSound DEF NoneToRequeue
<1>4. CASE PlanRestarts
  BY <1>4, RestartsAreSound DEF NoneToRequeue
<1>5. CASE SigCont
  <2>1. /\ UNCHANGED quiet /\ resume.phase = "cont" /\ resume'.phase = "finish"
        /\ resume'.runs = resume.runs /\ resume'.thaws = resume.thaws /\ resume'.ends = resume.ends
        /\ child' = [s \in Sessions |->
             IF s \in resume.thaws THEN [child[s] EXCEPT !.halted = FALSE] ELSE child[s]]
    BY <1>5 DEF SigCont, rowVars, innerVars, Typed, StepsTyped
  <2>2. \A s \in Sessions : /\ child'[s].st = child[s].st /\ (child'[s].halted => child[s].halted)
                            /\ s \in resume.thaws => ~child'[s].halted
    BY <1>0, <2>1 DEF Children
  <2>3. \A r \in Runs : Tame(r) /\ Onward(r)
    BY <1>0, <2>1, <2>2 DEF Tame, Onward, ToBeEnded, Continuing, Thawing
  <2>. QED
    BY <2>1, <2>3, SignalsAreSound DEF NoneToRequeue
<1>6. CASE FinishThaws
  BY <1>6, FinishIsSound DEF NoneToRequeue
<1>7. CASE EndOldChildren
  <2>1. /\ UNCHANGED quiet /\ resume.phase = "end" /\ resume'.phase = "waiting"
        /\ resume'.runs = resume.runs /\ resume'.ends = resume.ends
        /\ child' = [s \in Sessions |->
             IF s \in resume.ends /\ child[s].st = "live" THEN HungUp(s) ELSE child[s]]
    BY <1>7 DEF EndOldChildren, rowVars, innerVars, Typed, StepsTyped
  <2>2. \A s \in Sessions : /\ child'[s] = child[s] \/ (child'[s].st = "dying" /\ ~child'[s].halted)
                            /\ s \in resume.ends => child'[s].st # "live"
    BY <1>0, <2>1 DEF Children, HungUp
  <2>3. \A r \in Runs : Tame(r) /\ Onward(r)
    BY <1>0, <2>1, <2>2 DEF Tame, Onward, ToBeEnded, Thawing, GoneOrGoing
  <2>. QED
    BY <2>1, <2>3, SignalsAreSound DEF NoneToRequeue
<1>8. CASE RequeueTakesLock
  <2>1. /\ UNCHANGED quiet /\ child' = child /\ resume.phase = "waiting"
        /\ resume'.phase = "requeue" /\ resume'.runs = resume.runs
        /\ resume'.todo = {<<r, 0>> : r \in {r \in resume.runs : state[r] = "Interrupted"}}
    BY <1>8 DEF RequeueTakesLock, rowVars, innerVars, procVars, Typed, StepsTyped
  <2>2. resume'.todo = {}
    BY <2>1 DEF AllSound, Sound, RowSound, Typed, StepsTyped
  <2>3. \A r \in Runs : Tame(r) /\ Onward(r)
    BY <2>1 DEF Tame, Onward, ToBeEnded, Continuing, Thawing
  <2>. QED
    BY <2>1, <2>2, <2>3, SignalsAreSound DEF NoneToRequeue
<1>9. CASE ResumeDone
  <2>1. /\ UNCHANGED quiet /\ child' = child /\ resume.phase = "requeue" /\ resume'.phase = "idle"
    BY <1>9 DEF ResumeDone, NoResume, rowVars, innerVars, procVars
  <2>2. \A r \in Runs : Tame(r) /\ Onward(r)
    BY <2>1 DEF Tame, Onward, ToBeEnded, Continuing, Thawing
  <2>. QED
    BY <2>1, <2>2, SignalsAreSound DEF NoneToRequeue
<1>10. ~\E r \in Runs : RequeueOne(r)
  BY DEF RequeueOne, NoneToRequeue
<1>. QED
  BY <1>1, <1>2, <1>3, <1>4, <1>5, <1>6, <1>7, <1>8, <1>9, <1>10 DEF Resumes

------------------------------------------------------------------------------
(* The theorem *)

LEMMA OnlyResumesResume ==
  ASSUME Next, ~Resumes
  PROVE  resume' = resume
<1>1. CASE \E r \in Runs : Dispatch(r)
  BY <1>1 DEF Dispatch
<1>2. CASE Admission
  BY <1>2 DEF Admission, PumpStarts, PumpVisits, PumpTurns
<1>3. CASE Starts
  <2>1. PICK r \in Runs :
          \/ Bind(r)
          \/ \E g \in Gens : Fork(r, g) \/ BootFails(r, g) \/ AbandonUnsubmitted(r, g)
                           \/ OpeningGivesUp(r, g) \/ OpeningDone(r, g)
          \/ \E g \in 0 .. MaxGen : FinishFailed(r, g)
    BY <1>3 DEF Starts
  <2>2. CASE Bind(r)
    BY <2>2 DEF Bind
  <2>3. ASSUME NEW g \in Gens, Fork(r, g) \/ BootFails(r, g) PROVE resume' = resume
    BY <2>3 DEF Fork, BootFails
  <2>4. ASSUME NEW g \in Gens, OpeningGivesUp(r, g) \/ OpeningDone(r, g) PROVE resume' = resume
    BY <2>4 DEF OpeningGivesUp, OpeningDone
  <2>5. ASSUME NEW g \in Gens, AbandonUnsubmitted(r, g) PROVE resume' = resume
    BY <2>5 DEF AbandonUnsubmitted
  <2>6. ASSUME NEW g \in 0 .. MaxGen, FinishFailed(r, g) PROVE resume' = resume
    BY <2>6 DEF FinishFailed, FailedStart
  <2>. QED
    BY <2>1, <2>2, <2>3, <2>4, <2>5, <2>6
<1>4. CASE ChildSteps
  BY <1>4 DEF ChildSteps, ChildReady, ChildTakesLine, ChildEndsTurn, ChildAsks, ChildAnswered,
              ChildFailsTurn, Turn, ChildExits
<1>5. CASE Reactions
  BY <1>5 DEF Reactions, ApplyFrame, ExitRestarts, ExitDecided, ExternalStop, SigStop
<1>6. CASE Stops
  BY <1>6 DEF Stops, PlanStop, CancelDequeues, CancelLands, KillLands, AskToWindDown, GraceRunsOut
<1>7. CASE FollowUps
  BY <1>7 DEF FollowUps, FollowUp, HeldFollowUp, UnchangedByFollowUp, Reserve, SendPrompt
<1>8. CASE Pauses
  BY <1>8 DEF Pauses, PauseRun, PauseProject, Freeze
<1>. QED
  BY <1>1, <1>2, <1>3, <1>4, <1>5, <1>6, <1>7, <1>8 DEF Next

\* A signal that is not to come does not come later.
LEMMA NoTermIsSpent ==
  ASSUME Typed, budget["term"] = 0, Next
  PROVE  budget'["term"] = 0
<1>0. budget \in [Chances -> Nat] /\ "term" \in Chances
  BY DEF Typed, ChildrenTyped, Chances
<1>1. ASSUME NEW c \in Chances \ {"term"}, budget' = budget \/ Spend(c)
      PROVE  budget'["term"] = 0
  BY <1>0, <1>1 DEF Spend
<1>2. ~Spend("term")
  BY DEF Spend
<1>3. CASE \E r \in Runs : Dispatch(r)
  BY <1>1, <1>3 DEF Dispatch, Chances
<1>4. CASE Admission
  BY <1>4 DEF Admission, PumpStarts, PumpVisits, PumpTurns
<1>5. CASE Starts
  <2>1. PICK r \in Runs :
          \/ Bind(r)
          \/ \E g \in Gens : Fork(r, g) \/ BootFails(r, g) \/ AbandonUnsubmitted(r, g)
                           \/ OpeningGivesUp(r, g) \/ OpeningDone(r, g)
          \/ \E g \in 0 .. MaxGen : FinishFailed(r, g)
    BY <1>5 DEF Starts
  <2>2. CASE Bind(r)
    BY <2>2 DEF Bind
  <2>3. ASSUME NEW g \in Gens, Fork(r, g) \/ BootFails(r, g) PROVE budget'["term"] = 0
    BY <1>1, <2>3 DEF Fork, BootFails, Chances
  <2>4. ASSUME NEW g \in Gens, OpeningGivesUp(r, g) \/ OpeningDone(r, g) PROVE budget'["term"] = 0
    BY <1>1, <2>4 DEF OpeningGivesUp, OpeningDone, Chances
  <2>5. ASSUME NEW g \in Gens, AbandonUnsubmitted(r, g) PROVE budget'["term"] = 0
    BY <1>1, <2>5 DEF AbandonUnsubmitted, Chances
  <2>6. ASSUME NEW g \in 0 .. MaxGen, FinishFailed(r, g) PROVE budget'["term"] = 0
    BY <2>6 DEF FinishFailed, FailedStart
  <2>. QED
    BY <2>1, <2>2, <2>3, <2>4, <2>5, <2>6
<1>6. CASE ChildSteps
  <2>1. PICK s \in Sessions :
          \/ ChildReady(s) \/ ChildTakesLine(s) \/ ChildEndsTurn(s)
          \/ ChildAsks(s) \/ ChildAnswered(s) \/ ChildFailsTurn(s)
          \/ \E how \in ExitKinds : ChildExits(s, how)
    BY <1>6 DEF ChildSteps
  <2>2. CASE ChildReady(s) \/ ChildTakesLine(s) \/ ChildEndsTurn(s) \/ ChildAnswered(s)
    BY <2>2 DEF ChildReady, ChildTakesLine, ChildEndsTurn, ChildAnswered
  <2>3. CASE ChildAsks(s) \/ ChildFailsTurn(s)
    BY <1>1, <2>3 DEF ChildAsks, ChildFailsTurn, Chances
  <2>4. ASSUME NEW how \in ExitKinds, ChildExits(s, how) PROVE budget'["term"] = 0
    BY <1>1, <1>2, <2>4 DEF ChildExits, Chances
  <2>. QED
    BY <2>1, <2>2, <2>3, <2>4
<1>7. CASE Reactions
  BY <1>7 DEF Reactions, ApplyFrame, ExitRestarts, ExitDecided, ExternalStop, SigStop
<1>8. CASE Stops
  <2>1. CASE \E r \in Runs, force \in BOOLEAN : PlanStop(r, force)
    BY <1>1, <2>1 DEF PlanStop, Chances
  <2>. QED
    BY <1>8, <2>1 DEF Stops, CancelDequeues, CancelLands, KillLands, AskToWindDown, GraceRunsOut
<1>9. CASE FollowUps
  <2>1. CASE \E r \in Runs : FollowUp(r)
    BY <1>1, <2>1 DEF FollowUp, Chances
  <2>. QED
    BY <1>9, <2>1 DEF FollowUps, HeldFollowUp, UnchangedByFollowUp, Reserve, SendPrompt
<1>10. CASE Pauses
  BY <1>1, <1>10 DEF Pauses, PauseRun, PauseProject, Chances
<1>11. CASE Resumes
  <2>1. CASE PlanRestarts
    BY <1>1, <2>1 DEF PlanRestarts, Chances
  <2>. QED
    BY <1>11, <2>1 DEF Resumes, Resume, ResumePlans, ReclaimTakesLock, ReclaimSlot, SigCont,
                       FinishThaws, EndOldChildren, RequeueTakesLock, RequeueOne, ResumeDone
<1>. QED
  BY <1>3, <1>4, <1>5, <1>6, <1>7, <1>8, <1>9, <1>10, <1>11 DEF Next

LEMMA InitIsSound ==
  ASSUME Untroubled, Init
  PROVE  SInv
<1>1. IInv /\ resume = NoResume /\ ops = {} /\ restarts = {} /\ frozenSessions = {}
  BY InitInv DEF Init
<1>2. /\ \A s \in Sessions : child[s] = NoChild
      /\ \A r \in Runs : state[r] = "None" /\ session[r] = 0 /\ frozen[r] = NoFreeze
  BY DEF Init, Untroubled
<1>3. budget["term"] = 0
  BY DEF Init, Untroubled
<1>4. resume.phase = "idle" /\ resume.thaws = {} /\ resume.ends = {} /\ NoChild.st = "none"
  BY <1>1 DEF NoResume, NoChild
<1>5. Births
  BY <1>1, <1>2, <1>4 DEF Births
<1>6. ASSUME NEW r \in Runs PROVE Sound(r)
  <2>1. \A g \in Gens : <<r, g>> \in Sessions
    BY DEF Sessions
  <2>. QED
    BY <1>1, <1>2, <1>4, <2>1 DEF Sound, RowSound, ChildSound, Marked, Thawing
<1>. QED
  BY <1>1, <1>3, <1>4, <1>5, <1>6 DEF SInv, NoneToRequeue

LEMMA NextIsSound ==
  ASSUME ~Overlapping, SInv, [Next]_vars
  PROVE  SInv'
<1>1. IInv'
  BY NextInv DEF SInv
<1>2. Typed /\ Typed' /\ queues \in [Keys -> Seq(Runs)] /\ ThawsKnown /\ AllSound /\ Births
  BY <1>1 DEF SInv, IInv, TypeOK, Typed, InnerTyped, AllSound
<1>3. budget["term"] = 0 /\ NoneToRequeue
  BY DEF SInv
<1>4. CASE UNCHANGED vars
  <2>1. Births' /\ NoneToRequeue' /\ budget'["term"] = 0
    BY <1>2, <1>3, <1>4 DEF Births, NoneToRequeue, vars, procVars, innerVars
  <2>2. Quietly
    BY <1>4, SameLine DEF vars, rowVars, innerVars, procVars, Quietly, Tame
  <2>. QED
    BY <1>1, <1>2, <2>1, <2>2, QuietIsSound DEF SInv, AllSound
<1>5. CASE Next
  <2>1. Births' /\ budget'["term"] = 0
    BY <1>2, <1>3, <1>5, NextBirths, NoTermIsSpent
  <2>2. AllSound' /\ NoneToRequeue'
    <3>1. CASE Resumes
      BY <1>2, <1>3, <3>1, ResumesAreSound
    <3>2. CASE ~Resumes
      <4>1. NoneToRequeue'
        BY <1>3, <1>5, <3>2, OnlyResumesResume DEF NoneToRequeue
      <4>2. AllSound'
        BY <1>2, <1>3, <1>5, <3>2, DispatchIsSound, AdmissionIsSound, StartsAreSound,
           ChildStepsAreSound, ReactionsAreSound, StopsAreSound, FollowUpsAreSound,
           PausesAreSound DEF Next
      <4>. QED
        BY <4>1, <4>2
    <3>. QED
      BY <3>1, <3>2
  <2>. QED
    BY <1>1, <2>1, <2>2 DEF SInv, AllSound
<1>. QED
  BY <1>4, <1>5

\* A child that a Pause stopped is never forgotten: while its run is not over, it stands
\* in the table of frozen sessions, where the next Resume or Stop finds it, or the Resume
\* in progress is about to end it.  The run may be stopped, gracefully or by force,
\* between the mark and the SIGSTOP and at every step of Resume; starts, turns and opening
\* prompts may fail; settings may change; children may exit, as often as they like and
\* for any number of runs.  What is assumed: one button at a time, no row of a previous
\* cide, and no child signalled by anybody but cide.
THEOREM NoStoppedChildIsForgotten == ASSUME Untroubled PROVE Spec => []NoChildLeftStopped
<1>1. Init => SInv
  BY InitIsSound
<1>2. SInv /\ [Next]_vars => SInv'
  BY NextIsSound DEF Untroubled
<1>3. SInv => NoChildLeftStopped
  <2>. SUFFICES ASSUME SInv, NEW r \in Runs, NEW g \in Gens, child[<<r, g>>].st = "live",
                       child[<<r, g>>].halted, state[r] \notin Over
                PROVE  <<r, g>> \in frozenSessions \/ <<r, g>> \in resume.ends
    BY DEF NoChildLeftStopped, Sessions
  <2>1. Known(<<r, g>>) /\ state[r] # "Interrupted"
    BY DEF SInv, Sound, ChildSound, RowSound
  <2>2. ~Rests(r)
    BY <2>1 DEF Rests, Over, Ended
  <2>. QED
    BY <2>1, <2>2 DEF Known, Marked, ToBeEnded
<1>. QED
  BY <1>1, <1>2, <1>3, PTL DEF Spec

=============================================================================
