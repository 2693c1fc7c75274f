----------------------------- MODULE ReaperProofs -----------------------------
(***************************************************************************)
(* Theorems of Reaper, for any tabs and sessions, any depth of the undo    *)
(* stack, any number of closings, reopenings, exits and ticks.             *)
(***************************************************************************)
EXTENDS Reaper, SequenceTheorems, TLAPS

---------------------------------------------------------------------------
(* The inductive invariant *)

\* A tab is in the tree, on the undo stack once, or being reopened
Somewhere ==
    /\ \A s \in Shown: step[s] = "none"
    /\ \A i \in 1..Len(undo): undo[i] \notin open /\ \A s \in In(undo[i]): step[s] = "none"
    /\ \A i, j \in 1..Len(undo): undo[i] = undo[j] => i = j

\* Generations are numbered as they are spawned
Numbered == \A s \in Sessions:
    /\ registry[s] <= spawned[s] /\ 0 \notin alive[s]
    /\ \A g \in alive[s] \union killed[s]: g <= spawned[s]
    /\ step[s] = "spawning" => spawned[s] < MaxGen

\* A closed project has nothing left to reopen, and stops what its panes named
Closing ==
    /\ ~project => open = {} /\ undo = <<>>
    /\ \A s \in Sessions: stopping[s] # 0 =>
         ~project /\ step[s] = "none" /\ registry[s] \in {0, stopping[s]}

\* What a tick knows, where it stands
Ticking ==
    /\ phase \in {"asleep", "named", "reading"} => ending = {}
    /\ phase \in {"asleep", "named", "telling"} => DueOnes = {}
    /\ phase # "removing" => ended = {}
    /\ phase = "reading" => DueOnes \subseteq Sessions \ named
    /\ phase \in {"ladder", "removing"} => DueOnes \subseteq ending
    /\ ended \subseteq ending

\* A tick ends nothing that is on screen or that a reopen has decided on
Apart == \A s \in Sessions \ hasty:
    /\ phase \in {"named", "reading"} => ~Decided(s) /\ (s \in Shown => s \in named)
    /\ s \in ending => ~Decided(s) /\ s \notin Shown

\* A child that a tick found due is the registry's, and is signalled
Found == \A s \in Sessions \ hasty: due[s] # 0 =>
    /\ registry[s] \in {0, due[s]}
    /\ phase \in {"ladder", "removing"} /\ due[s] \in alive[s] => due[s] \in killed[s]

\* What a reopen decided on is still so
Chosen == \A s \in Sessions:
    /\ step[s] \in {"spawning", "dead", "failed"} => ~Live(s)
    /\ step[s] \in {"adopted", "started"} /\ s \notin hasty /\ project /\ Live(s)
         => registry[s] \notin killed[s]

\* A terminal shows the registry's child, or is about to go
Terminals == project => \A s \in Sessions \ hasty:
    \/ host[s] \in {0, registry[s]} \/ s \in ended
    \/ Decided(s) /\ step[s] # "adopted" /\ (TabOf[s] \in Ephemeral => step[s] = "started")

IInv == /\ TypeOK /\ Somewhere /\ Numbered /\ Closing /\ Ticking
        /\ Apart /\ Found /\ Chosen /\ Terminals /\ NoDeadPane /\ NoChildLost

\* What the invariant speaks of
Core == <<registry, spawned, alive, killed, open, undo, step, host, project, stopping,
          ending, phase, named, due, ended, hasty>>

---------------------------------------------------------------------------
(* Types *)

\* Any of the worlds to begin with.
LEMMA InitTyped == Init => TypeOK /\ IInv
<1>. SUFFICES ASSUME Init PROVE TypeOK /\ IInv
  OBVIOUS
<1>. USE ConstantsAssumption
<1>1. PICK w \in Worlds: open = w.tabs /\ left = w.left
  BY DEF Init
<1>2. w.tabs \subseteq Tabs /\ w.left \in [Chances -> Nat]
  OBVIOUS
<1>3. registry \in [Sessions -> {0, 1}] /\ \A s \in Sessions: registry[s] = 1 <=> s \in Shown
  BY DEF Init, Shown
<1>4. {0, 1} \subseteq Gens /\ MaxGen >= 1
  BY DEF Gens
<1>5. TypeOK
  BY <1>1, <1>2, <1>3, <1>4 DEF Init, TypeOK, Gens, Nobody, Steps, Phases
<1>6. \A s \in Sessions: /\ spawned[s] = registry[s] /\ host[s] = registry[s] /\ stopping[s] = 0
                         /\ killed[s] = {} /\ alive[s] = {registry[s]} \ {0}
                         /\ step[s] = "none" /\ due[s] = 0
  BY DEF Init, Nobody
<1>7. undo = <<>> /\ Len(undo) = 0 /\ project = TRUE
  BY DEF Init
<1>8. Somewhere /\ Closing
  BY <1>6, <1>7 DEF Somewhere, Closing, Shown
<1>11. Numbered
  BY <1>3, <1>6 DEF Numbered
<1>9. Ticking
  BY <1>6 DEF Init, Ticking, DueOnes
<1>10. Apart /\ Found /\ Chosen /\ Terminals /\ NoDeadPane /\ NoChildLost
  BY <1>3, <1>6 DEF Init, Apart, Found, Chosen, Terminals, NoDeadPane, NoChildLost, Decided, Live, Shown
<1>. QED
  BY <1>5, <1>8, <1>9, <1>10, <1>11 DEF IInv

\* ClosedTabs::push: the newest first, and at most MAX_CLOSED of them.
LEMMA PushedTyped ==
  ASSUME TypeOK, NEW t \in Tabs
  PROVE  LET n == IF Len(undo) < Depth THEN Len(undo) + 1 ELSE Depth IN
         /\ Pushed(t) \in Seq(Tabs) /\ Len(Pushed(t)) = n /\ n \in Nat /\ n <= Depth /\ n >= 1
         /\ n <= Len(undo) + 1
         /\ \A i \in 1..n: Pushed(t)[i] = IF i = 1 THEN t ELSE undo[i - 1]
<1>. DEFINE n == IF Len(undo) < Depth THEN Len(undo) + 1 ELSE Depth
            q == <<t>> \o undo
<1>1. undo \in Seq(Tabs) /\ Len(undo) \in Nat /\ Depth \in Nat /\ Depth >= 1 /\ Len(undo) <= Depth
  BY ConstantsAssumption DEF TypeOK
<1>2. q \in Seq(Tabs) /\ Len(q) = Len(undo) + 1
      /\ \A i \in 1..Len(undo) + 1: q[i] = IF i = 1 THEN t ELSE undo[i - 1]
  BY <1>1
<1>3. n \in 1..Len(q)
  BY <1>1, <1>2
<1>4. SubSeq(q, 1, n) \in Seq(Tabs) /\ Len(SubSeq(q, 1, n)) = n
      /\ \A i \in 1..n: SubSeq(q, 1, n)[i] = q[i]
  BY <1>2, <1>3, SubSeqProperties
<1>. QED
  BY <1>1, <1>2, <1>3, <1>4 DEF Pushed

\* A chance is spent.
LEMMA MaySpends ==
  ASSUME TypeOK, NEW k \in Chances, May(k)
  PROVE  left' \in [Chances -> Nat]
  BY DEF TypeOK, May

\* Only generations are signalled.
LEMMA SignalledTyped ==
  ASSUME TypeOK, NEW which
  PROVE  Signalled(which) \in [Sessions -> SUBSET Gens]
  BY DEF TypeOK, Signalled

\* Every step keeps the types.
LEMMA TypesKept == ASSUME IInv, [Next]_vars PROVE TypeOK'
<1>. USE DEF TypeOK
<1>0. TypeOK /\ 0 \in Gens /\ \A g \in Gens: g \in Nat
  BY ConstantsAssumption DEF IInv, Gens
<1>1. ASSUME NEW s \in Sessions, Session(s) PROVE TypeOK'
  <2>1. CASE Dies(s)
    <3>1. alive' \in [Sessions -> SUBSET Gens] /\ held' \subseteq Sessions
      BY <1>0, <2>1 DEF Dies
    <3>. QED
      BY <1>0, <2>1, <3>1 DEF Dies, tree, tick, noted
  <2>2. CASE StopsOne(s)
    BY <1>0, <2>2 DEF StopsOne, tick, noted
  <2>. QED
    BY <1>1, <2>1, <2>2 DEF Session
<1>2. ASSUME NEW s \in Sessions, Exits(s) \/ Holds(s) \/ LetsGo(s) PROVE TypeOK'
  <2>1. left' \in [Chances -> Nat]
    BY <1>0, <1>2, MaySpends DEF Exits, Holds, LetsGo, Chances, noted
  <2>2. alive' \in [Sessions -> SUBSET Gens] /\ held' \subseteq Sessions
    BY <1>0, <1>2 DEF Exits, Holds, LetsGo
  <2>3. UNCHANGED <<registry, spawned, killed, tree, enabled, tick, hasty>>
    BY <1>2 DEF Exits, Holds, LetsGo, noted
  <2>. QED
    BY <1>0, <2>1, <2>2, <2>3 DEF tree, tick
<1>3. ASSUME NEW t \in Tabs, ClosesTab(t) PROVE TypeOK'
  <2>1. undo' \in Seq(Tabs) /\ Len(undo') <= Depth
    BY <1>0, <1>3, PushedTyped DEF ClosesTab
  <2>2. killed' \in [Sessions -> SUBSET Gens] /\ left' \in [Chances -> Nat]
    BY <1>0, <1>3, SignalledTyped, MaySpends DEF ClosesTab, Chances
  <2>3. open' \subseteq Tabs
    BY <1>0, <1>3 DEF ClosesTab
  <2>. QED
    BY <1>0, <1>3, <2>1, <2>2, <2>3 DEF ClosesTab, tick
<1>4. ASSUME ClosesProject PROVE TypeOK'
  <2>1. killed' \in [Sessions -> SUBSET Gens] /\ left' \in [Chances -> Nat]
    BY <1>0, <1>4, SignalledTyped, MaySpends DEF ClosesProject, Chances
  <2>2. undo' \in Seq(Tabs) /\ Len(undo') <= Depth
    BY <1>4, ConstantsAssumption DEF ClosesProject
  <2>. QED
    BY <1>0, <1>4, <2>1, <2>2 DEF ClosesProject, tick
<1>5. ASSUME Reopens PROVE TypeOK'
  <2>1. undo' \in Seq(Tabs) /\ Len(undo') <= Depth
    BY <1>0, <1>5, ConstantsAssumption DEF Reopens
  <2>2. left' \in [Chances -> Nat]
    BY <1>0, <1>5, MaySpends DEF Reopens, Chances
  <2>. QED
    BY <1>0, <1>5, <2>1, <2>2 DEF Reopens, sessions, tick, Steps
<1>6. ASSUME NEW s \in Sessions, Adopts(s) \/ Resumes(s) PROVE TypeOK'
  <2>1. step' \in [Sessions -> Steps] /\ hasty' \subseteq Sessions
    BY <1>0, <1>6 DEF Adopts, Resumes, Decides, Steps
  <2>2. registry' \in [Sessions -> Gens]
    BY <1>0, <1>6 DEF Adopts, Resumes
  <2>3. UNCHANGED <<spawned, alive, killed, held, open, undo, host, project, stopping, enabled, tick, left>>
    BY <1>6 DEF Adopts, Resumes, Decides
  <2>. QED
    BY <1>0, <2>1, <2>2, <2>3 DEF tick
<1>7. ASSUME NEW s \in Sessions, Spawns(s) PROVE TypeOK'
  <2>1. spawned[s] + 1 \in Gens
    BY <1>0, <1>7, ConstantsAssumption DEF Spawns, IInv, Numbered, Gens
  <2>. QED
    BY <1>0, <1>7, <2>1 DEF Spawns, tick, noted, Steps
<1>8. ASSUME NEW s \in Sessions, FailsToSpawn(s) PROVE TypeOK'
  BY <1>0, <1>8 DEF FailsToSpawn, sessions, tick, noted, Steps
<1>9. ASSUME NEW t \in Tabs, Reinserts(t) PROVE TypeOK'
  <2>1. host' \in [Sessions -> Gens]
    BY <1>0, <1>9 DEF Reinserts, Mounted
  <2>2. killed' \in [Sessions -> SUBSET Gens]
    BY <1>0, <1>9, SignalledTyped DEF Reinserts
  <2>. QED
    BY <1>0, <1>9, <2>1, <2>2 DEF Reinserts, tick, noted, Steps
<1>10. ASSUME TicksOff \/ Ages \/ Switches PROVE TypeOK'
  <2>1. age' \in [Sessions -> 0..3]
    <3>1. CASE Ages
      <4>1. \A s \in Sessions: age[s] \in 0..3 /\ (age[s] \in {1, 2} => age[s] + 1 \in 0..3)
        BY <1>0
      <4>. QED
        BY <3>1, <4>1 DEF Ages
    <3>2. CASE TicksOff \/ Switches
      BY <1>0, <3>2 DEF TicksOff, Switches, tick, Nobody
    <3>. QED
      BY <1>10, <3>1, <3>2
  <2>2. left' \in [Chances -> Nat] /\ enabled' \in BOOLEAN /\ UNCHANGED hasty
    BY <1>0, <1>10, MaySpends DEF TicksOff, Ages, Switches, Chances, noted
  <2>3. UNCHANGED <<sessions, tree, ending, phase, named, unread, due, ended>>
    BY <1>10 DEF TicksOff, Ages, Switches, tick
  <2>. QED
    BY <1>0, <2>1, <2>2, <2>3 DEF sessions, tree
<1>11. ASSUME Ticks \/ ReadsIds \/ LadderEnds \/ Clears PROVE TypeOK'
  BY <1>0, <1>11 DEF Ticks, ReadsIds, LadderEnds, Clears, Cleared, Referenced, Shown,
                     sessions, tree, tick, noted, Phases
<1>12. ASSUME NEW s \in Sessions, ReadsOne(s) PROVE TypeOK'
  BY <1>0, <1>12 DEF ReadsOne, sessions, tree, tick, noted
<1>13. ASSUME Begins PROVE TypeOK'
  BY <1>0, <1>13 DEF Begins, DueOnes, tree, noted, Phases
<1>14. ASSUME NEW s \in Sessions, Removes(s) PROVE TypeOK'
  <2>1. /\ registry' \in [Sessions -> Gens] /\ age' \in [Sessions -> 0..3]
        /\ ended' \subseteq Sessions /\ due' \in [Sessions -> Gens]
    <3>1. due' = [due EXCEPT ![s] = 0]
      BY <1>14 DEF Removes
    <3>2. CASE due[s] \in alive[s]
      BY <1>0, <1>14, <3>1, <3>2 DEF Removes
    <3>3. CASE due[s] \notin alive[s]
      <4>1. registry' = [registry EXCEPT ![s] = 0] /\ age' = [age EXCEPT ![s] = 0]
            /\ ended' = ended \union {s}
        BY <1>14, <3>3 DEF Removes
      <4>. QED
        BY <1>0, <3>1, <4>1
    <3>. QED
      BY <3>2, <3>3
  <2>. QED
    BY <1>0, <1>14, <2>1 DEF Removes, tree, noted
<1>15. ASSUME Tells PROVE TypeOK'
  BY <1>0, <1>15 DEF Tells, Retired, sessions, noted, Phases
<1>16. ASSUME UNCHANGED vars PROVE TypeOK'
  BY <1>0, <1>16 DEF vars, sessions, tree, tick, noted
<1>. QED
  <2>. HIDE DEF TypeOK
  <2>. QED
    BY <1>1, <1>2, <1>3, <1>4, <1>5, <1>6, <1>7, <1>8, <1>9, <1>10, <1>11, <1>12, <1>13,
       <1>14, <1>15, <1>16 DEF Next, Tick, World, Reopen, In

\* Generations are numbers.
LEMMA Numbers ==
  ASSUME TypeOK
  PROVE  /\ 0 \in Gens /\ MaxGen \in Nat
         /\ \A s \in Sessions: /\ registry[s] \in Nat /\ spawned[s] \in Nat /\ due[s] \in Nat
                               /\ host[s] \in Nat /\ alive[s] \subseteq Nat /\ killed[s] \subseteq Nat
  BY ConstantsAssumption DEF TypeOK, Gens
\* A child that was signalled goes: the registry keeps its handle.
LEMMA DiesKeeps ==
  ASSUME IInv, TypeOK', NEW s \in Sessions, Dies(s)
  PROVE  IInv'
<1>1. TypeOK
  BY DEF IInv
<1>2. Somewhere' /\ Closing' /\ Ticking' /\ Apart' /\ Terminals'
  BY DEF IInv, Dies, tree, tick, noted, Somewhere, Closing, Ticking, Apart, Terminals, Shown,
     In, DueOnes, Decided
<1>3. Numbered'
  BY <1>1 DEF IInv, TypeOK, Dies, tree, Numbered
<1>4. Found'
  BY <1>1 DEF IInv, TypeOK, Dies, tick, noted, Found
<1>5. Chosen'
  BY <1>1 DEF IInv, TypeOK, Dies, tree, noted, Chosen, Live
<1>6. NoDeadPane'
  BY <1>1 DEF IInv, TypeOK, Dies, tree, noted, NoDeadPane, Shown, Live
<1>7. NoChildLost'
  BY <1>1 DEF IInv, TypeOK, Dies, noted, NoChildLost
<1>. QED
  BY <1>2, <1>3, <1>4, <1>5, <1>6, <1>7 DEF IInv

\* A child goes by itself.
LEMMA ExitsKeeps ==
  ASSUME IInv, TypeOK', NEW s \in Sessions, Exits(s)
  PROVE  IInv'
<1>1. TypeOK
  BY DEF IInv
<1>2. Somewhere' /\ Closing' /\ Ticking' /\ Apart' /\ Terminals'
  BY DEF IInv, Exits, tree, tick, Somewhere, Closing, Ticking, Apart, Terminals, Shown, In,
     DueOnes, Decided
<1>3. Numbered'
  BY <1>1 DEF IInv, TypeOK, Exits, tree, Numbered
<1>4. Found'
  BY <1>1 DEF IInv, TypeOK, Exits, tick, Found
<1>5. Chosen'
  BY <1>1 DEF IInv, TypeOK, Exits, tree, Chosen, Live
<1>6. NoDeadPane'
  BY <1>1 DEF IInv, TypeOK, Exits, tree, NoDeadPane, Shown, Live
<1>7. NoChildLost'
  BY <1>1 DEF IInv, TypeOK, Exits, NoChildLost
<1>. QED
  BY <1>2, <1>3, <1>4, <1>5, <1>6, <1>7 DEF IInv

\* close_tab_checked: the tab leaves the screen for the undo stack.
LEMMA ClosesTabKeeps ==
  ASSUME IInv, TypeOK', NEW t \in Tabs, ClosesTab(t)
  PROVE  IInv'
<1>1. TypeOK
  BY DEF IInv
<1>2. Ticking' /\ Terminals'
  BY DEF IInv, ClosesTab, tick, Ticking, Terminals, DueOnes, Decided
<1>3. Somewhere'
  <2>1. /\ Len(undo') \in Nat /\ Len(undo') <= Len(undo) + 1
        /\ \A i \in 1..Len(undo'): undo'[i] = IF i = 1 THEN t ELSE undo[i - 1]
    BY <1>1, PushedTyped DEF ClosesTab
  <2>2. Len(undo) \in Nat
    BY <1>1 DEF TypeOK
  <2>3. /\ t \in open /\ \A s \in In(t): step[s] = "none"
        /\ \A i \in 1..Len(undo): undo[i] # t
    BY DEF ClosesTab, IInv, Somewhere, In, Shown
  <2>4. \A i \in 1..Len(undo'): i # 1 => i - 1 \in 1..Len(undo)
    BY <2>1, <2>2
  <2>5. UNCHANGED step /\ open' = open \ {t}
    BY DEF ClosesTab
  <2>6. \A i \in 1..Len(undo'): undo'[i] \notin open' /\ \A s \in In(undo'[i]): step'[s] = "none"
    BY <2>1, <2>3, <2>4, <2>5 DEF IInv, Somewhere
  <2>7. \A i, j \in 1..Len(undo'): undo'[i] = undo'[j] => i = j
    BY <2>1, <2>2, <2>3, <2>4 DEF IInv, Somewhere
  <2>. QED
    BY <2>5, <2>6, <2>7 DEF IInv, Somewhere, Shown, In
<1>4. Numbered'
  BY <1>1 DEF IInv, TypeOK, ClosesTab, Signalled, In, Live, Numbered
<1>5. Closing'
  BY <1>1 DEF IInv, TypeOK, ClosesTab, Signalled, In, Live, Closing
<1>6. Apart'
  BY <1>1 DEF IInv, TypeOK, ClosesTab, Signalled, In, Live, tick, Apart, Decided, Shown
<1>7. Found'
  BY <1>1 DEF IInv, TypeOK, ClosesTab, Signalled, In, Live, tick, Found
<1>8. Chosen'
  BY <1>1 DEF IInv, TypeOK, ClosesTab, Signalled, In, Live, Chosen, Somewhere, Shown
<1>9. NoDeadPane'
  BY <1>1 DEF IInv, TypeOK, ClosesTab, Signalled, In, Live, NoDeadPane, Shown
<1>10. NoChildLost'
  BY <1>1 DEF IInv, TypeOK, ClosesTab, Signalled, In, Live, NoChildLost
<1>. QED
  BY <1>2, <1>3, <1>4, <1>5, <1>6, <1>7, <1>8, <1>9, <1>10 DEF IInv

\* close_project_here: nothing is left on screen, nor to reopen.
LEMMA ClosesProjectKeeps ==
  ASSUME IInv, TypeOK', ClosesProject
  PROVE  IInv'
<1>1. TypeOK
  BY DEF IInv
<1>2. Ticking'
  BY DEF IInv, ClosesProject, tick, Ticking, DueOnes
<1>3. Somewhere'
  BY <1>1 DEF IInv, TypeOK, ClosesProject, Signalled, Live, Shown, Somewhere, In
<1>4. Numbered'
  BY <1>1 DEF IInv, TypeOK, ClosesProject, Signalled, Live, Shown, Numbered
<1>5. Closing'
  BY <1>1 DEF IInv, TypeOK, ClosesProject, Signalled, Live, Shown, Closing, Somewhere
<1>6. Apart'
  BY <1>1 DEF IInv, TypeOK, ClosesProject, Signalled, Live, Shown, tick, Apart, Decided
<1>7. Found'
  BY <1>1 DEF IInv, TypeOK, ClosesProject, Signalled, Live, Shown, tick, Found
<1>8. Chosen'
  BY <1>1 DEF IInv, TypeOK, ClosesProject, Signalled, Live, Shown, Chosen
<1>9. Terminals'
  BY <1>1 DEF IInv, TypeOK, ClosesProject, Signalled, Live, Shown, tick, Terminals, Decided
<1>10. NoDeadPane'
  BY <1>1 DEF IInv, TypeOK, ClosesProject, Signalled, Live, Shown, NoDeadPane
<1>11. NoChildLost'
  BY <1>1 DEF IInv, TypeOK, ClosesProject, Signalled, Live, Shown, NoChildLost
<1>. QED
  BY <1>2, <1>3, <1>4, <1>5, <1>6, <1>7, <1>8, <1>9, <1>10, <1>11 DEF IInv

\* stop_closed_sessions lets go of what its own ladder ended.
LEMMA StopsOneKeeps ==
  ASSUME IInv, TypeOK', NEW s \in Sessions, StopsOne(s)
  PROVE  IInv'
<1>1. TypeOK
  BY DEF IInv
<1>2. Somewhere' /\ Ticking' /\ Apart'
  BY DEF IInv, StopsOne, tick, noted, Somewhere, Ticking, Apart, Shown, In, DueOnes, Decided
<1>3. Numbered'
  <2>1. \A o \in Sessions: registry'[o] \in {0, registry[o]}
    BY <1>1 DEF StopsOne, TypeOK
  <2>. QED
    BY <1>1, <2>1, Numbers DEF IInv, StopsOne, tick, noted, Numbered
<1>4. Closing'
  BY <1>1 DEF IInv, TypeOK, StopsOne, Closing
<1>5. Found'
  BY <1>1 DEF IInv, TypeOK, StopsOne, tick, noted, Found, Closing
<1>6. Chosen'
  BY <1>1 DEF IInv, TypeOK, StopsOne, noted, Chosen, Live, Numbered, Closing
<1>7. Terminals'
  BY <1>1 DEF IInv, TypeOK, StopsOne, tick, noted, Terminals, Decided, Closing
<1>8. NoDeadPane'
  BY <1>1 DEF IInv, TypeOK, StopsOne, noted, NoDeadPane, Shown, Live, Closing
<1>9. NoChildLost'
  BY <1>1 DEF IInv, TypeOK, StopsOne, noted, NoChildLost, Closing
<1>. QED
  BY <1>2, <1>3, <1>4, <1>5, <1>6, <1>7, <1>8, <1>9 DEF IInv

\* tab_reopen_closed takes a tab off the stack.
LEMMA ReopensKeeps ==
  ASSUME IInv, TypeOK', Reopens
  PROVE  IInv'
<1>1. TypeOK
  BY DEF IInv
<1>2. Ticking' /\ Found' /\ NoDeadPane' /\ NoChildLost'
  BY DEF IInv, Reopens, sessions, tick, Ticking, Found, NoDeadPane, NoChildLost, DueOnes,
     Shown, Live
<1>3. Somewhere'
  BY <1>1 DEF IInv, TypeOK, Reopens, Somewhere, Shown, In
<1>4. Numbered'
  BY <1>1 DEF IInv, TypeOK, Reopens, sessions, Numbered
<1>5. Closing'
  BY <1>1 DEF IInv, TypeOK, Reopens, sessions, Closing
<1>6. Apart'
  BY <1>1 DEF IInv, TypeOK, Reopens, tick, Apart, Decided, Shown
<1>7. Chosen'
  BY <1>1 DEF IInv, TypeOK, Reopens, sessions, Chosen, Live
<1>8. Terminals'
  <2>1. Head(undo) = undo[1] /\ 1 \in 1..Len(undo)
    BY <1>1 DEF Reopens, TypeOK
  <2>2. \A o \in Sessions: TabOf[o] = Head(undo) => step[o] = "none"
    BY <2>1 DEF IInv, Somewhere, In
  <2>3. \A o \in Sessions: Decided(o) => step'[o] = step[o]
    BY <1>1, <2>2 DEF Reopens, TypeOK, Decided
  <2>. QED
    BY <2>3 DEF IInv, Reopens, sessions, tick, Terminals, Decided
<1>. QED
  BY <1>2, <1>3, <1>4, <1>5, <1>6, <1>7, <1>8 DEF IInv

\* resume_closed finds the child running: not one that is signalled.
LEMMA AdoptsKeeps ==
  ASSUME IInv, TypeOK', NEW s \in Sessions, Adopts(s)
  PROVE  IInv'
<1>1. TypeOK
  BY DEF IInv
<1>2. Ticking'
  BY DEF IInv, Adopts, Decides, tick, Ticking, DueOnes
<1>3. Somewhere'
  BY <1>1 DEF IInv, TypeOK, Adopts, Decides, Turn, Somewhere, Shown, In
<1>4. Numbered'
  BY <1>1 DEF IInv, TypeOK, Adopts, Decides, Turn, Numbered
<1>5. Closing'
  BY <1>1 DEF IInv, TypeOK, Adopts, Decides, Turn, Closing
<1>6. Apart'
  BY <1>1 DEF IInv, TypeOK, Adopts, Decides, Turn, tick, Apart, Decided, Shown, Unseen, WaitedOut,
     Ticking
<1>7. Found'
  BY <1>1 DEF IInv, TypeOK, Adopts, Decides, Turn, tick, Found
<1>8. Chosen'
  BY <1>1 DEF IInv, TypeOK, Adopts, Decides, Turn, Chosen, Live, Unseen, WaitedOut
<1>9. Terminals'
  BY <1>1 DEF IInv, TypeOK, Adopts, Decides, Turn, tick, Terminals, Decided, Somewhere
<1>10. NoDeadPane'
  BY <1>1 DEF IInv, TypeOK, Adopts, Decides, Turn, NoDeadPane, Shown, Live
<1>11. NoChildLost'
  BY <1>1 DEF IInv, TypeOK, Adopts, Decides, Turn, NoChildLost
<1>. QED
  BY <1>2, <1>3, <1>4, <1>5, <1>6, <1>7, <1>8, <1>9, <1>10, <1>11 DEF IInv

\* resume_closed drops the entry of a child that is gone.
LEMMA ResumesKeeps ==
  ASSUME IInv, TypeOK', NEW s \in Sessions, Resumes(s)
  PROVE  IInv'
<1>1. TypeOK
  BY DEF IInv
<1>2. Ticking'
  BY DEF IInv, Resumes, Decides, tick, Ticking, DueOnes
<1>3. Somewhere'
  BY <1>1 DEF IInv, TypeOK, Resumes, Decides, Turn, Somewhere, Shown, In
<1>4. Numbered'
  <2>1. \A o \in Sessions: registry'[o] \in {0, registry[o]}
    BY <1>1 DEF Resumes, TypeOK
  <2>2. \A o \in Sessions: step'[o] = "spawning" => step[o] = "spawning" \/ spawned[o] < MaxGen
    BY <1>1 DEF Resumes, Decides, TypeOK
  <2>. QED
    BY <1>1, <2>1, <2>2, Numbers DEF IInv, Resumes, Decides, tick, Numbered
<1>5. Closing'
  BY <1>1 DEF IInv, TypeOK, Resumes, Decides, Turn, Closing
<1>6. Apart'
  BY <1>1 DEF IInv, TypeOK, Resumes, Decides, Turn, tick, Apart, Decided, Shown, Unseen, WaitedOut
<1>7. Found'
  BY <1>1 DEF IInv, TypeOK, Resumes, Decides, Turn, tick, Found, Live, Unseen, Apart, Ticking
<1>8. Chosen'
  BY <1>1 DEF IInv, TypeOK, Resumes, Decides, Turn, Chosen, Live, Numbered
<1>9. Terminals'
  <2>1. /\ \A o \in Sessions: o # s => registry'[o] = registry[o] /\ step'[o] = step[o]
        /\ step[s] = "todo" /\ step'[s] \in {"spawning", "dead"}
        /\ hasty \subseteq hasty' /\ UNCHANGED <<host, ended, project>>
        /\ TabOf[s] \in Ephemeral => registry'[s] = registry[s]
    BY <1>1 DEF Resumes, Decides, Turn, TypeOK, tick
  <2>2. ASSUME project PROVE
          \/ s \in hasty' \/ host'[s] \in {0, registry'[s]} \/ s \in ended'
          \/ Decided(s)' /\ step'[s] # "adopted" /\ TabOf[s] \notin Ephemeral
    <3>1. CASE TabOf[s] \in Ephemeral
      BY <2>1, <2>2, <3>1 DEF IInv, Terminals, Decided
    <3>2. CASE TabOf[s] \notin Ephemeral
      BY <2>1, <3>2 DEF Decided
    <3>. QED
      BY <3>1, <3>2
  <2>3. \A o \in Sessions: o # s => (Decided(o)' <=> Decided(o))
    BY <2>1 DEF Decided
  <2>4. ASSUME project, NEW o \in Sessions \ hasty', o # s PROVE
          \/ host'[o] \in {0, registry'[o]} \/ o \in ended'
          \/ Decided(o)' /\ step'[o] # "adopted" /\ (TabOf[o] \in Ephemeral => step'[o] = "started")
    BY <2>1, <2>3, <2>4 DEF IInv, Terminals
  <2>. QED
    BY <2>1, <2>2, <2>4 DEF Terminals
<1>10. NoDeadPane'
  BY <1>1 DEF IInv, TypeOK, Resumes, Decides, Turn, NoDeadPane, Shown, Live, Somewhere
<1>11. NoChildLost'
  BY <1>1 DEF IInv, TypeOK, Resumes, Decides, Turn, NoChildLost, Live
<1>. QED
  BY <1>2, <1>3, <1>4, <1>5, <1>6, <1>7, <1>8, <1>9, <1>10, <1>11 DEF IInv

\* spawn_session: the registry has no other child to lose.
LEMMA SpawnsKeeps ==
  ASSUME IInv, TypeOK', NEW s \in Sessions, Spawns(s)
  PROVE  IInv'
<1>1. TypeOK
  BY DEF IInv
<1>2. Ticking'
  BY DEF IInv, Spawns, tick, Ticking, DueOnes
<1>3. Somewhere'
  BY <1>1 DEF IInv, TypeOK, Spawns, Somewhere, Shown, In
<1>4. Numbered'
  <2>1. /\ spawned' = [spawned EXCEPT ![s] = spawned[s] + 1] /\ spawned'[s] = spawned[s] + 1
        /\ step' = [step EXCEPT ![s] = "started"] /\ UNCHANGED killed
        /\ alive' = [alive EXCEPT ![s] = alive[s] \union {spawned'[s]}]
        /\ registry' = [registry EXCEPT ![s] = spawned'[s]]
    BY <1>1 DEF Spawns, TypeOK
  <2>2. ASSUME NEW o \in Sessions, o # s
        PROVE  /\ registry'[o] = registry[o] /\ spawned'[o] = spawned[o] /\ alive'[o] = alive[o]
               /\ killed'[o] = killed[o] /\ step'[o] = step[o]
    BY <1>1, <2>1, <2>2 DEF TypeOK
  <2>3. /\ registry'[s] = spawned[s] + 1 /\ spawned'[s] = spawned[s] + 1 /\ killed'[s] = killed[s]
        /\ step'[s] = "started"
    BY <1>1, <2>1 DEF TypeOK
  <2>6. alive'[s] = alive[s] \union {spawned[s] + 1}
    <3>1. s \in DOMAIN alive
      BY <1>1 DEF TypeOK
    <3>. QED
      BY <2>1, <3>1
  <2>4. \A g \in alive[s] \union killed[s]: g \in Nat /\ g <= spawned[s] /\ g <= spawned[s] + 1
    BY <1>1, Numbers DEF IInv, Numbered
  <2>5. ASSUME NEW o \in Sessions
        PROVE  /\ registry'[o] <= spawned'[o] /\ 0 \notin alive'[o]
               /\ \A g \in alive'[o] \union killed'[o]: g <= spawned'[o]
               /\ step'[o] = "spawning" => spawned'[o] < MaxGen
    <3>1. CASE o = s
      BY <1>1, <2>3, <2>4, <2>6, <3>1, Numbers DEF IInv, Numbered
    <3>2. CASE o # s
      BY <2>2, <3>2 DEF IInv, Numbered
    <3>. QED
      BY <3>1, <3>2
  <2>. QED
    BY <2>5 DEF Numbered
<1>5. Closing'
  BY <1>1 DEF IInv, TypeOK, Spawns, Closing
<1>6. Apart'
  BY <1>1 DEF IInv, TypeOK, Spawns, tick, noted, Apart, Decided, Shown
<1>7. Found'
  <2>1. /\ \A o \in Sessions: o # s => registry'[o] = registry[o] /\ alive'[o] = alive[o]
        /\ UNCHANGED <<killed, due, phase, hasty>>
    BY <1>1 DEF Spawns, TypeOK, tick, noted
  <2>2. s \in hasty \/ due[s] = 0
    BY <1>1 DEF IInv, TypeOK, Phases, Spawns, Apart, Ticking, DueOnes, Decided
  <2>. QED
    BY <2>1, <2>2 DEF IInv, Found
<1>8. Chosen'
  <2>1. /\ \A o \in Sessions: /\ o # s => /\ registry'[o] = registry[o] /\ alive'[o] = alive[o]
                                       /\ step'[o] = step[o]
        /\ registry'[s] = spawned[s] + 1 /\ step'[s] = "started"
        /\ UNCHANGED <<killed, project, hasty>>
    BY <1>1 DEF Spawns, TypeOK, noted
  <2>2. registry'[s] \notin killed'[s]
    BY <1>1, <2>1, Numbers DEF IInv, Numbered
  <2>. QED
    BY <2>1, <2>2 DEF IInv, Chosen, Live
<1>9. Terminals'
  BY <1>1 DEF IInv, TypeOK, Spawns, tick, noted, Terminals, Decided
<1>10. NoDeadPane'
  BY <1>1 DEF IInv, TypeOK, Spawns, noted, NoDeadPane, Shown, Live, Somewhere
<1>11. NoChildLost'
  BY <1>1 DEF IInv, TypeOK, Spawns, noted, NoChildLost, Chosen, Live
<1>. QED
  BY <1>2, <1>3, <1>4, <1>5, <1>6, <1>7, <1>8, <1>9, <1>10, <1>11 DEF IInv

\* spawn_session fails.
LEMMA FailsToSpawnKeeps ==
  ASSUME IInv, TypeOK', NEW s \in Sessions, FailsToSpawn(s)
  PROVE  IInv'
<1>1. TypeOK
  BY DEF IInv
<1>2. Ticking' /\ Found' /\ NoDeadPane' /\ NoChildLost'
  BY DEF IInv, FailsToSpawn, sessions, tick, noted, Ticking, Found, NoDeadPane, NoChildLost,
     DueOnes, Shown, Live
<1>3. Somewhere'
  BY <1>1 DEF IInv, TypeOK, FailsToSpawn, Somewhere, Shown, In
<1>4. Numbered'
  BY <1>1 DEF IInv, TypeOK, FailsToSpawn, sessions, Numbered
<1>5. Closing'
  BY <1>1 DEF IInv, TypeOK, FailsToSpawn, sessions, Closing
<1>6. Apart'
  BY <1>1 DEF IInv, TypeOK, FailsToSpawn, tick, noted, Apart, Decided, Shown
<1>7. Chosen'
  BY <1>1 DEF IInv, TypeOK, FailsToSpawn, sessions, noted, Chosen, Live
<1>8. Terminals'
  BY <1>1 DEF IInv, TypeOK, FailsToSpawn, sessions, tick, noted, Terminals, Decided
<1>. QED
  BY <1>2, <1>3, <1>4, <1>5, <1>6, <1>7, <1>8 DEF IInv

\* reinsert_record: the pane mounts on the child that was decided on.
LEMMA ReinsertsKeeps ==
  ASSUME IInv, TypeOK', NEW t \in Tabs, Reinserts(t)
  PROVE  IInv'
<1>1. TypeOK
  BY DEF IInv
<1>2. Ticking'
  BY DEF IInv, Reinserts, tick, Ticking, DueOnes
<1>3. Somewhere'
  BY <1>1 DEF IInv, TypeOK, Reinserts, Somewhere, Shown, In, Reopening
<1>4. Numbered'
  BY <1>1 DEF IInv, TypeOK, Reinserts, Numbered, Signalled, Live
<1>5. Closing'
  BY <1>1 DEF IInv, TypeOK, Reinserts, Closing
<1>6. Apart'
  BY <1>1 DEF IInv, TypeOK, Reinserts, tick, noted, Apart, Decided, Shown, Settled, In
<1>7. Found'
  <2>1. /\ \A o \in Sessions: killed[o] \subseteq killed'[o]
        /\ UNCHANGED <<registry, alive, due, phase, hasty>>
    BY <1>1 DEF Reinserts, Signalled, TypeOK, tick, noted
  <2>. QED
    BY <2>1 DEF IInv, Found
<1>8. Chosen'
  BY <1>1 DEF IInv, TypeOK, Reinserts, noted, Chosen, Live, Signalled, Settled, In
<1>9. Terminals'
  BY <1>1 DEF IInv, TypeOK, Reinserts, tick, noted, Terminals, Decided, Settled, Mounted, Retires,
     In
<1>10. NoDeadPane'
  BY <1>1 DEF IInv, TypeOK, Reinserts, noted, NoDeadPane, Shown, Live, Settled, Mounted, Retires,
     In, Chosen, Terminals, Closing, Apart, Ticking, Decided
<1>11. NoChildLost'
  BY <1>1 DEF IInv, TypeOK, Reinserts, noted, NoChildLost, Signalled
<1>. QED
  BY <1>2, <1>3, <1>4, <1>5, <1>6, <1>7, <1>8, <1>9, <1>10, <1>11 DEF IInv

\* The tick reads the tree: what a reopen has decided by then it will not see.
LEMMA TicksKeeps ==
  ASSUME IInv, TypeOK', Ticks
  PROVE  IInv'
<1>1. TypeOK
  BY DEF IInv
<1>2. Somewhere' /\ Numbered' /\ Closing'
  BY DEF IInv, Ticks, sessions, tree, Somewhere, Numbered, Closing, Shown, In
<1>3. Ticking'
  BY <1>1 DEF IInv, TypeOK, Ticks, Ticking, DueOnes
<1>4. Apart'
  BY <1>1 DEF IInv, TypeOK, Ticks, tree, Apart, Decided, Shown, Referenced
<1>5. Found'
  BY <1>1 DEF IInv, TypeOK, Ticks, sessions, Found, Ticking, DueOnes
<1>6. Chosen'
  BY <1>1 DEF IInv, TypeOK, Ticks, sessions, tree, Chosen, Live
<1>7. Terminals'
  BY <1>1 DEF IInv, TypeOK, Ticks, sessions, tree, Terminals, Decided
<1>8. NoDeadPane'
  BY <1>1 DEF IInv, TypeOK, Ticks, sessions, tree, NoDeadPane, Shown, Live
<1>9. NoChildLost'
  BY <1>1 DEF IInv, TypeOK, Ticks, sessions, NoChildLost
<1>. QED
  BY <1>2, <1>3, <1>4, <1>5, <1>6, <1>7, <1>8, <1>9 DEF IInv

\* The tick reads the ids.
LEMMA ReadsIdsKeeps ==
  ASSUME IInv, TypeOK', ReadsIds
  PROVE  IInv'
<1>1. TypeOK
  BY DEF IInv
<1>2. Somewhere' /\ Numbered' /\ Closing' /\ Chosen' /\ Terminals' /\ NoDeadPane' /\ NoChildLost'
  BY DEF IInv, ReadsIds, sessions, tree, noted, Somewhere, Numbered, Closing, Chosen,
     Terminals, NoDeadPane, NoChildLost, Shown, In, Live, Decided
<1>3. Ticking'
  BY <1>1 DEF IInv, TypeOK, ReadsIds, Ticking, DueOnes
<1>4. Apart'
  BY <1>1 DEF IInv, TypeOK, ReadsIds, tree, noted, Apart, Decided, Shown
<1>5. Found'
  BY <1>1 DEF IInv, TypeOK, ReadsIds, sessions, noted, Found
<1>. QED
  BY <1>2, <1>3, <1>4, <1>5 DEF IInv

\* The tick finds a session due: no pane named it.
LEMMA ReadsOneKeeps ==
  ASSUME IInv, TypeOK', NEW s \in Sessions, ReadsOne(s)
  PROVE  IInv'
<1>1. TypeOK
  BY DEF IInv
<1>2. Somewhere' /\ Numbered' /\ Closing' /\ Apart' /\ Chosen' /\ Terminals' /\ NoDeadPane' /\ NoChildLost'
  BY DEF IInv, ReadsOne, sessions, tree, noted, Somewhere, Numbered, Closing, Apart, Chosen,
     Terminals, NoDeadPane, NoChildLost, Shown, In, Decided, Live
<1>3. Ticking'
  BY <1>1 DEF IInv, TypeOK, ReadsOne, Ticking, DueOnes, Due, Held
<1>4. Found'
  BY <1>1 DEF IInv, TypeOK, ReadsOne, sessions, noted, Found
<1>. QED
  BY <1>2, <1>3, <1>4 DEF IInv

\* The ladder: it signals nobody whose tab is on screen or being reopened.
LEMMA BeginsKeeps ==
  ASSUME IInv, TypeOK', Begins
  PROVE  IInv'
<1>1. TypeOK
  BY DEF IInv
<1>2. Somewhere' /\ Closing' /\ Terminals'
  BY DEF IInv, Begins, tree, noted, Somewhere, Closing, Terminals, Shown, In, Decided
<1>3. Numbered'
  BY <1>1 DEF IInv, TypeOK, Begins, DueOnes, tree, Numbered
<1>4. Ticking'
  BY <1>1 DEF IInv, TypeOK, Begins, DueOnes, Ticking
<1>5. Apart'
  BY <1>1 DEF IInv, TypeOK, Begins, DueOnes, tree, noted, Apart, Decided, Shown, Ticking
<1>6. Found'
  BY <1>1 DEF IInv, TypeOK, Begins, DueOnes, noted, Found, Ticking
<1>7. Chosen'
  BY <1>1 DEF IInv, TypeOK, Begins, DueOnes, tree, noted, Chosen, Live, Apart, Found, Decided
<1>8. NoDeadPane'
  <2>1. \A o \in Shown \ hasty: due[o] = 0
    BY <1>1 DEF IInv, Begins, Apart, Ticking, DueOnes, Shown
  <2>2. \A o \in Shown \ hasty: 0 \notin alive[o]
    BY DEF IInv, Numbered, Shown
  <2>3. \A o \in Shown \ hasty: killed'[o] = killed[o]
    BY <1>1, <2>1, <2>2 DEF Begins, Shown, TypeOK
  <2>. QED
    BY <2>3 DEF IInv, Begins, tree, noted, NoDeadPane, Live, Shown
<1>9. NoChildLost'
  BY <1>1 DEF IInv, TypeOK, Begins, DueOnes, noted, NoChildLost
<1>. QED
  BY <1>2, <1>3, <1>4, <1>5, <1>6, <1>7, <1>8, <1>9 DEF IInv

\* The ladder is over.
LEMMA LadderEndsKeeps ==
  ASSUME IInv, TypeOK', LadderEnds
  PROVE  IInv'
<1>1. TypeOK
  BY DEF IInv
<1>2. Somewhere' /\ Numbered' /\ Closing' /\ Chosen' /\ Terminals' /\ NoDeadPane' /\ NoChildLost'
  BY DEF IInv, LadderEnds, sessions, tree, noted, Somewhere, Numbered, Closing, Chosen,
     Terminals, NoDeadPane, NoChildLost, Shown, In, Live, Decided
<1>3. Ticking'
  BY <1>1 DEF IInv, TypeOK, LadderEnds, Ticking, DueOnes
<1>4. Apart'
  BY <1>1 DEF IInv, TypeOK, LadderEnds, tree, noted, Apart, Decided, Shown
<1>5. Found'
  BY <1>1 DEF IInv, TypeOK, LadderEnds, sessions, noted, Found
<1>. QED
  BY <1>2, <1>3, <1>4, <1>5 DEF IInv

\* The tick drops the entries of what it ended, and of nothing else.
LEMMA RemovesKeeps ==
  ASSUME IInv, TypeOK', NEW s \in Sessions, Removes(s)
  PROVE  IInv'
<1>1. TypeOK
  BY DEF IInv
<1>2. Somewhere' /\ Apart'
  BY DEF IInv, Removes, tree, noted, Somewhere, Apart, Shown, In, Decided
<1>3. Numbered'
  <2>1. \A o \in Sessions: registry'[o] \in {0, registry[o]}
    BY <1>1 DEF Removes, TypeOK
  <2>. QED
    BY <1>1, <2>1, Numbers DEF IInv, Removes, tree, noted, Numbered
<1>4. Closing'
  BY <1>1 DEF IInv, TypeOK, Removes, tree, Closing
<1>5. Ticking'
  BY <1>1 DEF IInv, TypeOK, Removes, Ticking, DueOnes
<1>6. Found'
  BY <1>1 DEF IInv, TypeOK, Removes, noted, Found, Ticking, DueOnes
<1>7. Chosen'
  BY <1>1 DEF IInv, TypeOK, Removes, tree, noted, Chosen, Live, Numbered
<1>8. Terminals'
  BY <1>1 DEF IInv, TypeOK, Removes, tree, noted, Terminals, Decided
<1>9. NoDeadPane'
  BY <1>1 DEF IInv, TypeOK, Removes, tree, noted, NoDeadPane, Shown, Live, Apart, Ticking, DueOnes
<1>10. NoChildLost'
  BY <1>1 DEF IInv, TypeOK, Removes, noted, NoChildLost, Found
<1>. QED
  BY <1>2, <1>3, <1>4, <1>5, <1>6, <1>7, <1>8, <1>9, <1>10 DEF IInv

\* panes_retired: no terminal of an ended child is left.
LEMMA TellsKeeps ==
  ASSUME IInv, TypeOK', Tells
  PROVE  IInv'
<1>1. TypeOK
  BY DEF IInv
<1>2. Somewhere' /\ Numbered' /\ Closing' /\ Chosen' /\ NoChildLost'
  BY DEF IInv, Tells, sessions, noted, Somewhere, Numbered, Closing, Chosen, NoChildLost,
     Shown, In, Live
<1>3. Ticking'
  BY <1>1 DEF IInv, TypeOK, Tells, Ticking, DueOnes
<1>4. Apart'
  BY <1>1 DEF IInv, TypeOK, Tells, noted, Apart, Decided, Shown
<1>5. Found'
  BY <1>1 DEF IInv, TypeOK, Tells, sessions, noted, Found, DueOnes
<1>6. Terminals'
  BY <1>1 DEF IInv, TypeOK, Tells, sessions, noted, Terminals, Decided, Retired, Apart, Ticking,
     Shown
<1>7. NoDeadPane'
  BY <1>1 DEF IInv, TypeOK, Tells, sessions, noted, NoDeadPane, Shown, Live, Retired
<1>. QED
  BY <1>2, <1>3, <1>4, <1>5, <1>6, <1>7 DEF IInv

\* The tick is over.
LEMMA ClearsKeeps ==
  ASSUME IInv, TypeOK', Clears
  PROVE  IInv'
<1>1. TypeOK
  BY DEF IInv
<1>2. Somewhere' /\ Numbered' /\ Closing' /\ Chosen' /\ Terminals' /\ NoDeadPane' /\ NoChildLost'
  BY DEF IInv, Clears, sessions, tree, noted, Somewhere, Numbered, Closing, Chosen,
     Terminals, NoDeadPane, NoChildLost, Shown, In, Live, Decided
<1>3. Ticking'
  BY <1>1 DEF IInv, TypeOK, Clears, Cleared, Ticking, DueOnes
<1>4. Apart'
  BY <1>1 DEF IInv, TypeOK, Clears, Cleared, tree, noted, Apart, Decided, Shown
<1>5. Found'
  BY <1>1 DEF IInv, TypeOK, Clears, Cleared, sessions, noted, Found, Ticking, DueOnes
<1>. QED
  BY <1>2, <1>3, <1>4, <1>5 DEF IInv

---------------------------------------------------------------------------
(* The theorems *)

\* Turns, the clock and the setting touch nothing the invariant speaks of.
LEMMA OthersKeep ==
  ASSUME IInv, TypeOK', UNCHANGED Core
  PROVE  IInv'
<1>1. Somewhere' /\ Numbered' /\ Closing'
  BY DEF IInv, Core, Somewhere, Numbered, Closing, Shown, In
<1>2. Ticking' /\ Apart' /\ Found'
  BY DEF IInv, Core, Ticking, Apart, Found, DueOnes, Decided, Shown
<1>3. Chosen' /\ Terminals' /\ NoDeadPane' /\ NoChildLost'
  BY DEF IInv, Core, Chosen, Terminals, NoDeadPane, NoChildLost, Live, Decided, Shown
<1>. QED
  BY <1>1, <1>2, <1>3 DEF IInv

\* Every step keeps the invariant.
LEMMA StepKept == IInv /\ [Next]_vars => IInv'
<1>. SUFFICES ASSUME IInv, [Next]_vars PROVE IInv'
  OBVIOUS
<1>1. TypeOK'
  BY TypesKept
<1>2. ASSUME Tick PROVE IInv'
  BY <1>1, <1>2, TicksKeeps, ReadsIdsKeeps, BeginsKeeps, LadderEndsKeeps, TellsKeeps, ClearsKeeps,
     ReadsOneKeeps, RemovesKeeps DEF Tick
<1>3. ASSUME NEW s \in Sessions, Session(s) PROVE IInv'
  BY <1>1, <1>3, DiesKeeps, StopsOneKeeps DEF Session
<1>4. ASSUME NEW t \in Tabs, Reopen(t) PROVE IInv'
  BY <1>1, <1>4, ReinsertsKeeps, AdoptsKeeps, ResumesKeeps, SpawnsKeeps, FailsToSpawnKeeps
     DEF Reopen, In
<1>5. ASSUME NEW s \in Sessions, Holds(s) \/ LetsGo(s) PROVE IInv'
  <2>1. UNCHANGED Core
    BY <1>5 DEF Holds, LetsGo, Core, tree, tick, noted
  <2>. QED
    BY <1>1, <2>1, OthersKeep
<1>6. ASSUME TicksOff \/ Ages \/ Switches \/ UNCHANGED vars PROVE IInv'
  <2>1. UNCHANGED Core
    BY <1>6 DEF TicksOff, Ages, Switches, vars, Core, sessions, tree, tick, noted
  <2>. QED
    BY <1>1, <2>1, OthersKeep
<1>7. ASSUME World PROVE IInv'
  BY <1>1, <1>5, <1>6, <1>7, ExitsKeeps, ClosesTabKeeps, ClosesProjectKeeps, ReopensKeeps DEF World
<1>. QED
  BY <1>2, <1>3, <1>4, <1>6, <1>7 DEF Next

\* The inductive invariant holds in every behaviour of the reaper, the undo
\* stack and the reopenings, whatever their interleaving.
THEOREM Invariance == Spec => []IInv
<1>. QED
  BY InitTyped, StepKept, PTL DEF Spec

\* The state stays what the program can be in: the undo stack within
\* MAX_CLOSED, generations within those spawned.
THEOREM ReaperTyped == Spec => []TypeOK
<1>1. IInv => TypeOK
  BY DEF IInv
<1>. QED
  BY Invariance, <1>1, PTL

\* A pane on screen never has a child that a tick (reaper::tick) or a closing
\* is ending, nor the terminal of a child that a tick ended before, however
\* its tab was closed and reopened (tab_reopen_closed) around the ticks.
THEOREM NoPaneIsDead == Spec => []NoDeadPane
<1>1. IInv => NoDeadPane
  BY DEF IInv
<1>. QED
  BY Invariance, <1>1, PTL

\* A child that nobody has signalled is always the registry's: neither a resume
\* (resume_closed, spawn_session) nor a tick's removal drops the only handle.
THEOREM NoChildIsLost == Spec => []NoChildLost
<1>1. IInv => NoChildLost
  BY DEF IInv
<1>. QED
  BY Invariance, <1>1, PTL
=============================================================================
