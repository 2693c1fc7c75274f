--------------------------- MODULE AgentRunsProofs ---------------------------
(***************************************************************************)
(* Theorems about AgentRuns for every set of runs, every limit, every      *)
(* bound and every budget: the registry's tables keep their types, its     *)
(* counters never say less than the runs that hold a slot, and therefore   *)
(* the admission loop never starts a run past its caps.                    *)
(***************************************************************************)
EXTENDS AgentRuns, FiniteSetTheorems, WellFoundedInduction, TLAPS

\* The runs that hold a slot, by a table h, of the role or project x that F
\* says they belong to.
Hold(h, F, x) == {q \in Runs : h[q] /\ F[q] = x}

LEMMA HoldIsFinite ==
  ASSUME NEW h, NEW F, NEW x
  PROVE  IsFiniteSet(Hold(h, F, x)) /\ Cardinality(Hold(h, F, x)) \in Nat
<1>1. Hold(h, F, x) \subseteq Runs
  BY DEF Hold
<1>. QED
  BY <1>1, RunsAreFinite, FS_Subset, FS_CardinalityType DEF RunsAreFinite

\* Marking one run adds at most one holder.
LEMMA TakeHold ==
  ASSUME NEW h, NEW F, NEW x, NEW r \in Runs,
         NEW g, \A q \in Runs : g[q] => h[q] \/ q = r
  PROVE  /\ F[r] = x => Cardinality(Hold(g, F, x)) <= Cardinality(Hold(h, F, x)) + 1
         /\ F[r] # x => Cardinality(Hold(g, F, x)) <= Cardinality(Hold(h, F, x))
<1>. DEFINE H == Hold(h, F, x)
<1>0. IsFiniteSet(H) /\ Cardinality(H) \in Nat
  BY HoldIsFinite
<1>1. CASE F[r] = x
  <2>1. Hold(g, F, x) \subseteq H \cup {r}
    BY <1>1 DEF Hold
  <2>. HIDE DEF H
  <2>2. /\ IsFiniteSet(H \cup {r})
        /\ Cardinality(H \cup {r}) = IF r \in H THEN Cardinality(H) ELSE Cardinality(H) + 1
    BY <1>0, FS_AddElement
  <2>3. Cardinality(H \cup {r}) \in Nat /\ Cardinality(H \cup {r}) <= Cardinality(H) + 1
    BY <1>0, <2>2
  <2>4. Cardinality(Hold(g, F, x)) <= Cardinality(H \cup {r}) /\ Cardinality(Hold(g, F, x)) \in Nat
    BY <2>1, <2>2, HoldIsFinite, FS_Subset
  <2>5. Cardinality(Hold(g, F, x)) <= Cardinality(H) + 1
    BY <1>0, <2>3, <2>4
  <2>. QED
    BY <1>1, <2>5 DEF H
<1>2. CASE F[r] # x
  <2>1. Hold(g, F, x) \subseteq Hold(h, F, x)
    BY <1>2 DEF Hold
  <2>2. Cardinality(Hold(g, F, x)) <= Cardinality(Hold(h, F, x))
    BY <2>1, HoldIsFinite, FS_Subset
  <2>. QED
    BY <1>2, <2>2
<1>. QED
  BY <1>1, <1>2

\* Unmarking one run that was marked takes away exactly itself.
LEMMA GiveHold ==
  ASSUME NEW h, NEW F, NEW x, NEW r \in Runs, h[r],
         NEW g, \A q \in Runs : g[q] <=> h[q] /\ q # r
  PROVE  /\ F[r] = x => /\ Cardinality(Hold(h, F, x)) > 0
                        /\ Cardinality(Hold(g, F, x)) = Cardinality(Hold(h, F, x)) - 1
         /\ F[r] # x => Cardinality(Hold(g, F, x)) = Cardinality(Hold(h, F, x))
<1>1. CASE F[r] = x
  <2>1. Hold(g, F, x) = Hold(h, F, x) \ {r} /\ r \in Hold(h, F, x)
    BY <1>1 DEF Hold
  <2>2. IsFiniteSet(Hold(h, F, x)) /\ Cardinality(Hold(h, F, x)) \in Nat
    BY HoldIsFinite
  <2>3. Cardinality(Hold(h, F, x) \ {r}) = Cardinality(Hold(h, F, x)) - 1
    <3>. DEFINE H == Hold(h, F, x)
    <3>1. IsFiniteSet(H) /\ r \in H
      BY <2>1, <2>2
    <3>. HIDE DEF H
    <3>2. Cardinality(H \ {r}) = IF r \in H THEN Cardinality(H) - 1 ELSE Cardinality(H)
      BY <3>1, FS_RemoveElement
    <3>3. Cardinality(H \ {r}) = Cardinality(H) - 1
      BY <3>1, <3>2
    <3>. QED
      BY <3>3 DEF H
  <2>4. Cardinality(Hold(g, F, x)) \in Nat
    BY HoldIsFinite
  <2>5. Cardinality(Hold(g, F, x)) = Cardinality(Hold(h, F, x)) - 1
    BY <2>1, <2>3
  <2>6. Cardinality(Hold(h, F, x)) > 0
    BY <2>2, <2>4, <2>5
  <2>. QED
    BY <1>1, <2>5, <2>6
<1>2. CASE F[r] # x
  <2>1. Hold(g, F, x) = Hold(h, F, x)
    BY <1>2 DEF Hold
  <2>. QED
    BY <1>2, <2>1
<1>. QED
  BY <1>1, <1>2

Frost(S, h, F, x) == {q \in S : h[q] /\ F[q] = x}
Unmarks(S, h, g) == \A q \in Runs : g[q] <=> h[q] /\ q \notin S

\* Unmarking a set of runs takes away exactly those of it that were marked.
LEMMA FreezeHold ==
  ASSUME NEW h, NEW F, NEW x, NEW S \in SUBSET Runs,
         NEW g, Unmarks(S, h, g)
  PROVE  /\ Cardinality(Frost(S, h, F, x)) \in Nat
         /\ Cardinality(Hold(g, F, x)) = Cardinality(Hold(h, F, x)) - Cardinality(Frost(S, h, F, x))
         /\ Cardinality(Hold(g, F, x)) \in Nat
<1>1. Hold(g, F, x) = Hold(h, F, x) \ Frost(S, h, F, x)
  BY DEF Hold, Frost, Unmarks
<1>2. Hold(h, F, x) \cap Frost(S, h, F, x) = Frost(S, h, F, x)
  BY DEF Hold, Frost
<1>3. /\ IsFiniteSet(Hold(h, F, x)) /\ Cardinality(Hold(h, F, x)) \in Nat
      /\ Cardinality(Hold(g, F, x)) \in Nat
  BY HoldIsFinite
<1>4. Cardinality(Hold(h, F, x) \ Frost(S, h, F, x))
        = Cardinality(Hold(h, F, x)) - Cardinality(Hold(h, F, x) \cap Frost(S, h, F, x))
  BY <1>3, FS_Difference
<1>5. Frost(S, h, F, x) \subseteq Hold(h, F, x)
  BY <1>2
<1>6. Cardinality(Frost(S, h, F, x)) \in Nat
  BY <1>3, <1>5, FS_Subset, FS_CardinalityType
<1>. QED
  BY <1>1, <1>2, <1>3, <1>4, <1>6

------------------------------------------------------------------------------
(* The three ways a slot changes hands *)

SlotsTyped ==
    /\ slot \in [Runs -> BOOLEAN]
    /\ agentSlots \in [Keys -> Nat] /\ projectSlots \in [Projects -> Nat]

LEMMA HoldersHold ==
    /\ \A k \in Keys : Holders(k) = Hold(slot, KeyOf, k)
    /\ \A p \in Projects : ProjectHolders(p) = Hold(slot, ProjectOf, p)
    /\ \A k \in Keys : Holders(k)' = Hold(slot', KeyOf, k)
    /\ \A p \in Projects : ProjectHolders(p)' = Hold(slot', ProjectOf, p)
BY DEF Holders, ProjectHolders, Hold

\* Taking a slot (admission, a blocked run's retry, a thaw) keeps the counters at
\* or above their holders, even for a run that already holds one.
LEMMA TakeSlotCovers ==
  ASSUME SlotsTyped, SlotsCovered, NEW r \in Runs, TakeSlot(r)
  PROVE  SlotsTyped' /\ SlotsCovered'
<1>1. SlotsTyped'
  <2>1. /\ slot \in [Runs -> BOOLEAN]
        /\ agentSlots \in [Keys -> Nat] /\ projectSlots \in [Projects -> Nat]
    BY DEF SlotsTyped
  <2>2. /\ slot' = [slot EXCEPT ![r] = TRUE]
        /\ agentSlots' = [agentSlots EXCEPT ![KeyOf[r]] = agentSlots[KeyOf[r]] + 1]
        /\ projectSlots' = [projectSlots EXCEPT ![ProjectOf[r]] = projectSlots[ProjectOf[r]] + 1]
    BY DEF TakeSlot
  <2>6. KeyOf[r] \in Keys /\ ProjectOf[r] \in Projects
    BY Stamps DEF Stamps
  <2>3. slot' \in [Runs -> BOOLEAN]
    BY <2>1, <2>2
  <2>4. agentSlots' \in [Keys -> Nat]
    BY <2>1, <2>2, <2>6
  <2>5. projectSlots' \in [Projects -> Nat]
    BY <2>1, <2>2, <2>6
  <2>. QED
    BY <2>3, <2>4, <2>5 DEF SlotsTyped
<1>0. \A q \in Runs : slot'[q] => slot[q] \/ q = r
  BY DEF SlotsTyped, TakeSlot
<1>2. ASSUME NEW k \in Keys
      PROVE  Cardinality(Hold(slot', KeyOf, k)) <= agentSlots'[k]
  <2>1. /\ KeyOf[r] = k => Cardinality(Hold(slot', KeyOf, k)) <= Cardinality(Hold(slot, KeyOf, k)) + 1
        /\ KeyOf[r] # k => Cardinality(Hold(slot', KeyOf, k)) <= Cardinality(Hold(slot, KeyOf, k))
    BY <1>0, TakeHold
  <2>2. agentSlots'[k] = IF KeyOf[r] = k THEN agentSlots[k] + 1 ELSE agentSlots[k]
    BY DEF TakeSlot, SlotsTyped
  <2>3. Cardinality(Hold(slot, KeyOf, k)) <= agentSlots[k]
    BY HoldersHold DEF SlotsCovered
  <2>4. Cardinality(Hold(slot, KeyOf, k)) \in Nat /\ Cardinality(Hold(slot', KeyOf, k)) \in Nat
    BY HoldIsFinite
  <2>. QED
    BY <2>1, <2>2, <2>3, <2>4 DEF SlotsTyped
<1>3. ASSUME NEW p \in Projects
      PROVE  Cardinality(Hold(slot', ProjectOf, p)) <= projectSlots'[p]
  <2>1. /\ ProjectOf[r] = p => Cardinality(Hold(slot', ProjectOf, p)) <= Cardinality(Hold(slot, ProjectOf, p)) + 1
        /\ ProjectOf[r] # p => Cardinality(Hold(slot', ProjectOf, p)) <= Cardinality(Hold(slot, ProjectOf, p))
    BY <1>0, TakeHold
  <2>2. projectSlots'[p] = IF ProjectOf[r] = p THEN projectSlots[p] + 1 ELSE projectSlots[p]
    BY DEF TakeSlot, SlotsTyped
  <2>3. Cardinality(Hold(slot, ProjectOf, p)) <= projectSlots[p]
    BY HoldersHold DEF SlotsCovered
  <2>4. Cardinality(Hold(slot, ProjectOf, p)) \in Nat /\ Cardinality(Hold(slot', ProjectOf, p)) \in Nat
    BY HoldIsFinite
  <2>. QED
    BY <2>1, <2>2, <2>3, <2>4 DEF SlotsTyped
<1>. QED
  BY <1>1, <1>2, <1>3, HoldersHold DEF SlotsCovered

\* Giving it back (hand-back, block, end, requeue) releases what was held and no
\* more, although the code's decrement saturates.
LEMMA GiveSlotCovers ==
  ASSUME SlotsTyped, SlotsCovered, NEW r \in Runs, GiveSlot(r)
  PROVE  SlotsTyped' /\ SlotsCovered'
<1>1. SlotsTyped'
  BY Stamps DEF Stamps, SlotsTyped, GiveSlot
<1>2. CASE ~slot[r]
  <2>1. slot' = slot /\ agentSlots' = agentSlots /\ projectSlots' = projectSlots
    BY <1>2 DEF GiveSlot, SlotsTyped
  <2>. QED
    BY <1>1, <2>1 DEF SlotsCovered, Holders, ProjectHolders
<1>3. CASE slot[r]
  <2>1. \A q \in Runs : slot'[q] <=> slot[q] /\ q # r
    BY DEF GiveSlot, SlotsTyped
  <2>2. ASSUME NEW k \in Keys
        PROVE  Cardinality(Hold(slot', KeyOf, k)) <= agentSlots'[k]
    <3>1. /\ KeyOf[r] = k => /\ Cardinality(Hold(slot, KeyOf, k)) > 0
                             /\ Cardinality(Hold(slot', KeyOf, k)) = Cardinality(Hold(slot, KeyOf, k)) - 1
          /\ KeyOf[r] # k => Cardinality(Hold(slot', KeyOf, k)) = Cardinality(Hold(slot, KeyOf, k))
      BY <1>3, <2>1, GiveHold
    <3>2. agentSlots'[k] = IF KeyOf[r] = k /\ agentSlots[k] # 0 THEN agentSlots[k] - 1 ELSE agentSlots[k]
      BY <1>3 DEF GiveSlot, SlotsTyped
    <3>3. Cardinality(Hold(slot, KeyOf, k)) <= agentSlots[k]
      BY HoldersHold DEF SlotsCovered
    <3>4. Cardinality(Hold(slot, KeyOf, k)) \in Nat /\ Cardinality(Hold(slot', KeyOf, k)) \in Nat
      BY HoldIsFinite
    <3>. QED
      BY <3>1, <3>2, <3>3, <3>4 DEF SlotsTyped
  <2>3. ASSUME NEW p \in Projects
        PROVE  Cardinality(Hold(slot', ProjectOf, p)) <= projectSlots'[p]
    <3>1. /\ ProjectOf[r] = p => /\ Cardinality(Hold(slot, ProjectOf, p)) > 0
                                 /\ Cardinality(Hold(slot', ProjectOf, p)) = Cardinality(Hold(slot, ProjectOf, p)) - 1
          /\ ProjectOf[r] # p => Cardinality(Hold(slot', ProjectOf, p)) = Cardinality(Hold(slot, ProjectOf, p))
      BY <1>3, <2>1, GiveHold
    <3>2. projectSlots'[p] = IF ProjectOf[r] = p /\ projectSlots[p] # 0 THEN projectSlots[p] - 1 ELSE projectSlots[p]
      BY <1>3 DEF GiveSlot, SlotsTyped
    <3>3. Cardinality(Hold(slot, ProjectOf, p)) <= projectSlots[p]
      BY HoldersHold DEF SlotsCovered
    <3>4. Cardinality(Hold(slot, ProjectOf, p)) \in Nat /\ Cardinality(Hold(slot', ProjectOf, p)) \in Nat
      BY HoldIsFinite
    <3>. QED
      BY <3>1, <3>2, <3>3, <3>4 DEF SlotsTyped
  <2>. QED
    BY <1>1, <2>2, <2>3, HoldersHold DEF SlotsCovered
<1>. QED
  BY <1>2, <1>3 DEF SlotsTyped

\* A Pause gives back the slots of all it freezes at once.
LEMMA FreezeCovers ==
  ASSUME SlotsTyped, SlotsCovered, NEW S \in SUBSET Runs, Freeze(S)
  PROVE  SlotsTyped' /\ SlotsCovered'
<1>1. Unmarks(S, slot, slot')
  BY DEF Unmarks, Freeze, SlotsTyped
<1>2. ASSUME NEW k \in Keys
      PROVE  Cardinality(Hold(slot', KeyOf, k)) <= agentSlots'[k] /\ agentSlots'[k] \in Nat
  <2>1. /\ Cardinality(Frost(S, slot, KeyOf, k)) \in Nat /\ Cardinality(Hold(slot', KeyOf, k)) \in Nat
        /\ Cardinality(Hold(slot', KeyOf, k)) = Cardinality(Hold(slot, KeyOf, k)) - Cardinality(Frost(S, slot, KeyOf, k))
    BY <1>1, FreezeHold
  <2>2. agentSlots'[k] = agentSlots[k] - Cardinality(Frost(S, slot, KeyOf, k))
    <3>1. agentSlots'[k] = agentSlots[k] - Cardinality({r \in S : slot[r] /\ KeyOf[r] = k})
      BY DEF Freeze
    <3>2. {r \in S : slot[r] /\ KeyOf[r] = k} = Frost(S, slot, KeyOf, k)
      BY DEF Frost
    <3>. QED
      BY <3>1, <3>2
  <2>3. Cardinality(Hold(slot, KeyOf, k)) <= agentSlots[k] /\ Cardinality(Hold(slot, KeyOf, k)) \in Nat
    BY HoldersHold, HoldIsFinite DEF SlotsCovered
  <2>. QED
    BY <2>1, <2>2, <2>3 DEF SlotsTyped
<1>3. ASSUME NEW p \in Projects
      PROVE  Cardinality(Hold(slot', ProjectOf, p)) <= projectSlots'[p] /\ projectSlots'[p] \in Nat
  <2>1. /\ Cardinality(Frost(S, slot, ProjectOf, p)) \in Nat /\ Cardinality(Hold(slot', ProjectOf, p)) \in Nat
        /\ Cardinality(Hold(slot', ProjectOf, p)) = Cardinality(Hold(slot, ProjectOf, p)) - Cardinality(Frost(S, slot, ProjectOf, p))
    BY <1>1, FreezeHold
  <2>2. projectSlots'[p] = projectSlots[p] - Cardinality(Frost(S, slot, ProjectOf, p))
    <3>1. projectSlots'[p] = projectSlots[p] - Cardinality({r \in S : slot[r] /\ ProjectOf[r] = p})
      BY DEF Freeze
    <3>2. {r \in S : slot[r] /\ ProjectOf[r] = p} = Frost(S, slot, ProjectOf, p)
      BY DEF Frost
    <3>. QED
      BY <3>1, <3>2
  <2>3. Cardinality(Hold(slot, ProjectOf, p)) <= projectSlots[p] /\ Cardinality(Hold(slot, ProjectOf, p)) \in Nat
    BY HoldersHold, HoldIsFinite DEF SlotsCovered
  <2>. QED
    BY <2>1, <2>2, <2>3 DEF SlotsTyped
<1>4. /\ slot' \in [Runs -> BOOLEAN]
      /\ agentSlots' = [k \in Keys |-> agentSlots'[k]]
      /\ projectSlots' = [p \in Projects |-> projectSlots'[p]]
  BY DEF Freeze, SlotsTyped
<1>. QED
  BY <1>2, <1>3, <1>4, HoldersHold DEF SlotsCovered, SlotsTyped

------------------------------------------------------------------------------
(* Types: the tables other than the slots', which the lemmas above cover *)

Typed == RowsTyped /\ InnerTyped /\ StepsTyped /\ ChildrenTyped

\* What resume still has to reclaim, it is thawing.
ThawsKnown == resume.phase \in {"planned", "reclaim"} => resume.todo \subseteq resume.thaws

IInv == TypeOK /\ ThawsKnown /\ SlotsCovered

\* A set of dispatch numbers has a least one.
LEMMA LeastIsThere ==
  ASSUME NEW T, T \subseteq Nat, T # {}
  PROVE  \E n \in T : \A m \in T : n <= m
<1>. DEFINE R == {ss \in Nat \X Nat : ss[1] < ss[2]}
<1>1. IsWellFoundedOn(R, Nat)
  BY NatLessThanWellFounded DEF OpToRel
<1>2. PICK n \in T : \A m \in T : <<m, n>> \notin R
  <2>. HIDE DEF R
  <2>. QED
    BY <1>1, WFMin
<1>3. \A m \in T : ~(m < n)
  BY <1>2
<1>. QED
  BY <1>3

\* So the CHOOSEs of the admission loop and of reclaim_slots choose a member.
LEMMA OldestIsThere ==
  ASSUME Typed, NEW S \in SUBSET Runs, S # {}
  PROVE  Oldest(S) \in S
<1>. DEFINE T == {seq[q] : q \in S}
<1>1. T \subseteq Nat /\ T # {}
  BY DEF Typed, RowsTyped
<1>2. PICK n \in T : \A m \in T : n <= m
  <2>. HIDE DEF T
  <2>. QED
    BY <1>1, LeastIsThere
<1>3. PICK r \in S : seq[r] = n
  BY <1>2
<1>4. \A q \in S : seq[r] <= seq[q]
  BY <1>2, <1>3
<1>. QED
  BY <1>4 DEF Oldest

LEMMA NextThawIsThere ==
  ASSUME Typed, resume.todo # {}
  PROVE  NextThaw \in resume.todo
<1>. DEFINE T == {seq[s[1]] : s \in resume.todo}
<1>1. T \subseteq Nat /\ T # {}
  BY DEF Typed, RowsTyped, StepsTyped
<1>2. PICK n \in T : \A m \in T : n <= m
  <2>. HIDE DEF T
  <2>. QED
    BY <1>1, LeastIsThere
<1>3. PICK s \in resume.todo : seq[s[1]] = n
  BY <1>2
<1>4. \A t \in resume.todo : seq[s[1]] <= seq[t[1]]
  BY <1>2, <1>3
<1>. QED
  BY <1>4 DEF NextThaw

LEMMA OpIsTyped ==
  ASSUME NEW do \in OpKinds, NEW r \in Runs, NEW g \in 0 .. MaxGen
  PROVE  Op(do, r, g) \in Ops
BY DEF Op, Ops

\* A transition of a run (set_state_from_session) keeps the tables' types.
LEMMA SettleTyped ==
  ASSUME Typed, NEW r \in Runs, NEW next \in RunStates, NEW clean, 
         SetState(r, next, clean) \/ Settle(r, next, clean)
  PROVE  /\ state' \in [Runs -> RunStates] /\ frozen' \in [Runs -> Freezes]
         /\ stop' \in [Runs -> StopHow] /\ held' \in [Runs -> BOOLEAN]
         /\ frozenSessions' \subseteq Sessions
         /\ UNCHANGED slotVars \/ TakeSlot(r) \/ GiveSlot(r)
<1>1. Landed(r, next) \in RunStates
  BY DEF Landed, RunStates, Over, Ended
<1>2. ASSUME SetState(r, next, clean)
      PROVE  /\ state' \in [Runs -> RunStates] /\ frozen' \in [Runs -> Freezes]
             /\ stop' \in [Runs -> StopHow] /\ held' \in [Runs -> BOOLEAN]
             /\ frozenSessions' \subseteq Sessions
             /\ UNCHANGED slotVars \/ TakeSlot(r) \/ GiveSlot(r)
  <2>1. state' \in [Runs -> RunStates]
    BY <1>1, <1>2 DEF SetState, Typed, RowsTyped
  <2>2. frozen' \in [Runs -> Freezes] /\ frozenSessions' \subseteq Sessions
    BY <1>2 DEF SetState, ForgetsFreeze, Typed, RowsTyped, InnerTyped, Freezes, NoFreeze, RunStates
  <2>3. \A how \in StopHow, hands \in BOOLEAN : WindDownStep(how, hands, next, clean) \in StopHow
    BY DEF WindDownStep, StopHow, WindingDown
  <2>4. HandsBack(r, Landed(r, next)) \in BOOLEAN
    BY DEF HandsBack
  <2>5. stop' = [stop EXCEPT ![r] = WindDownStep(stop[r], HandsBack(r, Landed(r, next)), next, clean)]
    BY <1>2 DEF SetState
  <2>6. stop' \in [Runs -> StopHow]
    BY <2>3, <2>4, <2>5 DEF Typed, RowsTyped
  <2>7. held' \in [Runs -> BOOLEAN]
    BY <1>2 DEF SetState, Typed, RowsTyped
  <2>8. UNCHANGED slotVars \/ TakeSlot(r) \/ GiveSlot(r)
    BY <1>2 DEF SetState
  <2>. QED
    BY <2>1, <2>2, <2>6, <2>7, <2>8
<1>3. ASSUME Settle(r, next, clean), ~SetState(r, next, clean)
      PROVE  UNCHANGED <<state, slotVars, frozen, frozenSessions, stop, held>>
  BY <1>3 DEF Settle
<1>. QED
  BY <1>2, <1>3 DEF Typed, RowsTyped, InnerTyped

LEMMA WakesTyped ==
  ASSUME Typed, NEW r \in Runs, NEW next
  PROVE  Wakes(r, next) \subseteq Ops
<1>1. session[r] \in 0 .. MaxGen /\ 0 \in 0 .. MaxGen
  BY Limits DEF Limits, Typed, RowsTyped
<1>2. Op("follow", r, 0) \in Ops /\ Op("kill", r, session[r]) \in Ops
  BY <1>1, OpIsTyped DEF OpKinds
<1>. QED
  BY <1>2 DEF Wakes

------------------------------------------------------------------------------
(* Every step of the registry moves slots in one of the three ways, or none *)

LEMMA SlotSteps ==
  ASSUME Typed, Next
  PROVE  \/ UNCHANGED slotVars
         \/ \E r \in Runs : TakeSlot(r) \/ GiveSlot(r)
         \/ \E S \in SUBSET Runs : Freeze(S)
<1>. DEFINE Goal == \/ UNCHANGED slotVars
                    \/ \E r \in Runs : TakeSlot(r) \/ GiveSlot(r)
                    \/ \E S \in SUBSET Runs : Freeze(S)
<1>1. ASSUME NEW r \in Runs, NEW next, NEW clean, SetState(r, next, clean) \/ Settle(r, next, clean)
      PROVE  Goal
  BY <1>1 DEF SetState, Settle, slotVars
<1>2. ASSUME NEW r \in Runs, Dispatch(r)  PROVE Goal
  BY <1>2 DEF Dispatch
<1>3. CASE Admission
  <2>1. CASE PumpStarts \/ PumpTurns
    BY <2>1 DEF PumpStarts, PumpTurns, innerVars, rowVars, slotVars
  <2>2. CASE PumpVisits
    <3>1. pump.pass \in SUBSET Runs /\ pump.pass # {}
      BY <2>2 DEF PumpVisits, Typed, StepsTyped
    <3>2. PICK r \in Runs : Admit(r) \/ PassOver(r)
      BY <2>2, <3>1, OldestIsThere DEF PumpVisits
    <3>. QED
      BY <3>2 DEF Admit, PassOver
  <2>. QED
    BY <1>3, <2>1, <2>2 DEF Admission
<1>4. CASE Starts
  <2>1. PICK r \in Runs :
                         \/ Bind(r)
                         \/ \E g \in Gens : Fork(r, g) \/ BootFails(r, g) \/ AbandonUnsubmitted(r, g)
                                          \/ OpeningGivesUp(r, g) \/ OpeningDone(r, g)
                         \/ \E g \in 0 .. MaxGen : FinishFailed(r, g)
    BY <1>4 DEF Starts
  <2>2. CASE Bind(r)
    BY <2>2 DEF Bind
  <2>3. ASSUME NEW g \in Gens, Fork(r, g) \/ BootFails(r, g) \/ OpeningGivesUp(r, g) \/ OpeningDone(r, g)
        PROVE  Goal
    BY <2>3 DEF Fork, BootFails, OpeningGivesUp, OpeningDone, innerVars, rowVars, slotVars
  <2>4. ASSUME NEW g \in Gens, AbandonUnsubmitted(r, g) PROVE Goal
    BY <2>4 DEF AbandonUnsubmitted
  <2>5. ASSUME NEW g \in 0 .. MaxGen, FinishFailed(r, g) PROVE Goal
    BY <2>5, <1>1 DEF FinishFailed, FailedStart
  <2>. QED
    BY <2>1, <2>2, <2>3, <2>4, <2>5
<1>5. CASE ChildSteps
  BY <1>5 DEF ChildSteps, ChildReady, ChildTakesLine, ChildEndsTurn, ChildAsks, ChildAnswered,
              ChildFailsTurn, Turn, ChildExits, innerVars, rowVars, slotVars
<1>6. CASE Reactions
  <2>1. PICK s \in Sessions : \/ ApplyFrame(s) \/ ExitRestarts(s) \/ ExitDecided(s) \/ ExternalStop(s)
                             \/ SigStop(s)
    BY <1>6 DEF Reactions
  <2>2. s[1] \in Runs
    BY DEF Sessions
  <2>3. CASE ApplyFrame(s)
    BY <2>2, <2>3, <1>1 DEF ApplyFrame
  <2>4. CASE ExitRestarts(s)
    BY <2>2, <2>4, <1>1 DEF ExitRestarts
  <2>5. CASE ExitDecided(s)
    BY <2>2, <2>5, <1>1 DEF ExitDecided
  <2>6. CASE ExternalStop(s)
    BY <2>2, <2>6, <1>1 DEF ExternalStop
  <2>7. CASE SigStop(s)
    BY <2>7 DEF SigStop, innerVars, rowVars, slotVars
  <2>. QED
    BY <2>1, <2>3, <2>4, <2>5, <2>6, <2>7
<1>7. CASE Stops
  <2>1. PICK r \in Runs :
          \/ \E force \in BOOLEAN : PlanStop(r, force)
          \/ CancelDequeues(r) \/ CancelLands(r) \/ KillLands(r) \/ AskToWindDown(r) \/ GraceRunsOut(r)
    BY <1>7 DEF Stops
  <2>2. CASE CancelLands(r)
    BY <2>2, <1>1 DEF CancelLands
  <2>3. CASE ~CancelLands(r)
    BY <2>1, <2>3 DEF PlanStop, CancelDequeues, KillLands, AskToWindDown, GraceRunsOut,
                      innerVars, rowVars, slotVars
  <2>. QED
    BY <2>2, <2>3
<1>8. CASE FollowUps
  <2>1. PICK r \in Runs : FollowUp(r) \/ HeldFollowUp(r) \/ Reserve(r) \/ SendPrompt(r)
    BY <1>8 DEF FollowUps
  <2>2. CASE FollowUp(r) \/ HeldFollowUp(r)
    BY <2>2 DEF FollowUp, HeldFollowUp, UnchangedByFollowUp
  <2>3. CASE Reserve(r)
    BY <2>3 DEF Reserve
  <2>4. CASE SendPrompt(r)
    BY <2>4 DEF SendPrompt
  <2>. QED
    BY <2>1, <2>2, <2>3, <2>4
<1>9. CASE Pauses
  <2>1. ASSUME NEW r \in Runs, PauseRun(r) PROVE Goal
    BY <2>1 DEF PauseRun
  <2>2. ASSUME NEW p \in Projects, PauseProject(p) PROVE Goal
    BY <2>2 DEF PauseProject
  <2>. QED
    BY <1>9, <2>1, <2>2 DEF Pauses
<1>10. CASE Resumes
  <2>1. CASE ReclaimSlot
    <3>1. resume.todo # {} /\ resume.todo \subseteq Runs \X (0 .. MaxGen)
      BY <2>1 DEF ReclaimSlot, Typed, StepsTyped
    <3>2. NextThaw[1] \in Runs
      BY <3>1, NextThawIsThere
    <3>. QED
      BY <2>1, <3>2 DEF ReclaimSlot, ReclaimKeeps, ReclaimRequeues
  <2>2. CASE Resume
    BY <2>2 DEF Resume, ResumePlans, innerVars, rowVars, slotVars
  <2>3. CASE ReclaimTakesLock \/ PlanRestarts \/ SigCont \/ FinishThaws \/ EndOldChildren
             \/ RequeueTakesLock \/ ResumeDone \/ \E r \in Runs : RequeueOne(r)
    BY <2>3 DEF ReclaimTakesLock, PlanRestarts, SigCont, FinishThaws, EndOldChildren,
                RequeueTakesLock, ResumeDone, RequeueOne, innerVars, rowVars, slotVars
  <2>. QED
    BY <1>10, <2>1, <2>2, <2>3 DEF Resumes
<1>. QED
  BY <1>2, <1>3, <1>4, <1>5, <1>6, <1>7, <1>8, <1>9, <1>10 DEF Next

------------------------------------------------------------------------------
(* Types through every step; the slots' come from the lemmas above *)

Kept == Typed' /\ ThawsKnown'

LEMMA SpendTyped ==
  ASSUME Typed, NEW c \in Chances, Spend(c)
  PROVE  budget' \in [Chances -> Nat]
BY DEF Spend, Typed, ChildrenTyped

\* Dispatch and the admission loop.
LEMMA AdmissionTyped ==
  ASSUME Typed, ThawsKnown, SlotsTyped'
  PROVE  /\ \A r \in Runs : Dispatch(r) => Kept
         /\ Admission => Kept
<1>1. ASSUME NEW r \in Runs, Dispatch(r) PROVE Kept
  <2>1. Cardinality({q \in Runs : seq[q] > 0}) \in Nat
    BY RunsAreFinite, FS_Subset, FS_CardinalityType DEF RunsAreFinite
  <2>2. state' \in [Runs -> RunStates] /\ seq' \in [Runs -> Nat]
    BY <1>1, <2>1 DEF Dispatch, Typed, RowsTyped, RunStates
  <2>3. budget' \in [Chances -> Nat]
    BY <1>1, SpendTyped DEF Dispatch, Chances
  <2>. QED
    BY <1>1, <2>2, <2>3 DEF Dispatch, Kept, Typed, ThawsKnown, SlotsTyped, RowsTyped, InnerTyped,
                      StepsTyped, ChildrenTyped, procVars
<1>2. CASE PumpStarts \/ PumpTurns
  <2>1. Fronts \in SUBSET Runs
    BY DEF Fronts
  <2>2. pump' \in [on : BOOLEAN, pass : SUBSET Runs, moved : BOOLEAN] /\ pumpDue' \in BOOLEAN
    <3>1. pump' = [on |-> TRUE, pass |-> Fronts, moved |-> FALSE] \/ pump' = IdlePump
      BY <1>2 DEF PumpStarts, PumpTurns
    <3>2. pumpDue' = FALSE \/ pumpDue' = pumpDue
      BY <1>2 DEF PumpStarts, PumpTurns
    <3>3. pump' \in [on : BOOLEAN, pass : SUBSET Runs, moved : BOOLEAN]
      <4>1. [on |-> TRUE, pass |-> Fronts, moved |-> FALSE] \in [on : BOOLEAN, pass : SUBSET Runs, moved : BOOLEAN]
        BY <2>1
      <4>2. IdlePump \in [on : BOOLEAN, pass : SUBSET Runs, moved : BOOLEAN]
        BY DEF IdlePump
      <4>. QED
        BY <3>1, <4>1, <4>2
    <3>. QED
      BY <3>2, <3>3 DEF Typed, StepsTyped
  <2>. QED
    BY <1>2, <2>2 DEF PumpStarts, PumpTurns, Kept, Typed, ThawsKnown, RowsTyped,
              InnerTyped, StepsTyped, ChildrenTyped, rowVars, innerVars, procVars
<1>3. CASE PumpVisits
  <2>1. pump.pass \in SUBSET Runs /\ pump.pass # {}
    BY <1>3 DEF PumpVisits, Typed, StepsTyped
  <2>2. PICK r \in Runs : Admit(r) \/ PassOver(r)
    BY <1>3, <2>1, OldestIsThere DEF PumpVisits
  <2>3. Op("start", r, 0) \in Ops
    BY Limits, OpIsTyped DEF Limits, OpKinds
  <2>4. /\ state' \in [Runs -> RunStates]
        /\ pump' \in [on : BOOLEAN, pass : SUBSET Runs, moved : BOOLEAN]
        /\ ops' \subseteq Ops
    BY <2>2, <2>3 DEF Admit, PassOver, Typed, RowsTyped, StepsTyped, RunStates
  <2>. QED
    BY <1>3, <2>4 DEF PumpVisits, Kept, Typed, ThawsKnown, SlotsTyped, RowsTyped, InnerTyped,
                      StepsTyped, ChildrenTyped, procVars
<1>. QED
  BY <1>1, <1>2, <1>3 DEF Admission

\* Starting a child, and the watch of its opening prompt.
LEMMA StartsTyped ==
  ASSUME Typed, ThawsKnown, SlotsTyped', Starts
  PROVE  Kept
<1>1. PICK r \in Runs :
        \/ Bind(r)
        \/ \E g \in Gens : Fork(r, g) \/ BootFails(r, g) \/ AbandonUnsubmitted(r, g)
                         \/ OpeningGivesUp(r, g) \/ OpeningDone(r, g)
        \/ \E g \in 0 .. MaxGen : FinishFailed(r, g)
  BY DEF Starts
<1>2. /\ 0 \in 0 .. MaxGen /\ MaxGen \in Nat
      /\ \A g \in Gens : g \in 0 .. MaxGen
  BY Limits DEF Limits, Gens
<1>3. CASE Bind(r)
  <2>1. minted[r] + 1 \in 0 .. MaxGen /\ minted'[r] = minted[r] + 1
    BY <1>2, <1>3 DEF Bind, Typed, ChildrenTyped
  <2>2. Op("boot", r, minted'[r]) \in Ops
    BY <2>1, OpIsTyped DEF OpKinds
  <2>. QED
    BY <1>3, <2>1, <2>2 DEF Bind, Kept, Typed, ThawsKnown, SlotsTyped, RowsTyped, InnerTyped,
                            StepsTyped, ChildrenTyped
<1>4. ASSUME NEW g \in Gens, Fork(r, g) PROVE Kept
  <2>1. Op("opening", r, g) \in Ops
    BY <1>2, OpIsTyped DEF OpKinds
  <2>2. [NoChild EXCEPT !.st = "live", !.typed = (session[r] = g)] \in Children
    BY DEF NoChild, Children
  <2>3. child' \in [Sessions -> Children] /\ ops' \subseteq Ops
    BY <1>4, <2>1, <2>2 DEF Fork, Typed, StepsTyped, ChildrenTyped
  <2>. QED
    BY <1>4, <2>3 DEF Fork, Kept, Typed, ThawsKnown, SlotsTyped, RowsTyped, InnerTyped,
                            StepsTyped, ChildrenTyped, rowVars, innerVars
<1>5. ASSUME NEW g \in Gens, BootFails(r, g) PROVE Kept
  <2>1. Op("giveUp", r, 0) \in Ops
    BY <1>2, OpIsTyped DEF OpKinds
  <2>2. budget' \in [Chances -> Nat]
    BY <1>5, SpendTyped DEF BootFails, Chances
  <2>. QED
    BY <1>5, <2>1, <2>2 DEF BootFails, Kept, Typed, ThawsKnown, SlotsTyped, RowsTyped, InnerTyped,
                      StepsTyped, ChildrenTyped, rowVars, innerVars, procVars
<1>6. ASSUME NEW g \in Gens, AbandonUnsubmitted(r, g) PROVE Kept
  <2>1. Op("kill", r, g) \in Ops
    BY <1>2, OpIsTyped DEF OpKinds
  <2>2. budget' \in [Chances -> Nat]
    BY <1>6, SpendTyped DEF AbandonUnsubmitted, Chances
  <2>3. /\ state' \in [Runs -> RunStates] /\ session' \in [Runs -> 0 .. MaxGen]
        /\ openings' \in [Runs -> Nat]
    BY <1>2, <1>6 DEF AbandonUnsubmitted, Typed, RowsTyped, RunStates
  <2>. QED
    BY <1>6, <2>1, <2>2, <2>3 DEF AbandonUnsubmitted, Kept, Typed, ThawsKnown, SlotsTyped, RowsTyped,
         InnerTyped, StepsTyped, ChildrenTyped, procVars
<1>7. ASSUME NEW g \in Gens, OpeningGivesUp(r, g) \/ OpeningDone(r, g) PROVE Kept
  <2>1. Op("giveUp", r, g) \in Ops
    BY <1>2, OpIsTyped DEF OpKinds
  <2>2. budget' \in [Chances -> Nat]
    BY <1>7, SpendTyped DEF OpeningGivesUp, OpeningDone, Chances, Typed, ChildrenTyped
  <2>. QED
    BY <1>7, <2>1, <2>2 DEF OpeningGivesUp, OpeningDone, Kept, Typed, ThawsKnown, SlotsTyped,
         RowsTyped, InnerTyped, StepsTyped, ChildrenTyped, rowVars, innerVars, procVars
<1>8. ASSUME NEW g \in 0 .. MaxGen, FinishFailed(r, g) PROVE Kept
  <2>1. Op("kill", r, g) \in Ops /\ Wakes(r, "Failed") \subseteq Ops
    BY OpIsTyped, WakesTyped DEF OpKinds
  <2>2. /\ state' \in [Runs -> RunStates] /\ frozen' \in [Runs -> Freezes]
        /\ stop' \in [Runs -> StopHow] /\ held' \in [Runs -> BOOLEAN]
        /\ frozenSessions' \subseteq Sessions
    <3>1. "Failed" \in RunStates /\ Settle(r, "Failed", FALSE)
      BY <1>8 DEF FinishFailed, FailedStart, RunStates, Over, Ended
    <3>. QED
      BY <3>1, SettleTyped
  <2>. QED
    BY <1>2, <1>8, <2>1, <2>2 DEF FinishFailed, FailedStart, Kept, Typed, ThawsKnown, SlotsTyped,
         RowsTyped, InnerTyped, StepsTyped, ChildrenTyped, procVars
<1>. QED
  BY <1>1, <1>3, <1>4, <1>5, <1>6, <1>7, <1>8

\* The child process (every step of it only queues a frame or an exit).
LEMMA ChildTyped ==
  ASSUME Typed, ThawsKnown, SlotsTyped', ChildSteps
  PROVE  Kept
<1>1. PICK s \in Sessions :
        \/ ChildReady(s) \/ ChildTakesLine(s) \/ ChildEndsTurn(s)
        \/ ChildAsks(s) \/ ChildAnswered(s) \/ ChildFailsTurn(s)
        \/ \E how \in ExitKinds : ChildExits(s, how)
  BY DEF ChildSteps
<1>2. CASE \E how \in ExitKinds : ChildExits(s, how)
  <2>1. PICK how \in ExitKinds : ChildExits(s, how)
    BY <1>2
  <2>2. Op(how, s[1], s[2]) \in Ops
    BY Limits, OpIsTyped DEF Limits, OpKinds, ExitKinds, Sessions, Gens
  <2>3. budget' \in [Chances -> Nat]
    BY <2>1, SpendTyped DEF ChildExits, Chances, Typed, ChildrenTyped
  <2>4. child' \in [Sessions -> Children]
    BY <2>1 DEF ChildExits, Typed, ChildrenTyped, Children
  <2>. QED
    BY <2>1, <2>2, <2>3, <2>4 DEF ChildExits, Kept, Typed, ThawsKnown, SlotsTyped, RowsTyped,
         InnerTyped, StepsTyped, ChildrenTyped, rowVars, innerVars
<1>3. CASE \/ ChildReady(s) \/ ChildTakesLine(s) \/ ChildEndsTurn(s)
           \/ ChildAsks(s) \/ ChildAnswered(s) \/ ChildFailsTurn(s)
  <2>1. budget' \in [Chances -> Nat]
    BY <1>3, SpendTyped DEF ChildReady, ChildTakesLine, ChildEndsTurn, ChildAsks, ChildAnswered,
         ChildFailsTurn, Chances, Typed, ChildrenTyped
  <2>2. PICK from, to \in {"splash", "prompt", "busy", "asking"}, f \in Frames : Turn(s, from, to, f)
    BY <1>3 DEF ChildReady, ChildTakesLine, ChildEndsTurn, ChildAsks, ChildAnswered,
         ChildFailsTurn, Frames
  <2>3. child' \in [Sessions -> Children]
    <3>1. child[s] \in Children /\ (child[s].typed /\ f # "Prompt") \in BOOLEAN
      BY DEF Typed, ChildrenTyped, Children
    <3>2. [[child[s] EXCEPT !.mode = to] EXCEPT !.typed = child[s].typed /\ f # "Prompt"] \in Children
      BY <3>1 DEF Children
    <3>3. \A t \in Sessions : child'[t] = IF t = s
             THEN [[child[s] EXCEPT !.mode = to] EXCEPT !.typed = child[s].typed /\ f # "Prompt"]
             ELSE child[t]
      BY <2>2, <3>1 DEF Turn, Typed, ChildrenTyped, Children
    <3>4. child' = [t \in Sessions |-> child'[t]]
      BY <2>2 DEF Turn, Typed, ChildrenTyped
    <3>. QED
      BY <3>2, <3>3, <3>4 DEF Typed, ChildrenTyped
  <2>4. frames' \in [Sessions -> Seq(Frames)]
    BY <2>2 DEF Turn, Sends, Typed, ChildrenTyped
  <2>. QED
    BY <2>1, <2>2, <2>3, <2>4 DEF Turn, Kept, Typed, ThawsKnown, SlotsTyped, RowsTyped,
         InnerTyped, StepsTyped, ChildrenTyped, rowVars, innerVars
<1>. QED
  BY <1>1, <1>2, <1>3

\* Hook frames, exits and signals.
LEMMA ReactionsTyped ==
  ASSUME Typed, ThawsKnown, SlotsTyped', Reactions
  PROVE  Kept
<1>1. PICK s \in Sessions : \/ ApplyFrame(s) \/ ExitRestarts(s) \/ ExitDecided(s)
                           \/ ExternalStop(s) \/ SigStop(s)
  BY DEF Reactions
<1>. DEFINE r == s[1]
            RowKept == /\ state' \in [Runs -> RunStates] /\ frozen' \in [Runs -> Freezes]
                       /\ stop' \in [Runs -> StopHow] /\ held' \in [Runs -> BOOLEAN]
                       /\ frozenSessions' \subseteq Sessions
<1>2. r \in Runs /\ s[2] \in Gens /\ s[2] \in 0 .. MaxGen
  BY Limits DEF Sessions, Limits, Gens
<1>3. \A next \in RunStates, clean \in BOOLEAN : SetState(r, next, clean) \/ Settle(r, next, clean) => RowKept
  BY <1>2, SettleTyped
<1>4. UNCHANGED <<state, slotVars, frozen, frozenSessions, stop, held>> => RowKept
  BY DEF Typed, RowsTyped, InnerTyped
<1>5. CASE ApplyFrame(s)
  <2>1. Head(frames[s]) \in Frames /\ frames' \in [Sessions -> Seq(Frames)]
    BY <1>5 DEF ApplyFrame, Typed, ChildrenTyped
  <2>2. Meaning(Head(frames[s])) \in RunStates
    BY <2>1 DEF Meaning, Frames, RunStates
  <2>3. RowKept
    BY <1>3, <1>4, <1>5, <2>2 DEF ApplyFrame
  <2>4. Wakes(r, Meaning(Head(frames[s]))) \subseteq Ops
    BY <1>2, WakesTyped
  <2>5. ops' \subseteq Ops /\ pumpDue' \in BOOLEAN
    BY <1>5, <2>4 DEF ApplyFrame, Typed, StepsTyped
  <2>. QED
    BY <1>5, <2>1, <2>3, <2>5 DEF ApplyFrame, Kept, Typed, ThawsKnown, SlotsTyped, RowsTyped,
         InnerTyped, StepsTyped, ChildrenTyped
<1>6. CASE ExitRestarts(s)
  <2>1. PICK how \in ExitKinds, x \in RestartsOf(s) :
         /\ restarts' = restarts \ {x}
         /\ IF stopping[s[1]]
              THEN /\ Settle(s[1], "Failed", FALSE)
                   /\ ops' = (ops \ {Op(how, s[1], s[2])}) \cup Wakes(s[1], "Failed")
              ELSE /\ ops' = (ops \ {Op(how, s[1], s[2])}) \cup {Op("boot", s[1], x.new)}
                   /\ UNCHANGED <<state, slotVars, frozen, frozenSessions, stop, held>>
    BY <1>6 DEF ExitRestarts
  <2>2. RowKept
    BY <1>3, <1>4, <2>1 DEF RunStates, Over, Ended
  <2>3. x.new \in 0 .. MaxGen
    BY Limits DEF RestartsOf, Typed, InnerTyped, Gens, Limits
  <2>4. Op("boot", r, x.new) \in Ops /\ Wakes(r, "Failed") \subseteq Ops
    BY <1>2, <2>3, OpIsTyped, WakesTyped DEF OpKinds
  <2>5. ops' \subseteq Ops /\ restarts' \subseteq restarts
    BY <2>1, <2>4 DEF Typed, StepsTyped
  <2>. QED
    BY <1>6, <2>2, <2>5 DEF ExitRestarts, Kept, Typed, ThawsKnown, SlotsTyped, RowsTyped,
         InnerTyped, StepsTyped, ChildrenTyped, procVars
<1>7. CASE ExitDecided(s)
  <2>. DEFINE next == IF state[r] = "Blocked" THEN "Failed" ELSE "Finished"
  <2>1. next \in RunStates
    BY DEF RunStates, Over, Ended
  <2>2. RowKept
    BY <1>3, <1>4, <1>7, <2>1 DEF ExitDecided
  <2>3. Op("external", r, s[2]) \in Ops /\ Wakes(r, next) \subseteq Ops
    BY <1>2, OpIsTyped, WakesTyped DEF OpKinds
  <2>4. ops' \subseteq Ops /\ pumpDue' \in BOOLEAN
    BY <1>7, <2>3 DEF ExitDecided, Typed, StepsTyped
  <2>. QED
    BY <1>7, <2>2, <2>4 DEF ExitDecided, Kept, Typed, ThawsKnown, SlotsTyped, RowsTyped,
         InnerTyped, StepsTyped, ChildrenTyped, procVars
<1>8. CASE ExternalStop(s)
  <2>1. RowKept
    BY <1>3, <1>8 DEF ExternalStop, RunStates, Over
  <2>2. Wakes(r, "Interrupted") \subseteq Ops
    BY <1>2, WakesTyped
  <2>. QED
    BY <1>8, <2>1, <2>2 DEF ExternalStop, Kept, Typed, ThawsKnown, SlotsTyped, RowsTyped,
         InnerTyped, StepsTyped, ChildrenTyped, procVars
<1>9. CASE SigStop(s)
  <2>1. child' \in [Sessions -> Children]
    BY <1>9 DEF SigStop, Typed, ChildrenTyped, Children
  <2>. QED
    BY <1>9, <2>1 DEF SigStop, Kept, Typed, ThawsKnown, SlotsTyped, RowsTyped,
         InnerTyped, StepsTyped, ChildrenTyped, rowVars, innerVars
<1>. QED
  BY <1>1, <1>5, <1>6, <1>7, <1>8, <1>9

\* A line typed into a child, and a child hung up.
LEMMA LineTyped ==
  ASSUME Typed, NEW s \in Sessions
  PROVE  [child EXCEPT ![s].typed = TRUE] \in [Sessions -> Children]
<1>1. child \in [Sessions -> Children] /\ child[s] \in Children
  BY DEF Typed, ChildrenTyped
<1>2. [child[s] EXCEPT !.typed = TRUE] \in Children
  BY <1>1 DEF Children
<1>. QED
  BY <1>1, <1>2

LEMMA HangUpTyped ==
  ASSUME Typed, NEW s \in Sessions, NEW b \in BOOLEAN
  PROVE  [child EXCEPT ![s].st = "dying", ![s].halted = b] \in [Sessions -> Children]
<1>1. child \in [Sessions -> Children] /\ child[s] \in Children
  BY DEF Typed, ChildrenTyped
<1>2. [[child[s] EXCEPT !.st = "dying"] EXCEPT !.halted = b] \in Children
  BY <1>1 DEF Children
<1>. QED
  BY <1>1, <1>2

LEMMA RegisteredIsASession ==
  ASSUME NEW r \in Runs, NEW g \in 0 .. MaxGen, Registered(<<r, g>>)
  PROVE  <<r, g>> \in Sessions
BY Limits DEF Registered, Sessions, Gens, Limits

\* Stop.
LEMMA StopsTyped ==
  ASSUME Typed, ThawsKnown, SlotsTyped', Stops
  PROVE  Kept
<1>1. PICK r \in Runs :
        \/ \E force \in BOOLEAN : PlanStop(r, force)
        \/ CancelDequeues(r) \/ CancelLands(r) \/ KillLands(r) \/ AskToWindDown(r) \/ GraceRunsOut(r)
  BY DEF Stops
<1>2. session[r] \in 0 .. MaxGen /\ 0 \in 0 .. MaxGen
  BY Limits DEF Typed, RowsTyped, Limits
<1>3. ASSUME NEW force \in BOOLEAN, PlanStop(r, force) PROVE Kept
  <2>. DEFINE route == StopRoute(r, force)
  <2>1. route \in {"Nothing", "Cancel", "Discard", "Kill", "Ask"}
    BY DEF StopRoute
  <2>2. route # "Nothing" => /\ StopRecord[route] \in StopHow
                             /\ StopFollows[route] \in OpKinds
    BY <2>1 DEF StopRecord, StopFollows, StopHow, OpKinds
  <2>3. route # "Nothing" => Op(StopFollows[route], r, session[r]) \in Ops
    BY <1>2, <2>2, OpIsTyped
  <2>. HIDE DEF route
  <2>4. /\ stopping' = [stopping EXCEPT ![r] = TRUE]
        /\ IF route = "Nothing"
             THEN pumpDue' = TRUE /\ UNCHANGED <<stop, ops>>
             ELSE /\ stop' = [stop EXCEPT ![r] = StopRecord[route]]
                  /\ ops' = ops \cup {Op(StopFollows[route], r, session[r])}
                  /\ UNCHANGED pumpDue
    BY <1>3 DEF PlanStop, route
  <2>5. /\ stopping' \in [Runs -> BOOLEAN] /\ stop' \in [Runs -> StopHow] /\ ops' \subseteq Ops
        /\ pumpDue' \in BOOLEAN
    BY <2>2, <2>3, <2>4 DEF Typed, RowsTyped, StepsTyped
  <2>6. budget' \in [Chances -> Nat]
    BY <1>3, SpendTyped DEF PlanStop, Chances
  <2>. QED
    BY <1>3, <2>5, <2>6 DEF PlanStop, Kept, Typed, ThawsKnown, SlotsTyped, RowsTyped,
         InnerTyped, StepsTyped, ChildrenTyped, procVars
<1>4. CASE CancelDequeues(r)
  <2>1. PICK g \in 0 .. MaxGen : ops' = (ops \ {Op("dequeue", r, g)}) \cup {Op("cancel", r, g)}
    BY <1>4 DEF CancelDequeues
  <2>2. Op("cancel", r, g) \in Ops
    BY OpIsTyped DEF OpKinds
  <2>. QED
    BY <1>4, <2>1, <2>2 DEF CancelDequeues, Kept, Typed, ThawsKnown, SlotsTyped, RowsTyped,
         InnerTyped, StepsTyped, ChildrenTyped, rowVars, procVars
<1>5. CASE CancelLands(r)
  <2>1. PICK do \in {"cancel", "discard"}, g \in 0 .. MaxGen :
           ops' = (ops \ {Op(do, r, g)}) \cup Wakes(r, "Cancelled")
    BY <1>5 DEF CancelLands
  <2>2. ops' \subseteq Ops
    BY <2>1, WakesTyped DEF Typed, StepsTyped
  <2>3. /\ state' \in [Runs -> RunStates] /\ frozen' \in [Runs -> Freezes]
        /\ stop' \in [Runs -> StopHow] /\ held' \in [Runs -> BOOLEAN]
        /\ frozenSessions' \subseteq Sessions
    <3>1. "Cancelled" \in RunStates /\ Settle(r, "Cancelled", FALSE)
      BY <1>5 DEF CancelLands, RunStates, Over, Ended
    <3>. QED
      BY <3>1, SettleTyped
  <2>. QED
    BY <1>5, <2>2, <2>3 DEF CancelLands, Kept, Typed, ThawsKnown, SlotsTyped, RowsTyped,
         InnerTyped, StepsTyped, ChildrenTyped, procVars
<1>6. CASE KillLands(r)
  <2>1. PICK do \in {"kill", "stopKill"}, g \in 0 .. MaxGen :
          /\ ops' = ops \ {Op(do, r, g)} /\ Killed(<<r, g>>)
          /\ pumpDue' = (pumpDue \/ do = "stopKill")
    BY <1>6 DEF KillLands
  <2>2. child' \in [Sessions -> Children] /\ frozenSessions' \subseteq Sessions
    <3>1. CASE Registered(<<r, g>>)
      <4>1. <<r, g>> \in Sessions
        BY <3>1, RegisteredIsASession
      <4>2. (child[<<r, g>>].halted /\ <<r, g>> \notin frozenSessions) \in BOOLEAN
        BY <4>1 DEF Typed, ChildrenTyped, Children
      <4>3. [child EXCEPT ![<<r, g>>].st = "dying",
                          ![<<r, g>>].halted = child[<<r, g>>].halted /\ <<r, g>> \notin frozenSessions]
              \in [Sessions -> Children]
        BY <4>1, <4>2, HangUpTyped
      <4>4. child' = [child EXCEPT ![<<r, g>>].st = "dying",
                          ![<<r, g>>].halted = child[<<r, g>>].halted /\ <<r, g>> \notin frozenSessions]
        BY <2>1, <3>1, <4>1 DEF Killed, Typed, ChildrenTyped, Children
      <4>. QED
        BY <2>1, <3>1, <4>3, <4>4 DEF Killed, Typed, InnerTyped
    <3>. QED
      BY <2>1, <3>1 DEF Killed, Typed, InnerTyped, ChildrenTyped
  <2>. QED
    BY <1>6, <2>1, <2>2 DEF KillLands, Kept, Typed, ThawsKnown, SlotsTyped, RowsTyped,
         InnerTyped, StepsTyped, ChildrenTyped, rowVars
<1>7. CASE AskToWindDown(r)
  <2>1. Op("grace", r, 0) \in Ops
    BY <1>2, OpIsTyped DEF OpKinds
  <2>2. /\ child' \in [Sessions -> Children] /\ stop' \in [Runs -> StopHow]
        /\ ops' \subseteq Ops /\ frozenSessions' = frozenSessions
    <3>1. PICK g \in 0 .. MaxGen :
            IF Registered(<<r, g>>)
              THEN /\ child' = [child EXCEPT ![<<r, g>>].typed = TRUE]
                   /\ ops' = (ops \ {Op("ask", r, g)}) \cup {Op("grace", r, 0)}
                   /\ UNCHANGED <<stop, frozenSessions>>
              ELSE /\ stop' = [stop EXCEPT ![r] = IF stop[r] \in WindingDown THEN "Forced" ELSE stop[r]]
                   /\ ops' = ops \ {Op("ask", r, g)}
                   /\ UNCHANGED <<child, frozenSessions>>
      BY <1>7 DEF AskToWindDown
    <3>2. child' \in [Sessions -> Children]
      <4>1. CASE Registered(<<r, g>>) /\ child' = [child EXCEPT ![<<r, g>>].typed = TRUE]
        BY <4>1, RegisteredIsASession, LineTyped
      <4>2. CASE child' = child
        BY <4>2 DEF Typed, ChildrenTyped
      <4>. QED
        BY <3>1, <4>1, <4>2
    <3>3. stop' \in [Runs -> StopHow]
      BY <3>1 DEF Typed, RowsTyped, StopHow
    <3>. QED
      BY <2>1, <3>1, <3>2, <3>3 DEF Typed, StepsTyped
  <2>. QED
    BY <1>7, <2>2 DEF AskToWindDown, Kept, Typed, ThawsKnown, SlotsTyped, RowsTyped,
         InnerTyped, StepsTyped, ChildrenTyped
<1>8. CASE GraceRunsOut(r)
  <2>1. Op("kill", r, session[r]) \in Ops
    BY <1>2, OpIsTyped DEF OpKinds
  <2>2. stop' \in [Runs -> StopHow] /\ ops' \subseteq Ops
    BY <1>8, <2>1 DEF GraceRunsOut, Typed, RowsTyped, StepsTyped, StopHow
  <2>. QED
    BY <1>8, <2>2 DEF GraceRunsOut, Kept, Typed, ThawsKnown, SlotsTyped, RowsTyped,
         InnerTyped, StepsTyped, ChildrenTyped, procVars
<1>. QED
  BY <1>1, <1>3, <1>4, <1>5, <1>6, <1>7, <1>8

\* Follow-ups.
LEMMA FollowUpsTyped ==
  ASSUME Typed, ThawsKnown, SlotsTyped', FollowUps
  PROVE  Kept
<1>1. PICK r \in Runs : FollowUp(r) \/ HeldFollowUp(r) \/ Reserve(r) \/ SendPrompt(r)
  BY DEF FollowUps
<1>2. session[r] \in 0 .. MaxGen /\ \A g \in Gens : g \in 0 .. MaxGen
  BY Limits DEF Typed, RowsTyped, Limits, Gens
<1>3. CASE FollowUp(r) \/ HeldFollowUp(r)
  <2>1. Op("send", r, session[r]) \in Ops
    BY <1>2, OpIsTyped DEF OpKinds
  <2>2. held' \in [Runs -> BOOLEAN] /\ ops' \subseteq Ops
    BY <1>3, <2>1 DEF FollowUp, HeldFollowUp, PlanFollowUp, Typed, RowsTyped, StepsTyped
  <2>3. budget' \in [Chances -> Nat]
    BY <1>3, SpendTyped DEF FollowUp, HeldFollowUp, Chances, Typed, ChildrenTyped
  <2>. QED
    BY <1>3, <2>2, <2>3 DEF FollowUp, HeldFollowUp, UnchangedByFollowUp, Kept, Typed, ThawsKnown,
         SlotsTyped, RowsTyped, InnerTyped, StepsTyped, ChildrenTyped, procVars
<1>4. CASE Reserve(r)
  <2>1. \A g \in Gens : Op("type", r, g) \in Ops /\ Op("typeReserved", r, g) \in Ops
    BY <1>2, OpIsTyped DEF OpKinds
  <2>2. ops' \subseteq Ops
    BY <1>4, <2>1 DEF Reserve, Typed, StepsTyped
  <2>. QED
    BY <1>4, <2>2 DEF Reserve, Kept, Typed, ThawsKnown, SlotsTyped, RowsTyped,
         InnerTyped, StepsTyped, ChildrenTyped, procVars
<1>5. CASE SendPrompt(r)
  <2>1. child' \in [Sessions -> Children] /\ ops' \subseteq Ops
    <3>1. PICK do \in {"type", "typeReserved"}, g \in 0 .. MaxGen :
            /\ ops' = ops \ {Op(do, r, g)}
            /\ \/ Registered(<<r, g>>) /\ child' = [child EXCEPT ![<<r, g>>].typed = TRUE]
               \/ child' = child
      BY <1>2, <1>5 DEF SendPrompt
    <3>2. child' \in [Sessions -> Children]
      <4>1. CASE Registered(<<r, g>>) /\ child' = [child EXCEPT ![<<r, g>>].typed = TRUE]
        BY <4>1, RegisteredIsASession, LineTyped
      <4>2. CASE child' = child
        BY <4>2 DEF Typed, ChildrenTyped
      <4>. QED
        BY <3>1, <4>1, <4>2
    <3>. QED
      BY <3>1, <3>2 DEF Typed, StepsTyped
  <2>. QED
    BY <1>5, <2>1 DEF SendPrompt, Kept, Typed, ThawsKnown, SlotsTyped, RowsTyped,
         InnerTyped, StepsTyped, ChildrenTyped
<1>. QED
  BY <1>1, <1>3, <1>4, <1>5

\* Pause.
LEMMA PausesTyped ==
  ASSUME Typed, ThawsKnown, SlotsTyped', Pauses
  PROVE  Kept
<1>1. PICK S \in SUBSET Runs :
        /\ Freeze(S) /\ \A r \in S : session[r] # 0
        /\ Spend("pause") /\ paused' \subseteq paused \cup Projects
        /\ pumpDue' = (pumpDue \/ S = {}) \/ pumpDue' = pumpDue
  <2>1. ASSUME NEW r \in Runs, PauseRun(r)
        PROVE  /\ Freeze({r}) /\ session[r] # 0 /\ Spend("pause") /\ paused' = paused /\ pumpDue' = pumpDue
    BY <2>1 DEF PauseRun, Freezable
  <2>2. ASSUME NEW p \in Projects, PauseProject(p)
        PROVE  \E S \in SUBSET Runs :
                 /\ Freeze(S) /\ \A r \in S : session[r] # 0
                 /\ Spend("pause") /\ paused' = paused \cup {p} /\ pumpDue' = (pumpDue \/ S = {})
    <3>. DEFINE S == {r \in Runs : ProjectOf[r] = p /\ state[r] # "None" /\ Freezable(r)}
    <3>1. S \in SUBSET Runs /\ \A r \in S : session[r] # 0
      BY DEF Freezable
    <3>2. Freeze(S) /\ Spend("pause") /\ paused' = paused \cup {p} /\ pumpDue' = (pumpDue \/ S = {})
      BY <2>2 DEF PauseProject
    <3>. HIDE DEF S
    <3>. QED
      BY <3>1, <3>2
  <2>3. CASE \E r \in Runs : PauseRun(r)
    <3>1. PICK r \in Runs : PauseRun(r)
      BY <2>3
    <3>2. WITNESS {r} \in SUBSET Runs
    <3>. QED
      BY <2>1, <3>1
  <2>4. CASE \E p \in Projects : PauseProject(p)
    <3>1. PICK p \in Projects : PauseProject(p)
      BY <2>4
    <3>. QED
      BY <2>2, <3>1
  <2>. QED
    BY <2>3, <2>4 DEF Pauses
<1>2. \A r \in S : <<r, session[r]>> \in Sessions /\ Op("sigstop", r, session[r]) \in Ops
  <2>1. \A r \in S : session[r] \in 0 .. MaxGen /\ session[r] \in Gens
    BY <1>1, Limits DEF Typed, RowsTyped, Limits, Gens
  <2>. QED
    BY <2>1, OpIsTyped DEF OpKinds, Sessions
<1>3. \A r \in Runs : [at |-> state[r], slot |-> slot[r]] \in Freezes
  BY DEF Freezes, Typed, RowsTyped
<1>4. /\ state' \in [Runs -> RunStates] /\ frozen' \in [Runs -> Freezes]
  BY <1>1, <1>3 DEF Freeze, RunStates, Typed, RowsTyped
<1>5. frozenSessions' \subseteq Sessions /\ ops' \subseteq Ops
  BY <1>1, <1>2 DEF Freeze, Typed, InnerTyped, StepsTyped
<1>6. budget' \in [Chances -> Nat]
  BY <1>1, SpendTyped DEF Chances
<1>7. pumpDue' \in BOOLEAN /\ paused' \subseteq Projects
  BY <1>1 DEF Typed, InnerTyped, StepsTyped
<1>. QED
  BY <1>1, <1>4, <1>5, <1>6, <1>7 DEF Freeze, Kept, Typed, ThawsKnown, SlotsTyped, RowsTyped,
         InnerTyped, StepsTyped, ChildrenTyped, procVars

\* Resume.
LEMMA ResumesTyped ==
  ASSUME Typed, ThawsKnown, SlotsTyped', Resumes
  PROVE  Kept
<1>. DEFINE Stage == [phase : ResumePhases, whole : BOOLEAN, runs : SUBSET Runs,
                      todo : SUBSET (Runs \X (0 .. MaxGen)), thaws : SUBSET Sessions,
                      ends : SUBSET Sessions]
<1>1. resume \in Stage
  BY DEF Typed, StepsTyped
<1>2. Sessions \subseteq Runs \X (0 .. MaxGen) /\ 0 \in 0 .. MaxGen
  BY Limits DEF Sessions, Gens, Limits
<1>3. CASE Resume
  <2>1. PICK whole \in BOOLEAN, S \in SUBSET Runs : ResumePlans(whole, S)
    BY <1>3 DEF Resume
  <2>. DEFINE T == IF whole THEN {s \in frozenSessions : s[1] \in S}
                   ELSE {<<r, session[r]>> : r \in {r \in S : frozen[r] # NoFreeze /\ session[r] # 0}}
  <2>2. T \subseteq Sessions
    <3>1. \A r \in S : session[r] # 0 => <<r, session[r]>> \in Sessions
      BY Limits DEF Typed, RowsTyped, Sessions, Gens, Limits
    <3>2. frozenSessions \subseteq Sessions
      BY DEF Typed, InnerTyped
    <3>. QED
      BY <3>1, <3>2
  <2>3. resume' = [phase |-> "planned", whole |-> whole, runs |-> S, todo |-> T,
                   thaws |-> T, ends |-> {}]
    BY <2>1 DEF ResumePlans
  <2>. HIDE DEF T
  <2>4. resume' \in Stage /\ resume'.todo \subseteq resume'.thaws
    BY <1>2, <2>2, <2>3 DEF ResumePhases
  <2>. QED
    BY <2>1, <2>4 DEF ResumePlans, Kept, Typed, ThawsKnown, RowsTyped,
         InnerTyped, StepsTyped, ChildrenTyped, rowVars, innerVars, procVars
<1>4. CASE ReclaimTakesLock
  <2>1. resume' \in Stage /\ ThawsKnown'
    BY <1>1, <1>4 DEF ReclaimTakesLock, ResumePhases, ThawsKnown
  <2>. QED
    BY <1>4, <2>1 DEF ReclaimTakesLock, Kept, Typed, RowsTyped,
         InnerTyped, StepsTyped, ChildrenTyped, rowVars, innerVars, procVars
<1>5. CASE ReclaimSlot
  <2>. DEFINE s == NextThaw
  <2>1. s \in resume.todo /\ resume.todo \subseteq resume.thaws /\ resume.thaws \subseteq Sessions
    BY <1>1, <1>5, NextThawIsThere DEF ReclaimSlot, ThawsKnown
  <2>2. s \in Sessions /\ s[1] \in Runs
    BY <2>1 DEF Sessions
  <2>. HIDE DEF s
  <2>3. CASE ReclaimKeeps(s)
    <3>1. frozen' \in [Runs -> Freezes]
      <4>1. frozen[s[1]] \in Freezes /\ frozen \in [Runs -> Freezes]
        BY <2>2 DEF Typed, RowsTyped
      <4>2. [frozen[s[1]] EXCEPT !.slot = FALSE] \in Freezes
        BY <4>1 DEF Freezes
      <4>3. \/ frozen' = [frozen EXCEPT ![s[1]] = [frozen[s[1]] EXCEPT !.slot = FALSE]]
            \/ frozen' = frozen
        BY <2>3 DEF ReclaimKeeps
      <4>. QED
        BY <4>1, <4>2, <4>3
    <3>2. resume' \in Stage /\ ThawsKnown'
      BY <1>1, <1>5, <2>1, <2>3 DEF ReclaimSlot, ReclaimKeeps, Reclaimed, ResumePhases, ThawsKnown
    <3>. QED
      BY <1>5, <2>3, <3>1, <3>2 DEF ReclaimSlot, ReclaimKeeps, Kept, Typed, SlotsTyped, RowsTyped,
           InnerTyped, StepsTyped, ChildrenTyped, procVars
  <2>4. CASE ReclaimRequeues(s)
    <3>1. frozen' \in [Runs -> Freezes]
      BY <2>2, <2>4 DEF ReclaimRequeues, Typed, RowsTyped, Freezes, NoFreeze, RunStates
    <3>2. resume' \in Stage /\ ThawsKnown'
      BY <1>1, <1>5, <2>1, <2>2, <2>4 DEF ReclaimSlot, ReclaimRequeues, Reclaimed, ResumePhases, ThawsKnown
    <3>3. /\ state' \in [Runs -> RunStates] /\ session' \in [Runs -> 0 .. MaxGen]
          /\ frozenSessions' \subseteq Sessions
      BY <1>2, <2>4 DEF ReclaimRequeues, Typed, RowsTyped, InnerTyped, RunStates
    <3>. QED
      BY <1>5, <2>4, <3>1, <3>2, <3>3 DEF ReclaimSlot, ReclaimRequeues, Kept, Typed, SlotsTyped, RowsTyped,
           InnerTyped, StepsTyped, ChildrenTyped, procVars
  <2>. QED
    BY <1>5, <2>3, <2>4 DEF ReclaimSlot, s
<1>6. CASE PlanRestarts
  <2>1. PICK S \in SUBSET {s \in resume.thaws : /\ frozen[s[1]] # NoFreeze /\ session[s[1]] = s[2]
                                            /\ ForkedHere(s[1]) /\ minted[s[1]] < MaxGen} :
         LET R == {s[1] : s \in S} IN
         /\ IF S = {} THEN UNCHANGED budget ELSE Spend("edit")
         /\ minted' = [r \in Runs |-> IF r \in R THEN minted[r] + 1 ELSE minted[r]]
         /\ session' = [r \in Runs |-> IF r \in R THEN minted[r] + 1 ELSE session[r]]
         /\ frozen' = [r \in Runs |-> IF r \in R THEN NoFreeze ELSE frozen[r]]
         /\ state' = [r \in Runs |-> IF r \in R THEN "Starting" ELSE state[r]]
         /\ frozenSessions' = frozenSessions \ S
         /\ restarts' = {x \in restarts : <<x.run, x.old>> \notin S} \cup
                        {[run |-> s[1], old |-> s[2], new |-> minted[s[1]] + 1] : s \in S}
         /\ resume' = [resume EXCEPT !.phase = "cont", !.ends = @ \cup S]
    BY <1>6 DEF PlanRestarts
  <2>2. S \subseteq Sessions /\ \A s \in S : minted[s[1]] < MaxGen /\ s[1] \in Runs /\ s[2] \in Gens
    BY <1>1, <2>1 DEF Sessions
  <2>3. \A s \in S : minted[s[1]] + 1 \in Gens /\ minted[s[1]] + 1 \in 0 .. MaxGen
    BY <2>2, Limits DEF Typed, ChildrenTyped, Gens, Limits
  <2>4. budget' \in [Chances -> Nat]
    BY <2>1, SpendTyped DEF Chances, Typed, ChildrenTyped
  <2>5. minted' \in [Runs -> 0 .. MaxGen] /\ session' \in [Runs -> 0 .. MaxGen]
    BY <2>1, <2>3 DEF Typed, RowsTyped, ChildrenTyped
  <2>6. NoFreeze \in Freezes /\ "Starting" \in RunStates
    BY DEF NoFreeze, Freezes, RunStates
  <2>7. frozen' \in [Runs -> Freezes] /\ state' \in [Runs -> RunStates]
    BY <2>1, <2>6 DEF Typed, RowsTyped
  <2>8. restarts' \subseteq [run : Runs, old : Gens, new : Gens] /\ frozenSessions' \subseteq Sessions
    BY <2>1, <2>2, <2>3 DEF Typed, InnerTyped
  <2>9. resume' \in Stage /\ ThawsKnown'
    BY <1>1, <2>1, <2>2 DEF ResumePhases, ThawsKnown
  <2>. QED
    BY <1>6, <2>4, <2>5, <2>7, <2>8, <2>9 DEF PlanRestarts, Kept, Typed, SlotsTyped, RowsTyped,
           InnerTyped, StepsTyped, ChildrenTyped
<1>7. CASE SigCont
  <2>1. child' \in [Sessions -> Children]
    <3>1. \A s \in Sessions : [child[s] EXCEPT !.halted = FALSE] \in Children
      BY DEF Typed, ChildrenTyped, Children
    <3>. QED
      BY <1>7, <3>1 DEF SigCont, Typed, ChildrenTyped
  <2>2. resume' \in Stage /\ ThawsKnown'
    BY <1>1, <1>7 DEF SigCont, ResumePhases, ThawsKnown
  <2>. QED
    BY <1>7, <2>1, <2>2 DEF SigCont, Kept, Typed, RowsTyped,
         InnerTyped, StepsTyped, ChildrenTyped, rowVars, innerVars
<1>8. CASE FinishThaws
  <2>1. NoFreeze \in Freezes /\ \A r \in Runs : frozen[r].at \in RunStates
    BY DEF NoFreeze, Freezes, RunStates, Typed, RowsTyped
  <2>2. state' \in [Runs -> RunStates] /\ frozen' \in [Runs -> Freezes]
    BY <1>8, <2>1 DEF FinishThaws, Typed, RowsTyped
  <2>3. resume' \in Stage /\ ThawsKnown'
    BY <1>1, <1>8 DEF FinishThaws, ResumePhases, ThawsKnown
  <2>4. paused' \subseteq Projects /\ frozenSessions' \subseteq Sessions
    BY <1>8 DEF FinishThaws, Typed, InnerTyped
  <2>. QED
    BY <1>8, <2>2, <2>3, <2>4 DEF FinishThaws, Kept, Typed, SlotsTyped, RowsTyped,
         InnerTyped, StepsTyped, ChildrenTyped, procVars
<1>9. CASE EndOldChildren
  <2>1. child' \in [Sessions -> Children]
    <3>1. \A s \in Sessions : HungUp(s) \in Children
      BY DEF HungUp, Typed, ChildrenTyped, Children
    <3>. QED
      BY <1>9, <3>1 DEF EndOldChildren, Typed, ChildrenTyped
  <2>2. resume' \in Stage /\ ThawsKnown'
    BY <1>1, <1>9 DEF EndOldChildren, ResumePhases, ThawsKnown
  <2>. QED
    BY <1>9, <2>1, <2>2 DEF EndOldChildren, Kept, Typed, RowsTyped,
         InnerTyped, StepsTyped, ChildrenTyped, rowVars, innerVars
<1>10. CASE RequeueTakesLock
  <2>1. {<<r, 0>> : r \in {r \in resume.runs : state[r] = "Interrupted"}} \subseteq Runs \X (0 .. MaxGen)
    BY <1>1, <1>2
  <2>2. resume' \in Stage /\ ThawsKnown'
    BY <1>1, <1>10, <2>1 DEF RequeueTakesLock, ResumePhases, ThawsKnown
  <2>. QED
    BY <1>10, <2>2 DEF RequeueTakesLock, Kept, Typed, RowsTyped,
         InnerTyped, StepsTyped, ChildrenTyped, rowVars, innerVars, procVars
<1>11. ASSUME NEW r \in Runs, RequeueOne(r) PROVE Kept
  <2>1. resume' \in Stage /\ ThawsKnown'
    BY <1>1, <1>11 DEF RequeueOne, ResumePhases, ThawsKnown
  <2>2. state' \in [Runs -> RunStates]
    BY <1>11 DEF RequeueOne, Typed, RowsTyped, RunStates
  <2>. QED
    BY <1>11, <2>1, <2>2 DEF RequeueOne, Kept, Typed, SlotsTyped, RowsTyped,
         InnerTyped, StepsTyped, ChildrenTyped, procVars
<1>12. CASE ResumeDone
  <2>1. resume' \in Stage /\ ThawsKnown'
    BY <1>12 DEF ResumeDone, NoResume, ResumePhases, ThawsKnown
  <2>. QED
    BY <1>12, <2>1 DEF ResumeDone, Kept, Typed, RowsTyped,
         InnerTyped, StepsTyped, ChildrenTyped, rowVars, innerVars, procVars
<1>. QED
  BY <1>3, <1>4, <1>5, <1>6, <1>7, <1>8, <1>9, <1>10, <1>11, <1>12 DEF Resumes

LEMMA NextTyped ==
  ASSUME Typed, ThawsKnown, SlotsTyped', [Next]_vars
  PROVE  Kept
<1>1. CASE Next
  BY <1>1, AdmissionTyped, StartsTyped, ChildTyped, ReactionsTyped, StopsTyped, FollowUpsTyped,
     PausesTyped, ResumesTyped DEF Next
<1>2. CASE UNCHANGED vars
  BY <1>2 DEF vars, Kept, Typed, ThawsKnown, RowsTyped, InnerTyped, StepsTyped, ChildrenTyped,
     rowVars, innerVars, procVars
<1>. QED
  BY <1>1, <1>2

------------------------------------------------------------------------------
(* The queues *)

\* Each place of a set of places is the k-th for one k.
LEMMA Places ==
  ASSUME NEW n \in Nat, NEW P \in SUBSET (1 .. n)
  PROVE  /\ Cardinality(P) \in Nat
         /\ \A k \in 1 .. Cardinality(P) : Place(P, k) \in P
         /\ \A k, l \in 1 .. Cardinality(P) : Place(P, k) = Place(P, l) => k = l
<1>. DEFINE rank == [i \in P |-> Cardinality(P \cap (1 .. i))]
            m == Cardinality(P)
<1>1. IsFiniteSet(P) /\ m \in Nat
  <2>1. IsFiniteSet(1 .. n)
    BY FS_Interval
  <2>. QED
    BY <2>1, FS_Subset, FS_CardinalityType
<1>2. ASSUME NEW i \in P
      PROVE  /\ IsFiniteSet(P \cap (1 .. i)) /\ rank[i] \in Nat /\ rank[i] <= m /\ rank[i] # 0
  <2>1. IsFiniteSet(P \cap (1 .. i)) /\ Cardinality(P \cap (1 .. i)) <= m
    BY <1>1, FS_Subset
  <2>2. i \in P \cap (1 .. i)
    OBVIOUS
  <2>. QED
    BY <2>1, <2>2, FS_CardinalityType, FS_EmptySet
<1>3. ASSUME NEW i \in P, NEW j \in P, i < j PROVE rank[i] # rank[j]
  <2>1. P \cap (1 .. i) \in SUBSET (P \cap (1 .. j)) /\ j \in P \cap (1 .. j) /\ j \notin P \cap (1 .. i)
    BY <1>3
  <2>2. P \cap (1 .. i) # P \cap (1 .. j)
    BY <2>1
  <2>. QED
    BY <1>2, <2>1, <2>2, FS_Subset
<1>4. rank \in Injection(P, 1 .. m)
  <2>1. rank \in [P -> 1 .. m]
    BY <1>1, <1>2
  <2>2. \A i, j \in P : rank[i] = rank[j] => i = j
    BY <1>3
  <2>. QED
    BY <2>1, <2>2 DEF Injection, IsInjective
<1>5. IsFiniteSet(1 .. m) /\ Cardinality(1 .. m) = m
  BY <1>1, FS_Interval
<1>6. rank \in Surjection(P, 1 .. m)
  BY <1>4, <1>5, FS_Injection
<1>7. \A k \in 1 .. m : \E i \in P : rank[i] = k
  BY <1>6 DEF Surjection
<1>8. ASSUME NEW k \in 1 .. m PROVE Place(P, k) \in P /\ rank[Place(P, k)] = k
  BY <1>7 DEF Place
<1>. QED
  BY <1>1, <1>8

\* Taking a run out of its queue leaves the others in it, and no occurrence of it.
LEMMA DequeuedLeaves ==
  ASSUME queues \in [Keys -> Seq(Runs)], NEW r \in Runs
  PROVE  /\ Dequeued(r) \in [Keys -> Seq(Runs)]
         /\ \A k \in Keys : \A i \in 1 .. Len(Dequeued(r)[k]) :
              /\ \E j \in 1 .. Len(queues[k]) : Dequeued(r)[k][i] = queues[k][j]
              /\ k = KeyOf[r] => Dequeued(r)[k][i] # r
<1>. DEFINE q == queues[KeyOf[r]]
            kept == {i \in 1 .. Len(q) : q[i] # r}
            rest == [k \in 1 .. Cardinality(kept) |-> q[Place(kept, k)]]
<1>1. KeyOf[r] \in Keys /\ q \in Seq(Runs) /\ Len(q) \in Nat /\ kept \in SUBSET (1 .. Len(q))
  BY Stamps DEF Stamps
<1>2. /\ Cardinality(kept) \in Nat
      /\ \A k \in 1 .. Cardinality(kept) : Place(kept, k) \in kept
  BY <1>1, Places
<1>3. rest \in Seq(Runs) /\ Len(rest) = Cardinality(kept)
  <2>. DEFINE n == Cardinality(kept)
  <2>1. \A k \in 1 .. n : q[Place(kept, k)] \in Runs
    <3>1. \A i \in kept : q[i] \in Runs
      BY <1>1
    <3>. HIDE DEF kept, q
    <3>. QED
      BY <1>2, <3>1
  <2>2. n \in Nat
    BY <1>2
  <2>. HIDE DEF n, kept
  <2>3. [k \in 1 .. n |-> q[Place(kept, k)]] \in Seq(Runs)
    BY <2>1, <2>2
  <2>4. Len([k \in 1 .. n |-> q[Place(kept, k)]]) = n
    BY <2>2
  <2>. QED
    BY <2>3, <2>4 DEF n
<1>4. \A i \in 1 .. Len(rest) : rest[i] # r /\ \E j \in 1 .. Len(q) : rest[i] = q[j]
  BY <1>1, <1>2, <1>3
<1>5. Dequeued(r) = [queues EXCEPT ![KeyOf[r]] = rest]
  BY DEF Dequeued
<1>. HIDE DEF rest, kept
<1>6. Dequeued(r) \in [Keys -> Seq(Runs)]
  BY <1>1, <1>3, <1>5
<1>7. ASSUME NEW k \in Keys, NEW i \in 1 .. Len(Dequeued(r)[k])
      PROVE  /\ \E j \in 1 .. Len(queues[k]) : Dequeued(r)[k][i] = queues[k][j]
             /\ k = KeyOf[r] => Dequeued(r)[k][i] # r
  <2>1. CASE k = KeyOf[r]
    BY <1>1, <1>4, <1>5, <2>1
  <2>2. CASE k # KeyOf[r]
    BY <1>1, <1>5, <2>2
  <2>. QED
    BY <2>1, <2>2
<1>. QED
  BY <1>6, <1>7

\* A queue only ever gains a run at one of its ends, or loses one.
LEMMA QueueSteps ==
  ASSUME Typed, [Next]_vars
  PROVE  queues' = queues \/ \E r \in Runs : queues' \in {PushBack(r), PushFront(r), Dequeued(r)}
<1>. DEFINE Goal == queues' = queues \/ \E r \in Runs : queues' \in {PushBack(r), PushFront(r), Dequeued(r)}
<1>1. CASE \E r \in Runs : Dispatch(r)
  BY <1>1 DEF Dispatch
<1>2. CASE Admission
  <2>1. CASE PumpVisits
    <3>1. pump.pass \in SUBSET Runs /\ pump.pass # {}
      BY <2>1 DEF PumpVisits, Typed, StepsTyped
    <3>2. PICK r \in Runs : Admit(r) \/ PassOver(r)
      BY <2>1, <3>1, OldestIsThere DEF PumpVisits
    <3>. QED
      BY <3>2 DEF Admit, PassOver
  <2>. QED
    BY <1>2, <2>1 DEF Admission, PumpStarts, PumpTurns, innerVars
<1>3. CASE Starts
  <2>1. ASSUME NEW r \in Runs, NEW g \in Gens, AbandonUnsubmitted(r, g) PROVE Goal
    BY <2>1 DEF AbandonUnsubmitted
  <2>2. ASSUME NEW r \in Runs, Bind(r) PROVE Goal
    BY <2>2 DEF Bind
  <2>3. ASSUME NEW r \in Runs, NEW g \in Gens,
               Fork(r, g) \/ BootFails(r, g) \/ OpeningGivesUp(r, g) \/ OpeningDone(r, g)
        PROVE  Goal
    BY <2>3 DEF Fork, BootFails, OpeningGivesUp, OpeningDone, innerVars
  <2>4. ASSUME NEW r \in Runs, NEW g \in 0 .. MaxGen, FinishFailed(r, g) PROVE Goal
    BY <2>4 DEF FinishFailed, FailedStart
  <2>5. PICK r \in Runs :
          \/ Bind(r)
          \/ \E g \in Gens : Fork(r, g) \/ BootFails(r, g) \/ AbandonUnsubmitted(r, g)
                           \/ OpeningGivesUp(r, g) \/ OpeningDone(r, g)
          \/ \E g \in 0 .. MaxGen : FinishFailed(r, g)
    BY <1>3 DEF Starts
  <2>. QED
    BY <2>1, <2>2, <2>3, <2>4, <2>5
<1>4. CASE ChildSteps
  BY <1>4 DEF ChildSteps, ChildReady, ChildTakesLine, ChildEndsTurn, ChildAsks, ChildAnswered,
              ChildFailsTurn, Turn, ChildExits, innerVars
<1>5. CASE Reactions
  BY <1>5 DEF Reactions, ApplyFrame, ExitRestarts, ExitDecided, ExternalStop, SigStop, innerVars
<1>6. CASE Stops
  BY <1>6 DEF Stops, PlanStop, CancelDequeues, CancelLands, KillLands, AskToWindDown, GraceRunsOut
<1>7. CASE FollowUps
  BY <1>7 DEF FollowUps, FollowUp, HeldFollowUp, UnchangedByFollowUp, Reserve, SendPrompt
<1>8. CASE Pauses
  BY <1>8 DEF Pauses, PauseRun, PauseProject, Freeze
<1>9. CASE Resumes
  <2>1. CASE ReclaimSlot
    <3>1. resume.todo # {} /\ resume.todo \subseteq Runs \X (0 .. MaxGen)
      BY <2>1 DEF ReclaimSlot, Typed, StepsTyped
    <3>2. NextThaw[1] \in Runs
      BY <3>1, NextThawIsThere
    <3>. QED
      BY <2>1, <3>2 DEF ReclaimSlot, ReclaimKeeps, ReclaimRequeues
  <2>2. CASE \E r \in Runs : RequeueOne(r)
    BY <2>2 DEF RequeueOne
  <2>. QED
    BY <1>9, <2>1, <2>2 DEF Resumes, Resume, ResumePlans, ReclaimTakesLock, PlanRestarts, SigCont,
       FinishThaws, EndOldChildren, RequeueTakesLock, ResumeDone, innerVars
<1>10. CASE UNCHANGED vars
  BY <1>10 DEF vars, innerVars
<1>. QED
  BY <1>1, <1>2, <1>3, <1>4, <1>5, <1>6, <1>7, <1>8, <1>9, <1>10 DEF Next

LEMMA QueuesTyped ==
  ASSUME Typed, queues \in [Keys -> Seq(Runs)], [Next]_vars
  PROVE  queues' \in [Keys -> Seq(Runs)]
<1>1. CASE queues' = queues
  BY <1>1
<1>2. ASSUME NEW r \in Runs, queues' \in {PushBack(r), PushFront(r), Dequeued(r)}
      PROVE  queues' \in [Keys -> Seq(Runs)]
  <2>1. KeyOf[r] \in Keys /\ queues[KeyOf[r]] \in Seq(Runs) /\ <<r>> \in Seq(Runs)
    BY Stamps DEF Stamps
  <2>2. /\ Append(queues[KeyOf[r]], r) \in Seq(Runs)
        /\ <<r>> \o queues[KeyOf[r]] \in Seq(Runs)
    BY <2>1
  <2>3. PushBack(r) \in [Keys -> Seq(Runs)] /\ PushFront(r) \in [Keys -> Seq(Runs)]
    BY <2>1, <2>2 DEF PushBack, PushFront
  <2>. QED
    BY <1>2, <2>3, DequeuedLeaves
<1>. QED
  BY <1>1, <1>2, QueueSteps

------------------------------------------------------------------------------
(* The theorems *)

LEMMA InitInv == Init => IInv
<1>. SUFFICES ASSUME Init PROVE IInv
  OBVIOUS
<1>1. 0 \in 0 .. MaxGen /\ 1 \in 0 .. MaxGen
  BY Limits DEF Limits
<1>2. Cardinality(Restored) \in Nat
  BY RunsAreFinite, FS_Subset, FS_CardinalityType DEF RunsAreFinite
<1>3. NoFreeze \in Freezes /\ {"Interrupted", "None", "Starting"} \subseteq RunStates
  BY DEF NoFreeze, Freezes, RunStates, Over
<1>4. NoChild \in Children /\ [NoChild EXCEPT !.st = "gone"] \in Children
  BY DEF NoChild, Children
<1>5. RowsTyped
  <2>1. seq \in [Runs -> Nat]
    BY <1>2 DEF Init
  <2>. QED
    BY <1>1, <1>3, <2>1 DEF Init, RowsTyped, StopHow
<1>6. InnerTyped
  BY DEF Init, InnerTyped
<1>7. StepsTyped
  <2>1. IdlePump \in [on : BOOLEAN, pass : SUBSET Runs, moved : BOOLEAN]
    BY DEF IdlePump
  <2>2. NoResume \in [phase : ResumePhases, whole : BOOLEAN, runs : SUBSET Runs,
                      todo : SUBSET (Runs \X (0 .. MaxGen)), thaws : SUBSET Sessions,
                      ends : SUBSET Sessions]
    BY DEF NoResume, ResumePhases
  <2>. QED
    BY <2>1, <2>2 DEF Init, StepsTyped
<1>8. ChildrenTyped
  <2>1. child \in [Sessions -> Children] /\ minted \in [Runs -> 0 .. MaxGen]
    BY <1>1, <1>4 DEF Init
  <2>2. frames \in [Sessions -> Seq(Frames)]
    BY DEF Init
  <2>. QED
    BY <2>1, <2>2, BudgetsAreNat DEF Init, ChildrenTyped, BudgetsAreNat
<1>9. ThawsKnown
  BY DEF Init, NoResume, ThawsKnown
<1>10. SlotsCovered
  <2>1. \A k \in Keys : Holders(k) = {} /\ agentSlots[k] = 0
    BY DEF Init, Holders
  <2>2. \A p \in Projects : ProjectHolders(p) = {} /\ projectSlots[p] = 0
    BY DEF Init, ProjectHolders
  <2>3. Cardinality({}) = 0
    BY FS_EmptySet
  <2>4. \A k \in Keys : Cardinality(Holders(k)) = 0
    BY <2>1, <2>3
  <2>5. \A p \in Projects : Cardinality(ProjectHolders(p)) = 0
    BY <2>2, <2>3
  <2>. QED
    BY <2>1, <2>2, <2>4, <2>5 DEF SlotsCovered
<1>11. queues \in [Keys -> Seq(Runs)]
  BY DEF Init
<1>. QED
  BY <1>5, <1>6, <1>7, <1>8, <1>9, <1>10, <1>11 DEF IInv, TypeOK

LEMMA NextInv == IInv /\ [Next]_vars => IInv'
<1>. SUFFICES ASSUME IInv, [Next]_vars PROVE IInv'
  OBVIOUS
<1>1. Typed /\ ThawsKnown /\ SlotsCovered /\ SlotsTyped /\ queues \in [Keys -> Seq(Runs)]
  BY DEF IInv, TypeOK, Typed, SlotsTyped, RowsTyped, InnerTyped
<1>2. SlotsTyped' /\ SlotsCovered'
  <2>1. CASE UNCHANGED slotVars
    BY <1>1, <2>1 DEF slotVars, SlotsTyped, SlotsCovered, Holders, ProjectHolders
  <2>2. CASE \E r \in Runs : TakeSlot(r) \/ GiveSlot(r)
    BY <1>1, <2>2, TakeSlotCovers, GiveSlotCovers
  <2>3. CASE \E S \in SUBSET Runs : Freeze(S)
    BY <1>1, <2>3, FreezeCovers
  <2>4. UNCHANGED vars => UNCHANGED slotVars
    BY DEF vars, rowVars, innerVars, slotVars
  <2>. QED
    BY <1>1, <2>1, <2>2, <2>3, <2>4, SlotSteps
<1>3. queues' \in [Keys -> Seq(Runs)]
  BY <1>1, QueuesTyped
<1>. QED
  BY <1>1, <1>2, <1>3, NextTyped DEF IInv, Kept, TypeOK, Typed

\* Every table of the registry keeps its type: rows, queues, slot tables, the admission
\* loop, `resume`, what each operation has left to do, and the children.
THEOREM RegistryTyped == Spec => []TypeOK
<1>1. Spec => []IInv
  BY InitInv, NextInv, PTL DEF Spec
<1>2. IInv => TypeOK
  BY DEF IInv
<1>. QED
  BY <1>1, <1>2, PTL

\* The counters of concurrency slots never say less than the runs that hold one,
\* for any number of runs, roles, projects and limits, and through any interleaving
\* of admission, hand-back, block, exit, Stop, Pause, Resume and restart.
THEOREM SlotsNeverUndercount == Spec => []SlotsCovered
<1>1. Spec => []IInv
  BY InitInv, NextInv, PTL DEF Spec
<1>2. IInv => SlotsCovered
  BY DEF IInv
<1>. QED
  BY <1>1, <1>2, PTL

\* While the admission loop holds the lock, only one of its visits changes a row.
LEMMA OnlyAdmissionMoves ==
  ASSUME Typed, Next, pump.on
  PROVE  \/ UNCHANGED state
         \/ \E r \in Runs : HasRoom(r) /\ state' = [state EXCEPT ![r] = "Starting"]
<1>1. CASE PumpVisits
  <2>1. pump.pass \in SUBSET Runs /\ pump.pass # {}
    BY <1>1 DEF PumpVisits, Typed, StepsTyped
  <2>2. PICK r \in Runs : Admit(r) \/ PassOver(r)
    BY <1>1, <2>1, OldestIsThere DEF PumpVisits
  <2>. QED
    BY <2>2 DEF Admit, Admits, PassOver
<1>2. CASE PumpStarts \/ PumpTurns \/ \E r \in Runs : Dispatch(r)
  BY <1>2 DEF PumpStarts, PumpTurns, Dispatch, Unlocked, rowVars
<1>3. CASE Starts
  BY <1>3 DEF Starts, Bind, Fork, BootFails, AbandonUnsubmitted, OpeningGivesUp, OpeningDone,
              FinishFailed, FailedStart, Unlocked, rowVars
<1>4. CASE ChildSteps
  BY <1>4 DEF ChildSteps, ChildReady, ChildTakesLine, ChildEndsTurn, ChildAsks, ChildAnswered,
              ChildFailsTurn, Turn, ChildExits, rowVars
<1>5. CASE Reactions
  BY <1>5 DEF Reactions, ApplyFrame, ExitRestarts, ExitDecided, ExternalStop, SigStop, Unlocked
<1>6. CASE Stops
  BY <1>6 DEF Stops, PlanStop, CancelDequeues, CancelLands, KillLands, AskToWindDown,
              GraceRunsOut, Unlocked
<1>7. CASE FollowUps
  BY <1>7 DEF FollowUps, FollowUp, HeldFollowUp, Reserve, SendPrompt, Unlocked
<1>8. CASE Pauses
  BY <1>8 DEF Pauses, PauseRun, PauseProject, Unlocked
<1>9. CASE Resumes
  BY <1>9 DEF Resumes, Resume, ResumePlans, ReclaimTakesLock, ReclaimSlot, PlanRestarts, SigCont,
              FinishThaws, EndOldChildren, RequeueTakesLock, RequeueOne, ResumeDone, Unlocked
<1>. QED
  BY <1>1, <1>2, <1>3, <1>4, <1>5, <1>6, <1>7, <1>8, <1>9 DEF Next, Admission

\* The admission loop never starts a run while as many runs as its stamped limits
\* already hold a slot of its role or of its project: the counters it reads are at
\* or above the runs they count (SlotsCovered), so room on the counter is room.
THEOREM AdmissionUnderTheCaps == Spec => AdmittedUnderTheCaps
<1>. DEFINE A == \A r \in Runs : pump.on /\ state'[r] # state[r] =>
                   /\ Cardinality(Holders(KeyOf[r])) < AgentLimit[r]
                   /\ Cardinality(ProjectHolders(ProjectOf[r])) < ProjectLimit[r]
<1>1. IInv /\ [Next]_vars => A
  <2>. SUFFICES ASSUME IInv, [Next]_vars, NEW r \in Runs, pump.on, state'[r] # state[r]
                PROVE  /\ Cardinality(Holders(KeyOf[r])) < AgentLimit[r]
                       /\ Cardinality(ProjectHolders(ProjectOf[r])) < ProjectLimit[r]
    OBVIOUS
  <2>1. Next /\ Typed
    BY DEF IInv, TypeOK, Typed, vars, rowVars
  <2>2. HasRoom(r)
    <3>1. PICK q \in Runs : HasRoom(q) /\ state' = [state EXCEPT ![q] = "Starting"]
      BY <2>1, OnlyAdmissionMoves
    <3>2. q = r
      BY <2>1, <3>1 DEF Typed, RowsTyped
    <3>. QED
      BY <3>1, <3>2
  <2>3. KeyOf[r] \in Keys /\ ProjectOf[r] \in Projects
    BY Stamps DEF Stamps
  <2>4. /\ Cardinality(Holders(KeyOf[r])) <= agentSlots[KeyOf[r]]
        /\ Cardinality(ProjectHolders(ProjectOf[r])) <= projectSlots[ProjectOf[r]]
    BY <2>3 DEF IInv, SlotsCovered
  <2>5. /\ Cardinality(Holders(KeyOf[r])) \in Nat
        /\ Cardinality(ProjectHolders(ProjectOf[r])) \in Nat
    BY <2>3, HoldersHold, HoldIsFinite
  <2>6. /\ agentSlots[KeyOf[r]] \in Nat /\ projectSlots[ProjectOf[r]] \in Nat
        /\ AgentLimit[r] \in Nat /\ ProjectLimit[r] \in Nat
    BY <2>1, <2>3, Limits DEF Typed, InnerTyped, Limits
  <2>. QED
    BY <2>2, <2>4, <2>5, <2>6 DEF HasRoom
<1>2. Spec => []IInv
  BY InitInv, NextInv, PTL DEF Spec
<1>. QED
  BY <1>1, <1>2, PTL DEF Spec, AdmittedUnderTheCaps
==============================================================================
