-------------------------- MODULE DiffBrokerProofs --------------------------
(***************************************************************************)
(* Theorems of DiffBroker for any requests, connections, owners and        *)
(* channel: its types, that no agent waits for a person who has nothing to *)
(* answer, that tabs can be withdrawn, and that every call is one of       *)
(* DiffCalls.                                                              *)
(***************************************************************************)
EXTENDS DiffBroker, TLAPS

\* A request waits exactly while its call has registered and has no verdict
CallsOK == \A r \in Requests:
    /\ task[r] = "done" <=> answer[r] # "none"
    /\ r \in pending => task[r] \in {"announcing", "waiting"} /\ reply[r] = "none"
    /\ task[r] \in {"announcing", "waiting"} /\ r \notin pending => reply[r] # "none"
    /\ reply[r] # "none" => task[r] \in {"announcing", "waiting", "done"}

\* A close_tab has the tabs of its own connection in hand
ClosingOK == \A c \in Conns:
    /\ closing[c].left \subseteq closing[c].told
    /\ closing[c].told \subseteq {r \in Requests: Owner[r] = c}

\* A tab is given up once, and only after it was named
TabOf(r) ==
    /\ r \in tabs => task[r] \notin {"unsent", "read"}
    /\ BeingTakenDown(r) => r \notin tabs /\ task[r] \notin {"unsent", "read"}
    /\ r \in closing[Owner[r]].left /\ task[r] # "done" => r \notin telling /\ ~Queued("withdrawn", r)

\* What was announced and waits can be withdrawn, or is about to be
WaitingOf(r) ==
    r \in pending /\ r \notin loose /\ task[r] = "waiting" =>
        r \in tabs \/ r \in closing[Owner[r]].left

\* A tab is of a request that was announced, and not twice
QueuedOf(r) ==
    /\ Queued("requested", r) \/ screen[r] # "none" => task[r] \in {"waiting", "done"}
    /\ screen[r] # "none" => ~Queued("requested", r)

\* A tab on the screen, or on its way there, can be taken down
ScreenOf(r) ==
    r \notin loose /\ (screen[r] # "none" \/ Queued("requested", r)) => r \in tabs \/ BeingTakenDown(r)

\* Someone will refuse it; what a closing project has read is not yet refused
Refusing(r) == \/ \E o \in Requests: r \in older[o]
               \/ r \in closing[Owner[r]].left \/ r \in dropping[Owner[r]]
               \/ r \in leaving /\ stage # "leaving"
               \/ r \in stopping
               \/ stage \in {"left", "closing"}

PendingOf(r) ==
    r \in pending /\ r \notin loose =>
        task[r] = "announcing" \/ Queued("requested", r) \/ screen[r] # "none" \/ Refusing(r)

\* The tabs of what is being cancelled are gone for good
LeavingOf(r) ==
    r \in leaving => /\ task[r] \in {"waiting", "done"} /\ ~Queued("requested", r)
                     /\ stage \in {"up", "left"} => screen[r] = "none"

\* What a call is to supersede it has found, and refuses before it registers
OlderOf(r) == task[r] # "superseding" => older[r] = {}

KeptOf(r) == /\ TabOf(r) /\ WaitingOf(r) /\ QueuedOf(r) /\ ScreenOf(r)
             /\ PendingOf(r) /\ LeavingOf(r) /\ OlderOf(r)

\* A request is announced once, and its withdrawal comes after it
OrderOK == \A r \in Requests: \A i, j \in 1..Len(queue):
    queue[i] = Event("requested", r) =>
        /\ queue[j] = Event("requested", r) => i = j
        /\ queue[j] = Event("withdrawn", r) /\ r \notin loose => i < j

\* Calls are cancelled after the project is gone
StageOK == stage = "left" => ~project

Kept == ClosingOK /\ StageOK /\ \A r \in Requests: KeptOf(r)

IInv == TypeOK /\ CallsOK /\ OrderOK /\ Kept

---------------------------------------------------------------------------
(* Types *)

Events == [kind: {"requested", "withdrawn"}, id: Requests]

\* What is appended to the channel, and what is taken from it
LEMMA QueueTyped ==
  ASSUME queue \in Seq(Events)
  PROVE  /\ \A e \in Events: Append(queue, e) \in Seq(Events) /\ Len(Append(queue, e)) = Len(queue) + 1
         /\ queue # <<>> => /\ Head(queue) \in Events /\ Tail(queue) \in Seq(Events)
                            /\ Len(Tail(queue)) = Len(queue) - 1
  OBVIOUS

\* An event of either kind is an event
LEMMA EventTyped ==
  ASSUME NEW r \in Requests
  PROVE  Event("requested", r) \in Events /\ Event("withdrawn", r) \in Events
  BY DEF Event, Events

\* Room for one more, and no more
LEMMA RoomIsOne ==
  ASSUME TypeOK, Room
  PROVE  Len(queue) + 1 <= EventCapacity
  BY ConstantsAssumption DEF TypeOK, Room, ConstantsAssumption

\* The owner of a request is a connection
LEMMA OwnerTyped ==
  ASSUME NEW r \in Requests
  PROVE  Owner[r] \in Conns
  BY ConstantsAssumption DEF ConstantsAssumption

\* A verdict, whoever gives it
LEMMA VerdictTyped ==
  ASSUME TypeOK, NEW r \in Requests, NEW v \in Verdicts, Verdict(r, v)
  PROVE  reply' \in [Requests -> Verdicts \union {"none"}] /\ pending' \subseteq Requests
  BY DEF TypeOK, Verdict

\* A refusal is one
LEMMA RefusalTyped ==
  ASSUME TypeOK, NEW r \in Requests, Refused(r)
  PROVE  reply' \in [Requests -> Verdicts \union {"none"}] /\ pending' \subseteq Requests
  BY VerdictTyped DEF Refused, Verdicts

\* A call's steps keep the types
LEMMA CallTyped ==
  ASSUME TypeOK, NEW r \in Requests, Reads(r) \/ CallStep(r)
  PROVE  TypeOK'
<1>. USE DEF calls, broker, events, clients, person, noted
<1>1. CASE Reads(r)
  BY <1>1 DEF Reads, TypeOK, Tasks
<1>2. CASE NamesTab(r)
  BY <1>2 DEF NamesTab, TypeOK, Tasks
<1>3. CASE LooksForOlder(r)
  BY <1>3 DEF LooksForOlder, TypeOK, Tasks
<1>4. ASSUME NEW o \in Requests, Supersedes(r, o) PROVE TypeOK'
  BY <1>4, RefusalTyped DEF Supersedes, TypeOK
<1>5. CASE Registers(r)
  BY <1>5 DEF Registers, TypeOK, Tasks
<1>6. CASE Announces(r)
  <2>1. queue' \in Seq(Events) /\ Len(queue') <= EventCapacity
    BY <1>6, QueueTyped, EventTyped, RoomIsOne DEF Announces, TypeOK, Events
  <2>. QED
    BY <1>6, <2>1 DEF Announces, TypeOK, Tasks, Events
<1>7. CASE Returns(r)
  BY <1>7 DEF Returns, TypeOK, Tasks
<1>8. CASE IsStopped(r)
  BY <1>8, RefusalTyped DEF IsStopped, Drops, Withdrawn, TypeOK, Tasks
<1>9. CASE Notifies(r)
  <2>1. queue' \in Seq(Events) /\ Len(queue') <= EventCapacity
    BY <1>9, QueueTyped, EventTyped, RoomIsOne DEF Notifies, TypeOK, Events
  <2>. QED
    BY <1>9, <2>1 DEF Notifies, TypeOK, Events
<1>10. CASE CancelsClosed(r)
  BY <1>10, RefusalTyped DEF CancelsClosed, TypeOK
<1>11. CASE CancelsAtShutdown(r)
  BY <1>11, RefusalTyped DEF CancelsAtShutdown, TypeOK
<1>. QED
  BY <1>1, <1>2, <1>3, <1>4, <1>5, <1>6, <1>7, <1>8, <1>9, <1>10, <1>11 DEF CallStep

\* The steps of a connection's end and of its close_tab keep the types
LEMMA ConnTyped ==
  ASSUME TypeOK, NEW c \in Conns,
         \/ ConnStep(c) \/ SessionCloses(c) \/ SocketEnds(c) \/ GivesUpTelling(c)
         \/ \E names \in SUBSET Names: ClosesTabs(c, names)
  PROVE  TypeOK'
<1>. USE DEF calls, broker, events, clients, person, noted
<1>1. CASE SocketRunsDry(c) \/ SocketEnds(c)
  BY <1>1 DEF SocketRunsDry, SocketEnds, TypeOK
<1>2. CASE Disconnects(c)
  BY <1>2 DEF Disconnects, Of, TypeOK
<1>3. ASSUME NEW r \in Requests, WithdrawsTab(c, r) PROVE TypeOK'
  BY <1>3, RefusalTyped DEF WithdrawsTab, Withdrawn, TypeOK
<1>4. ASSUME NEW r \in Requests, TellsOfTab(c, r) PROVE TypeOK'
  <2>1. queue' \in Seq(Events) /\ Len(queue') <= EventCapacity
    BY <1>4, QueueTyped, EventTyped, RoomIsOne DEF TellsOfTab, TypeOK, Events
  <2>. QED
    BY <1>4, <2>1 DEF TellsOfTab, TypeOK, Events
<1>5. ASSUME NEW r \in Requests, CancelsOrphan(c, r) PROVE TypeOK'
  BY <1>5, RefusalTyped DEF CancelsOrphan, TypeOK
<1>6. CASE SessionCloses(c)
  BY <1>6 DEF SessionCloses, Takes, Of, TypeOK
<1>7. CASE GivesUpTelling(c)
  BY <1>7 DEF GivesUpTelling, Idle, TypeOK
<1>8. ASSUME NEW names \in SUBSET Names, ClosesTabs(c, names) PROVE TypeOK'
  BY <1>8 DEF ClosesTabs, Takes, Of, TypeOK
<1>. QED
  BY <1>1, <1>2, <1>3, <1>4, <1>5, <1>6, <1>7, <1>8 DEF ConnStep

\* The pump keeps the types
LEMMA PumpTyped ==
  ASSUME TypeOK, OpensTab \/ TakesTabDown
  PROVE  TypeOK'
<1>. USE DEF calls, broker, events, clients, person, noted
<1>1. Head1 \in Events /\ Head1.id \in Requests
  BY QueueTyped DEF OpensTab, TakesTabDown, TypeOK, Head1, Events
<1>2. queue' \in Seq(Events) /\ Len(queue') <= EventCapacity
  <2>1. queue # <<>> /\ queue' = Tail(queue)
    BY DEF OpensTab, TakesTabDown
  <2>2. queue \in Seq(Events) /\ Len(queue) <= EventCapacity
    BY DEF TypeOK, Events
  <2>3. queue' \in Seq(Events) /\ Len(queue') = Len(queue) - 1
    BY <2>1, <2>2, QueueTyped
  <2>4. Len(queue) \in Nat
    BY <2>2
  <2>. QED
    BY <2>2, <2>3, <2>4, ConstantsAssumption DEF ConstantsAssumption
<1>3. CASE OpensTab
  <2>1. CASE project
    <3>1. /\ screen' = [screen EXCEPT ![Head1.id] = "shown"]
          /\ UNCHANGED <<pending, reply, task, older, answer, tabs, telling>>
          /\ UNCHANGED <<clients, person, noted>>
      BY <1>3, <2>1 DEF OpensTab
    <3>. QED
      BY <1>1, <1>2, <3>1 DEF TypeOK, Events
  <2>2. CASE ~project
    BY <1>1, <1>2, <1>3, <2>2, RefusalTyped DEF OpensTab, TypeOK, Events
  <2>. QED
    BY <2>1, <2>2
<1>4. CASE TakesTabDown
  BY <1>1, <1>2, <1>4 DEF TakesTabDown, TypeOK, Events
<1>. QED
  BY <1>3, <1>4

\* What the person does to a request keeps the types
LEMMA PersonTyped ==
  ASSUME TypeOK, NEW r \in Requests,
         \/ ClosesTab(r) \/ ClosesPane(r) \/ IsCancelled(r)
         \/ \E v \in Verdicts: Answers(r, v)
  PROVE  TypeOK'
<1>. USE DEF calls, broker, events, clients, person, noted
<1>1. CASE ClosesTab(r)
  BY <1>1 DEF ClosesTab, TypeOK
<1>2. CASE ClosesPane(r)
  BY <1>2 DEF ClosesPane, TypeOK
<1>3. CASE IsCancelled(r)
  BY <1>3, RefusalTyped DEF IsCancelled, Drops, Withdrawn, TypeOK, Tasks
<1>4. ASSUME NEW v \in Verdicts, Answers(r, v) PROVE TypeOK'
  BY <1>4, VerdictTyped DEF Answers, TypeOK
<1>. QED
  BY <1>1, <1>2, <1>3, <1>4

\* Closing the project and shutting down keep the types
LEMMA ClosingTyped ==
  ASSUME TypeOK,
         \/ ReadsDiffs \/ ClosesProject \/ StaysOpen \/ ShutsDown \/ SweepsAll
         \/ ClearsConnections \/ HasDrained \/ DrainTimesOut
  PROVE  TypeOK'
  BY DEF ReadsDiffs, ClosesProject, StaysOpen, ShutsDown, SweepsAll, ClearsConnections,
         HasDrained, DrainTimesOut, Drains, TypeOK, Stages, calls, broker, events, clients,
         person, noted

\* The steps there are, for what is proved of each
LEMMA Steps ==
  ASSUME Next
  PROVE  \/ \E r \in Requests: \/ Reads(r) \/ CallStep(r) \/ ClosesTab(r) \/ ClosesPane(r)
                               \/ IsCancelled(r) \/ \E v \in Verdicts: Answers(r, v)
         \/ \E c \in Conns: \/ ConnStep(c) \/ SessionCloses(c) \/ SocketEnds(c) \/ GivesUpTelling(c)
                            \/ \E names \in SUBSET Names: ClosesTabs(c, names)
         \/ OpensTab \/ TakesTabDown
         \/ ReadsDiffs \/ ClosesProject \/ StaysOpen \/ ShutsDown \/ SweepsAll
         \/ ClearsConnections \/ HasDrained \/ DrainTimesOut
  BY DEF Next, Threads, World

\* Every step keeps the types
LEMMA StepTyped == TypeOK /\ [Next]_vars => TypeOK'
<1>1. ASSUME TypeOK, Next PROVE TypeOK'
  BY <1>1, Steps, CallTyped, ConnTyped, PumpTyped, PersonTyped, ClosingTyped
<1>2. ASSUME TypeOK, UNCHANGED vars PROVE TypeOK'
  BY <1>2 DEF vars, calls, broker, events, clients, person, noted, TypeOK
<1>. QED
  BY <1>1, <1>2

---------------------------------------------------------------------------
(* Every call is one of DiffCalls *)

\* A verdict keeps CallsOK
LEMMA VerdictCalls ==
  ASSUME TypeOK, CallsOK, NEW r \in Requests, NEW v \in Verdicts, Verdict(r, v),
         UNCHANGED <<task, answer>>
  PROVE  CallsOK'
  BY DEF TypeOK, CallsOK, Verdict, Verdicts

\* and so does a refusal
LEMMA RefusalCalls ==
  ASSUME TypeOK, CallsOK, NEW r \in Requests, Refused(r), UNCHANGED <<task, answer>>
  PROVE  CallsOK'
  BY VerdictCalls DEF Refused, Verdicts

\* A call that is dropped, too
LEMMA DropCalls ==
  ASSUME TypeOK, CallsOK, NEW r \in Requests, Drops(r)
  PROVE  CallsOK'
  BY DEF TypeOK, CallsOK, Drops, Withdrawn, Refused, Verdict

\* A step that touches no call
LEMMA OtherCalls ==
  ASSUME CallsOK, UNCHANGED <<task, answer, reply, pending>>
  PROVE  CallsOK'
  BY DEF CallsOK

\* Every step keeps CallsOK
LEMMA CallsStep ==
  ASSUME TypeOK, CallsOK, Next
  PROVE  CallsOK'
<1>. USE DEF calls, broker, events, clients, person, noted
<1>1. ASSUME NEW r \in Requests, Reads(r) \/ CallStep(r) PROVE CallsOK'
  <2>1. CASE Reads(r)
    BY <2>1 DEF Reads, TypeOK, CallsOK
  <2>2. CASE NamesTab(r)
    BY <2>2 DEF NamesTab, TypeOK, CallsOK
  <2>3. CASE LooksForOlder(r)
    BY <2>3 DEF LooksForOlder, TypeOK, CallsOK
  <2>4. ASSUME NEW o \in Requests, Supersedes(r, o) PROVE CallsOK'
    BY <2>4, RefusalCalls DEF Supersedes
  <2>5. CASE Registers(r)
    BY <2>5 DEF Registers, TypeOK, CallsOK
  <2>6. CASE Announces(r)
    BY <2>6 DEF Announces, TypeOK, CallsOK
  <2>7. CASE Returns(r)
    BY <2>7 DEF Returns, TypeOK, CallsOK
  <2>8. CASE IsStopped(r)
    BY <2>8, DropCalls DEF IsStopped
  <2>9. CASE Notifies(r)
    BY <2>9, OtherCalls DEF Notifies
  <2>10. CASE CancelsClosed(r)
    BY <2>10, RefusalCalls DEF CancelsClosed
  <2>11. CASE CancelsAtShutdown(r)
    BY <2>11, RefusalCalls DEF CancelsAtShutdown
  <2>. QED
    BY <1>1, <2>1, <2>2, <2>3, <2>4, <2>5, <2>6, <2>7, <2>8, <2>9, <2>10, <2>11 DEF CallStep
<1>2. ASSUME NEW c \in Conns, NEW r \in Requests, WithdrawsTab(c, r) PROVE CallsOK'
  BY <1>2, RefusalCalls DEF WithdrawsTab, Withdrawn
<1>3. ASSUME NEW c \in Conns, NEW r \in Requests, CancelsOrphan(c, r) PROVE CallsOK'
  BY <1>3, RefusalCalls DEF CancelsOrphan
<1>4. ASSUME NEW c \in Conns,
             \/ SocketRunsDry(c) \/ Disconnects(c) \/ \E r \in Requests: TellsOfTab(c, r)
             \/ SessionCloses(c) \/ SocketEnds(c) \/ GivesUpTelling(c)
             \/ \E names \in SUBSET Names: ClosesTabs(c, names)
      PROVE  CallsOK'
  BY <1>4, OtherCalls DEF SocketRunsDry, Disconnects, TellsOfTab, SessionCloses, SocketEnds,
     GivesUpTelling, ClosesTabs
<1>5. ASSUME NEW r \in Requests, ClosesTab(r) \/ ClosesPane(r) PROVE CallsOK'
  BY <1>5, OtherCalls DEF ClosesTab, ClosesPane
<1>6. ASSUME NEW r \in Requests, IsCancelled(r) PROVE CallsOK'
  BY <1>6, DropCalls DEF IsCancelled
<1>7. ASSUME NEW r \in Requests, NEW v \in Verdicts, Answers(r, v) PROVE CallsOK'
  BY <1>7, VerdictCalls DEF Answers
<1>8. CASE OpensTab
  <2>1. Head1.id \in Requests
    BY <1>8, QueueTyped DEF OpensTab, TypeOK, Head1, Events
  <2>2. UNCHANGED <<task, answer>>
    BY <1>8 DEF OpensTab
  <2>3. UNCHANGED <<pending, reply>> \/ Refused(Head1.id)
    BY <1>8 DEF OpensTab
  <2>. QED
    BY <2>1, <2>2, <2>3, RefusalCalls, OtherCalls
<1>9. CASE TakesTabDown
  BY <1>9, OtherCalls DEF TakesTabDown
<1>10. CASE \/ ReadsDiffs \/ ClosesProject \/ StaysOpen \/ ShutsDown \/ SweepsAll
            \/ ClearsConnections \/ HasDrained \/ DrainTimesOut
  BY <1>10, OtherCalls DEF ReadsDiffs, ClosesProject, StaysOpen, ShutsDown, SweepsAll,
     ClearsConnections, HasDrained, DrainTimesOut, Drains
<1>. QED
  BY <1>1, <1>2, <1>3, <1>4, <1>5, <1>6, <1>7, <1>8, <1>9, <1>10, Steps DEF ConnStep

\* A verdict is a decision of DiffCalls, or nothing
LEMMA VerdictDecides ==
  ASSUME TypeOK, CallsOK, NEW r \in Requests, NEW v \in Verdicts, Verdict(r, v),
         v = "accepted" => screen[r] = "shown",
         UNCHANGED <<answer, screen>>
  PROVE  [Calls!Next]_Calls!vars
<1>1. CASE r \notin pending
  BY <1>1 DEF Verdict, Calls!vars
<1>2. CASE r \in pending
  <2>1. reply[r] = "none" /\ answer[r] = "none"
    BY <1>2 DEF CallsOK
  <2>2. Calls!Decides(r, v)
    BY <1>2, <2>1 DEF Verdict, Calls!Decides, Calls!Decided
  <2>. QED
    BY <2>2 DEF Calls!Next, Calls!Verdicts, Verdicts
<1>. QED
  BY <1>1, <1>2

\* A refusal needs no diff on the screen
LEMMA RefusalDecides ==
  ASSUME TypeOK, CallsOK, NEW r \in Requests, Refused(r), UNCHANGED <<answer, screen>>
  PROVE  [Calls!Next]_Calls!vars
  BY VerdictDecides DEF Refused, Verdicts

\* A dropped call is abandoned, its request refused if it still waits
LEMMA DropAbandons ==
  ASSUME TypeOK, CallsOK, NEW r \in Requests, Drops(r)
  PROVE  [Calls!Next]_Calls!vars
<1>1. answer[r] = "none" /\ answer' = [answer EXCEPT ![r] = "error"] /\ UNCHANGED screen
  BY DEF Drops, CallsOK
<1>2. \/ reply[r] = "none" /\ reply' = [reply EXCEPT ![r] = "rejected"]
      \/ reply[r] # "none" /\ UNCHANGED reply
  BY DEF Drops, Withdrawn, Refused, Verdict, CallsOK
<1>3. Calls!Abandoned(r)
  BY <1>1, <1>2 DEF Calls!Abandoned, Calls!Decided
<1>. QED
  BY <1>3 DEF Calls!Next

\* A step that gives no verdict and returns no call
LEMMA OtherRearranges ==
  ASSUME UNCHANGED <<reply, answer>>
  PROVE  [Calls!Next]_Calls!vars
  BY DEF Calls!Next, Calls!Rearranged

\* Every step is one of DiffCalls
LEMMA CallsRefined ==
  ASSUME TypeOK, CallsOK, Next
  PROVE  [Calls!Next]_Calls!vars
<1>. USE DEF calls, broker, events, clients, person, noted
<1>1. ASSUME NEW r \in Requests, Reads(r) \/ CallStep(r) PROVE [Calls!Next]_Calls!vars
  <2>1. CASE Reads(r) \/ NamesTab(r) \/ LooksForOlder(r) \/ Registers(r) \/ Announces(r) \/ Notifies(r)
    BY <2>1, OtherRearranges DEF Reads, NamesTab, LooksForOlder, Registers, Announces, Notifies
  <2>2. ASSUME NEW o \in Requests, Supersedes(r, o) PROVE [Calls!Next]_Calls!vars
    BY <2>2, RefusalDecides DEF Supersedes
  <2>3. CASE Returns(r)
    <3>1. reply[r] # "none" /\ answer[r] = "none"
      BY <2>3 DEF Returns, CallsOK
    <3>2. Calls!Returns(r)
      BY <2>3, <3>1 DEF Returns, Calls!Returns
    <3>. QED
      BY <3>2 DEF Calls!Next
  <2>4. CASE IsStopped(r)
    BY <2>4, DropAbandons DEF IsStopped
  <2>5. CASE CancelsClosed(r)
    BY <2>5, RefusalDecides DEF CancelsClosed
  <2>6. CASE CancelsAtShutdown(r)
    BY <2>6, RefusalDecides DEF CancelsAtShutdown
  <2>. QED
    BY <1>1, <2>1, <2>2, <2>3, <2>4, <2>5, <2>6 DEF CallStep
<1>2. ASSUME NEW c \in Conns, NEW r \in Requests, WithdrawsTab(c, r) PROVE [Calls!Next]_Calls!vars
  BY <1>2, RefusalDecides DEF WithdrawsTab, Withdrawn
<1>3. ASSUME NEW c \in Conns, NEW r \in Requests, CancelsOrphan(c, r) PROVE [Calls!Next]_Calls!vars
  BY <1>3, RefusalDecides DEF CancelsOrphan
<1>4. ASSUME NEW c \in Conns,
             \/ SocketRunsDry(c) \/ Disconnects(c) \/ \E r \in Requests: TellsOfTab(c, r)
             \/ SessionCloses(c) \/ SocketEnds(c) \/ GivesUpTelling(c)
             \/ \E names \in SUBSET Names: ClosesTabs(c, names)
      PROVE  [Calls!Next]_Calls!vars
  BY <1>4, OtherRearranges DEF SocketRunsDry, Disconnects, TellsOfTab, SessionCloses, SocketEnds,
     GivesUpTelling, ClosesTabs
<1>5. ASSUME NEW r \in Requests, ClosesTab(r) \/ ClosesPane(r) PROVE [Calls!Next]_Calls!vars
  BY <1>5, OtherRearranges DEF ClosesTab, ClosesPane
<1>6. ASSUME NEW r \in Requests, IsCancelled(r) PROVE [Calls!Next]_Calls!vars
  BY <1>6, DropAbandons DEF IsCancelled
<1>7. ASSUME NEW r \in Requests, NEW v \in Verdicts, Answers(r, v) PROVE [Calls!Next]_Calls!vars
  BY <1>7, VerdictDecides DEF Answers
<1>8. CASE OpensTab
  <2>1. Head1.id \in Requests
    BY <1>8, QueueTyped DEF OpensTab, TypeOK, Head1, Events
  <2>2. UNCHANGED answer
    BY <1>8 DEF OpensTab
  <2>3. CASE UNCHANGED <<pending, reply>>
    BY <2>2, <2>3, OtherRearranges
  <2>4. CASE Refused(Head1.id) /\ UNCHANGED screen
    BY <2>1, <2>2, <2>4, RefusalDecides
  <2>. QED
    BY <1>8, <2>3, <2>4 DEF OpensTab
<1>9. CASE TakesTabDown
  BY <1>9, OtherRearranges DEF TakesTabDown
<1>10. CASE \/ ReadsDiffs \/ ClosesProject \/ StaysOpen \/ ShutsDown \/ SweepsAll
            \/ ClearsConnections \/ HasDrained \/ DrainTimesOut
  BY <1>10, OtherRearranges DEF ReadsDiffs, ClosesProject, StaysOpen, ShutsDown, SweepsAll,
     ClearsConnections, HasDrained, DrainTimesOut, Drains
<1>. QED
  BY <1>1, <1>2, <1>3, <1>4, <1>5, <1>6, <1>7, <1>8, <1>9, <1>10, Steps DEF ConnStep

\* DiffBroker implements DiffCalls: however closings, disconnects, supersessions
\* and the shutdown interleave with the person's answer, a call gets one verdict,
\* an acceptance only of a diff on the screen, and returns that verdict
THEOREM CallsKept == Spec => EveryCallKept
<1>1. Init => TypeOK /\ CallsOK /\ Calls!Init
  BY ConstantsAssumption DEF Init, TypeOK, CallsOK, Calls!Init, Idle, Tasks, Stages, ConstantsAssumption
<1>2. TypeOK /\ CallsOK /\ [Next]_vars => TypeOK' /\ CallsOK'
  <2>1. CASE UNCHANGED vars
    BY <2>1, StepTyped, OtherCalls DEF vars, calls, broker
  <2>. QED
    BY <2>1, StepTyped, CallsStep
<1>3. TypeOK /\ CallsOK /\ [Next]_vars => [Calls!Next]_Calls!vars
  <2>1. CASE UNCHANGED vars
    BY <2>1, OtherRearranges DEF vars, calls
  <2>. QED
    BY <2>1, CallsRefined
<1>. QED
  BY <1>1, <1>2, <1>3, PTL DEF Spec, EveryCallKept, Calls!Spec

---------------------------------------------------------------------------
(* The channel *)

\* Nothing is appended or taken
LEMMA QueueKept ==
  ASSUME UNCHANGED queue
  PROVE  \A kind, r: Queued(kind, r)' <=> Queued(kind, r)
  BY DEF Queued, Event

\* One event is appended
LEMMA QueueGrows ==
  ASSUME queue \in Seq(Events), NEW k \in {"requested", "withdrawn"}, NEW q \in Requests,
         queue' = Append(queue, Event(k, q))
  PROVE  \A kind, r: Queued(kind, r)' <=> Queued(kind, r) \/ (kind = k /\ r = q)
<1>. DEFINE e == Event(k, q)
<1>1. /\ Len(queue') = Len(queue) + 1 /\ Len(queue) \in Nat
      /\ \A i \in 1..Len(queue): queue'[i] = queue[i]
      /\ queue'[Len(queue) + 1] = e
  BY EventTyped
<1>2. \A kind, r: Event(kind, r) = e <=> kind = k /\ r = q
  BY DEF Event
<1>. HIDE DEF e
<1>3. ASSUME NEW kind, NEW r, Queued(kind, r)' PROVE Queued(kind, r) \/ (kind = k /\ r = q)
  <2>1. PICK i \in 1..Len(queue'): queue'[i] = Event(kind, r)
    BY <1>3 DEF Queued, Event
  <2>. QED
    BY <1>1, <1>2, <2>1 DEF Queued
<1>4. ASSUME NEW kind, NEW r, Queued(kind, r) \/ (kind = k /\ r = q) PROVE Queued(kind, r)'
  <2>1. \E i \in 1..Len(queue'): queue'[i] = Event(kind, r)
    BY <1>1, <1>2, <1>4 DEF Queued
  <2>. QED
    BY <2>1 DEF Queued, Event
<1>. QED
  BY <1>3, <1>4

\* The first event is taken
LEMMA QueueShrinks ==
  ASSUME queue \in Seq(Events), queue # <<>>, queue' = Tail(queue)
  PROVE  /\ \A kind, r: Queued(kind, r)' => Queued(kind, r)
         /\ \A kind, r: Queued(kind, r) => Queued(kind, r)' \/ Head1 = Event(kind, r)
         /\ \A kind, r: Head1 = Event(kind, r) => Queued(kind, r)
<1>1. /\ Len(queue') = Len(queue) - 1 /\ Len(queue) \in Nat /\ Len(queue) > 0
      /\ \A i \in 1..Len(queue'): queue'[i] = queue[i + 1]
      /\ Head1 = queue[1]
  BY DEF Head1
<1>2. ASSUME NEW kind, NEW r, Queued(kind, r)' PROVE Queued(kind, r)
  <2>1. PICK i \in 1..Len(queue'): queue'[i] = Event(kind, r)
    BY <1>2 DEF Queued, Event
  <2>2. i + 1 \in 1..Len(queue) /\ queue[i + 1] = Event(kind, r)
    BY <1>1, <2>1
  <2>. QED
    BY <2>2 DEF Queued
<1>3. ASSUME NEW kind, NEW r, Queued(kind, r), Head1 # Event(kind, r) PROVE Queued(kind, r)'
  <2>1. PICK i \in 1..Len(queue): queue[i] = Event(kind, r)
    BY <1>3 DEF Queued
  <2>2. i # 1
    BY <1>1, <1>3, <2>1
  <2>3. i - 1 \in 1..Len(queue') /\ queue'[i - 1] = Event(kind, r)
    BY <1>1, <2>1, <2>2
  <2>. QED
    BY <2>3 DEF Queued, Event
<1>4. ASSUME NEW kind, NEW r, Head1 = Event(kind, r) PROVE Queued(kind, r)
  <2>1. 1 \in 1..Len(queue) /\ queue[1] = Event(kind, r)
    BY <1>1, <1>4
  <2>. QED
    BY <2>1 DEF Queued
<1>. QED
  BY <1>2, <1>3, <1>4

\* The order is kept when nothing is appended,
LEMMA OrderKept ==
  ASSUME OrderOK, UNCHANGED queue, loose \subseteq loose'
  PROVE  OrderOK'
  BY DEF OrderOK, Event

\* when a request is announced of which nothing was heard,
LEMMA OrderOfAnnounced ==
  ASSUME OrderOK, queue \in Seq(Events), NEW q \in Requests,
         queue' = Append(queue, Event("requested", q)), loose \subseteq loose',
         ~Queued("requested", q), q \in loose' \/ ~Queued("withdrawn", q)
  PROVE  OrderOK'
<1>1. /\ Len(queue') = Len(queue) + 1 /\ Len(queue) \in Nat
      /\ \A i \in 1..Len(queue): queue'[i] = queue[i]
      /\ queue'[Len(queue) + 1] = Event("requested", q)
  BY EventTyped
<1>2. SUFFICES ASSUME NEW r \in Requests, NEW i \in 1..Len(queue'), NEW j \in 1..Len(queue'),
                      queue'[i] = Event("requested", r)
               PROVE  /\ queue'[j] = Event("requested", r) => i = j
                      /\ queue'[j] = Event("withdrawn", r) /\ r \notin loose' => i < j
  BY DEF OrderOK, Event
<1>3. CASE i \in 1..Len(queue) /\ j \in 1..Len(queue)
  BY <1>1, <1>2, <1>3 DEF OrderOK
<1>4. CASE i = Len(queue) + 1
  <2>1. r = q
    BY <1>1, <1>2, <1>4 DEF Event
  <2>2. j \in 1..Len(queue) => queue'[j] # Event("requested", r)
    BY <1>1, <2>1 DEF Queued
  <2>3. j \in 1..Len(queue) /\ r \notin loose' => queue'[j] # Event("withdrawn", r)
    BY <1>1, <2>1 DEF Queued
  <2>4. j = Len(queue) + 1 => queue'[j] # Event("withdrawn", r)
    BY <1>1 DEF Event
  <2>5. j \in 1..Len(queue) \/ j = Len(queue) + 1
    BY <1>1
  <2>. QED
    BY <1>4, <2>2, <2>3, <2>4, <2>5
<1>5. CASE i \in 1..Len(queue) /\ j = Len(queue) + 1
  <2>1. r # q
    BY <1>1, <1>2, <1>5 DEF Queued
  <2>2. queue'[j] # Event("requested", r) /\ i < j
    BY <1>1, <1>5, <2>1 DEF Event
  <2>. QED
    BY <2>2
<1>. QED
  BY <1>1, <1>3, <1>4, <1>5

\* when a withdrawal is told of,
LEMMA OrderOfWithdrawn ==
  ASSUME OrderOK, queue \in Seq(Events), NEW q \in Requests,
         queue' = Append(queue, Event("withdrawn", q)), loose \subseteq loose'
  PROVE  OrderOK'
<1>1. /\ Len(queue') = Len(queue) + 1 /\ Len(queue) \in Nat
      /\ \A i \in 1..Len(queue): queue'[i] = queue[i]
      /\ queue'[Len(queue) + 1] = Event("withdrawn", q)
  BY EventTyped
<1>2. SUFFICES ASSUME NEW r \in Requests, NEW i \in 1..Len(queue'), NEW j \in 1..Len(queue'),
                      queue'[i] = Event("requested", r)
               PROVE  /\ queue'[j] = Event("requested", r) => i = j
                      /\ queue'[j] = Event("withdrawn", r) /\ r \notin loose' => i < j
  BY DEF OrderOK, Event
<1>3. i \in 1..Len(queue)
  BY <1>1, <1>2 DEF Event
<1>4. CASE j \in 1..Len(queue)
  BY <1>1, <1>2, <1>3, <1>4 DEF OrderOK
<1>5. CASE j = Len(queue) + 1
  BY <1>1, <1>3, <1>5 DEF Event
<1>. QED
  BY <1>1, <1>4, <1>5

\* and when the first event is taken
LEMMA OrderOfRest ==
  ASSUME OrderOK, queue \in Seq(Events), queue # <<>>, queue' = Tail(queue), UNCHANGED loose
  PROVE  /\ OrderOK'
         /\ \A r \in Requests: Head1 = Event("requested", r) => ~Queued("requested", r)'
         /\ \A r \in Requests \ loose: Head1 = Event("withdrawn", r) => ~Queued("requested", r)
<1>1. /\ Len(queue') = Len(queue) - 1 /\ Len(queue) \in Nat /\ Len(queue) > 0
      /\ \A i \in 1..Len(queue'): i + 1 \in 1..Len(queue) /\ queue'[i] = queue[i + 1]
      /\ Head1 = queue[1]
  BY DEF Head1
<1>2. OrderOK'
  <2>1. SUFFICES ASSUME NEW r \in Requests, NEW i \in 1..Len(queue'), NEW j \in 1..Len(queue'),
                        queue'[i] = Event("requested", r)
                 PROVE  /\ queue'[j] = Event("requested", r) => i = j
                        /\ queue'[j] = Event("withdrawn", r) /\ r \notin loose' => i < j
    BY DEF OrderOK, Event
  <2>2. i + 1 \in 1..Len(queue) /\ j + 1 \in 1..Len(queue) /\ queue[i + 1] = Event("requested", r)
        /\ queue[j + 1] = queue'[j]
    BY <1>1, <2>1
  <2>3. /\ queue[j + 1] = Event("requested", r) => i + 1 = j + 1
        /\ queue[j + 1] = Event("withdrawn", r) /\ r \notin loose => i + 1 < j + 1
    BY <2>2 DEF OrderOK
  <2>. QED
    BY <2>2, <2>3
<1>3. ASSUME NEW r \in Requests, Head1 = Event("requested", r), Queued("requested", r)' PROVE FALSE
  <2>1. PICK i \in 1..Len(queue'): queue'[i] = Event("requested", r)
    BY <1>3 DEF Queued, Event
  <2>2. 1 \in 1..Len(queue) /\ i + 1 \in 1..Len(queue) /\ queue[i + 1] = Event("requested", r)
    BY <1>1, <2>1
  <2>3. 1 = i + 1
    BY <1>1, <1>3, <2>2 DEF OrderOK
  <2>. QED
    BY <2>3
<1>4. ASSUME NEW r \in Requests \ loose, Head1 = Event("withdrawn", r), Queued("requested", r)
      PROVE  FALSE
  <2>1. PICK i \in 1..Len(queue): queue[i] = Event("requested", r)
    BY <1>4 DEF Queued
  <2>2. 1 \in 1..Len(queue) /\ queue[1] = Event("withdrawn", r)
    BY <1>1, <1>4
  <2>3. i < 1
    BY <1>4, <2>1, <2>2 DEF OrderOK
  <2>. QED
    BY <2>3
<1>. QED
  BY <1>2, <1>3, <1>4

---------------------------------------------------------------------------
(* Tabs can go, and no agent waits without one *)

\* What a step on other requests may do to q
Untouched(q) ==
    /\ task'[q] = task[q] /\ older'[q] \subseteq older[q] /\ screen'[q] = screen[q]
    /\ q \in tabs' <=> q \in tabs
    /\ q \in telling' <=> q \in telling
    /\ q \in closing'[Owner[q]].left <=> q \in closing[Owner[q]].left
    /\ q \in closing'[Owner[q]].told <=> q \in closing[Owner[q]].told
    /\ q \in pending' => q \in pending
    /\ q \in loose => q \in loose'
    /\ Queued("requested", q)' <=> Queued("requested", q)
    /\ Queued("withdrawn", q)' <=> Queued("withdrawn", q)
    /\ q \in pending' /\ Refusing(q) => Refusing(q)'
    /\ q \in leaving' => q \in leaving /\ (stage' \in {"up", "left"} => stage \in {"up", "left"})

\* What holds of a request holds after a step on others
LEMMA UntouchedKept ==
  ASSUME NEW q \in Requests, KeptOf(q), Untouched(q)
  PROVE  KeptOf(q)'
<1>. USE DEF KeptOf, Untouched
<1>1. BeingTakenDown(q)' <=> BeingTakenDown(q)
  BY DEF BeingTakenDown
<1>2. TabOf(q)'
  BY <1>1 DEF TabOf
<1>3. WaitingOf(q)'
  BY DEF WaitingOf
<1>4. QueuedOf(q)' /\ LeavingOf(q)' /\ OlderOf(q)'
  BY DEF QueuedOf, LeavingOf, OlderOf
<1>5. ScreenOf(q)'
  BY <1>1 DEF ScreenOf
<1>6. PendingOf(q)'
  BY DEF PendingOf
<1>. QED
  BY <1>2, <1>3, <1>4, <1>5, <1>6

\* The steps of a call up to its registration
LEMMA KeptRegistering ==
  ASSUME IInv, NEW r \in Requests, Reads(r) \/ NamesTab(r) \/ LooksForOlder(r) \/ Registers(r)
  PROVE  Kept'
<1>. USE DEF calls, broker, events, clients, person, noted, IInv, Kept
<1>1. \A kind, q: Queued(kind, q)' <=> Queued(kind, q)
  BY QueueKept DEF Reads, NamesTab, LooksForOlder, Registers
<1>2. /\ UNCHANGED <<closing, telling, screen, loose, dropping, leaving, stage, stopping, project>>
      /\ \A q \in Requests \ {r}: task'[q] = task[q] /\ older'[q] = older[q]
      /\ \A q \in Requests \ {r}: q \in tabs' <=> q \in tabs
      /\ \A q \in Requests \ {r}: q \in pending' => q \in pending
      /\ task[r] \in {"unsent", "read", "tabbed", "superseding"}
      /\ task'[r] \in {"read", "tabbed", "superseding", "announcing"}
      /\ task[r] # "unsent" => task'[r] # "read"
      /\ r \in pending' => task'[r] = "announcing"
      /\ r \in tabs' => r \in tabs \/ task[r] = "read"
      /\ older[r] = {}
      /\ task'[r] # "superseding" => older'[r] = {}
  BY DEF Reads, NamesTab, LooksForOlder, Registers, TypeOK, CallsOK, KeptOf, OlderOf
<1>3. ASSUME NEW q \in Requests \ {r} PROVE Untouched(q)
  <2>1. Refusing(q) => Refusing(q)'
    BY <1>2 DEF Refusing
  <2>. QED
    BY <1>1, <1>2, <2>1 DEF Untouched
<1>4. KeptOf(r)'
  <2>1. BeingTakenDown(r)' <=> BeingTakenDown(r)
    BY <1>1, <1>2 DEF BeingTakenDown
  <2>2. TabOf(r)'
    BY <1>1, <1>2, <2>1 DEF KeptOf, TabOf
  <2>. QED
    BY <1>1, <1>2, <2>1, <2>2 DEF KeptOf, WaitingOf, QueuedOf, ScreenOf, PendingOf, LeavingOf, OlderOf
<1>5. ClosingOK' /\ StageOK'
  BY <1>2 DEF ClosingOK, StageOK
<1>. QED
  BY <1>3, <1>4, <1>5, UntouchedKept

\* A verdict for r, whoever gives it
LEMMA KeptVerdict ==
  ASSUME IInv, NEW r \in Requests,
         \/ CancelsClosed(r) \/ CancelsAtShutdown(r) \/ \E v \in Verdicts: Answers(r, v)
         \/ \E o \in Requests: Supersedes(o, r)
         \/ \E c \in Conns: WithdrawsTab(c, r) \/ CancelsOrphan(c, r)
  PROVE  Kept'
<1>. USE DEF calls, broker, events, clients, person, noted, IInv, Kept
<1>1. /\ UNCHANGED <<task, queue, telling, screen, loose, stage, project>>
      /\ pending' = pending \ {r}
  BY DEF CancelsClosed, CancelsAtShutdown, Answers, Supersedes, WithdrawsTab, CancelsOrphan,
     Withdrawn, Refused, Verdict
<1>2. \A kind, q: Queued(kind, q)' <=> Queued(kind, q)
  BY <1>1, QueueKept
<1>. DEFINE Less ==
      /\ \A q \in Requests: older'[q] \subseteq older[q]
      /\ \A q \in Requests, o \in Requests \ {r}: o \in older[q] => o \in older'[q]
      /\ leaving' \subseteq leaving /\ leaving \ {r} \subseteq leaving'
      /\ stopping \ {r} \subseteq stopping'
      /\ \A c \in Conns: dropping[c] \ {r} \subseteq dropping'[c]
      /\ \A c \in Conns: /\ closing'[c].told = closing[c].told
                         /\ closing'[c].left \subseteq closing[c].left
                         /\ closing[c].left \ {r} \subseteq closing'[c].left
      /\ \A q \in Requests \ {r}: q \in tabs' <=> q \in tabs
      /\ r \in tabs' => r \in tabs
<1>3. Less
  <2>1. CASE CancelsClosed(r) \/ CancelsAtShutdown(r) \/ \E v \in Verdicts: Answers(r, v)
    BY <2>1 DEF CancelsClosed, CancelsAtShutdown, Answers
  <2>2. ASSUME NEW o \in Requests, Supersedes(o, r) PROVE Less
    BY <2>2 DEF Supersedes, TypeOK
  <2>3. ASSUME NEW c \in Conns, WithdrawsTab(c, r) PROVE Less
    BY <2>3 DEF WithdrawsTab, Withdrawn, TypeOK
  <2>4. ASSUME NEW c \in Conns, CancelsOrphan(c, r) PROVE Less
    BY <2>4 DEF CancelsOrphan, TypeOK
  <2>. QED
    BY <2>1, <2>2, <2>3, <2>4
<1>4. r \in tabs => r \in tabs' \/ (screen[r] = "none" /\ ~Queued("requested", r)) \/ BeingTakenDown(r)
  <2>1. CASE CancelsClosed(r)
    BY <2>1 DEF CancelsClosed, KeptOf, LeavingOf
  <2>2. ASSUME NEW c \in Conns, WithdrawsTab(c, r)
        PROVE  BeingTakenDown(r)
    BY <2>2 DEF WithdrawsTab, ClosingOK, BeingTakenDown
  <2>3. CASE tabs' = tabs
    BY <2>3
  <2>. QED
    BY <2>1, <2>2, <2>3 DEF CancelsAtShutdown, Answers, Supersedes, CancelsOrphan
<1>5. ASSUME NEW q \in Requests \ {r} PROVE Untouched(q)
  <2>1. Refusing(q) => Refusing(q)'
    BY <1>1, <1>3, OwnerTyped DEF Refusing
  <2>. QED
    BY <1>1, <1>2, <1>3, <2>1, OwnerTyped DEF Untouched
<1>6. KeptOf(r)'
  <2>1. BeingTakenDown(r)' <=> BeingTakenDown(r)
    BY <1>1, <1>2, <1>3, OwnerTyped DEF BeingTakenDown
  <2>2. TabOf(r)'
    BY <1>1, <1>2, <1>3, <2>1, OwnerTyped DEF KeptOf, TabOf
  <2>3. ScreenOf(r)'
    BY <1>1, <1>2, <1>4, <2>1 DEF KeptOf, ScreenOf
  <2>4. WaitingOf(r)' /\ PendingOf(r)'
    BY <1>1 DEF WaitingOf, PendingOf
  <2>5. QueuedOf(r)' /\ LeavingOf(r)' /\ OlderOf(r)'
    BY <1>1, <1>2, <1>3 DEF KeptOf, QueuedOf, LeavingOf, OlderOf
  <2>. QED
    BY <2>2, <2>3, <2>4, <2>5 DEF KeptOf
<1>7. ClosingOK' /\ StageOK'
  BY <1>1, <1>3 DEF ClosingOK, StageOK
<1>. QED
  BY <1>5, <1>6, <1>7, UntouchedKept

\* A call returns, or is dropped with its request and its tab
LEMMA KeptReturned ==
  ASSUME IInv, NEW r \in Requests, Returns(r) \/ Drops(r)
  PROVE  Kept'
<1>. USE DEF calls, broker, events, clients, person, noted, IInv, Kept
<1>1. /\ UNCHANGED <<older, queue, screen, clients, person, noted>>
      /\ task[r] \in {"announcing", "waiting"} /\ task'[r] = "done"
      /\ \A q \in Requests \ {r}: task'[q] = task[q]
      /\ pending' = pending \ {r}
      /\ tabs' \subseteq tabs /\ tabs \ {r} \subseteq tabs'
      /\ telling \subseteq telling' /\ telling' \ {r} \subseteq telling
      /\ r \in tabs \ tabs' => r \in telling'
      /\ r \in telling' => r \in telling \/ r \notin tabs'
  BY DEF Returns, Drops, Withdrawn, Refused, Verdict, CallsOK, TypeOK
<1>2. \A kind, q: Queued(kind, q)' <=> Queued(kind, q)
  BY <1>1, QueueKept
<1>3. ASSUME NEW q \in Requests \ {r} PROVE Untouched(q)
  <2>1. Refusing(q) => Refusing(q)'
    BY <1>1 DEF Refusing
  <2>. QED
    BY <1>1, <1>2, <2>1 DEF Untouched
<1>4. KeptOf(r)'
  <2>1. /\ BeingTakenDown(r) => BeingTakenDown(r)'
        /\ BeingTakenDown(r)' => BeingTakenDown(r) \/ r \notin tabs'
        /\ r \in telling' => BeingTakenDown(r)'
    BY <1>1, <1>2 DEF BeingTakenDown
  <2>2. TabOf(r)'
    BY <1>1, <2>1 DEF KeptOf, TabOf
  <2>3. ScreenOf(r)'
    BY <1>1, <1>2, <2>1 DEF KeptOf, ScreenOf
  <2>4. WaitingOf(r)' /\ PendingOf(r)'
    BY <1>1 DEF WaitingOf, PendingOf
  <2>5. QueuedOf(r)' /\ LeavingOf(r)' /\ OlderOf(r)'
    BY <1>1, <1>2 DEF KeptOf, QueuedOf, LeavingOf, OlderOf
  <2>. QED
    BY <2>2, <2>3, <2>4, <2>5 DEF KeptOf
<1>5. ClosingOK' /\ StageOK'
  BY <1>1 DEF ClosingOK, StageOK
<1>. QED
  BY <1>3, <1>4, <1>5, UntouchedKept

\* An announcement is the first event of its request
LEMMA KeptAnnounced ==
  ASSUME IInv, NEW r \in Requests, Announces(r)
  PROVE  Kept' /\ OrderOK'
<1>. USE DEF calls, broker, events, clients, person, noted, IInv, Kept
<1>1. /\ UNCHANGED <<older, pending, tabs, telling, screen, clients, person>>
      /\ task[r] = "announcing" /\ task'[r] = "waiting"
      /\ \A q \in Requests \ {r}: task'[q] = task[q] /\ (q \in loose' <=> q \in loose)
      /\ loose \subseteq loose' /\ r \in loose' \union tabs
      /\ queue \in Seq(Events) /\ queue' = Append(queue, Event("requested", r))
  BY DEF Announces, TypeOK, Events
<1>2. \A kind, q: Queued(kind, q)' <=> Queued(kind, q) \/ (kind = "requested" /\ q = r)
  BY <1>1, QueueGrows
<1>3. OrderOK'
  <2>1. ~Queued("requested", r)
    BY <1>1 DEF KeptOf, QueuedOf
  <2>2. r \in loose' \/ ~Queued("withdrawn", r)
    BY <1>1 DEF KeptOf, TabOf, BeingTakenDown
  <2>. QED
    BY <1>1, <2>1, <2>2, OrderOfAnnounced
<1>4. ASSUME NEW q \in Requests \ {r} PROVE Untouched(q)
  <2>1. Refusing(q) => Refusing(q)'
    BY <1>1 DEF Refusing
  <2>. QED
    BY <1>1, <1>2, <2>1 DEF Untouched
<1>5. KeptOf(r)'
  <2>1. BeingTakenDown(r)' <=> BeingTakenDown(r)
    BY <1>1, <1>2 DEF BeingTakenDown
  <2>2. TabOf(r)' /\ WaitingOf(r)' /\ ScreenOf(r)'
    BY <1>1, <1>2, <2>1 DEF KeptOf, TabOf, WaitingOf, ScreenOf
  <2>3. screen[r] = "none" /\ r \notin leaving
    BY <1>1 DEF KeptOf, QueuedOf, LeavingOf
  <2>4. QueuedOf(r)' /\ PendingOf(r)' /\ LeavingOf(r)' /\ OlderOf(r)'
    BY <1>1, <1>2, <2>3 DEF KeptOf, QueuedOf, PendingOf, LeavingOf, OlderOf
  <2>. QED
    BY <2>2, <2>4 DEF KeptOf
<1>6. ClosingOK' /\ StageOK'
  BY <1>1 DEF ClosingOK, StageOK
<1>. QED
  BY <1>3, <1>4, <1>5, <1>6, UntouchedKept

\* The pump is told of a withdrawal
LEMMA KeptTold ==
  ASSUME IInv, NEW r \in Requests, Notifies(r) \/ \E c \in Conns: TellsOfTab(c, r)
  PROVE  Kept' /\ OrderOK'
<1>. USE DEF calls, broker, events, clients, person, noted, IInv, Kept
<1>. DEFINE Told ==
      /\ UNCHANGED <<calls, broker, screen, link, dropping, person, noted>>
      /\ queue' = Append(queue, Event("withdrawn", r))
      /\ telling' \subseteq telling /\ telling \ {r} \subseteq telling'
      /\ \A c \in Conns: /\ closing'[c].left = closing[c].left
                         /\ closing'[c].told \subseteq closing[c].told
                         /\ closing[c].told \ {r} \subseteq closing'[c].told
                         /\ closing[c].left # {} => closing'[c] = closing[c]
      /\ BeingTakenDown(r)
      /\ r \in closing[Owner[r]].left => task[r] = "done"
<1>1. Told
  <2>1. CASE Notifies(r)
    BY <2>1 DEF Notifies, BeingTakenDown, KeptOf, TabOf
  <2>2. ASSUME NEW c \in Conns, TellsOfTab(c, r) PROVE Told
    <3>1. Owner[r] = c
      BY <2>2 DEF TellsOfTab, ClosingOK
    <3>. QED
      BY <2>2, <3>1 DEF TellsOfTab, BeingTakenDown, TypeOK
  <2>. QED
    BY <2>1, <2>2
<1>2. \A kind, q: Queued(kind, q)' <=> Queued(kind, q) \/ (kind = "withdrawn" /\ q = r)
  BY <1>1, QueueGrows DEF TypeOK, Events
<1>3. OrderOK'
  BY <1>1, OrderOfWithdrawn DEF TypeOK, Events
<1>4. ASSUME NEW q \in Requests \ {r} PROVE Untouched(q)
  <2>1. Refusing(q) => Refusing(q)'
    BY <1>1, OwnerTyped DEF Refusing
  <2>. QED
    BY <1>1, <1>2, <2>1, OwnerTyped DEF Untouched
<1>5. KeptOf(r)'
  <2>1. BeingTakenDown(r)'
    BY <1>2 DEF BeingTakenDown
  <2>2. TabOf(r)' /\ ScreenOf(r)'
    BY <1>1, <2>1, OwnerTyped DEF KeptOf, TabOf, ScreenOf
  <2>3. Refusing(r) => Refusing(r)'
    BY <1>1, OwnerTyped DEF Refusing
  <2>4. WaitingOf(r)' /\ PendingOf(r)'
    BY <1>1, <1>2, <2>3, OwnerTyped DEF KeptOf, WaitingOf, PendingOf
  <2>5. QueuedOf(r)' /\ LeavingOf(r)' /\ OlderOf(r)'
    BY <1>1, <1>2 DEF KeptOf, QueuedOf, LeavingOf, OlderOf
  <2>. QED
    BY <2>2, <2>4, <2>5 DEF KeptOf
<1>6. ClosingOK' /\ StageOK'
  BY <1>1 DEF ClosingOK, StageOK
<1>. QED
  BY <1>3, <1>4, <1>5, <1>6, UntouchedKept

\* A close_tab takes the tabs of its connection in hand
LEMMA KeptTaken ==
  ASSUME IInv, NEW c \in Conns,
         SessionCloses(c) \/ \E names \in SUBSET Names: ClosesTabs(c, names)
  PROVE  Kept'
<1>. USE DEF calls, broker, events, clients, person, noted, IInv, Kept
<1>1. PICK taken \in SUBSET Of(c, tabs): Takes(c, taken)
  BY DEF SessionCloses, ClosesTabs, Of
<1>2. UNCHANGED <<calls, pending, events, screen, dropping, person, noted>>
  BY DEF SessionCloses, ClosesTabs
<1>3. \A kind, q: Queued(kind, q)' <=> Queued(kind, q)
  BY <1>2, QueueKept
<1>4. /\ closing[c].left = {} /\ closing[c].told = {}
      /\ closing'[c].left = taken /\ closing'[c].told = taken
      /\ \A d \in Conns \ {c}: closing'[d] = closing[d]
      /\ tabs' = tabs \ taken
      /\ \A q \in taken: q \in Requests /\ Owner[q] = c /\ q \in tabs
  BY <1>1 DEF Takes, Idle, Of, TypeOK
<1>5. ASSUME NEW q \in Requests \ taken PROVE Untouched(q)
  <2>1. Refusing(q) => Refusing(q)'
    BY <1>2, <1>4, OwnerTyped DEF Refusing
  <2>. QED
    BY <1>2, <1>3, <1>4, <2>1, OwnerTyped DEF Untouched
<1>6. ASSUME NEW q \in taken PROVE KeptOf(q)'
  <2>1. q \in Requests /\ KeptOf(q)
    BY <1>4
  <2>2. ~BeingTakenDown(q) /\ task[q] \notin {"unsent", "read"}
    BY <1>4, <2>1 DEF KeptOf, TabOf
  <2>3. BeingTakenDown(q)' /\ q \in closing'[Owner[q]].left /\ q \notin tabs'
    BY <1>4 DEF BeingTakenDown
  <2>4. Refusing(q)'
    BY <2>3 DEF Refusing
  <2>5. TabOf(q)'
    BY <1>2, <1>3, <2>2, <2>3 DEF TabOf, BeingTakenDown
  <2>6. WaitingOf(q)' /\ ScreenOf(q)' /\ PendingOf(q)'
    BY <2>3, <2>4 DEF WaitingOf, ScreenOf, PendingOf
  <2>7. QueuedOf(q)' /\ LeavingOf(q)' /\ OlderOf(q)'
    BY <1>2, <1>3, <2>1 DEF KeptOf, QueuedOf, LeavingOf, OlderOf
  <2>. QED
    BY <2>5, <2>6, <2>7 DEF KeptOf
<1>7. ClosingOK' /\ StageOK'
  BY <1>2, <1>4 DEF ClosingOK, StageOK
<1>. QED
  BY <1>5, <1>6, <1>7, UntouchedKept

\* A close_tab that waits for room is dropped; what it had to tell is loose
LEMMA KeptGivenUp ==
  ASSUME IInv, NEW c \in Conns, GivesUpTelling(c)
  PROVE  Kept'
<1>. USE DEF calls, broker, events, clients, person, noted, IInv, Kept
<1>. DEFINE lost == closing[c].told
<1>1. /\ UNCHANGED <<calls, broker, events, screen, link, dropping, person>>
      /\ loose' = loose \union lost
      /\ closing[c].left = {} /\ closing'[c].left = {} /\ closing'[c].told = {}
      /\ \A d \in Conns \ {c}: closing'[d] = closing[d]
      /\ lost \subseteq {q \in Requests: Owner[q] = c}
  BY DEF GivesUpTelling, Idle, TypeOK, ClosingOK
<1>. HIDE DEF lost
<1>2. \A kind, q: Queued(kind, q)' <=> Queued(kind, q)
  BY <1>1, QueueKept
<1>3. ASSUME NEW q \in Requests PROVE Refusing(q) => Refusing(q)'
  BY <1>1, OwnerTyped DEF Refusing
<1>4. ASSUME NEW q \in Requests \ lost PROVE Untouched(q)
  BY <1>1, <1>2, <1>3, OwnerTyped DEF Untouched, lost
<1>5. ASSUME NEW q \in lost PROVE KeptOf(q)'
  <2>1. q \in Requests /\ KeptOf(q)
    BY <1>1
  <2>2. BeingTakenDown(q)' => BeingTakenDown(q)
    BY <1>1, <1>2 DEF BeingTakenDown
  <2>3. TabOf(q)'
    BY <1>1, <1>2, <2>1, <2>2 DEF KeptOf, TabOf
  <2>4. WaitingOf(q)' /\ ScreenOf(q)' /\ PendingOf(q)'
    BY <1>1 DEF WaitingOf, ScreenOf, PendingOf
  <2>5. QueuedOf(q)' /\ LeavingOf(q)' /\ OlderOf(q)'
    BY <1>1, <1>2, <2>1 DEF KeptOf, QueuedOf, LeavingOf, OlderOf
  <2>. QED
    BY <2>3, <2>4, <2>5 DEF KeptOf
<1>6. ClosingOK' /\ StageOK'
  BY <1>1 DEF ClosingOK, StageOK
<1>. QED
  BY <1>4, <1>5, <1>6, UntouchedKept

\* The pump opens the tab of a request, or refuses it
LEMMA KeptOpened ==
  ASSUME IInv, OpensTab
  PROVE  Kept' /\ OrderOK'
<1>. USE DEF calls, broker, events, clients, person, noted, IInv, Kept
<1>1. PICK r \in Requests: Head1 = Event("requested", r) /\ Head1.id = r
  <2>1. Head1 \in Events /\ Head1.kind = "requested"
    BY QueueTyped DEF OpensTab, TypeOK, Head1, Events
  <2>. QED
    BY <2>1 DEF Events, Event
<1>2. /\ UNCHANGED <<task, older, answer, tabs, telling, clients, person, noted>>
      /\ queue # <<>> /\ queue' = Tail(queue) /\ queue \in Seq(Events)
  BY <1>1 DEF OpensTab, TypeOK, Events
<1>3. \/ screen' = [screen EXCEPT ![r] = "shown"] /\ UNCHANGED <<pending, reply>>
      \/ pending' = pending \ {r} /\ UNCHANGED screen
  BY <1>1 DEF OpensTab, Refused, Verdict
<1>4. /\ \A q \in Requests \ {r}: (q \in pending' <=> q \in pending) /\ screen'[q] = screen[q]
      /\ r \in pending' => screen'[r] = "shown"
      /\ screen'[r] \in {"shown", screen[r]}
  BY <1>2, <1>3 DEF TypeOK
<1>5. /\ \A kind, q: Queued(kind, q)' => Queued(kind, q)
      /\ \A kind, q: Queued(kind, q) => Queued(kind, q)' \/ (kind = "requested" /\ q = r)
      /\ Queued("requested", r) /\ ~Queued("requested", r)'
      /\ OrderOK'
  BY <1>1, <1>2, QueueShrinks, OrderOfRest DEF Event
<1>6. ASSUME NEW q \in Requests \ {r} PROVE Untouched(q)
  <2>1. Refusing(q) => Refusing(q)'
    BY <1>2 DEF Refusing
  <2>. QED
    BY <1>2, <1>4, <1>5, <2>1 DEF Untouched
<1>7. KeptOf(r)'
  <2>1. BeingTakenDown(r)' <=> BeingTakenDown(r)
    BY <1>2, <1>5 DEF BeingTakenDown
  <2>2. task[r] \in {"waiting", "done"} /\ r \notin leaving
    BY <1>2, <1>5 DEF KeptOf, QueuedOf, LeavingOf
  <2>3. TabOf(r)' /\ ScreenOf(r)'
    BY <1>2, <1>5, <2>1 DEF KeptOf, TabOf, ScreenOf
  <2>4. WaitingOf(r)' /\ PendingOf(r)'
    BY <1>2, <1>3, <1>4 DEF KeptOf, WaitingOf, PendingOf
  <2>5. QueuedOf(r)' /\ LeavingOf(r)' /\ OlderOf(r)'
    BY <1>2, <1>5, <2>2 DEF KeptOf, QueuedOf, LeavingOf, OlderOf
  <2>. QED
    BY <2>3, <2>4, <2>5 DEF KeptOf
<1>8. ClosingOK' /\ StageOK'
  BY <1>2 DEF ClosingOK, StageOK
<1>. QED
  BY <1>2, <1>5, <1>6, <1>7, <1>8, UntouchedKept

\* The pump takes down the tab of a request that was withdrawn: no agent
\* waits for it, and its announcement is not to come any more
LEMMA KeptTakenDown ==
  ASSUME IInv, TakesTabDown
  PROVE  Kept' /\ OrderOK'
<1>. USE DEF calls, broker, events, clients, person, noted, IInv, Kept
<1>1. PICK r \in Requests: Head1 = Event("withdrawn", r) /\ Head1.id = r
  <2>1. Head1 \in Events /\ Head1.kind = "withdrawn"
    BY QueueTyped DEF TakesTabDown, TypeOK, Head1, Events
  <2>. QED
    BY <2>1 DEF Events, Event
<1>2. /\ UNCHANGED <<calls, broker, telling, clients, person, noted>>
      /\ queue # <<>> /\ queue' = Tail(queue) /\ queue \in Seq(Events)
      /\ screen' = [screen EXCEPT ![r] = "none"]
  BY <1>1 DEF TakesTabDown, TypeOK, Events
<1>3. /\ \A q \in Requests \ {r}: screen'[q] = screen[q]
      /\ screen'[r] = "none"
  BY <1>2 DEF TypeOK
<1>4. /\ \A kind, q: Queued(kind, q)' => Queued(kind, q)
      /\ \A kind, q: Queued(kind, q) => Queued(kind, q)' \/ (kind = "withdrawn" /\ q = r)
      /\ Queued("withdrawn", r)
      /\ r \notin loose => ~Queued("requested", r)
      /\ OrderOK'
  BY <1>1, <1>2, QueueShrinks, OrderOfRest DEF Event
<1>5. ASSUME NEW q \in Requests \ {r} PROVE Untouched(q)
  <2>1. Refusing(q) => Refusing(q)'
    BY <1>2 DEF Refusing
  <2>. QED
    BY <1>2, <1>3, <1>4, <2>1 DEF Untouched
<1>6. KeptOf(r)'
  <2>1. BeingTakenDown(r) /\ r \notin tabs
    BY <1>2, <1>4 DEF BeingTakenDown, KeptOf, TabOf
  <2>2. BeingTakenDown(r)' => BeingTakenDown(r)
    BY <2>1
  <2>3. TabOf(r)' /\ ScreenOf(r)'
    BY <1>2, <1>3, <1>4, <2>1, <2>2 DEF KeptOf, TabOf, ScreenOf
  <2>4. r \in pending /\ r \notin loose => task[r] = "announcing"
    <3>1. r \in pending => task[r] \in {"announcing", "waiting"}
      BY <1>2 DEF CallsOK
    <3>. QED
      BY <1>2, <1>4, <2>1, <3>1 DEF KeptOf, TabOf, WaitingOf
  <2>5. WaitingOf(r)' /\ PendingOf(r)'
    BY <1>2, <2>4 DEF WaitingOf, PendingOf
  <2>6. QueuedOf(r)' /\ LeavingOf(r)' /\ OlderOf(r)'
    BY <1>2, <1>3, <1>4 DEF KeptOf, QueuedOf, LeavingOf, OlderOf
  <2>. QED
    BY <2>3, <2>5, <2>6 DEF KeptOf
<1>7. ClosingOK' /\ StageOK'
  BY <1>2 DEF ClosingOK, StageOK
<1>. QED
  BY <1>2, <1>4, <1>5, <1>6, <1>7, UntouchedKept

\* The person closes a tab, or the pane in it
LEMMA KeptClosed ==
  ASSUME IInv, NEW r \in Requests, ClosesTab(r) \/ ClosesPane(r)
  PROVE  Kept'
<1>. USE DEF calls, broker, events, clients, person, noted, IInv, Kept
<1>1. /\ UNCHANGED <<calls, broker, events, clients, stage, stopping, project, noted>>
      /\ leaving = {} /\ leaving' \subseteq {r} /\ stage = "up"
      /\ \A q \in Requests \ {r}: screen'[q] = screen[q]
      /\ screen[r] # "none"
      /\ screen'[r] # "none" \/ r \in leaving'
      /\ r \in leaving' => screen'[r] = "none"
  BY DEF ClosesTab, ClosesPane, AtHand, TypeOK
<1>2. \A kind, q: Queued(kind, q)' <=> Queued(kind, q)
  BY <1>1, QueueKept
<1>3. ASSUME NEW q \in Requests PROVE Refusing(q) => Refusing(q)'
  BY <1>1 DEF Refusing
<1>4. ASSUME NEW q \in Requests \ {r} PROVE Untouched(q)
  BY <1>1, <1>2, <1>3 DEF Untouched
<1>5. KeptOf(r)'
  <2>1. BeingTakenDown(r)' <=> BeingTakenDown(r)
    BY <1>1, <1>2 DEF BeingTakenDown
  <2>2. task[r] \in {"waiting", "done"} /\ ~Queued("requested", r)
    BY <1>1 DEF KeptOf, QueuedOf
  <2>3. TabOf(r)' /\ ScreenOf(r)' /\ WaitingOf(r)'
    BY <1>1, <1>2, <2>1, <2>2 DEF KeptOf, TabOf, ScreenOf, WaitingOf
  <2>4. PendingOf(r)'
    BY <1>1 DEF PendingOf, Refusing
  <2>5. QueuedOf(r)' /\ LeavingOf(r)' /\ OlderOf(r)'
    BY <1>1, <1>2, <2>2 DEF KeptOf, QueuedOf, LeavingOf, OlderOf
  <2>. QED
    BY <2>3, <2>4, <2>5 DEF KeptOf
<1>6. ClosingOK' /\ StageOK'
  BY <1>1 DEF ClosingOK, StageOK
<1>. QED
  BY <1>4, <1>5, <1>6, UntouchedKept

\* Closing the project: what it reads, and what it takes off the screen
LEMMA KeptLeft ==
  ASSUME IInv, ReadsDiffs \/ ClosesProject
  PROVE  Kept'
<1>. USE DEF calls, broker, events, clients, person, noted, IInv, Kept
<1>1. /\ UNCHANGED <<calls, broker, events, clients, stopping, noted>>
      /\ \/ /\ stage = "up" /\ leaving = {} /\ stage' = "leaving" /\ UNCHANGED screen
            /\ leaving' = {q \in Requests: screen[q] # "none"}
         \/ /\ stage = "leaving" /\ stage' = "left" /\ ~project' /\ UNCHANGED leaving
            /\ screen' = [q \in Requests |-> "none"]
  BY DEF ReadsDiffs, ClosesProject, AtHand
<1>2. \A kind, q: Queued(kind, q)' <=> Queued(kind, q)
  BY <1>1, QueueKept
<1>3. ASSUME NEW q \in Requests PROVE KeptOf(q)'
  <2>1. BeingTakenDown(q)' <=> BeingTakenDown(q)
    BY <1>1, <1>2 DEF BeingTakenDown
  <2>2. screen'[q] \in {"none", screen[q]}
    BY <1>1
  <2>3. TabOf(q)' /\ WaitingOf(q)' /\ QueuedOf(q)' /\ ScreenOf(q)' /\ OlderOf(q)'
    BY <1>1, <1>2, <2>1, <2>2 DEF KeptOf, TabOf, WaitingOf, QueuedOf, ScreenOf, OlderOf
  <2>4. PendingOf(q)'
    BY <1>1, <1>2 DEF KeptOf, PendingOf, Refusing
  <2>5. LeavingOf(q)'
    BY <1>1, <1>2 DEF KeptOf, QueuedOf, LeavingOf
  <2>. QED
    BY <2>3, <2>4, <2>5 DEF KeptOf
<1>4. ClosingOK' /\ StageOK'
  BY <1>1 DEF ClosingOK, StageOK
<1>. QED
  BY <1>3, <1>4

\* What touches no request: the rest of the shutdown, the end of a socket,
\* and a disconnect, which cancels every request of its connection
LEMMA KeptOtherwise ==
  ASSUME IInv,
         \/ \E c \in Conns: SocketRunsDry(c) \/ SocketEnds(c) \/ Disconnects(c)
         \/ StaysOpen \/ ShutsDown \/ SweepsAll \/ ClearsConnections \/ HasDrained \/ DrainTimesOut
         \/ UNCHANGED vars
  PROVE  Kept'
<1>. USE DEF calls, broker, events, clients, person, noted, IInv, Kept
<1>. DEFINE Same ==
      /\ UNCHANGED <<calls, broker, events, screen, closing, project, noted>>
      /\ leaving' \in {{}, leaving}
      /\ stage' = stage \/ stage' \notin {"left", "leaving"}
      /\ stage' \in {"up", "left"} => stage' = stage \/ leaving' = {}
      /\ \A q \in pending: Refusing(q) => Refusing(q)'
<1>1. Same
  <2>1. CASE \E c \in Conns: SocketRunsDry(c) \/ SocketEnds(c)
    BY <2>1 DEF SocketRunsDry, SocketEnds, Refusing
  <2>2. ASSUME NEW c \in Conns, Disconnects(c) PROVE Same
    <3>1. /\ UNCHANGED <<calls, broker, events, screen, closing, person, noted>>
          /\ dropping'[c] = Of(c, pending)
          /\ \A d \in Conns \ {c}: dropping'[d] = dropping[d]
      BY <2>2 DEF Disconnects, TypeOK
    <3>2. ASSUME NEW q \in pending PROVE Refusing(q) => Refusing(q)'
      BY <3>1, OwnerTyped DEF Refusing, Of, TypeOK
    <3>. QED
      BY <3>1, <3>2
  <2>3. CASE StaysOpen
    BY <2>3 DEF StaysOpen, Refusing
  <2>4. CASE ShutsDown
    BY <2>4 DEF ShutsDown, Refusing
  <2>5. CASE SweepsAll
    BY <2>5 DEF SweepsAll, Refusing
  <2>6. CASE ClearsConnections \/ HasDrained \/ DrainTimesOut
    BY <2>6 DEF ClearsConnections, HasDrained, DrainTimesOut, Drains, Refusing
  <2>7. CASE UNCHANGED vars
    BY <2>7 DEF vars, Refusing
  <2>. QED
    BY <2>1, <2>2, <2>3, <2>4, <2>5, <2>6, <2>7
<1>2. \A kind, q: Queued(kind, q)' <=> Queued(kind, q)
  BY <1>1, QueueKept
<1>3. ASSUME NEW q \in Requests PROVE Untouched(q)
  BY <1>1, <1>2 DEF Untouched
<1>4. ClosingOK' /\ StageOK'
  BY <1>1 DEF ClosingOK, StageOK
<1>. QED
  BY <1>3, <1>4, UntouchedKept

---------------------------------------------------------------------------
(* The invariant, and what it shows *)

\* Nothing is waiting at the start
LEMMA InitInv == Init => IInv
<1>. SUFFICES ASSUME Init PROVE IInv
  OBVIOUS
<1>1. TypeOK /\ CallsOK
  BY ConstantsAssumption DEF Init, TypeOK, CallsOK, Idle, Tasks, Stages, ConstantsAssumption
<1>2. \A kind, r: ~Queued(kind, r)
  BY DEF Init, Queued
<1>3. OrderOK
  BY DEF Init, OrderOK
<1>4. ASSUME NEW r \in Requests PROVE KeptOf(r)
  <2>1. ~BeingTakenDown(r)
    BY <1>2, OwnerTyped DEF Init, BeingTakenDown, Idle
  <2>. QED
    BY <1>2, <2>1, OwnerTyped DEF Init, KeptOf, TabOf, WaitingOf, QueuedOf, ScreenOf, PendingOf,
       LeavingOf, OlderOf, Idle
<1>5. ClosingOK /\ StageOK
  BY DEF Init, ClosingOK, StageOK, Idle
<1>. QED
  BY <1>1, <1>3, <1>4, <1>5 DEF IInv, Kept

\* Every step keeps what is about the requests
LEMMA KeptStep ==
  ASSUME IInv, Next
  PROVE  Kept'
<1>1. ASSUME NEW r \in Requests,
             \/ Reads(r) \/ CallStep(r) \/ ClosesTab(r) \/ ClosesPane(r)
             \/ IsCancelled(r) \/ \E v \in Verdicts: Answers(r, v)
      PROVE  Kept'
  BY <1>1, KeptRegistering, KeptAnnounced, KeptReturned, KeptTold, KeptVerdict, KeptClosed
     DEF CallStep, IsStopped, IsCancelled
<1>2. ASSUME NEW c \in Conns,
             \/ ConnStep(c) \/ SessionCloses(c) \/ SocketEnds(c) \/ GivesUpTelling(c)
             \/ \E names \in SUBSET Names: ClosesTabs(c, names)
      PROVE  Kept'
  BY <1>2, KeptVerdict, KeptTold, KeptTaken, KeptGivenUp, KeptOtherwise DEF ConnStep
<1>3. CASE \/ OpensTab \/ TakesTabDown
           \/ ReadsDiffs \/ ClosesProject \/ StaysOpen \/ ShutsDown \/ SweepsAll
           \/ ClearsConnections \/ HasDrained \/ DrainTimesOut
  BY <1>3, KeptOpened, KeptTakenDown, KeptLeft, KeptOtherwise
<1>. QED
  BY <1>1, <1>2, <1>3, Steps

\* Every step keeps the order of the channel
LEMMA OrderStep ==
  ASSUME IInv, Next
  PROVE  OrderOK'
<1>. USE DEF calls, broker, events, clients, person, noted
<1>1. ASSUME NEW r \in Requests,
             \/ Reads(r) \/ CallStep(r) \/ ClosesTab(r) \/ ClosesPane(r)
             \/ IsCancelled(r) \/ \E v \in Verdicts: Answers(r, v)
      PROVE  OrderOK'
  <2>1. CASE Announces(r) \/ Notifies(r)
    BY <2>1, KeptAnnounced, KeptTold
  <2>2. CASE ~Announces(r) /\ ~Notifies(r)
    <3>1. UNCHANGED <<queue, loose>>
      BY <1>1, <2>2 DEF CallStep, Reads, NamesTab, LooksForOlder, Supersedes, Registers, Returns,
         IsStopped, IsCancelled, Drops, CancelsClosed, CancelsAtShutdown, ClosesTab, ClosesPane, Answers
    <3>. QED
      BY <3>1, OrderKept DEF IInv
  <2>. QED
    BY <2>1, <2>2
<1>2. ASSUME NEW c \in Conns,
             \/ ConnStep(c) \/ SessionCloses(c) \/ SocketEnds(c) \/ GivesUpTelling(c)
             \/ \E names \in SUBSET Names: ClosesTabs(c, names)
      PROVE  OrderOK'
  <2>1. CASE \E r \in Requests: TellsOfTab(c, r)
    BY <2>1, KeptTold
  <2>2. CASE ~\E r \in Requests: TellsOfTab(c, r)
    <3>1. UNCHANGED queue /\ loose \subseteq loose'
      BY <1>2, <2>2 DEF ConnStep, SocketRunsDry, SocketEnds, Disconnects, WithdrawsTab, CancelsOrphan,
         SessionCloses, GivesUpTelling, ClosesTabs
    <3>. QED
      BY <3>1, OrderKept DEF IInv
  <2>. QED
    BY <2>1, <2>2
<1>3. CASE OpensTab \/ TakesTabDown
  BY <1>3, KeptOpened, KeptTakenDown
<1>4. CASE \/ ReadsDiffs \/ ClosesProject \/ StaysOpen \/ ShutsDown \/ SweepsAll
           \/ ClearsConnections \/ HasDrained \/ DrainTimesOut
  <2>1. UNCHANGED <<queue, loose>>
    BY <1>4 DEF ReadsDiffs, ClosesProject, StaysOpen, ShutsDown, SweepsAll, ClearsConnections,
       HasDrained, DrainTimesOut, Drains
  <2>. QED
    BY <2>1, OrderKept DEF IInv
<1>. QED
  BY <1>1, <1>2, <1>3, <1>4, Steps

\* The invariant is inductive
LEMMA StepInv == IInv /\ [Next]_vars => IInv'
<1>1. ASSUME IInv, Next PROVE IInv'
  BY <1>1, StepTyped, CallsStep, KeptStep, OrderStep DEF IInv
<1>2. ASSUME IInv, UNCHANGED vars PROVE IInv'
  <2>1. UNCHANGED <<task, answer, reply, pending, queue, loose>>
    BY <1>2 DEF vars, calls, broker, events, noted
  <2>. QED
    BY <1>2, <2>1, StepTyped, OtherCalls, OrderKept, KeptOtherwise DEF IInv
<1>. QED
  BY <1>1, <1>2

\* The inductive invariant holds of the broker in every state
THEOREM Invariance == Spec => []IInv
  BY InitInv, StepInv, PTL DEF Spec

\* The types of the broker, whatever its instance
THEOREM DiffsTyped == Spec => []TypeOK
<1>1. IInv => TypeOK
  BY DEF IInv
<1>. QED
  BY <1>1, Invariance, PTL

\* A request that waits is on its way to the screen, has its tab there (the tab
\* only, WaitsWithADiff is false), or is about to be refused, however its own
\* close_tab, its disconnect, newer requests, the closing of tab and project and
\* the shutdown overtake each other
THEOREM NoneWaitsInVain == Spec => []WaitsWithATab
<1>1. IInv => WaitsWithATab
  BY DEF IInv, Kept, KeptOf, PendingOf, Refusing, WaitsWithATab, BeingRefused, TypeOK
<1>. QED
  BY <1>1, Invariance, PTL

\* As long as a client is served it can withdraw each of its tabs on the
\* screen, or the withdrawal is on its way: no event is lost, and none arrives
\* before the announcement it is to undo.  It says nothing of the tabs of a
\* client that is gone (TabsOfTheDeadGo is false)
THEOREM TabsCanBeWithdrawn == Spec => []TabsCanGo
<1>1. IInv => TabsCanGo
  BY DEF IInv, Kept, KeptOf, ScreenOf, TabsCanGo, CanWithdraw
<1>. QED
  BY <1>1, Invariance, PTL
=============================================================================
