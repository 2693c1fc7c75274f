------------------------ MODULE UserRequestsProofs ------------------------
(***************************************************************************)
(* What UserRequests promises of every conversation, any number of records *)
(* and calls, and any mixture of crashes, failed saves and lost input.     *)
(*                                                                         *)
(* The argument turns on two things that, once so, stay so.  A row that is *)
(* decided and has nothing left to apply (`Settled`) is never decided      *)
(* again, and whatever is on its way to the conversation is of a settled   *)
(* row.  A claim outlives the submission it was made for, until the row is *)
(* closed, and a closed row is never claimed.                              *)
(***************************************************************************)
EXTENDS UserRequests, TLAPS

Settled(r) == Decided(r) /\ ~row[r].applying

\* A call at work is of a request, in a turn
CallsAtWork ==
    \A c \in Calls : call[c].st # "none" => call[c].of \in Requests /\ call[c].turn \in Turns

\* Who holds an answer that may be told
InHand(r) ==
    \/ ToldIt(r)
    \/ del.of = r \/ opening.prompt = r \/ snapshot.prompt = r
    \/ \E c \in Calls : call[c].st \in {"read", "reply", "written"} /\ call[c].of = r

\* What is being applied is decided, and the tracker has what was applied
Applying ==
    /\ \A r \in Requests : row[r].applying => Decided(r)
    /\ apply.at # "idle" => row[apply.of].applying
    /\ apply.at = "complete" => apply.of \in tasksDone
    /\ \A r \in Requests : Settled(r) /\ MustApply(row[r].resp) => r \in tasksDone
    /\ \A r \in Requests : row[r].delivered => Settled(r)

HandsHoldSettled == \A r \in Requests : InHand(r) => Settled(r)

\* A claim is kept from before the submission until the row is closed
ClaimKept ==
    /\ \A r \in Requests : sent[r] > 0 => r \in attempts \/ row[r].delivered
    /\ del.at \in {"send", "unclaim"} =>
         /\ sent[del.of] = 0
         /\ del.of \in attempts \/ row[del.of].delivered

\* A receipt has something to show for it
HasReceipt(r) == \/ Submitted(r)
                 \/ Codex /\ \E t \in Turns : <<r, t>> \in consumed

Receipts ==
    /\ shown \subseteq {r \in Requests : Submitted(r)}
    /\ del.at = "receipt" => HasReceipt(del.of)
    /\ \A c \in Calls : call[c].st = "written" => <<call[c].of, call[c].turn>> \in written

DismissedClosed == \A r \in dismissed : row[r].delivered /\ r \notin attempts

IInv == /\ TypeOK /\ CallsAtWork /\ Applying /\ HandsHoldSettled
        /\ ClaimKept /\ ClaimedOnce
        /\ Receipts /\ DeliveredWasTold
        /\ DismissedClosed /\ OneOpenDecision

------------------------------------------------------------------------------
(* Types *)

\* A turn that starts is one of the turns.
LEMMA TurnStartsTyped ==
  ASSUME TypeOK, StartsTurn
  PROVE  turn' \in Turns /\ conv' = "busy"
  BY Bounds DEF TypeOK, ConversationTyped, StartsTurn, Turns, Bounds

\* What the environment decides comes out of its budget.
LEMMA SpendTyped ==
  ASSUME TypeOK, NEW chance \in Chances, Spend(chance)
  PROVE  budget' \in [Chances -> Nat]
  BY DEF TypeOK, Spend

\* Closing a row leaves a file of rows, claims and replies.
LEMMA MarksDeliveredTyped ==
  ASSUME TypeOK, NEW r \in Requests, MarksDelivered(r)
  PROVE  FileTyped'
  BY DEF TypeOK, FileTyped, Rows, MarksDelivered

\* A failed save leaves the file as it was.
LEMMA NotSavedTyped ==
  ASSUME TypeOK, NotSaved
  PROVE  FileTyped' /\ budget' \in [Chances -> Nat]
  BY SpendTyped DEF TypeOK, FileTyped, NotSaved, file, Chances

\* The person, and what applies the decision.
LEMMA DecisionsTyped ==
  ASSUME TypeOK, CallsAtWork,
         \/ \E r \in Requests, resp \in {"yes", "no"} : Decides(r, resp)
         \/ \E r \in Requests : Dismisses(r)
         \/ Apply
  PROVE  TypeOK' /\ CallsAtWork'
<1>. DEFINE Elsewhere == CallsTyped /\ ConversationTyped /\ DeliveryTyped /\ CallsAtWork
<1>0. UNCHANGED <<origin, call, convVars, openVars, del>> => Elsewhere'
  BY DEF TypeOK, CallsTyped, ConversationTyped, DeliveryTyped, CallsAtWork, convVars, openVars
<1>1. ASSUME NEW r \in Requests, NEW resp \in {"yes", "no"}, Decides(r, resp)
      PROVE  TypeOK' /\ CallsAtWork'
  <2>1. FileTyped'
    BY <1>1 DEF Decides, TypeOK, FileTyped, Rows, MustApply
  <2>. QED
    BY <1>0, <1>1, <2>1 DEF Decides, TypeOK, ApplyTyped, HistoryTyped, ghosts
<1>2. ASSUME NEW r \in Requests, Dismisses(r)
      PROVE  TypeOK' /\ CallsAtWork'
  <2>1. FileTyped'
    BY <1>2, MarksDeliveredTyped DEF Dismisses
  <2>. QED
    BY <1>0, <1>2, <2>1 DEF Dismisses, TypeOK, ApplyTyped, HistoryTyped
<1>3. ASSUME NEW r \in Requests, ApplyBegins(r)
      PROVE  TypeOK' /\ CallsAtWork'
  <2>1. ApplyTyped'
    BY <1>3, NoRequestIsNone DEF ApplyBegins, TypeOK, ApplyTyped, NoRequestIsNone
  <2>. QED
    BY <1>0, <1>3, <2>1 DEF ApplyBegins, TypeOK, FileTyped, HistoryTyped, file, ghosts
<1>4. CASE ApplySaves
  <2>1. ApplyTyped'
    BY <1>4 DEF ApplySaves, TypeOK, ApplyTyped
  <2>. QED
    BY <1>0, <1>4, <2>1 DEF ApplySaves, TypeOK, FileTyped, HistoryTyped, file, ghosts
<1>5. CASE ApplyResets
  <2>1. budget' \in [Chances -> Nat]
    BY <1>5, SpendTyped DEF ApplyResets, Chances
  <2>2. FileTyped'
    BY <1>5 DEF ApplyResets, TypeOK, FileTyped, Rows
  <2>3. ApplyTyped'
    BY <1>5 DEF ApplyResets, NoApplication, TypeOK, ApplyTyped
  <2>. QED
    BY <1>0, <1>5, <2>1, <2>2, <2>3 DEF ApplyResets, TypeOK, HistoryTyped, ghosts
<1>6. CASE ApplyFails
  <2>1. ApplyTyped'
    BY <1>6 DEF ApplyFails, NoApplication, TypeOK, ApplyTyped
  <2>. QED
    BY <1>0, <1>6, <2>1, NotSavedTyped DEF ApplyFails, TypeOK, HistoryTyped, ghosts
<1>7. CASE ApplyCompletes
  <2>1. FileTyped' /\ budget' \in [Chances -> Nat]
    <3>1. CASE NotSaved
      BY <3>1, NotSavedTyped
    <3>2. CASE /\ row' = [row EXCEPT ![apply.of].applying = FALSE]
               /\ UNCHANGED <<attempts, replies, budget>>
      BY <3>2 DEF TypeOK, FileTyped, Rows
    <3>. QED
      BY <1>7, <3>1, <3>2 DEF ApplyCompletes
  <2>2. ApplyTyped'
    BY <1>7 DEF ApplyCompletes, NoApplication, TypeOK, ApplyTyped
  <2>. QED
    BY <1>0, <1>7, <2>1, <2>2 DEF ApplyCompletes, TypeOK, HistoryTyped, ghosts
<1>. QED
  BY <1>1, <1>2, <1>3, <1>4, <1>5, <1>6, <1>7 DEF Apply

\* The tool calls.
LEMMA CallsTypedKept ==
  ASSUME TypeOK, CallsAtWork, NEW c \in Calls,
         \/ CallAsks(c) \/ CallCutOff(c) \/ Serves(c)
         \/ \E r \in Requests : CallReconnects(c, r)
  PROVE  TypeOK' /\ CallsAtWork'
<1>. DEFINE Elsewhere == ApplyTyped /\ ConversationTyped /\ DeliveryTyped
            CallsOK == CallsTyped /\ CallsAtWork
<1>0. UNCHANGED <<origin, tasksDone, apply, convVars, openVars, del>> => Elsewhere'
  BY DEF TypeOK, ApplyTyped, ConversationTyped, DeliveryTyped, convVars, openVars
<1>1. ASSUME NEW st \in CallStates \ {"none"},
             call[c].st # "none", call' = [call EXCEPT ![c].st = st]
      PROVE  CallsOK'
  BY <1>1 DEF TypeOK, CallsTyped, CallsAtWork
<1>2. ASSUME NEW st \in CallStates \ {"none"}, NEW r \in Requests, CallBegins(c, r, st)
      PROVE  CallsOK'
  BY <1>2 DEF TypeOK, CallsTyped, CallsAtWork, ConversationTyped, CallBegins, NoCall
<1>3. UNCHANGED file => FileTyped'
  BY DEF TypeOK, FileTyped, file
<1>4. CASE CallAsks(c)
  <2>1. PICK r \in Requests, st \in {"waiting", "over"} :
          /\ IF \E s \in Requests : row[s].resp = "none"
             THEN row[r].resp = "none" /\ UNCHANGED <<row, budget>>
             ELSE /\ row[r].resp = "absent"
                  /\ row' = [row EXCEPT ![r] = Asked]
                  /\ IF \E s \in Requests : Decided(s) THEN Spend("again") ELSE UNCHANGED budget
          /\ CallBegins(c, r, st)
    BY <1>4 DEF CallAsks
  <2>2. CallsOK'
    BY <2>1, <1>2 DEF CallStates
  <2>3. row' \in [Requests -> Rows]
    BY <2>1 DEF TypeOK, FileTyped, Rows, Asked, Absent
  <2>4. budget' \in [Chances -> Nat]
    BY <2>1, SpendTyped DEF TypeOK, Chances
  <2>. QED
    BY <1>0, <1>4, <2>2, <2>3, <2>4 DEF CallAsks, TypeOK, FileTyped, HistoryTyped, ghosts
<1>5. ASSUME NEW r \in Requests, CallReconnects(c, r)
      PROVE  TypeOK' /\ CallsAtWork'
  <2>1. CallsOK'
    BY <1>5, <1>2 DEF CallReconnects, CallStates
  <2>. QED
    BY <1>0, <1>3, <1>5, <2>1 DEF CallReconnects, TypeOK, HistoryTyped, ghosts
<1>6. CASE CallReads(c)
  <2>1. CallsOK'
    BY <1>6, <1>1 DEF CallReads, CallStates
  <2>. QED
    BY <1>0, <1>3, <1>6, <2>1 DEF CallReads, TypeOK, HistoryTyped, ghosts
<1>7. CASE CallRecordsReply(c)
  <2>1. CallsOK'
    BY <1>7, <1>1 DEF CallRecordsReply, CallStates
  <2>2. FileTyped' /\ budget' \in [Chances -> Nat]
    <3>1. CASE NotSaved
      BY <3>1, NotSavedTyped
    <3>2. CASE ~NotSaved
      <4>1. call[c].of \in Requests /\ call[c].turn \in Turns
        BY <1>7 DEF CallRecordsReply, CallsAtWork
      <4>2. replies' \in [Requests -> SUBSET Turns]
        BY <1>7, <3>2, <4>1 DEF CallRecordsReply, TypeOK, FileTyped
      <4>. QED
        BY <1>7, <3>2, <4>2 DEF CallRecordsReply, TypeOK, FileTyped
    <3>. QED
      BY <3>1, <3>2
  <2>. QED
    BY <1>0, <1>7, <2>1, <2>2 DEF CallRecordsReply, TypeOK, HistoryTyped, ghosts
<1>8. CASE CallWrites(c)
  <2>1. CallsOK'
    BY <1>8, <1>1 DEF CallWrites, CallStates
  <2>2. HistoryTyped'
    BY <1>8 DEF CallWrites, TypeOK, HistoryTyped, CallsAtWork
  <2>. QED
    BY <1>0, <1>3, <1>8, <2>1, <2>2 DEF CallWrites, TypeOK
<1>9. CASE CallFinishes(c)
  <2>1. CallsOK'
    BY <1>9, <1>1 DEF CallFinishes, CallStates
  <2>2. FileTyped' /\ budget' \in [Chances -> Nat]
    <3>1. call[c].of \in Requests
      BY <1>9 DEF CallFinishes, CallsAtWork
    <3>. QED
      BY <1>3, <1>9, <3>1, MarksDeliveredTyped, NotSavedTyped DEF CallFinishes, TypeOK
  <2>. QED
    BY <1>0, <1>9, <2>1, <2>2 DEF CallFinishes, TypeOK, HistoryTyped, ghosts
<1>10. CASE CallFails(c)
  <2>1. CallsOK'
    BY <1>10, <1>1 DEF CallFails, CallStates
  <2>. QED
    BY <1>0, <1>3, <1>10, <2>1 DEF CallFails, TypeOK, HistoryTyped, ghosts
<1>11. CASE CallCutOff(c)
  <2>1. CallsOK'
    BY <1>11 DEF CallCutOff, TypeOK, CallsTyped, CallsAtWork
  <2>2. budget' \in [Chances -> Nat]
    BY <1>11, SpendTyped DEF CallCutOff, Chances
  <2>. QED
    BY <1>0, <1>3, <1>11, <2>1, <2>2 DEF CallCutOff, TypeOK, HistoryTyped, ghosts
<1>. QED
  BY <1>4, <1>5, <1>6, <1>7, <1>8, <1>9, <1>10, <1>11 DEF Serves

\* A process that is gone.
LEMMA DiesTyped ==
  ASSUME TypeOK, Dies
  PROVE  /\ conv' = "gone" /\ turn' \in Turns /\ ended' \subseteq Turns
         /\ shown' \subseteq Requests /\ consumed' \subseteq Requests \X Turns
<1>1. PICK recorded \in BOOLEAN :
        ended' = IF conv = "busy" /\ recorded THEN ended \cup {turn} ELSE ended
  BY DEF Dies
<1>. QED
  BY <1>1 DEF Dies, TypeOK, ConversationTyped

\* The conversation, the run's opening, and a crash of cide.
LEMMA ConversationKept ==
  ASSUME TypeOK, CallsAtWork,
         \/ \E r \in Requests : LineShown(r) \/ ModelConsumes(r)
         \/ TurnEnds \/ TurnStarts \/ ProcessExits \/ RunAdmitted \/ RunOpens
         \/ SnapshotSaved \/ Crash
  PROVE  TypeOK' /\ CallsAtWork'
<1>. DEFINE Elsewhere == FileTyped /\ ApplyTyped /\ DeliveryTyped
            CallsOK == CallsTyped /\ CallsAtWork
<1>1. UNCHANGED <<file, tasksDone, apply, del>> => Elsewhere'
  BY DEF TypeOK, FileTyped, ApplyTyped, DeliveryTyped, file
<1>2. UNCHANGED call => CallsOK'
  BY DEF TypeOK, CallsTyped, CallsAtWork
<1>3. UNCHANGED ghosts => HistoryTyped'
  BY DEF TypeOK, HistoryTyped, ghosts
<1>4. ASSUME NEW r \in Requests, LineShown(r)
      PROVE  TypeOK' /\ CallsAtWork'
  BY <1>1, <1>2, <1>3, <1>4 DEF LineShown, TypeOK, ConversationTyped, openVars
<1>5. ASSUME NEW r \in Requests, ModelConsumes(r)
      PROVE  TypeOK' /\ CallsAtWork'
  BY <1>1, <1>2, <1>3, <1>5 DEF ModelConsumes, TypeOK, ConversationTyped, openVars
<1>6. CASE TurnEnds
  BY <1>1, <1>2, <1>3, <1>6 DEF TurnEnds, TypeOK, ConversationTyped, openVars
<1>7. CASE TurnStarts
  <2>1. turn' \in Turns /\ conv' = "busy" /\ budget' \in [Chances -> Nat]
    BY <1>7, TurnStartsTyped, SpendTyped DEF TurnStarts, Chances
  <2>. QED
    BY <1>1, <1>2, <1>3, <1>7, <2>1 DEF TurnStarts, TypeOK, ConversationTyped, openVars
<1>8. CASE ProcessExits
  <2>1. budget' \in [Chances -> Nat]
    BY <1>8, SpendTyped DEF ProcessExits, Chances
  <2>2. CallsOK'
    BY <1>8 DEF ProcessExits, CutsAll, Leases, TypeOK, CallsTyped, CallsAtWork
  <2>3. ConversationTyped'
    BY <1>8, DiesTyped DEF ProcessExits, TypeOK, ConversationTyped, openVars
  <2>. QED
    BY <1>1, <1>3, <1>8, <2>1, <2>2, <2>3 DEF ProcessExits, TypeOK
<1>9. CASE RunAdmitted
  BY <1>1, <1>2, <1>3, <1>9 DEF RunAdmitted, TypeOK, ConversationTyped, Openings
<1>10. CASE RunOpens
  <2>1. /\ conv' \in {"busy", "failed"} /\ turn' \in Turns
        /\ opened' \in [Requests -> Nat] /\ budget' \in [Chances -> Nat]
    <3>1. CASE StartsTurn /\ opened' = [opened EXCEPT ![opening.prompt] = @ + 1] /\ UNCHANGED budget
      <4>1. opening.prompt \in Requests => opened[opening.prompt] + 1 \in Nat
        BY DEF TypeOK, HistoryTyped
      <4>2. opened' \in [Requests -> Nat]
        BY <3>1, <4>1 DEF TypeOK, HistoryTyped
      <4>. QED
        BY <3>1, <4>2, TurnStartsTyped DEF TypeOK
    <3>2. CASE Spend("fail") /\ conv' = "failed" /\ UNCHANGED <<turn, opened>>
      BY <3>2, SpendTyped DEF TypeOK, HistoryTyped, ConversationTyped, Chances
    <3>. QED
      BY <1>10, <3>1, <3>2 DEF RunOpens
  <2>. QED
    BY <1>1, <1>2, <1>10, <2>1 DEF RunOpens, TypeOK, ConversationTyped, HistoryTyped, openVars
<1>11. CASE SnapshotSaved
  BY <1>1, <1>2, <1>3, <1>11 DEF SnapshotSaved, TypeOK, ConversationTyped, convVars
<1>12. CASE Crash
  <2>1. budget' \in [Chances -> Nat]
    BY <1>12, SpendTyped DEF Crash, Chances
  <2>2. CallsOK'
    BY <1>12 DEF Crash, Leases, TypeOK, CallsTyped, CallsAtWork, CallStates
  <2>3. ConversationTyped'
    BY <1>12, DiesTyped DEF Crash, TypeOK, ConversationTyped, convVars
  <2>4. FileTyped' /\ ApplyTyped' /\ DeliveryTyped'
    BY <1>12 DEF Crash, TypeOK, FileTyped, ApplyTyped, DeliveryTyped, NoApplication, NotThere, file
  <2>. QED
    BY <1>3, <1>12, <2>1, <2>2, <2>3, <2>4 DEF Crash, TypeOK
<1>. QED
  BY <1>4, <1>5, <1>6, <1>7, <1>8, <1>9, <1>10, <1>11, <1>12

\* The delivery thread takes a step of its own.
Delivering == (\E r \in Requests : DeliverFetches(r)) \/ Delivers

\* At work it has a request in hand, and stays so until it leaves.
LEMMA DeliveryKept ==
  ASSUME TypeOK, Delivering
  PROVE  DeliveryTyped' /\ (del.at # "idle" => del.of \in Requests)
<1>1. del.at # "idle" => del.of \in Requests
  BY DEF TypeOK, DeliveryTyped
<1>. SUFFICES DeliveryTyped'
  BY <1>1
<1>2. Leaves => DeliveryTyped'
  BY DEF Leaves, NotThere, DeliveryTyped
<1>3. ASSUME NEW at \in {"receipt", "attempts", "offer", "begin", "claim", "send", "unclaim"},
             NEW how \in {del.how, "write", "open", "opened"},
             del.at # "idle", del' = [del EXCEPT !.at = at, !.how = how]
      PROVE  DeliveryTyped'
  BY <1>3 DEF TypeOK, DeliveryTyped
<1>4. ASSUME NEW at \in {"receipt", "attempts", "offer", "begin", "claim", "send", "unclaim"},
             del.at # "idle", Goes(at)
      PROVE  DeliveryTyped'
  BY <1>4 DEF Goes, TypeOK, DeliveryTyped
<1>5. ASSUME NEW r \in Requests, DeliverFetches(r)
      PROVE  DeliveryTyped'
  BY <1>5, NoRequestIsNone DEF DeliverFetches, NotThere, DeliveryTyped, NoRequestIsNone
<1>6. CASE ReadsTranscript
  BY <1>2, <1>4, <1>6 DEF ReadsTranscript
<1>7. CASE ChecksAttempts
  BY <1>2, <1>4, <1>7 DEF ChecksAttempts
<1>8. CASE Offers
  BY <1>3, <1>8 DEF Offers
<1>9. CASE OfferWaits \/ OfferRequeues \/ OfferRefused
  BY <1>2, <1>9 DEF OfferWaits, OfferRequeues, OfferRefused
<1>10. CASE BeginLooksForWaiter
  BY <1>2, <1>4, <1>10 DEF BeginLooksForWaiter
<1>11. CASE BeginClaims
  BY <1>2, <1>4, <1>11 DEF BeginClaims
<1>12. CASE SendOpens \/ SendTyped \/ SendFails
  BY <1>2, <1>12 DEF SendOpens, SendTyped, SendFails
<1>13. CASE SendConfirmed
  BY <1>4, <1>13 DEF SendConfirmed
<1>14. CASE SendNotSent
  BY <1>4, <1>14 DEF SendNotSent
<1>15. CASE Unclaims \/ DeliverMarks
  BY <1>2, <1>15 DEF Unclaims, DeliverMarks
<1>. QED
  BY <1>1, <1>5, <1>6, <1>7, <1>8, <1>9, <1>10, <1>11, <1>12, <1>13, <1>14, <1>15
     DEF Delivering, Delivers, Submits

\* An answer that goes in, and one that does not.
LEMMA LandsTyped ==
  ASSUME TypeOK, Lands
  PROVE  /\ conv' \in {"idle", "busy", "gone"} /\ turn' \in Turns
         /\ sent' \in [Requests -> Nat]
<1>1. del.of \in Requests => sent[del.of] + 1 \in Nat
  BY DEF TypeOK, HistoryTyped
<1>2. sent' \in [Requests -> Nat]
  BY <1>1 DEF Lands, TypeOK, HistoryTyped
<1>. QED
  BY <1>2, TurnStartsTyped DEF Lands, TypeOK, ConversationTyped

\* The delivery thread: what it claims, sends, marks and gives back.
LEMMA DeliversTyped ==
  ASSUME TypeOK, CallsAtWork, Delivering
  PROVE  TypeOK' /\ CallsAtWork'
<1>. DEFINE Elsewhere == ApplyTyped /\ CallsTyped /\ CallsAtWork
            Sent == /\ conv' \in {"idle", "busy", "gone", "queued", "starting", "failed"}
                    /\ turn' \in Turns /\ sent' \in [Requests -> Nat]
                    /\ budget' \in [Chances -> Nat]
<1>0. DeliveryTyped' /\ (del.at # "idle" => del.of \in Requests)
  BY DeliveryKept
<1>1. UNCHANGED <<tasksDone, apply, call>> => Elsewhere'
  BY DEF TypeOK, ApplyTyped, CallsTyped, CallsAtWork
<1>2. UNCHANGED file => FileTyped'
  BY DEF TypeOK, FileTyped, file
<1>3. UNCHANGED <<origin, convVars, openVars>> => ConversationTyped'
  BY DEF TypeOK, ConversationTyped, convVars, openVars
<1>4. UNCHANGED ghosts => HistoryTyped'
  BY DEF TypeOK, HistoryTyped, ghosts
<1>5. ASSUME NEW r \in Requests, DeliverFetches(r)
      PROVE  TypeOK' /\ CallsAtWork'
  BY <1>0, <1>1, <1>2, <1>3, <1>4, <1>5 DEF DeliverFetches, TypeOK
<1>6. CASE ReadsTranscript \/ ChecksAttempts \/ Offers \/ OfferWaits \/ BeginLooksForWaiter
  BY <1>0, <1>1, <1>2, <1>3, <1>4, <1>6
     DEF ReadsTranscript, ChecksAttempts, Offers, OfferWaits, BeginLooksForWaiter, TypeOK
<1>7. CASE OfferRequeues
  <2>1. ConversationTyped'
    BY <1>0, <1>7 DEF OfferRequeues, TypeOK, ConversationTyped, Openings
  <2>. QED
    BY <1>0, <1>1, <1>2, <1>4, <1>7, <2>1 DEF OfferRequeues, TypeOK
<1>8. CASE OfferRefused
  <2>1. budget' \in [Chances -> Nat]
    BY <1>8, SpendTyped DEF OfferRefused, Chances
  <2>. QED
    BY <1>0, <1>1, <1>2, <1>3, <1>4, <1>8, <2>1 DEF OfferRefused, TypeOK
<1>9. CASE BeginClaims
  <2>1. FileTyped' /\ budget' \in [Chances -> Nat]
    <3>1. CASE NotSaved
      BY <3>1, NotSavedTyped
    <3>2. CASE ~NotSaved
      BY <1>0, <1>9, <3>2 DEF BeginClaims, TypeOK, FileTyped, file
    <3>. QED
      BY <3>1, <3>2
  <2>. QED
    BY <1>0, <1>1, <1>3, <1>4, <1>9, <2>1 DEF BeginClaims, TypeOK
<1>10. Sent /\ UNCHANGED <<origin, file, tasksDone, apply, call, ended, shown, consumed,
                           openVars, opened, written, dismissed>>
         => TypeOK' /\ CallsAtWork'
  BY <1>0, <1>1, <1>2 DEF TypeOK, ConversationTyped, HistoryTyped, openVars
<1>11. (Lands /\ UNCHANGED budget) \/ UNCHANGED <<conv, turn, sent, budget>> => Sent
  BY LandsTyped DEF TypeOK, ConversationTyped, HistoryTyped
<1>12. Spend("lost") /\ (Lands \/ UNCHANGED <<conv, turn, sent>>) => Sent
  BY LandsTyped, SpendTyped DEF TypeOK, ConversationTyped, HistoryTyped, Chances
<1>13. CASE SendOpens
  BY <1>10, <1>11, <1>12, <1>13 DEF SendOpens
<1>14. CASE SendConfirmed
  BY <1>10, <1>11, <1>14 DEF SendConfirmed
<1>15. CASE SendTyped
  BY <1>10, <1>11, <1>12, <1>15 DEF SendTyped
<1>16. CASE SendFails
  BY <1>10, <1>11, <1>12, <1>16 DEF SendFails
<1>17. CASE SendNotSent
  <2>1. budget' \in [Chances -> Nat]
    BY <1>17, SpendTyped DEF SendNotSent, TypeOK, Chances
  <2>. QED
    BY <1>0, <1>1, <1>2, <1>3, <1>4, <1>17, <2>1 DEF SendNotSent, TypeOK
<1>18. CASE Unclaims
  <2>1. FileTyped' /\ budget' \in [Chances -> Nat]
    <3>1. CASE NotSaved
      BY <3>1, NotSavedTyped
    <3>2. CASE ~NotSaved
      BY <1>18, <3>2 DEF Unclaims, TypeOK, FileTyped
    <3>. QED
      BY <3>1, <3>2
  <2>. QED
    BY <1>0, <1>1, <1>3, <1>4, <1>18, <2>1 DEF Unclaims, TypeOK
<1>19. CASE DeliverMarks
  <2>1. FileTyped' /\ budget' \in [Chances -> Nat]
    BY <1>0, <1>19, MarksDeliveredTyped, NotSavedTyped DEF DeliverMarks, TypeOK
  <2>. QED
    BY <1>0, <1>1, <1>3, <1>4, <1>19, <2>1 DEF DeliverMarks, TypeOK
<1>. QED
  BY <1>5, <1>6, <1>7, <1>8, <1>9, <1>13, <1>14, <1>15, <1>16, <1>17, <1>18, <1>19
     DEF Delivering, Delivers, Submits

\* Every step keeps the shapes of the state, and every call at its request.
LEMMA NextTyped ==
  ASSUME TypeOK, CallsAtWork, [Next]_vars
  PROVE  TypeOK' /\ CallsAtWork'
<1>1. CASE UNCHANGED vars
  BY <1>1 DEF vars, file, convVars, openVars, ghosts, TypeOK, FileTyped, ApplyTyped, CallsTyped,
       ConversationTyped, DeliveryTyped, HistoryTyped, CallsAtWork
<1>. QED
  BY <1>1, DecisionsTyped, CallsTypedKept, ConversationKept, DeliversTyped DEF Next, Delivering

------------------------------------------------------------------------------
(* Who writes what *)

\* The conversation that asks stays the one it was.
LEMMA OriginStays ==
  ASSUME [Next]_vars
  PROVE  origin' = origin
<1>1. CASE UNCHANGED vars
  BY <1>1 DEF vars
<1>2. ASSUME NEW r \in Requests, NEW resp \in {"yes", "no"},
             \/ Decides(r, resp) \/ Dismisses(r) \/ LineShown(r) \/ ModelConsumes(r)
      PROVE  origin' = origin
  BY <1>2 DEF Decides, Dismisses, LineShown, ModelConsumes
<1>3. CASE Apply
  BY <1>3 DEF Apply, ApplyBegins, ApplySaves, ApplyResets, ApplyFails, ApplyCompletes
<1>4. ASSUME NEW c \in Calls, \/ CallAsks(c) \/ CallCutOff(c) \/ Serves(c)
                              \/ \E r \in Requests : CallReconnects(c, r)
      PROVE  origin' = origin
  BY <1>4 DEF CallAsks, CallCutOff, Serves, CallReconnects, CallReads, CallRecordsReply, CallWrites,
       CallFinishes, CallFails
<1>5. CASE \/ TurnEnds \/ TurnStarts \/ ProcessExits \/ RunAdmitted \/ RunOpens
           \/ SnapshotSaved \/ Crash
  BY <1>5 DEF TurnEnds, TurnStarts, ProcessExits, RunAdmitted, RunOpens, SnapshotSaved, Crash
<1>6. CASE Delivering
  BY <1>6 DEF Delivering, Delivers, Submits, DeliverFetches, ReadsTranscript, ChecksAttempts, Offers,
       OfferWaits, OfferRequeues, OfferRefused, BeginLooksForWaiter, BeginClaims, SendOpens,
       SendConfirmed, SendTyped, SendFails, SendNotSent, Unclaims, DeliverMarks
<1>. QED
  BY <1>1, <1>2, <1>3, <1>4, <1>5, <1>6 DEF Next, Delivering

\* The operations that write rows and claims of the saved file.
LEMMA FileActions ==
  ASSUME [Next]_vars
  PROVE  \/ UNCHANGED <<row, attempts>>
         \/ \E r \in Requests, resp \in {"yes", "no"} : Decides(r, resp)
         \/ \E r \in Requests : Dismisses(r)
         \/ ApplyResets \/ ApplyCompletes
         \/ \E c \in Calls : CallAsks(c) \/ CallFinishes(c)
         \/ BeginClaims \/ Unclaims \/ DeliverMarks
<1>1. CASE UNCHANGED vars
  BY <1>1 DEF vars, file
<1>2. ASSUME NEW r \in Requests, LineShown(r) \/ ModelConsumes(r)
      PROVE  UNCHANGED <<row, attempts>>
  BY <1>2 DEF LineShown, ModelConsumes, file
<1>3. CASE (\E r \in Requests : ApplyBegins(r)) \/ ApplySaves \/ ApplyFails
  BY <1>3 DEF ApplyBegins, ApplySaves, ApplyFails, NotSaved, file
<1>4. ASSUME NEW c \in Calls, \/ CallCutOff(c) \/ (\E r \in Requests : CallReconnects(c, r))
                              \/ CallReads(c) \/ CallRecordsReply(c) \/ CallWrites(c) \/ CallFails(c)
      PROVE  UNCHANGED <<row, attempts>>
  BY <1>4 DEF CallCutOff, CallReconnects, CallReads, CallRecordsReply, CallWrites, CallFails,
       NotSaved, file
<1>5. CASE \/ TurnEnds \/ TurnStarts \/ ProcessExits \/ RunAdmitted \/ RunOpens
           \/ SnapshotSaved \/ Crash
  BY <1>5 DEF TurnEnds, TurnStarts, ProcessExits, RunAdmitted, RunOpens, SnapshotSaved, Crash, file
<1>6. CASE \/ \E r \in Requests : DeliverFetches(r)
           \/ ReadsTranscript \/ ChecksAttempts \/ Submits \/ BeginLooksForWaiter
  BY <1>6 DEF Submits, DeliverFetches, ReadsTranscript, ChecksAttempts, Offers, OfferWaits,
       OfferRequeues, OfferRefused, BeginLooksForWaiter, SendOpens, SendConfirmed, SendTyped,
       SendFails, SendNotSent, file
<1>. QED
  BY <1>1, <1>2, <1>3, <1>4, <1>5, <1>6 DEF Next, Apply, Serves, Delivers

\* What a step may do to one row: it is asked, decided, closed, reset, or what
\* was decided counts as applied.
IsAsked(r) == /\ row[r].resp = "absent" /\ row'[r] = Asked
              /\ \A s \in Requests : row[s].resp # "none" /\ (s # r => row'[s] = row[s])
IsDecided(r) == /\ row[r].resp = "none"
                /\ \E resp \in {"yes", "no"} :
                     row'[r] = [row[r] EXCEPT !.resp = resp, !.applying = MustApply(resp)]
IsClosed(r) == Settled(r) /\ row'[r] = [row[r] EXCEPT !.delivered = TRUE]
IsReset(r) == /\ apply.at = "tasks" /\ apply.of = r /\ apply' = NoApplication
              /\ origin.asks = "moves"
              /\ row'[r] = [row[r] EXCEPT !.resp = "none", !.applying = FALSE]
IsApplied(r) == /\ apply.at = "complete" /\ apply.of = r /\ apply' = NoApplication
                /\ row'[r] = [row[r] EXCEPT !.applying = FALSE]

\* A call that is over, and the delivery thread, have a settled row in hand.
LEMMA HandsInUse ==
  ASSUME TypeOK, CallsAtWork, HandsHoldSettled
  PROVE  /\ del.at # "idle" => del.of \in Requests /\ Settled(del.of)
         /\ \A c \in Calls : call[c].st \in {"read", "reply", "written"}
              => call[c].of \in Requests /\ Settled(call[c].of)
  BY DEF TypeOK, DeliveryTyped, CallsAtWork, HandsHoldSettled, InHand

\* Each operation on the file does one of these to each row.
LEMMA RowSteps ==
  ASSUME TypeOK, CallsAtWork, HandsHoldSettled, [Next]_vars, NEW r \in Requests
  PROVE  \/ row'[r] = row[r]
         \/ IsAsked(r) \/ IsDecided(r) \/ IsClosed(r) \/ IsReset(r) \/ IsApplied(r)
<1>1. CASE UNCHANGED row
  BY <1>1
<1>2. ASSUME NEW q \in Requests, NEW resp \in {"yes", "no"}, Decides(q, resp)
      PROVE  row'[r] = row[r] \/ IsDecided(r)
  BY <1>2 DEF Decides, IsDecided, TypeOK, FileTyped
<1>3. ASSUME NEW q \in Requests, Settled(q), MarksDelivered(q)
      PROVE  row'[r] = row[r] \/ IsClosed(r)
  BY <1>3 DEF MarksDelivered, IsClosed, TypeOK, FileTyped
<1>4. ASSUME NEW q \in Requests, Dismisses(q)
      PROVE  row'[r] = row[r] \/ IsClosed(r)
  BY <1>3, <1>4 DEF Dismisses, Settled
<1>5. CASE ApplyResets
  BY <1>5 DEF ApplyResets, IsReset, TypeOK, FileTyped
<1>6. CASE ApplyCompletes
  BY <1>6 DEF ApplyCompletes, NotSaved, file, IsApplied, TypeOK, FileTyped
<1>7. ASSUME NEW c \in Calls, CallAsks(c)
      PROVE  row'[r] = row[r] \/ IsAsked(r)
  BY <1>7 DEF CallAsks, IsAsked, TypeOK, FileTyped
<1>8. ASSUME NEW c \in Calls, CallFinishes(c)
      PROVE  row'[r] = row[r] \/ IsClosed(r)
  <2>1. call[c].of \in Requests /\ Settled(call[c].of)
    BY <1>8, HandsInUse DEF CallFinishes
  <2>. QED
    BY <1>3, <1>8, <2>1 DEF CallFinishes, NotSaved, file
<1>9. CASE BeginClaims \/ Unclaims
  BY <1>9 DEF BeginClaims, Unclaims, NotSaved, file
<1>10. CASE DeliverMarks
  <2>1. del.of \in Requests /\ Settled(del.of)
    BY <1>10, HandsInUse DEF DeliverMarks
  <2>. QED
    BY <1>3, <1>10, <2>1 DEF DeliverMarks, NotSaved, file
<1>. QED
  BY <1>1, <1>2, <1>4, <1>5, <1>6, <1>7, <1>8, <1>9, <1>10, FileActions

\* A settled row keeps its decision, and a closed one stays closed.
LEMMA SettledStays ==
  ASSUME TypeOK, CallsAtWork, Applying, HandsHoldSettled, [Next]_vars,
         NEW r \in Requests, Settled(r)
  PROVE  Settled(r)' /\ row'[r].resp = row[r].resp /\ (row[r].delivered => row'[r].delivered)
<1>1. row[r] \in Rows
  BY DEF TypeOK, FileTyped
<1>2. CASE row'[r] = row[r]
  BY <1>2 DEF Settled, Decided
<1>3. ~IsAsked(r) /\ ~IsDecided(r)
  BY DEF IsAsked, IsDecided, Settled, Decided
<1>4. CASE IsClosed(r)
  BY <1>1, <1>4 DEF IsClosed, Settled, Decided, Rows
<1>5. ~IsReset(r) /\ ~IsApplied(r)
  BY DEF IsReset, IsApplied, Applying, Settled
<1>. QED
  BY <1>2, <1>3, <1>4, <1>5, RowSteps

------------------------------------------------------------------------------
(* Applying a decision *)

\* Only apply_response moves the application and the tracker.
LEMMA ApplySteps ==
  ASSUME [Next]_vars
  PROVE  \/ UNCHANGED <<apply, tasksDone>>
         \/ \E r \in Requests : ApplyBegins(r)
         \/ ApplySaves
         \/ apply' = NoApplication /\ UNCHANGED tasksDone
<1>1. CASE UNCHANGED vars
  BY <1>1 DEF vars
<1>2. ASSUME NEW r \in Requests, NEW resp \in {"yes", "no"},
             \/ Decides(r, resp) \/ Dismisses(r) \/ LineShown(r) \/ ModelConsumes(r)
      PROVE  UNCHANGED <<apply, tasksDone>>
  BY <1>2 DEF Decides, Dismisses, LineShown, ModelConsumes
<1>3. CASE ApplyResets \/ ApplyFails \/ ApplyCompletes \/ Crash
  BY <1>3 DEF ApplyResets, ApplyFails, ApplyCompletes, Crash
<1>4. ASSUME NEW c \in Calls, \/ CallAsks(c) \/ CallCutOff(c) \/ Serves(c)
                              \/ \E r \in Requests : CallReconnects(c, r)
      PROVE  UNCHANGED <<apply, tasksDone>>
  BY <1>4 DEF CallAsks, CallCutOff, Serves, CallReconnects, CallReads, CallRecordsReply, CallWrites,
       CallFinishes, CallFails
<1>5. CASE \/ TurnEnds \/ TurnStarts \/ ProcessExits \/ RunAdmitted \/ RunOpens \/ SnapshotSaved
  BY <1>5 DEF TurnEnds, TurnStarts, ProcessExits, RunAdmitted, RunOpens, SnapshotSaved
<1>6. CASE Delivering
  BY <1>6 DEF Delivering, Delivers, Submits, DeliverFetches, ReadsTranscript, ChecksAttempts, Offers,
       OfferWaits, OfferRequeues, OfferRefused, BeginLooksForWaiter, BeginClaims, SendOpens,
       SendConfirmed, SendTyped, SendFails, SendNotSent, Unclaims, DeliverMarks
<1>. QED
  BY <1>1, <1>2, <1>3, <1>4, <1>5, <1>6 DEF Next, Apply, Delivering

\* Whatever is decided, applied, reset or closed, `Applying` holds on.
LEMMA ApplyingKept ==
  ASSUME TypeOK, CallsAtWork, Applying, HandsHoldSettled, [Next]_vars
  PROVE  Applying'
<1>0. row \in [Requests -> Rows] /\ origin' = origin
  BY OriginStays DEF TypeOK, FileTyped
<1>1. tasksDone \subseteq tasksDone'
  BY ApplySteps DEF ApplyBegins, ApplySaves
<1>2. ASSUME NEW r \in Requests
      PROVE  /\ row'[r].applying => Decided(r)'
             /\ Settled(r)' /\ MustApply(row[r].resp)' => r \in tasksDone'
             /\ row'[r].delivered => Settled(r)'
  <2>00. row[r] \in Rows
    BY <1>0
  <2>0. /\ row[r].applying => Decided(r)
        /\ Settled(r) /\ MustApply(row[r].resp) => r \in tasksDone
        /\ row[r].delivered => Settled(r)
    BY DEF Applying
  <2>1. CASE row'[r] = row[r]
    <3>1. /\ row'[r].applying <=> row[r].applying
          /\ row'[r].delivered <=> row[r].delivered
          /\ row'[r].resp = row[r].resp /\ origin'.asks = origin.asks
      BY <1>0, <2>1
    <3>. QED
      BY <1>1, <2>0, <3>1 DEF Settled, Decided, MustApply
  <2>2. CASE IsAsked(r)
    BY <2>2 DEF IsAsked, Asked, Absent, Settled, Decided
  <2>3. CASE IsDecided(r)
    <3>1. PICK resp \in {"yes", "no"} :
            row'[r] = [row[r] EXCEPT !.resp = resp, !.applying = MustApply(resp)]
      BY <2>3 DEF IsDecided
    <3>2. ~row[r].delivered
      BY <2>0, <2>3 DEF IsDecided, Settled, Decided
    <3>3. row'[r].resp = resp /\ (row'[r].applying <=> MustApply(resp)) /\ ~row'[r].delivered
      BY <2>00, <3>1, <3>2 DEF Rows, MustApply
    <3>4. origin'.asks = origin.asks
      BY <1>0
    <3>. QED
      BY <3>3, <3>4 DEF Settled, Decided, MustApply
  <2>4. CASE IsClosed(r)
    <3>1. Settled(r)' /\ row'[r].resp = row[r].resp /\ ~row'[r].applying
      BY <2>00, <2>4 DEF IsClosed, Settled, Decided, Rows
    <3>2. Settled(r) /\ origin'.asks = origin.asks
      BY <1>0, <2>4 DEF IsClosed
    <3>. QED
      BY <1>1, <2>0, <3>1, <3>2 DEF MustApply
  <2>5. CASE IsReset(r)
    <3>1. ~row[r].delivered
      BY <2>5 DEF IsReset, Applying, Settled
    <3>. QED
      BY <2>00, <2>5, <3>1 DEF IsReset, Settled, Decided, Rows
  <2>6. CASE IsApplied(r)
    <3>1. row[r].applying /\ Decided(r) /\ r \in tasksDone
      BY <2>6 DEF IsApplied, Applying
    <3>2. Decided(r)' /\ ~row'[r].applying
      BY <2>00, <2>6, <3>1 DEF IsApplied, Decided, Rows
    <3>. QED
      BY <1>1, <3>1, <3>2 DEF Settled
  <2>. QED
    BY <2>1, <2>2, <2>3, <2>4, <2>5, <2>6, RowSteps
<1>3. apply'.at # "idle" => row'[apply'.of].applying
  <2>1. CASE UNCHANGED apply /\ apply.at # "idle"
    <3>1. /\ apply.of \in Requests /\ row[apply.of].applying
          /\ Decided(apply.of) /\ apply'.at # "idle"
      BY <2>1 DEF TypeOK, ApplyTyped, Applying
    <3>2. ~IsAsked(apply.of) /\ ~IsDecided(apply.of) /\ ~IsClosed(apply.of)
      BY <3>1 DEF IsAsked, IsDecided, IsClosed, Settled, Decided
    <3>3. ~IsReset(apply.of) /\ ~IsApplied(apply.of)
      BY <3>1 DEF IsReset, IsApplied, NoApplication
    <3>4. row'[apply.of] = row[apply.of]
      BY <3>1, <3>2, <3>3, RowSteps
    <3>. QED
      BY <2>1, <3>1, <3>4
  <2>2. ASSUME NEW r \in Requests, ApplyBegins(r)
        PROVE  row'[apply'.of].applying
    BY <2>2 DEF ApplyBegins, file
  <2>3. CASE ApplySaves
    BY <2>3 DEF ApplySaves, file, Applying, TypeOK, ApplyTyped
  <2>. QED
    BY <2>1, <2>2, <2>3, ApplySteps DEF NoApplication
<1>4. apply'.at = "complete" => apply'.of \in tasksDone'
  BY ApplySteps DEF ApplyBegins, ApplySaves, NoApplication, Applying, TypeOK, ApplyTyped
<1>. QED
  BY <1>2, <1>3, <1>4 DEF Applying

------------------------------------------------------------------------------
(* The hands an answer passes through *)

\* Who is not the delivery thread, moves neither it nor what it sends; it alone
\* dies with cide.
LEMMA NotDelivering ==
  ASSUME [Next]_vars, ~Delivering
  PROVE  UNCHANGED sent /\ (UNCHANGED del \/ del' = NotThere)
<1>1. CASE UNCHANGED vars
  BY <1>1 DEF vars, ghosts
<1>2. ASSUME NEW r \in Requests, NEW resp \in {"yes", "no"},
             \/ Decides(r, resp) \/ Dismisses(r) \/ LineShown(r) \/ ModelConsumes(r)
      PROVE  UNCHANGED <<sent, del>>
  BY <1>2 DEF Decides, Dismisses, LineShown, ModelConsumes, ghosts
<1>3. CASE Apply
  BY <1>3 DEF Apply, ApplyBegins, ApplySaves, ApplyResets, ApplyFails, ApplyCompletes, ghosts
<1>4. ASSUME NEW c \in Calls, \/ CallAsks(c) \/ CallCutOff(c) \/ Serves(c)
                              \/ \E r \in Requests : CallReconnects(c, r)
      PROVE  UNCHANGED <<sent, del>>
  BY <1>4 DEF CallAsks, CallCutOff, Serves, CallReconnects, CallReads, CallRecordsReply, CallWrites,
       CallFinishes, CallFails, ghosts
<1>5. CASE \/ TurnEnds \/ TurnStarts \/ ProcessExits \/ RunAdmitted \/ RunOpens
           \/ SnapshotSaved \/ Crash
  BY <1>5 DEF TurnEnds, TurnStarts, ProcessExits, RunAdmitted, RunOpens, SnapshotSaved, Crash, ghosts
<1>. QED
  BY <1>1, <1>2, <1>3, <1>4, <1>5 DEF Next, Delivering

\* The thread takes a request whose row is settled, and keeps to it.  It sends
\* only what it claimed, and has a receipt only for what it sent or found.
LEMMA DelSteps ==
  ASSUME TypeOK, [Next]_vars
  PROVE  \/ UNCHANGED del
         \/ del' = NotThere
         \/ \E r \in Requests : DeliverFetches(r)
         \/ /\ del.at # "idle" /\ del'.of = del.of
            /\ del'.at = "send" => BeginClaims
            /\ del'.at = "unclaim" => SendNotSent
            /\ del'.at = "receipt" => SendConfirmed \/ ReadsTranscript
<1>1. CASE ~Delivering
  BY <1>1, NotDelivering
<1>. DEFINE Keeps == del.at # "idle" /\ del'.of = del.of
<1>2. ASSUME NEW at, Goes(at)
      PROVE  del'.at = at /\ del'.of = del.of
  BY <1>2 DEF Goes, TypeOK, DeliveryTyped
<1>3. CASE ReadsTranscript
  BY <1>2, <1>3 DEF ReadsTranscript, Leaves
<1>4. CASE ChecksAttempts \/ BeginLooksForWaiter
  BY <1>2, <1>4 DEF ChecksAttempts, BeginLooksForWaiter, Leaves
<1>5. CASE Offers
  BY <1>5 DEF Offers, TypeOK, DeliveryTyped
<1>6. CASE OfferWaits \/ OfferRequeues \/ OfferRefused \/ SendOpens \/ SendTyped \/ SendFails
           \/ Unclaims \/ DeliverMarks
  BY <1>6 DEF OfferWaits, OfferRequeues, OfferRefused, SendOpens, SendTyped, SendFails, Unclaims,
       DeliverMarks, Leaves
<1>7. CASE BeginClaims
  BY <1>2, <1>7 DEF BeginClaims, Leaves
<1>8. CASE SendConfirmed
  BY <1>2, <1>8 DEF SendConfirmed
<1>9. CASE SendNotSent
  BY <1>2, <1>9 DEF SendNotSent
<1>. QED
  BY <1>1, <1>3, <1>4, <1>5, <1>6, <1>7, <1>8, <1>9 DEF Delivering, Delivers, Submits

\* What is sent is what the thread holds, and it has then done with sending.
LEMMA SentSteps ==
  ASSUME TypeOK, [Next]_vars
  PROVE  \/ UNCHANGED sent
         \/ /\ del.at = "send" /\ del.of \in Requests
            /\ sent' = [sent EXCEPT ![del.of] = @ + 1]
            /\ del'.at \notin {"send", "unclaim"}
            /\ UNCHANGED <<row, attempts>>
<1>0. del.at # "idle" => del.of \in Requests
  BY DEF TypeOK, DeliveryTyped
<1>1. CASE ~Delivering
  BY <1>1, NotDelivering
<1>2. CASE (\E r \in Requests : DeliverFetches(r)) \/ ReadsTranscript \/ ChecksAttempts \/ Offers
           \/ OfferWaits \/ OfferRequeues \/ OfferRefused \/ BeginLooksForWaiter \/ BeginClaims
           \/ SendNotSent \/ Unclaims \/ DeliverMarks
  BY <1>2 DEF DeliverFetches, ReadsTranscript, ChecksAttempts, Offers, OfferWaits, OfferRequeues,
       OfferRefused, BeginLooksForWaiter, BeginClaims, SendNotSent, Unclaims, DeliverMarks, ghosts
<1>3. CASE SendOpens \/ SendTyped \/ SendFails
  BY <1>0, <1>3 DEF SendOpens, SendTyped, SendFails, Lands, Leaves, NotThere, file
<1>4. CASE SendConfirmed
  BY <1>0, <1>4 DEF SendConfirmed, Lands, Goes, file, TypeOK, DeliveryTyped
<1>. QED
  BY <1>1, <1>2, <1>3, <1>4 DEF Delivering, Delivers, Submits

\* A run opens with its opening, which is the answer the thread requeued it
\* for, or what the snapshot remembers of that.
LEMMA OpeningSteps ==
  ASSUME TypeOK, [Next]_vars
  PROVE  /\ \/ UNCHANGED opened
            \/ opened' = [opened EXCEPT ![opening.prompt] = @ + 1]
         /\ opening'.prompt \in {opening.prompt, snapshot.prompt, del.of}
         /\ snapshot'.prompt \in {opening.prompt, snapshot.prompt, del.of}
<1>1. CASE UNCHANGED vars
  BY <1>1 DEF vars, ghosts, openVars
<1>2. ASSUME NEW r \in Requests, NEW resp \in {"yes", "no"},
             \/ Decides(r, resp) \/ Dismisses(r) \/ LineShown(r) \/ ModelConsumes(r)
      PROVE  UNCHANGED <<opened, opening, snapshot>>
  BY <1>2 DEF Decides, Dismisses, LineShown, ModelConsumes, ghosts, openVars
<1>3. CASE Apply
  BY <1>3 DEF Apply, ApplyBegins, ApplySaves, ApplyResets, ApplyFails, ApplyCompletes, ghosts, openVars
<1>4. ASSUME NEW c \in Calls, \/ CallAsks(c) \/ CallCutOff(c) \/ Serves(c)
                              \/ \E r \in Requests : CallReconnects(c, r)
      PROVE  UNCHANGED <<opened, opening, snapshot>>
  BY <1>4 DEF CallAsks, CallCutOff, Serves, CallReconnects, CallReads, CallRecordsReply, CallWrites,
       CallFinishes, CallFails, ghosts, openVars
<1>5. CASE TurnEnds \/ TurnStarts \/ ProcessExits
  BY <1>5 DEF TurnEnds, TurnStarts, ProcessExits, ghosts, openVars
<1>6. CASE RunAdmitted
  BY <1>6 DEF RunAdmitted, ghosts, TypeOK, ConversationTyped, Openings
<1>7. CASE RunOpens
  BY <1>7 DEF RunOpens, openVars
<1>8. CASE SnapshotSaved \/ Crash
  BY <1>8 DEF SnapshotSaved, Crash, ghosts
<1>9. CASE OfferRequeues
  BY <1>9 DEF OfferRequeues, ghosts
<1>10. CASE Delivering /\ ~OfferRequeues
  BY <1>10 DEF Delivering, Delivers, Submits, DeliverFetches, ReadsTranscript, ChecksAttempts, Offers,
       OfferWaits, OfferRefused, BeginLooksForWaiter, BeginClaims, SendOpens,
       SendConfirmed, SendTyped, SendFails, SendNotSent, Unclaims, DeliverMarks, ghosts, openVars
<1>. QED
  BY <1>1, <1>2, <1>3, <1>4, <1>5, <1>6, <1>7, <1>8, <1>9, <1>10 DEF Next, Delivering

\* Who is not a tool call moves none, but to cut or to end it, and writes no reply.
LEMMA NotCalling ==
  ASSUME [Next]_vars,
         ~ \E c \in Calls : \/ CallAsks(c) \/ CallCutOff(c) \/ Serves(c)
                            \/ \E r \in Requests : CallReconnects(c, r)
  PROVE  UNCHANGED written /\ (UNCHANGED call \/ ProcessExits \/ Crash)
<1>1. CASE UNCHANGED vars
  BY <1>1 DEF vars, ghosts
<1>2. ASSUME NEW r \in Requests, NEW resp \in {"yes", "no"},
             \/ Decides(r, resp) \/ Dismisses(r) \/ LineShown(r) \/ ModelConsumes(r)
      PROVE  UNCHANGED <<written, call>>
  BY <1>2 DEF Decides, Dismisses, LineShown, ModelConsumes, ghosts
<1>3. CASE Apply
  BY <1>3 DEF Apply, ApplyBegins, ApplySaves, ApplyResets, ApplyFails, ApplyCompletes, ghosts
<1>4. CASE TurnEnds \/ TurnStarts \/ RunAdmitted \/ RunOpens \/ SnapshotSaved
  BY <1>4 DEF TurnEnds, TurnStarts, RunAdmitted, RunOpens, SnapshotSaved, ghosts
<1>5. CASE ProcessExits \/ Crash
  BY <1>5 DEF ProcessExits, Crash, ghosts
<1>6. CASE Delivering
  BY <1>6 DEF Delivering, Delivers, Submits, DeliverFetches, ReadsTranscript, ChecksAttempts, Offers,
       OfferWaits, OfferRequeues, OfferRefused, BeginLooksForWaiter, BeginClaims, SendOpens,
       SendConfirmed, SendTyped, SendFails, SendNotSent, Unclaims, DeliverMarks, ghosts
<1>. QED
  BY <1>1, <1>2, <1>3, <1>4, <1>5, <1>6 DEF Next, Delivering

\* A call has an answer in hand
Answering(c) == call[c].st \in {"read", "reply", "written"}

\* It has since it read it, and the same one; a reply that counts as written was.
LEMMA CallSteps ==
  ASSUME TypeOK, [Next]_vars, NEW c \in Calls, Answering(c)'
  PROVE  /\ call'[c].of = call[c].of /\ call'[c].turn = call[c].turn
         /\ CallReads(c) \/ Answering(c)
         /\ call'[c].st = "written" => call[c].st = "written" \/ CallWrites(c)
<1>0. call \in [Calls -> [st : CallStates, of : Requests \cup {NoRequest},
                          turn : {0} \cup Turns, cut : BOOLEAN]]
  BY DEF TypeOK, CallsTyped
<1>1. ASSUME NEW d \in Calls, \/ CallAsks(d) \/ CallCutOff(d) \/ Serves(d)
                              \/ \E r \in Requests : CallReconnects(d, r)
      PROVE  /\ call'[c].of = call[c].of /\ call'[c].turn = call[c].turn
             /\ CallReads(c) \/ Answering(c)
             /\ call'[c].st = "written" => call[c].st = "written" \/ CallWrites(c)
  <2>1. CASE call'[c] = call[c]
    BY <2>1 DEF Answering
  <2>2. CASE CallReads(d) /\ d = c
    BY <1>0, <2>2 DEF CallReads
  <2>3. CASE CallRecordsReply(d) /\ d = c
    BY <1>0, <2>3 DEF CallRecordsReply, Answering
  <2>4. CASE CallWrites(d) /\ d = c
    BY <1>0, <2>4 DEF CallWrites, Answering
  <2>5. CASE CallCutOff(d) /\ d = c
    BY <1>0, <2>5 DEF CallCutOff, Answering
  <2>6. ~((CallFinishes(d) \/ CallFails(d)) /\ d = c)
    BY <1>0 DEF CallFinishes, CallFails, Answering
  <2>7. ~((CallAsks(d) \/ \E r \in Requests : CallReconnects(d, r)) /\ d = c)
    BY <1>0 DEF CallAsks, CallReconnects, CallBegins, NoCall, Answering
  <2>8. d # c => call'[c] = call[c]
    BY <1>0, <1>1 DEF CallAsks, CallCutOff, Serves, CallReconnects, CallReads, CallRecordsReply,
         CallWrites, CallFinishes, CallFails, CallBegins
  <2>. QED
    BY <1>1, <2>1, <2>2, <2>3, <2>4, <2>5, <2>6, <2>7, <2>8 DEF Serves
<1>2. CASE UNCHANGED call
  BY <1>2 DEF Answering
<1>3. CASE ProcessExits
  BY <1>0, <1>3 DEF ProcessExits, CutsAll, Answering
<1>4. CASE Crash
  BY <1>0, <1>4 DEF Crash, Answering, Leases
<1>. QED
  BY <1>1, <1>2, <1>3, <1>4, NotCalling

\* Nobody takes an answer into hand before it may be told.
LEMMA HandsTakeSettled ==
  ASSUME TypeOK, CallsAtWork, [Next]_vars, NEW r \in Requests, InHand(r)'
  PROVE  InHand(r) \/ Settled(r)
<1>0. r # NoRequest
  BY NoRequestIsNone DEF NoRequestIsNone
<1>1. CASE WrittenBack(r)'
  <2>1. PICK t \in Turns : <<r, t>> \in written'
    BY <1>1 DEF WrittenBack
  <2>2. CASE <<r, t>> \in written
    BY <2>2 DEF InHand, ToldIt, WrittenBack
  <2>3. CASE <<r, t>> \notin written
    <3>1. PICK c \in Calls : CallWrites(c)
      BY <2>1, <2>3, NotCalling DEF CallAsks, CallCutOff, Serves, CallReconnects, CallReads,
           CallRecordsReply, CallFinishes, CallFails, ghosts
    <3>. QED
      BY <2>1, <2>3, <3>1 DEF CallWrites, InHand
  <2>. QED
    BY <2>2, <2>3
<1>2. CASE Submitted(r)' /\ ~Submitted(r)
  <2>1. sent'[r] # sent[r] \/ opened'[r] # opened[r]
    BY <1>2 DEF Submitted
  <2>2. del.of = r \/ opening.prompt = r
    BY <2>1, SentSteps, OpeningSteps DEF TypeOK, HistoryTyped
  <2>. QED
    BY <2>2 DEF InHand
<1>3. CASE Submitted(r)
  BY <1>3 DEF InHand, ToldIt
<1>4. CASE opening'.prompt = r \/ snapshot'.prompt = r
  BY <1>4, OpeningSteps DEF InHand
<1>5. CASE del'.of = r
  <2>1. CASE del'.of = del.of
    BY <1>5, <2>1 DEF InHand
  <2>2. ASSUME NEW q \in Requests, DeliverFetches(q)
        PROVE  Settled(r)
    BY <1>5, <2>2 DEF DeliverFetches, NotThere, Settled
  <2>3. del' # NotThere
    BY <1>0, <1>5 DEF NotThere
  <2>. QED
    BY <2>1, <2>2, <2>3, DelSteps
<1>6. ASSUME NEW c \in Calls, Answering(c)', call'[c].of = r
      PROVE  InHand(r) \/ Settled(r)
  BY <1>6, CallSteps DEF CallReads, Answering, Settled, InHand
<1>. QED
  BY <1>1, <1>2, <1>3, <1>4, <1>5, <1>6 DEF InHand, ToldIt, Answering

\* So what is in anybody's hand stays settled.
LEMMA HandsKept ==
  ASSUME TypeOK, CallsAtWork, Applying, HandsHoldSettled, [Next]_vars
  PROVE  HandsHoldSettled'
<1>. SUFFICES ASSUME NEW r \in Requests, InHand(r)'
              PROVE  Settled(r)'
  BY DEF HandsHoldSettled
<1>1. Settled(r)
  BY HandsTakeSettled DEF HandsHoldSettled
<1>. QED
  BY <1>1, SettledStays

------------------------------------------------------------------------------
(* Claims *)

\* A claim goes when its row is closed, or when the submission it was made for
\* is known not to have happened; and only an open row is claimed.
LEMMA AttemptSteps ==
  ASSUME TypeOK, CallsAtWork, [Next]_vars, NEW r \in Requests
  PROVE  /\ r \in attempts => \/ r \in attempts' \/ row'[r].delivered
                              \/ del.at = "unclaim" /\ del.of = r /\ del' = NotThere
         /\ r \in attempts' => r \in attempts \/ ~row'[r].delivered
<1>0. row \in [Requests -> Rows] /\ (del.at # "idle" => del.of \in Requests)
  BY DEF TypeOK, FileTyped, DeliveryTyped
<1>1. ASSUME NEW q \in Requests, MarksDelivered(q)
      PROVE  /\ r \in attempts => r \in attempts' \/ row'[r].delivered
             /\ r \in attempts' => r \in attempts
  BY <1>0, <1>1 DEF MarksDelivered, Rows
<1>2. CASE UNCHANGED attempts
  BY <1>2
<1>3. ASSUME NEW q \in Requests, Dismisses(q)
      PROVE  /\ r \in attempts => r \in attempts' \/ row'[r].delivered
             /\ r \in attempts' => r \in attempts
  BY <1>1, <1>3 DEF Dismisses
<1>4. ASSUME NEW c \in Calls, CallFinishes(c), ~UNCHANGED attempts
      PROVE  /\ r \in attempts => r \in attempts' \/ row'[r].delivered
             /\ r \in attempts' => r \in attempts
  BY <1>1, <1>4 DEF CallFinishes, CallsAtWork, NotSaved, file
<1>5. CASE BeginClaims /\ ~UNCHANGED attempts
  BY <1>5 DEF BeginClaims, Claimable, NotSaved, file
<1>6. CASE Unclaims /\ ~UNCHANGED attempts
  BY <1>6 DEF Unclaims, Leaves, NotSaved, file
<1>7. CASE DeliverMarks /\ ~UNCHANGED attempts
  BY <1>0, <1>1, <1>7 DEF DeliverMarks, NotSaved, file
<1>8. \/ UNCHANGED attempts
      \/ \E q \in Requests : Dismisses(q)
      \/ \E c \in Calls : CallFinishes(c)
      \/ BeginClaims \/ Unclaims \/ DeliverMarks
  BY FileActions DEF Decides, ApplyResets, ApplyCompletes, CallAsks, NotSaved, file
<1>. QED
  BY <1>2, <1>3, <1>4, <1>5, <1>6, <1>7, <1>8

\* What is closed stays so.
LEMMA ClosedStays ==
  ASSUME TypeOK, CallsAtWork, Applying, HandsHoldSettled, [Next]_vars,
         NEW r \in Requests, row[r].delivered
  PROVE  row'[r].delivered
  BY SettledStays DEF Applying

\* A claim outlasts its submission, so there is no second one.
LEMMA ClaimKeptStays ==
  ASSUME TypeOK, CallsAtWork, Applying, HandsHoldSettled, ClaimKept, ClaimedOnce, [Next]_vars
  PROVE  ClaimKept' /\ ClaimedOnce'
<1>0. /\ sent \in [Requests -> Nat]
      /\ del.at # "idle" => del.of \in Requests
  BY DEF TypeOK, HistoryTyped, DeliveryTyped
<1>. DEFINE Claimed(r) == r \in attempts \/ row[r].delivered
<1>1. ASSUME NEW r \in Requests, Claimed(r), ~(del.at = "unclaim" /\ del.of = r /\ del' = NotThere)
      PROVE  Claimed(r)'
  BY <1>1, AttemptSteps, ClosedStays
<1>2. ASSUME NEW r \in Requests
      PROVE  (sent'[r] > 0 => Claimed(r)') /\ sent'[r] <= 1
  <2>1. CASE sent'[r] = sent[r]
    BY <1>0, <1>1, <2>1 DEF ClaimKept, ClaimedOnce
  <2>2. CASE sent'[r] # sent[r]
    <3>1. /\ del.at = "send" /\ del.of = r /\ sent'[r] = sent[r] + 1
          /\ UNCHANGED <<row, attempts>>
      BY <1>0, <2>2, SentSteps
    <3>. QED
      BY <3>1 DEF ClaimKept
  <2>. QED
    BY <2>1, <2>2
<1>3. ASSUME del'.at \in {"send", "unclaim"}
      PROVE  sent'[del'.of] = 0 /\ Claimed(del.of)' /\ del'.of = del.of
  <2>0. UNCHANGED sent
    BY <1>3, SentSteps
  <2>1. CASE UNCHANGED del
    <3>1. /\ del.of \in Requests /\ Claimed(del.of) /\ sent[del.of] = 0
          /\ del' # NotThere /\ del'.of = del.of
      BY <1>0, <1>3, <2>1 DEF ClaimKept, NotThere
    <3>2. Claimed(del.of)'
      <4>1. del.of \in attempts => del.of \in attempts' \/ row'[del.of].delivered
        BY <3>1, AttemptSteps
      <4>2. row[del.of].delivered => row'[del.of].delivered
        BY <3>1, ClosedStays
      <4>. QED
        BY <2>1, <3>1, <4>1, <4>2
    <3>. QED
      BY <2>0, <2>1, <3>1, <3>2
  <2>2. CASE BeginClaims
    <3>1. del.of \in attempts' /\ Claimable(del.of) /\ del'.of = del.of
      BY <1>3, <2>2 DEF BeginClaims, Leaves, Goes, NotThere, TypeOK, DeliveryTyped
    <3>2. sent[del.of] = 0
      BY <1>0, <2>2, <3>1 DEF ClaimKept, Claimable, BeginClaims
    <3>. QED
      BY <2>0, <3>1, <3>2
  <2>3. CASE SendNotSent
    BY <2>0, <2>3 DEF SendNotSent, Goes, ClaimKept, file, TypeOK, DeliveryTyped
  <2>. QED
    <3>1. del' # NotThere
      BY <1>3 DEF NotThere
    <3>2. ASSUME NEW q \in Requests, DeliverFetches(q)
          PROVE  del'.at = "transcript"
      BY <3>2 DEF NotThere, DeliverFetches
    <3>. QED
      BY <1>3, <2>1, <2>2, <2>3, <3>1, <3>2, DelSteps
<1>. QED
  BY <1>2, <1>3 DEF ClaimKept, ClaimedOnce

------------------------------------------------------------------------------
(* Receipts *)

\* Transcripts lose nothing, and only a person removes a decision.
LEMMA RecordSteps ==
  ASSUME [Next]_vars
  PROVE  /\ consumed \subseteq consumed'
         /\ UNCHANGED shown \/ \E r \in Requests : LineShown(r)
         /\ UNCHANGED dismissed \/ \E r \in Requests : Dismisses(r)
<1>1. CASE UNCHANGED vars
  BY <1>1 DEF vars, convVars, ghosts
<1>2. ASSUME NEW r \in Requests, NEW resp \in {"yes", "no"},
             \/ Decides(r, resp) \/ Dismisses(r) \/ LineShown(r) \/ ModelConsumes(r)
      PROVE  /\ consumed \subseteq consumed'
             /\ UNCHANGED shown \/ LineShown(r)
             /\ UNCHANGED dismissed \/ Dismisses(r)
  BY <1>2 DEF Decides, Dismisses, LineShown, ModelConsumes, convVars, ghosts
<1>3. CASE Apply
  BY <1>3 DEF Apply, ApplyBegins, ApplySaves, ApplyResets, ApplyFails, ApplyCompletes, convVars, ghosts
<1>4. ASSUME NEW c \in Calls, \/ CallAsks(c) \/ CallCutOff(c) \/ Serves(c)
                              \/ \E r \in Requests : CallReconnects(c, r)
      PROVE  UNCHANGED <<shown, consumed, dismissed>>
  BY <1>4 DEF CallAsks, CallCutOff, Serves, CallReconnects, CallReads, CallRecordsReply, CallWrites,
       CallFinishes, CallFails, convVars, ghosts
<1>5. CASE \/ TurnEnds \/ TurnStarts \/ ProcessExits \/ RunAdmitted \/ RunOpens
           \/ SnapshotSaved \/ Crash
  BY <1>5 DEF TurnEnds, TurnStarts, ProcessExits, RunAdmitted, RunOpens, SnapshotSaved, Crash, Dies,
       convVars, ghosts
<1>6. CASE Delivering
  BY <1>6 DEF Delivering, Delivers, Submits, DeliverFetches, ReadsTranscript, ChecksAttempts, Offers,
       OfferWaits, OfferRequeues, OfferRefused, BeginLooksForWaiter, BeginClaims, SendOpens,
       SendConfirmed, SendTyped, SendFails, SendNotSent, Unclaims, DeliverMarks, convVars, ghosts
<1>. QED
  BY <1>1, <1>2, <1>3, <1>4, <1>5, <1>6 DEF Next, Delivering

\* What the conversation was told, it stays told.
LEMMA ToldStays ==
  ASSUME TypeOK, [Next]_vars, NEW r \in Requests
  PROVE  /\ Submitted(r) => Submitted(r)'
         /\ written \subseteq written'
         /\ HasReceipt(r) => HasReceipt(r)'
<1>1. /\ sent[r] \in Nat /\ opened[r] \in Nat
      /\ sent'[r] \in {sent[r], sent[r] + 1} /\ opened'[r] \in {opened[r], opened[r] + 1}
  BY SentSteps, OpeningSteps DEF TypeOK, HistoryTyped
<1>2. Submitted(r) => Submitted(r)'
  BY <1>1 DEF Submitted
<1>3. written \subseteq written'
  BY NotCalling DEF CallAsks, CallCutOff, Serves, CallReconnects, CallReads, CallRecordsReply,
     CallWrites, CallFinishes, CallFails, ghosts
<1>4. Codex' = Codex
  BY OriginStays DEF Codex
<1>. QED
  BY <1>2, <1>3, <1>4, RecordSteps DEF HasReceipt

\* Receipts are found in the transcript, confirmed by the harness, or written.
LEMMA ReceiptsKept ==
  ASSUME TypeOK, CallsAtWork, Receipts, [Next]_vars
  PROVE  Receipts'
<1>1. ASSUME NEW r \in shown'
      PROVE  r \in Requests /\ Submitted(r)'
  <2>1. r \in Requests /\ Submitted(r)
    BY RecordSteps DEF LineShown, Receipts
  <2>. QED
    BY <2>1, ToldStays
<1>2. ASSUME del'.at = "receipt"
      PROVE  HasReceipt(del.of)'
  <2>0. del' # NotThere
    BY <1>2 DEF NotThere
  <2>1. ASSUME NEW q \in Requests, DeliverFetches(q)
        PROVE  del'.at = "transcript"
    BY <2>1 DEF NotThere, DeliverFetches
  <2>2. CASE UNCHANGED del
    <3>1. del.of \in Requests /\ HasReceipt(del.of)
      BY <1>2, <2>2 DEF Receipts, TypeOK, DeliveryTyped
    <3>2. PICK r \in Requests : r = del.of /\ HasReceipt(r)
      BY <3>1
    <3>. QED
      BY <2>2, <3>2, ToldStays
  <2>3. CASE SendConfirmed
    <3>1. del.of \in Requests /\ del'.of = del.of
      BY <2>3 DEF SendConfirmed, Goes, TypeOK, DeliveryTyped
    <3>2. sent'[del.of] = sent[del.of] + 1 /\ sent[del.of] \in Nat /\ opened'[del.of] \in Nat
      BY <2>3, <3>1 DEF SendConfirmed, Lands, TypeOK, HistoryTyped
    <3>. QED
      BY <3>1, <3>2 DEF HasReceipt, Submitted
  <2>4. CASE ReadsTranscript
    <3>1. /\ del.of \in Requests /\ del'.of = del.of /\ Received(del.of)
          /\ UNCHANGED <<origin, consumed, sent, opened>>
      BY <1>2, <2>4 DEF ReadsTranscript, Goes, Leaves, NotThere, TypeOK, DeliveryTyped, convVars, ghosts
    <3>2. replies[del.of] \subseteq Turns
      BY <3>1 DEF TypeOK, FileTyped
    <3>3. HasReceipt(del.of)
      BY <3>1, <3>2 DEF Received, Receipts, HasReceipt
    <3>. QED
      BY <3>1, <3>3 DEF HasReceipt, Submitted, Codex
  <2>. QED
    BY <1>2, <2>0, <2>1, <2>2, <2>3, <2>4, DelSteps
<1>3. ASSUME NEW c \in Calls, call'[c].st = "written"
      PROVE  <<call'[c].of, call'[c].turn>> \in written'
  <2>1. /\ call'[c].of = call[c].of /\ call'[c].turn = call[c].turn
        /\ call[c].st = "written" \/ CallWrites(c)
    BY <1>3, CallSteps DEF Answering
  <2>2. call[c].st = "written" => <<call[c].of, call[c].turn>> \in written /\ call[c].of \in Requests
    BY DEF Receipts, CallsAtWork
  <2>. QED
    BY <2>1, <2>2, ToldStays DEF CallWrites
<1>. QED
  BY <1>1, <1>2, <1>3 DEF Receipts

\* A row is closed by the person, by a call that wrote its reply, or by the
\* delivery thread with its receipt.
LEMMA ClosingSteps ==
  ASSUME TypeOK, CallsAtWork, [Next]_vars, NEW r \in Requests,
         ~row[r].delivered, row'[r].delivered
  PROVE  \/ Dismisses(r)
         \/ \E c \in Calls : CallFinishes(c) /\ ~Codex /\ call[c].of = r
         \/ DeliverMarks /\ del.of = r
<1>0. /\ row \in [Requests -> Rows]
      /\ del.at # "idle" => del.of \in Requests
      /\ apply.at # "idle" => apply.of \in Requests
  BY DEF TypeOK, FileTyped, DeliveryTyped, ApplyTyped
<1>1. row'[r] # row[r]
  OBVIOUS
<1>2. ASSUME NEW q \in Requests, MarksDelivered(q)
      PROVE  r = q
  BY <1>0, <1>1, <1>2 DEF MarksDelivered
<1>3. ASSUME NEW q \in Requests, NEW resp \in {"yes", "no"}
      PROVE  ~Decides(q, resp)
  BY <1>0 DEF Decides, Rows
<1>4. ASSUME NEW q \in Requests, Dismisses(q)
      PROVE  Dismisses(r)
  BY <1>2, <1>4 DEF Dismisses
<1>5. ~ApplyResets /\ ~ApplyCompletes
  BY <1>0 DEF ApplyResets, ApplyCompletes, NotSaved, file, Rows
<1>6. ASSUME NEW c \in Calls
      PROVE  ~CallAsks(c)
  BY <1>0 DEF CallAsks, Asked, Absent
<1>7. ASSUME NEW c \in Calls, CallFinishes(c)
      PROVE  ~Codex /\ call[c].of = r
  BY <1>1, <1>2, <1>7 DEF CallFinishes, NotSaved, file, CallsAtWork
<1>8. CASE BeginClaims \/ Unclaims
  BY <1>1, <1>8 DEF BeginClaims, Unclaims, NotSaved, file
<1>9. CASE DeliverMarks
  BY <1>0, <1>1, <1>2, <1>9 DEF DeliverMarks, NotSaved, file
<1>. QED
  BY <1>1, <1>3, <1>4, <1>5, <1>6, <1>7, <1>8, <1>9, FileActions

\* Closing needs such a receipt, or the person.
LEMMA DeliveredWasToldKept ==
  ASSUME TypeOK, CallsAtWork, Applying, HandsHoldSettled, Receipts, DeliveredWasTold, [Next]_vars
  PROVE  DeliveredWasTold'
<1>. SUFFICES ASSUME NEW r \in Requests, row'[r].delivered, r \notin dismissed'
              PROVE  HasReceipt(r)' \/ (~Codex' /\ WrittenBack(r)')
  BY DEF DeliveredWasTold, HasReceipt
<1>0. r \notin dismissed /\ Codex' = Codex
  BY RecordSteps, OriginStays DEF Dismisses, Codex
<1>1. HasReceipt(r) \/ (~Codex /\ WrittenBack(r))
  <2>1. CASE row[r].delivered
    BY <1>0, <2>1 DEF DeliveredWasTold, HasReceipt
  <2>2. ASSUME NEW c \in Calls, CallFinishes(c), ~Codex, call[c].of = r
        PROVE  WrittenBack(r)
    BY <2>2 DEF CallFinishes, Receipts, CallsAtWork, WrittenBack
  <2>3. DeliverMarks /\ del.of = r => HasReceipt(r)
    BY DEF DeliverMarks, Receipts
  <2>4. ~Dismisses(r)
    BY DEF Dismisses
  <2>. QED
    BY <2>1, <2>2, <2>3, <2>4, ClosingSteps
<1>. QED
  BY <1>0, <1>1, ToldStays DEF WrittenBack

------------------------------------------------------------------------------
(* Decisions *)

\* What was dismissed is closed, and no claim comes of it.
LEMMA DismissedStep ==
  ASSUME TypeOK, CallsAtWork, Applying, HandsHoldSettled, DismissedClosed, [Next]_vars,
         NEW r \in dismissed
  PROVE  row'[r].delivered /\ r \notin attempts'
<1>1. r \in Requests
  BY DEF TypeOK, HistoryTyped
<1>. QED
  BY <1>1, ClosedStays, AttemptSteps DEF DismissedClosed

\* And what is dismissed is closed by that step.
LEMMA DismissedClosedKept ==
  ASSUME TypeOK, CallsAtWork, Applying, HandsHoldSettled, DismissedClosed, [Next]_vars
  PROVE  DismissedClosed'
<1>1. ASSUME NEW r \in Requests, Dismisses(r)
      PROVE  /\ dismissed' = dismissed \cup {r}
             /\ row'[r].delivered /\ r \notin attempts'
  BY <1>1 DEF Dismisses, MarksDelivered, TypeOK, FileTyped, Rows
<1>. QED
  BY <1>1, DismissedStep, RecordSteps DEF DismissedClosed

\* A question is asked only when none is open, and nothing but a reset of moves
\* opens an older one.
LEMMA OneOpenDecisionKept ==
  ASSUME TypeOK, CallsAtWork, Applying, HandsHoldSettled, OneOpenDecision, [Next]_vars
  PROVE  OneOpenDecision'
<1>. SUFFICES ASSUME origin'.asks # "moves", NEW r \in Requests, NEW s \in Requests,
                     row'[r].resp = "none", row'[s].resp = "none"
              PROVE  r = s
  BY DEF OneOpenDecision
<1>0. origin' = origin /\ row \in [Requests -> Rows]
  BY OriginStays DEF TypeOK, FileTyped
<1>1. ASSUME NEW q \in Requests, row'[q].resp = "none"
      PROVE  row[q].resp = "none" \/ IsAsked(q)
  <2>1. ~IsDecided(q)
    BY <1>0, <1>1 DEF IsDecided, Rows
  <2>2. ~IsClosed(q)
    BY <1>0, <1>1 DEF IsClosed, Settled, Decided, Rows
  <2>3. ~IsReset(q)
    BY <1>0 DEF IsReset
  <2>4. ~IsApplied(q)
    BY <1>0, <1>1 DEF IsApplied, Applying, Decided, Rows
  <2>. QED
    BY <1>1, <2>1, <2>2, <2>3, <2>4, RowSteps
<1>2. CASE IsAsked(r) \/ IsAsked(s)
  BY <1>0, <1>2 DEF IsAsked
<1>3. CASE row[r].resp = "none" /\ row[s].resp = "none"
  BY <1>0, <1>3 DEF OneOpenDecision
<1>. QED
  BY <1>1, <1>2, <1>3

------------------------------------------------------------------------------
(* The invariant *)

\* Nothing was asked yet.
LEMMA InitInv == Init => IInv
<1>. SUFFICES ASSUME Init
              PROVE  IInv
  OBVIOUS
<1>1. origin \in Conversations /\ budget \in [Chances -> Nat]
  BY CasesAreRecords DEF Init, CasesAreRecords
<1>2. FileTyped /\ ApplyTyped /\ CallsTyped /\ DeliveryTyped /\ HistoryTyped
  BY NoRequestIsNone DEF Init, FileTyped, ApplyTyped, CallsTyped, DeliveryTyped, HistoryTyped,
     Rows, Absent, NoApplication, NoCall, CallStates, NotThere, NoRequestIsNone
<1>3. ConversationTyped
  BY <1>1, Bounds DEF Init, ConversationTyped, Bounds, Turns, Openings
<1>4. CallsAtWork
  BY DEF Init, CallsAtWork, NoCall
<1>5. \A r \in Requests : ~InHand(r)
  BY NoRequestIsNone DEF Init, InHand, ToldIt, Submitted, WrittenBack, NotThere, NoCall, NoRequestIsNone
<1>6. Applying /\ HandsHoldSettled
  BY <1>5 DEF Init, Applying, HandsHoldSettled, Absent, NoApplication, Settled, Decided
<1>7. ClaimKept /\ ClaimedOnce /\ Receipts /\ DeliveredWasTold /\ DismissedClosed /\ OneOpenDecision
  BY DEF Init, ClaimKept, ClaimedOnce, Receipts, DeliveredWasTold, DismissedClosed, OneOpenDecision,
     Absent, NotThere, NoCall
<1>. QED
  BY <1>1, <1>2, <1>3, <1>4, <1>6, <1>7 DEF IInv, TypeOK

\* Every step of every actor keeps the invariant.
LEMMA NextInv ==
  ASSUME IInv, [Next]_vars
  PROVE  IInv'
<1>. USE DEF IInv
<1>1. TypeOK' /\ CallsAtWork'
  BY NextTyped
<1>2. Applying' /\ HandsHoldSettled'
  BY ApplyingKept, HandsKept
<1>3. ClaimKept' /\ ClaimedOnce'
  BY ClaimKeptStays
<1>4. Receipts' /\ DeliveredWasTold'
  BY ReceiptsKept, DeliveredWasToldKept
<1>5. DismissedClosed' /\ OneOpenDecision'
  BY DismissedClosedKept, OneOpenDecisionKept
<1>. QED
  BY <1>1, <1>2, <1>3, <1>4, <1>5

\* The invariant of every behaviour: Init of the file and its actors, and Next
THEOREM Invariant == Spec => []IInv
<1>1. Init => IInv
  BY InitInv
<1>2. IInv /\ [Next]_vars => IInv'
  BY NextInv
<1>. QED
  BY <1>1, <1>2, PTL DEF Spec

\* Every reachable state has the shapes of TypeOK: the saved file, the calls'
\* leases, the conversation and the two threads at work.
THEOREM TypesHold == Spec => []TypeOK
<1>1. IInv => TypeOK
  BY DEF IInv
<1>. QED
  BY <1>1, Invariant, PTL

\* No answer is ever claimed and sent twice, however often saves fail, input is
\* lost, the delivery is retried, or cide dies: delivery_attempts, begin.
THEOREM ClaimsAreSentOnce == Spec => []ClaimedOnce
<1>1. IInv => ClaimedOnce
  BY DEF IInv
<1>. QED
  BY <1>1, Invariant, PTL

\* Nobody is told an answer that the tracker has still to take: the `applying`
\* of decide, tested by wait and by deliver_answer before they take a row.
THEOREM ToldAfterApplied == Spec => []AppliedFirst
<1>1. IInv => AppliedFirst
  BY DEF IInv, HandsHoldSettled, InHand, Applying, AppliedFirst
<1>. QED
  BY <1>1, Invariant, PTL

\* No row is closed on a reply or a receipt that never was: on_reply's
\* completion, received, and the marking of deliver_answer.
THEOREM ClosedOnEvidence == Spec => []DeliveredWasTold
<1>1. IInv => DeliveredWasTold
  BY DEF IInv
<1>. QED
  BY <1>1, Invariant, PTL

\* A retried call never opens the conversation's question a second time: create.
THEOREM AskedOnce == Spec => []OneOpenDecision
<1>1. IInv => OneOpenDecision
  BY DEF IInv
<1>. QED
  BY <1>1, Invariant, PTL

\* A decision the conversation has been told of, or is being told of, is never
\* taken back or replaced: decide and reset_application.
THEOREM DecisionsAreFinal == Spec => ToldIsFinal
<1>. DEFINE Final == \A r \in Requests : ToldIt(r) => row'[r].resp = row[r].resp
<1>1. IInv /\ [Next]_vars => Final
  BY SettledStays DEF IInv, HandsHoldSettled, InHand
<1>2. IInv /\ [Next]_vars => [Final]_vars
  BY <1>1
<1>. QED
  BY <1>2, Invariant, PTL DEF Spec, ToldIsFinal

\* Whatever the delivery thread had under way, a dismissed decision stays
\* closed and unclaimed: dismiss, begin.
THEOREM DismissalIsFinal == Spec => DismissedStays
<1>. DEFINE Closed == \A r \in Requests : r \in dismissed => row'[r].delivered /\ r \notin attempts'
<1>1. IInv /\ [Next]_vars => [Closed]_vars
  BY DismissedStep DEF IInv
<1>. QED
  BY <1>1, Invariant, PTL DEF Spec, DismissedStays
=============================================================================
