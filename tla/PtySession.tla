----------------------------- MODULE PtySession -----------------------------
(***************************************************************************)
(* A terminal session of crates/cide-pty/src/lib.rs and the panes that     *)
(* show it (cide-app's session commands, ui/src/panes/sessionSink.ts).     *)
(*                                                                         *)
(* Output is a stream of bytes numbered from 1; a state holds how far each *)
(* party has got.  The reader thread fills a bounded queue, the coalescer  *)
(* feeds the mirror at once and the sinks a flush later, the thread that   *)
(* receives IPC messages attaches, detaches and acknowledges, the reaper   *)
(* publishes the exit.  What a pane shows is `at`, the last byte it holds, *)
(* and it is `torn` once a frame did not start where it had stopped.       *)
(*                                                                         *)
(* Left out: jobs, the line renderer, resizes, and what a screen looks     *)
(* like: a snapshot of the mirror is the number of bytes it has taken.     *)
(***************************************************************************)
EXTENDS Integers, FiniteSets, SequencesExt

CONSTANTS
    Panes, Watchers,
    Depth,        \* READ_QUEUE_DEPTH
    MaxChunk,     \* what one read of the transport may return
    FlushBytes,   \* FLUSH_BYTES
    MaxFrame,     \* MAX_FRAME
    High, Low,    \* CreditPolicy
    ScreenLen,    \* how many bytes a snapshot of the screen takes
    Cases         \* bounds: records of [bytes, attaches, panes, watchers, leaves, ends]

ASSUME Sizes ==
    /\ {Depth, MaxChunk, FlushBytes, MaxFrame, ScreenLen} \subseteq Nat \ {0}
    /\ FlushBytes <= MaxFrame /\ Low \in Nat /\ High \in Nat /\ Low < High
ASSUME CasesAreBounds ==
    Cases \subseteq [bytes : Nat, attaches : Nat, panes : SUBSET Panes,
                     watchers : SUBSET Watchers, leaves : Nat, ends : SUBSET {"output", "child"}]

VARIABLES
    case,       \* the bounds of this behaviour
    hung, dead,                   \* the child: its output closed, its process gone
    read, queued, queue, readerDone,    \* the reader thread: bytes it has read and sent on;
                                  \* its channel, the ends of the chunks in it
    co, mirror, sent, armed, control,   \* the coalescer: `pending` is sent+1 .. mirror
    sinks,      \* Vec<Registered>
    main,       \* what the thread of the IPC messages is doing
    minted, attachments, loose,   \* sink ids; the registry's attachment per pane; history:
                                  \* ids that were not cut from the stream at one point
    pane, inbox, unacked,         \* the webview: a pane's link, its frames, its acks under way
    exited, slot, waiting, calling, called   \* the exit: flag, ExitSlot, callbacks

childVars == <<hung, dead>>
readerVars == <<read, queued, queue, readerDone>>
coVars == <<co, mirror, sent, armed, control>>
mainVars == <<main, minted, attachments, loose>>
paneVars == <<pane, unacked>>
exitVars == <<slot, waiting, calling, called>>
vars == <<case, childVars, readerVars, coVars, sinks, mainVars, paneVars, inbox, exited, exitVars>>

NoSink == 0
Free == [at |-> "free", pane |-> NoSink, id |-> NoSink, screen |-> 0]
Out == [link |-> "out", id |-> NoSink, at |-> 0, torn |-> FALSE]

Pending == mirror - sent
Attached(p) == pane[p].link = "live"
(* The bytes the pane will hold once it has parsed what it was delivered. *)
Given(p) == IF inbox[p] = <<>> THEN pane[p].at ELSE Last(inbox[p]).upTo

Init ==
    /\ case \in Cases
    /\ hung = FALSE /\ dead = FALSE
    /\ read = 0 /\ queued = 0 /\ queue = <<>> /\ readerDone = FALSE
    /\ co = "select" /\ mirror = 0 /\ sent = 0 /\ armed = FALSE /\ control = <<>>
    /\ sinks = <<>>
    /\ main = Free /\ minted = 0 /\ attachments = [p \in Panes |-> NoSink] /\ loose = {}
    /\ pane = [p \in Panes |-> Out] /\ inbox = [p \in Panes |-> <<>>]
    /\ unacked = [p \in Panes |-> 0]
    /\ exited = FALSE /\ slot = "Running" /\ waiting = {} /\ calling = {}
    /\ called = [w \in Watchers |-> 0]

-----------------------------------------------------------------------------
(* The child and the reader thread                                         *)

(* Every process that held the slave side has closed it: not only the child's. *)
OutputCloses ==
    /\ "output" \in case.ends /\ ~hung /\ hung' = TRUE
    /\ UNCHANGED <<case, dead, readerVars, coVars, sinks, mainVars, paneVars, inbox, exited, exitVars>>

ChildDies ==
    /\ "child" \in case.ends /\ ~dead /\ dead' = TRUE
    /\ UNCHANGED <<case, hung, readerVars, coVars, sinks, mainVars, paneVars, inbox, exited, exitVars>>

(* The child has written n bytes and the reader has them in hand. *)
Reads ==
    /\ ~hung /\ read = queued
    /\ \E n \in 1 .. MaxChunk : read + n <= case.bytes /\ read' = read + n
    /\ UNCHANGED <<case, childVars, queued, queue, readerDone, coVars, sinks, mainVars, paneVars, inbox, exited, exitVars>>

\* Mutant: an unbounded channel
HasRoomAlways == TRUE
HasRoom == Len(queue) < Depth

(* The send that blocks: while it does, nobody drains the child. *)
Queues ==
    /\ queued < read /\ HasRoom
    /\ queue' = Append(queue, read) /\ queued' = read
    /\ UNCHANGED <<case, childVars, read, readerDone, coVars, sinks, mainVars, paneVars, inbox, exited, exitVars>>

ReaderEnds ==
    /\ hung /\ read = queued /\ ~readerDone
    /\ readerDone' = TRUE
    /\ UNCHANGED <<case, childVars, read, queued, queue, coVars, sinks, mainVars, paneVars, inbox, exited, exitVars>>

-----------------------------------------------------------------------------
(* broadcast: one frame to every sink, its credit applied                  *)

Registered(id, p) ==
    [id |-> id, pane |-> p, owed |-> 0, choked |-> FALSE, missed |-> FALSE, late |-> FALSE]

Bytes(from, upTo) == [from |-> from, upTo |-> upTo, len |-> upTo - from]
Screen(at) == [from |-> at, upTo |-> at, len |-> ScreenLen]
Tick == Bytes(0, 0)

Skipped(s) ==
    IF s.choked THEN s.owed > Low /\ ~s.late ELSE s.owed >= High

Choked(s) == [s EXCEPT !.choked = TRUE, !.missed = TRUE]

\* Mutant: a tick never carries the catch-up
DeliveredIfNew(s, frame) == ~Skipped(s) /\ frame # Tick

(* A tick carries no output: a sink that is up to date has nothing to receive. *)
Delivered(s, frame) == ~Skipped(s) /\ (frame # Tick \/ s.missed)

(* A sink that owes a catch-up is sent the screen instead of the frame. *)
Payload(s, frame) == IF s.missed THEN Screen(mirror) ELSE frame

(* deliver() answers false: the channel is gone, and the sink with it. *)
Refused(s, frame) == Delivered(s, frame) /\ pane[s.pane].link = "gone"

(* One sink's turn under the lock: choked, clear again, or forgiven its debt. *)
Served(s, frame) ==
    LET forgiven == s.choked /\ s.owed > Low
        owed == IF forgiven THEN 0 ELSE s.owed
    IN IF Skipped(s) THEN Choked(s)
       ELSE [s EXCEPT !.choked = FALSE, !.late = @ /\ ~forgiven, !.missed = FALSE,
                      !.owed = IF Delivered(s, frame) THEN owed + Payload(s, frame).len ELSE owed]

(* A frame is the pane's only while its link to that very sink is open. *)
Hears(p, s) == s.pane = p /\ s.id = pane[p].id /\ pane[p].link \in {"asking", "live"}

(* The k-th of a set of places. *)
Place(P, k) == CHOOSE i \in P : Cardinality(P \cap (1 .. i)) = k

SinksAfter(frame) ==
    LET kept == {i \in DOMAIN sinks : ~Refused(sinks[i], frame)}
    IN [k \in 1 .. Cardinality(kept) |-> Served(sinks[Place(kept, k)], frame)]

Heard(p, frame) ==
    {i \in DOMAIN sinks : Hears(p, sinks[i]) /\ Delivered(sinks[i], frame)}

InboxAfter(p, frame) ==
    LET heard == Heard(p, frame)
    IN inbox[p] \o [k \in 1 .. Cardinality(heard) |-> Payload(sinks[Place(heard, k)], frame)]

Delivers(frame) == inbox' = [p \in Panes |-> InboxAfter(p, frame)]

Broadcast(frame) == sinks' = SinksAfter(frame) /\ Delivers(frame)

Rest == Bytes(sent, mirror)

(* Sinks that are sent the screen when it shows more than the frame does:   *)
(* the bytes in between are yet to be sent to them too.                     *)
DrawnAhead(frame) ==
    {sinks[i].id : i \in {j \in DOMAIN sinks :
                            sinks[j].missed /\ Delivered(sinks[j], frame) /\ frame.upTo < mirror}}

-----------------------------------------------------------------------------
(* The coalescer thread                                                    *)

Ready == queue # <<>>

(* Event::Output: the mirror first, whoever is attached. *)
Takes ==
    /\ co = "select" /\ Ready
    /\ mirror' = Head(queue) /\ queue' = Tail(queue)
    /\ armed' = TRUE /\ co' = "flush"
    /\ UNCHANGED <<case, childVars, read, queued, readerDone, sent, control, sinks, mainVars, paneVars, inbox, exited, exitVars>>

Splits ==
    /\ co = "flush" /\ Pending >= MaxFrame
    /\ Broadcast(Bytes(sent, sent + MaxFrame))
    /\ sent' = sent + MaxFrame
    /\ loose' = loose \cup DrawnAhead(Bytes(sent, sent + MaxFrame))
    /\ UNCHANGED <<case, childVars, readerVars, co, mirror, armed, control, main, minted, attachments, paneVars, exited, exitVars>>

Flushes ==
    /\ co = "flush" /\ Pending < MaxFrame
    /\ IF Pending >= FlushBytes
         THEN Broadcast(Rest) /\ sent' = mirror /\ armed' = FALSE
         ELSE UNCHANGED <<sinks, inbox, sent, armed>>
    /\ co' = "select"
    /\ UNCHANGED <<case, childVars, readerVars, mirror, control, mainVars, paneVars, exited, exitVars>>

(* Event::Idle: what is pending, then a tick that serves credit. *)
Idles ==
    /\ co = "select" /\ queue = <<>> /\ control = <<>> /\ ~readerDone
    /\ IF Pending > 0
         THEN Broadcast(Rest) /\ sent' = mirror /\ armed' = FALSE /\ co' = "tick"
         ELSE Broadcast(Tick) /\ UNCHANGED <<sent, armed, co>>
    /\ UNCHANGED <<case, childVars, readerVars, mirror, control, mainVars, paneVars, exited, exitVars>>

Ticks ==
    /\ co = "tick" /\ co' = "select"
    /\ Broadcast(Tick)
    /\ UNCHANGED <<case, childVars, readerVars, mirror, sent, armed, control, mainVars, paneVars, exited, exitVars>>

Answered(asked) ==
    main' = IF main.at = "asked" /\ main.id = asked.id
              THEN [main EXCEPT !.at = "answered", !.screen = mirror] ELSE main

\* Mutant: registered and rendered without the flush
ServeAttachMidStream ==
    /\ co = "select" /\ control # <<>>
    /\ sinks' = Append(sinks, Registered(Head(control).id, Head(control).pane))
    /\ Answered(Head(control))
    /\ control' = Tail(control)
    /\ UNCHANGED <<case, childVars, readerVars, co, mirror, sent, armed, inbox, minted, attachments, loose, paneVars, exited, exitVars>>

(* serve_control's Attach: flush, register, render.  A caller that has given *)
(* up is not there to take the reply; its sink stays.                        *)
ServeAttach ==
    /\ co = "select" /\ control # <<>>
    /\ LET asked == Head(control)
       IN /\ sinks' = Append(IF Pending > 0 THEN SinksAfter(Rest) ELSE sinks,
                             Registered(asked.id, asked.pane))
          /\ Answered(asked)
    /\ control' = Tail(control)
    /\ IF Pending > 0
         THEN Delivers(Rest) /\ sent' = mirror /\ armed' = FALSE
         ELSE UNCHANGED <<inbox, sent, armed>>
    /\ UNCHANGED <<case, childVars, readerVars, co, mirror, minted, attachments, loose, paneVars, exited, exitVars>>

(* Event::Eof: the last flush, the flag, and the requests still queued go   *)
(* with the channel.                                                        *)
Ends ==
    /\ co = "select" /\ queue = <<>> /\ readerDone
    /\ IF Pending > 0 THEN Broadcast(Rest) ELSE UNCHANGED <<sinks, inbox>>
    /\ sent' = mirror /\ exited' = TRUE
    /\ co' = "gone" /\ control' = <<>>
    /\ UNCHANGED <<case, childVars, readerVars, mirror, armed, mainVars, paneVars, exitVars>>

(* The watchdog's time is up for a choked sink: no ack for that long. *)
WatchdogPasses ==
    /\ \E i \in DOMAIN sinks :
           /\ sinks[i].choked /\ ~sinks[i].late
           /\ sinks' = [sinks EXCEPT ![i].late = TRUE]
    /\ UNCHANGED <<case, childVars, readerVars, coVars, mainVars, paneVars, inbox, exited, exitVars>>

-----------------------------------------------------------------------------
(* The thread of the IPC messages: session_attach, session_detach, session_ack *)

AttachAsks(p) ==
    /\ main.at = "free" /\ pane[p].link = "out" /\ p \in case.panes /\ minted < case.attaches
    /\ minted' = minted + 1
    /\ main' = [at |-> IF exited THEN "push" ELSE "asked", pane |-> p, id |-> minted + 1, screen |-> 0]
    /\ control' = IF exited THEN control ELSE Append(control, [id |-> minted + 1, pane |-> p])
    /\ pane' = [pane EXCEPT ![p] = [Out EXCEPT !.link = "asking", !.id = minted + 1]]
    /\ inbox' = [inbox EXCEPT ![p] = <<>>]
    /\ UNCHANGED <<case, childVars, readerVars, co, mirror, sent, armed, sinks, attachments, loose, unacked, exited, exitVars>>

\* Mutant: nobody tells a caller whose request went with the coalescer
AttachWaitsOn ==
    /\ main.at = "asked" /\ co # "gone"
    /\ main' = [main EXCEPT !.at = "push"]
    /\ UNCHANGED <<case, childVars, readerVars, coVars, sinks, minted, attachments, loose, paneVars, inbox, exited, exitVars>>

(* ATTACH_TIMEOUT, or a coalescer that went with the request in its channel. *)
AttachGivesUp ==
    /\ main.at = "asked"
    /\ main' = [main EXCEPT !.at = "push"]
    /\ UNCHANGED <<case, childVars, readerVars, coVars, sinks, minted, attachments, loose, paneVars, inbox, exited, exitVars>>

AttachPushes ==
    /\ main.at = "push"
    /\ sinks' = Append(sinks, Registered(main.id, main.pane))
    /\ loose' = loose \cup {main.id}
    /\ main' = [main EXCEPT !.at = "render"]
    /\ UNCHANGED <<case, childVars, readerVars, coVars, minted, attachments, paneVars, inbox, exited, exitVars>>

AttachRenders ==
    /\ main.at = "render"
    /\ main' = [main EXCEPT !.at = "answered", !.screen = mirror]
    /\ UNCHANGED <<case, childVars, readerVars, coVars, sinks, minted, attachments, loose, paneVars, inbox, exited, exitVars>>

Without(id) ==
    LET kept == {i \in DOMAIN sinks : sinks[i].id # id}
    IN [k \in 1 .. Cardinality(kept) |-> sinks[Place(kept, k)]]

(* record_attachment, and the screen goes back to the pane: it writes that  *)
(* first and the frames it held meanwhile after it.                         *)
AttachReturns ==
    /\ main.at = "answered"
    /\ LET p == main.pane
       IN /\ sinks' = Without(attachments[p])
          /\ attachments' = [attachments EXCEPT ![p] = main.id]
          /\ pane' = [pane EXCEPT ![p] = IF @.link = "asking"
                                           THEN [@ EXCEPT !.link = "live", !.at = main.screen] ELSE @]
    /\ main' = Free
    /\ UNCHANGED <<case, childVars, readerVars, coVars, minted, loose, unacked, inbox, exited, exitVars>>

Detaches(p) ==
    /\ main.at = "free" /\ pane[p].link = "closing"
    /\ sinks' = Without(attachments[p])
    /\ attachments' = [attachments EXCEPT ![p] = NoSink]
    /\ pane' = [pane EXCEPT ![p] = Out]
    /\ UNCHANGED <<case, childVars, readerVars, coVars, main, minted, loose, unacked, inbox, exited, exitVars>>

(* The first sink with that id is the one the ack finds. *)
Acked(ss, id, n) ==
    [i \in DOMAIN ss |->
        IF ss[i].id = id /\ \A j \in 1 .. i - 1 : ss[j].id # id
          THEN [ss[i] EXCEPT !.owed = IF @ > n THEN @ - n ELSE 0, !.late = FALSE] ELSE ss[i]]

AckLands(p) ==
    /\ main.at = "free" /\ unacked[p] > 0
    /\ sinks' = Acked(sinks, attachments[p], unacked[p])
    /\ unacked' = [unacked EXCEPT ![p] = 0]
    /\ UNCHANGED <<case, childVars, readerVars, coVars, mainVars, pane, inbox, exited, exitVars>>

-----------------------------------------------------------------------------
(* The webview                                                             *)

Acks(f) == f.len

(* term.write has parsed a frame: it shows, and its bytes are acknowledged. *)
PaneParses(p) ==
    /\ Attached(p) /\ inbox[p] # <<>>
    /\ LET f == Head(inbox[p])
           picture == f.from = f.upTo
       IN /\ pane' = [pane EXCEPT ![p].at = f.upTo,
                                  ![p].torn = @ \/ (~picture /\ f.from # pane[p].at)]
          /\ unacked' = [unacked EXCEPT ![p] = @ + Acks(f)]
    /\ inbox' = [inbox EXCEPT ![p] = Tail(@)]
    /\ UNCHANGED <<case, childVars, readerVars, coVars, sinks, mainVars, exited, exitVars>>

(* A frame and a byte of it, as often as there are any. *)
Owed(frames) == Cardinality(UNION {{i} \X (1 .. frames[i].len) : i \in DOMAIN frames})

LeavesLeft == case.leaves > 0 /\ case' = [case EXCEPT !.leaves = @ - 1]

(* closeSink: from here the link hears nothing, but what xterm already has  *)
(* is still parsed and acknowledged, to whichever sink the pane has then.   *)
PaneCloses(p) ==
    /\ LeavesLeft /\ pane[p].link = "live"
    /\ pane' = [pane EXCEPT ![p].link = "closing"]
    /\ \E k \in 0 .. Len(inbox[p]) :
           unacked' = [unacked EXCEPT ![p] = @ + Owed(SubSeq(inbox[p], 1, k))]
    /\ inbox' = [inbox EXCEPT ![p] = <<>>]
    /\ UNCHANGED <<childVars, readerVars, coVars, sinks, mainVars, exited, exitVars>>

(* The webview reloads: nobody detaches, the next attach of the pane does. *)
PaneReloads(p) ==
    /\ LeavesLeft /\ pane[p].link = "live"
    /\ pane' = [pane EXCEPT ![p] = Out]
    /\ inbox' = [inbox EXCEPT ![p] = <<>>]
    /\ UNCHANGED <<childVars, readerVars, coVars, sinks, mainVars, unacked, exited, exitVars>>

(* Its window is destroyed: the channel refuses what it is sent. *)
PaneVanishes(p) ==
    /\ LeavesLeft /\ pane[p].link = "live"
    /\ pane' = [pane EXCEPT ![p] = [Out EXCEPT !.link = "gone"]]
    /\ inbox' = [inbox EXCEPT ![p] = <<>>]
    /\ UNCHANGED <<childVars, readerVars, coVars, sinks, mainVars, unacked, exited, exitVars>>

-----------------------------------------------------------------------------
(* The exit: the reaper thread and on_exit                                 *)

Reaps ==
    /\ dead /\ slot = "Running"
    /\ slot' = "Reaped" /\ calling' = waiting /\ waiting' = {}
    /\ UNCHANGED <<case, childVars, readerVars, coVars, sinks, mainVars, paneVars, inbox, exited, called>>

Flags ==
    /\ slot = "Reaped" /\ slot' = "Flagged" /\ exited' = TRUE
    /\ UNCHANGED <<case, childVars, readerVars, coVars, sinks, mainVars, paneVars, inbox, waiting, calling, called>>

Calls(w) ==
    /\ slot = "Flagged" /\ w \in calling
    /\ calling' = calling \ {w} /\ called' = [called EXCEPT ![w] = @ + 1]
    /\ UNCHANGED <<case, childVars, readerVars, coVars, sinks, mainVars, paneVars, inbox, exited, slot, waiting>>

\* Mutant: a registration that finds the child reaped still queues
OnExitQueues(w) ==
    /\ w \in case.watchers
    /\ case' = [case EXCEPT !.watchers = @ \ {w}]
    /\ waiting' = waiting \cup {w}
    /\ UNCHANGED <<childVars, readerVars, coVars, sinks, mainVars, paneVars, inbox, exited, slot, calling, called>>

(* on_exit: queued while the child runs, called at once when it is reaped. *)
OnExit(w) ==
    /\ w \in case.watchers
    /\ case' = [case EXCEPT !.watchers = @ \ {w}]
    /\ IF slot = "Running"
         THEN waiting' = waiting \cup {w} /\ UNCHANGED called
         ELSE called' = [called EXCEPT ![w] = @ + 1] /\ UNCHANGED waiting
    /\ UNCHANGED <<childVars, readerVars, coVars, sinks, mainVars, paneVars, inbox, exited, slot, calling>>

-----------------------------------------------------------------------------
Child == OutputCloses \/ ChildDies \/ Reads
Reader == Queues \/ ReaderEnds
Coalescer == Takes \/ Splits \/ Flushes \/ Idles \/ Ticks \/ ServeAttach \/ Ends
Attaching == AttachGivesUp \/ AttachPushes \/ AttachRenders \/ AttachReturns
Main == Attaching \/ \E p \in Panes : AttachAsks(p) \/ Detaches(p) \/ AckLands(p)
Webview == \E p \in Panes : PaneParses(p) \/ PaneCloses(p) \/ PaneReloads(p) \/ PaneVanishes(p)
Reaper == Reaps \/ Flags \/ \E w \in Watchers : Calls(w)
Registers == \E w \in Watchers : OnExit(w)

Next == Child \/ Reader \/ Coalescer \/ WatchdogPasses \/ Main \/ Webview \/ Reaper \/ Registers

Spec == Init /\ [][Next]_vars

(* The session's own threads run and time passes; nothing makes a child     *)
(* write or die, a pane attach, or a webview parse what it was given.  None *)
(* of these steps can be taken for ever without one of the environment's,   *)
(* so fairness to all of them together is fairness to each.                 *)
Threads == Reader \/ Coalescer \/ WatchdogPasses \/ Attaching \/ Reaper
FairSpec == Spec /\ WF_vars(Threads)

(* And a webview that keeps up as well as it can. *)
HealthySpec ==
    Spec /\ WF_vars(Threads \/ \E p \in Panes : PaneParses(p) \/ AckLands(p))

-----------------------------------------------------------------------------
(* Properties                                                              *)

(* The pane shows the session through the attach's one cut point, not       *)
(* through the unsynchronised pair it falls back to, and it was not redrawn *)
(* between two frames of one chunk.                                         *)
Synced(p) == Attached(p) /\ pane[p].id \notin loose

Frames == [from : 0 .. mirror, upTo : 0 .. mirror, len : Nat]

(* Every party keeps its shape, and nobody is ahead of the one it reads from. *)
TypeOK ==
    /\ sent \in 0 .. mirror /\ mirror \in 0 .. queued /\ queued \in 0 .. read
    /\ co \in {"select", "flush", "tick", "gone"} /\ slot \in {"Running", "Reaped", "Flagged"}
    /\ Len(queue) <= Depth
    /\ queue # <<>> => Last(queue) = queued
    /\ \A p \in Panes :
           /\ pane[p].link \in {"out", "asking", "live", "closing", "gone"}
           /\ pane[p].at \in 0 .. mirror
           /\ \A i \in DOMAIN inbox[p] : inbox[p][i] \in Frames
           /\ unacked[p] \in Nat
    /\ \A i \in DOMAIN sinks : sinks[i].owed \in Nat /\ sinks[i].id \in 1 .. minted
    /\ main.at # "free" => main.id = minted /\ pane[main.pane].id = minted

(* What a pane shows is a prefix of the output that only grows: whatever is *)
(* flushed, choked, forgiven or redrawn, no pane that attached at the cut   *)
(* point is ever shown a byte twice, out of order, or taken back.           *)
Showing(p) ==
    IF ~Synced(p) THEN -1 ELSE IF pane[p].torn THEN -2 ELSE pane[p].at
Stream == INSTANCE TerminalStream WITH produced <- mirror, view <- [p \in Panes |-> Showing(p)]
StreamKept == Stream!Spec

(* A watcher registered before, during or after the child's death is called  *)
(* in the end, and once.                                                    *)
WatchersHear ==
    []<>(dead => waiting \cup calling = {} /\ \A w \in Watchers : called[w] <= 1)

(* Until the output ends, a sink is delivered whatever the mirror holds     *)
(* when the child falls silent, even if its pane has stopped parsing: the   *)
(* watchdog and the idle tick let no sink stay choked.                      *)
ReachesSink == []<>(\A p \in Panes : Synced(p) => Given(p) = mirror \/ readerDone)

(* The thread that receives every message of the webview comes back from an *)
(* attach, even one sent to a coalescer on its way out.                     *)
MainComesBack == []<>(main.at = "free")

(* "what it missed is always reconstructible": a healthy pane is shown      *)
(* everything in the end.                                                   *)
TailIsShown == []<>(\A p \in Panes : Synced(p) => pane[p].at = mirror)
=============================================================================
