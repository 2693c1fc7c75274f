--------------------------- MODULE PtySessionProofs ---------------------------
(***************************************************************************)
(* Theorems of PtySession: it implements TerminalStream, for any panes and *)
(* watchers, any sizes of chunks, frames, windows and queue, any number of *)
(* bytes, attachments and departures.                                      *)
(***************************************************************************)
EXTENDS PtySession, SequenceTheorems, FiniteSetTheorems, TLAPS

---------------------------------------------------------------------------
(* The inductive invariant *)

Frame == [from : Nat, upTo : Nat, len : Nat]
Request == [id : Nat, pane : Panes]
Sink == [id : Nat, pane : Panes, owed : Nat, choked : BOOLEAN, missed : BOOLEAN, late : BOOLEAN]
Link == [link : {"out", "asking", "live", "closing", "gone"}, id : Nat, at : Nat, torn : BOOLEAN]
Errand == [at : {"free", "asked", "push", "render", "answered"}, pane : Panes \cup {NoSink},
           id : Nat, screen : Nat]
Bounded == [bytes : Nat, attaches : Nat, panes : SUBSET Panes, watchers : SUBSET Watchers,
            leaves : Nat, ends : SUBSET {"output", "child"}]

Typed ==
    /\ case \in Bounded
    /\ read \in Nat /\ queued \in Nat /\ queue \in Seq(Nat)
    /\ co \in {"select", "flush", "tick", "gone"} /\ mirror \in Nat /\ sent \in Nat
    /\ control \in Seq(Request) /\ sinks \in Seq(Sink)
    /\ main \in Errand /\ minted \in Nat /\ attachments \in [Panes -> Nat]
    /\ pane \in [Panes -> Link] /\ inbox \in [Panes -> Seq(Frame)] /\ unacked \in [Panes -> Nat]
    /\ slot \in {"Running", "Reaped", "Flagged"}

\* Nobody is ahead of the one it reads from, and a tick has nothing to flush
Ordered ==
    /\ sent <= mirror /\ mirror <= queued /\ queued <= read
    /\ co = "tick" => sent = mirror

\* The chunks in the channel continue the mirror's bytes
Channelled ==
    /\ Len(queue) <= Depth
    /\ \A i \in 1 .. Len(queue) : /\ (IF i = 1 THEN mirror ELSE queue[i - 1]) < queue[i]
                                  /\ queue[i] <= queued
    /\ queued = IF Len(queue) = 0 THEN mirror ELSE queue[Len(queue)]

\* One pane asks at a time, and hears nothing before it is registered
Asking ==
    /\ \A p \in Panes : /\ pane[p].id <= minted
                        /\ pane[p].link = "asking" => main.at # "free" /\ main.pane = p /\ ~pane[p].torn
    /\ main.at # "free" =>
          /\ main.pane \in Panes /\ main.id = minted /\ 0 < minted
          /\ pane[main.pane].link = "asking" /\ pane[main.pane].id = minted
    /\ main.at = "asked" =>
          inbox[main.pane] = <<>> /\ \A i \in DOMAIN sinks : sinks[i].id # minted
    /\ main.at = "render" => main.id \in loose

AskedBy(m, request) == m.id = request.id /\ m.pane = request.pane

\* An id is asked for once, and registered twice only by a fallback
Single ==
    /\ \A i \in DOMAIN sinks : sinks[i].id \in 1 .. minted
    /\ loose \subseteq 1 .. minted
    /\ \A j \in DOMAIN control :
          /\ control[j].id \in 1 .. minted
          /\ control[j].id \notin loose => main.at \in {"asked", "push"} /\ AskedBy(main, control[j])
          /\ \A i \in DOMAIN sinks : sinks[i].id = control[j].id => control[j].id \in loose
    /\ \A i, j \in DOMAIN control : control[i].id = control[j].id => i = j
    /\ \A i, j \in DOMAIN sinks : sinks[i].id = sinks[j].id /\ sinks[i].id \notin loose => i = j

\* Nobody was shown or sent more than the mirror has
Shown ==
    /\ main.screen <= mirror
    /\ \A p \in Panes : /\ pane[p].at <= mirror
                        /\ \A i \in 1 .. Len(inbox[p]) :
                              inbox[p][i].from <= mirror /\ inbox[p][i].upTo <= mirror

\* Frames that each start where the one before ended, or redraw
Chained(from, frames) ==
    \A i \in 1 .. Len(frames) :
        LET before == IF i = 1 THEN from ELSE frames[i - 1].upTo
        IN before <= frames[i].upTo /\ frames[i].from \in {before, frames[i].upTo}
Reached(from, frames) == IF Len(frames) = 0 THEN from ELSE frames[Len(frames)].upTo

\* Where a pane starts from, once it has its picture of the screen
Begun(p) == pane[p].link = "live" \/ (pane[p].link = "asking" /\ main.at = "answered")
Start(p) == IF pane[p].link = "live" THEN pane[p].at ELSE main.screen

\* A sink that owes no catch-up has been sent what was flushed
Fed(p, ss, from, frames, n) ==
    \A i \in DOMAIN ss : Hears(p, ss[i]) /\ ~ss[i].missed => Reached(from, frames) = n

Streams ==
    \A p \in Panes : Begun(p) /\ pane[p].id \notin loose =>
        /\ ~pane[p].torn /\ Chained(Start(p), inbox[p])
        /\ Fed(p, sinks, Start(p), inbox[p], sent)

IInv == Typed /\ Ordered /\ Channelled /\ Asking /\ Single /\ Shown /\ Streams

---------------------------------------------------------------------------
(* The model's operators *)

\* Each place of a set of places is the k-th for one k.
LEMMA Places ==
  ASSUME NEW n \in Nat, NEW P \in SUBSET (1 .. n)
  PROVE  /\ Cardinality(P) \in Nat
         /\ \A k \in 1 .. Cardinality(P) : Place(P, k) \in P
         /\ \A k, l \in 1 .. Cardinality(P) : Place(P, k) = Place(P, l) => k = l
<1>. DEFINE rank == [i \in P |-> Cardinality(P \cap (1 .. i))]
            m == Cardinality(P)
<1>1. IsFiniteSet(P) /\ m \in Nat
  <2>1. IsFiniteSet(1 .. n)
    BY FS_Interval
  <2>. QED
    BY <2>1, FS_Subset, FS_CardinalityType
<1>2. ASSUME NEW i \in P
      PROVE  /\ IsFiniteSet(P \cap (1 .. i)) /\ rank[i] \in Nat /\ rank[i] <= m /\ rank[i] # 0
  <2>1. IsFiniteSet(P \cap (1 .. i)) /\ Cardinality(P \cap (1 .. i)) <= m
    BY <1>1, FS_Subset
  <2>2. i \in P \cap (1 .. i)
    OBVIOUS
  <2>. QED
    BY <2>1, <2>2, FS_CardinalityType, FS_EmptySet
<1>3. ASSUME NEW i \in P, NEW j \in P, i < j PROVE rank[i] # rank[j]
  <2>1. P \cap (1 .. i) \in SUBSET (P \cap (1 .. j)) /\ j \in P \cap (1 .. j) /\ j \notin P \cap (1 .. i)
    BY <1>3
  <2>2. P \cap (1 .. i) # P \cap (1 .. j)
    BY <2>1
  <2>. QED
    BY <1>2, <2>1, <2>2, FS_Subset
<1>4. rank \in Injection(P, 1 .. m)
  <2>1. rank \in [P -> 1 .. m]
    BY <1>1, <1>2
  <2>2. \A i, j \in P : rank[i] = rank[j] => i = j
    BY <1>3
  <2>. QED
    BY <2>1, <2>2 DEF Injection, IsInjective
<1>5. IsFiniteSet(1 .. m) /\ Cardinality(1 .. m) = m
  BY <1>1, FS_Interval
<1>6. rank \in Surjection(P, 1 .. m)
  BY <1>4, <1>5, FS_Injection
<1>7. \A k \in 1 .. m : \E i \in P : rank[i] = k
  BY <1>6 DEF Surjection
<1>8. ASSUME NEW k \in 1 .. m PROVE Place(P, k) \in P /\ rank[Place(P, k)] = k
  BY <1>7 DEF Place
<1>. QED
  BY <1>1, <1>8

\* One more frame, which starts where the others end, or redraws.
LEMMA ChainGrows ==
  ASSUME NEW frames \in Seq(Frame), NEW from \in Nat, NEW f \in Frame, Chained(from, frames),
         Reached(from, frames) <= f.upTo, f.from \in {Reached(from, frames), f.upTo}
  PROVE  Chained(from, Append(frames, f)) /\ Reached(from, Append(frames, f)) = f.upTo
<1>. DEFINE n == Len(frames)
            more == Append(frames, f)
<1>1. /\ n \in Nat /\ Len(more) = n + 1 /\ more[n + 1] = f
      /\ \A i \in 1 .. n : more[i] = frames[i]
  OBVIOUS
<1>2. ASSUME NEW i \in 1 .. n + 1
      PROVE  LET before == IF i = 1 THEN from ELSE more[i - 1].upTo
             IN before <= more[i].upTo /\ more[i].from \in {before, more[i].upTo}
  <2>1. CASE i = n + 1
    <3>1. (IF i = 1 THEN from ELSE more[i - 1].upTo) = Reached(from, frames)
      BY <1>1, <2>1 DEF Reached
    <3>. QED
      BY <1>1, <2>1, <3>1
  <2>2. CASE i \in 1 .. n
    <3>1. more[i] = frames[i] /\ (i # 1 => more[i - 1] = frames[i - 1])
      BY <1>1, <2>2
    <3>. QED
      BY <2>2, <3>1 DEF Chained
  <2>. QED
    BY <1>1, <2>1, <2>2
<1>. QED
  BY <1>1, <1>2 DEF Chained, Reached

\* The first frame is parsed.
LEMMA ChainParsed ==
  ASSUME NEW frames \in Seq(Frame), NEW from \in Nat, Chained(from, frames), frames # <<>>
  PROVE  LET f == Head(frames) IN
         /\ f \in Frame /\ Tail(frames) \in Seq(Frame) /\ f = frames[1] /\ 1 \in 1 .. Len(frames)
         /\ from <= f.upTo /\ f.from \in {from, f.upTo}
         /\ Chained(f.upTo, Tail(frames)) /\ Reached(f.upTo, Tail(frames)) = Reached(from, frames)
<1>. DEFINE n == Len(frames)
            f == Head(frames)
            rest == Tail(frames)
<1>1. /\ n \in Nat /\ n >= 1 /\ Len(rest) = n - 1 /\ f = frames[1] /\ f \in Frame /\ rest \in Seq(Frame)
      /\ \A i \in 1 .. n - 1 : rest[i] = frames[i + 1]
  OBVIOUS
<1>2. 1 \in 1 .. n /\ from <= f.upTo /\ f.from \in {from, f.upTo}
  BY <1>1 DEF Chained
<1>3. ASSUME NEW i \in 1 .. n - 1
      PROVE  LET before == IF i = 1 THEN f.upTo ELSE rest[i - 1].upTo
             IN before <= rest[i].upTo /\ rest[i].from \in {before, rest[i].upTo}
  <2>1. rest[i] = frames[i + 1] /\ (i # 1 => rest[i - 1] = frames[i]) /\ i + 1 \in 1 .. n /\ i + 1 # 1
    BY <1>1
  <2>2. (IF i = 1 THEN f.upTo ELSE rest[i - 1].upTo) = frames[i].upTo
    BY <1>1, <2>1
  <2>3. (i + 1) - 1 = i
    OBVIOUS
  <2>. QED
    BY <2>1, <2>2, <2>3 DEF Chained
<1>4. Chained(f.upTo, rest)
  BY <1>1, <1>3 DEF Chained
<1>5. Reached(f.upTo, rest) = Reached(from, frames)
  <2>1. CASE n = 1
    BY <1>1, <2>1 DEF Reached
  <2>2. CASE n # 1
    <3>1. Len(rest) # 0 /\ Len(rest) \in 1 .. n - 1 /\ rest[Len(rest)] = frames[n]
      BY <1>1, <2>2
    <3>. QED
      BY <1>1, <3>1 DEF Reached
  <2>. QED
    BY <2>1, <2>2
<1>. QED
  BY <1>1, <1>2, <1>4, <1>5

\* What a pane has yet to acknowledge is a number of bytes.
LEMMA OwedTyped ==
  ASSUME NEW frames \in Seq(Frame)
  PROVE  Owed(frames) \in Nat
<1>. DEFINE bytes(i) == {i} \X (1 .. frames[i].len)
            all == {bytes(i) : i \in 1 .. Len(frames)}
<1>1. Len(frames) \in Nat /\ DOMAIN frames = 1 .. Len(frames)
  OBVIOUS
<1>2. IsFiniteSet(1 .. Len(frames))
  BY <1>1, FS_Interval
<1>3. IsFiniteSet(all)
  <2>. DEFINE f == [i \in 1 .. Len(frames) |-> bytes(i)]
  <2>1. f \in Surjection(1 .. Len(frames), all)
    BY DEF Surjection
  <2>. QED
    BY <1>2, <2>1, FS_Surjection
<1>4. ASSUME NEW i \in 1 .. Len(frames) PROVE IsFiniteSet(bytes(i))
  <2>1. frames[i] \in Frame
    BY <1>1
  <2>2. frames[i].len \in Nat
    BY <2>1 DEF Frame
  <2>3. IsFiniteSet(1 .. frames[i].len)
    <3>. DEFINE m == frames[i].len
    <3>1. m \in Int
      BY <2>2
    <3>. HIDE DEF m
    <3>2. IsFiniteSet(1 .. m)
      BY <3>1, FS_Interval
    <3>. QED
      BY <3>2 DEF m
  <2>4. IsFiniteSet({i})
    BY FS_Singleton
  <2>. QED
    BY <2>3, <2>4, FS_Product
<1>5. \A S \in all : IsFiniteSet(S)
  BY <1>4
<1>6. IsFiniteSet(UNION all)
  BY <1>3, <1>5, FS_UNION
<1>7. UNION all = UNION {{i} \X (1 .. frames[i].len) : i \in DOMAIN frames}
  BY <1>1
<1>. QED
  BY <1>6, <1>7, FS_CardinalityType DEF Owed

---------------------------------------------------------------------------
(* Broadcasts *)

\* A function on 1..n is a sequence.
LEMMA CountedOff ==
  ASSUME NEW S, NEW n \in Nat, NEW f \in [1 .. n -> S]
  PROVE  f \in Seq(S) /\ Len(f) = n /\ DOMAIN f = 1 .. n
  BY SeqDef

\* The sizes are numbers, and the empty frame is a frame.
LEMMA SizesTyped ==
  /\ {Depth, MaxChunk, FlushBytes, MaxFrame, ScreenLen, Low, High} \subseteq Nat
  /\ 0 < MaxFrame /\ 0 < Depth /\ 0 < FlushBytes /\ Tick \in Frame
  /\ \A n, m \in Nat : n <= m => Bytes(n, m) \in Frame
  /\ \A n \in Nat : Screen(n) \in Frame
<1>1. /\ {Depth, MaxChunk, FlushBytes, MaxFrame, ScreenLen, Low, High} \subseteq Nat
      /\ 0 < MaxFrame /\ 0 < Depth /\ 0 < FlushBytes
  BY Sizes
<1>2. \A n, m \in Nat : n <= m => Bytes(n, m) \in Frame
  BY DEF Bytes, Frame
<1>3. \A n \in Nat : Screen(n) \in Frame
  BY <1>1 DEF Screen, Frame
<1>. QED
  BY <1>1, <1>2, <1>3 DEF Tick

\* One sink's turn leaves it its id and its pane.
LEMMA ServedTyped ==
  ASSUME Typed, NEW s \in Sink, NEW frame \in Frame
  PROVE  /\ Payload(s, frame) \in Frame
         /\ Payload(s, frame) = IF s.missed THEN Screen(mirror) ELSE frame
         /\ Served(s, frame) \in Sink
         /\ Served(s, frame).id = s.id /\ Served(s, frame).pane = s.pane
         /\ Served(s, frame).missed <=> Skipped(s)
<1>1. mirror \in Nat
  BY DEF Typed
<1>2. Payload(s, frame) \in Frame
  BY <1>1, SizesTyped DEF Payload
<1>3. Payload(s, frame).len \in Nat
  BY <1>2 DEF Frame
<1>4. CASE Skipped(s)
  <2>1. Served(s, frame) = Choked(s)
    BY <1>4 DEF Served
  <2>. QED
    BY <1>2, <1>4, <2>1 DEF Choked, Sink, Payload
<1>5. CASE ~Skipped(s)
  <2>. DEFINE late == s.late /\ ~(s.choked /\ s.owed > Low)
              debt == IF s.choked /\ s.owed > Low THEN 0 ELSE s.owed
              owed == IF Delivered(s, frame) THEN debt + Payload(s, frame).len ELSE debt
  <2>1. late \in BOOLEAN /\ owed \in Nat
    BY <1>3 DEF Sink
  <2>2. Served(s, frame) = [s EXCEPT !.choked = FALSE, !.late = late, !.missed = FALSE, !.owed = owed]
    BY <1>5 DEF Served
  <2>. HIDE DEF late, owed
  <2>. QED
    BY <1>2, <1>5, <2>1, <2>2 DEF Sink, Payload
<1>. QED
  BY <1>4, <1>5

\* What sinks are in a set of places of the sinks.
LEMMA SinkPlaces ==
  ASSUME Typed, NEW P \in SUBSET DOMAIN sinks
  PROVE  /\ Cardinality(P) \in Nat
         /\ \A k \in 1 .. Cardinality(P) :
               Place(P, k) \in P /\ Place(P, k) \in DOMAIN sinks /\ sinks[Place(P, k)] \in Sink
         /\ \A k, l \in 1 .. Cardinality(P) : Place(P, k) = Place(P, l) => k = l
<1>1. Len(sinks) \in Nat /\ DOMAIN sinks = 1 .. Len(sinks) /\ \A i \in DOMAIN sinks : sinks[i] \in Sink
  BY DEF Typed
<1>. QED
  BY <1>1, Places

\* Every sink after a broadcast is one of those before, served.
LEMMA SinksServed ==
  ASSUME Typed, NEW frame \in Frame
  PROVE  /\ SinksAfter(frame) \in Seq(Sink)
         /\ \E src \in [DOMAIN SinksAfter(frame) -> DOMAIN sinks] :
               /\ \A k, l \in DOMAIN SinksAfter(frame) : src[k] = src[l] => k = l
               /\ \A k \in DOMAIN SinksAfter(frame) :
                     /\ sinks[src[k]] \in Sink
                     /\ SinksAfter(frame)[k] = Served(sinks[src[k]], frame)
<1>. DEFINE P == {i \in DOMAIN sinks : ~Refused(sinks[i], frame)}
            n == Cardinality(P)
            at == [k \in 1 .. n |-> Place(P, k)]
            new == [k \in 1 .. n |-> Served(sinks[Place(P, k)], frame)]
<1>1. /\ n \in Nat
      /\ \A k \in 1 .. n : Place(P, k) \in DOMAIN sinks /\ sinks[Place(P, k)] \in Sink
      /\ \A k, l \in 1 .. n : Place(P, k) = Place(P, l) => k = l
  BY SinkPlaces
<1>2. SinksAfter(frame) = new
  BY DEF SinksAfter
<1>3. new \in [1 .. n -> Sink]
  BY <1>1, ServedTyped
<1>4. new \in Seq(Sink) /\ DOMAIN new = 1 .. n
  <2>. HIDE DEF new, n
  <2>. QED
    BY <1>1, <1>3, CountedOff
<1>5. at \in [1 .. n -> DOMAIN sinks] /\ \A k, l \in 1 .. n : at[k] = at[l] => k = l
  BY <1>1
<1>6. \A k \in 1 .. n : sinks[at[k]] \in Sink /\ new[k] = Served(sinks[at[k]], frame)
  BY <1>1
<1>. QED
  BY <1>2, <1>4, <1>5, <1>6

\* A pane's frames after a broadcast.
LEMMA InboxTyped ==
  ASSUME Typed, NEW p \in Panes, NEW frame \in Frame, frame.from <= mirror, frame.upTo <= mirror,
         \A i \in 1 .. Len(inbox[p]) : inbox[p][i].from <= mirror /\ inbox[p][i].upTo <= mirror
  PROVE  LET new == InboxAfter(p, frame) IN
         /\ new \in Seq(Frame)
         /\ \A i \in 1 .. Len(new) : new[i].from <= mirror /\ new[i].upTo <= mirror
<1>. DEFINE P == Heard(p, frame)
            n == Cardinality(P)
            more == [k \in 1 .. n |-> Payload(sinks[Place(P, k)], frame)]
            new == inbox[p] \o more
<1>1. n \in Nat /\ \A k \in 1 .. n : sinks[Place(P, k)] \in Sink
  <2>1. P \in SUBSET DOMAIN sinks
    BY DEF Heard
  <2>. QED
    BY <2>1, SinkPlaces
<1>2. \A s \in Sink : /\ Payload(s, frame) \in Frame
                      /\ Payload(s, frame).from <= mirror /\ Payload(s, frame).upTo <= mirror
  <2>1. mirror \in Nat /\ Screen(mirror).from = mirror /\ Screen(mirror).upTo = mirror
    BY DEF Typed, Screen
  <2>. QED
    BY <2>1, ServedTyped
<1>3. more \in [1 .. n -> Frame]
  BY <1>1, <1>2
<1>4. more \in Seq(Frame) /\ Len(more) = n
  <2>. HIDE DEF more, n
  <2>. QED
    BY <1>1, <1>3, CountedOff
<1>5. inbox[p] \in Seq(Frame)
  BY DEF Typed
<1>6. /\ new \in Seq(Frame) /\ Len(new) = Len(inbox[p]) + n /\ Len(inbox[p]) \in Nat
      /\ \A i \in 1 .. Len(new) : new[i] = IF i <= Len(inbox[p]) THEN inbox[p][i] ELSE more[i - Len(inbox[p])]
  BY <1>1, <1>4, <1>5
<1>7. ASSUME NEW i \in 1 .. Len(new) PROVE new[i].from <= mirror /\ new[i].upTo <= mirror
  <2>1. CASE i <= Len(inbox[p])
    BY <1>6, <2>1
  <2>2. CASE ~(i <= Len(inbox[p]))
    <3>1. i - Len(inbox[p]) \in 1 .. n /\ new[i] = more[i - Len(inbox[p])]
      BY <1>1, <1>6, <2>2
    <3>. QED
      BY <1>1, <1>2, <3>1
  <2>. QED
    BY <2>1, <2>2
<1>8. InboxAfter(p, frame) = new
  BY DEF InboxAfter
<1>. QED
  BY <1>6, <1>7, <1>8

\* A pane whose sink is the only one of its id is sent one frame, or none.
LEMMA InboxGrows ==
  ASSUME Typed, NEW p \in Panes, NEW frame
  PROVE  /\ Heard(p, frame) = {} => InboxAfter(p, frame) = inbox[p]
         /\ \A i \in DOMAIN sinks : Heard(p, frame) = {i} =>
               InboxAfter(p, frame) = inbox[p] \o <<Payload(sinks[i], frame)>>
<1>1. inbox[p] \in Seq(Frame)
  BY DEF Typed
<1>2. ASSUME Heard(p, frame) = {} PROVE InboxAfter(p, frame) = inbox[p]
  <2>1. Cardinality(Heard(p, frame)) = 0
    BY <1>2, FS_EmptySet
  <2>2. [k \in 1 .. 0 |-> Payload(sinks[Place(Heard(p, frame), k)], frame)] = <<>>
    OBVIOUS
  <2>3. InboxAfter(p, frame) = inbox[p] \o <<>>
    BY <2>1, <2>2 DEF InboxAfter
  <2>. QED
    BY <1>1, <2>3
<1>3. ASSUME NEW i \in DOMAIN sinks, Heard(p, frame) = {i}
      PROVE  InboxAfter(p, frame) = inbox[p] \o <<Payload(sinks[i], frame)>>
  <2>1. Cardinality(Heard(p, frame)) = 1
    BY <1>3, FS_Singleton
  <2>2. Place(Heard(p, frame), 1) = i
    <3>1. Heard(p, frame) \in SUBSET DOMAIN sinks
      BY DEF Heard
    <3>. QED
      BY <1>3, <2>1, <3>1, SinkPlaces
  <2>3. [k \in 1 .. 1 |-> Payload(sinks[Place(Heard(p, frame), k)], frame)]
          = <<Payload(sinks[Place(Heard(p, frame), 1)], frame)>>
    OBVIOUS
  <2>. QED
    BY <2>1, <2>2, <2>3 DEF InboxAfter
<1>. QED
  BY <1>2, <1>3

\* What an invariant says of a broadcast of what is flushed up to n, or of a tick.
Broadcastable(frame, n) ==
    \/ frame = Tick /\ sent = mirror /\ n = sent
    \/ frame = Bytes(sent, n) /\ sent < n /\ n <= mirror

\* Where such a frame starts and ends.
LEMMA BroadcastableTyped ==
  ASSUME IInv, NEW n \in Nat, NEW frame, Broadcastable(frame, n)
  PROVE  /\ frame \in Frame /\ frame.from <= mirror /\ frame.upTo <= mirror
         /\ frame # Tick => frame.from = sent /\ frame.upTo = n
         /\ frame = Tick => sent = mirror /\ n = sent
         /\ sent \in Nat /\ mirror \in Nat /\ n <= mirror
<1>1. sent \in Nat /\ mirror \in Nat /\ sent <= mirror
  BY DEF IInv, Typed, Ordered
<1>2. Tick.from = 0 /\ Tick.upTo = 0
  BY DEF Tick, Bytes
<1>3. CASE frame = Tick /\ sent = mirror /\ n = sent
  BY <1>1, <1>2, <1>3, SizesTyped
<1>4. CASE frame = Bytes(sent, n) /\ sent < n /\ n <= mirror
  <2>1. frame \in Frame /\ frame.from = sent /\ frame.upTo = n
    BY <1>1, <1>4, SizesTyped DEF Bytes
  <2>. QED
    BY <1>1, <1>2, <1>4, <2>1
<1>. QED
  BY <1>3, <1>4 DEF Broadcastable

\* Where a pane's frames end.
LEMMA ReachedTyped ==
  ASSUME Typed, Shown, NEW p \in Panes, Begun(p)
  PROVE  /\ Start(p) \in Nat /\ Start(p) <= mirror
         /\ Reached(Start(p), inbox[p]) \in Nat /\ Reached(Start(p), inbox[p]) <= mirror
<1>1. inbox[p] \in Seq(Frame) /\ Len(inbox[p]) \in Nat /\ pane[p].at \in Nat /\ main.screen \in Nat
  BY DEF Typed, Link, Errand
<1>2. Start(p) \in Nat /\ Start(p) <= mirror
  BY <1>1 DEF Start, Shown
<1>3. CASE Len(inbox[p]) = 0
  BY <1>2, <1>3 DEF Reached
<1>4. CASE Len(inbox[p]) # 0
  <2>1. Len(inbox[p]) \in 1 .. Len(inbox[p]) /\ inbox[p][Len(inbox[p])] \in Frame
    BY <1>1, <1>4
  <2>2. Reached(Start(p), inbox[p]) = inbox[p][Len(inbox[p])].upTo
    BY <1>4 DEF Reached
  <2>. QED
    BY <1>2, <2>1, <2>2 DEF Shown, Frame
<1>. QED
  BY <1>3, <1>4

\* A broadcast leaves a pane's frames a chain, and its sink fed.
LEMMA StreamServed ==
  ASSUME IInv, NEW p \in Panes, Begun(p), pane[p].id \notin loose,
         NEW n \in Nat, NEW frame, Broadcastable(frame, n),
         frame # Tick => pane[p].id \notin DrawnAhead(frame)
  PROVE  /\ Chained(Start(p), InboxAfter(p, frame))
         /\ Fed(p, SinksAfter(frame), Start(p), InboxAfter(p, frame), n)
<1>. DEFINE from == Start(p)
            old == inbox[p]
            new == SinksAfter(frame)
<1>1. Typed /\ Shown /\ Single
  BY DEF IInv
<1>2. /\ frame \in Frame /\ (frame # Tick => frame.from = sent /\ frame.upTo = n)
      /\ (frame = Tick => sent = mirror /\ n = sent) /\ sent \in Nat /\ mirror \in Nat /\ n <= mirror
  BY BroadcastableTyped
<1>3. from \in Nat /\ Reached(from, old) \in Nat /\ Reached(from, old) <= mirror /\ old \in Seq(Frame)
  BY <1>1, ReachedTyped DEF Typed
<1>4. Chained(from, old) /\ Fed(p, sinks, from, old, sent)
  BY DEF IInv, Streams
<1>5. PICK src \in [DOMAIN new -> DOMAIN sinks] :
        \A k \in DOMAIN new : sinks[src[k]] \in Sink /\ new[k] = Served(sinks[src[k]], frame)
  BY <1>1, <1>2, SinksServed
<1>6. ASSUME Heard(p, frame) = {}
      PROVE  Chained(from, InboxAfter(p, frame)) /\ Fed(p, new, from, InboxAfter(p, frame), n)
  <2>1. InboxAfter(p, frame) = old
    BY <1>1, <1>6, InboxGrows
  <2>2. ASSUME NEW k \in DOMAIN new, Hears(p, new[k]), ~new[k].missed
        PROVE  Reached(from, old) = n
    <3>. DEFINE s == sinks[src[k]]
    <3>1. src[k] \in DOMAIN sinks /\ s \in Sink /\ new[k] = Served(s, frame)
      BY <1>5
    <3>2. ~Skipped(s) /\ Hears(p, s)
      BY <1>1, <1>2, <2>2, <3>1, ServedTyped DEF Hears
    <3>3. ~Delivered(s, frame)
      BY <1>6, <3>1, <3>2 DEF Heard
    <3>4. frame = Tick /\ ~s.missed
      BY <3>2, <3>3 DEF Delivered
    <3>. QED
      BY <1>2, <1>4, <3>1, <3>2, <3>4 DEF Fed
  <2>. QED
    BY <1>4, <2>1, <2>2 DEF Fed
<1>7. ASSUME NEW i \in Heard(p, frame)
      PROVE  Chained(from, InboxAfter(p, frame)) /\ Fed(p, new, from, InboxAfter(p, frame), n)
  <2>. DEFINE s == sinks[i]
              f == Payload(s, frame)
  <2>1. i \in DOMAIN sinks /\ Hears(p, s) /\ Delivered(s, frame) /\ s.id = pane[p].id
    BY <1>7 DEF Heard, Hears
  <2>2. s \in Sink
    BY <1>1, <2>1 DEF Typed
  <2>3. Heard(p, frame) = {i}
    BY <1>1, <1>7, <2>1 DEF Heard, Hears, Single
  <2>4. f \in Frame /\ InboxAfter(p, frame) = Append(old, f)
    <3>1. f \in Frame
      BY <1>1, <1>2, <2>2, ServedTyped
    <3>2. InboxAfter(p, frame) = old \o <<f>>
      BY <1>1, <2>1, <2>3, InboxGrows
    <3>. QED
      BY <1>3, <3>1, <3>2
  <2>5. f.upTo = n /\ f.from \in {Reached(from, old), n} /\ Reached(from, old) <= n
    <3>1. CASE s.missed
      <4>1. f = Screen(mirror)
        BY <3>1 DEF Payload
      <4>2. n = mirror
        BY <1>2, <2>1, <3>1 DEF DrawnAhead
      <4>. QED
        BY <1>3, <4>1, <4>2 DEF Screen
    <3>2. CASE ~s.missed
      <4>1. f = frame /\ frame # Tick
        BY <2>1, <3>2 DEF Payload, Delivered
      <4>2. Reached(from, old) = sent
        BY <1>4, <2>1, <3>2 DEF Fed
      <4>3. sent <= n
        BY <1>2, <4>1 DEF Broadcastable
      <4>. QED
        BY <1>2, <4>1, <4>2, <4>3
    <3>. QED
      BY <3>1, <3>2
  <2>6. Chained(from, Append(old, f)) /\ Reached(from, Append(old, f)) = n
    BY <1>3, <1>4, <2>4, <2>5, ChainGrows
  <2>. QED
    BY <2>4, <2>6 DEF Fed
<1>. QED
  BY <1>6, <1>7

\* Each of these sinks is one of those there were.
Descends(new) ==
    \E src \in [DOMAIN new -> DOMAIN sinks] :
        /\ \A k, l \in DOMAIN new : src[k] = src[l] => k = l
        /\ \A k \in DOMAIN new : new[k].id = sinks[src[k]].id

\* A broadcast leaves sinks that were there.
LEMMA ServedDescends ==
  ASSUME Typed, NEW frame \in Frame
  PROVE  SinksAfter(frame) \in Seq(Sink) /\ Descends(SinksAfter(frame))
<1>. DEFINE new == SinksAfter(frame)
<1>1. PICK src \in [DOMAIN new -> DOMAIN sinks] :
        /\ \A k, l \in DOMAIN new : src[k] = src[l] => k = l
        /\ \A k \in DOMAIN new : sinks[src[k]] \in Sink /\ new[k] = Served(sinks[src[k]], frame)
  BY SinksServed
<1>2. \A k \in DOMAIN new : new[k].id = sinks[src[k]].id
  BY <1>1, ServedTyped
<1>3. new \in Seq(Sink)
  BY SinksServed
<1>. HIDE DEF new
<1>4. Descends(new)
  BY <1>1, <1>2 DEF Descends
<1>. QED
  BY <1>3, <1>4 DEF new

\* Sinks that only go, change or stop being awaited keep the ids apart.
LEMMA SingleKept ==
  ASSUME Single, Descends(sinks'), loose \subseteq loose', loose' \subseteq 1 .. minted,
         UNCHANGED <<main, minted>>, control' = control \/ control' = <<>>
  PROVE  Single'
<1>1. PICK src \in [DOMAIN sinks' -> DOMAIN sinks] :
        /\ \A k, l \in DOMAIN sinks' : src[k] = src[l] => k = l
        /\ \A k \in DOMAIN sinks' : sinks'[k].id = sinks[src[k]].id
  BY DEF Descends
<1>2. \A k \in DOMAIN sinks' : src[k] \in DOMAIN sinks
  BY <1>1
<1>3. \A j \in DOMAIN control' : j \in DOMAIN control /\ control'[j] = control[j]
  OBVIOUS
<1>4. \A i \in DOMAIN sinks' : sinks'[i].id \in 1 .. minted
  BY <1>1, <1>2 DEF Single
<1>5. \A i, j \in DOMAIN sinks' : sinks'[i].id = sinks'[j].id /\ sinks'[i].id \notin loose' => i = j
  BY <1>1, <1>2 DEF Single
<1>6. \A i, j \in DOMAIN control' : control'[i].id = control'[j].id => i = j
  BY <1>3 DEF Single
<1>7. \A j \in DOMAIN control' :
          /\ control'[j].id \in 1 .. minted
          /\ control'[j].id \notin loose' => main.at \in {"asked", "push"} /\ AskedBy(main, control'[j])
          /\ \A i \in DOMAIN sinks' : sinks'[i].id = control'[j].id => control'[j].id \in loose'
  BY <1>1, <1>2, <1>3 DEF Single
<1>. QED
  BY <1>4, <1>5, <1>6, <1>7 DEF Single

\* A broadcast keeps what the invariant says of the sinks, the ids and the panes.
LEMMA BroadcastStep ==
  ASSUME IInv, NEW n \in Nat, NEW frame, Broadcastable(frame, n), Broadcast(frame),
         frame # Tick => DrawnAhead(frame) \subseteq loose',
         sent' = n, loose \subseteq loose', loose' \subseteq 1 .. minted,
         UNCHANGED <<mirror, pane, main, minted>>, control' = control \/ control' = <<>>
  PROVE  /\ sinks' \in Seq(Sink) /\ inbox' \in [Panes -> Seq(Frame)]
         /\ Asking' /\ Single' /\ Shown' /\ Streams'
<1>1. /\ frame \in Frame /\ frame.from <= mirror /\ frame.upTo <= mirror
  BY BroadcastableTyped
<1>2. Typed /\ Asking /\ Single /\ Shown /\ Streams
  BY DEF IInv
<1>3. sinks' = SinksAfter(frame) /\ inbox' = [p \in Panes |-> InboxAfter(p, frame)]
  BY DEF Broadcast, Delivers
<1>4. sinks' \in Seq(Sink) /\ Descends(sinks')
  BY <1>1, <1>2, <1>3, ServedDescends
<1>5. ASSUME NEW p \in Panes
      PROVE  /\ inbox'[p] \in Seq(Frame)
             /\ \A i \in 1 .. Len(inbox'[p]) : inbox'[p][i].from <= mirror /\ inbox'[p][i].upTo <= mirror
  BY <1>1, <1>2, <1>3, InboxTyped DEF Shown
<1>6. inbox' \in [Panes -> Seq(Frame)]
  BY <1>3, <1>5
<1>7. Single'
  BY <1>2, <1>4, SingleKept
<1>8. Shown'
  BY <1>2, <1>5 DEF Shown
<1>9. Asking'
  <2>1. ASSUME main.at = "asked"
        PROVE  inbox'[main.pane] = <<>> /\ \A i \in DOMAIN sinks' : sinks'[i].id # minted
    <3>1. /\ main.pane \in Panes /\ pane[main.pane].id = minted /\ inbox[main.pane] = <<>>
          /\ \A i \in DOMAIN sinks : sinks[i].id # minted
      BY <1>2, <2>1 DEF Asking
    <3>2. Heard(main.pane, frame) = {}
      BY <3>1 DEF Heard, Hears
    <3>3. inbox'[main.pane] = <<>>
      BY <1>2, <1>3, <3>1, <3>2, InboxGrows
    <3>4. \A i \in DOMAIN sinks' : sinks'[i].id # minted
      BY <1>4, <3>1 DEF Descends
    <3>. QED
      BY <3>3, <3>4
  <2>. QED
    BY <1>2, <2>1 DEF Asking
<1>10. Streams'
  <2>1. ASSUME NEW p \in Panes, Begun(p)', pane'[p].id \notin loose'
        PROVE  /\ ~pane'[p].torn /\ Chained(Start(p)', inbox'[p])
               /\ Fed(p, sinks, Start(p), inbox[p], sent)'
    <3>1. Begun(p) /\ Start(p)' = Start(p) /\ pane[p].id \notin loose /\ pane'[p] = pane[p]
      BY <2>1 DEF Begun, Start
    <3>2. frame # Tick => pane[p].id \notin DrawnAhead(frame)
      BY <2>1
    <3>3. /\ Chained(Start(p), InboxAfter(p, frame))
          /\ Fed(p, SinksAfter(frame), Start(p), InboxAfter(p, frame), n)
      BY <3>1, <3>2, StreamServed
    <3>4. inbox'[p] = InboxAfter(p, frame)
      BY <1>3
    <3>5. ~pane[p].torn
      BY <1>2, <3>1 DEF Streams
    <3>6. Fed(p, sinks, Start(p), inbox[p], sent)'
      BY <1>3, <3>1, <3>3, <3>4 DEF Fed, Hears
    <3>. QED
      BY <3>1, <3>3, <3>4, <3>5, <3>6
  <2>. QED
    BY <2>1 DEF Streams
<1>. QED
  BY <1>4, <1>6, <1>7, <1>8, <1>9, <1>10

\* Each of these sinks is one of those there were, but for its debts.
Kin(new) ==
    \E src \in [DOMAIN new -> DOMAIN sinks] :
        /\ \A k, l \in DOMAIN new : src[k] = src[l] => k = l
        /\ \A k \in DOMAIN new : /\ new[k].id = sinks[src[k]].id /\ new[k].pane = sinks[src[k]].pane
                                 /\ new[k].missed = sinks[src[k]].missed

\* Kin share their ids.
LEMMA KinDescends ==
  ASSUME NEW new, Kin(new)
  PROVE  Descends(new)
  BY DEF Kin, Descends

\* And what they have been sent.
LEMMA KinFed ==
  ASSUME NEW new, Kin(new), NEW p, NEW from, NEW frames, NEW n, Fed(p, sinks, from, frames, n)
  PROVE  Fed(p, new, from, frames, n)
<1>1. PICK src \in [DOMAIN new -> DOMAIN sinks] :
        \A k \in DOMAIN new : /\ new[k].id = sinks[src[k]].id /\ new[k].pane = sinks[src[k]].pane
                              /\ new[k].missed = sinks[src[k]].missed
  BY DEF Kin
<1>2. \A k \in DOMAIN new : src[k] \in DOMAIN sinks /\ (Hears(p, new[k]) => Hears(p, sinks[src[k]]))
  BY <1>1 DEF Hears
<1>. QED
  BY <1>1, <1>2 DEF Fed

\* PtySession::detach takes sinks out and leaves the others alone.
LEMMA WithoutKin ==
  ASSUME Typed, NEW id
  PROVE  Without(id) \in Seq(Sink) /\ Kin(Without(id))
<1>. DEFINE P == {i \in DOMAIN sinks : sinks[i].id # id}
            n == Cardinality(P)
            at == [k \in 1 .. n |-> Place(P, k)]
            new == [k \in 1 .. n |-> sinks[Place(P, k)]]
<1>1. /\ n \in Nat
      /\ \A k \in 1 .. n : Place(P, k) \in DOMAIN sinks /\ sinks[Place(P, k)] \in Sink
      /\ \A k, l \in 1 .. n : Place(P, k) = Place(P, l) => k = l
  BY SinkPlaces
<1>2. new \in [1 .. n -> Sink]
  BY <1>1
<1>3. new \in Seq(Sink) /\ DOMAIN new = 1 .. n
  <2>. HIDE DEF new, n
  <2>. QED
    BY <1>1, <1>2, CountedOff
<1>4. at \in [DOMAIN new -> DOMAIN sinks] /\ \A k, l \in DOMAIN new : at[k] = at[l] => k = l
  BY <1>1
<1>5. \A k \in DOMAIN new : new[k] = sinks[at[k]]
  OBVIOUS
<1>6. Kin(new)
  <2>. HIDE DEF new, at
  <2>. QED
    BY <1>4, <1>5 DEF Kin
<1>7. Without(id) = new
  BY DEF Without
<1>. QED
  BY <1>3, <1>6, <1>7

\* PtySession::ack changes what a sink owes, and no more.
LEMMA AckedKin ==
  ASSUME Typed, NEW id, NEW n \in Nat
  PROVE  Acked(sinks, id, n) \in Seq(Sink) /\ Kin(Acked(sinks, id, n))
<1>. DEFINE m == Len(sinks)
            same == [k \in DOMAIN sinks |-> k]
            new == Acked(sinks, id, n)
<1>1. /\ m \in Nat /\ DOMAIN sinks = 1 .. m /\ \A i \in DOMAIN sinks : sinks[i] \in Sink
  BY DEF Typed
<1>2. ASSUME NEW i \in 1 .. m
      PROVE  /\ new[i] \in Sink /\ new[i].id = sinks[i].id /\ new[i].pane = sinks[i].pane
             /\ new[i].missed = sinks[i].missed
  <2>. DEFINE owed == IF sinks[i].owed > n THEN sinks[i].owed - n ELSE 0
  <2>1. owed \in Nat /\ sinks[i] \in Sink
    BY <1>1 DEF Sink
  <2>2. new[i] = [sinks[i] EXCEPT !.owed = owed, !.late = FALSE] \/ new[i] = sinks[i]
    BY <1>1 DEF Acked
  <2>. HIDE DEF owed, new
  <2>. QED
    BY <2>1, <2>2 DEF Sink
<1>3. DOMAIN new = 1 .. m /\ new \in [1 .. m -> Sink]
  BY <1>1, <1>2 DEF Acked
<1>4. new \in Seq(Sink)
  <2>. HIDE DEF new, m
  <2>. QED
    BY <1>1, <1>3, CountedOff
<1>5. same \in [DOMAIN new -> DOMAIN sinks] /\ \A k \in DOMAIN new : same[k] = k
  BY <1>1, <1>3
<1>6. Kin(new)
  <2>. HIDE DEF new, same
  <2>. QED
    BY <1>1, <1>2, <1>3, <1>5 DEF Kin
<1>. QED
  BY <1>4, <1>6

\* Debts are nothing the invariant speaks of.
LEMMA KinStep ==
  ASSUME IInv, Kin(sinks'), UNCHANGED <<pane, main, minted, loose, inbox, sent, mirror, control>>
  PROVE  Asking' /\ Single' /\ Shown' /\ Streams'
<1>1. Asking /\ Single /\ Shown /\ Streams
  BY DEF IInv
<1>2. Descends(sinks')
  BY KinDescends
<1>3. Single'
  BY <1>1, <1>2, SingleKept DEF Single
<1>4. Shown'
  BY <1>1 DEF Shown
<1>5. Asking'
  BY <1>1, <1>2 DEF Asking, Descends
<1>6. ASSUME NEW p \in Panes, Begun(p)', pane'[p].id \notin loose'
      PROVE  /\ ~pane'[p].torn /\ Chained(Start(p)', inbox'[p])
             /\ Fed(p, sinks, Start(p), inbox[p], sent)'
  <2>1. Begun(p) /\ Start(p)' = Start(p) /\ pane[p].id \notin loose
    BY <1>6 DEF Begun, Start
  <2>2. ~pane[p].torn /\ Chained(Start(p), inbox[p]) /\ Fed(p, sinks, Start(p), inbox[p], sent)
    BY <1>1, <2>1 DEF Streams
  <2>3. Fed(p, sinks', Start(p), inbox[p], sent)
    BY <2>2, KinFed
  <2>. QED
    BY <2>1, <2>2, <2>3 DEF Fed, Hears
<1>7. Streams'
  BY <1>6 DEF Streams
<1>. QED
  BY <1>3, <1>4, <1>5, <1>7

---------------------------------------------------------------------------
(* The child, the reader, the coalescer *)

\* What the invariant speaks of, but for types.
Core == <<read, queued, queue, co, mirror, sent, control, sinks, main, minted, loose, pane, inbox>>

\* The end of the child's output, its exit, and the watchers of its exit.
LEMMA ExitsKeep ==
  ASSUME IInv, \/ OutputCloses \/ ChildDies \/ ReaderEnds \/ Reaps \/ Flags
               \/ (\E w \in Watchers : Calls(w) \/ OnExit(w)) \/ UNCHANGED vars
  PROVE  IInv'
<1>1. UNCHANGED <<Core, attachments, unacked>>
  BY DEF OutputCloses, ChildDies, ReaderEnds, Reaps, Flags, Calls, OnExit, vars,
         Core, childVars, readerVars, coVars, mainVars, paneVars, exitVars
<1>2. case' \in Bounded
  <2>1. case' = case \/ \E w \in Watchers : case' = [case EXCEPT !.watchers = @ \ {w}]
    BY DEF OutputCloses, ChildDies, ReaderEnds, Reaps, Flags, Calls, OnExit, vars
  <2>2. case \in Bounded
    BY DEF IInv, Typed
  <2>3. ASSUME NEW w PROVE [case EXCEPT !.watchers = @ \ {w}] \in Bounded
    BY <2>2 DEF Bounded
  <2>. QED
    BY <2>1, <2>2, <2>3
<1>3. slot' \in {"Running", "Reaped", "Flagged"}
  BY DEF OutputCloses, ChildDies, ReaderEnds, Reaps, Flags, Calls, OnExit, vars, exitVars, IInv,
     Typed
<1>4. Typed'
  BY <1>1, <1>2, <1>3 DEF IInv, Typed, Core
<1>5. Ordered' /\ Channelled' /\ Shown'
  BY <1>1 DEF IInv, Core, Ordered, Channelled, Shown
<1>6. Asking' /\ Single'
  BY <1>1 DEF IInv, Core, Asking, Single
<1>7. Streams'
  BY <1>1 DEF IInv, Core, Streams, Begun, Start, Fed, Hears
<1>. QED
  BY <1>4, <1>5, <1>6, <1>7 DEF IInv

\* The reader has more bytes in hand.
LEMMA ReadsKeeps ==
  ASSUME IInv, Reads
  PROVE  IInv'
<1>1. UNCHANGED <<case, queued, queue, co, mirror, sent, control, sinks, main, minted, loose,
                  pane, inbox,
                  attachments, unacked, slot>>
  BY DEF Reads, readerVars, coVars, mainVars, paneVars, exitVars
<1>2. read' \in Nat /\ read <= read'
  BY SizesTyped DEF Reads, IInv, Typed
<1>3. Typed'
  BY <1>1, <1>2 DEF IInv, Typed
<1>4. Ordered' /\ Channelled' /\ Shown'
  BY <1>1, <1>2 DEF IInv, Typed, Ordered, Channelled, Shown
<1>5. Asking' /\ Single'
  BY <1>1 DEF IInv, Asking, Single
<1>6. Streams'
  BY <1>1 DEF IInv, Streams, Begun, Start, Fed, Hears
<1>. QED
  BY <1>3, <1>4, <1>5, <1>6 DEF IInv

\* And sends them on: the channel continues where it ended.
LEMMA QueuesKeeps ==
  ASSUME IInv, Queues
  PROVE  IInv'
<1>1. UNCHANGED <<case, read, co, mirror, sent, control, sinks, main, minted, loose, pane, inbox,
                  attachments, unacked, slot>>
  BY DEF Queues, coVars, mainVars, paneVars, exitVars
<1>2. /\ queue \in Seq(Nat) /\ Len(queue) \in Nat /\ Len(queue) < Depth /\ queued \in Nat /\ read \in Nat
      /\ queued < read /\ queue' = Append(queue, read) /\ queued' = read /\ mirror \in Nat /\ Depth \in Nat
      /\ mirror <= queued
  BY SizesTyped DEF Queues, HasRoom, IInv, Typed, Ordered
<1>3. /\ queue' \in Seq(Nat) /\ Len(queue') = Len(queue) + 1 /\ queue'[Len(queue) + 1] = read
      /\ \A i \in 1 .. Len(queue) : queue'[i] = queue[i]
  BY <1>2
<1>4. Typed'
  BY <1>1, <1>2, <1>3 DEF IInv, Typed
<1>5. Ordered' /\ Shown'
  BY <1>1, <1>2 DEF IInv, Ordered, Shown
<1>6. Channelled'
  <2>1. Len(queue') <= Depth
    BY <1>2, <1>3
  <2>2. ASSUME NEW i \in 1 .. Len(queue')
        PROVE  (IF i = 1 THEN mirror ELSE queue'[i - 1]) < queue'[i] /\ queue'[i] <= queued'
    <3>1. CASE i = Len(queue) + 1
      <4>1. (IF i = 1 THEN mirror ELSE queue'[i - 1]) = queued
        BY <1>2, <1>3, <3>1 DEF IInv, Channelled
      <4>. QED
        BY <1>2, <1>3, <3>1, <4>1
    <3>2. CASE i # Len(queue) + 1
      <4>1. i \in 1 .. Len(queue) /\ queue'[i] = queue[i] /\ queue[i] \in Nat /\ (i # 1 => queue'[i - 1] = queue[i - 1])
        BY <1>2, <1>3, <3>2
      <4>2. (IF i = 1 THEN mirror ELSE queue[i - 1]) < queue[i] /\ queue[i] <= queued
        BY <4>1 DEF IInv, Channelled
      <4>. QED
        BY <1>2, <4>1, <4>2
    <3>. QED
      BY <3>1, <3>2
  <2>3. queued' = IF Len(queue') = 0 THEN mirror' ELSE queue'[Len(queue')]
    BY <1>2, <1>3
  <2>. QED
    BY <1>1, <2>1, <2>2, <2>3 DEF Channelled
<1>7. Asking' /\ Single'
  BY <1>1 DEF IInv, Asking, Single
<1>8. Streams'
  BY <1>1 DEF IInv, Streams, Begun, Start, Fed, Hears
<1>. QED
  BY <1>4, <1>5, <1>6, <1>7, <1>8 DEF IInv

\* The mirror takes the next chunk, which is not empty.
LEMMA TakesKeeps ==
  ASSUME IInv, Takes
  PROVE  IInv' /\ mirror < mirror'
<1>1. UNCHANGED <<case, read, queued, sent, control, sinks, main, minted, loose, pane, inbox,
                  attachments, unacked, slot>>
  BY DEF Takes, mainVars, paneVars, exitVars
<1>2. /\ queue \in Seq(Nat) /\ queue # <<>> /\ Len(queue) \in Nat /\ Len(queue) >= 1
      /\ mirror' = queue[1] /\ queue' = Tail(queue) /\ co' = "flush" /\ Depth \in Nat
      /\ mirror \in Nat /\ mirror' \in Nat /\ queued \in Nat
  BY SizesTyped DEF Takes, Ready, IInv, Typed
<1>3. /\ queue' \in Seq(Nat) /\ Len(queue') = Len(queue) - 1
      /\ \A i \in 1 .. Len(queue) - 1 : queue'[i] = queue[i + 1]
  BY <1>2
<1>4. mirror < mirror' /\ mirror' <= queued
  <2>1. 1 \in 1 .. Len(queue)
    BY <1>2
  <2>. QED
    BY <1>2, <2>1 DEF IInv, Channelled
<1>5. Typed'
  BY <1>1, <1>2, <1>3 DEF IInv, Typed
<1>6. Ordered' /\ Shown'
  <2>1. \A n \in Nat : n <= mirror => n <= mirror'
    BY <1>2, <1>4
  <2>2. Ordered'
    BY <1>1, <1>2, <1>4, <2>1 DEF IInv, Typed, Ordered
  <2>3. ASSUME NEW p \in Panes PROVE pane[p].at \in Nat /\ inbox[p] \in Seq(Frame)
    BY DEF IInv, Typed, Link
  <2>4. ASSUME NEW p \in Panes, NEW i \in 1 .. Len(inbox[p])
        PROVE  inbox[p][i].from \in Nat /\ inbox[p][i].upTo \in Nat
    <3>1. inbox[p][i] \in Frame
      BY <2>3
    <3>. QED
      BY <3>1 DEF Frame
  <2>5. main.screen \in Nat
    BY DEF IInv, Typed, Errand
  <2>6. Shown'
    BY <1>1, <2>1, <2>3, <2>4, <2>5 DEF IInv, Shown
  <2>. QED
    BY <2>2, <2>6
<1>7. Channelled'
  <2>1. Len(queue') <= Depth
    BY <1>2, <1>3 DEF IInv, Channelled
  <2>2. ASSUME NEW i \in 1 .. Len(queue')
        PROVE  (IF i = 1 THEN mirror' ELSE queue'[i - 1]) < queue'[i] /\ queue'[i] <= queued
    <3>1. i + 1 \in 1 .. Len(queue) /\ i + 1 # 1 /\ (i + 1) - 1 = i /\ queue'[i] = queue[i + 1]
      BY <1>2, <1>3
    <3>2. queue[i] < queue[i + 1] /\ queue[i + 1] <= queued
      BY <3>1 DEF IInv, Channelled
    <3>3. (IF i = 1 THEN mirror' ELSE queue'[i - 1]) = queue[i]
      BY <1>2, <1>3
    <3>. QED
      BY <3>1, <3>2, <3>3
  <2>3. queued = IF Len(queue') = 0 THEN mirror' ELSE queue'[Len(queue')]
    <3>1. queued = queue[Len(queue)]
      BY <1>2 DEF IInv, Channelled
    <3>. QED
      BY <1>2, <1>3, <3>1
  <2>. QED
    BY <1>1, <2>1, <2>2, <2>3 DEF Channelled
<1>8. Asking' /\ Single'
  BY <1>1 DEF IInv, Asking, Single
<1>9. Streams'
  BY <1>1 DEF IInv, Streams, Begun, Start, Fed, Hears
<1>. QED
  BY <1>4, <1>5, <1>6, <1>7, <1>8, <1>9 DEF IInv

\* A frame of the largest size, and whoever was redrawn meanwhile is noted.
LEMMA SplitsKeeps ==
  ASSUME IInv, Splits
  PROVE  IInv'
<1>. DEFINE frame == Bytes(sent, sent + MaxFrame)
<1>1. UNCHANGED <<case, read, queued, queue, co, mirror, control, main, minted, attachments,
                  pane, unacked, slot>>
  BY DEF Splits, readerVars, paneVars, exitVars
<1>2. /\ sent \in Nat /\ mirror \in Nat /\ sent + MaxFrame \in Nat /\ sent < sent + MaxFrame
      /\ sent + MaxFrame <= mirror /\ co = "flush"
  BY SizesTyped DEF Splits, Pending, IInv, Typed
<1>3. Broadcast(frame) /\ sent' = sent + MaxFrame /\ loose' = loose \cup DrawnAhead(frame)
  BY DEF Splits
<1>4. Broadcastable(frame, sent + MaxFrame)
  BY <1>2 DEF Broadcastable
<1>5. loose' \subseteq 1 .. minted
  BY <1>3 DEF IInv, Single, DrawnAhead
<1>6. /\ sinks' \in Seq(Sink) /\ inbox' \in [Panes -> Seq(Frame)]
      /\ Asking' /\ Single' /\ Shown' /\ Streams'
  <2>. HIDE DEF frame
  <2>. QED
    BY <1>1, <1>2, <1>3, <1>4, <1>5, BroadcastStep
<1>7. Typed' /\ Ordered' /\ Channelled'
  BY <1>1, <1>2, <1>3, <1>6 DEF IInv, Typed, Ordered, Channelled
<1>. QED
  BY <1>6, <1>7 DEF IInv

\* All that is pending in one frame: nobody is redrawn ahead of it.
LEMMA RestBroadcast ==
  ASSUME IInv, Pending > 0, Broadcast(Rest), sent' = mirror,
         UNCHANGED <<mirror, pane, main, minted, loose>>, control' = control \/ control' = <<>>
  PROVE  /\ sinks' \in Seq(Sink) /\ inbox' \in [Panes -> Seq(Frame)]
         /\ Asking' /\ Single' /\ Shown' /\ Streams'
<1>1. sent \in Nat /\ mirror \in Nat /\ sent < mirror
  BY DEF Pending, IInv, Typed
<1>2. Broadcastable(Rest, mirror)
  BY <1>1 DEF Broadcastable, Rest
<1>3. DrawnAhead(Rest) = {}
  BY <1>1 DEF DrawnAhead, Rest, Bytes
<1>4. loose' \subseteq 1 .. minted
  BY DEF IInv, Single
<1>. QED
  BY <1>1, <1>2, <1>3, <1>4, BroadcastStep

\* A tick, when nothing is pending.
LEMMA TickBroadcast ==
  ASSUME IInv, sent = mirror, Broadcast(Tick),
         UNCHANGED <<sent, mirror, pane, main, minted, loose, control>>
  PROVE  /\ sinks' \in Seq(Sink) /\ inbox' \in [Panes -> Seq(Frame)]
         /\ Asking' /\ Single' /\ Shown' /\ Streams'
<1>1. sent \in Nat /\ Broadcastable(Tick, sent)
  BY DEF Broadcastable, IInv, Typed
<1>2. loose' \subseteq 1 .. minted
  BY DEF IInv, Single
<1>. QED
  BY <1>1, <1>2, BroadcastStep

\* No broadcast: nothing that the sinks' part of the invariant speaks of.
LEMMA QuietKept ==
  ASSUME IInv, UNCHANGED <<sent, mirror, pane, main, minted, loose, sinks, inbox>>,
         control' = control \/ control' = <<>>
  PROVE  /\ sinks' \in Seq(Sink) /\ inbox' \in [Panes -> Seq(Frame)]
         /\ Asking' /\ Single' /\ Shown' /\ Streams'
<1>1. sinks' \in Seq(Sink) /\ inbox' \in [Panes -> Seq(Frame)]
  BY DEF IInv, Typed
<1>2. Asking' /\ Shown' /\ Streams'
  BY DEF IInv, Asking, Shown, Streams, Begun, Start, Fed, Hears
<1>3. \A j \in DOMAIN control' : j \in DOMAIN control /\ control'[j] = control[j]
  OBVIOUS
<1>4. Single'
  BY <1>3 DEF IInv, Single
<1>. QED
  BY <1>1, <1>2, <1>4

\* The end of a flush: the rest goes out only when there is enough of it.
LEMMA FlushesKeeps ==
  ASSUME IInv, Flushes
  PROVE  IInv'
<1>1. UNCHANGED <<case, read, queued, queue, mirror, control, main, minted, loose, attachments,
                  pane, unacked, slot>>
  BY DEF Flushes, readerVars, mainVars, paneVars, exitVars
<1>2. sent \in Nat /\ mirror \in Nat /\ co' = "select" /\ FlushBytes \in Nat /\ 0 < FlushBytes
  BY SizesTyped DEF Flushes, IInv, Typed
<1>3. CASE Pending >= FlushBytes
  <2>1. Pending > 0 /\ Broadcast(Rest) /\ sent' = mirror
    BY <1>2, <1>3 DEF Flushes, Pending
  <2>2. /\ sinks' \in Seq(Sink) /\ inbox' \in [Panes -> Seq(Frame)]
        /\ Asking' /\ Single' /\ Shown' /\ Streams'
    BY <1>1, <2>1, RestBroadcast
  <2>3. Typed' /\ Ordered' /\ Channelled'
    BY <1>1, <1>2, <2>1, <2>2 DEF IInv, Typed, Ordered, Channelled
  <2>. QED
    BY <2>2, <2>3 DEF IInv
<1>4. CASE ~(Pending >= FlushBytes)
  <2>1. UNCHANGED <<sinks, inbox, sent>>
    BY <1>4 DEF Flushes
  <2>2. Asking' /\ Single' /\ Shown' /\ Streams'
    BY <1>1, <2>1, QuietKept
  <2>3. Typed' /\ Ordered' /\ Channelled'
    BY <1>1, <1>2, <2>1 DEF IInv, Typed, Ordered, Channelled
  <2>. QED
    BY <2>2, <2>3 DEF IInv
<1>. QED
  BY <1>3, <1>4

\* A silence: the rest goes out, or a tick.
LEMMA IdlesKeeps ==
  ASSUME IInv, Idles
  PROVE  IInv'
<1>1. UNCHANGED <<case, read, queued, queue, mirror, control, main, minted, loose, attachments,
                  pane, unacked, slot>>
  BY DEF Idles, readerVars, mainVars, paneVars, exitVars
<1>2. sent \in Nat /\ mirror \in Nat /\ sent <= mirror /\ co = "select"
  BY DEF Idles, IInv, Typed, Ordered
<1>3. CASE Pending > 0
  <2>1. Broadcast(Rest) /\ sent' = mirror /\ co' = "tick"
    BY <1>3 DEF Idles
  <2>2. /\ sinks' \in Seq(Sink) /\ inbox' \in [Panes -> Seq(Frame)]
        /\ Asking' /\ Single' /\ Shown' /\ Streams'
    BY <1>1, <1>3, <2>1, RestBroadcast
  <2>3. Typed' /\ Ordered' /\ Channelled'
    BY <1>1, <1>2, <2>1, <2>2 DEF IInv, Typed, Ordered, Channelled
  <2>. QED
    BY <2>2, <2>3 DEF IInv
<1>4. CASE ~(Pending > 0)
  <2>1. Broadcast(Tick) /\ UNCHANGED <<sent, co>> /\ sent = mirror
    BY <1>2, <1>4 DEF Idles, Pending
  <2>2. /\ sinks' \in Seq(Sink) /\ inbox' \in [Panes -> Seq(Frame)]
        /\ Asking' /\ Single' /\ Shown' /\ Streams'
    BY <1>1, <2>1, TickBroadcast
  <2>3. Typed' /\ Ordered' /\ Channelled'
    BY <1>1, <1>2, <2>1, <2>2 DEF IInv, Typed, Ordered, Channelled
  <2>. QED
    BY <2>2, <2>3 DEF IInv
<1>. QED
  BY <1>3, <1>4

\* The tick after a flush.
LEMMA TicksKeeps ==
  ASSUME IInv, Ticks
  PROVE  IInv'
<1>1. UNCHANGED <<case, read, queued, queue, mirror, sent, control, main, minted, loose,
                  attachments, pane, unacked, slot>>
  BY DEF Ticks, readerVars, mainVars, paneVars, exitVars
<1>2. Broadcast(Tick) /\ sent = mirror /\ co' = "select"
  BY DEF Ticks, IInv, Ordered
<1>3. /\ sinks' \in Seq(Sink) /\ inbox' \in [Panes -> Seq(Frame)]
      /\ Asking' /\ Single' /\ Shown' /\ Streams'
  BY <1>1, <1>2, TickBroadcast
<1>4. Typed' /\ Ordered' /\ Channelled'
  BY <1>1, <1>2, <1>3 DEF IInv, Typed, Ordered, Channelled
<1>. QED
  BY <1>3, <1>4 DEF IInv

\* The last flush; the requests that are queued go with the channel.
LEMMA EndsKeeps ==
  ASSUME IInv, Ends
  PROVE  IInv'
<1>1. UNCHANGED <<case, read, queued, queue, mirror, main, minted, loose, attachments, pane,
                  unacked, slot>>
  BY DEF Ends, readerVars, mainVars, paneVars, exitVars
<1>2. sent \in Nat /\ mirror \in Nat /\ sent <= mirror /\ sent' = mirror /\ co' = "gone" /\ control' = <<>>
  BY DEF Ends, IInv, Typed, Ordered
<1>3. /\ sinks' \in Seq(Sink) /\ inbox' \in [Panes -> Seq(Frame)]
      /\ Asking' /\ Single' /\ Shown' /\ Streams'
  <2>1. CASE Pending > 0
    <3>1. Broadcast(Rest)
      BY <2>1 DEF Ends
    <3>. QED
      BY <1>1, <1>2, <2>1, <3>1, RestBroadcast
  <2>2. CASE ~(Pending > 0)
    <3>1. UNCHANGED <<sinks, inbox>> /\ sent = mirror
      BY <1>2, <2>2 DEF Ends, Pending
    <3>. QED
      BY <1>1, <1>2, <3>1, QuietKept
  <2>. QED
    BY <2>1, <2>2
<1>4. control' \in Seq(Request)
  BY <1>2
<1>5. Typed' /\ Ordered' /\ Channelled'
  BY <1>1, <1>2, <1>3, <1>4 DEF IInv, Typed, Ordered, Channelled
<1>. QED
  BY <1>3, <1>5 DEF IInv

\* A watchdog's time is up.
LEMMA WatchdogKeeps ==
  ASSUME IInv, WatchdogPasses
  PROVE  IInv'
<1>2. UNCHANGED <<case, read, queued, queue, co, mirror, sent, control, main, minted, loose,
                  attachments,
                  pane, inbox, unacked, slot>>
  BY DEF WatchdogPasses, readerVars, coVars, mainVars, paneVars, exitVars
<1>3. PICK i \in DOMAIN sinks : sinks' = [sinks EXCEPT ![i].late = TRUE]
  BY DEF WatchdogPasses
<1>4. Len(sinks) \in Nat /\ DOMAIN sinks = 1 .. Len(sinks) /\ \A k \in DOMAIN sinks : sinks[k] \in Sink
  BY DEF IInv, Typed
<1>5. ASSUME NEW k \in DOMAIN sinks
      PROVE  /\ sinks'[k] \in Sink /\ sinks'[k].id = sinks[k].id /\ sinks'[k].pane = sinks[k].pane
             /\ sinks'[k].missed = sinks[k].missed
  BY <1>3, <1>4 DEF Sink
<1>6. sinks' \in [1 .. Len(sinks) -> Sink]
  BY <1>3, <1>4, <1>5
<1>7. sinks' \in Seq(Sink) /\ DOMAIN sinks' = DOMAIN sinks
  BY <1>4, <1>6, CountedOff
<1>8. Kin(sinks')
  <2>. DEFINE same == [k \in DOMAIN sinks' |-> k]
  <2>1. same \in [DOMAIN sinks' -> DOMAIN sinks] /\ \A k \in DOMAIN sinks' : same[k] = k
    BY <1>7
  <2>. HIDE DEF same
  <2>. QED
    BY <1>5, <1>7, <2>1 DEF Kin
<1>9. Asking' /\ Single' /\ Shown' /\ Streams'
  BY <1>2, <1>8, KinStep
<1>10. Typed' /\ Ordered' /\ Channelled'
  BY <1>2, <1>7 DEF IInv, Typed, Ordered, Channelled
<1>. QED
  BY <1>9, <1>10 DEF IInv

---------------------------------------------------------------------------
(* Attaching and detaching *)

\* serve_control: what is pending goes out first, so the picture and the next
\* frame meet.
LEMMA ServeAttachKeeps ==
  ASSUME IInv, ServeAttach
  PROVE  IInv'
<1>. DEFINE asked == control[1]
            new == Registered(asked.id, asked.pane)
            ss == IF Pending > 0 THEN SinksAfter(Rest) ELSE sinks
            n == Len(ss)
<1>1. UNCHANGED <<case, read, queued, queue, co, mirror, minted, attachments, loose, pane,
                  unacked, slot>>
  BY DEF ServeAttach, readerVars, paneVars, exitVars
<1>2. /\ Typed /\ Ordered /\ Channelled /\ Asking /\ Single /\ Shown /\ Streams
  BY DEF IInv
<1>3. /\ control \in Seq(Request) /\ control # <<>> /\ Len(control) \in Nat /\ Len(control) >= 1
      /\ asked = Head(control) /\ asked \in Request /\ control' = Tail(control) /\ control' \in Seq(Request)
      /\ DOMAIN control = 1 .. Len(control) /\ DOMAIN control' = 1 .. Len(control) - 1
      /\ \A j \in DOMAIN control' : control'[j] = control[j + 1] /\ j + 1 \in DOMAIN control /\ j + 1 # 1
  BY <1>2 DEF ServeAttach, Typed
<1>4. 1 \in DOMAIN control /\ asked.id \in 1 .. minted
  BY <1>2, <1>3 DEF Single
<1>5. sent \in Nat /\ mirror \in Nat /\ sent <= mirror
  BY <1>2 DEF Typed, Ordered
<1>6. /\ sinks' = Append(ss, new)
      /\ main' = IF main.at = "asked" /\ main.id = asked.id
                   THEN [main EXCEPT !.at = "answered", !.screen = mirror] ELSE main
  BY <1>3 DEF ServeAttach, Answered
<1>7. sent' = mirror
  BY <1>5 DEF ServeAttach, Pending
<1>8. /\ ss \in Seq(Sink) /\ Descends(ss) /\ inbox' \in [Panes -> Seq(Frame)]
      /\ \A p \in Panes, i \in Nat : i \in 1 .. Len(inbox'[p]) =>
            inbox'[p][i].from <= mirror /\ inbox'[p][i].upTo <= mirror
      /\ main.at = "asked" => inbox'[main.pane] = <<>>
      /\ \A p \in Panes : Begun(p) /\ pane[p].id \notin loose =>
            Chained(Start(p), inbox'[p]) /\ Fed(p, ss, Start(p), inbox'[p], mirror)
  <2>1. CASE Pending > 0
    <3>1. inbox' = [p \in Panes |-> InboxAfter(p, Rest)] /\ ss = SinksAfter(Rest)
      BY <2>1 DEF ServeAttach, Delivers
    <3>2. Broadcastable(Rest, mirror) /\ DrawnAhead(Rest) = {}
      BY <1>5, <2>1 DEF Broadcastable, Rest, Pending, DrawnAhead, Bytes
    <3>3. Rest \in Frame /\ Rest.from <= mirror /\ Rest.upTo <= mirror
      BY <1>5, <3>2, BroadcastableTyped
    <3>4. ss \in Seq(Sink) /\ Descends(ss)
      BY <1>2, <3>1, <3>3, ServedDescends
    <3>5. ASSUME NEW p \in Panes
          PROVE  /\ inbox'[p] \in Seq(Frame)
                 /\ \A i \in 1 .. Len(inbox'[p]) : inbox'[p][i].from <= mirror /\ inbox'[p][i].upTo <= mirror
      BY <1>2, <3>1, <3>3, InboxTyped DEF Shown
    <3>6. inbox' \in [Panes -> Seq(Frame)]
      BY <3>1, <3>5
    <3>7. ASSUME main.at = "asked" PROVE inbox'[main.pane] = <<>>
      <4>1. /\ main.pane \in Panes /\ pane[main.pane].id = minted /\ inbox[main.pane] = <<>>
            /\ \A i \in DOMAIN sinks : sinks[i].id # minted
        BY <1>2, <3>7 DEF Asking
      <4>2. Heard(main.pane, Rest) = {}
        BY <4>1 DEF Heard, Hears
      <4>. QED
        BY <1>2, <3>1, <4>1, <4>2, InboxGrows
    <3>8. ASSUME NEW p \in Panes, Begun(p), pane[p].id \notin loose
          PROVE  Chained(Start(p), inbox'[p]) /\ Fed(p, ss, Start(p), inbox'[p], mirror)
      BY <1>5, <3>1, <3>2, <3>8, StreamServed
    <3>. QED
      BY <3>4, <3>5, <3>6, <3>7, <3>8
  <2>2. CASE ~(Pending > 0)
    <3>1. inbox' = inbox /\ ss = sinks /\ sent = mirror
      BY <1>5, <2>2 DEF ServeAttach, Pending
    <3>2. Descends(sinks)
      <4>. DEFINE same == [k \in DOMAIN sinks |-> k]
      <4>1. same \in [DOMAIN sinks -> DOMAIN sinks] /\ \A k \in DOMAIN sinks : same[k] = k
        OBVIOUS
      <4>. HIDE DEF same
      <4>. QED
        BY <4>1 DEF Descends
    <3>. QED
      BY <1>2, <3>1, <3>2 DEF Typed, Shown, Asking, Streams
  <2>. QED
    BY <2>1, <2>2
<1>. HIDE DEF ss
<1>9. new \in Sink /\ new.id = asked.id /\ new.pane = asked.pane /\ ~new.missed
  BY <1>3 DEF Registered, Sink, Request
<1>10. /\ n \in Nat /\ sinks' \in Seq(Sink) /\ DOMAIN sinks' = 1 .. n + 1 /\ DOMAIN ss = 1 .. n
       /\ sinks'[n + 1] = new /\ \A i \in 1 .. n : sinks'[i] = ss[i]
  BY <1>6, <1>8, <1>9
<1>11. PICK src \in [1 .. n -> DOMAIN sinks] :
        /\ \A k, l \in 1 .. n : src[k] = src[l] => k = l
        /\ \A k \in 1 .. n : ss[k].id = sinks[src[k]].id
  <2>1. PICK src \in [DOMAIN ss -> DOMAIN sinks] :
          /\ \A k, l \in DOMAIN ss : src[k] = src[l] => k = l
          /\ \A k \in DOMAIN ss : ss[k].id = sinks[src[k]].id
    BY <1>8 DEF Descends
  <2>. QED
    BY <1>10, <2>1
<1>12. \A k \in 1 .. n : src[k] \in DOMAIN sinks /\ sinks'[k].id = sinks[src[k]].id
  BY <1>10, <1>11
<1>13. /\ main' \in Errand /\ main'.id = main.id /\ main'.pane = main.pane /\ main'.screen <= mirror
       /\ main'.at # "free" <=> main.at # "free"
       /\ main'.at = "asked" => main' = main /\ main.id # asked.id
       /\ main.at # "asked" \/ main.id # asked.id => main' = main
       /\ main.at = "asked" /\ main.id = asked.id => main'.at = "answered" /\ main'.screen = mirror
  <2>1. main \in Errand /\ main.screen <= mirror
    BY <1>2 DEF Typed, Shown
  <2>2. CASE main.at = "asked" /\ main.id = asked.id
    <3>1. main' = [main EXCEPT !.at = "answered", !.screen = mirror]
      BY <1>6, <2>2
    <3>2. /\ main' \in Errand /\ main'.id = main.id /\ main'.pane = main.pane
          /\ main'.at = "answered" /\ main'.screen = mirror
      BY <1>5, <2>1, <3>1 DEF Errand
    <3>. QED
      BY <1>5, <2>1, <2>2, <3>2
  <2>3. CASE ~(main.at = "asked" /\ main.id = asked.id)
    BY <1>6, <2>1, <2>3
  <2>. QED
    BY <2>2, <2>3
<1>14. Typed' /\ Ordered' /\ Channelled'
  BY <1>1, <1>2, <1>3, <1>5, <1>7, <1>8, <1>10, <1>13 DEF Typed, Ordered, Channelled
<1>15. Shown'
  BY <1>1, <1>2, <1>8, <1>13 DEF Shown
<1>16. Single'
  <2>1. \A i \in DOMAIN sinks' : sinks'[i].id \in 1 .. minted
    BY <1>2, <1>4, <1>9, <1>10, <1>12 DEF Single
  <2>2. ASSUME NEW j \in DOMAIN control'
        PROVE  /\ control'[j].id \in 1 .. minted
               /\ control'[j].id \notin loose => main'.at \in {"asked", "push"} /\ AskedBy(main', control'[j])
               /\ \A i \in DOMAIN sinks' : sinks'[i].id = control'[j].id => control'[j].id \in loose
    <3>1. control'[j] = control[j + 1] /\ j + 1 \in DOMAIN control /\ control[j + 1].id # asked.id
      BY <1>2, <1>3, <1>4 DEF Single
    <3>2. control'[j].id \notin loose => main'.at \in {"asked", "push"} /\ AskedBy(main', control'[j])
      BY <1>2, <1>13, <3>1 DEF Single, AskedBy
    <3>3. \A i \in DOMAIN sinks' : sinks'[i].id = control'[j].id => control'[j].id \in loose
      BY <1>2, <1>9, <1>10, <1>12, <3>1 DEF Single
    <3>. QED
      BY <1>2, <3>1, <3>2, <3>3 DEF Single
  <2>3. \A i, j \in DOMAIN control' : control'[i].id = control'[j].id => i = j
    <3>1. ASSUME NEW i \in DOMAIN control', NEW j \in DOMAIN control', control'[i].id = control'[j].id
          PROVE  i = j
      <4>1. i + 1 = j + 1
        BY <1>2, <1>3, <3>1 DEF Single
      <4>. QED
        BY <1>3, <4>1
    <3>. QED
      BY <3>1
  <2>4. ASSUME NEW i \in DOMAIN sinks', NEW j \in DOMAIN sinks',
               sinks'[i].id = sinks'[j].id, sinks'[i].id \notin loose
        PROVE  i = j
    <3>1. \A k \in 1 .. n : sinks'[k].id = asked.id => asked.id \in loose
      BY <1>2, <1>4, <1>12 DEF Single
    <3>2. CASE i \in 1 .. n /\ j \in 1 .. n
      BY <1>2, <1>11, <1>12, <2>4, <3>2 DEF Single
    <3>3. CASE i = n + 1 \/ j = n + 1
      BY <1>9, <1>10, <2>4, <3>1, <3>3
    <3>. QED
      BY <1>10, <3>2, <3>3
  <2>. QED
    BY <1>1, <1>2, <2>1, <2>2, <2>3, <2>4 DEF Single
<1>17. Asking'
  <2>1. ASSUME main'.at = "asked"
        PROVE  inbox'[main'.pane] = <<>> /\ \A i \in DOMAIN sinks' : sinks'[i].id # minted
    <3>1. main' = main /\ main.id # asked.id /\ main.id = minted /\ \A i \in DOMAIN sinks : sinks[i].id # minted
      BY <1>2, <1>13, <2>1 DEF Asking
    <3>. QED
      BY <1>8, <1>9, <1>10, <1>12, <2>1, <3>1
  <2>. QED
    BY <1>1, <1>2, <1>13, <2>1 DEF Asking
<1>18. ASSUME NEW p \in Panes, Begun(p)', pane'[p].id \notin loose'
       PROVE  /\ ~pane'[p].torn /\ Chained(Start(p)', inbox'[p])
              /\ Fed(p, sinks, Start(p), inbox[p], sent)'
  <2>1. pane[p].id \notin loose /\ pane' = pane
    BY <1>1, <1>18
  <2>2. CASE Begun(p)
    <3>1. Start(p)' = Start(p)
      BY <1>13, <2>1, <2>2 DEF Begun, Start
    <3>2. Chained(Start(p), inbox'[p]) /\ Fed(p, ss, Start(p), inbox'[p], mirror) /\ ~pane[p].torn
      BY <1>2, <1>8, <2>1, <2>2 DEF Streams
    <3>3. ~Hears(p, new)
      <4>1. SUFFICES ASSUME Hears(p, new) PROVE FALSE
        OBVIOUS
      <4>2. pane[p].id = asked.id /\ asked.pane = p
        BY <1>9, <4>1 DEF Hears
      <4>3. main.at \in {"asked", "push"} /\ main.pane = p
        BY <1>2, <1>4, <2>1, <4>2 DEF Single, AskedBy
      <4>. QED
        BY <1>2, <2>2, <4>3 DEF Begun, Asking
    <3>4. \A i \in DOMAIN sinks' : Hears(p, sinks'[i]) => i \in DOMAIN ss /\ sinks'[i] = ss[i]
      BY <1>10, <3>3
    <3>5. Fed(p, sinks', Start(p), inbox'[p], mirror)
      BY <3>2, <3>4 DEF Fed
    <3>6. Fed(p, sinks, Start(p), inbox[p], sent)'
      BY <1>7, <2>1, <3>1, <3>5 DEF Fed, Hears
    <3>. QED
      BY <2>1, <3>1, <3>2, <3>6
  <2>3. CASE ~Begun(p)
    <3>1. pane[p].link = "asking" /\ main'.at = "answered" /\ main.at # "answered"
      BY <1>18, <2>1, <2>3 DEF Begun
    <3>2. main.at = "asked" /\ main.id = asked.id /\ main'.screen = mirror
      BY <1>13, <3>1
    <3>3. main.pane = p /\ ~pane[p].torn /\ inbox'[p] = <<>> /\ Start(p)' = mirror
      BY <1>2, <1>8, <2>1, <3>1, <3>2 DEF Asking, Start
    <3>4. Chained(Start(p)', inbox'[p]) /\ Reached(Start(p)', inbox'[p]) = mirror
      BY <3>3 DEF Chained, Reached
    <3>. QED
      BY <1>7, <2>1, <3>3, <3>4 DEF Fed
  <2>. QED
    BY <2>2, <2>3
<1>19. Streams'
  BY <1>18 DEF Streams
<1>. QED
  BY <1>14, <1>15, <1>16, <1>17, <1>19 DEF IInv

\* A pane asks: its link hears nothing yet, and its id is new.
LEMMA AttachAsksKeeps ==
  ASSUME IInv, NEW p \in Panes, AttachAsks(p)
  PROVE  /\ IInv' /\ ~Attached(p) /\ ~(Attached(p)')
         /\ \A q \in Panes : q # p => pane'[q] = pane[q]
<1>. DEFINE request == [id |-> minted + 1, pane |-> p]
<1>1. UNCHANGED <<case, read, queued, queue, co, mirror, sent, sinks, attachments, loose,
                  unacked, slot>>
  BY DEF AttachAsks, readerVars, exitVars
<1>2. Typed /\ Ordered /\ Channelled /\ Asking /\ Single /\ Shown /\ Streams
  BY DEF IInv
<1>3. /\ minted \in Nat /\ minted' = minted + 1 /\ main.at = "free" /\ pane[p].link = "out"
      /\ main' = [at |-> IF exited THEN "push" ELSE "asked", pane |-> p, id |-> minted + 1, screen |-> 0]
      /\ control' = control \/ control' = Append(control, request)
      /\ (main'.at = "push" \/ main'.at = "asked")
  BY <1>2 DEF AttachAsks, Typed
<1>4. /\ pane' = [pane EXCEPT ![p] = [Out EXCEPT !.link = "asking", !.id = minted + 1]]
      /\ inbox' = [inbox EXCEPT ![p] = <<>>]
  BY DEF AttachAsks
<1>5. /\ pane' \in [Panes -> Link] /\ inbox' \in [Panes -> Seq(Frame)]
      /\ pane'[p].link = "asking" /\ pane'[p].id = minted + 1 /\ pane'[p].at = 0 /\ ~pane'[p].torn
      /\ inbox'[p] = <<>>
      /\ \A q \in Panes : q # p => pane'[q] = pane[q] /\ inbox'[q] = inbox[q]
  <2>. DEFINE id == minted + 1
              link == [Out EXCEPT !.link = "asking", !.id = id]
  <2>1. Out \in Link /\ Out.at = 0 /\ Out.torn = FALSE
    BY DEF Out, Link, NoSink
  <2>2. id \in Nat
    BY <1>3
  <2>3. link \in Link /\ link.link = "asking" /\ link.id = id /\ link.at = 0 /\ ~link.torn
    <3>. HIDE DEF id
    <3>. QED
      BY <2>1, <2>2 DEF Link
  <2>. HIDE DEF link
  <2>4. pane \in [Panes -> Link] /\ inbox \in [Panes -> Seq(Frame)] /\ <<>> \in Seq(Frame)
    BY <1>2 DEF Typed
  <2>5. pane' = [pane EXCEPT ![p] = link]
    BY <1>4 DEF link
  <2>. QED
    BY <1>4, <2>3, <2>4, <2>5
<1>6. control \in Seq(Request) /\ Len(control) \in Nat /\ request \in Request /\ DOMAIN control = 1 .. Len(control)
  BY <1>2, <1>3 DEF Typed, Request
<1>7. /\ control' \in Seq(Request)
      /\ \A j \in DOMAIN control' :
            \/ j \in DOMAIN control /\ control'[j] = control[j]
            \/ j = Len(control) + 1 /\ control'[j] = request
  <2>1. CASE control' = control
    BY <1>6, <2>1
  <2>2. CASE control' = Append(control, request)
    BY <1>6, <2>2
  <2>. QED
    BY <1>3, <2>1, <2>2
<1>8. Typed'
  <2>1. main' \in Errand
    BY <1>3 DEF Errand
  <2>. QED
    BY <1>1, <1>2, <1>3, <1>5, <1>7, <2>1 DEF Typed
<1>9. Ordered' /\ Channelled'
  BY <1>1, <1>2 DEF Ordered, Channelled
<1>10. Shown'
  <2>1. mirror \in Nat /\ Len(<<>>) = 0
    BY <1>2 DEF Typed
  <2>2. main'.screen <= mirror
    BY <1>3, <2>1
  <2>3. ASSUME NEW q \in Panes
        PROVE  /\ pane'[q].at <= mirror
               /\ \A i \in 1 .. Len(inbox'[q]) : inbox'[q][i].from <= mirror /\ inbox'[q][i].upTo <= mirror
    <3>1. CASE q = p
      BY <1>5, <2>1, <3>1
    <3>2. CASE q # p
      BY <1>2, <1>5, <3>2 DEF Shown
    <3>. QED
      BY <3>1, <3>2
  <2>. QED
    BY <1>1, <2>2, <2>3 DEF Shown
<1>11. \A q \in Panes : pane[q].id \in Nat /\ pane[q].link # "asking" /\ pane[q].id <= minted
  BY <1>2, <1>3 DEF Typed, Link, Asking
<1>12. \A i \in DOMAIN sinks : sinks[i].id \in 1 .. minted
  BY <1>2 DEF Single
<1>13. Asking'
  <2>1. \A q \in Panes : /\ pane'[q].id <= minted'
                         /\ pane'[q].link = "asking" => q = p /\ ~pane'[q].torn
    BY <1>3, <1>5, <1>11
  <2>2. \A i \in DOMAIN sinks' : sinks'[i].id # minted'
    BY <1>1, <1>3, <1>12
  <2>. QED
    BY <1>3, <1>5, <2>1, <2>2 DEF Asking
<1>14. Single'
  <2>1. 1 .. minted \subseteq 1 .. minted' /\ minted' \in 1 .. minted' /\ minted' \notin 1 .. minted
    BY <1>3
  <2>2. \A j \in DOMAIN control : control[j].id \in loose /\ control[j].id \in 1 .. minted
    BY <1>2, <1>3 DEF Single
  <2>3. ASSUME NEW j \in DOMAIN control'
        PROVE  /\ control'[j].id \in 1 .. minted'
               /\ control'[j].id \notin loose => main'.at \in {"asked", "push"} /\ AskedBy(main', control'[j])
               /\ \A i \in DOMAIN sinks : sinks[i].id = control'[j].id => control'[j].id \in loose
    <3>1. CASE j \in DOMAIN control /\ control'[j] = control[j]
      BY <2>1, <2>2, <3>1
    <3>2. CASE control'[j] = request
      BY <1>3, <1>12, <2>1, <3>2 DEF AskedBy
    <3>. QED
      BY <1>7, <3>1, <3>2
  <2>4. \A i, j \in DOMAIN control' : control'[i].id = control'[j].id => i = j
    <3>1. \A i, j \in DOMAIN control : control[i].id = control[j].id => i = j
      BY <1>2 DEF Single
    <3>2. ASSUME NEW i \in DOMAIN control', NEW j \in DOMAIN control', control'[i].id = control'[j].id
          PROVE  i = j
      BY <1>3, <1>7, <2>1, <2>2, <3>1, <3>2
    <3>. QED
      BY <3>2
  <2>. QED
    BY <1>1, <1>2, <1>12, <2>1, <2>3, <2>4 DEF Single
<1>15. ASSUME NEW q \in Panes, Begun(q)', pane'[q].id \notin loose'
       PROVE  /\ ~pane'[q].torn /\ Chained(Start(q)', inbox'[q])
              /\ Fed(q, sinks, Start(q), inbox[q], sent)'
  <2>1. q # p /\ pane'[q] = pane[q] /\ inbox'[q] = inbox[q] /\ pane[q].link = "live"
    BY <1>3, <1>5, <1>11, <1>15 DEF Begun
  <2>2. Begun(q) /\ Start(q)' = Start(q) /\ pane[q].id \notin loose
    BY <1>1, <1>15, <2>1 DEF Begun, Start
  <2>3. ~pane[q].torn /\ Chained(Start(q), inbox[q]) /\ Fed(q, sinks, Start(q), inbox[q], sent)
    BY <1>2, <2>2 DEF Streams
  <2>. QED
    BY <1>1, <2>1, <2>2, <2>3 DEF Fed, Hears
<1>16. Streams'
  BY <1>15 DEF Streams
<1>. QED
  BY <1>3, <1>5, <1>8, <1>9, <1>10, <1>13, <1>14, <1>16 DEF IInv, Attached

\* It is done waiting for the coalescer: what it asked for may still come.
LEMMA AttachGivesUpKeeps ==
  ASSUME IInv, AttachGivesUp
  PROVE  IInv'
<1>1. UNCHANGED <<case, read, queued, queue, co, mirror, sent, control, sinks, minted,
                  attachments, loose, pane,
                  unacked, inbox, slot>>
  BY DEF AttachGivesUp, readerVars, coVars, paneVars, exitVars
<1>2. Typed /\ Ordered /\ Channelled /\ Asking /\ Single /\ Shown /\ Streams
  BY DEF IInv
<1>3. /\ main \in Errand /\ main' \in Errand /\ main.at = "asked" /\ main'.at = "push"
      /\ main'.id = main.id /\ main'.pane = main.pane /\ main'.screen = main.screen
  BY <1>2 DEF AttachGivesUp, Typed, Errand
<1>4. Typed' /\ Ordered' /\ Channelled' /\ Shown'
  BY <1>1, <1>2, <1>3 DEF Typed, Ordered, Channelled, Shown
<1>5. Asking' /\ Single'
  BY <1>1, <1>2, <1>3 DEF Asking, Single, AskedBy
<1>6. Streams'
  BY <1>1, <1>2, <1>3 DEF Streams, Begun, Start, Fed, Hears
<1>. QED
  BY <1>4, <1>5, <1>6 DEF IInv

\* The fallback registers a sink in the middle of what is pending: its id is noted.
LEMMA AttachPushesKeeps ==
  ASSUME IInv, AttachPushes
  PROVE  IInv'
<1>. DEFINE new == Registered(main.id, main.pane)
            n == Len(sinks)
<1>1. UNCHANGED <<case, read, queued, queue, co, mirror, sent, control, minted, attachments, pane,
                  unacked, inbox, slot>>
  BY DEF AttachPushes, readerVars, coVars, paneVars, exitVars
<1>2. Typed /\ Ordered /\ Channelled /\ Asking /\ Single /\ Shown /\ Streams
  BY DEF IInv
<1>3. /\ main \in Errand /\ main' \in Errand /\ main.at = "push" /\ main'.at = "render"
      /\ main'.id = main.id /\ main'.pane = main.pane /\ main'.screen = main.screen
      /\ sinks' = Append(sinks, new) /\ loose' = loose \cup {main.id}
  BY <1>2 DEF AttachPushes, Typed, Errand
<1>4. main.pane \in Panes /\ main.id = minted /\ minted \in Nat /\ main.id \in Nat /\ pane[main.pane].id = minted
  BY <1>2, <1>3 DEF Asking, Typed, Errand
<1>5. new \in Sink /\ new.id = main.id
  BY <1>4 DEF Registered, Sink
<1>6. /\ sinks \in Seq(Sink) /\ n \in Nat /\ sinks' \in Seq(Sink) /\ DOMAIN sinks = 1 .. n
      /\ \A i \in DOMAIN sinks' : \/ i \in DOMAIN sinks /\ sinks'[i] = sinks[i]
                                  \/ i = n + 1 /\ sinks'[i] = new
  BY <1>2, <1>3, <1>5 DEF Typed
<1>7. Typed' /\ Ordered' /\ Channelled' /\ Shown'
  BY <1>1, <1>2, <1>3, <1>6 DEF Typed, Ordered, Channelled, Shown
<1>8. main.id \in 1 .. minted
  <2>1. 0 < minted
    BY <1>2, <1>3 DEF Asking
  <2>. QED
    BY <1>4, <2>1
<1>9. Asking'
  BY <1>1, <1>2, <1>3 DEF Asking
<1>10. Single'
  <2>1. loose' \subseteq 1 .. minted /\ loose \subseteq loose' /\ main.id \in loose'
    BY <1>2, <1>3, <1>8 DEF Single
  <2>2. \A i \in DOMAIN sinks' : sinks'[i].id \in 1 .. minted
    BY <1>2, <1>5, <1>6, <1>8 DEF Single
  <2>3. ASSUME NEW j \in DOMAIN control
        PROVE  /\ control[j].id \notin loose' => main'.at \in {"asked", "push"} /\ AskedBy(main', control[j])
               /\ \A i \in DOMAIN sinks' : sinks'[i].id = control[j].id => control[j].id \in loose'
    <3>1. control[j].id \in loose'
      BY <1>2, <1>3, <2>1 DEF Single, AskedBy
    <3>. QED
      BY <3>1
  <2>4. \A i, j \in DOMAIN sinks' : sinks'[i].id = sinks'[j].id /\ sinks'[i].id \notin loose' => i = j
    BY <1>2, <1>5, <1>6, <2>1 DEF Single
  <2>. QED
    BY <1>1, <1>2, <2>1, <2>2, <2>3, <2>4 DEF Single
<1>11. ASSUME NEW p \in Panes, Begun(p)', pane'[p].id \notin loose'
       PROVE  /\ ~pane'[p].torn /\ Chained(Start(p)', inbox'[p])
              /\ Fed(p, sinks, Start(p), inbox[p], sent)'
  <2>1. /\ Begun(p) /\ Start(p)' = Start(p) /\ pane[p].id \notin loose /\ pane[p].id # main.id /\ pane' = pane
        /\ pane[p].link = "live"
    BY <1>1, <1>3, <1>11 DEF Begun, Start
  <2>2. ~pane[p].torn /\ Chained(Start(p), inbox[p]) /\ Fed(p, sinks, Start(p), inbox[p], sent)
    BY <1>2, <2>1 DEF Streams
  <2>3. \A i \in DOMAIN sinks' : Hears(p, sinks'[i]) => i \in DOMAIN sinks /\ sinks'[i] = sinks[i]
    BY <1>5, <1>6, <2>1 DEF Hears
  <2>. QED
    BY <1>1, <2>1, <2>2, <2>3 DEF Fed, Hears
<1>12. Streams'
  BY <1>11 DEF Streams
<1>. QED
  BY <1>7, <1>9, <1>10, <1>12 DEF IInv

\* And renders: its id has been noted already.
LEMMA AttachRendersKeeps ==
  ASSUME IInv, AttachRenders
  PROVE  IInv'
<1>1. UNCHANGED <<case, read, queued, queue, co, mirror, sent, control, sinks, minted,
                  attachments, loose, pane,
                  unacked, inbox, slot>>
  BY DEF AttachRenders, readerVars, coVars, mainVars, paneVars, exitVars
<1>2. Typed /\ Ordered /\ Channelled /\ Asking /\ Single /\ Shown /\ Streams
  BY DEF IInv
<1>3. /\ main \in Errand /\ main' \in Errand /\ main.at = "render" /\ main'.at = "answered"
      /\ main'.id = main.id /\ main'.pane = main.pane /\ main'.screen = mirror /\ mirror \in Nat
  BY <1>2 DEF AttachRenders, Typed, Errand
<1>4. Typed' /\ Ordered' /\ Channelled' /\ Shown'
  BY <1>1, <1>2, <1>3 DEF Typed, Ordered, Channelled, Shown
<1>5. Asking' /\ Single'
  BY <1>1, <1>2, <1>3 DEF Asking, Single, AskedBy
<1>6. \A p \in Panes : pane[p].link = "asking" => pane[p].id \in loose
  BY <1>2, <1>3 DEF Asking
<1>7. Streams'
  BY <1>1, <1>2, <1>3, <1>6 DEF Streams, Begun, Start, Fed, Hears
<1>. QED
  BY <1>4, <1>5, <1>7 DEF IInv

\* The sinks there are.
LEMMA KinSame == Kin(sinks)
<1>. DEFINE same == [k \in DOMAIN sinks |-> k]
<1>1. same \in [DOMAIN sinks -> DOMAIN sinks] /\ \A k \in DOMAIN sinks : same[k] = k
  OBVIOUS
<1>. HIDE DEF same
<1>. QED
  BY <1>1 DEF Kin

\* session_attach returns: the pane starts from the picture it was given.
LEMMA AttachReturnsKeeps ==
  ASSUME IInv, AttachReturns
  PROVE  /\ IInv' /\ main.pane \in Panes /\ ~Attached(main.pane) /\ pane'[main.pane].link = "live"
         /\ pane'[main.pane].at = main.screen /\ pane'[main.pane].torn = FALSE
         /\ \A q \in Panes : q # main.pane => pane'[q] = pane[q]
<1>. DEFINE p == main.pane
<1>1. UNCHANGED <<case, read, queued, queue, co, mirror, sent, control, minted, loose, unacked,
                  inbox, slot>>
  BY DEF AttachReturns, readerVars, coVars, exitVars
<1>2. Typed /\ Ordered /\ Channelled /\ Asking /\ Single /\ Shown /\ Streams
  BY DEF IInv
<1>3. /\ main.at = "answered" /\ main \in Errand /\ main' = Free
      /\ sinks' = Without(attachments[p]) /\ attachments' = [attachments EXCEPT ![p] = main.id]
  BY <1>2 DEF AttachReturns, Typed
<1>4. p \in Panes /\ pane[p] \in Link /\ pane[p].link = "asking" /\ ~pane[p].torn /\ main.screen \in Nat
  BY <1>2, <1>3 DEF Asking, Typed, Errand
<1>5. pane' = [pane EXCEPT ![p] = [pane[p] EXCEPT !.link = "live", !.at = main.screen]]
  BY <1>4 DEF AttachReturns
<1>6. /\ pane' \in [Panes -> Link] /\ pane'[p].link = "live" /\ pane'[p].at = main.screen
      /\ pane'[p].id = pane[p].id /\ pane'[p].torn = pane[p].torn
      /\ \A q \in Panes : q # p => pane'[q] = pane[q]
  <2>. DEFINE live == [pane[p] EXCEPT !.link = "live", !.at = main.screen]
  <2>1. /\ live \in Link /\ live.link = "live" /\ live.at = main.screen /\ live.id = pane[p].id
        /\ live.torn = pane[p].torn
    BY <1>4 DEF Link
  <2>2. pane \in [Panes -> Link] /\ pane' = [pane EXCEPT ![p] = live]
    BY <1>2, <1>5 DEF Typed
  <2>. HIDE DEF live
  <2>. QED
    BY <1>4, <2>1, <2>2
<1>7. sinks' \in Seq(Sink) /\ Kin(sinks') /\ Descends(sinks')
  BY <1>2, <1>3, WithoutKin, KinDescends
<1>8. Typed' /\ Ordered' /\ Channelled'
  <2>1. main' \in Errand
    BY <1>3 DEF Free, Errand, NoSink
  <2>2. attachments' \in [Panes -> Nat]
    BY <1>2, <1>3, <1>4 DEF Typed, Errand
  <2>. QED
    BY <1>1, <1>2, <1>6, <1>7, <2>1, <2>2 DEF Typed, Ordered, Channelled
<1>9. main'.at = "free" /\ main'.screen = 0
  BY <1>3 DEF Free
<1>10. \A q \in Panes : pane'[q].link # "asking" /\ pane'[q].id = pane[q].id
  BY <1>2, <1>6 DEF Asking
<1>11. Asking'
  BY <1>1, <1>2, <1>9, <1>10 DEF Asking
<1>12. Shown'
  <2>1. mirror \in Nat /\ main.screen <= mirror
    BY <1>2 DEF Typed, Shown
  <2>2. ASSUME NEW q \in Panes PROVE pane'[q].at <= mirror
    BY <1>2, <1>6, <2>1 DEF Shown
  <2>. QED
    BY <1>1, <1>2, <1>9, <2>1, <2>2 DEF Shown
<1>13. Single'
  <2>1. \A j \in DOMAIN control : control[j].id \in loose
    BY <1>2, <1>3 DEF Single
  <2>2. PICK src \in [DOMAIN sinks' -> DOMAIN sinks] :
          /\ \A k, l \in DOMAIN sinks' : src[k] = src[l] => k = l
          /\ \A k \in DOMAIN sinks' : sinks'[k].id = sinks[src[k]].id
    BY <1>7 DEF Descends
  <2>3. \A k \in DOMAIN sinks' : src[k] \in DOMAIN sinks
    BY <2>2
  <2>4. \A i \in DOMAIN sinks' : sinks'[i].id \in 1 .. minted
    BY <1>2, <2>2, <2>3 DEF Single
  <2>5. \A i, j \in DOMAIN sinks' : sinks'[i].id = sinks'[j].id /\ sinks'[i].id \notin loose => i = j
    BY <1>2, <2>2, <2>3 DEF Single
  <2>. QED
    BY <1>1, <1>2, <2>1, <2>4, <2>5 DEF Single
<1>14. ASSUME NEW q \in Panes, Begun(q)', pane'[q].id \notin loose'
       PROVE  /\ ~pane'[q].torn /\ Chained(Start(q)', inbox'[q])
              /\ Fed(q, sinks, Start(q), inbox[q], sent)'
  <2>1. Begun(q) /\ Start(q)' = Start(q) /\ pane[q].id \notin loose /\ pane'[q].torn = pane[q].torn
    BY <1>1, <1>3, <1>4, <1>6, <1>10, <1>14 DEF Begun, Start
  <2>2. ~pane[q].torn /\ Chained(Start(q), inbox[q]) /\ Fed(q, sinks, Start(q), inbox[q], sent)
    BY <1>2, <2>1 DEF Streams
  <2>3. Fed(q, sinks', Start(q), inbox[q], sent)
    BY <1>7, <2>2, KinFed
  <2>4. pane[q].link \in {"asking", "live"} /\ pane'[q].id = pane[q].id
    BY <1>10, <2>1 DEF Begun
  <2>5. Fed(q, sinks, Start(q), inbox[q], sent)'
    BY <1>1, <2>1, <2>3, <2>4 DEF Fed, Hears
  <2>. QED
    BY <1>1, <2>1, <2>2, <2>5
<1>15. Streams'
  BY <1>14 DEF Streams
<1>. QED
  BY <1>4, <1>6, <1>8, <1>11, <1>12, <1>13, <1>15 DEF IInv, Attached

\* A pane that hears nothing any more has nothing to be kept.
LEMMA LinkLost ==
  ASSUME IInv, NEW p \in Panes, pane[p].link # "asking", NEW new \in Link,
         new.link \in {"out", "closing", "gone"}, new.id <= minted, new.at <= mirror,
         pane' = [pane EXCEPT ![p] = new], inbox' = [inbox EXCEPT ![p] = <<>>] \/ inbox' = inbox,
         Kin(sinks'), UNCHANGED <<main, minted, loose, sent, mirror, control>>
  PROVE  /\ pane' \in [Panes -> Link] /\ inbox' \in [Panes -> Seq(Frame)]
         /\ Asking' /\ Single' /\ Shown' /\ Streams'
<1>1. Typed /\ Asking /\ Single /\ Shown /\ Streams
  BY DEF IInv
<1>2. /\ pane' \in [Panes -> Link] /\ pane'[p] = new
      /\ \A q \in Panes : q # p => pane'[q] = pane[q]
  BY <1>1 DEF Typed
<1>3. /\ inbox' \in [Panes -> Seq(Frame)]
      /\ \A q \in Panes : inbox'[q] = <<>> \/ inbox'[q] = inbox[q]
      /\ \A q \in Panes : q # p => inbox'[q] = inbox[q]
  <2>1. inbox \in [Panes -> Seq(Frame)] /\ <<>> \in Seq(Frame)
    BY <1>1 DEF Typed
  <2>2. CASE inbox' = inbox
    BY <2>1, <2>2
  <2>3. CASE inbox' = [inbox EXCEPT ![p] = <<>>]
    BY <2>1, <2>3
  <2>. QED
    BY <2>2, <2>3
<1>4. Descends(sinks')
  BY KinDescends
<1>5. Single'
  BY <1>1, <1>4, SingleKept DEF Single
<1>6. Shown'
  <2>1. \A q \in Panes : pane'[q].at <= mirror
    BY <1>1, <1>2 DEF Shown
  <2>2. ASSUME NEW q \in Panes, NEW i \in 1 .. Len(inbox'[q])
        PROVE  inbox'[q][i].from <= mirror /\ inbox'[q][i].upTo <= mirror
    <3>1. inbox'[q] = inbox[q]
      BY <1>3
    <3>. QED
      BY <1>1, <3>1 DEF Shown
  <2>. QED
    BY <1>1, <2>1, <2>2 DEF Shown
<1>7. Asking'
  <2>1. ASSUME NEW q \in Panes
        PROVE  /\ pane'[q].id <= minted
               /\ pane'[q].link = "asking" => main.at # "free" /\ main.pane = q /\ ~pane'[q].torn
    BY <1>1, <1>2 DEF Asking
  <2>2. main.at # "free" => main.pane \in Panes /\ pane'[main.pane] = pane[main.pane]
    BY <1>1, <1>2 DEF Asking
  <2>3. ASSUME main.at = "asked"
        PROVE  inbox'[main.pane] = <<>> /\ \A i \in DOMAIN sinks' : sinks'[i].id # minted
    BY <1>1, <1>3, <1>4, <2>3 DEF Asking, Descends
  <2>. QED
    BY <1>1, <2>1, <2>2, <2>3 DEF Asking
<1>8. ASSUME NEW q \in Panes, Begun(q)', pane'[q].id \notin loose'
      PROVE  /\ ~pane'[q].torn /\ Chained(Start(q)', inbox'[q])
             /\ Fed(q, sinks, Start(q), inbox[q], sent)'
  <2>1. q # p /\ pane'[q] = pane[q] /\ inbox'[q] = inbox[q]
    BY <1>2, <1>3, <1>8 DEF Begun
  <2>2. Begun(q) /\ Start(q)' = Start(q) /\ pane[q].id \notin loose
    BY <1>8, <2>1 DEF Begun, Start
  <2>3. ~pane[q].torn /\ Chained(Start(q), inbox[q]) /\ Fed(q, sinks, Start(q), inbox[q], sent)
    BY <1>1, <2>2 DEF Streams
  <2>4. Fed(q, sinks', Start(q), inbox[q], sent)
    BY <2>3, KinFed
  <2>. QED
    BY <2>1, <2>2, <2>3, <2>4 DEF Fed, Hears
<1>9. Streams'
  BY <1>8 DEF Streams
<1>. QED
  BY <1>2, <1>3, <1>5, <1>6, <1>7, <1>9

\* A pane out of use.
LEMMA OutTyped ==
  /\ Out \in Link /\ Out.link = "out" /\ Out.id = 0 /\ Out.at = 0
  /\ LET gone == [Out EXCEPT !.link = "gone"]
     IN gone \in Link /\ gone.link = "gone" /\ gone.id = 0 /\ gone.at = 0
<1>1. Out \in Link /\ Out.link = "out" /\ Out.id = 0 /\ Out.at = 0
  BY DEF Out, Link, NoSink
<1>. QED
  BY <1>1 DEF Link

\* session_detach takes the pane's sink out.
LEMMA DetachesKeeps ==
  ASSUME IInv, NEW p \in Panes, Detaches(p)
  PROVE  IInv' /\ ~Attached(p) /\ ~(Attached(p)') /\ \A q \in Panes : q # p => pane'[q] = pane[q]
<1>1. UNCHANGED <<case, read, queued, queue, co, mirror, sent, control, main, minted, loose,
                  unacked, inbox, slot>>
  BY DEF Detaches, readerVars, coVars, exitVars
<1>2. Typed /\ Ordered /\ Channelled
  BY DEF IInv
<1>3. /\ pane[p].link = "closing" /\ pane' = [pane EXCEPT ![p] = Out] /\ sinks' = Without(attachments[p])
      /\ attachments' = [attachments EXCEPT ![p] = 0]
  BY DEF Detaches, NoSink
<1>4. sinks' \in Seq(Sink) /\ Kin(sinks')
  BY <1>2, <1>3, WithoutKin
<1>5. minted \in Nat /\ mirror \in Nat
  BY <1>2 DEF Typed
<1>6. /\ pane' \in [Panes -> Link] /\ inbox' \in [Panes -> Seq(Frame)]
      /\ Asking' /\ Single' /\ Shown' /\ Streams'
  <2>1. /\ Out \in Link /\ Out.link \in {"out", "closing", "gone"} /\ Out.id <= minted
        /\ Out.at <= mirror /\ pane[p].link # "asking"
    BY <1>3, <1>5, OutTyped
  <2>. QED
    BY <1>1, <1>3, <1>4, <2>1, LinkLost
<1>7. attachments' \in [Panes -> Nat]
  BY <1>2, <1>3 DEF Typed
<1>8. Typed' /\ Ordered' /\ Channelled'
  BY <1>1, <1>2, <1>4, <1>6, <1>7 DEF Typed, Ordered, Channelled
<1>9. pane'[p] = Out /\ \A q \in Panes : q # p => pane'[q] = pane[q]
  BY <1>2, <1>3 DEF Typed
<1>. QED
  BY <1>3, <1>6, <1>8, <1>9, OutTyped DEF IInv, Attached

\* session_ack lowers what a sink owes.
LEMMA AckLandsKeeps ==
  ASSUME IInv, NEW p \in Panes, AckLands(p)
  PROVE  IInv'
<1>1. /\ UNCHANGED <<case, read, queued, queue, co, mirror, sent, control, main, minted, loose,
                     attachments, inbox>>
      /\ UNCHANGED <<pane, slot>>
  BY DEF AckLands, readerVars, coVars, mainVars, exitVars
<1>2. Typed /\ Ordered /\ Channelled
  BY DEF IInv
<1>3. unacked \in [Panes -> Nat] /\ unacked[p] \in Nat
  BY <1>2 DEF Typed
<1>4. /\ sinks' = Acked(sinks, attachments[p], unacked[p]) /\ unacked' = [unacked EXCEPT ![p] = 0]
  BY DEF AckLands
<1>5. sinks' \in Seq(Sink) /\ Kin(sinks')
  BY <1>2, <1>3, <1>4, AckedKin
<1>6. Asking' /\ Single' /\ Shown' /\ Streams'
  BY <1>1, <1>5, KinStep
<1>7. Typed' /\ Ordered' /\ Channelled'
  BY <1>1, <1>2, <1>3, <1>4, <1>5 DEF Typed, Ordered, Channelled
<1>. QED
  BY <1>6, <1>7 DEF IInv

---------------------------------------------------------------------------
(* The webview *)

\* A pane shows the next frame: it continues what the pane showed, or redraws it.
LEMMA PaneParsesKeeps ==
  ASSUME IInv, NEW p \in Panes, PaneParses(p)
  PROVE  /\ IInv' /\ pane[p].link = "live" /\ pane'[p].link = "live" /\ pane'[p].id = pane[p].id
         /\ pane'[p].at \in Nat /\ pane'[p].at <= mirror
         /\ Synced(p) => pane[p].at <= pane'[p].at /\ ~pane[p].torn /\ ~pane'[p].torn
         /\ \A q \in Panes : q # p => pane'[q] = pane[q]
<1>. DEFINE f == Head(inbox[p])
            torn == pane[p].torn \/ (~(f.from = f.upTo) /\ f.from # pane[p].at)
<1>1. /\ UNCHANGED <<case, read, queued, queue, co, mirror, sent, control, sinks, main, minted,
                     attachments>>
      /\ UNCHANGED <<loose, slot>>
  BY DEF PaneParses, readerVars, coVars, mainVars, exitVars
<1>2. Typed /\ Ordered /\ Channelled /\ Asking /\ Single /\ Shown /\ Streams
  BY DEF IInv
<1>3. /\ pane[p].link = "live" /\ inbox[p] # <<>> /\ inbox[p] \in Seq(Frame) /\ pane[p] \in Link
      /\ pane \in [Panes -> Link] /\ inbox \in [Panes -> Seq(Frame)] /\ pane[p].at \in Nat
      /\ unacked \in [Panes -> Nat]
  BY <1>2 DEF PaneParses, Attached, Typed, Link
<1>4. /\ f \in Frame /\ f.upTo \in Nat /\ f.from \in Nat /\ f.len \in Nat /\ f = inbox[p][1]
      /\ Tail(inbox[p]) \in Seq(Frame) /\ Len(inbox[p]) \in Nat /\ 1 \in 1 .. Len(inbox[p])
      /\ Len(Tail(inbox[p])) = Len(inbox[p]) - 1
      /\ \A i \in 1 .. Len(Tail(inbox[p])) : i + 1 \in 1 .. Len(inbox[p]) /\ Tail(inbox[p])[i] = inbox[p][i + 1]
  <2>1. /\ f \in Frame /\ f = inbox[p][1] /\ Tail(inbox[p]) \in Seq(Frame) /\ Len(inbox[p]) \in Nat
        /\ 1 \in 1 .. Len(inbox[p]) /\ Len(Tail(inbox[p])) = Len(inbox[p]) - 1
    BY <1>3
  <2>2. \A i \in 1 .. Len(Tail(inbox[p])) :
            i + 1 \in 1 .. Len(inbox[p]) /\ Tail(inbox[p])[i] = inbox[p][i + 1]
    BY <1>3, <2>1
  <2>3. f.upTo \in Nat /\ f.from \in Nat /\ f.len \in Nat
    <3>. HIDE DEF f
    <3>. QED
      BY <2>1 DEF Frame
  <2>. QED
    BY <2>1, <2>2, <2>3
<1>5. /\ pane' = [pane EXCEPT ![p] = [pane[p] EXCEPT !.at = f.upTo, !.torn = torn]]
      /\ inbox' = [inbox EXCEPT ![p] = Tail(inbox[p])]
      /\ unacked' = [unacked EXCEPT ![p] = unacked[p] + f.len]
  BY <1>3 DEF PaneParses, Acks
<1>6. torn \in BOOLEAN
  OBVIOUS
<1>7. /\ pane' \in [Panes -> Link] /\ pane'[p].link = "live" /\ pane'[p].id = pane[p].id
      /\ pane'[p].at = f.upTo /\ pane'[p].torn = torn /\ \A q \in Panes : q # p => pane'[q] = pane[q]
  <2>. DEFINE shows == [pane[p] EXCEPT !.at = f.upTo, !.torn = torn]
  <2>1. /\ shows \in Link /\ shows.link = "live" /\ shows.id = pane[p].id /\ shows.at = f.upTo
        /\ shows.torn = torn
    <3>. HIDE DEF torn, f
    <3>. QED
      BY <1>3, <1>4, <1>6 DEF Link
  <2>2. pane' = [pane EXCEPT ![p] = shows]
    BY <1>5
  <2>. HIDE DEF shows
  <2>. QED
    BY <1>3, <2>1, <2>2
<1>8. /\ inbox' \in [Panes -> Seq(Frame)] /\ inbox'[p] = Tail(inbox[p])
      /\ \A q \in Panes : q # p => inbox'[q] = inbox[q]
  BY <1>3, <1>4, <1>5
<1>9. unacked' \in [Panes -> Nat]
  BY <1>3, <1>4, <1>5
<1>10. Typed' /\ Ordered' /\ Channelled'
  BY <1>1, <1>2, <1>7, <1>8, <1>9 DEF Typed, Ordered, Channelled
<1>11. f.upTo <= mirror
  BY <1>2, <1>4 DEF Shown
<1>12. Shown'
  <2>1. ASSUME NEW q \in Panes
        PROVE  /\ pane'[q].at <= mirror
               /\ \A i \in 1 .. Len(inbox'[q]) : inbox'[q][i].from <= mirror /\ inbox'[q][i].upTo <= mirror
    <3>1. CASE q = p
      <4>1. pane'[p].at <= mirror
        BY <1>7, <1>11
      <4>2. ASSUME NEW i \in 1 .. Len(inbox'[p])
            PROVE  inbox'[p][i].from <= mirror /\ inbox'[p][i].upTo <= mirror
        <5>1. i + 1 \in 1 .. Len(inbox[p]) /\ inbox'[p][i] = inbox[p][i + 1]
          BY <1>4, <1>8
        <5>. QED
          BY <1>2, <5>1 DEF Shown
      <4>. QED
        BY <3>1, <4>1, <4>2
    <3>2. CASE q # p
      BY <1>2, <1>7, <1>8, <3>2 DEF Shown
    <3>. QED
      BY <3>1, <3>2
  <2>. QED
    BY <1>1, <1>2, <2>1 DEF Shown
<1>13. Asking'
  <2>1. \A q \in Panes : pane'[q].link = pane[q].link /\ pane'[q].id = pane[q].id
    BY <1>3, <1>7
  <2>2. main.at # "free" => main.pane # p
    BY <1>2, <1>3 DEF Asking
  <2>. QED
    BY <1>1, <1>2, <1>3, <1>7, <1>8, <2>1, <2>2 DEF Asking
<1>14. Single'
  BY <1>1, <1>2 DEF Single
<1>15. ASSUME pane[p].id \notin loose
       PROVE  /\ pane[p].at <= f.upTo /\ ~pane[p].torn /\ ~torn /\ Chained(f.upTo, Tail(inbox[p]))
              /\ Fed(p, sinks, f.upTo, Tail(inbox[p]), sent)
  <2>1. Begun(p) /\ Start(p) = pane[p].at
    BY <1>3 DEF Begun, Start
  <2>2. ~pane[p].torn /\ Chained(pane[p].at, inbox[p]) /\ Fed(p, sinks, pane[p].at, inbox[p], sent)
    BY <1>2, <1>15, <2>1 DEF Streams
  <2>3. /\ pane[p].at <= f.upTo /\ f.from \in {pane[p].at, f.upTo}
        /\ Chained(f.upTo, Tail(inbox[p])) /\ Reached(f.upTo, Tail(inbox[p])) = Reached(pane[p].at, inbox[p])
    BY <1>3, <2>2, ChainParsed
  <2>. QED
    BY <2>2, <2>3 DEF Fed
<1>16. ASSUME NEW q \in Panes, Begun(q)', pane'[q].id \notin loose'
       PROVE  /\ ~pane'[q].torn /\ Chained(Start(q)', inbox'[q])
              /\ Fed(q, sinks, Start(q), inbox[q], sent)'
  <2>1. CASE q = p
    <3>1. pane[p].id \notin loose /\ Start(p)' = f.upTo
      BY <1>1, <1>7, <1>16, <2>1 DEF Start
    <3>. HIDE DEF f, torn
    <3>2. Fed(p, sinks, Start(p), inbox[p], sent)'
      BY <1>1, <1>3, <1>7, <1>8, <1>15, <3>1 DEF Fed, Hears
    <3>. QED
      BY <1>7, <1>8, <1>15, <2>1, <3>1, <3>2
  <2>2. CASE q # p
    <3>1. pane'[q] = pane[q] /\ inbox'[q] = inbox[q]
      BY <1>7, <1>8, <2>2
    <3>2. Begun(q) /\ Start(q)' = Start(q) /\ pane[q].id \notin loose
      BY <1>1, <1>16, <3>1 DEF Begun, Start
    <3>3. ~pane[q].torn /\ Chained(Start(q), inbox[q]) /\ Fed(q, sinks, Start(q), inbox[q], sent)
      BY <1>2, <3>2 DEF Streams
    <3>. QED
      BY <1>1, <3>1, <3>2, <3>3 DEF Fed, Hears
  <2>. QED
    BY <2>1, <2>2
<1>17. Streams'
  BY <1>16 DEF Streams
<1>18. IInv'
  BY <1>10, <1>12, <1>13, <1>14, <1>17 DEF IInv
<1>. HIDE DEF f, torn
<1>. QED
  BY <1>3, <1>4, <1>7, <1>11, <1>15, <1>18 DEF Synced

\* One bound of the behaviour is used up.
LEMMA LeavesTyped ==
  ASSUME Typed, LeavesLeft
  PROVE  case' \in Bounded
<1>. DEFINE left == case.leaves - 1
<1>1. case \in Bounded /\ case.leaves \in Nat /\ left \in Nat
  BY DEF Typed, LeavesLeft, Bounded
<1>2. case' = [case EXCEPT !.leaves = left]
  BY DEF LeavesLeft
<1>. HIDE DEF left
<1>. QED
  BY <1>1, <1>2 DEF Bounded

\* A pane is closed, its webview reloads, its window is destroyed.
LEMMA PaneLeavesKeeps ==
  ASSUME IInv, NEW p \in Panes, PaneCloses(p) \/ PaneReloads(p) \/ PaneVanishes(p)
  PROVE  IInv' /\ ~(Attached(p)') /\ \A q \in Panes : q # p => pane'[q] = pane[q]
<1>1. /\ UNCHANGED <<read, queued, queue, co, mirror, sent, control, sinks, main, minted, loose,
                     attachments, slot>>
      /\ LeavesLeft /\ pane[p].link = "live" /\ inbox' = [inbox EXCEPT ![p] = <<>>]
  BY DEF PaneCloses, PaneReloads, PaneVanishes, readerVars, coVars, mainVars, exitVars
<1>2. Typed /\ Ordered /\ Channelled /\ Asking /\ Shown
  BY DEF IInv
<1>3. case' \in Bounded
  BY <1>1, <1>2, LeavesTyped
<1>4. unacked' \in [Panes -> Nat]
  <2>1. unacked \in [Panes -> Nat] /\ inbox[p] \in Seq(Frame)
    BY <1>2 DEF Typed
  <2>2. CASE PaneCloses(p)
    <3>1. PICK k \in 0 .. Len(inbox[p]) :
            unacked' = [unacked EXCEPT ![p] = @ + Owed(SubSeq(inbox[p], 1, k))]
      BY <2>2 DEF PaneCloses
    <3>2. SubSeq(inbox[p], 1, k) \in Seq(Frame)
      BY <2>1
    <3>3. Owed(SubSeq(inbox[p], 1, k)) \in Nat
      BY <3>2, OwedTyped
    <3>. QED
      BY <2>1, <3>1, <3>3
  <2>3. CASE PaneReloads(p) \/ PaneVanishes(p)
    BY <2>1, <2>3 DEF PaneReloads, PaneVanishes
  <2>. QED
    BY <2>2, <2>3
<1>5. PICK new \in Link :
        /\ new.link \in {"out", "closing", "gone"} /\ new.id <= minted /\ new.at <= mirror
        /\ pane' = [pane EXCEPT ![p] = new]
  <2>1. pane \in [Panes -> Link] /\ pane[p] \in Link /\ minted \in Nat /\ mirror \in Nat
    BY <1>2 DEF Typed
  <2>2. CASE PaneCloses(p)
    <3>. DEFINE new == [pane[p] EXCEPT !.link = "closing"]
    <3>1. new \in Link /\ new.link = "closing" /\ new.id = pane[p].id /\ new.at = pane[p].at
      BY <2>1 DEF Link
    <3>2. pane' = [pane EXCEPT ![p] = new]
      BY <2>1, <2>2 DEF PaneCloses
    <3>3. pane[p].id <= minted /\ pane[p].at <= mirror
      BY <1>2 DEF Asking, Shown
    <3>. HIDE DEF new
    <3>. QED
      BY <3>1, <3>2, <3>3
  <2>3. CASE PaneReloads(p)
    <3>1. pane' = [pane EXCEPT ![p] = Out]
      BY <2>3 DEF PaneReloads
    <3>2. Out \in Link /\ Out.link \in {"out", "closing", "gone"} /\ Out.id <= minted /\ Out.at <= mirror
      BY <2>1, OutTyped
    <3>. QED
      BY <3>1, <3>2
  <2>4. CASE PaneVanishes(p)
    <3>. DEFINE new == [Out EXCEPT !.link = "gone"]
    <3>1. pane' = [pane EXCEPT ![p] = new]
      BY <2>4 DEF PaneVanishes
    <3>2. new \in Link /\ new.link \in {"out", "closing", "gone"} /\ new.id <= minted /\ new.at <= mirror
      BY <2>1, OutTyped
    <3>. HIDE DEF new
    <3>. QED
      BY <3>1, <3>2
  <2>. QED
    BY <2>2, <2>3, <2>4
<1>6. Kin(sinks')
  BY <1>1, KinSame
<1>7. /\ pane' \in [Panes -> Link] /\ inbox' \in [Panes -> Seq(Frame)]
      /\ Asking' /\ Single' /\ Shown' /\ Streams'
  BY <1>1, <1>5, <1>6, LinkLost
<1>8. Typed' /\ Ordered' /\ Channelled'
  BY <1>1, <1>2, <1>3, <1>4, <1>7 DEF Typed, Ordered, Channelled
<1>9. pane'[p] = new /\ \A q \in Panes : q # p => pane'[q] = pane[q]
  BY <1>2, <1>5 DEF Typed
<1>. QED
  BY <1>5, <1>7, <1>8, <1>9 DEF IInv, Attached

---------------------------------------------------------------------------
(* Every behaviour *)

\* A session starts with nothing read and no pane.
LEMMA InitTyped == Init => IInv
<1>. SUFFICES ASSUME Init PROVE IInv
  OBVIOUS
<1>1. case \in Bounded
  BY CasesAreBounds DEF Init, Bounded
<1>2. Typed
  BY <1>1, OutTyped DEF Init, Typed, Free, Errand, NoSink
<1>3. Ordered /\ Channelled
  BY SizesTyped DEF Init, Ordered, Channelled
<1>4. \A p \in Panes : pane[p].link = "out" /\ pane[p].id = 0 /\ pane[p].at = 0
  BY OutTyped DEF Init
<1>5. main.at = "free" /\ main.screen = 0
  BY DEF Init, Free
<1>6. Asking /\ Single /\ Shown
  BY <1>4, <1>5 DEF Init, Asking, Single, Shown
<1>7. Streams
  BY <1>4 DEF Streams, Begun
<1>. QED
  BY <1>2, <1>3, <1>6, <1>7 DEF IInv

\* Every step keeps the invariant.
LEMMA StepKept == IInv /\ [Next]_vars => IInv'
<1>. SUFFICES ASSUME IInv, [Next]_vars PROVE IInv'
  OBVIOUS
<1>1. CASE Child \/ Reader \/ Reaper \/ Registers \/ UNCHANGED vars
  BY <1>1, ExitsKeep, ReadsKeeps, QueuesKeeps DEF Child, Reader, Reaper, Registers
<1>2. CASE Coalescer \/ WatchdogPasses
  BY <1>2, TakesKeeps, SplitsKeeps, FlushesKeeps, IdlesKeeps, TicksKeeps, ServeAttachKeeps,
     EndsKeeps,
     WatchdogKeeps DEF Coalescer
<1>3. CASE Attaching
  BY <1>3, AttachGivesUpKeeps, AttachPushesKeeps, AttachRendersKeeps, AttachReturnsKeeps
     DEF Attaching
<1>4. ASSUME NEW p \in Panes, AttachAsks(p) \/ Detaches(p) \/ AckLands(p) PROVE IInv'
  BY <1>4, AttachAsksKeeps, DetachesKeeps, AckLandsKeeps
<1>5. ASSUME NEW p \in Panes, PaneParses(p) \/ PaneCloses(p) \/ PaneReloads(p) \/ PaneVanishes(p) PROVE IInv'
  BY <1>5, PaneParsesKeeps, PaneLeavesKeeps
<1>. QED
  BY <1>1, <1>2, <1>3, <1>4, <1>5 DEF Next, Main, Webview

\* The invariant says what the types do.
LEMMA Implied == IInv => TypeOK
<1>. SUFFICES ASSUME IInv PROVE TypeOK
  OBVIOUS
<1>1. Typed /\ Ordered /\ Channelled /\ Asking /\ Single /\ Shown
  BY DEF IInv
<1>2. sent \in 0 .. mirror /\ mirror \in 0 .. queued /\ queued \in 0 .. read
  BY <1>1 DEF Typed, Ordered
<1>3. queue # <<>> => Last(queue) = queued
  BY <1>1 DEF Typed, Channelled, Last
<1>4. ASSUME NEW p \in Panes
      PROVE  /\ pane[p].link \in {"out", "asking", "live", "closing", "gone"} /\ pane[p].at \in 0 .. mirror
             /\ \A i \in DOMAIN inbox[p] : inbox[p][i] \in Frames
             /\ unacked[p] \in Nat
  <2>1. pane[p] \in Link /\ inbox[p] \in Seq(Frame) /\ unacked[p] \in Nat /\ mirror \in Nat
    BY <1>1 DEF Typed
  <2>2. pane[p].link \in {"out", "asking", "live", "closing", "gone"} /\ pane[p].at \in 0 .. mirror
    BY <1>1, <2>1 DEF Link, Shown
  <2>3. ASSUME NEW i \in DOMAIN inbox[p] PROVE inbox[p][i] \in Frames
    <3>1. inbox[p][i] \in Frame /\ i \in 1 .. Len(inbox[p])
      BY <2>1
    <3>2. inbox[p][i].from <= mirror /\ inbox[p][i].upTo <= mirror
      BY <1>1, <3>1 DEF Shown
    <3>. QED
      BY <2>1, <3>1, <3>2 DEF Frame, Frames
  <2>. QED
    BY <2>1, <2>2, <2>3
<1>5. ASSUME NEW i \in DOMAIN sinks PROVE sinks[i].owed \in Nat /\ sinks[i].id \in 1 .. minted
  <2>1. sinks[i] \in Sink
    BY <1>1 DEF Typed
  <2>. QED
    BY <1>1, <2>1 DEF Sink, Single
<1>6. main.at # "free" => main.id = minted /\ pane[main.pane].id = minted
  BY <1>1 DEF Asking
<1>. QED
  BY <1>1, <1>2, <1>3, <1>4, <1>5, <1>6 DEF TypeOK, Typed, Channelled

---------------------------------------------------------------------------
(* What the panes are shown *)

View == [p \in Panes |-> Showing(p)]

\* What a pane is shown, when neither its link nor the ids noted change.
LEMMA SameShowing ==
  ASSUME UNCHANGED loose, NEW p \in Panes,
         pane'[p] = pane[p] \/ (~Attached(p) /\ ~(Attached(p)'))
  PROVE  Showing(p)' = Showing(p)
  BY DEF Showing, Synced, Attached

\* No pane is shown anything else, and there is no more output.
LEMMA StaysKept ==
  ASSUME UNCHANGED <<mirror, loose>>,
         \A p \in Panes : pane'[p] = pane[p] \/ (~Attached(p) /\ ~(Attached(p)'))
  PROVE  UNCHANGED Stream!vars
<1>1. \A p \in Panes : Showing(p)' = Showing(p)
  BY SameShowing
<1>. QED
  BY <1>1 DEF Stream!vars

\* Some panes are not shown the session any more, or not from one cut point.
LEMMA LeavesKept ==
  ASSUME UNCHANGED mirror, loose \subseteq loose',
         \A p \in Panes : pane'[p] = pane[p] \/ ~(Attached(p)')
  PROVE  Stream!Next
<1>. DEFINE gone == {p \in Panes : ~(Synced(p)')}
<1>1. \A p \in Panes : Showing(p)' = IF p \in gone THEN Stream!Absent ELSE Showing(p)
  BY DEF Showing, Synced, Attached, Stream!Absent
<1>2. Stream!Leaves(gone)
  BY <1>1 DEF Stream!Leaves
<1>. QED
  BY <1>2 DEF Stream!Next

\* A pane joins at the picture it was given.
LEMMA JoinsKept ==
  ASSUME IInv, NEW p \in Panes, p = main.pane, AttachReturns
  PROVE  [Stream!Next]_Stream!vars
<1>1. UNCHANGED <<mirror, loose>>
  BY DEF AttachReturns, coVars
<1>2. /\ ~Attached(p) /\ pane'[p].link = "live"
      /\ pane'[p].at = main.screen /\ pane'[p].torn = FALSE
      /\ \A q \in Panes : q # p => pane'[q] = pane[q]
  BY AttachReturnsKeeps
<1>3. \A q \in Panes : q # p => Showing(q)' = Showing(q)
  BY <1>1, <1>2, SameShowing
<1>4. Showing(p) = Stream!Absent
  BY <1>2 DEF Showing, Synced, Stream!Absent
<1>5. CASE Synced(p)'
  <2>1. Showing(p)' = main.screen
    BY <1>2, <1>5 DEF Showing
  <2>2. main.screen \in 0 .. mirror
    BY DEF IInv, Typed, Errand, Shown
  <2>3. View' = [View EXCEPT ![p] = main.screen]
    BY <1>2, <1>3, <2>1 DEF View
  <2>4. Stream!Joins(p)
    BY <1>1, <1>2, <1>4, <2>2, <2>3 DEF Stream!Joins, View
  <2>. QED
    BY <1>2, <2>4 DEF Stream!Next
<1>6. CASE ~(Synced(p)')
  <2>1. Showing(p)' = Showing(p)
    BY <1>4, <1>6 DEF Showing, Stream!Absent
  <2>. QED
    BY <1>1, <1>3, <2>1 DEF Stream!vars
<1>. QED
  BY <1>5, <1>6

\* A pane follows the output.
LEMMA FollowsKept ==
  ASSUME IInv, NEW p \in Panes, PaneParses(p)
  PROVE  [Stream!Next]_Stream!vars
<1>1. UNCHANGED <<mirror, loose>>
  BY DEF PaneParses, coVars, mainVars
<1>2. /\ pane[p].link = "live" /\ pane'[p].link = "live" /\ pane'[p].id = pane[p].id
      /\ pane'[p].at \in Nat /\ pane'[p].at <= mirror
      /\ Synced(p) => pane[p].at <= pane'[p].at /\ ~pane[p].torn /\ ~pane'[p].torn
      /\ \A q \in Panes : q # p => pane'[q] = pane[q]
  BY PaneParsesKeeps
<1>3. \A q \in Panes : q # p => Showing(q)' = Showing(q)
  BY <1>1, <1>2, SameShowing
<1>4. Synced(p)' <=> Synced(p)
  BY <1>1, <1>2 DEF Synced, Attached
<1>5. CASE Synced(p)
  <2>1. Showing(p) = pane[p].at /\ Showing(p)' = pane'[p].at
    BY <1>2, <1>4, <1>5 DEF Showing
  <2>2. pane[p].at \in Nat
    BY DEF IInv, Typed, Link
  <2>3. mirror \in Nat
    BY DEF IInv, Typed
  <2>4. Showing(p) # Stream!Absent /\ pane'[p].at \in Showing(p) .. mirror
    BY <1>2, <1>5, <2>1, <2>2, <2>3 DEF Stream!Absent
  <2>5. View' = [View EXCEPT ![p] = pane'[p].at]
    BY <1>3, <2>1 DEF View
  <2>6. Stream!Follows(p)
    BY <1>1, <2>4, <2>5 DEF Stream!Follows, View
  <2>. QED
    BY <2>6 DEF Stream!Next
<1>6. CASE ~Synced(p)
  <2>1. Showing(p)' = Showing(p)
    BY <1>4, <1>6 DEF Showing
  <2>. QED
    BY <1>1, <1>3, <2>1 DEF Stream!vars
<1>. QED
  BY <1>5, <1>6

\* A step of the session is a step of the stream, or none.
LEMMA StreamStep == IInv /\ [Next]_vars => [Stream!Next]_Stream!vars
<1>. SUFFICES ASSUME IInv, [Next]_vars PROVE [Stream!Next]_Stream!vars
  OBVIOUS
<1>1. CASE Child \/ Reader \/ Reaper \/ Registers \/ WatchdogPasses \/ UNCHANGED vars
  <2>1. UNCHANGED <<mirror, loose, pane>>
    BY <1>1 DEF Child, Reader, Reaper, Registers, OutputCloses, ChildDies, Reads, Queues,
       ReaderEnds,
       Reaps, Flags, Calls, OnExit, WatchdogPasses, vars, coVars, mainVars, paneVars
  <2>. QED
    BY <2>1, StaysKept
<1>2. CASE Takes
  <2>1. UNCHANGED <<loose, pane>> /\ mirror < mirror'
    BY <1>2, TakesKeeps DEF Takes, mainVars, paneVars
  <2>2. \A p \in Panes : Showing(p)' = Showing(p)
    BY <2>1, SameShowing
  <2>3. mirror \in Nat /\ mirror' \in Nat
    BY <1>2, TakesKeeps DEF IInv, Typed
  <2>4. Stream!Produces
    BY <2>1, <2>2, <2>3 DEF Stream!Produces
  <2>. QED
    BY <2>4 DEF Stream!Next
<1>3. CASE Splits \/ AttachPushes
  <2>1. UNCHANGED <<mirror, pane>> /\ loose \subseteq loose'
    BY <1>3 DEF Splits, AttachPushes, coVars, paneVars
  <2>. QED
    BY <2>1, LeavesKept
<1>4. CASE Flushes \/ Idles \/ Ticks \/ ServeAttach \/ Ends
  <2>1. UNCHANGED <<mirror, loose, pane>>
    BY <1>4 DEF Flushes, Idles, Ticks, ServeAttach, Ends, mainVars, paneVars
  <2>. QED
    BY <2>1, StaysKept
<1>5. CASE AttachGivesUp \/ AttachRenders
  <2>1. UNCHANGED <<mirror, loose, pane>>
    BY <1>5 DEF AttachGivesUp, AttachRenders, coVars, paneVars
  <2>. QED
    BY <2>1, StaysKept
<1>6. ASSUME NEW p \in Panes, AttachAsks(p) PROVE [Stream!Next]_Stream!vars
  <2>1. UNCHANGED <<mirror, loose>>
    BY <1>6 DEF AttachAsks
  <2>2. ~Attached(p) /\ ~(Attached(p)') /\ \A q \in Panes : q # p => pane'[q] = pane[q]
    BY <1>6, AttachAsksKeeps
  <2>. QED
    BY <2>1, <2>2, StaysKept
<1>7. ASSUME NEW p \in Panes, Detaches(p) PROVE [Stream!Next]_Stream!vars
  <2>1. UNCHANGED <<mirror, loose>>
    BY <1>7 DEF Detaches, coVars
  <2>2. ~Attached(p) /\ ~(Attached(p)') /\ \A q \in Panes : q # p => pane'[q] = pane[q]
    BY <1>7, DetachesKeeps
  <2>. QED
    BY <2>1, <2>2, StaysKept
<1>8. ASSUME NEW p \in Panes, AckLands(p) PROVE [Stream!Next]_Stream!vars
  <2>1. UNCHANGED <<mirror, loose, pane>>
    BY <1>8 DEF AckLands, coVars, mainVars
  <2>. QED
    BY <2>1, StaysKept
<1>9. ASSUME NEW p \in Panes, PaneCloses(p) \/ PaneReloads(p) \/ PaneVanishes(p)
      PROVE  [Stream!Next]_Stream!vars
  <2>1. UNCHANGED <<mirror, loose>>
    BY <1>9 DEF PaneCloses, PaneReloads, PaneVanishes, coVars, mainVars
  <2>2. ~(Attached(p)') /\ \A q \in Panes : q # p => pane'[q] = pane[q]
    BY <1>9, PaneLeavesKeeps
  <2>. QED
    BY <2>1, <2>2, LeavesKept
<1>10. CASE AttachReturns
  <2>1. PICK p \in Panes : p = main.pane
    BY <1>10, AttachReturnsKeeps
  <2>. QED
    BY <1>10, <2>1, JoinsKept
<1>. QED
  BY <1>1, <1>2, <1>3, <1>4, <1>5, <1>6, <1>7, <1>8, <1>9, <1>10, FollowsKept
     DEF Next, Coalescer, Attaching, Main, Webview

---------------------------------------------------------------------------
(* The watchers of the exit *)

\* A watcher waits, is about to be called, or has been called: one of these.
Once ==
    /\ called \in [Watchers -> {0, 1}]
    /\ \A w \in Watchers :
           /\ w \in waiting \/ w \in calling \/ called[w] = 1 => w \notin case.watchers
           /\ ~(w \in waiting /\ w \in calling)
           /\ w \in waiting \cup calling => called[w] = 0
           /\ slot = "Running" => w \notin calling
CalledOnce == \A w \in Watchers : called[w] <= 1

\* An exit published, a call made, a registration: each moves a watcher on.
LEMMA OnceKept == IInv /\ Once /\ [Next]_vars => Once'
<1>. SUFFICES ASSUME IInv, Once, [Next]_vars PROVE Once'
  OBVIOUS
<1>0. case \in Bounded
  BY DEF IInv, Typed
<1>1. ASSUME UNCHANGED exitVars, case'.watchers = case.watchers PROVE Once'
  BY <1>1 DEF Once, exitVars
<1>2. CASE Child \/ Reader \/ Coalescer \/ WatchdogPasses \/ UNCHANGED vars
  <2>1. UNCHANGED <<case, exitVars>>
    BY <1>2 DEF Child, Reader, Coalescer, OutputCloses, ChildDies, Reads, Queues, ReaderEnds,
       Takes, Splits,
       Flushes, Idles, Ticks, ServeAttach, Ends, WatchdogPasses, vars
  <2>. QED
    BY <1>1, <2>1
<1>3. CASE Main
  <2>1. UNCHANGED <<case, exitVars>>
    BY <1>3 DEF Main, Attaching, AttachAsks, AttachGivesUp, AttachPushes, AttachRenders,
       AttachReturns,
       Detaches, AckLands
  <2>. QED
    BY <1>1, <2>1
<1>4. CASE Webview
  <2>1. (UNCHANGED exitVars /\ LeavesLeft) \/ UNCHANGED <<case, exitVars>>
    BY <1>4 DEF Webview, PaneParses, PaneCloses, PaneReloads, PaneVanishes
  <2>2. LeavesLeft => case'.watchers = case.watchers
    BY <1>0 DEF LeavesLeft, Bounded
  <2>. QED
    BY <1>1, <2>1, <2>2
<1>5. CASE Reaps \/ Flags
  BY <1>5 DEF Once, Reaps, Flags
<1>6. ASSUME NEW w \in Watchers, Calls(w) PROVE Once'
  <2>1. /\ UNCHANGED <<case, slot, waiting>> /\ slot = "Flagged" /\ w \in calling /\ calling' = calling \ {w}
        /\ called' = [called EXCEPT ![w] = called[w] + 1]
    BY <1>6 DEF Calls
  <2>2. ASSUME NEW v \in Watchers
        PROVE  /\ v \in waiting' \/ v \in calling' \/ called'[v] = 1 => v \notin case'.watchers
               /\ ~(v \in waiting' /\ v \in calling')
               /\ v \in waiting' \cup calling' => called'[v] = 0
               /\ slot' = "Running" => v \notin calling'
    BY <2>1, <2>2 DEF Once
  <2>3. called' \in [Watchers -> {0, 1}]
    BY <2>1 DEF Once
  <2>. QED
    BY <2>2, <2>3 DEF Once
<1>7. ASSUME NEW w \in Watchers, OnExit(w) PROVE Once'
  <2>. DEFINE left == case.watchers \ {w}
  <2>1. /\ case' = [case EXCEPT !.watchers = left] /\ w \in case.watchers /\ UNCHANGED <<slot,
                                                                                         calling>>
        /\ \/ waiting' = waiting \cup {w} /\ UNCHANGED called /\ slot = "Running"
           \/ called' = [called EXCEPT ![w] = called[w] + 1] /\ UNCHANGED waiting
    BY <1>7 DEF OnExit
  <2>2. case'.watchers = left
    BY <1>0, <2>1 DEF Bounded
  <2>. QED
    BY <2>1, <2>2 DEF Once
<1>. QED
  BY <1>2, <1>3, <1>4, <1>5, <1>6, <1>7 DEF Next, Reaper, Registers

---------------------------------------------------------------------------
(* Theorems *)

\* The inductive invariant holds in every behaviour of the session, its panes
\* and the threads in between, whatever the sizes and the interleaving.
THEOREM Invariance == Spec => []IInv
<1>. QED
  BY InitTyped, StepKept, PTL DEF Spec

\* Nobody is ahead of the one it reads from: the sinks of the mirror, the
\* mirror of the reader's channel, the channel of the reader (run_coalescer,
\* reader_loop), and no sink goes by an id that was not handed out.
THEOREM SessionTyped == Spec => []TypeOK
<1>. QED
  BY Invariance, Implied, PTL

\* What a pane that attached at the one cut point (serve_control) is shown is a
\* prefix of the output that only grows: no flush, choke, catch-up, forgiven
\* debt, detach or reload shows it a byte twice, out of order, or takes one
\* back.
THEOREM StreamIsKept == Spec => StreamKept
<1>1. Init => Stream!Init
  <2>1. Init => \A p \in Panes : Showing(p) = Stream!Absent
    BY OutTyped DEF Init, Showing, Synced, Attached, Stream!Absent
  <2>. QED
    BY <2>1 DEF Init, Stream!Init
<1>2. IInv /\ [Next]_vars => [Stream!Next]_Stream!vars
  BY StreamStep
<1>. QED
  BY <1>1, <1>2, Invariance, PTL DEF Spec, StreamKept, Stream!Spec

\* A callback registered before, during or after the child's death (on_exit) is
\* never called twice: not by the reaper thread and not by both.
THEOREM WatchersCalledOnce == Spec => []CalledOnce
<1>1. Init => Once
  BY CasesAreBounds DEF Init, Once
<1>2. Once => CalledOnce
  BY DEF Once, CalledOnce
<1>. QED
  BY <1>1, <1>2, OnceKept, Invariance, PTL DEF Spec
=============================================================================
