--------------------------- MODULE TaskStoreProofs ---------------------------
(***************************************************************************)
(* Theorems of TaskStore for any stores and tasks, any number of edits,    *)
(* crashes and failures: its types, that no flush takes back what is on    *)
(* disk, and that a row is never on disk before its content.               *)
(***************************************************************************)
EXTENDS TaskStore, WellFoundedInduction, TLAPS

-----------------------------------------------------------------------------
(* The inductive invariant                                                  *)

(* Stamps are of the past.                                                  *)
RowPast(r, n) == r # NoRow => r.made <= r.at /\ r.at <= n /\ r.link <= n
LogPast(log, n) == \A e \in Entries :
    /\ log[e].ed <= n /\ (log[e].ed > 0 => e <= n)
    /\ log[e].ed = 0 => ~log[e].dead
ContentPast(c, n) == c.body <= n /\ LogPast(c.log, n)

(* What was answered with success names a stamp that no edge has, no later   *)
(* row was made at, and, of a text, no earlier row.                         *)
ToldOf(t, r, ws) == \A e \in Entries : r # NoRow =>
    /\ <<t, e, "entry">> \in ws => r.made # e /\ r.link # e
    /\ <<t, e, "text">> \in ws => r.made >= e /\ r.link # e
ToldPast == \A w \in told : w[2] <= now

RowOK(t, r) == RowPast(r, now) /\ ToldOf(t, r, told)

(* An edge's stamp says what the edge is.                                   *)
SameEdge(r, q) == r.link = q.link => r.linked = q.linked

(* Copies of one row, unless the task was deleted.                          *)
SameRow(r, q) == r # NoRow /\ q # NoRow => r.made = q.made

(* Nothing newer than `made` in the old log is undone in the new one.       *)
Above(old, new, made) == \A e \in Entries : e > made => NotOlder(old[e], new[e])

Spared(t) == t \notin deleted
Sound(t) == t \notin deleted \cup spoilt

EntryTold(t, e) == <<t, e, "entry">> \in told
TextTold(t, e) == <<t, e, "text">> \in told

(* The index and the content file of a task agree.                          *)
DiskOf(t) ==
    /\ RowOK(t, index[t]) /\ ContentPast(file[t], now)
    /\ Sound(t) /\ index[t] # NoRow => \A e \in Entries :
         /\ EntryTold(t, e) /\ index[t].at = e => file[t].log[e].ed > 0
         /\ TextTold(t, e) /\ index[t].made = e => file[t].body >= e

Loaded(m, t) == m.held[t] # Unread
Busy(m) == m.at \in {"contents", "index"}
Owing(m, t) == t \in m.dirty \cup m.todo

(* What a memory holds of a task is no older than what its store saw on disk. *)
AboveDisk(m, t) == Above(file[t].log, m.held[t].log, m.rows[t].made)

(* What it need not write, the file has.                                     *)
OnFile(m, t) == \A e \in Entries :
    /\ e > m.rows[t].made /\ m.held[t].log[e].ed > 0 => file[t].log[e].ed > 0
    /\ TextTold(t, e) /\ m.rows[t].made = e => file[t].body >= e

(* An accepted edit a row is stamped with is in memory or in the file.       *)
Told(m, t) == \A e \in Entries :
    /\ EntryTold(t, e) /\ m.rows[t].at = e =>
         \/ Loaded(m, t) /\ m.held[t].log[e].ed > 0
         \/ file[t].log[e].ed > 0
    /\ TextTold(t, e) /\ m.rows[t].made = e =>
         IF Loaded(m, t) THEN m.held[t].body >= e ELSE file[t].body >= e

(* A memory m of the store s and the disk agree on a task.                   *)
HeldBy(s, m, t) ==
    /\ RowOK(t, m.rows[t]) /\ ContentPast(m.held[t], now)
    /\ Loaded(m, t) => m.rows[t] # NoRow
    /\ Owing(m, t) => Loaded(m, t)
    /\ t \in m.removed => ~Spared(t)
    /\ Busy(m) /\ t \in m.dirty => t \in spoilt
    /\ SameEdge(m.rows[t], index[t])
    /\ Spared(t) =>
         /\ SameRow(m.rows[t], index[t])
         /\ Loaded(m, t) /\ (s \in fresh[t] \/ t \in m.todo) => AboveDisk(m, t)
    /\ Sound(t) /\ m.rows[t] # NoRow =>
         /\ Told(m, t)
         /\ Loaded(m, t) /\ ~Owing(m, t) => OnFile(m, t)

HeldOf(s, t) == HeldBy(s, mem[s], t)

(* A store that saw the present index, or is writing over it, has its edges. *)
Linked(s, t) == Spared(t) /\ (s \in seen \/ Busy(mem[s])) => index[t].link <= mem[s].rows[t].link

(* Copies in two stores                                                      *)
TwinsOf(s, x, t) == /\ SameEdge(mem[s].rows[t], mem[x].rows[t])
                    /\ Spared(t) => SameRow(mem[s].rows[t], mem[x].rows[t])

(* One flush at a time, and none of a tracker in conflict.                   *)
OneFlush ==
    /\ \A s, x \in Stores : Busy(mem[s]) /\ Busy(mem[x]) => s = x
    /\ \A s \in Stores : Busy(mem[s]) => tracker # "conflicted"
    /\ \A s \in Stores : mem[s].at # "contents" => mem[s].todo = {}
    /\ seen # {} => tracker = "ready"
    /\ tracker = "absent" => index = NoRows

Kept ==
    /\ \A t \in Tasks : DiskOf(t)
    /\ \A s \in Stores, t \in Tasks : HeldOf(s, t) /\ Linked(s, t)
    /\ \A s, x \in Stores, t \in Tasks : TwinsOf(s, x, t)

IInv == TypeOK /\ ToldPast /\ OneFlush /\ Kept

-----------------------------------------------------------------------------
(* The merge                                                                *)

LogEntries == [ed : Stamps, dead : BOOLEAN]

(* The stamps are natural numbers, and the records of the model have theirs.*)
LEMMA ConstantsTyped ==
  /\ Latest \in Nat /\ Entries \subseteq Nat /\ Stamps \subseteq Nat /\ Entries \subseteq Stamps
  /\ NoEntry \in LogEntries /\ NoLog \in Logs /\ Blank \in Contents
  /\ NoRow \notin Rows /\ NoFile \notin Contents /\ Unread \notin Contents
<1>1. Latest \in Nat
  BY ConstantsAssumption
<1>2. Entries \subseteq Nat /\ Stamps \subseteq Nat /\ Entries \subseteq Stamps /\ 0 \in Stamps
  BY <1>1 DEF Entries, Stamps
<1>3. NoEntry \in LogEntries
  BY <1>2 DEF NoEntry, LogEntries
<1>4. NoLog \in Logs
  BY <1>3 DEF NoLog, Logs, LogEntries
<1>5. Blank \in Contents
  BY <1>2, <1>4 DEF Blank, Contents
<1>6. NoRow \notin Rows
  BY DEF NoRow, Rows, Stamps
<1>7. NoFile \notin Contents /\ Unread \notin Contents
  BY DEF NoFile, Unread, Contents, Stamps
<1>. QED
  BY <1>1, <1>2, <1>3, <1>4, <1>5, <1>6, <1>7

(* An entry of a log: a stamp and a tombstone.                              *)
LEMMA EntryTyped ==
  ASSUME NEW x \in LogEntries
  PROVE  x.ed \in Nat /\ x.ed \in Stamps /\ x.dead \in BOOLEAN
  BY ConstantsTyped DEF LogEntries

(* The merged entry is one of the two, and no older than either.             *)
LEMMA EntryMerged ==
  ASSUME NEW mine \in LogEntries, NEW theirs \in LogEntries
  PROVE  /\ MergeEntry(mine, theirs) \in {mine, theirs}
         /\ NotOlder(mine, MergeEntry(mine, theirs)) /\ NotOlder(theirs, MergeEntry(mine, theirs))
<1>1. mine.ed \in Nat /\ theirs.ed \in Nat
  BY EntryTyped
<1>2. CASE mine.dead
  BY <1>2 DEF MergeEntry, NotOlder
<1>3. CASE ~mine.dead /\ theirs.dead
  BY <1>3 DEF MergeEntry, NotOlder
<1>4. CASE ~mine.dead /\ ~theirs.dead
  BY <1>1, <1>4 DEF MergeEntry, NotOlder
<1>. QED
  BY <1>2, <1>3, <1>4

(* A copy no older than a copy no older than mine is no older than mine.    *)
LEMMA NotOlderIsTransitive ==
  ASSUME NEW a \in LogEntries, NEW b \in LogEntries, NEW c \in LogEntries,
         NotOlder(a, b), NotOlder(b, c)
  PROVE  NotOlder(a, c)
<1>1. a.ed \in Nat /\ b.ed \in Nat /\ c.ed \in Nat
  BY EntryTyped
<1>. QED
  BY <1>1 DEF NotOlder

(* reconcile_content and union_comments answer a content.                   *)
LEMMA ContentMergedTyped ==
  ASSUME NEW mine \in Contents, NEW theirs \in Contents
  PROVE  MergeContent(mine, theirs) \in Contents
<1>1. mine.log \in [Entries -> LogEntries] /\ theirs.log \in [Entries -> LogEntries]
      /\ mine.body \in Stamps
  BY DEF Contents, Logs, LogEntries
<1>2. [e \in Entries |-> MergeEntry(mine.log[e], theirs.log[e])] \in [Entries -> LogEntries]
  BY <1>1, EntryMerged
<1>. QED
  BY <1>1, <1>2 DEF MergeContent, Contents, Logs, LogEntries

(* A merged content undoes nothing of either side, and keeps my text.       *)
LEMMA ContentMerged ==
  ASSUME NEW mine \in Contents, NEW theirs \in Contents,
         NEW n \in Nat, ContentPast(mine, n), ContentPast(theirs, n)
  PROVE  LET c == MergeContent(mine, theirs) IN
         /\ c \in Contents /\ ContentPast(c, n) /\ c.body = mine.body
         /\ \A e \in Entries : /\ NotOlder(mine.log[e], c.log[e]) /\ NotOlder(theirs.log[e], c.log[e])
                               /\ mine.log[e].ed > 0 => c.log[e].ed > 0
<1>. DEFINE c == MergeContent(mine, theirs)
<1>1. mine.log \in [Entries -> LogEntries] /\ theirs.log \in [Entries -> LogEntries]
      /\ mine.body \in Stamps
  BY DEF Contents, Logs, LogEntries
<1>2. c.body = mine.body /\ c.log = [e \in Entries |-> MergeEntry(mine.log[e], theirs.log[e])]
  BY DEF MergeContent
<1>3. \A e \in Entries : /\ c.log[e] \in {mine.log[e], theirs.log[e]}
                         /\ NotOlder(mine.log[e], c.log[e]) /\ NotOlder(theirs.log[e], c.log[e])
  BY <1>1, <1>2, EntryMerged
<1>4. c \in Contents
  BY ContentMergedTyped
<1>5. ContentPast(c, n)
  BY <1>2, <1>3 DEF ContentPast, LogPast
<1>6. ASSUME NEW e \in Entries, mine.log[e].ed > 0 PROVE c.log[e].ed > 0
  <2>1. mine.log[e] \in LogEntries /\ theirs.log[e] \in LogEntries
    BY <1>1
  <2>2. mine.log[e].ed \in Nat /\ theirs.log[e].ed \in Nat
    BY <2>1, EntryTyped
  <2>3. c.log[e].ed \in Nat
    BY <1>3, <2>2
  <2>4. CASE c.log[e].dead
    <3>1. c.log[e].ed # 0
      BY <1>5, <2>4 DEF ContentPast, LogPast
    <3>. QED
      BY <3>1, <2>3
  <2>5. CASE ~c.log[e].dead
    <3>1. mine.log[e].ed <= c.log[e].ed
      BY <1>3, <2>5 DEF NotOlder
    <3>. QED
      BY <1>6, <3>1, <2>2, <2>3
  <2>. QED
    BY <2>4, <2>5
<1>. QED
  BY <1>2, <1>3, <1>4, <1>5, <1>6

(* A log that has an entry has a last one.                                   *)
LEMMA LastWritten ==
  ASSUME NEW log \in Logs, Written(log) # {}
  PROVE  \E e \in Written(log) : \A f \in Written(log) : f <= e
<1>. DEFINE W == {Latest - e : e \in Written(log)}
<1>1. Written(log) \subseteq 1 .. Latest /\ Latest \in Nat
  BY ConstantsTyped DEF Written, Entries
<1>2. W \subseteq Nat /\ W # {}
  BY <1>1
<1>3. \E x \in W : \A y \in W : ~(<<y, x>> \in OpToRel(<, Nat))
  <2>. HIDE DEF W
  <2>. QED
    BY <1>2, NatLessThanWellFounded, WFMin
<1>4. PICK x \in W : \A y \in W : ~(y < x)
  BY <1>2, <1>3 DEF OpToRel
<1>5. PICK e \in Written(log) : x = Latest - e
  BY <1>4
<1>6. ASSUME NEW f \in Written(log) PROVE f <= e
  <2>1. ~(Latest - f < Latest - e)
    BY <1>4, <1>5
  <2>2. f \in Nat /\ e \in Nat /\ Latest \in Nat
    BY <1>1
  <2>. QED
    BY <2>1, <2>2
<1>. QED
  BY <1>6

(* The fields of a row.                                                     *)
LEMMA RowTyped ==
  ASSUME NEW r \in Rows
  PROVE  /\ r.made \in Nat /\ r.at \in Nat /\ r.set \in Nat /\ r.link \in Nat
         /\ r.linked \in BOOLEAN
  BY ConstantsTyped DEF Rows

(* newest_content_stamp raises the row to its own stamp or to an entry's.   *)
LEMMA RowRaised ==
  ASSUME NEW row \in Rows, NEW log \in Logs
  PROVE  LET q == Raised(row, log) IN
         /\ q \in Rows /\ q.at >= row.at
         /\ q.made = row.made /\ q.link = row.link /\ q.linked = row.linked
         /\ q.at = row.at \/ q.at \in Written(log)
<1>. DEFINE q == Raised(row, log)
<1>1. CASE Written(log) = {}
  BY <1>1, ConstantsTyped DEF Raised, Rows
<1>2. CASE Written(log) # {}
  <2>. DEFINE last == CHOOSE e \in Written(log) : \A f \in Written(log) : f <= e
  <2>1. last \in Written(log)
    BY <1>2, LastWritten
  <2>2. last \in Entries /\ last \in Stamps /\ row.at \in Stamps
    BY <2>1, ConstantsTyped DEF Written, Rows
  <2>3. q = [row EXCEPT !.at = Max2(row.at, last)]
    BY <1>2 DEF Raised
  <2>. HIDE DEF last, q
  <2>4. Max2(row.at, last) \in Stamps /\ Max2(row.at, last) >= row.at
        /\ Max2(row.at, last) \in {row.at, last}
    <3>1. last \in Nat /\ row.at \in Nat
      BY <2>2, ConstantsTyped
    <3>. QED
      BY <2>2, <3>1 DEF Max2
  <2>. QED
    BY <2>1, <2>3, <2>4 DEF Rows, q
<1>. QED
  BY <1>1, <1>2

(* merge_row: each stamp is one of the two sides', the edge is the later one.*)
LEMMA RowMerged ==
  ASSUME NEW mine \in Rows, NEW theirs \in Rows
  PROVE  LET q == MergeRow(mine, theirs) IN
         /\ q \in Rows
         /\ q.made \in {mine.made, theirs.made} /\ q.made <= mine.made /\ q.made <= theirs.made
         /\ q.at \in {mine.at, theirs.at, mine.link, theirs.link}
         /\ q.at >= mine.at /\ q.at >= theirs.at
         /\ mine.link <= q.link /\ theirs.link <= q.link
         /\ \/ q.link = mine.link /\ q.linked = mine.linked
            \/ q.link = theirs.link /\ q.linked = theirs.linked
<1>. DEFINE q == MergeRow(mine, theirs)
<1>1. /\ mine.made \in Nat /\ mine.at \in Nat /\ mine.link \in Nat
      /\ theirs.made \in Nat /\ theirs.at \in Nat /\ theirs.link \in Nat
  BY RowTyped
<1>2. q.made \in {mine.made, theirs.made} /\ q.made <= mine.made /\ q.made <= theirs.made
  BY <1>1 DEF MergeRow
<1>3. q.link \in {mine.link, theirs.link} /\ mine.link <= q.link /\ theirs.link <= q.link
  BY <1>1 DEF MergeRow
<1>4. \/ q.link = mine.link /\ q.linked = mine.linked
      \/ q.link = theirs.link /\ q.linked = theirs.linked
  BY DEF MergeRow
<1>5. q.at \in {mine.at, theirs.at, mine.link, theirs.link}
      /\ (q.at >= mine.at /\ q.at >= theirs.at)
  BY <1>1 DEF MergeRow, Max2
<1>6. q.set \in {mine.set, theirs.set}
  BY DEF MergeRow
<1>7. q \in Rows
  BY <1>2, <1>3, <1>4, <1>5, <1>6 DEF MergeRow, Rows
<1>. QED
  BY <1>2, <1>3, <1>4, <1>5, <1>7

(* merge answers an index.                                                  *)
LEMMA RowsMerged ==
  ASSUME NEW mine \in Indexes, NEW theirs \in Indexes
  PROVE  MergeRows(mine, theirs) \in Indexes
<1>1. \A t \in Tasks : mine[t] \in Rows \cup {NoRow} /\ theirs[t] \in Rows \cup {NoRow}
  BY DEF Indexes
<1>2. \A t \in Tasks : mine[t] # NoRow /\ theirs[t] # NoRow
                       => MergeRow(mine[t], theirs[t]) \in Rows
  BY <1>1, RowMerged
<1>. QED
  BY <1>1, <1>2 DEF MergeRows, Indexes

-----------------------------------------------------------------------------
(* Types                                                                    *)

(* A store that is closed or dead is a memory like another.                 *)
LEMMA GoneTyped == Gone \in Memories
<1>1. NoRows \in Indexes /\ [t \in Tasks |-> Unread] \in [Tasks -> Contents \cup {Unread}]
  BY DEF NoRows, Indexes
<1>. QED
  BY <1>1 DEF Gone, Memories

(* The fields of a store's memory.                                          *)
LEMMA MemTyped ==
  ASSUME TypeOK, NEW s \in Stores
  PROVE  /\ mem[s] \in Memories /\ mem[s].rows \in Indexes
         /\ mem[s].held \in [Tasks -> Contents \cup {Unread}]
         /\ \A t \in Tasks : /\ mem[s].rows[t] \in Rows \cup {NoRow}
                             /\ mem[s].held[t] \in Contents \cup {Unread}
         /\ mem[s].at = "gone" => mem[s] = Gone
<1>1. mem[s] \in Memories /\ (mem[s].at = "gone" => mem[s] = Gone)
  BY DEF TypeOK
<1>2. mem[s].rows \in Indexes /\ mem[s].held \in [Tasks -> Contents \cup {Unread}]
  BY DEF TypeOK, Memories
<1>. QED
  BY <1>1, <1>2 DEF TypeOK, Indexes

(* What is on disk of one task.                                             *)
LEMMA DiskTyped ==
  ASSUME TypeOK, NEW t \in Tasks
  PROVE  /\ index[t] \in Rows \cup {NoRow} /\ file[t] \in Contents \cup {NoFile}
         /\ OnDisk(t) \in Contents
  BY ConstantsTyped DEF TypeOK, Indexes, OnDisk

(* What a store answers of a task is a content, loaded or not.              *)
LEMMA HeldTyped ==
  ASSUME TypeOK, NEW s \in Stores, NEW t \in Tasks
  PROVE  Held(s, t) \in Contents
  BY MemTyped, DiskTyped DEF Held

(* One store's memory becomes m.                                            *)
LEMMA MemBecomes ==
  ASSUME TypeOK, NEW s \in Stores, NEW m \in Memories, m.at = "gone" => m = Gone
  PROVE  LET n == [mem EXCEPT ![s] = m] IN
         /\ n \in [Stores -> Memories] /\ \A x \in Stores : n[x].at = "gone" => n[x] = Gone
         /\ n[s] = m /\ \A x \in Stores \ {s} : n[x] = mem[x]
  BY DEF TypeOK

(* What reconcile_content leaves in memory                                   *)
LEMMA ContentTakenIs ==
  ASSUME TypeOK, NEW s \in Stores
  PROVE  LET m == ContentTaken(s) IN
         /\ m \in Memories
         /\ m.at = mem[s].at /\ m.dirty = mem[s].dirty /\ m.removed = mem[s].removed
         /\ m.todo = mem[s].todo /\ m.state = mem[s].state
         /\ m.due = mem[s].due /\ m.closing = mem[s].closing
         /\ \A t \in Tasks :
              /\ m.held[t] = IF t \in Moved(s) THEN MergeContent(mem[s].held[t], file[t])
                                               ELSE mem[s].held[t]
              /\ m.rows[t] = IF t \in Moved(s) /\ mem[s].rows[t] # NoRow
                               THEN Raised(mem[s].rows[t], m.held[t].log) ELSE mem[s].rows[t]
<1>. DEFINE new == [t \in Tasks |-> IF t \in Moved(s) THEN MergeContent(mem[s].held[t], file[t])
                                                      ELSE mem[s].held[t]]
            rows == [t \in Tasks |-> IF t \in Moved(s) /\ mem[s].rows[t] # NoRow
                                       THEN Raised(mem[s].rows[t], new[t].log)
                                       ELSE mem[s].rows[t]]
            m == ContentTaken(s)
<1>1. mem[s] \in Memories
  BY MemTyped
<1>2. m = [mem[s] EXCEPT !.held = new, !.rows = rows]
  BY <1>1 DEF ContentTaken, Memories
<1>3. \A t \in Moved(s) : mem[s].held[t] \in Contents /\ file[t] \in Contents /\ t \in Tasks
  <2>1. Moved(s) \subseteq Tasks
    BY <1>1 DEF Moved, Memories
  <2>. QED
    BY <2>1, MemTyped, DiskTyped DEF Moved
<1>4. \A t \in Tasks : new[t] \in Contents \cup {Unread}
  BY <1>3, MemTyped, ContentMergedTyped
<1>5. \A t \in Moved(s) : new[t] \in Contents /\ new[t].log \in Logs
  <2>1. \A t \in Moved(s) : new[t] \in Contents
    BY <1>3, ContentMergedTyped
  <2>. QED
    BY <2>1 DEF Contents
<1>6. \A t \in Tasks : rows[t] \in Rows \cup {NoRow}
  <2>. HIDE DEF new
  <2>1. \A t \in Tasks : mem[s].rows[t] \in Rows \cup {NoRow}
    BY MemTyped
  <2>. QED
    BY <1>5, <2>1, RowRaised
<1>7. new \in [Tasks -> Contents \cup {Unread}] /\ rows \in Indexes
  BY <1>4, <1>6 DEF Indexes
<1>. HIDE DEF new, rows
<1>8. m \in Memories
  BY <1>1, <1>2, <1>7 DEF Memories
<1>9. m.held = new /\ m.rows = rows /\ m.at = mem[s].at /\ m.dirty = mem[s].dirty
      /\ m.removed = mem[s].removed /\ m.todo = mem[s].todo /\ m.state = mem[s].state
      /\ m.due = mem[s].due /\ m.closing = mem[s].closing
  BY <1>1, <1>2 DEF Memories
<1>. QED
  BY <1>8, <1>9 DEF new, rows

(* reconcile: then the index                                                 *)
LEMMA ReconciledIs ==
  ASSUME TypeOK, NEW s \in Stores
  PROVE  LET m == Reconciled(s)
             c == ContentTaken(s) IN
         /\ m \in Memories
         /\ m.at = mem[s].at /\ m.dirty = mem[s].dirty /\ m.removed = mem[s].removed
         /\ m.todo = mem[s].todo /\ m.closing = mem[s].closing /\ m.held = c.held
         /\ m.state = IF UpToDate(s) THEN mem[s].state ELSE Finds
         /\ m.rows = IF ~UpToDate(s) /\ tracker = "ready" /\ index # c.rows
                       THEN MergeRows(c.rows, index) ELSE c.rows
<1>. DEFINE c == ContentTaken(s)
<1>1. c \in Memories /\ c.rows \in Indexes /\ index \in Indexes
  BY ContentTakenIs DEF TypeOK, Memories
<1>2. Finds \in {"Absent", "Ready", "Unreadable"}
  BY DEF TypeOK, Finds
<1>3. MergeRows(c.rows, index) \in Indexes
  BY <1>1, RowsMerged
<1>4. /\ c.at = mem[s].at /\ c.dirty = mem[s].dirty /\ c.removed = mem[s].removed
      /\ c.todo = mem[s].todo /\ c.closing = mem[s].closing /\ c.state = mem[s].state
  BY ContentTakenIs
<1>. HIDE DEF c
<1>5. Reconciled(s) = IF UpToDate(s) THEN c
                      ELSE [c EXCEPT !.state = Finds,
                                     !.rows = IF tracker = "ready" /\ index # c.rows
                                                THEN MergeRows(c.rows, index) ELSE c.rows]
  BY <1>1 DEF Reconciled, c, Memories
<1>6. CASE UpToDate(s)
  BY <1>1, <1>4, <1>5, <1>6 DEF c
<1>7. CASE ~UpToDate(s)
  <2>. DEFINE r == IF tracker = "ready" /\ index # c.rows THEN MergeRows(c.rows, index) ELSE c.rows
  <2>1. r \in Indexes
    BY <1>1, <1>3
  <2>2. Reconciled(s) = [c EXCEPT !.state = Finds, !.rows = r]
    BY <1>5, <1>7
  <2>. HIDE DEF r
  <2>3. Reconciled(s) \in Memories /\ Reconciled(s).rows = r /\ Reconciled(s).state = Finds
        /\ Reconciled(s).held = c.held
        /\ Reconciled(s).at = c.at /\ Reconciled(s).dirty = c.dirty
        /\ Reconciled(s).removed = c.removed
        /\ Reconciled(s).todo = c.todo /\ Reconciled(s).closing = c.closing
    BY <1>1, <1>2, <2>1, <2>2 DEF Memories
  <2>. QED
    BY <1>4, <1>7, <2>3 DEF r, c
<1>. QED
  BY <1>6, <1>7

-----------------------------------------------------------------------------
(* What each step leaves in memory                                          *)

(* Only the memory of s changes, to one of its type.                        *)
Becomes(s) ==
    /\ mem' \in [Stores -> Memories] /\ \A x \in Stores : mem'[x].at = "gone" => mem'[x] = Gone
    /\ \A x \in Stores \ {s} : mem'[x] = mem[x]

(* put: the memory after an accepted edit, and what of the disk stays.      *)
LEMMA PutMem ==
  ASSUME TypeOK, NEW s \in Stores, NEW t \in Tasks, NEW row \in Rows, NEW content \in Contents,
         mem[s].at = "idle", Put(s, t, row, content)
  PROVE  /\ Becomes(s)
         /\ mem'[s].rows = [mem[s].rows EXCEPT ![t] = row]
         /\ mem'[s].held = [mem[s].held EXCEPT ![t] = content]
         /\ mem'[s].dirty = IF content = Held(s, t) THEN mem[s].dirty ELSE mem[s].dirty \cup {t}
         /\ mem'[s].at = "idle" /\ mem'[s].removed = mem[s].removed /\ mem'[s].todo = mem[s].todo
         /\ index' = index /\ file' = file /\ tracker' = tracker /\ seen' = seen
         /\ fresh' = IF mem[s].held[t] = Unread /\ file[t] # NoFile
                       THEN [fresh EXCEPT ![t] = @ \cup {s}] ELSE fresh
<1>. DEFINE rows == [mem[s].rows EXCEPT ![t] = row]
            held == [mem[s].held EXCEPT ![t] = content]
            dirty == IF content = Held(s, t) THEN mem[s].dirty ELSE mem[s].dirty \cup {t}
            m == [mem[s] EXCEPT !.rows = rows, !.held = held, !.dirty = dirty, !.due = TRUE]
<1>1. mem[s] \in Memories /\ mem[s].rows \in Indexes
      /\ mem[s].held \in [Tasks -> Contents \cup {Unread}] /\ mem[s].dirty \subseteq Tasks
  BY MemTyped DEF Memories
<1>2. mem' = [mem EXCEPT ![s] = m]
  BY <1>1 DEF Put, Memories, TypeOK
<1>3. rows \in Indexes /\ held \in [Tasks -> Contents \cup {Unread}] /\ dirty \subseteq Tasks
  BY <1>1 DEF Indexes
<1>. HIDE DEF rows, held, dirty
<1>4. m \in Memories /\ m.rows = rows /\ m.held = held /\ m.dirty = dirty /\ m.at = "idle"
      /\ m.removed = mem[s].removed /\ m.todo = mem[s].todo
  BY <1>1, <1>3 DEF Memories
<1>. HIDE DEF m
<1>5. Becomes(s) /\ mem'[s] = m
  BY <1>2, <1>4, MemBecomes DEF Becomes
<1>. QED
  BY <1>4, <1>5 DEF rows, held, dirty, Put, Loads, diskVars

(* get and search: the memory with the content they loaded.                 *)
LEMMA GetMem ==
  ASSUME TypeOK, NEW s \in Stores, NEW t \in Tasks, Get(s, t)
  PROVE  /\ Becomes(s)
         /\ mem'[s].held = [mem[s].held EXCEPT ![t] = OnDisk(t)]
         /\ mem'[s].rows = mem[s].rows /\ mem'[s].dirty = mem[s].dirty
         /\ mem'[s].at = "idle" /\ mem'[s].removed = mem[s].removed /\ mem'[s].todo = mem[s].todo
<1>. DEFINE held == [mem[s].held EXCEPT ![t] = OnDisk(t)]
            m == [mem[s] EXCEPT !.held = held]
<1>1. mem[s] \in Memories /\ mem[s].held \in [Tasks -> Contents \cup {Unread}]
  BY MemTyped
<1>2. mem' = [mem EXCEPT ![s] = m]
  BY <1>1 DEF Get, Memories, TypeOK
<1>3. held \in [Tasks -> Contents \cup {Unread}]
  BY <1>1, DiskTyped
<1>. HIDE DEF held
<1>4. m \in Memories /\ m.held = held /\ m.rows = mem[s].rows /\ m.dirty = mem[s].dirty
      /\ m.at = "idle" /\ m.removed = mem[s].removed /\ m.todo = mem[s].todo
  BY <1>1, <1>3 DEF Memories, Get
<1>. HIDE DEF m
<1>5. Becomes(s) /\ mem'[s] = m
  BY <1>2, <1>4, MemBecomes DEF Becomes
<1>. QED
  BY <1>4, <1>5 DEF held

(* delete: the memory without the task, its directory owed.                 *)
LEMMA DeleteMem ==
  ASSUME TypeOK, NEW s \in Stores, NEW t \in Tasks, Delete(s, t)
  PROVE  /\ Becomes(s)
         /\ mem'[s].rows = [mem[s].rows EXCEPT ![t] = NoRow]
         /\ mem'[s].held = [mem[s].held EXCEPT ![t] = Unread]
         /\ mem'[s].dirty = mem[s].dirty \ {t} /\ mem'[s].removed = mem[s].removed \cup {t}
         /\ mem'[s].at = "idle" /\ mem'[s].todo = mem[s].todo
<1>. DEFINE rows == [mem[s].rows EXCEPT ![t] = NoRow]
            held == [mem[s].held EXCEPT ![t] = Unread]
            dirty == mem[s].dirty \ {t}
            removed == mem[s].removed \cup {t}
            m == [mem[s] EXCEPT !.rows = rows, !.held = held, !.dirty = dirty,
                                !.removed = removed, !.due = TRUE]
<1>1. mem[s] \in Memories /\ mem[s].rows \in Indexes
      /\ mem[s].held \in [Tasks -> Contents \cup {Unread}] /\ mem[s].dirty \subseteq Tasks
      /\ mem[s].removed \subseteq Tasks
  BY MemTyped DEF Memories
<1>2. mem' = [mem EXCEPT ![s] = m]
  BY <1>1 DEF Delete, Memories, TypeOK
<1>3. rows \in Indexes /\ held \in [Tasks -> Contents \cup {Unread}] /\ dirty \subseteq Tasks
      /\ removed \subseteq Tasks
  BY <1>1 DEF Indexes
<1>. HIDE DEF rows, held, dirty, removed
<1>4. m \in Memories /\ m.rows = rows /\ m.held = held /\ m.dirty = dirty /\ m.at = "idle"
      /\ m.removed = removed /\ m.todo = mem[s].todo
  BY <1>1, <1>3 DEF Memories, Delete, Edits
<1>. HIDE DEF m
<1>5. Becomes(s) /\ mem'[s] = m
  BY <1>2, <1>4, MemBecomes DEF Becomes
<1>. QED
  BY <1>4, <1>5 DEF rows, held, dirty, removed

(* open: the memory of a store just opened.                                 *)
LEMMA OpenMem ==
  ASSUME TypeOK, NEW s \in Stores, Open(s)
  PROVE  /\ Becomes(s)
         /\ mem'[s].rows = IF tracker = "ready" THEN index ELSE NoRows
         /\ mem'[s].held = [t \in Tasks |-> Unread]
         /\ mem'[s].dirty = {} /\ mem'[s].removed = {} /\ mem'[s].todo = {}
         /\ mem'[s].at = "idle"
<1>. DEFINE rows == IF tracker = "ready" THEN index ELSE NoRows
            m == [Gone EXCEPT !.at = "idle", !.rows = rows, !.state = Finds]
<1>1. mem' = [mem EXCEPT ![s] = m]
  BY DEF Open
<1>2. rows \in Indexes /\ Finds \in {"Absent", "Ready", "Unreadable"}
  BY DEF Indexes, NoRows, TypeOK, Finds
<1>. HIDE DEF rows
<1>3. m \in Memories /\ m.rows = rows /\ m.at = "idle" /\ m.held = Gone.held
      /\ m.dirty = Gone.dirty /\ m.removed = Gone.removed /\ m.todo = Gone.todo
  BY <1>2, GoneTyped DEF Memories
<1>. HIDE DEF m
<1>4. Becomes(s) /\ mem'[s] = m
  BY <1>1, <1>3, MemBecomes DEF Becomes
<1>. QED
  BY <1>3, <1>4 DEF rows, Gone

(* Close and crash leave no memory.                                         *)
LEMMA GoneMem ==
  ASSUME TypeOK, NEW s \in Stores, mem' = [mem EXCEPT ![s] = Gone]
  PROVE  Becomes(s) /\ mem'[s] = Gone
  BY GoneTyped, MemBecomes DEF Becomes

(* refresh_from_disk: the memory reconcile leaves.                          *)
LEMMA RefreshMem ==
  ASSUME TypeOK, NEW s \in Stores, Refresh(s)
  PROVE  /\ Becomes(s)
         /\ mem'[s].rows = Reconciled(s).rows /\ mem'[s].held = Reconciled(s).held
         /\ mem'[s].dirty = mem[s].dirty /\ mem'[s].removed = mem[s].removed
         /\ mem'[s].todo = mem[s].todo /\ mem'[s].at = "idle"
<1>. DEFINE c == Reconciled(s)
            m == [c EXCEPT !.due = @ \/ Merges(s)]
<1>1. c \in Memories /\ c.at = mem[s].at /\ c.dirty = mem[s].dirty
      /\ c.removed = mem[s].removed /\ c.todo = mem[s].todo
  BY ReconciledIs
<1>2. mem' = [mem EXCEPT ![s] = m] /\ mem[s].at = "idle"
  BY DEF Refresh
<1>. HIDE DEF c
<1>3. (c.due \/ Merges(s)) \in BOOLEAN
  BY <1>1 DEF Memories
<1>4. m \in Memories /\ m.rows = c.rows /\ m.held = c.held /\ m.dirty = c.dirty
      /\ m.removed = c.removed /\ m.todo = c.todo /\ m.at = c.at
  BY <1>1, <1>3 DEF Memories
<1>. HIDE DEF m
<1>5. Becomes(s) /\ mem'[s] = m
  <2>1. m.at = "idle"
    BY <1>1, <1>2, <1>4
  <2>. QED
    BY <1>2, <1>4, <2>1, MemBecomes DEF Becomes
<1>. QED
  BY <1>1, <1>2, <1>4, <1>5 DEF c

(* reload: the memory with the index read again.                            *)
LEMMA ReloadMem ==
  ASSUME TypeOK, NEW s \in Stores, Reload(s)
  PROVE  /\ Becomes(s)
         /\ mem'[s].rows = IF tracker = "ready" THEN MergeRows(mem[s].rows, index) ELSE mem[s].rows
         /\ mem'[s].held = mem[s].held
         /\ mem'[s].dirty = mem[s].dirty /\ mem'[s].removed = mem[s].removed
         /\ mem'[s].todo = mem[s].todo /\ mem'[s].at = "idle"
<1>. DEFINE rows == IF tracker = "ready" THEN MergeRows(mem[s].rows, index) ELSE mem[s].rows
            m == [mem[s] EXCEPT !.state = Finds, !.rows = rows]
<1>1. mem[s] \in Memories /\ mem[s].rows \in Indexes /\ mem[s].at = "idle"
  BY MemTyped DEF Reload
<1>2. mem' = [mem EXCEPT ![s] = m]
  BY <1>1 DEF Reload, Memories, TypeOK
<1>3. rows \in Indexes /\ Finds \in {"Absent", "Ready", "Unreadable"}
  BY <1>1, RowsMerged DEF TypeOK, Finds
<1>. HIDE DEF rows
<1>4. m \in Memories /\ m.rows = rows /\ m.held = mem[s].held /\ m.dirty = mem[s].dirty
      /\ m.removed = mem[s].removed /\ m.todo = mem[s].todo /\ m.at = "idle"
  BY <1>1, <1>3 DEF Memories
<1>. HIDE DEF m
<1>5. Becomes(s) /\ mem'[s] = m
  BY <1>2, <1>4, MemBecomes DEF Becomes
<1>. QED
  BY <1>4, <1>5 DEF rows

(* A flush begins with what reconcile leaves, and only from an index it can  *)
(* read or that is not there.                                               *)
LEMMA BegunIs ==
  ASSUME TypeOK, NEW s \in Stores, NEW closes \in BOOLEAN, mem[s].at = "idle"
  PROVE  LET m == Begun(s, closes)
             r == Reconciled(s) IN
         /\ m \in Memories
         /\ m.at = "gone" => m = Gone
         /\ \/ m = Gone /\ closes
            \/ /\ m.rows = r.rows /\ m.held = r.held /\ m.removed = mem[s].removed
               /\ \/ m.at = "idle" /\ m.dirty = mem[s].dirty /\ m.todo = mem[s].todo
                  \/ /\ m.at = "contents" /\ m.dirty = {} /\ m.todo = mem[s].dirty
                     /\ r.state # "Unreadable"
<1>. DEFINE r == Reconciled(s)
            m == [r EXCEPT !.due = FALSE]
            n == [m EXCEPT !.due = TRUE]
            b == [m EXCEPT !.at = "contents", !.todo = m.dirty, !.dirty = {}, !.closing = closes]
<1>1. r \in Memories /\ r.at = "idle" /\ r.dirty = mem[s].dirty
      /\ r.removed = mem[s].removed /\ r.todo = mem[s].todo
  BY ReconciledIs
<1>2. \/ Begun(s, closes) = Gone /\ closes
      \/ Begun(s, closes) = n \/ Begun(s, closes) = m
      \/ r.state # "Unreadable" /\ Begun(s, closes) = b
  <2>1. m.state = r.state
    BY <1>1 DEF Memories
  <2>. QED
    BY <2>1 DEF Begun
<1>. HIDE DEF r
<1>3. m \in Memories /\ m.at = r.at /\ m.rows = r.rows /\ m.held = r.held
      /\ m.dirty = r.dirty /\ m.removed = r.removed /\ m.todo = r.todo
  BY <1>1 DEF Memories
<1>. HIDE DEF m
<1>4. n \in Memories /\ n.at = r.at /\ n.rows = r.rows /\ n.held = r.held
      /\ n.dirty = r.dirty /\ n.removed = r.removed /\ n.todo = r.todo
  BY <1>3 DEF Memories
<1>5. b \in Memories /\ b.at = "contents" /\ b.rows = r.rows /\ b.held = r.held
      /\ b.dirty = {} /\ b.todo = r.dirty /\ b.removed = r.removed
  BY <1>3 DEF Memories
<1>. HIDE DEF n, b
<1>. QED
  BY <1>1, <1>2, <1>3, <1>4, <1>5, GoneTyped DEF r

(* write_now begins with what Begun says.                                   *)
LEMMA FlushMem ==
  ASSUME TypeOK, NEW s \in Stores, NEW closes \in BOOLEAN, mem[s].at = "idle",
         mem' = [mem EXCEPT ![s] = Begun(s, closes)]
  PROVE  Becomes(s) /\ mem'[s] = Begun(s, closes)
<1>. DEFINE m == Begun(s, closes)
<1>1. m \in Memories /\ (m.at = "gone" => m = Gone)
  BY BegunIs
<1>0. mem' = [mem EXCEPT ![s] = m]
  OBVIOUS
<1>. HIDE DEF m
<1>2. Becomes(s) /\ mem'[s] = m
  BY <1>0, <1>1, MemBecomes DEF Becomes
<1>. QED
  BY <1>2 DEF m

(* A content file written: one task less to do.                             *)
LEMMA WriteContentMem ==
  ASSUME TypeOK, NEW s \in Stores, NEW t \in Tasks, WriteContent(s, t)
  PROVE  /\ Becomes(s) /\ mem'[s].todo = mem[s].todo \ {t}
         /\ mem'[s].rows = mem[s].rows /\ mem'[s].held = mem[s].held
         /\ mem'[s].dirty = mem[s].dirty /\ mem'[s].removed = mem[s].removed
         /\ mem'[s].at = "contents"
<1>. DEFINE todo == mem[s].todo \ {t}
            m == [mem[s] EXCEPT !.todo = todo]
<1>1. mem[s] \in Memories /\ mem[s].at = "contents" /\ todo \subseteq Tasks
  BY MemTyped DEF WriteContent, Memories
<1>2. mem' = [mem EXCEPT ![s] = m]
  BY <1>1 DEF WriteContent, Memories, TypeOK
<1>. HIDE DEF todo
<1>3. m \in Memories /\ m.todo = todo /\ m.rows = mem[s].rows /\ m.held = mem[s].held
      /\ m.dirty = mem[s].dirty /\ m.removed = mem[s].removed /\ m.at = "contents"
  BY <1>1 DEF Memories
<1>. HIDE DEF m
<1>4. Becomes(s) /\ mem'[s] = m
  BY <1>2, <1>3, MemBecomes DEF Becomes
<1>. QED
  BY <1>3, <1>4 DEF todo

(* A content file that failed: the task is dirty again.                     *)
LEMMA ContentFailsMem ==
  ASSUME TypeOK, NEW s \in Stores, NEW t \in Tasks, ContentFails(s, t)
  PROVE  /\ Becomes(s) /\ mem'[s].todo = mem[s].todo \ {t}
         /\ mem'[s].dirty = mem[s].dirty \cup {t}
         /\ mem'[s].rows = mem[s].rows /\ mem'[s].held = mem[s].held
         /\ mem'[s].removed = mem[s].removed /\ mem'[s].at = "contents"
<1>. DEFINE todo == mem[s].todo \ {t}
            dirty == mem[s].dirty \cup {t}
            m == [mem[s] EXCEPT !.todo = todo, !.dirty = dirty, !.due = TRUE]
<1>1. mem[s] \in Memories /\ mem[s].at = "contents" /\ todo \subseteq Tasks /\ dirty \subseteq Tasks
  BY MemTyped DEF ContentFails, Memories
<1>2. mem' = [mem EXCEPT ![s] = m]
  BY <1>1 DEF ContentFails, Memories, TypeOK
<1>. HIDE DEF todo, dirty
<1>3. m \in Memories /\ m.todo = todo /\ m.rows = mem[s].rows /\ m.held = mem[s].held
      /\ m.dirty = dirty /\ m.removed = mem[s].removed /\ m.at = "contents"
  BY <1>1 DEF Memories
<1>. HIDE DEF m
<1>4. Becomes(s) /\ mem'[s] = m
  BY <1>2, <1>3, MemBecomes DEF Becomes
<1>. QED
  BY <1>3, <1>4 DEF todo, dirty

(* The directories removed: nothing owed for them.                          *)
LEMMA RemoveDirsMem ==
  ASSUME TypeOK, NEW s \in Stores, RemoveDirs(s)
  PROVE  /\ Becomes(s) /\ mem'[s].removed = {}
         /\ mem'[s].rows = mem[s].rows /\ mem'[s].held = mem[s].held
         /\ mem'[s].dirty = mem[s].dirty /\ mem'[s].todo = mem[s].todo
         /\ mem'[s].at = "index"
<1>. DEFINE m == [mem[s] EXCEPT !.at = "index", !.removed = {}]
<1>1. mem[s] \in Memories
  BY MemTyped
<1>2. mem' = [mem EXCEPT ![s] = m]
  BY <1>1 DEF RemoveDirs, Memories, TypeOK
<1>3. m \in Memories /\ m.todo = mem[s].todo /\ m.rows = mem[s].rows /\ m.held = mem[s].held
      /\ m.dirty = mem[s].dirty /\ m.removed = {} /\ m.at = "index"
  BY <1>1 DEF Memories
<1>. HIDE DEF m
<1>4. Becomes(s) /\ mem'[s] = m
  BY <1>2, <1>3, MemBecomes DEF Becomes
<1>. QED
  BY <1>3, <1>4

(* The flush ends, whichever way: the store is gone, or as it was.           *)
LEMMA EndsMem ==
  ASSUME TypeOK, NEW s \in Stores, mem[s].at = "index", WriteIndex(s) \/ IndexFails(s)
  PROVE  /\ Becomes(s)
         /\ IF mem[s].closing THEN mem'[s] = Gone
            ELSE /\ mem'[s].rows = mem[s].rows /\ mem'[s].held = mem[s].held
                 /\ mem'[s].dirty = mem[s].dirty /\ mem'[s].removed = mem[s].removed
                 /\ mem'[s].todo = mem[s].todo /\ mem'[s].at = "idle"
<1>. DEFINE a == [mem[s] EXCEPT !.state = "Ready"]
            b == [mem[s] EXCEPT !.due = TRUE]
            m == [a EXCEPT !.at = "idle"]
            n == [b EXCEPT !.at = "idle"]
<1>1. mem[s] \in Memories
  BY MemTyped
<1>2. mem' = [mem EXCEPT ![s] = Ends(s, a)] \/ mem' = [mem EXCEPT ![s] = Ends(s, b)]
  BY <1>1 DEF WriteIndex, IndexFails, Memories, TypeOK
<1>3. CASE mem[s].closing
  BY <1>2, <1>3, GoneMem DEF Ends
<1>4. CASE ~mem[s].closing
  <2>1. mem' = [mem EXCEPT ![s] = m] \/ mem' = [mem EXCEPT ![s] = n]
    BY <1>2, <1>4 DEF Ends
  <2>2. m \in Memories /\ m.todo = mem[s].todo /\ m.rows = mem[s].rows /\ m.held = mem[s].held
        /\ m.dirty = mem[s].dirty /\ m.removed = mem[s].removed /\ m.at = "idle"
    BY <1>1 DEF Memories
  <2>3. n \in Memories /\ n.todo = mem[s].todo /\ n.rows = mem[s].rows /\ n.held = mem[s].held
        /\ n.dirty = mem[s].dirty /\ n.removed = mem[s].removed /\ n.at = "idle"
    BY <1>1 DEF Memories
  <2>. HIDE DEF m, n
  <2>4. CASE mem' = [mem EXCEPT ![s] = m]
    <3>1. Becomes(s) /\ mem'[s] = m
      BY <2>2, <2>4, MemBecomes DEF Becomes
    <3>. QED
      BY <1>4, <2>2, <3>1
  <2>5. CASE mem' = [mem EXCEPT ![s] = n]
    <3>1. Becomes(s) /\ mem'[s] = n
      BY <2>3, <2>5, MemBecomes DEF Becomes
    <3>. QED
      BY <1>4, <2>3, <3>1
  <2>. QED
    BY <2>1, <2>4, <2>5
<1>. QED
  BY <1>3, <1>4

-----------------------------------------------------------------------------
(* Type correctness                                                         *)

(* The first state has its types.                                           *)
LEMMA InitTyped == Init => TypeOK
<1>. SUFFICES ASSUME Init PROVE TypeOK
  OBVIOUS
<1>1. case \in Bounds
  BY ConstantsAssumption DEF Init
<1>2. [made |-> 0, at |-> 0, set |-> 0, link |-> 0, linked |-> FALSE] \in Rows /\ 0 \in Stamps
  BY ConstantsTyped DEF Rows, Stamps
<1>3. index \in Indexes
  BY <1>2 DEF Init, Indexes
<1>4. file \in [Tasks -> Contents \cup {NoFile}]
  BY ConstantsTyped DEF Init
<1>5. mem \in [Stores -> Memories] /\ \A s \in Stores : mem[s] = Gone
  BY GoneTyped DEF Init
<1>. QED
  BY <1>1, <1>2, <1>3, <1>4, <1>5 DEF Init, TypeOK

(* Edits of a row that is there, and of its content, are typed.              *)
LEMMA EditTyped ==
  ASSUME TypeOK, NEW s \in Stores, NEW t \in Tasks, now < Latest
  PROVE  /\ Next1 \in Stamps /\ Next1 \in Entries
         /\ Has(s, t) =>
              /\ Touched(s, t) \in Rows /\ [Touched(s, t) EXCEPT !.set = Next1] \in Rows
              /\ [Touched(s, t) EXCEPT !.link = Next1, !.linked = ~@] \in Rows
         /\ Held(s, t) \in Contents /\ [Held(s, t) EXCEPT !.body = Next1] \in Contents
         /\ \A e \in Entries :
              /\ Logged(s, t, e) \in Contents
              /\ [Held(s, t) EXCEPT !.log[e] = [ed |-> Next1, dead |-> TRUE]] \in Contents
         /\ [made |-> Next1, at |-> Next1, set |-> Next1, link |-> 0, linked |-> FALSE] \in Rows
         /\ \A body \in {0, Next1} : [Blank EXCEPT !.body = body] \in Contents
<1>1. now \in Nat /\ Latest \in Nat
  BY ConstantsTyped DEF TypeOK
<1>2. Next1 \in Stamps /\ Next1 \in Entries /\ 0 \in Stamps
  BY <1>1 DEF Next1, Stamps, Entries
<1>. HIDE DEF Next1
<1>3. Has(s, t) => /\ Touched(s, t) \in Rows /\ [Touched(s, t) EXCEPT !.set = Next1] \in Rows
                   /\ [Touched(s, t) EXCEPT !.link = Next1, !.linked = ~@] \in Rows
  <2>. SUFFICES ASSUME Has(s, t)
                PROVE  /\ Touched(s, t) \in Rows /\ [Touched(s, t) EXCEPT !.set = Next1] \in Rows
                       /\ [Touched(s, t) EXCEPT !.link = Next1, !.linked = ~@] \in Rows
    OBVIOUS
  <2>1. mem[s].rows[t] \in Rows
    BY MemTyped DEF Has
  <2>2. Touched(s, t) \in Rows
    BY <1>2, <2>1 DEF Touched, Rows
  <2>. QED
    BY <1>2, <2>2 DEF Rows
<1>4. Held(s, t) \in Contents
  BY HeldTyped
<1>5. [Held(s, t) EXCEPT !.body = Next1] \in Contents
  BY <1>2, <1>4 DEF Contents
<1>6. ASSUME NEW e \in Entries, NEW d \in BOOLEAN
      PROVE  [Held(s, t) EXCEPT !.log[e] = [ed |-> Next1, dead |-> d]] \in Contents
  <2>. DEFINE log == [Held(s, t).log EXCEPT ![e] = [ed |-> Next1, dead |-> d]]
  <2>1. log \in Logs
    BY <1>2, <1>4 DEF Contents, Logs
  <2>2. [Held(s, t) EXCEPT !.log[e] = [ed |-> Next1, dead |-> d]] = [Held(s, t) EXCEPT !.log = log]
    OBVIOUS
  <2>. HIDE DEF log
  <2>. QED
    BY <1>4, <2>1, <2>2 DEF Contents
<1>7. [made |-> Next1, at |-> Next1, set |-> Next1, link |-> 0, linked |-> FALSE] \in Rows
  BY <1>2 DEF Rows
<1>8. \A body \in {0, Next1} : [Blank EXCEPT !.body = body] \in Contents
  BY <1>2, ConstantsTyped DEF Contents
<1>. QED
  BY <1>2, <1>3, <1>4, <1>5, <1>6, <1>7, <1>8 DEF Logged

-----------------------------------------------------------------------------
(* The edits of a task that is there are all of one form                    *)

(* An edit of the row and the content of t in s: the row keeps when it was  *)
(* made, its edge is the old one or newer than every other, and nothing in  *)
(* the content is undone.  What it is answered for is in the content.       *)
Edited(s, t, row, content) ==
    /\ Put(s, t, row, content) /\ mem[s].at = "idle" /\ mem[s].rows[t] # NoRow
    /\ row \in Rows /\ row.made = mem[s].rows[t].made /\ row.at = now'
    /\ content \in Contents /\ ContentPast(content, now')
    /\ content.body >= Held(s, t).body
    /\ \A e \in Entries : NotOlder(Held(s, t).log[e], content.log[e])
    /\ now' = now + 1 /\ now' \in Stamps
    /\ case' = [case EXCEPT !.edits = @ - 1] /\ case.edits > 0
    /\ UNCHANGED <<deleted, spoilt>>
    /\ \/ row.link = mem[s].rows[t].link /\ row.linked = mem[s].rows[t].linked
          /\ told' = told
       \/ row.link = now' /\ told' = told
       \/ row.link = mem[s].rows[t].link /\ row.linked = mem[s].rows[t].linked
          /\ told' = told \cup {<<t, now', "entry">>} /\ now' \in Entries
          /\ content.log[now'].ed > 0

(* What a store answers of a task is of the past.                           *)
LEMMA HeldPast ==
  ASSUME IInv, NEW s \in Stores, NEW t \in Tasks
  PROVE  ContentPast(Held(s, t), now)
<1>1. now \in Nat
  BY ConstantsTyped DEF IInv, TypeOK
<1>2. ContentPast(file[t], now) /\ ContentPast(mem[s].held[t], now)
  BY DEF IInv, Kept, DiskOf, HeldOf, HeldBy
<1>3. ContentPast(Blank, now)
  BY <1>1 DEF ContentPast, LogPast, Blank, NoLog, NoEntry, Entries
<1>. QED
  BY <1>2, <1>3 DEF Held, OnDisk

(* Every edit but create and delete changes one row and its content one way.*)
LEMMA EditShape ==
  ASSUME IInv, NEW s \in Stores, NEW t \in Tasks, EditStep(s, t)
  PROVE  \/ \E body \in {0, Next1} : Create(s, t, body)
         \/ \E row \in Rows, content \in Contents : Edited(s, t, row, content)
         \/ Delete(s, t)
<1>. DEFINE c == Held(s, t)
            r == mem[s].rows[t]
<1>1. TypeOK /\ now \in Nat
  BY ConstantsTyped DEF IInv, TypeOK
<1>2. c \in Contents /\ ContentPast(c, now) /\ c.body \in Nat
      /\ \A e \in Entries : c.log[e] \in LogEntries /\ c.log[e].ed \in Nat
  <2>1. c \in Contents
    BY <1>1, HeldTyped
  <2>2. \A e \in Entries : c.log[e] \in LogEntries
    BY <2>1 DEF Contents, Logs, LogEntries
  <2>. QED
    BY <2>1, <2>2, HeldPast, EntryTyped, ConstantsTyped DEF Contents
<1>3. ContentPast(c, now + 1) /\ \A e \in Entries : NotOlder(c.log[e], c.log[e])
  <2>1. ContentPast(c, now + 1)
    BY <1>1, <1>2, ConstantsTyped DEF ContentPast, LogPast
  <2>2. ASSUME NEW e \in Entries PROVE NotOlder(c.log[e], c.log[e])
    <3>1. c.log[e].ed <= c.log[e].ed
      BY <1>2
    <3>. QED
      BY <3>1 DEF NotOlder
  <2>. QED
    BY <2>1, <2>2
<1>. HIDE DEF c
(* A log with one entry written now.                                        *)
<1>4. ASSUME NEW e \in Entries, NEW d \in BOOLEAN, now + 1 \in Entries,
             e = now + 1 \/ ~c.log[e].dead, e = now + 1 \/ e <= now,
             NEW n \in Contents, n = [c EXCEPT !.log[e] = [ed |-> now + 1, dead |-> d]]
      PROVE  /\ ContentPast(n, now + 1) /\ n.body = c.body /\ n.log[e].ed > 0
             /\ \A f \in Entries : NotOlder(c.log[f], n.log[f])
  <2>1. n.body = c.body /\ n.log[e] = [ed |-> now + 1, dead |-> d]
        /\ \A f \in Entries \ {e} : n.log[f] = c.log[f]
    BY <1>2, <1>4 DEF Contents, Logs
  <2>2. ContentPast(n, now + 1)
    <3>1. n.log[e].ed = now + 1 /\ e <= now + 1 /\ now + 1 # 0
      <4>1. e \in Nat
        BY ConstantsTyped
      <4>. QED
        BY <1>1, <1>4, <2>1, <4>1
    <3>2. ASSUME NEW f \in Entries
          PROVE  /\ n.log[f].ed <= now + 1 /\ (n.log[f].ed > 0 => f <= now + 1)
                 /\ n.log[f].ed = 0 => ~n.log[f].dead
      <4>1. CASE f = e
        BY <1>1, <3>1, <4>1
      <4>2. CASE f # e
        BY <1>3, <2>1, <4>2 DEF ContentPast, LogPast
      <4>. QED
        BY <4>1, <4>2
    <3>. QED
      BY <1>3, <2>1, <3>2 DEF ContentPast, LogPast
  <2>3. ~c.log[e].dead /\ c.log[e].ed <= now + 1
    <3>1. CASE e = now + 1
      <4>1. c.log[e].ed = 0
        BY <1>1, <1>2, <3>1 DEF ContentPast, LogPast
      <4>. QED
        BY <1>1, <1>2, <4>1 DEF ContentPast, LogPast
    <3>2. CASE e # now + 1
      BY <1>4, <1>3, <3>2 DEF ContentPast, LogPast
    <3>. QED
      BY <3>1, <3>2
  <2>4. NotOlder(c.log[e], n.log[e])
    BY <2>1, <2>3 DEF NotOlder
  <2>5. n.log[e].ed > 0
    BY <1>1, <2>1
  <2>. QED
    BY <1>3, <2>1, <2>2, <2>4, <2>5
<1>. USE DEF c
<1>5. ASSUME NEW kind, Edits(s, kind)
      PROVE  now' = now + 1 /\ Next1 = now' /\ now' \in Stamps /\ now' \in Entries /\ now < Latest
             /\ case' = [case EXCEPT !.edits = @ - 1] /\ case.edits > 0
             /\ mem[s].at = "idle"
  BY <1>1, <1>5, EditTyped DEF Edits, Next1
<1>6. Has(s, t) => r \in Rows
  BY <1>1, MemTyped DEF Has
<1>7. ASSUME NEW kind, Edits(s, kind), Has(s, t)
      PROVE  /\ Touched(s, t) = [r EXCEPT !.at = now']
             /\ Touched(s, t).made = r.made /\ Touched(s, t).at = now'
             /\ Touched(s, t).link = r.link /\ Touched(s, t).linked = r.linked
             /\ Touched(s, t) \in Rows
  <2>1. Touched(s, t) \in Rows /\ Touched(s, t) = [r EXCEPT !.at = now']
    BY <1>1, <1>5, <1>7, EditTyped DEF Touched
  <2>. QED
    BY <1>6, <1>7, <2>1 DEF Rows
<1>8. CASE SetTitle(s, t)
  <2>. DEFINE row == [Touched(s, t) EXCEPT !.set = Next1]
  <2>1. Edits(s, "title") /\ Has(s, t) /\ Put(s, t, row, c) /\ UNCHANGED history
    BY <1>8 DEF SetTitle
  <2>2. row \in Rows /\ row.made = r.made /\ row.at = now' /\ row.link = r.link
        /\ row.linked = r.linked
    <3>1. row \in Rows
      BY <1>1, <1>5, <2>1, EditTyped
    <3>. QED
      BY <1>7, <2>1, <3>1 DEF Rows
  <2>. HIDE DEF row
  <2>3. Edited(s, t, row, c)
    BY <1>2, <1>3, <1>5, <2>1, <2>2 DEF Edited, Has, history
  <2>. QED
    BY <1>2, <2>2, <2>3
<1>9. CASE SetBody(s, t)
  <2>. DEFINE row == Touched(s, t)
              n == [c EXCEPT !.body = Next1]
  <2>1. Edits(s, "body") /\ Has(s, t) /\ Put(s, t, row, n) /\ UNCHANGED history
    BY <1>9 DEF SetBody
  <2>2. n \in Contents /\ n.body = now' /\ n.log = c.log
    BY <1>1, <1>2, <1>5, <2>1, EditTyped DEF Contents
  <2>. HIDE DEF n
  <2>3. ContentPast(n, now') /\ n.body >= c.body
    BY <1>1, <1>2, <1>3, <1>5, <2>1, <2>2 DEF ContentPast
  <2>4. Edited(s, t, row, n)
    BY <1>3, <1>5, <1>7, <2>1, <2>2, <2>3 DEF Edited, Has, history
  <2>. QED
    BY <1>7, <2>1, <2>2, <2>4
<1>10. CASE Comment(s, t)
  <2>. DEFINE row == Touched(s, t)
              n == Logged(s, t, Next1)
  <2>1. Edits(s, "comment") /\ Has(s, t) /\ Put(s, t, row, n) /\ Tells(t)
    BY <1>10 DEF Comment
  <2>2. n \in Contents /\ n = [c EXCEPT !.log[now + 1] = [ed |-> now + 1, dead |-> FALSE]]
        /\ now + 1 \in Entries
    BY <1>1, <1>5, <2>1, EditTyped DEF Logged
  <2>. HIDE DEF n, c
  <2>3. ContentPast(n, now + 1) /\ n.body = c.body /\ n.log[now + 1].ed > 0
        /\ \A f \in Entries : NotOlder(c.log[f], n.log[f])
    BY <1>4, <2>2
  <2>. USE DEF c
  <2>4. /\ told' = told \cup {<<t, now', "entry">>} /\ now' \in Entries /\ n.log[now'].ed > 0
        /\ ContentPast(n, now') /\ n.body >= c.body
    BY <1>2, <1>5, <2>1, <2>3 DEF Tells
  <2>5. Edited(s, t, row, n)
    BY <1>5, <1>7, <2>1, <2>2, <2>3, <2>4 DEF Edited, Has, Tells
  <2>. QED
    BY <1>7, <2>1, <2>2, <2>5
<1>11. CASE SetStatus(s, t)
  <2>. DEFINE row == [Touched(s, t) EXCEPT !.set = Next1]
              n == Logged(s, t, Next1)
  <2>1. Edits(s, "move") /\ Has(s, t) /\ Put(s, t, row, n) /\ Tells(t)
    BY <1>11 DEF SetStatus
  <2>2. n \in Contents /\ n = [c EXCEPT !.log[now + 1] = [ed |-> now + 1, dead |-> FALSE]]
        /\ now + 1 \in Entries
    BY <1>1, <1>5, <2>1, EditTyped DEF Logged
  <2>. HIDE DEF n, c
  <2>3. ContentPast(n, now + 1) /\ n.body = c.body /\ n.log[now + 1].ed > 0
        /\ \A f \in Entries : NotOlder(c.log[f], n.log[f])
    BY <1>4, <2>2
  <2>4. row \in Rows /\ row.made = r.made /\ row.at = now' /\ row.link = r.link
        /\ row.linked = r.linked
    <3>1. row \in Rows
      BY <1>1, <1>5, <2>1, EditTyped
    <3>. QED
      BY <1>7, <2>1, <3>1 DEF Rows
  <2>. HIDE DEF row
  <2>. USE DEF c
  <2>5. /\ told' = told \cup {<<t, now', "entry">>} /\ now' \in Entries /\ n.log[now'].ed > 0
        /\ ContentPast(n, now') /\ n.body >= c.body
    BY <1>2, <1>5, <2>1, <2>3 DEF Tells
  <2>6. Edited(s, t, row, n)
    BY <1>5, <2>1, <2>2, <2>3, <2>4, <2>5 DEF Edited, Has, Tells
  <2>. QED
    BY <2>2, <2>4, <2>6
<1>12. CASE Link(s, t)
  <2>. DEFINE row == [Touched(s, t) EXCEPT !.link = Next1, !.linked = ~@]
  <2>1. Edits(s, "link") /\ Has(s, t) /\ Put(s, t, row, c) /\ UNCHANGED history
    BY <1>12 DEF Link
  <2>2. row \in Rows /\ row.made = r.made /\ row.at = now' /\ row.link = now'
    <3>1. row \in Rows
      BY <1>1, <1>5, <2>1, EditTyped
    <3>. QED
      BY <1>5, <1>7, <2>1, <3>1 DEF Rows
  <2>. HIDE DEF row
  <2>3. Edited(s, t, row, c)
    BY <1>2, <1>3, <1>5, <2>1, <2>2 DEF Edited, Has, history
  <2>. QED
    BY <1>2, <2>2, <2>3
<1>13. ASSUME NEW e \in Entries, EditComment(s, t, e) \/ DeleteComment(s, t, e)
       PROVE  \E row \in Rows, content \in Contents : Edited(s, t, row, content)
  <2>. DEFINE row == Touched(s, t)
  <2>1. PICK d \in BOOLEAN, kind \in {"rewrite", "withdraw"} :
          /\ Edits(s, kind) /\ Has(s, t) /\ e \in Live(s, t) /\ UNCHANGED history
          /\ Put(s, t, row, [c EXCEPT !.log[e] = [ed |-> Next1, dead |-> d]])
    BY <1>13 DEF EditComment, DeleteComment, Logged
  <2>. DEFINE n == [c EXCEPT !.log[e] = [ed |-> Next1, dead |-> d]]
  <2>2. n \in Contents /\ n = [c EXCEPT !.log[e] = [ed |-> now + 1, dead |-> d]]
        /\ now + 1 \in Entries
    BY <1>1, <1>5, <2>1, EditTyped DEF Logged
  <2>3. ~c.log[e].dead /\ e <= now
    BY <1>2, <2>1 DEF Live, ContentPast, LogPast
  <2>0. Put(s, t, row, n)
    BY <2>1
  <2>. HIDE DEF n, c
  <2>4. ContentPast(n, now + 1) /\ n.body = c.body
        /\ \A f \in Entries : NotOlder(c.log[f], n.log[f])
    BY <1>4, <2>2, <2>3
  <2>. USE DEF c
  <2>5. Edited(s, t, row, n)
    BY <1>2, <1>5, <1>7, <2>0, <2>1, <2>2, <2>4 DEF Edited, Has, history
  <2>. QED
    BY <1>7, <2>1, <2>2, <2>5
<1>. QED
  BY <1>8, <1>9, <1>10, <1>11, <1>12, <1>13 DEF EditStep

(* create: the row and the content it puts.                                 *)
LEMMA CreateShape ==
  ASSUME IInv, NEW s \in Stores, NEW t \in Tasks, NEW body \in {0, Next1}, Create(s, t, body)
  PROVE  LET row == [made |-> Next1, at |-> Next1, set |-> Next1, link |-> 0, linked |-> FALSE]
             content == [Blank EXCEPT !.body = body] IN
         /\ Put(s, t, row, content) /\ row \in Rows /\ content \in Contents
         /\ content.body = body /\ content.log = NoLog
         /\ mem[s].at = "idle" /\ now' = now + 1 /\ now' = Next1 /\ now' \in Stamps /\ now' \in Entries
         /\ case' = [case EXCEPT !.edits = @ - 1] /\ case.edits > 0
<1>1. TypeOK /\ now < Latest
  BY DEF IInv, Create, Edits
<1>. QED
  BY <1>1, EditTyped DEF Create, Edits, Next1, Blank

(* Every action keeps the types.                                            *)
LEMMA TypesKept == IInv /\ [Next]_vars => TypeOK'
<1>. SUFFICES ASSUME IInv, [Next]_vars PROVE TypeOK'
  OBVIOUS
<1>. DEFINE MemOK == /\ mem \in [Stores -> Memories]
                     /\ \A s \in Stores : mem[s].at = "gone" => mem[s] = Gone
            DiskOK == /\ index \in Indexes /\ tracker \in {"absent", "ready", "conflicted"}
                      /\ file \in [Tasks -> Contents \cup {NoFile}]
            StampsOK == seen \subseteq Stores /\ fresh \in [Tasks -> SUBSET Stores]
            CountsOK == /\ now \in Stamps /\ case \in Bounds
                        /\ told \subseteq Tasks \X Entries \X {"entry", "text"}
                        /\ deleted \subseteq Tasks /\ spoilt \subseteq Tasks
<1>1. TypeOK /\ MemOK /\ DiskOK /\ StampsOK /\ CountsOK
  BY DEF IInv, TypeOK
<1>2. MemOK' /\ DiskOK' /\ StampsOK' /\ CountsOK' => TypeOK'
  BY DEF TypeOK
<1>3. ASSUME UNCHANGED vars PROVE TypeOK'
  BY <1>1, <1>2, <1>3 DEF vars
<1>4. ASSUME NEW s \in Stores, Becomes(s) PROVE MemOK'
  BY <1>4 DEF Becomes
<1>5. ASSUME NEW s \in Stores, SeesIndex(s) PROVE seen' \subseteq Stores
  BY <1>1, <1>5 DEF SeesIndex
<1>6. ASSUME NEW s \in Stores, Forgets(s) PROVE StampsOK'
  BY <1>1, <1>6 DEF Forgets
<1>7. \A x \in Nat : x > 0 => x - 1 \in Nat
  OBVIOUS
<1>. HIDE DEF MemOK, DiskOK, StampsOK, CountsOK
<1>8. ASSUME NEW s \in Stores, Open(s) PROVE TypeOK'
  <2>1. MemOK'
    BY <1>1, <1>4, <1>8, OpenMem
  <2>. QED
    BY <1>1, <1>2, <1>5, <1>8, <2>1
    DEF Open, DiskOK, StampsOK, CountsOK, diskVars, history
<1>9. ASSUME NEW s \in Stores, Crash(s) PROVE TypeOK'
  <2>1. MemOK'
    BY <1>1, <1>4, <1>9, GoneMem DEF Crash
  <2>2. case' \in Bounds
    BY <1>1, <1>7, <1>9 DEF Crash, Bounds, CountsOK
  <2>. QED
    BY <1>1, <1>2, <1>6, <1>9, <2>1, <2>2
    DEF Crash, DiskOK, CountsOK, diskVars, history
<1>10. ASSUME NEW s \in Stores, Close(s) PROVE TypeOK'
  <2>1. MemOK'
    BY <1>1, <1>4, <1>10, FlushMem DEF Close
  <2>2. case' \in Bounds
    BY <1>1, <1>7, <1>10 DEF Close, Bounds, CountsOK
  <2>3. StampsOK'
    BY <1>1, <1>5, <1>6, <1>10 DEF Close, StampsOK
  <2>. QED
    BY <1>1, <1>2, <1>10, <2>1, <2>2, <2>3 DEF Close, DiskOK, CountsOK, diskVars, history
<1>11. ASSUME NEW s \in Stores, Refresh(s) PROVE TypeOK'
  <2>1. MemOK'
    BY <1>1, <1>4, <1>11, RefreshMem
  <2>. QED
    BY <1>1, <1>2, <1>5, <1>11, <2>1
    DEF Refresh, DiskOK, StampsOK, CountsOK, diskVars, history
<1>12. ASSUME NEW s \in Stores, Reload(s) PROVE TypeOK'
  <2>1. MemOK'
    BY <1>1, <1>4, <1>12, ReloadMem
  <2>. QED
    BY <1>1, <1>2, <1>5, <1>12, <2>1
    DEF Reload, DiskOK, StampsOK, CountsOK, diskVars, history
<1>13. ASSUME NEW s \in Stores, Flush(s) PROVE TypeOK'
  <2>1. MemOK'
    BY <1>1, <1>4, <1>13, FlushMem DEF Flush
  <2>. QED
    BY <1>1, <1>2, <1>5, <1>13, <2>1
    DEF Flush, DiskOK, StampsOK, CountsOK, diskVars, history
<1>14. ASSUME NEW s \in Stores, RemoveDirs(s) PROVE TypeOK'
  <2>1. MemOK'
    BY <1>1, <1>4, <1>14, RemoveDirsMem
  <2>. QED
    BY <1>1, <1>2, <1>14, <2>1
    DEF RemoveDirs, DiskOK, StampsOK, CountsOK, history
<1>15. ASSUME NEW s \in Stores, WriteIndex(s) PROVE TypeOK'
  <2>1. MemOK'
    BY <1>1, <1>4, <1>15, EndsMem DEF WriteIndex
  <2>2. index' \in Indexes
    BY <1>1, <1>15, MemTyped DEF WriteIndex
  <2>3. StampsOK'
    BY <1>1, <1>15 DEF WriteIndex, StampsOK
  <2>. QED
    BY <1>1, <1>2, <1>15, <2>1, <2>2, <2>3 DEF WriteIndex, DiskOK, CountsOK, history
<1>16. ASSUME NEW s \in Stores, IndexFails(s) PROVE TypeOK'
  <2>1. MemOK'
    BY <1>1, <1>4, <1>16, EndsMem DEF IndexFails
  <2>2. case' \in Bounds
    BY <1>1, <1>7, <1>16 DEF IndexFails, Fails, Bounds, CountsOK
  <2>3. StampsOK'
    BY <1>1, <1>6, <1>16 DEF IndexFails, StampsOK, stampVars
  <2>. QED
    BY <1>1, <1>2, <1>16, <2>1, <2>2, <2>3 DEF IndexFails, DiskOK, CountsOK, diskVars, history
<1>17. ASSUME NEW s \in Stores, NEW t \in Tasks, WriteContent(s, t) PROVE TypeOK'
  <2>1. MemOK'
    BY <1>1, <1>4, <1>17, WriteContentMem
  <2>2. mem[s].held[t] \in Contents
    <3>1. t \in mem[s].todo
      BY <1>17 DEF WriteContent
    <3>2. mem[s].held[t] # Unread
      BY <3>1 DEF IInv, Kept, HeldOf, HeldBy, Owing, Loaded
    <3>. QED
      BY <1>1, <3>2, MemTyped
  <2>. QED
    BY <1>1, <1>2, <1>17, <2>1, <2>2 DEF WriteContent, DiskOK, StampsOK, CountsOK, history
<1>18. ASSUME NEW s \in Stores, NEW t \in Tasks, ContentFails(s, t) PROVE TypeOK'
  <2>1. MemOK'
    BY <1>1, <1>4, <1>18, ContentFailsMem
  <2>2. case' \in Bounds
    BY <1>1, <1>7, <1>18 DEF ContentFails, Fails, Bounds, CountsOK
  <2>. QED
    BY <1>1, <1>2, <1>18, <2>1, <2>2
    DEF ContentFails, DiskOK, StampsOK, CountsOK, diskVars, stampVars
<1>19. ASSUME NEW s \in Stores, NEW t \in Tasks, Get(s, t) PROVE TypeOK'
  <2>1. MemOK'
    BY <1>1, <1>4, <1>19, GetMem
  <2>. QED
    BY <1>1, <1>2, <1>19, <2>1 DEF Get, Loads, DiskOK, StampsOK, CountsOK, diskVars, history
<1>20. ASSUME case' = [case EXCEPT !.edits = @ - 1], case.edits > 0 PROVE case' \in Bounds
  BY <1>1, <1>7, <1>20 DEF Bounds, CountsOK
<1>21. ASSUME NEW s \in Stores, NEW t \in Tasks, NEW row \in Rows, NEW content \in Contents,
              mem[s].at = "idle", Put(s, t, row, content)
       PROVE  MemOK' /\ DiskOK' /\ StampsOK'
  <2>1. MemOK'
    BY <1>1, <1>4, <1>21, PutMem
  <2>2. index' = index /\ file' = file /\ tracker' = tracker /\ seen' = seen
        /\ fresh' \in {fresh, [fresh EXCEPT ![t] = @ \cup {s}]}
    BY <1>1, <1>21, PutMem
  <2>3. StampsOK'
    BY <1>1, <2>2 DEF StampsOK
  <2>. QED
    BY <1>1, <2>1, <2>2, <2>3 DEF DiskOK
<1>22. ASSUME NEW s \in Stores, NEW t \in Tasks, EditStep(s, t) PROVE TypeOK'
  <2>1. CASE \E body \in {0, Next1} : Create(s, t, body)
    <3>1. PICK body \in {0, Next1} : Create(s, t, body)
      BY <2>1
    <3>. DEFINE row == [made |-> Next1, at |-> Next1, set |-> Next1, link |-> 0, linked |-> FALSE]
                content == [Blank EXCEPT !.body = body]
    <3>2. Put(s, t, row, content) /\ row \in Rows /\ content \in Contents /\ mem[s].at = "idle"
          /\ now' \in Stamps /\ Next1 \in Entries
          /\ case' = [case EXCEPT !.edits = @ - 1] /\ case.edits > 0
      BY <3>1, CreateShape
    <3>. HIDE DEF row, content
    <3>3. CountsOK'
      BY <1>1, <1>20, <3>1, <3>2 DEF Create, CountsOK
    <3>. QED
      BY <1>2, <1>21, <3>2, <3>3
  <2>2. CASE \E row \in Rows, content \in Contents : Edited(s, t, row, content)
    <3>1. PICK row \in Rows, content \in Contents : Edited(s, t, row, content)
      BY <2>2
    <3>2. CountsOK'
      BY <1>1, <1>20, <3>1 DEF Edited, CountsOK
    <3>. QED
      BY <1>2, <1>21, <3>1, <3>2 DEF Edited
  <2>3. CASE Delete(s, t)
    <3>1. MemOK'
      BY <1>1, <1>4, <2>3, DeleteMem
    <3>2. now' \in Stamps /\ case' \in Bounds
      BY <1>1, <1>20, <2>3, EditTyped DEF Delete, Edits
    <3>. QED
      BY <1>1, <1>2, <2>3, <3>1, <3>2 DEF Delete, DiskOK, StampsOK, CountsOK, diskVars
  <2>. QED
    BY <1>22, <2>1, <2>2, <2>3, EditShape
<1>23. ASSUME Conflicts \/ Resolves PROVE TypeOK'
  <2>1. case' \in Bounds
    BY <1>1, <1>7, <1>23 DEF Conflicts, Resolves, Bounds, CountsOK
  <2>. QED
    BY <1>1, <1>2, <1>23, <2>1
    DEF Conflicts, Resolves, MemOK, DiskOK, StampsOK, CountsOK, history
<1>. QED
  BY <1>3, <1>8, <1>9, <1>10, <1>11, <1>12, <1>13, <1>14, <1>15, <1>16, <1>17, <1>18, <1>19,
     <1>22, <1>23 DEF Next, FlushStep

-----------------------------------------------------------------------------
(* Merging keeps the invariant                                              *)

Merged(mine, theirs) == IF theirs = NoRow THEN mine
                        ELSE IF mine = NoRow THEN theirs ELSE MergeRow(mine, theirs)

(* n holds of t what m holds, but for the row.                              *)
SameBut(m, n, t) ==
    /\ n.held[t] = m.held[t] /\ (Busy(n) => Busy(m))
    /\ (t \in n.dirty <=> t \in m.dirty) /\ (t \in n.todo <=> t \in m.todo)
    /\ (t \in n.removed => t \in m.removed)

(* A row whose edge and whose beginning are those of q or of i.              *)
RowFrom(r, q, i) == r # NoRow =>
    /\ \/ r.link = q.link /\ r.linked = q.linked
       \/ r.link = i.link /\ r.linked = i.linked
    /\ \/ q # NoRow /\ r.made = q.made
       \/ i # NoRow /\ r.made = i.made

(* merge_row of two rows the past allows is one the past allows.            *)
LEMMA RowMergedOK ==
  ASSUME NEW t, NEW mine \in Rows, NEW theirs \in Rows, RowOK(t, mine), RowOK(t, theirs)
  PROVE  RowOK(t, MergeRow(mine, theirs))
<1>. DEFINE q == MergeRow(mine, theirs)
<1>1. q \in Rows
      /\ q.made \in {mine.made, theirs.made} /\ q.made <= mine.made /\ q.made <= theirs.made
      /\ q.at \in {mine.at, theirs.at, mine.link, theirs.link}
      /\ q.at >= mine.at /\ q.at >= theirs.at
      /\ q.link \in {mine.link, theirs.link}
  BY RowMerged
<1>2. mine # NoRow /\ theirs # NoRow
  BY ConstantsTyped
<1>3. mine.made \in Nat /\ mine.at \in Nat /\ theirs.made \in Nat /\ theirs.at \in Nat
      /\ q.made \in Nat /\ q.at \in Nat
  BY <1>1, RowTyped
<1>. HIDE DEF q
<1>4. RowPast(q, now)
  <2>1. mine.made <= mine.at /\ mine.at <= now /\ mine.link <= now
        /\ theirs.at <= now /\ theirs.link <= now
    BY <1>2 DEF RowOK, RowPast
  <2>2. q.made <= q.at
    BY <1>1, <1>3, <2>1
  <2>. QED
    BY <1>1, <2>1, <2>2 DEF RowPast
<1>5. ToldOf(t, q, told)
  <2>1. \A e \in Entries : q.made >= e \/ ~(mine.made >= e) \/ ~(theirs.made >= e)
    BY <1>1
  <2>. QED
    BY <1>1, <1>2, <2>1 DEF RowOK, ToldOf
<1>. QED
  BY <1>4, <1>5 DEF RowOK, q

(* A memory that merged the index with a row agrees with the disk as before.*)
LEMMA MergedHeld ==
  ASSUME IInv, NEW s \in Stores, NEW t \in Tasks, NEW m \in Memories, NEW n \in Memories,
         HeldBy(s, m, t), SameBut(m, n, t), n.rows[t] = Merged(m.rows[t], index[t])
  PROVE  /\ HeldBy(s, n, t) /\ RowFrom(n.rows[t], m.rows[t], index[t])
         /\ m.rows[t].link <= n.rows[t].link /\ index[t].link <= n.rows[t].link
         /\ Spared(t) /\ m.rows[t] # NoRow => n.rows[t].made = m.rows[t].made
<1>. DEFINE r == m.rows[t]
            i == index[t]
            q == n.rows[t]
<1>1. r \in Rows \cup {NoRow} /\ i \in Rows \cup {NoRow}
  BY DiskTyped DEF IInv, Memories, Indexes
<1>2. RowOK(t, r) /\ RowOK(t, i) /\ SameEdge(r, i) /\ (Spared(t) => SameRow(r, i)) /\ DiskOf(t)
  BY DEF HeldBy, IInv, Kept, DiskOf
<1>3. NoRow.link = -1 /\ \A x \in Rows : x.link \in Nat /\ x # NoRow
  BY RowTyped, ConstantsTyped DEF NoRow
<1>4. CASE i = NoRow
  <2>1. q = r
    BY <1>4 DEF Merged
  <2>2. i.link <= r.link /\ r.link <= r.link
    BY <1>1, <1>3, <1>4
  <2>3. HeldBy(s, n, t)
    BY <2>1 DEF HeldBy, SameBut, Loaded, Busy, Owing, AboveDisk, Told, OnFile
  <2>. QED
    BY <2>1, <2>2, <2>3 DEF RowFrom
<1>5. CASE i # NoRow /\ r = NoRow
  <2>1. q = i
    BY <1>5 DEF Merged
  <2>2. r.link <= i.link /\ i.link <= i.link
    BY <1>1, <1>3, <1>5
  <2>3. ~Loaded(m, t) /\ ~Loaded(n, t)
    BY <1>5 DEF HeldBy, SameBut, Loaded
  <2>4. HeldBy(s, n, t)
    <3>1. Sound(t) => Told(n, t)
      BY <1>2, <1>5, <2>1, <2>3 DEF DiskOf, Told
    <3>2. SameEdge(q, i) /\ SameRow(q, i)
      BY <2>1 DEF SameEdge, SameRow
    <3>. QED
      BY <1>2, <2>1, <2>3, <3>1, <3>2 DEF HeldBy, SameBut, Loaded, Busy, Owing
  <2>. QED
    BY <1>5, <2>1, <2>2, <2>4 DEF RowFrom
<1>6. CASE i # NoRow /\ r # NoRow
  <2>1. q = MergeRow(r, i) /\ r \in Rows /\ i \in Rows
    BY <1>1, <1>6 DEF Merged
  <2>2. /\ q \in Rows /\ q.made \in {r.made, i.made} /\ q.at \in {r.at, i.at, r.link, i.link}
        /\ r.link <= q.link /\ i.link <= q.link
        /\ \/ q.link = r.link /\ q.linked = r.linked
           \/ q.link = i.link /\ q.linked = i.linked
    BY <2>1, RowMerged
  <2>3. RowOK(t, q)
    BY <1>2, <2>1, RowMergedOK
  <2>4. SameEdge(q, i)
    BY <1>2, <2>2 DEF SameEdge
  <2>5. Spared(t) => q.made = r.made /\ SameRow(q, i)
    BY <1>2, <1>6, <2>2 DEF SameRow
  <2>6. Sound(t) => Told(n, t)
    <3>. SUFFICES ASSUME Sound(t), NEW e \in Entries
                  PROVE  /\ EntryTold(t, e) /\ q.at = e =>
                              \/ Loaded(n, t) /\ n.held[t].log[e].ed > 0
                              \/ file[t].log[e].ed > 0
                         /\ TextTold(t, e) /\ q.made = e =>
                              IF Loaded(n, t) THEN n.held[t].body >= e ELSE file[t].body >= e
      BY DEF Told
    <3>1. Told(m, t)
      BY <1>6 DEF HeldBy
    <3>2. EntryTold(t, e) => r.link # e /\ i.link # e
      BY <1>2, <1>6 DEF RowOK, ToldOf, EntryTold
    <3>3. Spared(t)
      BY DEF Sound, Spared
    <3>. QED
      BY <1>2, <1>6, <2>2, <2>5, <3>1, <3>2, <3>3 DEF Told, DiskOf, SameBut, Loaded
  <2>7. HeldBy(s, n, t)
    <3>1. Sound(t) => Spared(t)
      BY DEF Sound, Spared
    <3>2. Spared(t) => (AboveDisk(m, t) <=> AboveDisk(n, t)) /\ (OnFile(m, t) <=> OnFile(n, t))
      BY <2>5 DEF AboveDisk, OnFile, SameBut
    <3>3. (Loaded(m, t) <=> Loaded(n, t)) /\ (Owing(m, t) <=> Owing(n, t)) /\ (Busy(n) => Busy(m))
          /\ n.held[t] = m.held[t] /\ (t \in n.todo <=> t \in m.todo)
          /\ (t \in n.dirty <=> t \in m.dirty) /\ (t \in n.removed => t \in m.removed)
      BY DEF SameBut, Loaded, Owing, Busy
    <3>4. q # NoRow
      BY <1>3, <2>2
    <3>. QED
      BY <1>6, <2>3, <2>4, <2>5, <2>6, <3>1, <3>2, <3>3, <3>4 DEF HeldBy
  <2>. QED
    BY <1>6, <2>2, <2>5, <2>7 DEF RowFrom
<1>. QED
  BY <1>4, <1>5, <1>6

(* A task without a row has no edge to lose.                                *)
LEMMA NoRowHasNoEdge ==
  ASSUME NEW r \in Rows \cup {NoRow}
  PROVE  /\ SameEdge(NoRow, r) /\ SameEdge(r, NoRow) /\ NoRow.link <= r.link
         /\ r.link \in Int
<1>1. NoRow.link = -1 /\ \A x \in Rows : x.link \in Nat
  BY RowTyped DEF NoRow
<1>. QED
  BY <1>1 DEF SameEdge

(* Another store's copy is still one of the same row.                       *)
LEMMA TwinsFrom ==
  ASSUME IInv, NEW s \in Stores, NEW x \in Stores, NEW t \in Tasks,
         NEW r \in Rows \cup {NoRow}, RowFrom(r, mem[s].rows[t], index[t])
  PROVE  SameEdge(r, mem[x].rows[t]) /\ (Spared(t) => SameRow(r, mem[x].rows[t]))
<1>1. TwinsOf(s, x, t) /\ HeldOf(x, t)
  BY DEF IInv, Kept
<1>2. SameEdge(mem[x].rows[t], index[t]) /\ (Spared(t) => SameRow(mem[x].rows[t], index[t]))
  BY <1>1 DEF HeldOf, HeldBy
<1>3. SameEdge(mem[s].rows[t], mem[x].rows[t])
      /\ (Spared(t) => SameRow(mem[s].rows[t], mem[x].rows[t]))
  BY <1>1 DEF TwinsOf
<1>4. CASE r # NoRow
  <2>1. SameEdge(r, mem[x].rows[t])
    BY <1>2, <1>3, <1>4 DEF RowFrom, SameEdge
  <2>2. Spared(t) => SameRow(r, mem[x].rows[t])
    BY <1>2, <1>3, <1>4 DEF RowFrom, SameRow
  <2>. QED
    BY <2>1, <2>2
<1>5. CASE r = NoRow
  <2>1. mem[x].rows[t] \in Rows \cup {NoRow}
    BY MemTyped DEF IInv
  <2>. QED
    BY <1>5, <2>1, NoRowHasNoEdge DEF SameRow
<1>. QED
  BY <1>4, <1>5

(* Taking what moved in the content files keeps the invariant, and what is   *)
(* to be written is then no older than its file.                            *)
LEMMA ContentHeld ==
  ASSUME IInv, NEW s \in Stores, mem[s].at = "idle", NEW t \in Tasks
  PROVE  LET m == ContentTaken(s) IN
         /\ HeldBy(s, m, t)
         /\ m.rows[t] = NoRow <=> mem[s].rows[t] = NoRow
         /\ m.rows[t].link = mem[s].rows[t].link /\ m.rows[t].linked = mem[s].rows[t].linked
         /\ m.rows[t].made = mem[s].rows[t].made
         /\ Spared(t) /\ t \in m.dirty => AboveDisk(m, t)
<1>. DEFINE m == ContentTaken(s)
            r == mem[s].rows[t]
            c == mem[s].held[t]
<1>1. TypeOK /\ HeldBy(s, mem[s], t) /\ DiskOf(t) /\ mem[s].todo = {} /\ now \in Nat
  BY ConstantsTyped DEF IInv, TypeOK, Kept, HeldOf, OneFlush
<1>2. /\ m \in Memories
      /\ m.at = mem[s].at /\ m.dirty = mem[s].dirty /\ m.removed = mem[s].removed
      /\ m.todo = mem[s].todo
      /\ m.held[t] = IF t \in Moved(s) THEN MergeContent(c, file[t]) ELSE c
      /\ m.rows[t] = IF t \in Moved(s) /\ r # NoRow THEN Raised(r, m.held[t].log) ELSE r
  BY <1>1, ContentTakenIs
<1>. HIDE DEF m
<1>3. CASE t \notin Moved(s)
  <2>1. m.rows[t] = r /\ m.held[t] = c
    BY <1>2, <1>3
  <2>2. HeldBy(s, m, t)
    BY <1>1, <1>2, <2>1 DEF HeldBy, Loaded, Busy, Owing, AboveDisk, Told, OnFile
  <2>3. ASSUME Spared(t), t \in m.dirty PROVE AboveDisk(m, t)
    <3>1. Loaded(mem[s], t) /\ t \in mem[s].dirty
      BY <1>1, <1>2, <2>3 DEF HeldBy, Owing
    <3>2. CASE s \in fresh[t]
      BY <2>2, <2>3, <2>1, <3>1, <3>2 DEF HeldBy, Loaded
    <3>3. CASE s \notin fresh[t]
      <4>1. file[t] = NoFile
        BY <1>3, <3>1, <3>3 DEF Moved, Loaded
      <4>2. \A e \in Entries : file[t].log[e] = NoEntry
        BY <4>1 DEF NoFile, NoLog
      <4>3. c \in Contents
        BY <1>1, <3>1, MemTyped DEF Loaded
      <4>4. \A e \in Entries : c.log[e].ed \in Nat
        BY <4>3, EntryTyped DEF Contents, Logs, LogEntries
      <4>. QED
        BY <2>1, <4>2, <4>4 DEF AboveDisk, Above, NotOlder, NoEntry
    <3>. QED
      BY <3>2, <3>3
  <2>. QED
    BY <2>1, <2>2, <2>3 DEF m
<1>4. CASE t \in Moved(s)
  <2>1. t \in mem[s].dirty /\ c # Unread /\ file[t] # NoFile /\ s \notin fresh[t]
    BY <1>4 DEF Moved
  <2>2. c \in Contents /\ file[t] \in Contents /\ r # NoRow /\ r \in Rows
    BY <1>1, <2>1, MemTyped, DiskTyped DEF HeldBy, Loaded
  <2>3. ContentPast(c, now) /\ ContentPast(file[t], now)
    BY <1>1 DEF HeldBy, DiskOf
  <2>4. /\ m.held[t] \in Contents /\ ContentPast(m.held[t], now) /\ m.held[t].body = c.body
        /\ \A e \in Entries : /\ NotOlder(file[t].log[e], m.held[t].log[e])
                              /\ c.log[e].ed > 0 => m.held[t].log[e].ed > 0
    BY <1>1, <1>2, <1>4, <2>2, <2>3, ContentMerged
  <2>5. m.rows[t] = Raised(r, m.held[t].log) /\ m.held[t].log \in Logs
    BY <1>2, <1>4, <2>2, <2>4 DEF Contents
  <2>6. /\ m.rows[t] \in Rows /\ m.rows[t].at >= r.at /\ m.rows[t].made = r.made
        /\ m.rows[t].link = r.link /\ m.rows[t].linked = r.linked
        /\ m.rows[t].at = r.at \/ m.rows[t].at \in Written(m.held[t].log)
    BY <2>2, <2>5, RowRaised
  <2>7. m.rows[t] # NoRow /\ m.held[t] # Unread /\ r.made \in Nat /\ r.at \in Nat
        /\ m.rows[t].at \in Nat
    BY <2>2, <2>4, <2>6, ConstantsTyped, RowTyped
  <2>8. RowOK(t, m.rows[t])
    <3>1. r.made <= r.at /\ r.at <= now /\ r.link <= now /\ ToldOf(t, r, told)
      BY <1>1, <2>2 DEF HeldBy, RowOK, RowPast
    <3>2. m.rows[t].at <= now
      BY <2>4, <2>6, <3>1 DEF Written, ContentPast, LogPast
    <3>3. m.rows[t].made <= m.rows[t].at
      BY <2>6, <2>7, <3>1
    <3>. QED
      BY <2>2, <2>6, <3>1, <3>2, <3>3 DEF RowOK, RowPast, ToldOf
  <2>9. AboveDisk(m, t)
    BY <2>4 DEF AboveDisk, Above
  <2>10. Sound(t) => Told(m, t)
    <3>1. Sound(t) => Told(mem[s], t)
      BY <1>1, <2>2 DEF HeldBy
    <3>2. Loaded(m, t) /\ Loaded(mem[s], t)
      BY <2>1, <2>7 DEF Loaded
    <3>. QED
      BY <2>4, <2>6, <3>1, <3>2 DEF Told, Written
  <2>11. SameEdge(m.rows[t], index[t]) /\ (Spared(t) => SameRow(m.rows[t], index[t]))
    BY <1>1, <2>2, <2>6 DEF HeldBy, SameEdge, SameRow
  <2>12. HeldBy(s, m, t)
    BY <1>1, <1>2, <2>1, <2>4, <2>7, <2>8, <2>9, <2>10, <2>11 DEF HeldBy, Loaded, Owing, Busy
  <2>. QED
    BY <2>2, <2>6, <2>7, <2>9, <2>12 DEF m
<1>. QED
  BY <1>3, <1>4 DEF m

(* What reconcile leaves in memory                                           *)
LEMMA ReconciledHeld ==
  ASSUME IInv, NEW s \in Stores, mem[s].at = "idle", NEW t \in Tasks
  PROVE  LET m == Reconciled(s) IN
         /\ HeldBy(s, m, t)
         /\ RowFrom(m.rows[t], mem[s].rows[t], index[t])
         /\ mem[s].rows[t].link <= m.rows[t].link
         /\ ~UpToDate(s) /\ tracker = "ready" => index[t].link <= m.rows[t].link
         /\ Spared(t) /\ t \in m.dirty => AboveDisk(m, t)
<1>. DEFINE m == Reconciled(s)
            c == ContentTaken(s)
<1>1. TypeOK
  BY DEF IInv
<1>2. /\ HeldBy(s, c, t)
      /\ c.rows[t] = NoRow <=> mem[s].rows[t] = NoRow
      /\ c.rows[t].link = mem[s].rows[t].link /\ c.rows[t].linked = mem[s].rows[t].linked
      /\ c.rows[t].made = mem[s].rows[t].made
      /\ Spared(t) /\ t \in c.dirty => AboveDisk(c, t)
  BY ContentHeld
<1>3. c \in Memories /\ c.at = mem[s].at /\ c.dirty = mem[s].dirty /\ c.removed = mem[s].removed
      /\ c.todo = mem[s].todo
  BY <1>1, ContentTakenIs
<1>4. /\ m \in Memories
      /\ m.at = mem[s].at /\ m.dirty = mem[s].dirty /\ m.removed = mem[s].removed
      /\ m.todo = mem[s].todo /\ m.held = c.held
      /\ m.rows = IF ~UpToDate(s) /\ tracker = "ready" /\ index # c.rows
                    THEN MergeRows(c.rows, index) ELSE c.rows
  BY <1>1, ReconciledIs
<1>5. mem[s].rows[t] \in Rows \cup {NoRow} /\ index[t] \in Rows \cup {NoRow}
  BY <1>1, MemTyped, DiskTyped
<1>6. mem[s].rows[t].link <= mem[s].rows[t].link /\ index[t].link <= index[t].link
  BY <1>5, NoRowHasNoEdge
<1>. HIDE DEF m, c
<1>7. SameBut(c, m, t)
  BY <1>3, <1>4 DEF SameBut, Busy
<1>8. CASE ~UpToDate(s) /\ tracker = "ready" /\ index # c.rows
  <2>1. m.rows[t] = Merged(c.rows[t], index[t])
    BY <1>4, <1>8 DEF MergeRows, Merged
  <2>2. /\ HeldBy(s, m, t) /\ RowFrom(m.rows[t], c.rows[t], index[t])
        /\ c.rows[t].link <= m.rows[t].link /\ index[t].link <= m.rows[t].link
        /\ Spared(t) /\ c.rows[t] # NoRow => m.rows[t].made = c.rows[t].made
    BY <1>2, <1>3, <1>4, <1>7, <2>1, MergedHeld
  <2>3. ASSUME Spared(t), t \in m.dirty PROVE AboveDisk(m, t)
    <3>1. AboveDisk(c, t) /\ t \in c.dirty
      BY <1>2, <1>3, <1>4, <2>3
    <3>2. c.rows[t] # NoRow
      BY <1>2, <3>1 DEF HeldBy, Owing
    <3>. QED
      BY <1>4, <2>2, <2>3, <3>1, <3>2 DEF AboveDisk
  <2>4. RowFrom(m.rows[t], mem[s].rows[t], index[t])
    BY <1>2, <2>2 DEF RowFrom
  <2>. QED
    BY <1>2, <2>2, <2>3, <2>4 DEF m
<1>9. CASE ~(~UpToDate(s) /\ tracker = "ready" /\ index # c.rows)
  <2>1. m.rows = c.rows
    BY <1>4, <1>9
  <2>2. HeldBy(s, m, t) /\ (AboveDisk(c, t) <=> AboveDisk(m, t))
    BY <1>2, <1>3, <1>4, <2>1 DEF HeldBy, Loaded, Busy, Owing, AboveDisk, Told, OnFile
  <2>3. ~UpToDate(s) /\ tracker = "ready" => index = m.rows
    BY <1>9, <2>1
  <2>4. RowFrom(m.rows[t], mem[s].rows[t], index[t])
    BY <1>2, <2>1 DEF RowFrom
  <2>. QED
    BY <1>2, <1>3, <1>4, <1>6, <2>1, <2>2, <2>3, <2>4 DEF m
<1>. QED
  BY <1>8, <1>9

-----------------------------------------------------------------------------
(* What a step leaves alone                                                 *)

(* What is newly answered for is stamped now; a text is of a new task.       *)
TellsNow == \A t \in Tasks, e \in Entries :
    /\ EntryTold(t, e)' => EntryTold(t, e) \/ e > now
    /\ TextTold(t, e)' => \/ TextTold(t, e)
                          \/ /\ e > now /\ index[t] = NoRow
                             /\ \A x \in Stores : mem[x].rows[t] = NoRow

Later == now <= now' /\ deleted \subseteq deleted' /\ spoilt \subseteq spoilt' /\ TellsNow

(* A row stays of the past when time passes and no text is promised of it.  *)
LEMMA RowStays ==
  ASSUME IInv, TypeOK', Later, NEW t \in Tasks, NEW r \in Rows \cup {NoRow}, RowOK(t, r),
         \A e \in Entries : TextTold(t, e)' => TextTold(t, e) \/ r = NoRow
  PROVE  RowPast(r, now') /\ ToldOf(t, r, told')
<1>1. now \in Nat /\ now' \in Nat /\ now <= now'
  BY ConstantsTyped DEF IInv, TypeOK, Later
<1>2. CASE r = NoRow
  BY <1>2 DEF RowPast, ToldOf
<1>3. CASE r # NoRow
  <2>1. r.made \in Nat /\ r.at \in Nat /\ r.link \in Nat
    BY <1>3, RowTyped
  <2>2. r.made <= r.at /\ r.at <= now /\ r.link <= now /\ r.made <= now
    BY <1>1, <1>3, <2>1 DEF RowOK, RowPast
  <2>3. RowPast(r, now')
    BY <1>1, <2>1, <2>2 DEF RowPast
  <2>4. ASSUME NEW e \in Entries
        PROVE  /\ <<t, e, "entry">> \in told' => r.made # e /\ r.link # e
               /\ <<t, e, "text">> \in told' => r.made >= e /\ r.link # e
    <3>1. e \in Nat
      BY ConstantsTyped
    <3>2. e > now => r.made # e /\ r.link # e
      BY <1>1, <2>1, <2>2, <3>1
    <3>3. <<t, e, "entry">> \in told' => <<t, e, "entry">> \in told \/ e > now
      BY DEF Later, TellsNow, EntryTold
    <3>4. <<t, e, "text">> \in told' => <<t, e, "text">> \in told
      BY <1>3 DEF TextTold
    <3>. QED
      BY <1>3, <3>2, <3>3, <3>4 DEF RowOK, ToldOf
  <2>. QED
    BY <2>3, <2>4 DEF ToldOf
<1>. QED
  BY <1>2, <1>3

(* A content stays of the past when time passes.                            *)
LEMMA ContentStays ==
  ASSUME IInv, TypeOK', Later, NEW c \in Contents \cup {NoFile, Unread}, ContentPast(c, now)
  PROVE  ContentPast(c, now')
<1>1. now \in Nat /\ now' \in Nat /\ now <= now'
  BY ConstantsTyped DEF IInv, TypeOK, Later
<1>2. c.body \in Int /\ c.log \in [Entries -> LogEntries]
  <2>1. \A x \in Contents : x.body \in Int /\ x.log \in [Entries -> LogEntries]
    <3>1. Stamps \subseteq Int
      BY ConstantsTyped
    <3>. QED
      BY <3>1 DEF Contents, Logs, LogEntries
  <2>2. NoLog \in [Entries -> LogEntries]
    BY ConstantsTyped DEF Logs, LogEntries
  <2>. QED
    BY <2>1, <2>2 DEF NoFile, Unread
<1>3. \A e \in Entries : c.log[e].ed \in Nat /\ e \in Nat
  BY <1>2, EntryTyped, ConstantsTyped
<1>. QED
  BY <1>1, <1>2, <1>3 DEF ContentPast, LogPast

(* A memory the step leaves in x keeps the invariant, if the disk stays.     *)
LEMMA HeldStays ==
  ASSUME IInv, TypeOK', Later, NEW x \in Stores, NEW t \in Tasks, NEW m \in Memories,
         HeldBy(x, m, t), SameBut(m, mem'[x], t), mem'[x].rows[t] = m.rows[t],
         index'[t] = index[t], file'[t] = file[t], x \in fresh'[t] => x \in fresh[t],
         \A e \in Entries : TextTold(t, e)' => TextTold(t, e) \/ m.rows[t] = NoRow
  PROVE  HeldOf(x, t)'
<1>. DEFINE n == mem'[x]
            r == m.rows[t]
<1>1. now \in Nat /\ now' \in Nat /\ now <= now'
  BY ConstantsTyped DEF IInv, TypeOK, Later
<1>2. r \in Rows \cup {NoRow} /\ m.held[t] \in Contents \cup {Unread}
  BY DEF Memories, Indexes
<1>3. RowPast(r, now') /\ ToldOf(t, r, told')
  BY <1>2, RowStays DEF HeldBy
<1>4. ContentPast(m.held[t], now')
  BY <1>2, ContentStays DEF HeldBy
<1>5. (Spared(t)' => Spared(t)) /\ (Sound(t)' => Sound(t)) /\ (t \in spoilt => t \in spoilt')
  BY DEF Spared, Sound, Later
<1>6. ASSUME Sound(t), r # NoRow, NEW e \in Entries
      PROVE  /\ EntryTold(t, e)' /\ r.at = e => EntryTold(t, e)
             /\ TextTold(t, e)' => TextTold(t, e)
  <2>1. r.at \in Nat /\ e \in Nat /\ r.at <= now
    BY <1>2, <1>6, RowTyped, ConstantsTyped DEF HeldBy, RowOK, RowPast
  <2>2. ~(r.at = e /\ e > now)
    BY <1>1, <2>1
  <2>. QED
    BY <1>6, <2>2 DEF Later, TellsNow
<1>. QED
  BY <1>3, <1>4, <1>5, <1>6
  DEF HeldOf, HeldBy, RowOK, SameBut, Loaded, Busy, Owing, AboveDisk, Told, OnFile

(* The disk of a task nothing was written of.                               *)
LEMMA DiskStays ==
  ASSUME IInv, TypeOK', Later, NEW t \in Tasks, index'[t] = index[t], file'[t] = file[t]
  PROVE  DiskOf(t)'
<1>1. now \in Nat /\ now' \in Nat /\ now <= now'
  BY ConstantsTyped DEF IInv, TypeOK, Later
<1>2. index[t] \in Rows \cup {NoRow} /\ file[t] \in Contents \cup {NoFile} /\ DiskOf(t)
  BY DiskTyped DEF IInv, Kept
<1>3. \A e \in Entries : TextTold(t, e)' => TextTold(t, e) \/ index[t] = NoRow
  BY DEF Later, TellsNow
<1>4. RowPast(index[t], now') /\ ToldOf(t, index[t], told')
  BY <1>2, <1>3, RowStays DEF DiskOf
<1>5. ContentPast(file[t], now')
  BY <1>2, ContentStays DEF DiskOf
<1>6. ASSUME index[t] # NoRow, NEW e \in Entries
      PROVE  EntryTold(t, e)' /\ index[t].at = e => EntryTold(t, e)
  <2>1. index[t].at \in Nat /\ e \in Nat /\ index[t].at <= now
    BY <1>2, <1>6, RowTyped, ConstantsTyped DEF DiskOf, RowOK, RowPast
  <2>2. ~(index[t].at = e /\ e > now)
    BY <1>1, <2>1
  <2>. QED
    BY <2>2 DEF Later, TellsNow
<1>. QED
  BY <1>2, <1>3, <1>4, <1>5, <1>6 DEF DiskOf, RowOK, Sound, Later

(* The memory of another store than the one that moved.                     *)
LEMMA HeldOfOther ==
  ASSUME IInv, TypeOK', Later, NEW x \in Stores, NEW t \in Tasks, mem'[x] = mem[x],
         index'[t] = index[t], file'[t] = file[t], x \in fresh'[t] => x \in fresh[t]
  PROVE  HeldOf(x, t)'
<1>1. mem[x] \in Memories /\ HeldBy(x, mem[x], t)
  BY MemTyped DEF IInv, Kept, HeldOf
<1>2. SameBut(mem[x], mem'[x], t)
  BY DEF SameBut
<1>3. \A e \in Entries : TextTold(t, e)' => TextTold(t, e) \/ mem[x].rows[t] = NoRow
  BY DEF Later, TellsNow
<1>. QED
  BY <1>1, <1>2, <1>3, HeldStays

(* The row a store holds after a step, against what another one holds        *)
Fits(r, x, t) == SameEdge(r, mem[x].rows[t]) /\ (Spared(t) => SameRow(r, mem[x].rows[t]))

(* A step in one store that leaves the disk alone                            *)
LEMMA StepKeeps ==
  ASSUME IInv, TypeOK', Later, NEW s \in Stores, Becomes(s), index' = index, file' = file,
         seen' \subseteq seen \cup {s}, \A t \in Tasks : fresh'[t] \subseteq fresh[t] \cup {s},
         \A t \in Tasks : HeldOf(s, t)' /\ Linked(s, t)',
         \A t \in Tasks, x \in Stores \ {s} : Fits(mem'[s].rows[t], x, t)
  PROVE  Kept'
<1>1. \A t \in Tasks : DiskOf(t)'
  BY DiskStays
<1>2. \A x \in Stores \ {s} : mem'[x] = mem[x]
  BY DEF Becomes
<1>3. \A x \in Stores \ {s}, t \in Tasks : HeldOf(x, t)'
  BY <1>2, HeldOfOther
<1>4. \A t \in Tasks : Spared(t)' => Spared(t)
  BY DEF Spared, Later
<1>5. ASSUME NEW x \in Stores \ {s}, NEW t \in Tasks PROVE Linked(x, t)'
  <2>1. Linked(x, t)
    BY DEF IInv, Kept
  <2>. QED
    BY <1>2, <1>4, <2>1 DEF Linked
<1>6. ASSUME NEW x \in Stores, NEW y \in Stores, NEW t \in Tasks PROVE TwinsOf(x, y, t)'
  <2>1. CASE x = y
    BY <2>1 DEF TwinsOf, SameEdge, SameRow
  <2>2. CASE x = s /\ y # s
    BY <1>2, <1>4, <2>2 DEF TwinsOf, Fits
  <2>3. CASE x # s /\ y = s
    BY <1>2, <1>4, <2>3 DEF TwinsOf, Fits, SameEdge, SameRow
  <2>4. CASE x # s /\ y # s
    <3>1. TwinsOf(x, y, t)
      BY DEF IInv, Kept
    <3>. QED
      BY <1>2, <1>4, <2>4, <3>1 DEF TwinsOf
  <2>. QED
    BY <2>1, <2>2, <2>3, <2>4
<1>. QED
  BY <1>1, <1>3, <1>5, <1>6 DEF Kept

(* A row that comes from two old ones fits every other store's copy.        *)
LEMMA TwinsAreFrom ==
  ASSUME IInv, TypeOK', NEW s \in Stores, NEW t \in Tasks,
         RowFrom(mem'[s].rows[t], mem[s].rows[t], index[t])
  PROVE  \A x \in Stores : Fits(mem'[s].rows[t], x, t)
<1>1. mem'[s].rows[t] \in Rows \cup {NoRow}
  BY DEF TypeOK, Memories, Indexes
<1>. QED
  BY <1>1, TwinsFrom DEF Fits

(* Nothing else than memory moves.                                          *)
LEMMA LaterIfStill ==
  ASSUME IInv, UNCHANGED <<now, told, deleted>>, spoilt \subseteq spoilt'
  PROVE  Later /\ ToldPast' /\ \A t \in Tasks, e \in Entries : TextTold(t, e)' => TextTold(t, e)
<1>1. now \in Nat
  BY ConstantsTyped DEF IInv, TypeOK
<1>. QED
  BY <1>1 DEF Later, TellsNow, EntryTold, TextTold, IInv, ToldPast

(* A memory that holds nothing agrees with any disk.                        *)
LEMMA GoneHeld ==
  ASSUME NEW s, NEW t \in Tasks, now \in Nat, index[t] \in Rows \cup {NoRow}
  PROVE  HeldBy(s, Gone, t)
<1>1. Gone.rows[t] = NoRow /\ Gone.held[t] = Unread /\ Gone.dirty = {} /\ Gone.todo = {}
      /\ Gone.removed = {} /\ Gone.at = "gone"
  BY DEF Gone, NoRows
<1>2. ContentPast(Unread, now)
  BY DEF ContentPast, LogPast, Unread, NoLog, NoEntry, Entries
<1>. QED
  BY <1>1, <1>2, NoRowHasNoEdge
  DEF HeldBy, Loaded, Owing, Busy, RowOK, RowPast, ToldOf, SameRow

(* A store that is gone                                                      *)
LEMMA GoneKeeps ==
  ASSUME IInv, TypeOK', NEW s \in Stores, Becomes(s), mem'[s] = Gone,
         UNCHANGED <<index, file, now, told, deleted>>, spoilt \subseteq spoilt',
         seen' = seen \ {s}, \A t \in Tasks : fresh'[t] \subseteq fresh[t]
  PROVE  Kept' /\ ToldPast'
<1>1. Later /\ ToldPast' /\ \A t \in Tasks, e \in Entries : TextTold(t, e)' => TextTold(t, e)
  BY LaterIfStill
<1>2. now \in Nat /\ \A t \in Tasks : index[t] \in Rows \cup {NoRow}
  BY ConstantsTyped, DiskTyped DEF IInv, TypeOK
<1>3. ASSUME NEW t \in Tasks PROVE HeldOf(s, t)' /\ Linked(s, t)'
  <2>1. HeldBy(s, Gone, t) /\ SameBut(Gone, mem'[s], t)
    BY <1>2, GoneHeld DEF SameBut
  <2>2. HeldOf(s, t)'
    BY <1>1, <2>1, GoneTyped, HeldStays
  <2>. QED
    BY <2>2 DEF Linked, Busy, Gone
<1>4. ASSUME NEW t \in Tasks PROVE \A x \in Stores : Fits(mem'[s].rows[t], x, t)
  <2>1. mem'[s].rows[t] = NoRow
    BY DEF Gone, NoRows
  <2>. QED
    BY <2>1, TwinsAreFrom DEF RowFrom
<1>. QED
  BY <1>1, <1>3, <1>4, StepKeeps

(* A step that begins no flush leaves one flush at a time.                  *)
LEMMA OneFlushStays ==
  ASSUME IInv, NEW s \in Stores, Becomes(s), Busy(mem'[s]) => Busy(mem[s]),
         mem'[s].at # "contents" => mem'[s].todo = {},
         tracker' = tracker, index' = index, seen' # {} => tracker = "ready"
  PROVE  OneFlush'
<1>1. OneFlush /\ \A x \in Stores \ {s} : mem'[x] = mem[x]
  BY DEF IInv, Becomes
<1>2. \A x \in Stores : Busy(mem'[x]) => Busy(mem[x])
  BY <1>1
<1>. QED
  BY <1>1, <1>2 DEF OneFlush

(* Only an index that can be read is ever one a store has seen.             *)
LEMMA SeesReady ==
  ASSUME IInv, NEW s \in Stores, SeesIndex(s) \/ seen' \subseteq seen
  PROVE  /\ seen' # {} => tracker = "ready"
         /\ seen' \subseteq seen \cup {s}
         /\ s \in seen' => tracker = "ready"
  BY DEF SeesIndex, IInv, OneFlush

(* What a flush begins with                                                  *)
LEMMA BegunHeld ==
  ASSUME IInv, NEW s \in Stores, NEW closes \in BOOLEAN, mem[s].at = "idle", NEW t \in Tasks
  PROVE  LET m == Begun(s, closes) IN
         /\ HeldBy(s, m, t)
         /\ RowFrom(m.rows[t], mem[s].rows[t], index[t])
         /\ Busy(m) => index[t].link <= m.rows[t].link \/ ~Spared(t)
         /\ m # Gone /\ tracker = "ready" => index[t].link <= m.rows[t].link \/ ~Spared(t)
         /\ Busy(m) => tracker # "conflicted"
<1>. DEFINE m == Begun(s, closes)
            r == Reconciled(s)
<1>1. TypeOK /\ now \in Nat /\ index[t] \in Rows \cup {NoRow} /\ mem[s].rows[t] \in Rows \cup {NoRow}
  BY ConstantsTyped, DiskTyped, MemTyped DEF IInv, TypeOK
<1>2. /\ m \in Memories
      /\ \/ m = Gone
         \/ /\ m.rows = r.rows /\ m.held = r.held /\ m.removed = mem[s].removed
            /\ \/ m.at = "idle" /\ m.dirty = mem[s].dirty /\ m.todo = mem[s].todo
               \/ /\ m.at = "contents" /\ m.dirty = {} /\ m.todo = mem[s].dirty
                  /\ r.state # "Unreadable"
  BY <1>1, BegunIs
<1>3. /\ HeldBy(s, r, t) /\ RowFrom(r.rows[t], mem[s].rows[t], index[t])
      /\ mem[s].rows[t].link <= r.rows[t].link
      /\ ~UpToDate(s) /\ tracker = "ready" => index[t].link <= r.rows[t].link
      /\ Spared(t) /\ t \in r.dirty => AboveDisk(r, t)
  BY ReconciledHeld
<1>4. r \in Memories /\ r.at = "idle" /\ r.dirty = mem[s].dirty /\ r.todo = mem[s].todo
      /\ r.removed = mem[s].removed
      /\ r.state = IF UpToDate(s) THEN mem[s].state ELSE Finds
  BY <1>1, ReconciledIs
<1>5. mem[s].todo = {} /\ Linked(s, t) /\ (seen # {} => tracker = "ready")
      /\ (tracker = "absent" => index = NoRows)
  BY DEF IInv, OneFlush, Kept
<1>6. r.rows[t] \in Rows \cup {NoRow}
  BY <1>4 DEF Memories, Indexes
<1>7. Spared(t) /\ tracker = "ready" => index[t].link <= r.rows[t].link
  <2>1. UpToDate(s) => s \in seen
    BY DEF UpToDate
  <2>2. UpToDate(s) /\ Spared(t) => index[t].link <= mem[s].rows[t].link
    BY <1>5, <2>1 DEF Linked
  <2>3. index[t].link \in Int /\ r.rows[t].link \in Int /\ mem[s].rows[t].link \in Int
    BY <1>1, <1>6, NoRowHasNoEdge
  <2>. QED
    BY <1>3, <2>2, <2>3
<1>8. r.state # "Unreadable" => tracker # "conflicted"
  <2>1. UpToDate(s) => tracker = "ready"
    BY <1>5 DEF UpToDate
  <2>. QED
    BY <1>4, <2>1 DEF Finds
<1>9. tracker = "absent" => index[t].link <= r.rows[t].link
  BY <1>5, <1>6, NoRowHasNoEdge DEF NoRows
<1>. HIDE DEF m, r
<1>10. CASE m = Gone
  <2>1. m.rows[t] = NoRow /\ ~Busy(m)
    BY <1>10 DEF Gone, NoRows, Busy
  <2>. QED
    BY <1>1, <1>10, <2>1, GoneHeld DEF RowFrom, m
<1>11. CASE m # Gone /\ m.at = "idle"
  <2>1. m.rows = r.rows /\ m.held = r.held /\ m.removed = mem[s].removed
        /\ m.dirty = mem[s].dirty /\ m.todo = mem[s].todo /\ ~Busy(m)
    BY <1>2, <1>11 DEF Busy
  <2>2. HeldBy(s, m, t)
    BY <1>3, <1>4, <2>1 DEF HeldBy, Loaded, Owing, AboveDisk, Told, OnFile
  <2>. QED
    BY <1>3, <1>7, <2>1, <2>2 DEF m
<1>12. CASE m # Gone /\ m.at # "idle"
  <2>1. m.rows = r.rows /\ m.held = r.held /\ m.removed = mem[s].removed
        /\ m.dirty = {} /\ m.todo = mem[s].dirty /\ r.state # "Unreadable"
    BY <1>2, <1>12
  <2>2. HeldBy(s, m, t)
    BY <1>3, <1>4, <1>5, <2>1 DEF HeldBy, Loaded, Owing, AboveDisk, Told, OnFile
  <2>3. tracker \in {"absent", "ready"}
    BY <1>1, <1>8, <2>1 DEF TypeOK
  <2>. QED
    BY <1>3, <1>7, <1>9, <2>1, <2>2, <2>3 DEF m
<1>. QED
  BY <1>10, <1>11, <1>12

-----------------------------------------------------------------------------
(* The steps, one by one                                                    *)

(* The first part of write_now, from the thread or from close.              *)
LEMMA FlushKeeps ==
  ASSUME IInv, TypeOK', NEW s \in Stores, NEW closes \in BOOLEAN, mem[s].at = "idle", Alone(s),
         mem' = [mem EXCEPT ![s] = Begun(s, closes)],
         UNCHANGED <<index, tracker, file, now, told, deleted, spoilt>>,
         IF mem'[s] = Gone THEN Forgets(s) ELSE SeesIndex(s) /\ UNCHANGED fresh
  PROVE  Kept' /\ ToldPast' /\ OneFlush'
<1>. DEFINE m == Begun(s, closes)
<1>1. TypeOK /\ Becomes(s) /\ mem'[s] = m
  BY FlushMem DEF IInv
<1>2. m \in Memories
  BY <1>1, BegunIs
<1>3. /\ m = Gone \/ m.at \in {"idle", "contents"}
      /\ m.at # "contents" => m.todo = {}
  <2>1. mem[s].todo = {}
    BY DEF IInv, OneFlush
  <2>. QED
    BY <1>1, <2>1, BegunIs DEF Gone
<1>4. \A t \in Tasks :
        /\ HeldBy(s, m, t) /\ RowFrom(m.rows[t], mem[s].rows[t], index[t])
        /\ Busy(m) => index[t].link <= m.rows[t].link \/ ~Spared(t)
        /\ m # Gone /\ tracker = "ready" => index[t].link <= m.rows[t].link \/ ~Spared(t)
        /\ Busy(m) => tracker # "conflicted"
  BY BegunHeld
<1>5. Busy(m) => tracker # "conflicted"
  <2>1. CASE Tasks = {}
    <3>1. UpToDate(s) => tracker = "ready"
      BY DEF IInv, OneFlush, UpToDate
    <3>2. Reconciled(s).state = IF UpToDate(s) THEN mem[s].state ELSE Finds
      BY <1>1, ReconciledIs
    <3>3. Busy(m) => Reconciled(s).state # "Unreadable"
      BY <1>1, BegunIs DEF Busy, Gone
    <3>. QED
      BY <3>1, <3>2, <3>3 DEF Finds
  <2>2. CASE Tasks # {}
    BY <1>4, <2>2
  <2>. QED
    BY <2>1, <2>2
<1>. HIDE DEF m
<1>6. Later /\ ToldPast' /\ \A t \in Tasks, e \in Entries : TextTold(t, e)' => TextTold(t, e)
  BY LaterIfStill
<1>7. /\ seen' # {} => tracker = "ready"
      /\ seen' \subseteq seen \cup {s}
      /\ s \in seen' => tracker = "ready"
      /\ \A t \in Tasks : fresh'[t] \subseteq fresh[t]
  <2>1. SeesIndex(s) \/ seen' \subseteq seen
    BY DEF Forgets
  <2>2. \A t \in Tasks : fresh'[t] \subseteq fresh[t]
    BY DEF Forgets
  <2>. QED
    BY <2>1, <2>2, SeesReady
<1>8. ASSUME NEW t \in Tasks PROVE HeldOf(s, t)' /\ Linked(s, t)'
  <2>1. SameBut(m, mem'[s], t)
    BY <1>1 DEF SameBut
  <2>2. HeldOf(s, t)'
    BY <1>1, <1>2, <1>4, <1>6, <1>7, <2>1, HeldStays
  <2>3. CASE m # Gone
    BY <1>1, <1>4, <1>7, <2>2, <2>3 DEF Linked, Spared
  <2>4. CASE m = Gone
    <3>1. ~Busy(m) /\ Gone.rows[t] = NoRow
      BY <2>4 DEF Gone, Busy, NoRows
    <3>2. s \notin seen'
      BY <1>1, <2>4 DEF Forgets
    <3>. QED
      BY <1>1, <2>2, <2>4, <3>1, <3>2 DEF Linked
  <2>. QED
    BY <2>3, <2>4
<1>9. \A t \in Tasks, x \in Stores \ {s} : Fits(mem'[s].rows[t], x, t)
  BY <1>1, <1>4, TwinsAreFrom
<1>10. Kept'
  BY <1>1, <1>6, <1>7, <1>8, <1>9, StepKeeps
<1>11. OneFlush'
  <2>1. OneFlush /\ \A x \in Stores \ {s} : mem'[x] = mem[x] /\ ~Busy(mem[x])
    BY <1>1 DEF IInv, Becomes, Alone, AtRest, Busy
  <2>. QED
    BY <1>1, <1>3, <1>5, <1>7, <2>1 DEF OneFlush
<1>. QED
  BY <1>6, <1>10, <1>11

(* refresh_from_disk keeps the invariant.                                   *)
LEMMA RefreshKeeps ==
  ASSUME IInv, TypeOK', NEW s \in Stores, Refresh(s)
  PROVE  Kept' /\ ToldPast' /\ OneFlush'
<1>. DEFINE m == Reconciled(s)
<1>1. /\ TypeOK /\ Becomes(s) /\ m \in Memories
      /\ mem'[s].rows = m.rows /\ mem'[s].held = m.held
      /\ mem'[s].dirty = m.dirty /\ mem'[s].removed = m.removed
      /\ mem'[s].todo = m.todo /\ mem'[s].at = "idle" /\ m.todo = {} /\ mem[s].at = "idle"
  BY RefreshMem, ReconciledIs DEF IInv, OneFlush, Refresh
<1>2. UNCHANGED <<index, tracker, file, fresh, now, told, deleted, spoilt>> /\ SeesIndex(s)
  BY DEF Refresh, diskVars, history
<1>3. \A t \in Tasks :
        /\ HeldBy(s, m, t) /\ RowFrom(m.rows[t], mem[s].rows[t], index[t])
        /\ mem[s].rows[t].link <= m.rows[t].link
        /\ ~UpToDate(s) /\ tracker = "ready" => index[t].link <= m.rows[t].link
  BY <1>1, ReconciledHeld
<1>. HIDE DEF m
<1>4. Later /\ ToldPast' /\ \A t \in Tasks, e \in Entries : TextTold(t, e)' => TextTold(t, e)
  BY <1>2, LaterIfStill
<1>5. (seen' # {} => tracker = "ready") /\ seen' \subseteq seen \cup {s}
      /\ (s \in seen' => tracker = "ready")
  BY <1>2, SeesReady
<1>6. ASSUME NEW t \in Tasks PROVE HeldOf(s, t)' /\ Linked(s, t)'
  <2>1. SameBut(m, mem'[s], t)
    BY <1>1 DEF SameBut, Busy
  <2>2. HeldOf(s, t)'
    BY <1>1, <1>2, <1>3, <1>4, <2>1, HeldStays
  <2>3. ASSUME Spared(t), s \in seen' PROVE index[t].link <= m.rows[t].link
    <3>1. CASE ~UpToDate(s)
      BY <1>3, <1>5, <2>3, <3>1
    <3>2. CASE UpToDate(s)
      <4>1. index[t].link <= mem[s].rows[t].link
        BY <2>3, <3>2 DEF UpToDate, IInv, Kept, Linked
      <4>2. index[t].link \in Int /\ mem[s].rows[t].link \in Int /\ m.rows[t].link \in Int
        BY <1>1, DiskTyped, MemTyped, NoRowHasNoEdge DEF Memories, Indexes
      <4>. QED
        BY <1>3, <4>1, <4>2
    <3>. QED
      BY <3>1, <3>2
  <2>. QED
    BY <1>1, <1>2, <2>2, <2>3 DEF Linked, Busy, Spared
<1>7. \A t \in Tasks, x \in Stores \ {s} : Fits(mem'[s].rows[t], x, t)
  BY <1>1, <1>3, TwinsAreFrom
<1>8. Kept'
  BY <1>1, <1>2, <1>4, <1>5, <1>6, <1>7, StepKeeps
<1>9. OneFlush'
  BY <1>1, <1>2, <1>5, OneFlushStays DEF Busy
<1>. QED
  BY <1>4, <1>8, <1>9

(* Open and Reload: the rows of the index, where it can be read, merged into *)
(* those of m.                                                              *)
LEMMA IndexReadKeeps ==
  ASSUME IInv, TypeOK', NEW s \in Stores, NEW m \in Memories, Becomes(s), SeesIndex(s),
         \A t \in Tasks : HeldBy(s, m, t),
         \A t \in Tasks : RowFrom(m.rows[t], mem[s].rows[t], index[t]),
         \A t \in Tasks : SameBut(m, mem'[s], t),
         \A t \in Tasks : mem'[s].rows[t] = IF tracker = "ready" THEN Merged(m.rows[t], index[t])
                                             ELSE m.rows[t],
         mem'[s].at = "idle", mem'[s].todo = {},
         UNCHANGED <<index, tracker, file, fresh, now, told, deleted, spoilt>>
  PROVE  Kept' /\ ToldPast' /\ OneFlush'
<1>. DEFINE n == mem'[s]
<1>1. n \in Memories
  BY DEF Becomes
<1>2. Later /\ ToldPast' /\ \A t \in Tasks, e \in Entries : TextTold(t, e)' => TextTold(t, e)
  BY LaterIfStill
<1>3. (seen' # {} => tracker = "ready") /\ seen' \subseteq seen \cup {s}
      /\ (s \in seen' => tracker = "ready")
  BY SeesReady
<1>4. ASSUME NEW t \in Tasks, tracker = "ready"
      PROVE  /\ HeldBy(s, n, t) /\ RowFrom(n.rows[t], m.rows[t], index[t])
             /\ index[t].link <= n.rows[t].link
  <2>1. n.rows[t] = Merged(m.rows[t], index[t])
    BY <1>4
  <2>. HIDE DEF n
  <2>2. SameBut(m, n, t)
    BY DEF n
  <2>. QED
    BY <1>1, <2>1, <2>2, MergedHeld
<1>5. ASSUME NEW t \in Tasks
      PROVE  /\ HeldOf(s, t)' /\ Linked(s, t)'
             /\ RowFrom(n.rows[t], mem[s].rows[t], index[t])
  <2>1. CASE tracker = "ready"
    <3>1. SameBut(n, n, t)
      BY DEF SameBut
    <3>2. HeldOf(s, t)'
      BY <1>1, <1>2, <1>4, <2>1, <3>1, HeldStays
    <3>3. RowFrom(n.rows[t], mem[s].rows[t], index[t])
      <4>1. CASE m.rows[t] = NoRow
        BY <2>1, <4>1 DEF Merged, RowFrom
      <4>2. CASE m.rows[t] # NoRow
        BY <1>4, <2>1, <4>2 DEF RowFrom
      <4>. QED
        BY <4>1, <4>2
    <3>. QED
      BY <1>4, <2>1, <3>2, <3>3 DEF Linked
  <2>2. CASE tracker # "ready"
    <3>1. HeldOf(s, t)'
      BY <1>2, <2>2, HeldStays
    <3>. QED
      BY <1>3, <2>2, <3>1 DEF Linked, Busy
  <2>. QED
    BY <2>1, <2>2
<1>6. \A t \in Tasks, x \in Stores \ {s} : Fits(mem'[s].rows[t], x, t)
  BY <1>5, TwinsAreFrom
<1>7. Kept'
  BY <1>2, <1>3, <1>5, <1>6, StepKeeps
<1>8. OneFlush'
  BY <1>3, OneFlushStays DEF Busy
<1>. QED
  BY <1>2, <1>7, <1>8

(* open keeps it.                                                           *)
LEMMA OpenKeeps ==
  ASSUME IInv, TypeOK', NEW s \in Stores, Open(s)
  PROVE  Kept' /\ ToldPast' /\ OneFlush'
<1>1. /\ TypeOK /\ Becomes(s)
      /\ mem'[s].rows = IF tracker = "ready" THEN index ELSE NoRows
      /\ mem'[s].held = [t \in Tasks |-> Unread]
      /\ mem'[s].dirty = {} /\ mem'[s].removed = {} /\ mem'[s].todo = {}
      /\ mem'[s].at = "idle" /\ mem[s] = Gone /\ now \in Nat
  BY OpenMem, MemTyped, ConstantsTyped DEF IInv, Open, TypeOK
<1>2. ASSUME NEW t \in Tasks
      PROVE  /\ HeldBy(s, Gone, t) /\ RowFrom(Gone.rows[t], mem[s].rows[t], index[t])
             /\ SameBut(Gone, mem'[s], t)
             /\ mem'[s].rows[t] = IF tracker = "ready" THEN Merged(Gone.rows[t], index[t])
                                  ELSE Gone.rows[t]
  <2>1. HeldBy(s, Gone, t)
    BY <1>1, DiskTyped, GoneHeld
  <2>. QED
    BY <1>1, <2>1 DEF Gone, NoRows, RowFrom, SameBut, Busy, Merged
<1>. QED
  BY <1>1, <1>2, GoneTyped, IndexReadKeeps DEF Open, diskVars, history

(* reload keeps it.                                                         *)
LEMMA ReloadKeeps ==
  ASSUME IInv, TypeOK', NEW s \in Stores, Reload(s)
  PROVE  Kept' /\ ToldPast' /\ OneFlush'
<1>1. /\ TypeOK /\ Becomes(s)
      /\ mem'[s].rows = IF tracker = "ready" THEN MergeRows(mem[s].rows, index) ELSE mem[s].rows
      /\ mem'[s].held = mem[s].held
      /\ mem'[s].dirty = mem[s].dirty /\ mem'[s].removed = mem[s].removed
      /\ mem'[s].todo = mem[s].todo /\ mem'[s].at = "idle"
      /\ mem[s] \in Memories /\ mem[s].todo = {}
  BY ReloadMem, MemTyped DEF IInv, Reload, OneFlush
<1>2. ASSUME NEW t \in Tasks
      PROVE  /\ HeldBy(s, mem[s], t) /\ RowFrom(mem[s].rows[t], mem[s].rows[t], index[t])
             /\ SameBut(mem[s], mem'[s], t)
             /\ mem'[s].rows[t] = IF tracker = "ready" THEN Merged(mem[s].rows[t], index[t])
                                  ELSE mem[s].rows[t]
  <2>1. HeldBy(s, mem[s], t)
    BY DEF IInv, Kept, HeldOf
  <2>. QED
    BY <1>1, <2>1 DEF RowFrom, SameBut, Busy, Merged, MergeRows
<1>. QED
  BY <1>1, <1>2, IndexReadKeeps DEF Reload, diskVars, history

(* A step of s at t leaves its other tasks alone.                           *)
LEMMA OthersKept ==
  ASSUME IInv, TypeOK', Later, NEW s \in Stores, NEW t \in Tasks, NEW u \in Tasks \ {t},
         mem'[s].rows[u] = mem[s].rows[u], SameBut(mem[s], mem'[s], u),
         index' = index, file' = file, seen' = seen, fresh'[u] = fresh[u]
  PROVE  /\ HeldOf(s, u)' /\ Linked(s, u)'
         /\ \A x \in Stores : Fits(mem'[s].rows[u], x, u)
<1>1. mem[s] \in Memories /\ HeldBy(s, mem[s], u) /\ Linked(s, u)
  BY MemTyped DEF IInv, Kept, HeldOf
<1>2. \A e \in Entries : TextTold(u, e)' => TextTold(u, e) \/ mem[s].rows[u] = NoRow
  BY DEF Later, TellsNow
<1>3. HeldOf(s, u)'
  BY <1>1, <1>2, HeldStays
<1>4. Linked(s, u)'
  BY <1>1 DEF Linked, SameBut, Spared, Later
<1>5. RowFrom(mem'[s].rows[u], mem[s].rows[u], index[u])
  BY DEF RowFrom
<1>. QED
  BY <1>3, <1>4, <1>5, TwinsAreFrom

(* A step of s, at rest before and after, at the task t alone                *)
AtTask(s, t) ==
    /\ Becomes(s) /\ mem[s].at = "idle" /\ mem'[s].at = "idle" /\ mem'[s].todo = mem[s].todo
    /\ UNCHANGED <<index, tracker, file, seen>> /\ fresh'[t] \subseteq fresh[t] \cup {s}
    /\ \A u \in Tasks \ {t} : /\ mem'[s].rows[u] = mem[s].rows[u]
                             /\ SameBut(mem[s], mem'[s], u) /\ fresh'[u] = fresh[u]

(* A step at one task of one store needs only that task to be shown.        *)
LEMMA TaskStepKeeps ==
  ASSUME IInv, TypeOK', Later, NEW s \in Stores, NEW t \in Tasks, AtTask(s, t),
         HeldOf(s, t)', Linked(s, t)', \A x \in Stores \ {s} : Fits(mem'[s].rows[t], x, t)
  PROVE  Kept' /\ OneFlush'
<1>1. \A u \in Tasks \ {t} : /\ HeldOf(s, u)' /\ Linked(s, u)'
                             /\ \A x \in Stores : Fits(mem'[s].rows[u], x, u)
  BY OthersKept DEF AtTask
<1>2. Kept'
  <2>1. \A u \in Tasks : HeldOf(s, u)' /\ Linked(s, u)'
    BY <1>1
  <2>2. \A u \in Tasks, x \in Stores \ {s} : Fits(mem'[s].rows[u], x, u)
    BY <1>1
  <2>3. \A u \in Tasks : fresh'[u] \subseteq fresh[u] \cup {s}
    BY DEF AtTask
  <2>. QED
    BY <2>1, <2>2, <2>3, StepKeeps DEF AtTask
<1>3. OneFlush'
  <2>1. mem[s].todo = {} /\ (seen # {} => tracker = "ready")
    BY DEF IInv, OneFlush, AtTask
  <2>. QED
    BY <2>1, OneFlushStays DEF Busy, AtTask
<1>. QED
  BY <1>2, <1>3

(* put is such a step.                                                      *)
LEMMA PutAt ==
  ASSUME TypeOK, NEW s \in Stores, NEW t \in Tasks, NEW row \in Rows, NEW content \in Contents,
         mem[s].at = "idle", Put(s, t, row, content)
  PROVE  /\ AtTask(s, t) /\ mem'[s].rows[t] = row /\ mem'[s].held[t] = content
         /\ t \in mem'[s].dirty <=> t \in mem[s].dirty \/ content # Held(s, t)
         /\ mem'[s].removed = mem[s].removed
         /\ s \in fresh'[t] => s \in fresh[t] \/ mem[s].held[t] = Unread
<1>1. mem[s].rows \in Indexes /\ mem[s].held \in [Tasks -> Contents \cup {Unread}]
      /\ fresh \in [Tasks -> SUBSET Stores]
  BY MemTyped DEF TypeOK
<1>2. /\ Becomes(s)
      /\ mem'[s].rows = [mem[s].rows EXCEPT ![t] = row]
      /\ mem'[s].held = [mem[s].held EXCEPT ![t] = content]
      /\ mem'[s].dirty = IF content = Held(s, t) THEN mem[s].dirty ELSE mem[s].dirty \cup {t}
      /\ mem'[s].at = "idle" /\ mem'[s].removed = mem[s].removed /\ mem'[s].todo = mem[s].todo
      /\ index' = index /\ file' = file /\ tracker' = tracker /\ seen' = seen
      /\ fresh' = IF mem[s].held[t] = Unread /\ file[t] # NoFile
                    THEN [fresh EXCEPT ![t] = @ \cup {s}] ELSE fresh
  BY PutMem
<1>. QED
  BY <1>1, <1>2 DEF AtTask, SameBut, Busy, Indexes

(* The edits of an existing task keep it.                                   *)
LEMMA EditedKeeps ==
  ASSUME IInv, TypeOK', NEW s \in Stores, NEW t \in Tasks, NEW row \in Rows, NEW content \in Contents,
         Edited(s, t, row, content)
  PROVE  Kept' /\ ToldPast' /\ OneFlush'
<1>. DEFINE r == mem[s].rows[t]
            c == Held(s, t)
            h == mem[s].held[t]
<1>1. TypeOK /\ now \in Nat /\ now' = now + 1
  BY ConstantsTyped DEF IInv, TypeOK, Edited
<1>2. /\ r \in Rows /\ r # NoRow /\ r.made \in Nat /\ r.at \in Nat /\ r.link \in Nat
      /\ index[t] \in Rows \cup {NoRow} /\ index[t].link \in Int
      /\ h \in Contents \cup {Unread} /\ file[t] \in Contents \cup {NoFile}
  BY <1>1, MemTyped, DiskTyped, RowTyped, NoRowHasNoEdge DEF Edited
<1>3. HeldBy(s, mem[s], t) /\ DiskOf(t) /\ Linked(s, t) /\ mem[s].todo = {} /\ ~Busy(mem[s])
      /\ ToldPast
  BY DEF IInv, Kept, HeldOf, OneFlush, Edited, Busy
<1>4. Later /\ ToldPast'
  <2>1. \A u \in Tasks, e \in Entries :
          /\ EntryTold(u, e)' => EntryTold(u, e) \/ e > now
          /\ TextTold(u, e)' => TextTold(u, e)
    BY <1>1 DEF Edited, EntryTold, TextTold
  <2>2. \A w \in told : w[2] \in Nat
    BY <1>1, ConstantsTyped DEF TypeOK
  <2>3. ToldPast'
    BY <1>1, <1>3, <2>2 DEF ToldPast, Edited
  <2>. QED
    BY <1>1, <2>1, <2>3 DEF Later, TellsNow, Edited
<1>5. /\ row.made = r.made /\ row.at = now + 1 /\ row # NoRow
      /\ content \in Contents /\ ContentPast(content, now') /\ content.body >= c.body
      /\ \A e \in Entries : NotOlder(c.log[e], content.log[e])
      /\ UNCHANGED <<deleted, spoilt>>
  BY <1>1, ConstantsTyped DEF Edited
<1>6. /\ \/ row.link = r.link /\ row.linked = r.linked
         \/ row.link = now + 1
      /\ \A e \in Entries :
           /\ EntryTold(t, e)' => \/ EntryTold(t, e)
                                  \/ e = now + 1 /\ row.link = r.link /\ content.log[e].ed > 0
           /\ TextTold(t, e)' => TextTold(t, e)
  BY <1>1 DEF Edited, EntryTold, TextTold
<1>7. Put(s, t, row, content) /\ mem[s].at = "idle"
  BY DEF Edited
<1>8. /\ AtTask(s, t) /\ mem'[s].rows[t] = row /\ mem'[s].held[t] = content
      /\ t \in mem'[s].dirty <=> t \in mem[s].dirty \/ content # c
      /\ mem'[s].removed = mem[s].removed
      /\ s \in fresh'[t] => s \in fresh[t] \/ h = Unread
  BY <1>1, <1>7, PutAt
<1>0. /\ mem'[s].at = "idle" /\ mem'[s].todo = {}
      /\ index' = index /\ file' = file /\ seen' = seen
  BY <1>3, <1>8 DEF AtTask
<1>9. r.made <= r.at /\ r.at <= now /\ r.link <= now /\ ToldOf(t, r, told)
  BY <1>2, <1>3 DEF HeldBy, RowOK, RowPast
<1>10. RowPast(row, now') /\ ToldOf(t, row, told')
  <2>1. RowPast(row, now')
    BY <1>1, <1>2, <1>5, <1>6, <1>9 DEF RowPast
  <2>2. ASSUME NEW e \in Entries
        PROVE  /\ <<t, e, "entry">> \in told' => row.made # e /\ row.link # e
               /\ <<t, e, "text">> \in told' => row.made >= e /\ row.link # e
    <3>1. <<t, e, "entry">> \in told \/ <<t, e, "text">> \in told => e <= now
      BY <1>3 DEF ToldPast
    <3>2. e \in Nat
      BY ConstantsTyped
    <3>. QED
      BY <1>1, <1>2, <1>5, <1>6, <1>9, <3>1, <3>2 DEF ToldOf, EntryTold, TextTold
  <2>. QED
    BY <2>1, <2>2 DEF ToldOf
<1>11. h # Unread => c = h
  BY DEF Held
<1>12. h = Unread => \A e \in Entries : c.log[e] = file[t].log[e]
  BY DEF Held, OnDisk, NoFile, Blank
<1>13. SameEdge(row, index[t]) /\ (Spared(t) => SameRow(row, index[t]))
  <2>1. index[t].link <= now
    <3>1. index[t] # NoRow => index[t].link <= now
      BY <1>3 DEF DiskOf, RowOK, RowPast
    <3>. QED
      BY <1>1, <3>1 DEF NoRow
  <2>2. row.link = now + 1 => row.link # index[t].link
    BY <1>1, <1>2, <2>1
  <2>. QED
    BY <1>2, <1>3, <1>5, <1>6, <2>2 DEF HeldBy, SameEdge, SameRow
<1>14. ASSUME Spared(t), s \in fresh'[t] PROVE Above(file[t].log, content.log, row.made)
  <2>1. CASE h = Unread
    BY <1>5, <1>12, <2>1 DEF Above
  <2>2. CASE h # Unread
    <3>1. Above(file[t].log, h.log, r.made)
      BY <1>0, <1>3, <1>8, <1>14, <2>2 DEF HeldBy, Loaded, AboveDisk
    <3>2. \A e \in Entries : /\ file[t].log[e] \in LogEntries /\ h.log[e] \in LogEntries
                             /\ content.log[e] \in LogEntries
      <4>1. file[t].log \in Logs /\ h.log \in Logs /\ content.log \in Logs
        BY <1>2, <1>5, <2>2, ConstantsTyped DEF Contents, NoFile
      <4>. QED
        BY <4>1 DEF Logs, LogEntries
    <3>. QED
      BY <1>5, <1>11, <2>2, <3>1, <3>2, NotOlderIsTransitive DEF Above
  <2>. QED
    BY <2>1, <2>2
<1>15. ASSUME Sound(t), NEW e \in Entries
       PROVE  /\ EntryTold(t, e)' /\ row.at = e => content.log[e].ed > 0
              /\ TextTold(t, e)' /\ row.made = e => content.body >= e
  <2>1. Told(mem[s], t)
    BY <1>2, <1>3, <1>15 DEF HeldBy
  <2>2. EntryTold(t, e) => e <= now
    BY <1>3 DEF ToldPast, EntryTold
  <2>3. e \in Nat /\ c.body \in Int /\ content.body \in Int
    <3>1. c \in Contents
      BY <1>1, HeldTyped
    <3>2. \A x \in Contents : x.body \in Stamps
      BY DEF Contents
    <3>3. Stamps \subseteq Int /\ e \in Nat
      BY ConstantsTyped
    <3>. QED
      BY <1>5, <3>1, <3>2, <3>3
  <2>4. TextTold(t, e) /\ row.made = e => c.body >= e
    <3>1. CASE h # Unread
      BY <1>5, <1>11, <2>1, <3>1 DEF Told, Loaded
    <3>2. CASE h = Unread
      <4>1. TextTold(t, e) /\ row.made = e => file[t].body >= e
        BY <1>5, <2>1, <3>2 DEF Told, Loaded
      <4>2. NoFile.body = -1 /\ ~(-1 >= e)
        BY <2>3 DEF NoFile
      <4>. QED
        BY <3>2, <4>1, <4>2 DEF Held, OnDisk
    <3>. QED
      BY <3>1, <3>2
  <2>. QED
    BY <1>1, <1>5, <1>6, <2>2, <2>3, <2>4
<1>16. ASSUME Sound(t), content = c, t \notin mem[s].dirty, NEW e \in Entries
       PROVE  /\ e > row.made /\ content.log[e].ed > 0 => file[t].log[e].ed > 0
              /\ TextTold(t, e)' /\ row.made = e => file[t].body >= e
  <2>1. CASE h = Unread
    <3>1. Told(mem[s], t)
      BY <1>2, <1>3, <1>16 DEF HeldBy
    <3>. QED
      BY <1>5, <1>6, <1>12, <1>16, <2>1, <3>1 DEF Told, Loaded
  <2>2. CASE h # Unread
    <3>1. OnFile(mem[s], t)
      BY <1>2, <1>3, <1>16, <2>2 DEF HeldBy, Loaded, Owing
    <3>. QED
      BY <1>5, <1>6, <1>11, <1>16, <2>2, <3>1 DEF OnFile
  <2>. QED
    BY <2>1, <2>2
<1>17. content # Unread /\ (Spared(t)' <=> Spared(t)) /\ (Sound(t)' <=> Sound(t))
  BY <1>5, ConstantsTyped DEF Spared, Sound
<1>18. HeldOf(s, t)'
  <2>1. Spared(t)' /\ s \in fresh'[t] => AboveDisk(mem[s], t)'
    BY <1>0, <1>8, <1>14, <1>17 DEF AboveDisk
  <2>2. Sound(t)' => Told(mem[s], t)'
    BY <1>0, <1>8, <1>15, <1>17 DEF Told, Loaded
  <2>3. Sound(t)' /\ ~Owing(mem[s], t)' => OnFile(mem[s], t)'
    BY <1>0, <1>8, <1>16, <1>17 DEF OnFile, Owing
  <2>4. t \in mem[s].removed => ~Spared(t)
    BY <1>3 DEF HeldBy
  <2>. QED
    BY <1>0, <1>5, <1>8, <1>10, <1>13, <1>17, <2>1, <2>2, <2>3, <2>4
    DEF HeldOf, HeldBy, RowOK, Loaded, Busy
<1>19. Linked(s, t)'
  <2>1. r.link <= row.link
    BY <1>1, <1>2, <1>6, <1>9
  <2>2. row.link \in Int
    BY RowTyped
  <2>. QED
    BY <1>0, <1>2, <1>3, <1>8, <1>17, <2>1, <2>2 DEF Linked, Busy
<1>20. ASSUME NEW x \in Stores \ {s} PROVE Fits(row, x, t)
  <2>. DEFINE q == mem[x].rows[t]
  <2>1. q \in Rows \cup {NoRow} /\ TwinsOf(s, x, t) /\ HeldBy(x, mem[x], t)
    BY <1>1, MemTyped DEF IInv, Kept, HeldOf
  <2>2. q.link \in Int /\ q.link <= now
    <3>1. q # NoRow => q.link <= now
      BY <2>1 DEF HeldBy, RowOK, RowPast
    <3>. QED
      BY <1>1, <2>1, <3>1, NoRowHasNoEdge DEF NoRow
  <2>3. row.link = now + 1 => row.link # q.link
    BY <1>1, <2>2
  <2>. QED
    BY <1>2, <1>5, <1>6, <2>1, <2>3 DEF Fits, TwinsOf, SameEdge, SameRow
<1>. QED
  BY <1>4, <1>8, <1>18, <1>19, <1>20, TaskStepKeeps

(* create keeps it.                                                         *)
LEMMA CreateKeeps ==
  ASSUME IInv, TypeOK', NEW s \in Stores, NEW t \in Tasks, NEW body \in {0, Next1},
         Create(s, t, body)
  PROVE  Kept' /\ ToldPast' /\ OneFlush'
<1>. DEFINE row == [made |-> Next1, at |-> Next1, set |-> Next1, link |-> 0, linked |-> FALSE]
            content == [Blank EXCEPT !.body = body]
            c == Held(s, t)
<1>1. TypeOK /\ now \in Nat /\ now' = now + 1 /\ Next1 = now + 1 /\ now + 1 \in Entries
      /\ mem[s].at = "idle" /\ Put(s, t, row, content) /\ row \in Rows /\ content \in Contents
      /\ content.body = body /\ content.log = NoLog
  <2>1. TypeOK /\ now \in Nat
    BY ConstantsTyped DEF IInv, TypeOK
  <2>2. Next1 = now + 1
    BY DEF Next1
  <2>3. Put(s, t, row, content) /\ row \in Rows /\ content \in Contents
        /\ content.body = body /\ content.log = NoLog
        /\ mem[s].at = "idle" /\ now' = Next1 /\ now' \in Entries
    BY CreateShape
  <2>. QED
    BY <2>1, <2>2, <2>3
<1>2. /\ t \notin deleted /\ index[t] = NoRow /\ \A x \in Stores : mem[x].rows[t] = NoRow
      /\ told' = IF body = 0 THEN told ELSE told \cup {<<t, now + 1, "text">>}
      /\ UNCHANGED <<deleted, spoilt>>
  BY <1>1 DEF Create
<1>3. HeldBy(s, mem[s], t) /\ DiskOf(t) /\ mem[s].todo = {} /\ ToldPast
  BY <1>1 DEF IInv, Kept, HeldOf, OneFlush
<1>4. Later /\ ToldPast'
  <2>1. \A u \in Tasks, e \in Entries :
          /\ EntryTold(u, e)' => EntryTold(u, e)
          /\ TextTold(u, e)' => TextTold(u, e) \/ (u = t /\ e = now + 1)
    BY <1>2 DEF EntryTold, TextTold
  <2>2. \A w \in told : w[2] \in Nat
    BY <1>1, ConstantsTyped DEF TypeOK
  <2>3. ToldPast'
    BY <1>1, <1>2, <1>3, <2>2 DEF ToldPast
  <2>. QED
    BY <1>1, <1>2, <2>1, <2>3 DEF Later, TellsNow
<1>5. /\ AtTask(s, t) /\ mem'[s].rows[t] = row /\ mem'[s].held[t] = content
      /\ t \in mem'[s].dirty <=> t \in mem[s].dirty \/ content # c
      /\ mem'[s].removed = mem[s].removed
  BY <1>1, PutAt
<1>6. mem'[s].at = "idle" /\ mem'[s].todo = {} /\ index' = index /\ file' = file
  BY <1>3, <1>5 DEF AtTask
<1>7. /\ row.made = now + 1 /\ row.at = now + 1 /\ row.link = 0 /\ row # NoRow
      /\ SameEdge(row, NoRow) /\ SameEdge(NoRow, row)
  BY <1>1, NoRowHasNoEdge, ConstantsTyped
<1>. HIDE DEF row, content, c
<1>8. \A e \in Entries : e \in Nat /\ e > 0 /\ content.log[e].ed = 0
  BY <1>1 DEF Entries, NoLog, NoEntry
<1>9. RowPast(row, now') /\ ToldOf(t, row, told')
  <2>1. \A e \in Entries : <<t, e, "entry">> \in told' \/ <<t, e, "text">> \in told' => e <= now + 1
    BY <1>1, <1>4 DEF ToldPast
  <2>2. \A e \in Entries : <<t, e, "entry">> \in told' => e <= now
    BY <1>2, <1>3 DEF ToldPast
  <2>. QED
    BY <1>1, <1>7, <1>8, <2>1, <2>2 DEF RowPast, ToldOf
<1>10. ContentPast(content, now')
  BY <1>1 DEF ContentPast, LogPast, NoLog, NoEntry, Entries
<1>11. Above(file[t].log, content.log, row.made)
  <2>1. \A e \in Entries : ContentPast(file[t], now) /\ ~(e > now + 1 /\ e <= now)
    BY <1>1, <1>3, <1>8 DEF DiskOf
  <2>2. \A e \in Entries : file[t].log[e].ed \in Nat
    <3>1. file[t].log \in Logs
      BY <1>1, DiskTyped, ConstantsTyped DEF Contents, NoFile
    <3>. QED
      BY <3>1, EntryTyped DEF Logs, LogEntries
  <2>3. ASSUME NEW e \in Entries, e > now + 1 PROVE file[t].log[e].ed = 0 /\ ~file[t].log[e].dead
    <3>1. ~(e <= now)
      BY <1>1, <1>8, <2>3
    <3>. QED
      BY <2>1, <2>2, <3>1 DEF ContentPast, LogPast
  <2>. QED
    BY <1>7, <1>8, <2>3 DEF Above, NotOlder
<1>12. ASSUME NEW e \in Entries
       PROVE  /\ EntryTold(t, e)' => row.at # e
              /\ TextTold(t, e)' /\ row.made = e => content.body >= e /\ content # c
  <2>1. EntryTold(t, e)' => e <= now
    BY <1>2, <1>3 DEF EntryTold, ToldPast
  <2>2. TextTold(t, e)' /\ e = now + 1 => body = now + 1
    <3>1. ~(now + 1 <= now)
      BY <1>1
    <3>2. TextTold(t, e) => e <= now
      BY <1>3 DEF TextTold, ToldPast
    <3>. QED
      BY <1>1, <1>2, <3>1, <3>2 DEF TextTold
  <2>3. c.body <= now
    BY HeldPast DEF ContentPast, c
  <2>4. content = c => content.body <= now
    BY <2>3
  <2>. QED
    BY <1>1, <1>7, <1>8, <2>1, <2>2, <2>4
<1>13. content # Unread /\ (Spared(t)' <=> Spared(t)) /\ (Sound(t)' <=> Sound(t))
  BY <1>1, <1>2, ConstantsTyped DEF Spared, Sound
<1>14. HeldOf(s, t)'
  <2>1. AboveDisk(mem[s], t)'
    BY <1>5, <1>6, <1>11 DEF AboveDisk
  <2>2. Told(mem[s], t)'
    BY <1>5, <1>6, <1>12, <1>13 DEF Told, Loaded
  <2>3. ~Owing(mem[s], t)' => OnFile(mem[s], t)'
    <3>1. \A e \in Entries : ~(content.log[e].ed > 0)
      BY <1>8
    <3>. QED
      BY <1>5, <1>6, <1>12, <3>1 DEF OnFile, Owing
  <2>4. t \in mem[s].removed => ~Spared(t)
    BY <1>3 DEF HeldBy
  <2>. QED
    BY <1>2, <1>5, <1>6, <1>7, <1>9, <1>10, <1>13, <2>1, <2>2, <2>3, <2>4
    DEF HeldOf, HeldBy, RowOK, Loaded, Busy, SameRow
<1>15. Linked(s, t)'
  <2>1. index[t].link <= row.link
    BY <1>2, <1>7 DEF NoRow
  <2>. QED
    BY <1>5, <1>6, <2>1 DEF Linked
<1>16. \A x \in Stores : Fits(row, x, t)
  BY <1>2, <1>7 DEF Fits, SameRow
<1>. QED
  BY <1>4, <1>5, <1>14, <1>15, <1>16, TaskStepKeeps

(* get and search keep it.                                                  *)
LEMMA GetKeeps ==
  ASSUME IInv, TypeOK', NEW s \in Stores, NEW t \in Tasks, Get(s, t)
  PROVE  Kept' /\ ToldPast' /\ OneFlush'
<1>1. /\ TypeOK /\ Becomes(s)
      /\ mem'[s].held = [mem[s].held EXCEPT ![t] = OnDisk(t)]
      /\ mem'[s].rows = mem[s].rows /\ mem'[s].dirty = mem[s].dirty
      /\ mem'[s].at = "idle" /\ mem'[s].removed = mem[s].removed /\ mem'[s].todo = mem[s].todo
      /\ mem[s].held \in [Tasks -> Contents \cup {Unread}] /\ fresh \in [Tasks -> SUBSET Stores]
  BY GetMem, MemTyped DEF IInv, TypeOK
<1>2. mem[s].at = "idle" /\ mem[s].rows[t] # NoRow /\ mem[s].held[t] = Unread
      /\ UNCHANGED <<index, tracker, file, seen, now, told, deleted, spoilt>>
      /\ fresh' \in {fresh, [fresh EXCEPT ![t] = @ \cup {s}]}
  BY DEF Get, Loads, diskVars, history
<1>3. AtTask(s, t) /\ mem'[s].held[t] = OnDisk(t)
  BY <1>1, <1>2 DEF AtTask, SameBut, Busy
<1>4. Later /\ ToldPast' /\ \A u \in Tasks, e \in Entries : TextTold(u, e)' => TextTold(u, e)
  BY <1>2, LaterIfStill
<1>5. HeldBy(s, mem[s], t) /\ mem[s].todo = {} /\ Linked(s, t)
  BY <1>2 DEF IInv, Kept, HeldOf, OneFlush
<1>6. /\ OnDisk(t) \in Contents /\ OnDisk(t) # Unread /\ ContentPast(OnDisk(t), now)
      /\ \A e \in Entries : OnDisk(t).log[e] = file[t].log[e] /\ OnDisk(t).log[e].ed \in Nat
      /\ OnDisk(t).body >= file[t].body
  <2>1. OnDisk(t) \in Contents
    BY <1>1, DiskTyped
  <2>2. ContentPast(OnDisk(t), now)
    BY <1>2, HeldPast DEF Held
  <2>3. \A e \in Entries : OnDisk(t).log[e] = file[t].log[e]
    BY DEF OnDisk, NoFile, Blank
  <2>4. OnDisk(t).log \in Logs /\ OnDisk(t).body \in Int
    <3>1. Stamps \subseteq Int
      BY ConstantsTyped
    <3>. QED
      BY <2>1, <3>1 DEF Contents
  <2>5. \A e \in Entries : OnDisk(t).log[e].ed \in Nat
    BY <2>4, EntryTyped DEF Logs, LogEntries
  <2>6. OnDisk(t).body >= file[t].body
    BY <2>4 DEF OnDisk, NoFile, Blank
  <2>. QED
    BY <2>1, <2>2, <2>3, <2>5, <2>6, ConstantsTyped
<1>7. HeldOf(s, t)'
  <2>1. AboveDisk(mem[s], t)'
    BY <1>2, <1>3, <1>6 DEF AboveDisk, Above, NotOlder
  <2>2. ASSUME Sound(t) PROVE Told(mem[s], t)' /\ OnFile(mem[s], t)'
    <3>1. Told(mem[s], t)
      BY <1>2, <1>5, <2>2 DEF HeldBy
    <3>2. \A e \in Entries : /\ EntryTold(t, e)' <=> EntryTold(t, e)
                             /\ TextTold(t, e)' <=> TextTold(t, e)
      BY <1>2 DEF EntryTold, TextTold
    <3>3. \A e \in Entries : TextTold(t, e) /\ mem[s].rows[t].made = e => file[t].body >= e
      BY <1>2, <3>1 DEF Told, Loaded
    <3>4. \A e \in Entries : TextTold(t, e) /\ mem[s].rows[t].made = e => OnDisk(t).body >= e
      <4>1. NoFile.body = -1 /\ \A e \in Entries : ~(-1 >= e)
        BY DEF NoFile, Entries
      <4>. QED
        BY <3>3, <4>1 DEF OnDisk
    <3>5. \A e \in Entries : EntryTold(t, e) /\ mem[s].rows[t].at = e => file[t].log[e].ed > 0
      BY <1>2, <3>1 DEF Told, Loaded
    <3>6. Told(mem[s], t)'
      BY <1>1, <1>2, <1>3, <1>6, <3>2, <3>4, <3>5 DEF Told, Loaded
    <3>7. OnFile(mem[s], t)'
      BY <1>1, <1>2, <1>3, <1>6, <3>2, <3>3 DEF OnFile
    <3>. QED
      BY <3>6, <3>7
  <2>3. (Sound(t)' <=> Sound(t)) /\ (Spared(t)' <=> Spared(t))
    BY <1>2 DEF Sound, Spared
  <2>. QED
    BY <1>1, <1>2, <1>3, <1>5, <1>6, <2>1, <2>2, <2>3
    DEF HeldOf, HeldBy, RowOK, Loaded, Busy, Owing
<1>8. Linked(s, t)'
  BY <1>1, <1>2, <1>5 DEF Linked, Busy, Spared
<1>9. \A x \in Stores : Fits(mem'[s].rows[t], x, t)
  BY <1>1, TwinsAreFrom DEF RowFrom
<1>. QED
  BY <1>3, <1>4, <1>7, <1>8, <1>9, TaskStepKeeps

(* delete keeps it.                                                         *)
LEMMA DeleteKeeps ==
  ASSUME IInv, TypeOK', NEW s \in Stores, NEW t \in Tasks, Delete(s, t)
  PROVE  Kept' /\ ToldPast' /\ OneFlush'
<1>1. /\ TypeOK /\ Becomes(s)
      /\ mem'[s].rows = [mem[s].rows EXCEPT ![t] = NoRow]
      /\ mem'[s].held = [mem[s].held EXCEPT ![t] = Unread]
      /\ mem'[s].dirty = mem[s].dirty \ {t} /\ mem'[s].removed = mem[s].removed \cup {t}
      /\ mem'[s].at = "idle" /\ mem'[s].todo = mem[s].todo
      /\ mem[s].held \in [Tasks -> Contents \cup {Unread}] /\ fresh \in [Tasks -> SUBSET Stores]
      /\ mem[s].rows \in Indexes /\ now \in Nat
  BY DeleteMem, MemTyped, ConstantsTyped DEF IInv, TypeOK
<1>2. mem[s].at = "idle" /\ now' = now + 1 /\ deleted' = deleted \cup {t}
      /\ UNCHANGED <<index, tracker, file, seen, told, spoilt>>
      /\ fresh' = [fresh EXCEPT ![t] = @ \ {s}]
  BY DEF Delete, Edits, Next1, diskVars
<1>3. AtTask(s, t) /\ mem'[s].held[t] = Unread /\ mem'[s].rows[t] = NoRow
  BY <1>1, <1>2 DEF AtTask, SameBut, Busy, Indexes
<1>4. Later /\ ToldPast'
  <2>1. \A w \in told : w[2] \in Nat /\ w[2] <= now
    BY <1>1, ConstantsTyped DEF TypeOK, IInv, ToldPast
  <2>. QED
    BY <1>1, <1>2, <2>1 DEF Later, TellsNow, EntryTold, TextTold, ToldPast
<1>5. HeldBy(s, mem[s], t) /\ mem[s].todo = {} /\ index[t] \in Rows \cup {NoRow}
  BY <1>1, <1>2, DiskTyped DEF IInv, Kept, HeldOf, OneFlush
<1>6. ContentPast(Unread, now')
  BY <1>1, <1>2 DEF ContentPast, LogPast, Unread, NoLog, NoEntry, Entries
<1>7. HeldOf(s, t)' /\ Linked(s, t)'
  <2>1. ~Spared(t)' /\ ~Sound(t)'
    BY <1>2 DEF Spared, Sound
  <2>2. SameEdge(NoRow, index[t])
    BY <1>5, NoRowHasNoEdge
  <2>. QED
    BY <1>1, <1>2, <1>3, <1>5, <1>6, <2>1, <2>2
    DEF HeldOf, HeldBy, Linked, RowOK, RowPast, ToldOf, Loaded, Busy, Owing
<1>8. \A x \in Stores : Fits(mem'[s].rows[t], x, t)
  BY <1>3, TwinsAreFrom DEF RowFrom
<1>. QED
  BY <1>3, <1>4, <1>7, <1>8, TaskStepKeeps

(* A content file that is written has every entry of the one it replaces,    *)
(* and every text that was answered for.                                    *)
LEMMA FileGrows ==
  ASSUME IInv, NEW s \in Stores, NEW t \in Tasks, WriteContent(s, t)
  PROVE  LET h == mem[s].held[t]
             r == mem[s].rows[t] IN
         /\ h \in Contents /\ ContentPast(h, now) /\ r \in Rows /\ r # NoRow /\ Loaded(mem[s], t)
         /\ Spared(t) => Above(file[t].log, h.log, r.made)
         /\ Spared(t) => \A e \in Entries : e > r.made /\ file[t].log[e].ed > 0 => h.log[e].ed > 0
         /\ Sound(t) => \A e \in Entries : TextTold(t, e) /\ r.made = e => h.body >= e
<1>. DEFINE h == mem[s].held[t]
            r == mem[s].rows[t]
<1>1. TypeOK /\ HeldBy(s, mem[s], t) /\ t \in mem[s].todo
  BY DEF IInv, Kept, HeldOf, WriteContent
<1>2. Loaded(mem[s], t) /\ r # NoRow /\ ContentPast(h, now)
  BY <1>1 DEF HeldBy, Owing
<1>3. h \in Contents /\ r \in Rows
  BY <1>1, <1>2, MemTyped DEF Loaded
<1>4. Spared(t) => Above(file[t].log, h.log, r.made)
  BY <1>1, <1>2 DEF HeldBy, AboveDisk
<1>5. ASSUME Spared(t), NEW e \in Entries, e > r.made, file[t].log[e].ed > 0 PROVE h.log[e].ed > 0
  <2>1. NotOlder(file[t].log[e], h.log[e])
    BY <1>4, <1>5 DEF Above
  <2>2. h.log[e].ed \in Nat /\ (h.log[e].ed = 0 => ~h.log[e].dead)
    BY <1>2, <1>3, EntryTyped DEF Contents, Logs, LogEntries, ContentPast, LogPast
  <2>3. file[t].log[e].ed \in Nat
    <3>1. file[t].log \in Logs
      BY <1>1, DiskTyped, ConstantsTyped DEF Contents, NoFile
    <3>. QED
      BY <3>1, EntryTyped DEF Logs, LogEntries
  <2>4. CASE h.log[e].dead
    BY <2>2, <2>4
  <2>5. CASE ~h.log[e].dead
    <3>1. file[t].log[e].ed <= h.log[e].ed
      BY <2>1, <2>5 DEF NotOlder
    <3>. QED
      BY <1>5, <2>2, <2>3, <3>1
  <2>. QED
    BY <2>4, <2>5
<1>6. Sound(t) => \A e \in Entries : TextTold(t, e) /\ r.made = e => h.body >= e
  BY <1>1, <1>2 DEF HeldBy, Told
<1>. QED
  BY <1>2, <1>3, <1>4, <1>5, <1>6

(* Writing a content file keeps it.                                         *)
LEMMA WriteContentKeeps ==
  ASSUME IInv, TypeOK', NEW s \in Stores, NEW t \in Tasks, WriteContent(s, t)
  PROVE  Kept' /\ ToldPast' /\ OneFlush'
<1>. DEFINE h == mem[s].held[t]
            r == mem[s].rows[t]
<1>1. /\ TypeOK /\ Becomes(s) /\ mem'[s].todo = mem[s].todo \ {t}
      /\ mem'[s].rows = mem[s].rows /\ mem'[s].held = mem[s].held
      /\ mem'[s].dirty = mem[s].dirty /\ mem'[s].removed = mem[s].removed
      /\ mem'[s].at = "contents" /\ mem[s].at = "contents" /\ t \in mem[s].todo
      /\ \A x \in Stores \ {s} : mem'[x] = mem[x]
  BY WriteContentMem DEF IInv, WriteContent, Becomes
<1>2. /\ UNCHANGED <<index, tracker, seen, now, told, deleted, spoilt>>
      /\ file'[t] = h /\ fresh'[t] = {s}
      /\ \A u \in Tasks \ {t} : file'[u] = file[u] /\ fresh'[u] = fresh[u]
  BY <1>1 DEF WriteContent, history, TypeOK
<1>3. /\ h \in Contents /\ ContentPast(h, now) /\ r \in Rows /\ r # NoRow /\ Loaded(mem[s], t)
      /\ Spared(t) => Above(file[t].log, h.log, r.made)
      /\ Spared(t) => \A e \in Entries : e > r.made /\ file[t].log[e].ed > 0 => h.log[e].ed > 0
      /\ Sound(t) => \A e \in Entries : TextTold(t, e) /\ r.made = e => h.body >= e
  BY FileGrows
<1>4. Later /\ ToldPast' /\ \A u \in Tasks, e \in Entries : TextTold(u, e)' => TextTold(u, e)
  BY <1>2, LaterIfStill
<1>5. \A x \in Stores \ {s} : ~Busy(mem[x]) /\ mem[x].todo = {}
  BY <1>1 DEF IInv, OneFlush, Busy
<1>6. HeldBy(s, mem[s], t) /\ DiskOf(t) /\ Linked(s, t)
      /\ \A x \in Stores : HeldBy(x, mem[x], t) /\ TwinsOf(s, x, t)
  BY DEF IInv, Kept, HeldOf
<1>7. (Spared(t)' <=> Spared(t)) /\ (Sound(t)' <=> Sound(t)) /\ (Sound(t) => Spared(t))
      /\ \A e \in Entries : /\ EntryTold(t, e)' <=> EntryTold(t, e)
                            /\ TextTold(t, e)' <=> TextTold(t, e)
  BY <1>2 DEF Spared, Sound, EntryTold, TextTold
<1>8. \A u \in Tasks \ {t} : DiskOf(u)'
  BY <1>2, <1>4, DiskStays
<1>9. \A x \in Stores \ {s}, u \in Tasks \ {t} : HeldOf(x, u)'
  BY <1>1, <1>2, <1>4, HeldOfOther
<1>10. ASSUME NEW u \in Tasks \ {t} PROVE HeldOf(s, u)'
  <2>1. HeldBy(s, mem[s], u) /\ mem[s] \in Memories
    BY <1>1, MemTyped DEF IInv, Kept, HeldOf
  <2>2. SameBut(mem[s], mem'[s], u)
    BY <1>1 DEF SameBut, Busy
  <2>. QED
    BY <1>1, <1>2, <1>4, <2>1, <2>2, HeldStays
(* A row of t that is stamped with an accepted entry was made before it.     *)
<1>11. ASSUME NEW q \in Rows, RowOK(t, q), NEW e \in Entries, EntryTold(t, e), q.at = e
       PROVE  e > q.made
  <2>1. q # NoRow /\ q.made \in Nat /\ e \in Nat
    BY ConstantsTyped, RowTyped
  <2>2. q.made <= q.at /\ q.made # e
    BY <1>11, <2>1 DEF RowOK, RowPast, ToldOf, EntryTold
  <2>. QED
    BY <1>11, <2>1, <2>2
<1>12. DiskOf(t)'
  <2>1. ASSUME Sound(t), index[t] # NoRow, NEW e \in Entries
        PROVE  /\ EntryTold(t, e) /\ index[t].at = e => h.log[e].ed > 0
               /\ TextTold(t, e) /\ index[t].made = e => h.body >= e
    <3>1. index[t] \in Rows /\ index[t].made = r.made
      BY <1>1, <1>3, <1>6, <1>7, <2>1, DiskTyped DEF HeldBy, SameRow
    <3>2. EntryTold(t, e) /\ index[t].at = e => file[t].log[e].ed > 0 /\ e > index[t].made
      BY <1>6, <1>11, <2>1, <3>1 DEF DiskOf
    <3>. QED
      BY <1>3, <1>7, <2>1, <3>1, <3>2
  <2>. QED
    BY <1>2, <1>3, <1>6, <1>7, <2>1 DEF DiskOf, RowOK
<1>13. ASSUME NEW x \in Stores \ {s} PROVE HeldOf(x, t)'
  <2>. DEFINE q == mem[x].rows[t]
  <2>1. ASSUME Sound(t), q # NoRow, NEW e \in Entries
        PROVE  /\ file[t].log[e].ed > 0 /\ e > q.made => h.log[e].ed > 0
               /\ EntryTold(t, e) /\ q.at = e => e > q.made
               /\ TextTold(t, e) /\ q.made = e => h.body >= e
    <3>1. q \in Rows /\ q.made = r.made
      BY <1>1, <1>3, <1>6, <1>7, <2>1, MemTyped DEF TwinsOf, SameRow
    <3>2. EntryTold(t, e) /\ q.at = e => e > q.made
      BY <1>6, <1>11, <3>1 DEF HeldBy
    <3>. QED
      BY <1>3, <1>7, <2>1, <3>1, <3>2
  <2>2. Sound(t) /\ q # NoRow => Told(mem[x], t)'
    BY <1>1, <1>2, <1>6, <1>7, <2>1 DEF Told, Loaded, HeldBy
  <2>3. Sound(t) /\ q # NoRow /\ Loaded(mem[x], t) /\ ~Owing(mem[x], t) => OnFile(mem[x], t)'
    BY <1>1, <1>2, <1>6, <1>7, <2>1 DEF OnFile, HeldBy
  <2>4. x \notin fresh'[t] /\ t \notin mem[x].todo
    BY <1>2, <1>5
  <2>. QED
    BY <1>1, <1>2, <1>6, <1>7, <2>2, <2>3, <2>4 DEF HeldOf, HeldBy, Loaded, Owing, Busy, RowOK
<1>14. HeldOf(s, t)'
  <2>1. AboveDisk(mem[s], t)'
    <3>1. \A e \in Entries : h.log[e].ed \in Nat
      BY <1>3, EntryTyped DEF Contents, Logs, LogEntries
    <3>. QED
      BY <1>1, <1>2, <3>1 DEF AboveDisk, Above, NotOlder
  <2>2. Sound(t) => Told(mem[s], t)'
    <3>1. ASSUME Sound(t), NEW e \in Entries, EntryTold(t, e), r.at = e PROVE h.log[e].ed > 0
      <4>1. e > r.made
        BY <1>3, <1>6, <1>11, <3>1 DEF HeldBy
      <4>2. h.log[e].ed > 0 \/ file[t].log[e].ed > 0
        BY <1>3, <1>6, <3>1 DEF HeldBy, Told
      <4>. QED
        BY <1>3, <1>7, <3>1, <4>1, <4>2
    <3>. QED
      BY <1>1, <1>2, <1>3, <1>7, <3>1 DEF Told, Loaded
  <2>3. Sound(t) => OnFile(mem[s], t)'
    BY <1>1, <1>2, <1>3, <1>7 DEF OnFile
  <2>. QED
    BY <1>1, <1>2, <1>3, <1>6, <1>7, <2>1, <2>2, <2>3
    DEF HeldOf, HeldBy, Loaded, Owing, Busy, RowOK
<1>15. \A x \in Stores, u \in Tasks : mem'[x].rows[u] = mem[x].rows[u]
  BY <1>1
<1>16. ASSUME NEW x \in Stores, NEW u \in Tasks PROVE Linked(x, u)'
  <2>1. Linked(x, u) /\ (Busy(mem'[x]) => Busy(mem[x]))
    BY <1>1 DEF IInv, Kept, Busy
  <2>. QED
    BY <1>2, <1>15, <2>1 DEF Linked, Spared
<1>17. ASSUME NEW x \in Stores, NEW y \in Stores, NEW u \in Tasks PROVE TwinsOf(x, y, u)'
  <2>1. TwinsOf(x, y, u)
    BY DEF IInv, Kept
  <2>. QED
    BY <1>2, <1>15, <2>1 DEF TwinsOf, Spared
<1>18. Kept'
  BY <1>8, <1>9, <1>10, <1>12, <1>13, <1>14, <1>16, <1>17 DEF Kept
<1>19. OneFlush'
  BY <1>1, <1>2, OneFlushStays DEF IInv, OneFlush, Busy
<1>. QED
  BY <1>4, <1>18, <1>19

(* A content file that fails keeps it.                                      *)
LEMMA ContentFailsKeeps ==
  ASSUME IInv, TypeOK', NEW s \in Stores, NEW t \in Tasks, ContentFails(s, t)
  PROVE  Kept' /\ ToldPast' /\ OneFlush'
<1>1. /\ TypeOK /\ Becomes(s) /\ mem'[s].todo = mem[s].todo \ {t}
      /\ mem'[s].dirty = mem[s].dirty \cup {t}
      /\ mem'[s].rows = mem[s].rows /\ mem'[s].held = mem[s].held
      /\ mem'[s].removed = mem[s].removed /\ mem'[s].at = "contents"
      /\ mem[s].at = "contents" /\ t \in mem[s].todo
  BY ContentFailsMem DEF IInv, ContentFails
<1>2. UNCHANGED <<index, tracker, file, seen, fresh, now, told, deleted>>
      /\ spoilt' = spoilt \cup {t}
  BY DEF ContentFails, diskVars, stampVars
<1>3. Later /\ ToldPast' /\ \A u \in Tasks, e \in Entries : TextTold(u, e)' => TextTold(u, e)
  BY <1>2, LaterIfStill
<1>4. ASSUME NEW u \in Tasks \ {t} PROVE HeldOf(s, u)'
  <2>1. HeldBy(s, mem[s], u) /\ mem[s] \in Memories
    BY <1>1, MemTyped DEF IInv, Kept, HeldOf
  <2>2. SameBut(mem[s], mem'[s], u)
    BY <1>1 DEF SameBut, Busy
  <2>. QED
    BY <1>1, <1>2, <1>3, <2>1, <2>2, HeldStays
<1>5. HeldOf(s, t)'
  <2>1. HeldBy(s, mem[s], t)
    BY DEF IInv, Kept, HeldOf
  <2>2. ~Sound(t)' /\ t \in spoilt' /\ (Spared(t)' <=> Spared(t))
    BY <1>2 DEF Sound, Spared
  <2>. QED
    BY <1>1, <1>2, <2>1, <2>2 DEF HeldOf, HeldBy, Loaded, Owing, Busy, RowOK, AboveDisk
<1>6. ASSUME NEW u \in Tasks PROVE Linked(s, u)' /\ \A x \in Stores : Fits(mem'[s].rows[u], x, u)
  <2>1. Linked(s, u) /\ Busy(mem[s])
    BY <1>1 DEF IInv, Kept, Busy
  <2>2. RowFrom(mem'[s].rows[u], mem[s].rows[u], index[u])
    BY <1>1 DEF RowFrom
  <2>. QED
    BY <1>1, <1>2, <2>1, <2>2, TwinsAreFrom DEF Linked, Spared
<1>7. Kept'
  <2>1. \A u \in Tasks : HeldOf(s, u)' /\ Linked(s, u)'
    BY <1>4, <1>5, <1>6
  <2>. QED
    BY <1>1, <1>2, <1>3, <1>6, <2>1, StepKeeps
<1>8. OneFlush'
  BY <1>1, <1>2, OneFlushStays DEF IInv, OneFlush, Busy
<1>. QED
  BY <1>3, <1>7, <1>8

(* Removing the directories of deleted tasks keeps it.                      *)
LEMMA RemoveDirsKeeps ==
  ASSUME IInv, TypeOK', NEW s \in Stores, RemoveDirs(s)
  PROVE  Kept' /\ ToldPast' /\ OneFlush'
<1>1. /\ TypeOK /\ Becomes(s) /\ mem'[s].removed = {}
      /\ mem'[s].rows = mem[s].rows /\ mem'[s].held = mem[s].held
      /\ mem'[s].dirty = mem[s].dirty /\ mem'[s].todo = mem[s].todo
      /\ mem'[s].at = "index" /\ mem[s].at = "contents" /\ mem[s].todo = {}
      /\ \A x \in Stores \ {s} : mem'[x] = mem[x]
  BY RemoveDirsMem DEF IInv, RemoveDirs, Becomes
<1>2. /\ UNCHANGED <<index, tracker, seen, now, told, deleted, spoilt>>
      /\ \A t \in Tasks : /\ file'[t] = IF t \in mem[s].removed THEN NoFile ELSE file[t]
                          /\ fresh'[t] \subseteq fresh[t]
  BY DEF RemoveDirs, history
<1>3. Later /\ ToldPast' /\ \A u \in Tasks, e \in Entries : TextTold(u, e)' => TextTold(u, e)
  BY <1>2, LaterIfStill
<1>4. ASSUME NEW x \in Stores, NEW t \in Tasks
      PROVE  /\ mem[x] \in Memories /\ HeldBy(x, mem[x], t) /\ SameBut(mem[x], mem'[x], t)
             /\ mem'[x].rows[t] = mem[x].rows[t] /\ (x \in fresh'[t] => x \in fresh[t])
  <2>1. mem[x] \in Memories /\ HeldBy(x, mem[x], t)
    BY <1>1, MemTyped DEF IInv, Kept, HeldOf
  <2>2. SameBut(mem[x], mem'[x], t) /\ mem'[x].rows[t] = mem[x].rows[t]
    BY <1>1 DEF SameBut, Busy
  <2>. QED
    BY <1>2, <2>1, <2>2
<1>5. ASSUME NEW t \in Tasks, t \notin mem[s].removed
      PROVE  DiskOf(t)' /\ \A x \in Stores : HeldOf(x, t)'
  BY <1>2, <1>3, <1>4, <1>5, DiskStays, HeldStays
<1>6. ASSUME NEW t \in Tasks, t \in mem[s].removed
      PROVE  DiskOf(t)' /\ \A x \in Stores : HeldOf(x, t)'
  <2>1. ~Spared(t) /\ ~Spared(t)' /\ ~Sound(t)'
    BY <1>2, <1>4, <1>6 DEF HeldBy, Spared, Sound
  <2>2. ContentPast(NoFile, now)
    <3>1. now \in Nat
      BY <1>1, ConstantsTyped DEF TypeOK
    <3>. QED
      BY <3>1 DEF ContentPast, LogPast, NoFile, NoLog, NoEntry, Entries
  <2>3. DiskOf(t)'
    BY <1>2, <1>6, <2>1, <2>2 DEF DiskOf, RowOK, IInv, Kept
  <2>4. ASSUME NEW x \in Stores PROVE HeldOf(x, t)'
    <3>1. HeldBy(x, mem[x], t) /\ SameBut(mem[x], mem'[x], t)
          /\ mem'[x].rows[t] = mem[x].rows[t]
      BY <1>4
    <3>. QED
      BY <1>2, <2>1, <3>1 DEF HeldOf, HeldBy, SameBut, Loaded, Owing, RowOK
  <2>. QED
    BY <2>3, <2>4
<1>7. ASSUME NEW x \in Stores, NEW t \in Tasks PROVE Linked(x, t)'
  <2>1. Linked(x, t) /\ (Busy(mem'[x]) => Busy(mem[x])) /\ mem'[x].rows[t] = mem[x].rows[t]
    BY <1>1 DEF IInv, Kept, Busy
  <2>. QED
    BY <1>2, <2>1 DEF Linked, Spared
<1>8. ASSUME NEW x \in Stores, NEW y \in Stores, NEW t \in Tasks PROVE TwinsOf(x, y, t)'
  <2>1. TwinsOf(x, y, t)
    BY DEF IInv, Kept
  <2>. QED
    BY <1>2, <1>4, <2>1 DEF TwinsOf, Spared
<1>9. Kept'
  BY <1>5, <1>6, <1>7, <1>8 DEF Kept
<1>10. OneFlush'
  BY <1>1, <1>2, OneFlushStays DEF IInv, OneFlush, Busy
<1>. QED
  BY <1>3, <1>9, <1>10

(* The index that is written says nothing that is not in the files.          *)
LEMMA WriteIndexKeeps ==
  ASSUME IInv, TypeOK', NEW s \in Stores, WriteIndex(s)
  PROVE  Kept' /\ ToldPast' /\ OneFlush'
<1>1. /\ TypeOK /\ Becomes(s) /\ mem[s].at = "index" /\ mem[s].todo = {}
      /\ IF mem[s].closing THEN mem'[s] = Gone
         ELSE /\ mem'[s].rows = mem[s].rows /\ mem'[s].held = mem[s].held
              /\ mem'[s].dirty = mem[s].dirty /\ mem'[s].removed = mem[s].removed
              /\ mem'[s].todo = mem[s].todo /\ mem'[s].at = "idle"
      /\ \A x \in Stores \ {s} : mem'[x] = mem[x]
  BY EndsMem DEF IInv, WriteIndex, OneFlush, Becomes
<1>2. /\ index' = mem[s].rows /\ tracker' = "ready" /\ UNCHANGED <<file, now, told, deleted, spoilt>>
      /\ seen' \subseteq {s} /\ \A t \in Tasks : fresh'[t] \subseteq fresh[t]
  BY DEF WriteIndex, history
<1>3. ToldPast' /\ now \in Nat
  BY <1>1, <1>2, ConstantsTyped DEF IInv, TypeOK, ToldPast
<1>4. \A t \in Tasks :
        /\ (Spared(t)' <=> Spared(t)) /\ (Sound(t)' <=> Sound(t)) /\ (Sound(t) => Spared(t))
        /\ \A e \in Entries : /\ EntryTold(t, e)' <=> EntryTold(t, e)
                              /\ TextTold(t, e)' <=> TextTold(t, e)
  BY <1>2 DEF Spared, Sound, EntryTold, TextTold
<1>5. \A x \in Stores, t \in Tasks : HeldBy(x, mem[x], t) /\ TwinsOf(x, s, t)
  BY DEF IInv, Kept, HeldOf
<1>6. \A x \in Stores \ {s} : ~Busy(mem[x])
  BY <1>1 DEF IInv, OneFlush, Busy
<1>7. ~Busy(mem'[s]) /\ mem'[s].todo = {}
  BY <1>1 DEF Busy, Gone
<1>8. ASSUME NEW t \in Tasks PROVE DiskOf(t)'
  <2>. DEFINE r == mem[s].rows[t]
  <2>1. HeldBy(s, mem[s], t) /\ ContentPast(file[t], now) /\ r \in Rows \cup {NoRow}
    BY <1>1, <1>5, MemTyped DEF IInv, Kept, DiskOf
  <2>2. ASSUME Sound(t), r # NoRow, NEW e \in Entries
        PROVE  /\ EntryTold(t, e) /\ r.at = e => file[t].log[e].ed > 0
               /\ TextTold(t, e) /\ r.made = e => file[t].body >= e
    <3>1. ~Owing(mem[s], t) /\ Told(mem[s], t)
      BY <1>1, <2>1, <2>2 DEF HeldBy, Owing, Busy, Sound
    <3>2. EntryTold(t, e) /\ r.at = e => e > r.made
      <4>1. r.made \in Nat /\ e \in Nat
        BY <2>1, <2>2, RowTyped, ConstantsTyped
      <4>2. r.made <= r.at /\ (EntryTold(t, e) => r.made # e)
        BY <2>1, <2>2 DEF HeldBy, RowOK, RowPast, ToldOf, EntryTold
      <4>. QED
        BY <4>1, <4>2
    <3>3. CASE Loaded(mem[s], t)
      <4>1. OnFile(mem[s], t)
        BY <2>1, <2>2, <3>1, <3>3 DEF HeldBy
      <4>. QED
        BY <3>1, <3>2, <4>1 DEF OnFile, Told
    <3>4. CASE ~Loaded(mem[s], t)
      BY <3>1, <3>4 DEF Told
    <3>. QED
      BY <3>3, <3>4
  <2>. QED
    BY <1>2, <1>4, <2>1, <2>2 DEF DiskOf, HeldBy, RowOK
<1>9. ASSUME NEW x \in Stores \ {s}, NEW t \in Tasks PROVE HeldOf(x, t)'
  <2>1. HeldBy(x, mem[x], t) /\ TwinsOf(x, s, t) /\ (x \in fresh'[t] => x \in fresh[t])
    BY <1>2, <1>5
  <2>. QED
    BY <1>1, <1>2, <1>4, <1>6, <2>1
    DEF HeldOf, HeldBy, TwinsOf, Loaded, Owing, RowOK, AboveDisk, Told, OnFile
<1>10. ASSUME NEW t \in Tasks PROVE HeldOf(s, t)'
  <2>1. HeldBy(s, mem[s], t) /\ (s \in fresh'[t] => s \in fresh[t])
        /\ mem[s].rows[t] \in Rows \cup {NoRow}
    BY <1>1, <1>2, <1>5, MemTyped
  <2>2. CASE mem[s].closing
    <3>1. mem'[s].rows[t] = NoRow /\ mem'[s].held[t] = Unread /\ mem'[s].dirty = {}
          /\ mem'[s].todo = {} /\ mem'[s].removed = {}
      BY <1>1, <2>2 DEF Gone, NoRows
    <3>2. ContentPast(Unread, now)
      BY <1>3 DEF ContentPast, LogPast, Unread, NoLog, NoEntry, Entries
    <3>3. SameEdge(NoRow, mem[s].rows[t])
      BY <2>1, NoRowHasNoEdge
    <3>. QED
      BY <1>2, <1>7, <3>1, <3>2, <3>3
      DEF HeldOf, HeldBy, Loaded, Owing, RowOK, RowPast, ToldOf, SameRow
  <2>3. CASE ~mem[s].closing
    <3>1. SameEdge(mem[s].rows[t], mem[s].rows[t]) /\ SameRow(mem[s].rows[t], mem[s].rows[t])
      BY DEF SameEdge, SameRow
    <3>. QED
      BY <1>1, <1>2, <1>4, <1>7, <2>1, <2>3, <3>1
      DEF HeldOf, HeldBy, Loaded, Owing, RowOK, AboveDisk, Told, OnFile
  <2>. QED
    BY <2>2, <2>3
<1>11. ASSUME NEW x \in Stores, NEW t \in Tasks PROVE Linked(x, t)'
  <2>1. CASE x = s /\ ~mem[s].closing
    <3>1. mem[s].rows[t].link <= mem[s].rows[t].link
      BY <1>1, MemTyped, NoRowHasNoEdge
    <3>. QED
      BY <1>1, <1>2, <2>1, <3>1 DEF Linked
  <2>2. CASE x # s \/ mem[s].closing
    <3>1. x \notin seen' /\ ~Busy(mem'[x])
      BY <1>1, <1>2, <1>6, <1>7, <2>2 DEF WriteIndex
    <3>. QED
      BY <3>1 DEF Linked
  <2>. QED
    BY <2>1, <2>2
<1>12. ASSUME NEW x \in Stores, NEW y \in Stores, NEW t \in Tasks PROVE TwinsOf(x, y, t)'
  <2>1. TwinsOf(x, y, t) /\ mem[x].rows[t] \in Rows \cup {NoRow} /\ mem[y].rows[t] \in Rows \cup {NoRow}
    BY <1>1, MemTyped DEF IInv, Kept
  <2>2. /\ mem'[x].rows[t] \in {mem[x].rows[t], NoRow} /\ mem'[y].rows[t] \in {mem[y].rows[t], NoRow}
    BY <1>1 DEF Gone, NoRows
  <2>. QED
    BY <1>4, <2>1, <2>2, NoRowHasNoEdge DEF TwinsOf, SameRow
<1>13. Kept'
  BY <1>8, <1>9, <1>10, <1>11, <1>12 DEF Kept
<1>14. OneFlush'
  BY <1>1, <1>2, <1>6, <1>7 DEF OneFlush, IInv
<1>. QED
  BY <1>3, <1>13, <1>14

(* An index that fails to be written keeps it.                              *)
LEMMA IndexFailsKeeps ==
  ASSUME IInv, TypeOK', NEW s \in Stores, IndexFails(s)
  PROVE  Kept' /\ ToldPast' /\ OneFlush'
<1>1. /\ TypeOK /\ Becomes(s) /\ mem[s].at = "index" /\ mem[s].todo = {}
      /\ IF mem[s].closing THEN mem'[s] = Gone
         ELSE /\ mem'[s].rows = mem[s].rows /\ mem'[s].held = mem[s].held
              /\ mem'[s].dirty = mem[s].dirty /\ mem'[s].removed = mem[s].removed
              /\ mem'[s].todo = mem[s].todo /\ mem'[s].at = "idle"
  BY EndsMem DEF IInv, IndexFails, OneFlush
<1>2. UNCHANGED <<index, tracker, file, now, told, deleted, spoilt>>
      /\ IF mem[s].closing THEN Forgets(s) ELSE UNCHANGED <<seen, fresh>>
  BY DEF IndexFails, diskVars, history, stampVars
<1>3. mem'[s].todo = {} /\ ~Busy(mem'[s]) /\ seen' \subseteq seen
  BY <1>1, <1>2 DEF Busy, Gone, Forgets
<1>4. OneFlush'
  BY <1>1, <1>2, <1>3, OneFlushStays DEF IInv, OneFlush
<1>5. CASE mem[s].closing
  BY <1>1, <1>2, <1>4, <1>5, GoneKeeps DEF Forgets
<1>6. CASE ~mem[s].closing
  <2>1. Later /\ ToldPast' /\ \A u \in Tasks, e \in Entries : TextTold(u, e)' => TextTold(u, e)
    BY <1>2, LaterIfStill
  <2>2. ASSUME NEW t \in Tasks
        PROVE  /\ HeldOf(s, t)' /\ Linked(s, t)'
               /\ \A x \in Stores : Fits(mem'[s].rows[t], x, t)
    <3>1. HeldBy(s, mem[s], t) /\ mem[s] \in Memories /\ Linked(s, t)
      BY <1>1, MemTyped DEF IInv, Kept, HeldOf
    <3>2. SameBut(mem[s], mem'[s], t) /\ mem'[s].rows[t] = mem[s].rows[t]
      BY <1>1, <1>3, <1>6 DEF SameBut
    <3>3. HeldOf(s, t)'
      BY <1>2, <1>6, <2>1, <3>1, <3>2, HeldStays
    <3>4. Linked(s, t)'
      BY <1>2, <1>3, <3>1, <3>2 DEF Linked, Spared
    <3>. QED
      BY <3>2, <3>3, <3>4, TwinsAreFrom DEF RowFrom
  <2>3. Kept'
    BY <1>1, <1>2, <1>6, <2>1, <2>2, StepKeeps
  <2>. QED
    BY <1>4, <2>1, <2>3
<1>. QED
  BY <1>5, <1>6

(* git moves the index, and no store.                                       *)
LEMMA GitKeeps ==
  ASSUME IInv, TypeOK', Conflicts \/ Resolves
  PROVE  Kept' /\ ToldPast' /\ OneFlush'
<1>1. /\ TypeOK /\ mem' = mem /\ seen' = {} /\ UNCHANGED <<index, file, fresh, now, told, deleted, spoilt>>
      /\ \A s \in Stores : ~Busy(mem[s])
      /\ tracker' \in {"ready", "conflicted"}
  BY DEF IInv, Conflicts, Resolves, history, AtRest, Busy
<1>2. Later /\ ToldPast'
  BY <1>1, LaterIfStill
<1>3. \A t \in Tasks : DiskOf(t)' /\ \A x \in Stores : HeldOf(x, t)'
  BY <1>1, <1>2, DiskStays, HeldOfOther
<1>4. \A x \in Stores, t \in Tasks : Linked(x, t)'
  BY <1>1 DEF Linked
<1>5. \A x, y \in Stores, t \in Tasks : TwinsOf(x, y, t)'
  BY <1>1 DEF IInv, Kept, TwinsOf, Spared
<1>6. OneFlush'
  BY <1>1 DEF IInv, OneFlush
<1>. QED
  BY <1>2, <1>3, <1>4, <1>5, <1>6 DEF Kept

-----------------------------------------------------------------------------
(* The invariant                                                            *)

(* The invariant holds at first.                                            *)
LEMMA InitKept == Init => IInv
<1>. SUFFICES ASSUME Init PROVE IInv
  OBVIOUS
<1>1. TypeOK /\ now = 0 /\ told = {} /\ deleted = {} /\ seen = {}
  BY InitTyped DEF Init
<1>2. \A s \in Stores : mem[s] = Gone
  BY DEF Init
<1>3. \A t \in Tasks : /\ index[t] \in {NoRow, [made |-> 0, at |-> 0, set |-> 0, link |-> 0, linked |-> FALSE]}
                       /\ file[t] \in {NoFile, Blank}
  BY DEF Init
<1>4. \A t \in Tasks : DiskOf(t)
  <2>1. \A t \in Tasks : RowOK(t, index[t])
    BY <1>1, <1>3 DEF RowOK, RowPast, ToldOf
  <2>2. ContentPast(NoFile, now) /\ ContentPast(Blank, now)
    BY <1>1 DEF ContentPast, LogPast, NoFile, Blank, NoLog, NoEntry, Entries
  <2>. QED
    BY <1>1, <1>3, <2>1, <2>2 DEF DiskOf, EntryTold, TextTold
<1>5. \A s \in Stores, t \in Tasks : HeldOf(s, t) /\ Linked(s, t)
  <2>1. \A s \in Stores, t \in Tasks : HeldOf(s, t)
    BY <1>1, <1>2, DiskTyped, GoneHeld DEF HeldOf
  <2>. QED
    BY <1>1, <1>2, <2>1 DEF Linked, Busy, Gone
<1>6. \A s, x \in Stores, t \in Tasks : TwinsOf(s, x, t)
  BY <1>2 DEF TwinsOf, SameEdge, SameRow
<1>7. OneFlush
  <2>1. tracker = "absent" => index = NoRows
    BY DEF Init, NoRows
  <2>. QED
    BY <1>1, <1>2, <2>1 DEF OneFlush, Busy, Gone
<1>. QED
  BY <1>1, <1>4, <1>5, <1>6, <1>7 DEF IInv, Kept, ToldPast

(* Every action keeps the invariant.                                        *)
LEMMA StepKept == IInv /\ [Next]_vars => IInv'
<1>. SUFFICES ASSUME IInv, [Next]_vars PROVE IInv'
  OBVIOUS
<1>1. TypeOK'
  BY TypesKept
<1>. DEFINE Done == Kept' /\ ToldPast' /\ OneFlush'
<1>2. CASE UNCHANGED vars
  <2>1. Kept'
    BY <1>2 DEF vars, IInv, Kept, DiskOf, HeldOf, HeldBy, Linked, TwinsOf, RowOK, Spared, Sound,
                EntryTold, TextTold, AboveDisk, Told, OnFile
  <2>. QED
    BY <1>1, <1>2, <2>1 DEF vars, IInv, ToldPast, OneFlush
<1>3. ASSUME NEW s \in Stores, Open(s) PROVE Done
  BY <1>1, <1>3, OpenKeeps
<1>4. ASSUME NEW s \in Stores, Crash(s) PROVE Done
  <2>1. Becomes(s) /\ mem'[s] = Gone
    BY <1>4, GoneMem DEF Crash, IInv
  <2>2. UNCHANGED <<index, tracker, file, now, told, deleted, spoilt>> /\ Forgets(s)
    BY <1>4 DEF Crash, diskVars, history
  <2>3. Kept' /\ ToldPast'
    BY <1>1, <2>1, <2>2, GoneKeeps DEF Forgets
  <2>4. OneFlush'
    <3>1. ~Busy(mem'[s]) /\ mem'[s].todo = {}
      BY <2>1 DEF Busy, Gone
    <3>2. seen' # {} => tracker = "ready"
      BY <2>2 DEF Forgets, IInv, OneFlush
    <3>. QED
      BY <2>1, <2>2, <3>1, <3>2, OneFlushStays
  <2>. QED
    BY <2>3, <2>4
<1>5. ASSUME NEW s \in Stores, Close(s) PROVE Done
  <2>1. /\ mem[s].at = "idle" /\ Alone(s) /\ mem' = [mem EXCEPT ![s] = Begun(s, TRUE)]
        /\ UNCHANGED <<index, tracker, file, now, told, deleted, spoilt>>
        /\ IF mem'[s] = Gone THEN Forgets(s) ELSE SeesIndex(s) /\ UNCHANGED fresh
    BY <1>5 DEF Close, diskVars, history
  <2>. QED
    BY <1>1, <2>1, FlushKeeps
<1>6. ASSUME NEW s \in Stores, Refresh(s) PROVE Done
  BY <1>1, <1>6, RefreshKeeps
<1>7. ASSUME NEW s \in Stores, Reload(s) PROVE Done
  BY <1>1, <1>7, ReloadKeeps
<1>8. ASSUME NEW s \in Stores, Flush(s) PROVE Done
  <2>1. /\ mem[s].at = "idle" /\ Alone(s) /\ mem' = [mem EXCEPT ![s] = Begun(s, FALSE)]
        /\ UNCHANGED <<index, tracker, file, now, told, deleted, spoilt>>
        /\ SeesIndex(s) /\ UNCHANGED fresh
    BY <1>8 DEF Flush, diskVars, history
  <2>2. mem'[s] # Gone
    <3>1. mem'[s] = Begun(s, FALSE)
      BY <2>1, FlushMem DEF IInv
    <3>2. Begun(s, FALSE).at \in {"idle", "contents"}
      BY <2>1, BegunIs DEF IInv
    <3>3. Gone.at = "gone"
      BY DEF Gone
    <3>. QED
      BY <3>1, <3>2, <3>3
  <2>. QED
    BY <1>1, <2>1, <2>2, FlushKeeps
<1>9. ASSUME NEW s \in Stores, RemoveDirs(s) PROVE Done
  BY <1>1, <1>9, RemoveDirsKeeps
<1>10. ASSUME NEW s \in Stores, WriteIndex(s) PROVE Done
  BY <1>1, <1>10, WriteIndexKeeps
<1>11. ASSUME NEW s \in Stores, IndexFails(s) PROVE Done
  BY <1>1, <1>11, IndexFailsKeeps
<1>12. ASSUME NEW s \in Stores, NEW t \in Tasks, WriteContent(s, t) PROVE Done
  BY <1>1, <1>12, WriteContentKeeps
<1>13. ASSUME NEW s \in Stores, NEW t \in Tasks, ContentFails(s, t) PROVE Done
  BY <1>1, <1>13, ContentFailsKeeps
<1>14. ASSUME NEW s \in Stores, NEW t \in Tasks, Get(s, t) PROVE Done
  BY <1>1, <1>14, GetKeeps
<1>15. ASSUME NEW s \in Stores, NEW t \in Tasks, EditStep(s, t) PROVE Done
  BY <1>1, <1>15, EditShape, CreateKeeps, EditedKeeps, DeleteKeeps
<1>16. ASSUME Conflicts \/ Resolves PROVE Done
  BY <1>1, <1>16, GitKeeps
<1>17. Done => IInv'
  BY <1>1 DEF IInv
<1>. HIDE DEF Done
<1>. QED
  BY <1>2, <1>3, <1>4, <1>5, <1>6, <1>7, <1>8, <1>9, <1>10, <1>11, <1>12, <1>13, <1>14, <1>15,
     <1>16, <1>17 DEF Next, FlushStep

(* The inductive invariant: the disk, every store's memory and every two    *)
(* memories agree on each task, one flush at a time, wherever the stores of *)
(* write_now, refresh_from_disk and a crash stand.                          *)
THEOREM Invariance == Spec => []IInv
  BY InitKept, StepKept, PTL DEF Spec

-----------------------------------------------------------------------------
(* What follows                                                             *)

(* The disk, the stores and the bounds keep their types.                    *)
THEOREM TypeCorrect == Spec => []TypeOK
<1>1. IInv => TypeOK
  BY DEF IInv
<1>. QED
  BY <1>1, Invariance, PTL

(* write_now writes the contents before the index: a row in tasks.json that *)
(* carries the stamp of an accepted edit has its text or its entry beside it*)
(* wherever a crash falls, whichever stores write and whatever they merged. *)
THEOREM IndexAlwaysBacked == Spec => []IndexIsBacked
<1>1. IInv => IndexIsBacked
  <2>. SUFFICES ASSUME IInv, NEW w \in told, w[1] \notin deleted \cup spoilt,
                       index[w[1]].at = w[2]
                PROVE  Backed(w[1], w[2], w[3])
    BY DEF IndexIsBacked
  <2>. DEFINE t == w[1]
              e == w[2]
  <2>1. t \in Tasks /\ e \in Entries /\ w[3] \in {"entry", "text"} /\ w = <<t, e, w[3]>>
        /\ e \in Nat /\ e > 0
    BY ConstantsTyped DEF IInv, TypeOK, Entries
  <2>2. DiskOf(t) /\ Sound(t) /\ index[t] # NoRow /\ index[t] \in Rows
    <3>1. NoRow.at = -1
      BY DEF NoRow
    <3>. QED
      BY <2>1, <3>1, DiskTyped DEF IInv, Kept, Sound
  <2>3. CASE w[3] = "entry"
    <3>1. file[t].log[e].ed > 0
      BY <2>1, <2>2, <2>3 DEF DiskOf, EntryTold
    <3>2. NoFile.log[e].ed = 0
      BY <2>1 DEF NoFile, NoLog, NoEntry
    <3>. QED
      BY <2>3, <3>1, <3>2 DEF Backed
  <2>4. CASE w[3] = "text"
    <3>1. TextTold(t, e)
      BY <2>1, <2>4 DEF TextTold
    <3>2. index[t].made >= e /\ index[t].made <= index[t].at
      BY <2>1, <2>2, <3>1 DEF DiskOf, RowOK, RowPast, ToldOf, TextTold
    <3>3. index[t].made = e
      BY <2>1, <2>2, <3>2, RowTyped
    <3>4. file[t].body >= e
      BY <2>1, <2>2, <3>1, <3>3 DEF DiskOf
    <3>5. NoFile.body = -1 /\ ~(-1 >= e)
      BY <2>1 DEF NoFile
    <3>. QED
      BY <2>4, <3>4, <3>5 DEF Backed
  <2>. QED
    BY <2>1, <2>3, <2>4
<1>. QED
  BY <1>1, Invariance, PTL

(* No single step takes anything back of a task nobody has deleted.         *)
LEMMA StepTakesNothingBack ==
  ASSUME IInv, Next, NEW t \in Tasks, t \notin deleted'
  PROVE  /\ \A e \in OwnEntries(t) : NotOlder(file[t].log[e], file'[t].log[e])
         /\ index[t].link <= index'[t].link
         /\ (index[t].link = index'[t].link => index[t].linked = index'[t].linked)
<1>. DEFINE LogSafe == \A e \in OwnEntries(t) : NotOlder(file[t].log[e], file'[t].log[e])
            EdgeSafe == /\ index[t].link <= index'[t].link
                        /\ (index[t].link = index'[t].link => index[t].linked = index'[t].linked)
<1>1. TypeOK /\ index[t].link \in Int
  <2>1. TypeOK
    BY DEF IInv
  <2>2. index[t] \in Rows => index[t].link \in Int
    BY <2>1, ConstantsTyped DEF Rows, Stamps
  <2>3. NoRow.link \in Int
    BY DEF NoRow
  <2>. QED
    BY <2>1, <2>2, <2>3, DiskTyped
<1>2. LogSafe \/ file'[t] # file[t]
  <2>1. \A e \in Entries : file[t].log[e].ed \in Nat
    <3>1. file[t].log \in Logs
      BY <1>1, DiskTyped, ConstantsTyped DEF Contents, NoFile
    <3>. QED
      BY <3>1, EntryTyped DEF Logs, LogEntries
  <2>2. \A e \in Entries : NotOlder(file[t].log[e], file[t].log[e])
    BY <2>1 DEF NotOlder
  <2>. QED
    BY <2>2 DEF OwnEntries
<1>3. EdgeSafe \/ index' # index
  BY <1>1
<1>4. \A s \in Stores : HeldBy(s, mem[s], t) /\ Linked(s, t)
  BY DEF IInv, Kept, HeldOf
<1>5. ASSUME NEW s \in Stores, WriteIndex(s) PROVE LogSafe /\ EdgeSafe
  <2>1. Spared(t) /\ Busy(mem[s]) /\ index' = mem[s].rows /\ file' = file
    BY <1>5 DEF WriteIndex, history, Spared, Busy
  <2>2. Linked(s, t) /\ SameEdge(mem[s].rows[t], index[t])
    BY <1>4 DEF HeldBy
  <2>3. EdgeSafe
    BY <2>1, <2>2 DEF Linked, SameEdge
  <2>. QED
    BY <1>2, <2>1, <2>3
<1>6. ASSUME NEW s \in Stores, NEW u \in Tasks, WriteContent(s, u) PROVE LogSafe /\ EdgeSafe
  <2>1. index' = index /\ deleted' = deleted
    BY <1>6 DEF WriteContent, history
  <2>2. CASE u # t
    <3>1. file'[t] = file[t]
      BY <1>1, <1>6, <2>2 DEF WriteContent, TypeOK
    <3>. QED
      BY <1>2, <1>3, <2>1, <3>1
  <2>3. CASE u = t
    <3>1. Spared(t) /\ file'[t] = mem[s].held[t]
      BY <1>1, <1>6, <2>1, <2>3 DEF WriteContent, Spared, TypeOK
    <3>2. mem[s].rows[t] # NoRow /\ Above(file[t].log, mem[s].held[t].log, mem[s].rows[t].made)
      BY <1>6, <2>3, <3>1, FileGrows
    <3>3. index[t] # NoRow => index[t].made = mem[s].rows[t].made
      BY <1>4, <3>1, <3>2 DEF HeldBy, SameRow
    <3>4. LogSafe
      BY <3>1, <3>2, <3>3 DEF OwnEntries, Above
    <3>. QED
      BY <1>3, <2>1, <3>4
  <2>. QED
    BY <2>2, <2>3
<1>7. ASSUME NEW s \in Stores, RemoveDirs(s) PROVE LogSafe /\ EdgeSafe
  <2>1. deleted' = deleted /\ index' = index
    BY <1>7 DEF RemoveDirs, history
  <2>2. t \notin mem[s].removed
    BY <1>4, <2>1 DEF HeldBy, Spared
  <2>3. file'[t] = file[t]
    BY <1>7, <2>2 DEF RemoveDirs
  <2>. QED
    BY <1>2, <1>3, <2>1, <2>3
<1>8. ASSUME UNCHANGED <<index, file>> PROVE LogSafe /\ EdgeSafe
  BY <1>2, <1>3, <1>8
<1>9. ASSUME NEW s \in Stores, NEW u \in Tasks, EditStep(s, u) PROVE UNCHANGED <<index, file>>
  BY <1>9 DEF EditStep, Create, SetTitle, SetBody, Comment, SetStatus, Link, EditComment,
              DeleteComment, Delete, Put, diskVars
<1>10. ASSUME NEW s \in Stores, Open(s) \/ Crash(s) \/ Close(s) PROVE UNCHANGED <<index, file>>
  BY <1>10 DEF Open, Crash, Close, diskVars
<1>11. ASSUME NEW s \in Stores, Refresh(s) \/ Reload(s) \/ Flush(s) \/ IndexFails(s)
       PROVE  UNCHANGED <<index, file>>
  BY <1>11 DEF Refresh, Reload, Flush, IndexFails, diskVars
<1>12. ASSUME NEW s \in Stores, NEW u \in Tasks, Get(s, u) \/ ContentFails(s, u)
       PROVE  UNCHANGED <<index, file>>
  BY <1>12 DEF Get, ContentFails, diskVars
<1>13. ASSUME Conflicts \/ Resolves PROVE UNCHANGED <<index, file>>
  BY <1>13 DEF Conflicts, Resolves
<1>14. LogSafe /\ EdgeSafe
  <2>. HIDE DEF LogSafe, EdgeSafe
  <2>. QED
    BY <1>5, <1>6, <1>7, <1>8, <1>9, <1>10, <1>11, <1>12, <1>13 DEF Next, FlushStep
<1>. QED
  BY <1>14

(* Whichever store writes last, nothing on disk is taken back: no entry of a*)
(* log is lost, no edit of one undone, no withdrawn one returns, and no stale*)
(* copy of a row undoes an unlink (reconcile_content, union_links).         *)
THEOREM NothingIsTakenBack == Spec => NothingTakenBack
<1>1. ASSUME IInv, [Next]_vars
      PROVE  [\A t \in Tasks \ deleted' :
                /\ \A e \in OwnEntries(t) : NotOlder(file[t].log[e], file'[t].log[e])
                /\ index[t].link <= index'[t].link
                /\ index[t].link = index'[t].link => index[t].linked = index'[t].linked]_vars
  <2>1. CASE UNCHANGED vars
    BY <2>1
  <2>2. CASE Next
    BY <1>1, <2>2, StepTakesNothingBack
  <2>. QED
    BY <1>1, <2>1, <2>2
<1>. QED
  BY <1>1, Invariance, PTL DEF Spec, NothingTakenBack
=============================================================================
