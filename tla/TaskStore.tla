------------------------------ MODULE TaskStore ------------------------------
(***************************************************************************)
(* The task tracker of cide-tasks: an index of rows (.cide/tasks.json) and *)
(* one content file per task (.cide/tasks/<id>/task.json), written by      *)
(* every store that is open over the directory: this cide, the one of a    *)
(* colleague or of a build agent on a shared checkout, the next launch.    *)
(* A store answers from memory, is flushed by a thread of its own, reads   *)
(* the disk again before each write and merges what moved; a crash loses   *)
(* its memory and may fall between any two of its writes.                  *)
(*                                                                         *)
(* Times are the stamps of the edits (`now`), one edit per millisecond; a  *)
(* log entry (a comment or a status change) is named by the stamp it was   *)
(* made at.  A file's FileStamp is kept as the set of the stores that hold *)
(* the file's present one (`fresh`, `seen`).                               *)
(***************************************************************************)
EXTENDS Integers, FiniteSets

CONSTANTS
    Stores, Tasks,
    Latest,      \* bound on the stamps
    Cases        \* bounds: what may happen, and how often

Stamps == 0 .. Latest
Entries == 1 .. Latest
Kinds == {"create", "comment", "rewrite", "withdraw", "title", "move", "body", "link", "delete"}

Bounds == [edits : Nat, kinds : SUBSET Kinds, stores : SUBSET Stores, tasks : SUBSET Tasks,
           crashes : Nat, fails : Nat, conflicts : Nat, closes : Nat]

ASSUME ConstantsAssumption == Latest \in Nat /\ Cases \subseteq Bounds

VARIABLES
    index,        \* the rows in tasks.json
    tracker,      \* what tasks.json is: "absent", "ready", "conflicted"
    file,         \* each task's content file, or NoFile
    seen,         \* the stores whose recorded stamp is the index's present one
    fresh,        \* the stores whose recorded stamp is that of the task's file
    mem,          \* what each store holds
    now,          \* the stamp of the last edit
    case,         \* what may still happen
    told,         \* entries and texts whose edit was answered with success
    deleted,      \* tasks some store was told to delete
    spoilt        \* tasks of which a content file could not be written

diskVars == <<index, tracker, file>>
stampVars == <<seen, fresh>>
history == <<told, deleted, spoilt>>
vars == <<index, tracker, file, seen, fresh, mem, now, case, told, deleted, spoilt>>

NoRow == [made |-> -1, at |-> -1, set |-> -1, link |-> -1, linked |-> FALSE]
NoEntry == [ed |-> 0, dead |-> FALSE]
NoLog == [e \in Entries |-> NoEntry]
Blank == [body |-> 0, log |-> NoLog]
NoFile == [body |-> -1, log |-> NoLog]     \* no such file
Unread == [body |-> -2, log |-> NoLog]     \* content this process has not loaded
NoRows == [t \in Tasks |-> NoRow]

(* Made at `made`, its scalars set last at `set`; `link` stamps its one edge. *)
Rows == [made : Stamps, at : Stamps, set : Stamps, link : Stamps, linked : BOOLEAN]
Logs == [Entries -> [ed : Stamps, dead : BOOLEAN]]
Contents == [body : Stamps, log : Logs]
Indexes == [Tasks -> Rows \cup {NoRow}]

Gone == [at |-> "gone", rows |-> NoRows, held |-> [t \in Tasks |-> Unread], dirty |-> {},
         removed |-> {}, todo |-> {}, state |-> "Absent", due |-> FALSE, closing |-> FALSE]

Max2(a, b) == IF a >= b THEN a ELSE b

-----------------------------------------------------------------------------
(* The merge: pure functions over two copies                               *)

\* Mutant: the newer copy wins, deleted or not
NewerWins(mine, theirs) == IF theirs.ed > mine.ed THEN theirs ELSE mine

(* reconcile_comment: deleted wins, then the newer edit, a tie is mine.    *)
MergeEntry(mine, theirs) ==
    IF mine.dead \/ theirs.dead THEN IF mine.dead THEN mine ELSE theirs
    ELSE IF theirs.ed > mine.ed THEN theirs ELSE mine

MergeContent(mine, theirs) ==
    [body |-> mine.body, log |-> [e \in Entries |-> MergeEntry(mine.log[e], theirs.log[e])]]

Written(log) == {e \in Entries : log[e].ed > 0}

(* newest_content_stamp raises the row's `updated`.                        *)
Raised(row, log) ==
    [row EXCEPT !.at = IF Written(log) = {} THEN @
                       ELSE Max2(@, CHOOSE e \in Written(log) : \A f \in Written(log) : f <= e)]

\* Mutant: the edge follows the winner
WholeRow(mine, theirs) == IF theirs.at > mine.at THEN theirs ELSE mine

(* merge_row: the newer row's scalars, the newer stamp of the edge.        *)
MergeRow(mine, theirs) ==
    LET winner == IF theirs.at > mine.at THEN theirs ELSE mine
        edge == IF theirs.link > mine.link THEN theirs ELSE mine
    IN [made |-> IF theirs.made < mine.made THEN theirs.made ELSE mine.made,
        at |-> Max2(winner.at, edge.link), set |-> winner.set,
        link |-> edge.link, linked |-> edge.linked]

(* merge: a task only one side has is kept.                                *)
MergeRows(mine, theirs) ==
    [t \in Tasks |-> IF theirs[t] = NoRow THEN mine[t]
                     ELSE IF mine[t] = NoRow THEN theirs[t]
                     ELSE MergeRow(mine[t], theirs[t])]

-----------------------------------------------------------------------------
(* Reading the disk again                                                  *)

(* read: the index's DiskState                                              *)
Finds == CASE tracker = "absent" -> "Absent"
           [] tracker = "ready" -> "Ready"
           [] tracker = "conflicted" -> "Unreadable"

OnDisk(t) == IF file[t] = NoFile THEN Blank ELSE file[t]

(* reconcile_content: only tasks that are dirty, and only a file that is    *)
(* there and whose stamp is not the one recorded.                           *)
Moved(s) == {t \in mem[s].dirty : /\ mem[s].held[t] # Unread
                                  /\ file[t] # NoFile /\ s \notin fresh[t]}

ContentTaken(s) ==
    LET new == [t \in Tasks |-> IF t \in Moved(s) THEN MergeContent(mem[s].held[t], file[t])
                                ELSE mem[s].held[t]]
    IN [mem[s] EXCEPT
          !.held = new,
          !.rows = [t \in Tasks |-> IF t \in Moved(s) /\ @[t] # NoRow
                                      THEN Raised(@[t], new[t].log) ELSE @[t]]]

UpToDate(s) == s \in seen /\ mem[s].state # "Unreadable"

(* Whether reconcile answers that it merged                                 *)
Merges(s) == ~UpToDate(s) /\ tracker = "ready" /\ index # ContentTaken(s).rows

(* reconcile: the contents, then the index                                  *)
Reconciled(s) ==
    LET m == ContentTaken(s) IN
    IF UpToDate(s) THEN m
    ELSE [m EXCEPT
            !.state = Finds,
            !.rows = IF tracker = "ready" /\ index # @ THEN MergeRows(@, index) ELSE @]

SeesIndex(s) == seen' = IF tracker = "ready" THEN seen \cup {s} ELSE seen \ {s}

(* refresh_from_disk: a write is owed when something was merged.            *)
Refresh(s) ==
    /\ mem[s].at = "idle"
    /\ mem' = [mem EXCEPT ![s] = [Reconciled(s) EXCEPT !.due = @ \/ Merges(s)]]
    /\ SeesIndex(s)
    /\ UNCHANGED <<diskVars, fresh, now, case, history>>

(* reload, the panel's Retry: the index only, and nothing is owed for it.   *)
Reload(s) ==
    /\ mem[s].at = "idle"
    /\ mem' = [mem EXCEPT ![s].state = Finds,
                          ![s].rows = IF tracker = "ready" THEN MergeRows(@, index) ELSE @]
    /\ SeesIndex(s)
    /\ UNCHANGED <<diskVars, fresh, now, case, history>>

-----------------------------------------------------------------------------
(* Opening and losing a store                                              *)

Open(s) ==
    /\ s \in case.stores /\ mem[s].at = "gone"
    /\ mem' = [mem EXCEPT ![s] =
         [Gone EXCEPT !.at = "idle",
                      !.rows = IF tracker = "ready" THEN index ELSE NoRows,
                      !.state = Finds]]
    /\ SeesIndex(s)
    /\ UNCHANGED <<diskVars, fresh, now, case, history>>

Forgets(s) == /\ seen' = seen \ {s}
              /\ fresh' = [t \in Tasks |-> fresh[t] \ {s}]

Crash(s) ==
    /\ mem[s].at # "gone" /\ case.crashes > 0
    /\ case' = [case EXCEPT !.crashes = @ - 1]
    /\ mem' = [mem EXCEPT ![s] = Gone]
    /\ Forgets(s)
    /\ UNCHANGED <<diskVars, now, history>>

-----------------------------------------------------------------------------
(* Edits: TaskStore::update around compose and put                         *)

Held(s, t) == IF mem[s].held[t] = Unread THEN OnDisk(t) ELSE mem[s].held[t]

(* ContentCache::read records the file's stamp, if there is a file.         *)
Loads(s, t) ==
    fresh' = IF mem[s].held[t] = Unread /\ file[t] # NoFile
               THEN [fresh EXCEPT ![t] = @ \cup {s}] ELSE fresh

(* get, search: what is loaded stays loaded.                                *)
Get(s, t) ==
    /\ mem[s].at = "idle" /\ mem[s].rows[t] # NoRow /\ mem[s].held[t] = Unread
    /\ mem' = [mem EXCEPT ![s].held[t] = OnDisk(t)]
    /\ Loads(s, t)
    /\ UNCHANGED <<diskVars, seen, now, case, history>>

Next1 == now + 1

Edits(s, kind) ==
    /\ mem[s].at = "idle" /\ mem[s].state # "Unreadable"
    /\ kind \in case.kinds /\ case.edits > 0 /\ now < Latest
    /\ case' = [case EXCEPT !.edits = @ - 1]
    /\ now' = Next1

Put(s, t, row, content) ==
    /\ mem' = [mem EXCEPT ![s].rows[t] = row,
                          ![s].held[t] = content,
                          ![s].dirty = IF content = Held(s, t) THEN @ ELSE @ \cup {t},
                          ![s].due = TRUE]
    /\ Loads(s, t)
    /\ UNCHANGED <<diskVars, seen>>

(* create: an id no store knows; a title alone has nothing to write but a   *)
(* row.                                                                     *)
Create(s, t, body) ==
    /\ Edits(s, "create")
    /\ t \notin deleted /\ index[t] = NoRow /\ \A x \in Stores : mem[x].rows[t] = NoRow
    /\ Put(s, t, [made |-> Next1, at |-> Next1, set |-> Next1, link |-> 0, linked |-> FALSE],
           [Blank EXCEPT !.body = body])
    /\ told' = IF body = 0 THEN told ELSE told \cup {<<t, Next1, "text">>}
    /\ UNCHANGED <<deleted, spoilt>>

Has(s, t) == mem[s].rows[t] # NoRow
Touched(s, t) == [mem[s].rows[t] EXCEPT !.at = Next1]

(* SetTitle, Assign and the rest of the row's own fields                    *)
SetTitle(s, t) ==
    /\ Edits(s, "title") /\ Has(s, t)
    /\ Put(s, t, [Touched(s, t) EXCEPT !.set = Next1], Held(s, t))
    /\ UNCHANGED history

SetBody(s, t) ==
    /\ Edits(s, "body") /\ Has(s, t)
    /\ Put(s, t, Touched(s, t), [Held(s, t) EXCEPT !.body = Next1])
    /\ UNCHANGED history

Tells(t) == told' = told \cup {<<t, Next1, "entry">>} /\ UNCHANGED <<deleted, spoilt>>

Logged(s, t, e) == [Held(s, t) EXCEPT !.log[e] = [ed |-> Next1, dead |-> FALSE]]

Comment(s, t) ==
    /\ Edits(s, "comment") /\ Has(s, t)
    /\ Put(s, t, Touched(s, t), Logged(s, t, Next1))
    /\ Tells(t)

(* SetStatus: the field, and its row of the history.                        *)
SetStatus(s, t) ==
    /\ Edits(s, "move") /\ Has(s, t)
    /\ Put(s, t, [Touched(s, t) EXCEPT !.set = Next1], Logged(s, t, Next1))
    /\ Tells(t)

Live(s, t) == {e \in Entries : Held(s, t).log[e].ed > 0 /\ ~Held(s, t).log[e].dead}

EditComment(s, t, e) ==
    /\ Edits(s, "rewrite") /\ Has(s, t) /\ e \in Live(s, t)
    /\ Put(s, t, Touched(s, t), Logged(s, t, e))
    /\ UNCHANGED history

DeleteComment(s, t, e) ==
    /\ Edits(s, "withdraw") /\ Has(s, t) /\ e \in Live(s, t)
    /\ Put(s, t, Touched(s, t), [Held(s, t) EXCEPT !.log[e] = [ed |-> Next1, dead |-> TRUE]])
    /\ UNCHANGED history

(* apply_link revives a tombstoned edge, apply_unlink tombstones a live one. *)
Link(s, t) ==
    /\ Edits(s, "link") /\ Has(s, t)
    /\ Put(s, t, [Touched(s, t) EXCEPT !.link = Next1, !.linked = ~@], Held(s, t))
    /\ UNCHANGED history

(* delete: the row and what was loaded now, the directory at the next flush. *)
Delete(s, t) ==
    /\ Edits(s, "delete") /\ Has(s, t)
    /\ mem' = [mem EXCEPT ![s].rows[t] = NoRow, ![s].held[t] = Unread,
                          ![s].dirty = @ \ {t}, ![s].removed = @ \cup {t}, ![s].due = TRUE]
    /\ fresh' = [fresh EXCEPT ![t] = @ \ {s}]
    /\ deleted' = deleted \cup {t}
    /\ UNCHANGED <<diskVars, seen, told, spoilt>>

-----------------------------------------------------------------------------
(* write_now: under the store's locks from the first read to the last write *)

AtRest(s) == mem[s].at \in {"gone", "idle"}
Alone(s) == \A x \in Stores \ {s} : AtRest(x)

Begun(s, closes) ==
    LET m == [Reconciled(s) EXCEPT !.due = FALSE] IN
    IF m.state = "Unreadable" THEN IF closes THEN Gone ELSE [m EXCEPT !.due = TRUE]
    ELSE IF m.rows = NoRows /\ m.state = "Absent" THEN IF closes THEN Gone ELSE m
    ELSE [m EXCEPT !.at = "contents", !.todo = m.dirty, !.dirty = {}, !.closing = closes]

Flush(s) ==
    /\ mem[s].at = "idle" /\ mem[s].due /\ Alone(s)
    /\ mem' = [mem EXCEPT ![s] = Begun(s, FALSE)]
    /\ SeesIndex(s)
    /\ UNCHANGED <<diskVars, fresh, now, case, history>>

(* TasksStores::close and flush_all: due or not                             *)
Close(s) ==
    /\ mem[s].at = "idle" /\ case.closes > 0 /\ Alone(s)
    /\ case' = [case EXCEPT !.closes = @ - 1]
    /\ mem' = [mem EXCEPT ![s] = Begun(s, TRUE)]
    /\ IF mem'[s] = Gone THEN Forgets(s) ELSE SeesIndex(s) /\ UNCHANGED fresh
    /\ UNCHANGED <<diskVars, now, history>>

WriteContent(s, t) ==
    /\ mem[s].at = "contents" /\ t \in mem[s].todo
    /\ file' = [file EXCEPT ![t] = mem[s].held[t]]
    /\ fresh' = [fresh EXCEPT ![t] = {s}]
    /\ mem' = [mem EXCEPT ![s].todo = @ \ {t}]
    /\ UNCHANGED <<index, tracker, seen, now, case, history>>

Fails == case.fails > 0 /\ case' = [case EXCEPT !.fails = @ - 1]

\* Mutant: the failed content is not dirty again
ForgetsContent(s, t) ==
    /\ mem[s].at = "contents" /\ t \in mem[s].todo /\ Fails
    /\ mem' = [mem EXCEPT ![s].todo = @ \ {t}, ![s].due = TRUE]
    /\ spoilt' = spoilt \cup {t}
    /\ UNCHANGED <<diskVars, stampVars, now, told, deleted>>

ContentFails(s, t) ==
    /\ mem[s].at = "contents" /\ t \in mem[s].todo /\ Fails
    /\ mem' = [mem EXCEPT ![s].todo = @ \ {t}, ![s].dirty = @ \cup {t}, ![s].due = TRUE]
    /\ spoilt' = spoilt \cup {t}
    /\ UNCHANGED <<diskVars, stampVars, now, told, deleted>>

\* Mutant: the index does not wait for the contents
IndexFirst(s) ==
    /\ mem[s].at = "contents"
    /\ mem' = [mem EXCEPT ![s].at = "index"]
    /\ UNCHANGED <<diskVars, stampVars, now, case, history>>

RemoveDirs(s) ==
    /\ mem[s].at = "contents" /\ mem[s].todo = {}
    /\ file' = [t \in Tasks |-> IF t \in mem[s].removed THEN NoFile ELSE file[t]]
    /\ fresh' = [t \in Tasks |-> IF t \in mem[s].removed THEN {} ELSE fresh[t]]
    /\ mem' = [mem EXCEPT ![s].at = "index", ![s].removed = {}]
    /\ UNCHANGED <<index, tracker, seen, now, case, history>>

\* Mutant: a store that closes keeps what it held
EndsHolding(s, m) == [m EXCEPT !.at = IF mem[s].closing THEN "gone" ELSE "idle"]

Ends(s, m) == IF mem[s].closing THEN Gone ELSE [m EXCEPT !.at = "idle"]

WriteIndex(s) ==
    /\ mem[s].at = "index"
    /\ index' = mem[s].rows /\ tracker' = "ready"
    /\ mem' = [mem EXCEPT ![s] = Ends(s, [@ EXCEPT !.state = "Ready"])]
    /\ IF mem[s].closing
         THEN seen' = {} /\ fresh' = [t \in Tasks |-> fresh[t] \ {s}]
         ELSE seen' = {s} /\ UNCHANGED fresh
    /\ UNCHANGED <<file, now, case, history>>

IndexFails(s) ==
    /\ mem[s].at = "index" /\ Fails
    /\ mem' = [mem EXCEPT ![s] = Ends(s, [@ EXCEPT !.due = TRUE])]
    /\ IF mem[s].closing THEN Forgets(s) ELSE UNCHANGED stampVars
    /\ UNCHANGED <<diskVars, now, history>>

-----------------------------------------------------------------------------
(* git: a merge that stops with conflict markers, and its resolution        *)

Conflicts ==
    /\ tracker = "ready" /\ case.conflicts > 0 /\ \A s \in Stores : AtRest(s)
    /\ case' = [case EXCEPT !.conflicts = @ - 1]
    /\ tracker' = "conflicted" /\ seen' = {}
    /\ UNCHANGED <<index, file, fresh, mem, now, history>>

Resolves ==
    /\ tracker = "conflicted" /\ \A s \in Stores : AtRest(s)
    /\ tracker' = "ready" /\ seen' = {}
    /\ UNCHANGED <<index, file, fresh, mem, now, case, history>>

-----------------------------------------------------------------------------
Init ==
    /\ case \in Cases
    /\ index = [t \in Tasks |-> IF t \in case.tasks
                                  THEN [made |-> 0, at |-> 0, set |-> 0, link |-> 0, linked |-> FALSE]
                                  ELSE NoRow]
    /\ tracker = IF case.tasks = {} THEN "absent" ELSE "ready"
    /\ file = [t \in Tasks |-> IF t \in case.tasks THEN Blank ELSE NoFile]
    /\ seen = {} /\ fresh = [t \in Tasks |-> {}]
    /\ mem = [s \in Stores |-> Gone]
    /\ now = 0 /\ told = {} /\ deleted = {} /\ spoilt = {}

EditStep(s, t) ==
    \/ \E body \in {0, Next1} : Create(s, t, body)
    \/ SetTitle(s, t) \/ SetBody(s, t) \/ Comment(s, t) \/ SetStatus(s, t) \/ Link(s, t)
    \/ \E e \in Entries : EditComment(s, t, e) \/ DeleteComment(s, t, e)
    \/ Delete(s, t)

FlushStep(s) ==
    \/ Flush(s) \/ RemoveDirs(s) \/ WriteIndex(s) \/ IndexFails(s)
    \/ \E t \in Tasks : WriteContent(s, t) \/ ContentFails(s, t)

Next ==
    \/ \E s \in Stores :
         \/ Open(s) \/ Crash(s) \/ Close(s) \/ Refresh(s) \/ Reload(s) \/ FlushStep(s)
         \/ \E t \in Tasks : Get(s, t) \/ EditStep(s, t)
    \/ Conflicts \/ Resolves

Spec == Init /\ [][Next]_vars

(* The flusher thread of a store that is open runs, and the watcher tells   *)
(* it of what moved; nothing makes a person edit, close, or resolve.        *)
FairSpec == Spec /\ \A s \in Stores : WF_vars(FlushStep(s)) /\ WF_vars(Refresh(s))

-----------------------------------------------------------------------------
Memories ==
    [at : {"gone", "idle", "contents", "index"}, rows : Indexes,
     held : [Tasks -> Contents \cup {Unread}], dirty : SUBSET Tasks, removed : SUBSET Tasks,
     todo : SUBSET Tasks, state : {"Absent", "Ready", "Unreadable"},
     due : BOOLEAN, closing : BOOLEAN]

(* The disk, the stores and the bounds keep their types.                    *)
TypeOK ==
    /\ index \in Indexes /\ tracker \in {"absent", "ready", "conflicted"}
    /\ file \in [Tasks -> Contents \cup {NoFile}]
    /\ seen \subseteq Stores /\ fresh \in [Tasks -> SUBSET Stores]
    /\ mem \in [Stores -> Memories] /\ \A s \in Stores : mem[s].at = "gone" => mem[s] = Gone
    /\ now \in Stamps /\ case \in Bounds
    /\ told \subseteq Tasks \X Entries \X {"entry", "text"}
    /\ deleted \subseteq Tasks /\ spoilt \subseteq Tasks

(* At least as late: what is dead stays dead, and no edit is undone.        *)
NotOlder(old, new) == new.dead \/ (~old.dead /\ old.ed <= new.ed)
LogKept(old, new) == \A e \in Entries : NotOlder(old[e], new[e])

(* A row that carries an entry's stamp was made before it: an entry of an   *)
(* earlier task under the same id, left by a crash before its row was       *)
(* written, is not this one's.                                              *)
OwnEntries(t) == {e \in Entries : index[t] # NoRow /\ e > index[t].made}

(* Whatever store writes last, nothing on disk is taken back: no entry of a *)
(* log is lost, no edit of one is undone, no withdrawn one returns, and an  *)
(* unlink is not undone by a stale copy of the row (reconcile_content,      *)
(* union_comments, union_links), unless somebody deletes the task.          *)
NothingTakenBack ==
    [][\A t \in Tasks \ deleted' :
         /\ \A e \in OwnEntries(t) : NotOlder(file[t].log[e], file'[t].log[e])
         /\ index[t].link <= index'[t].link
         /\ index[t].link = index'[t].link => index[t].linked = index'[t].linked]_vars

Backed(t, e, what) ==
    /\ file[t] # NoFile
    /\ IF what = "entry" THEN file[t].log[e].ed > 0 ELSE file[t].body >= e

(* Content first, then the index: a row on disk that carries the stamp of   *)
(* an accepted edit has its text or its entry beside it, wherever a crash   *)
(* falls, unless that file could not be written or the task was deleted.    *)
IndexIsBacked ==
    \A w \in told : w[1] \notin deleted \cup spoilt /\ index[w[1]].at = w[2]
        => Backed(w[1], w[2], w[3])

Owes(s) == \E t \in Tasks \ deleted :
    \/ mem[s].held[t] # Unread /\ ~LogKept(mem[s].held[t].log, OnDisk(t).log)
    \/ mem[s].rows[t] # NoRow /\ (index[t] = NoRow \/ index[t].at < mem[s].rows[t].at)

(* An accepted edit reaches the disk whatever fails, is refused or is merged *)
(* on the way, unless its store is closed or dies or the tracker stays in    *)
(* conflict.                                                                 *)
EditsAreSaved == []<>(tracker = "conflicted" \/ \A s \in Stores : ~Owes(s))

Quiet == \A s \in Stores : AtRest(s) /\ mem[s].dirty \cup mem[s].removed = {}

(* "one side deleted what the other edited: the task survives, with the     *)
(* edit": once every store has written, a task that is still on the board   *)
(* has what was accepted of it (without crashes).                           *)
SurvivesWithItsEdit ==
    Quiet => \A w \in told : index[w[1]] # NoRow /\ w[1] \notin spoilt => Backed(w[1], w[2], w[3])
=============================================================================
