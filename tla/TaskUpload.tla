----------------------------- MODULE TaskUpload -----------------------------
(***************************************************************************)
(* POST /api/tasks_uploads: a dispatcher's spreadsheet becomes rows of     *)
(* tasks, and the tasks become rows of notification_outbox.                *)
(*                                                                         *)
(* One handler runs two database transactions: the upload with its tasks,  *)
(* then the notices about them.  Handlers run concurrently; a key written  *)
(* by an open transaction makes the others that need it wait, which is how *)
(* PostgreSQL treats a unique index and a locked row.                      *)
(***************************************************************************)
EXTENDS Integers, Sequences

CONSTANTS
    Requests,      \* calls of the endpoint
    Files,         \* contents a call may carry (file_hash tells them apart)
    Unreadable,    \* those pandas cannot read
    Tasks,         \* portal_task_ids that rows may hash to
    RowsOf,        \* RowsOf[f]: the rows of file f, in order
    Unmapped,      \* tasks of rows that are incomplete or name an unknown store
    Oversized,     \* tasks of rows with a value the column cannot hold
    Stores,
    StoreOf,       \* StoreOf[t]: the store of task t
    Managers,
    Nobody,        \* "no manager is assigned"
    Assigned,      \* the managers of the stores at the start
    Movable,       \* stores the dispatcher may reassign meanwhile
    NoFile,        \* "the handler is not running"
    MaxFaults      \* bound: crashes and lost database connections

ASSUME UploadAssumption ==
    /\ Unreadable \subseteq Files
    /\ RowsOf \in [Files -> Seq(Tasks)]
    /\ Unmapped \cup Oversized \subseteq Tasks
    /\ StoreOf \in [Tasks -> Stores]
    /\ Nobody \notin Managers
    /\ Assigned \in [Stores -> Managers \cup {Nobody}]
    /\ Movable \subseteq Stores
    /\ NoFile \notin Files
    /\ Files \cap Tasks = {}
    /\ MaxFaults \in Nat

VARIABLES
    \* committed tables
    uploads,       \* file hashes stored
    tasks,         \* portal_task_ids stored
    outbox,        \* notices stored
    assigned,      \* stores.assigned_user_id
    \* each request
    pc,
    file,          \* the file it carries
    at,            \* the row it works on
    writes,        \* keys its open transaction has written, and locks
    created,       \* created_task_ids
    drafts,        \* notices added to its session
    faults

tableVars == <<uploads, tasks, outbox, assigned>>
callVars  == <<pc, file, at, writes, created, drafts>>
vars      == <<tableVars, callVars, faults>>

-----------------------------------------------------------------------------
\* dedupe_key = digest:{upload}:{manager} and newtask:{task}:{manager}
Digest(f, m)  == [kind |-> "digest",  about |-> f, to |-> m]
NewTask(t, m) == [kind |-> "newtask", about |-> t, to |-> m]
Notices == {Digest(f, m) : f \in Files, m \in Managers}
           \cup {NewTask(t, m) : t \in Tasks, m \in Managers}

MoreRows(h) == at[h] <= Len(RowsOf[file[h]])
Row(h) == RowsOf[file[h]][at[h]]

\* The key request h is about to write, and the request that makes it wait.
Needs(h) ==
    CASE pc[h] = "store" -> {file[h]}
      [] pc[h] \in {"insert", "update"} -> {Row(h)}
      [] OTHER -> {}
Blocks(g, h) == g # h /\ Needs(h) \cap writes[g] # {}
Waits(h) == \E g \in Requests : Blocks(g, h)
Deadlocked(h) ==
    /\ Waits(h)
    /\ \E C \in SUBSET Requests :
            /\ h \in C
            /\ \A g \in C : (\E k \in C : Blocks(k, g)) /\ (\E k \in C : Blocks(g, k))

Init ==
    /\ uploads = {}
    /\ tasks = {}
    /\ outbox = {}
    /\ assigned = Assigned
    /\ pc = [h \in Requests |-> "idle"]
    /\ file = [h \in Requests |-> NoFile]
    /\ at = [h \in Requests |-> 1]
    /\ writes = [h \in Requests |-> {}]
    /\ created = [h \in Requests |-> {}]
    /\ drafts = [h \in Requests |-> {}]
    /\ faults = 0

-----------------------------------------------------------------------------
\* The handler is over; its variables, its locks and its session go with it.
Return(h) ==
    /\ pc' = [pc EXCEPT ![h] = "end"]
    /\ file' = [file EXCEPT ![h] = NoFile]
    /\ at' = [at EXCEPT ![h] = 1]
    /\ writes' = [writes EXCEPT ![h] = {}]
    /\ created' = [created EXCEPT ![h] = {}]
    /\ drafts' = [drafts EXCEPT ![h] = {}]

\* Mutants: the transaction stays open; only the row is given up and the loop
\* goes on, in a new transaction or in the same one.
Refuse_without_rollback(h) ==
    /\ pc' = [pc EXCEPT ![h] = "end"]
    /\ UNCHANGED <<tableVars, file, at, writes, created, drafts>>

Refuse_row_after_rollback(h) ==
    /\ pc' = [pc EXCEPT ![h] = IF @ \in {"insert", "update"} THEN "row" ELSE "end"]
    /\ at' = [at EXCEPT ![h] = @ + 1]
    /\ writes' = [writes EXCEPT ![h] = {}]
    /\ UNCHANGED <<tableVars, file, created, drafts>>

Refuse_row_only(h) ==
    /\ pc' = [pc EXCEPT ![h] = IF @ \in {"insert", "update"} THEN "row" ELSE "end"]
    /\ at' = [at EXCEPT ![h] = @ + 1]
    /\ UNCHANGED <<tableVars, file, writes, created, drafts>>

\* The open transaction is rolled back and the caller gets an error.  After a
\* refused flush the session refuses every later statement too: the remaining
\* rows count as invalid one by one, and the commit raises.
Refuse(h) == Return(h) /\ UNCHANGED tableVars

\* A request comes in and its file is hashed.
Receive(h, f) ==
    /\ pc[h] = "idle"
    /\ pc' = [pc EXCEPT ![h] = "store"]
    /\ file' = [file EXCEPT ![h] = f]
    /\ UNCHANGED <<tableVars, at, writes, created, drafts, faults>>

\* session.add(upload), flush: file_hash is unique.  An unreadable file is a 400.
StoreUpload(h) ==
    /\ pc[h] = "store"
    /\ ~Waits(h)
    /\ IF file[h] \in uploads \cup Unreadable
       THEN Refuse(h)
       ELSE /\ writes' = [writes EXCEPT ![h] = {file[h]}]
            /\ pc' = [pc EXCEPT ![h] = "row"]
            /\ UNCHANGED <<tableVars, file, at, created, drafts>>
    /\ UNCHANGED faults

\* process_l4_row up to its SELECT of the task, which sees what is committed and
\* what this transaction wrote; an incomplete row or an unknown store is invalid.
LookUpRow(h) ==
    /\ pc[h] = "row"
    /\ MoreRows(h)
    /\ IF Row(h) \in Unmapped
       THEN at' = [at EXCEPT ![h] = @ + 1] /\ UNCHANGED pc
       ELSE /\ pc' = [pc EXCEPT ![h] = IF Row(h) \in tasks \cup writes[h] THEN "update" ELSE "insert"]
            /\ UNCHANGED at
    /\ UNCHANGED <<tableVars, file, writes, created, drafts, faults>>

\* A row was flushed; on to the next one.
Flushed(h) ==
    /\ writes' = [writes EXCEPT ![h] = @ \cup {Row(h)}]
    /\ at' = [at EXCEPT ![h] = @ + 1]
    /\ pc' = [pc EXCEPT ![h] = "row"]
    /\ UNCHANGED <<tableVars, file, drafts>>

\* A task committed by another request since the SELECT violates the unique
\* portal_task_id.
InsertTask(h) ==
    /\ pc[h] = "insert"
    /\ ~Waits(h)
    /\ IF Row(h) \in Oversized \cup tasks
       THEN Refuse(h)
       ELSE Flushed(h) /\ created' = [created EXCEPT ![h] = @ \cup {Row(h)}]
    /\ UNCHANGED faults

\* Mutant: updated tasks count as new ones.
UpdateTask_as_new(h) ==
    /\ pc[h] = "update"
    /\ ~Waits(h)
    /\ IF Row(h) \in Oversized
       THEN Refuse(h)
       ELSE Flushed(h) /\ created' = [created EXCEPT ![h] = @ \cup {Row(h)}]
    /\ UNCHANGED faults

UpdateTask(h) ==
    /\ pc[h] = "update"
    /\ ~Waits(h)
    /\ IF Row(h) \in Oversized THEN Refuse(h) ELSE Flushed(h) /\ UNCHANGED created
    /\ UNCHANGED faults

\* PostgreSQL breaks a cycle of waiting transactions by refusing one statement.
BreakDeadlock(h) ==
    /\ Deadlocked(h)
    /\ Refuse(h)
    /\ UNCHANGED faults

\* The first commit: the upload and its tasks.
CommitUpload(h) ==
    /\ pc[h] = "row"
    /\ ~MoreRows(h)
    /\ uploads' = uploads \cup (writes[h] \cap Files)
    /\ tasks' = tasks \cup (writes[h] \cap Tasks)
    /\ writes' = [writes EXCEPT ![h] = {}]
    /\ pc' = [pc EXCEPT ![h] = "digests"]
    /\ UNCHANGED <<outbox, assigned, file, at, created, drafts, faults>>

\* Mutant: the stores nobody is assigned to are not left out.
DigestReaders_with_nobody == {assigned[s] : s \in Stores}

\* Managers with at least one store.
DigestReaders == {assigned[s] : s \in Stores} \ {Nobody}

_enqueue_manager_digests(h) ==
    /\ pc[h] = "digests"
    /\ drafts' = [drafts EXCEPT ![h] = {Digest(file[h], m) : m \in DigestReaders}]
    /\ pc' = [pc EXCEPT ![h] = "newtasks"]
    /\ UNCHANGED <<tableVars, file, at, writes, created, faults>>

\* A second query, which may see other assignments than the first.
_enqueue_new_tasks(h) ==
    /\ pc[h] = "newtasks"
    /\ LET told == {t \in created[h] \cap tasks : assigned[StoreOf[t]] # Nobody} IN
       drafts' = [drafts EXCEPT ![h] = @ \cup {NewTask(t, assigned[StoreOf[t]]) : t \in told}]
    /\ pc' = [pc EXCEPT ![h] = "notices"]
    /\ UNCHANGED <<tableVars, file, at, writes, created, faults>>

\* The second commit: all the notices, or none if a dedupe_key is taken.
CommitNotices(h) ==
    /\ pc[h] = "notices"
    /\ outbox' = IF drafts[h] \cap outbox = {} THEN outbox \cup drafts[h] ELSE outbox
    /\ Return(h)
    /\ UNCHANGED <<uploads, tasks, assigned, faults>>

\* The handler loses its database connection, or dies with the API process.
Interrupted(h) ==
    /\ pc[h] \notin {"idle", "end"}
    /\ faults < MaxFaults
    /\ faults' = faults + 1
    /\ Return(h)
    /\ UNCHANGED tableVars

\* The dispatcher gives a store to another manager, or to none.
assign_store(s, m) ==
    /\ assigned' = [assigned EXCEPT ![s] = m]
    /\ UNCHANGED <<uploads, tasks, outbox, callVars, faults>>

-----------------------------------------------------------------------------
Handle(h) ==
    \/ StoreUpload(h) \/ LookUpRow(h) \/ InsertTask(h) \/ UpdateTask(h) \/ CommitUpload(h)
    \/ _enqueue_manager_digests(h) \/ _enqueue_new_tasks(h) \/ CommitNotices(h)
    \/ BreakDeadlock(h)

Next ==
    \/ \E h \in Requests : (\E f \in Files : Receive(h, f)) \/ Handle(h) \/ Interrupted(h)
    \/ \E s \in Movable, m \in Managers \cup {Nobody} : assign_store(s, m)

\* The event loop runs every handler and the database answers; calls, faults and
\* reassignments are free.
Fairness == \A h \in Requests : WF_vars(Handle(h))

Spec == Init /\ [][Next]_vars /\ Fairness

-----------------------------------------------------------------------------
(* Properties.                                                             *)

\* The tables hold what their columns name, a handler is at one of its steps.
TypeOK ==
    /\ uploads \subseteq Files
    /\ tasks \subseteq Tasks
    /\ outbox \subseteq Notices
    /\ assigned \in [Stores -> Managers \cup {Nobody}]
    /\ pc \in [Requests -> {"idle", "store", "row", "insert", "update", "digests", "newtasks", "notices", "end"}]
    /\ file \in [Requests -> Files \cup {NoFile}]
    /\ at \in [Requests -> Nat]
    /\ writes \in [Requests -> SUBSET (Files \cup Tasks)]
    /\ created \in [Requests -> SUBSET Tasks]
    /\ drafts \in [Requests -> SUBSET Notices]
    /\ faults \in Nat

\* "commit tasks+upload first (so notifier can safely read)": a notice in the
\* outbox is about an upload or a task that is stored.
NoticesNameStoredRows == \A n \in outbox : n.about \in uploads \cup tasks

\* A stored upload has all its usable rows in tasks, whatever other requests
\* stored or lost meanwhile: none of them was dropped on the way.
StoredUploadIsComplete ==
    \A f \in uploads : \A i \in DOMAIN RowsOf[f] : RowsOf[f][i] \in Unmapped \cup tasks

\* A request that was refused or interrupted before its first commit leaves no
\* task behind: every stored task is a row of a stored upload.
TasksComeFromUploads ==
    \A t \in tasks : \E f \in uploads : \E i \in DOMAIN RowsOf[f] : RowsOf[f][i] = t

\* The tasks a stored file must have left in the table.
Usable == [f \in Files |-> {RowsOf[f][i] : i \in DOMAIN RowsOf[f]} \ Unmapped]

\* The requests between their two commits.
Announcing == {h \in Requests : pc[h] \in {"digests", "newtasks", "notices"}}

Atomic == INSTANCE AtomicUpload WITH
        pending <- {[file |-> file[h], new |-> created[h]] : h \in Announcing}

\* Statement by statement, waiting for one another, refused and lost, uploads do
\* what AtomicUpload does in one step: rows stored as if no other upload ran, the
\* tasks announced as new exactly those that were not there.
ImplementsAtomicUpload == Atomic!Spec

\* However uploads overlap and stores change hands, a task is announced as new
\* to one manager only, once.
AnnouncedOnce ==
    \A n, k \in outbox : n.kind = "newtask" /\ k.kind = "newtask" /\ n.about = k.about => n = k

\* No two requests, running or done, write the same dedupe_key, so that the unique
\* index never throws away the notices of an upload that is already stored.
DedupeKeysAreFresh ==
    \A h \in Requests :
        /\ drafts[h] \cap outbox = {}
        /\ \A g \in Requests \ {h} : drafts[g] \cap drafts[h] = {}

\* Every call is answered or dies, although handlers wait for one another.
CallsEnd == \A h \in Requests : pc[h] = "store" ~> pc[h] = "end"

\* README.md:61 and :82, "После успешного commit создаётся 1 запись в
\* notification_outbox": once no request works on a stored upload any more, it
\* has one digest.
CommitCreatesOneRecord ==
    \A f \in uploads :
        (\A h \in Requests : file[h] # f)
            => \E m \in Managers : {n \in outbox : n.kind = "digest" /\ n.about = f} = {Digest(f, m)}
=============================================================================
