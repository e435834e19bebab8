----------------------------- MODULE ExcelImport -----------------------------
(***************************************************************************)
(* POST /api/portal_l4_uploads, the form of /ui/upload that calls it, and  *)
(* the /upload_excel button: a spreadsheet becomes rows of tasks.          *)
(*                                                                         *)
(* Unlike the handler of TaskUpload this import runs without a             *)
(* transaction: every statement commits by itself, so another call or a    *)
(* crash finds the tables between any two of them.                         *)
(***************************************************************************)
EXTENDS Integers, Sequences, FiniteSets

CONSTANTS
    Calls,
    Door,        \* Door[c]: "api", "form" or "button", where call c comes in
    Files,       \* contents a call may carry (file_hash tells them apart)
    NotXlsx,     \* those whose name does not end in .xlsx
    Unreadable,  \* those that are empty or that pandas cannot read
    RowsOf,      \* RowsOf[f]: the rows of file f, in order
    Tasks,       \* portal_task_ids
    HashOf,      \* HashOf[x]: make_portal_task_id of a row whose other cells are x
    Oversized,   \* portal_task_ids the column cannot hold
    Stores,      \* store numbers with a row in stores
    Strangers,   \* store numbers without one
    Slas,        \* dates _to_dt can read
    Illegible,   \* texts it cannot read
    NoTask, NoStore, NoSla,   \* empty cells
    NoFile,      \* "no upload", "the call carries nothing"
    Mirrored,    \* bound: tasks the other importer writes meanwhile
    MaxFaults    \* bound: crashes and lost database connections

Cells == [task : Tasks \cup {NoTask}, rest : DOMAIN HashOf,
          store : Stores \cup Strangers \cup {NoStore}, sla : Slas \cup Illegible \cup {NoSla}]

ASSUME ImportAssumption ==
    /\ Door \in [Calls -> {"api", "form", "button"}]
    /\ NotXlsx \cup Unreadable \subseteq Files
    /\ RowsOf \in [Files -> Seq(Cells)]
    /\ HashOf \in [DOMAIN HashOf -> Tasks]
    /\ Oversized \subseteq Tasks
    /\ Mirrored \subseteq Tasks \ Oversized
    /\ Stores \cap Strangers = {}
    /\ NoTask \notin Tasks /\ NoStore \notin Stores \cup Strangers
    /\ NoSla \notin Slas /\ Slas \cap Illegible = {} /\ NoFile \notin Files
    /\ MaxFaults \in Nat

VARIABLES
    \* tables, every write to them is committed at once
    uploads,     \* file hashes stored
    totals,      \* their valid_rows, invalid_rows and seen_tasks_count
    metrics,     \* uploads with a row in upload_metrics
    tasks,
    errors,      \* errors[f]: rows of import_errors for upload f
    \* each call of process_excel_upload
    pc, file,
    left,        \* the rows it has still to import
    n,           \* its counters
    reply,       \* what its caller is told
    \* observation
    interrupted, \* uploads whose import a fault cut short
    faults

tableVars == <<uploads, totals, metrics, tasks, errors>>
callVars  == <<pc, file, left, n, reply>>
vars      == <<tableVars, callVars, interrupted, faults>>

-----------------------------------------------------------------------------
(* The parser.                                                             *)

\* Rows without a store number are dropped; an empty id becomes a hash of the row.
HasStore(r) == r.store # NoStore
WithId(r)   == [r EXCEPT !.task = IF @ = NoTask THEN HashOf[r.rest] ELSE @]
KeptRows    == [f \in Files |-> {i \in DOMAIN RowsOf[f] : HasStore(RowsOf[f][i])}]

\* _to_dt and _get_store_id_by_store_no: NULL unless the text is a date, a store.
_to_dt(d) == IF d \in Slas THEN d ELSE NoSla
_get_store_id(no) == IF no \in Stores THEN no ELSE NoStore

\* parse_portal_l4_xlsx(f).tasks, .total and .invalid
parsed == [f \in Files |-> [i \in KeptRows[f] |-> WithId(RowsOf[f][i])]]
total == [f \in Files |-> Len(RowsOf[f])]
\* Mutant: the difference is taken the other way round.
dropped_swapped == [f \in Files |-> Cardinality(KeptRows[f]) - total[f]]
dropped == [f \in Files |-> total[f] - Cardinality(KeptRows[f])]

-----------------------------------------------------------------------------
Absent == [status |-> "absent", store |-> NoStore, sla |-> NoSla, upload |-> NoFile]
Stored == {t \in Tasks : tasks[t].status # "absent"}
Zero   == [inserted |-> 0, updated |-> 0, skipped |-> 0, valid |-> 0, bad |-> 0]

\* The rows are taken in the order of the sheet.
At(c)      == CHOOSE i \in left[c] : \A j \in left[c] : i <= j
Row(c)     == parsed[file[c]][At(c)]
Running(c) == pc[c] \notin {"idle", "end"}

Init ==
    /\ uploads = {}
    /\ totals = [f \in Files |-> [valid |-> 0, invalid |-> 0, seen |-> 0]]
    /\ metrics = {}
    /\ tasks = [t \in Tasks |-> Absent]
    /\ errors = [f \in Files |-> 0]
    /\ pc = [c \in Calls |-> "idle"]
    /\ file = [c \in Calls |-> NoFile]
    /\ left = [c \in Calls |-> {}]
    /\ n = [c \in Calls |-> Zero]
    /\ reply = [c \in Calls |-> "none"]
    /\ interrupted = {}
    /\ faults = 0

\* The call is over.  The form shows what the API answered unless it gave up
\* waiting; the button goes back to /ui/ops whatever happened.
Told(c, answer) ==
    IF Door[c] = "button" THEN "ops" ELSE IF reply[c] = "none" THEN answer ELSE reply[c]
Answer(c, answer) ==
    /\ pc' = [pc EXCEPT ![c] = "end"]
    /\ reply' = [reply EXCEPT ![c] = Told(c, answer)]

GoTo(c, step) == pc' = [pc EXCEPT ![c] = step] /\ UNCHANGED reply

\* The endpoint and the form look at the file name, the button does not; then the
\* file is read and parsed.
Receive(c, f) ==
    /\ pc[c] = "idle"
    /\ file' = [file EXCEPT ![c] = f]
    /\ IF (f \in NotXlsx /\ Door[c] # "button") \/ f \in Unreadable
       THEN Answer(c, "error") /\ UNCHANGED left
       ELSE GoTo(c, "check") /\ left' = [left EXCEPT ![c] = DOMAIN parsed[f]]
    /\ UNCHANGED <<tableVars, n, interrupted, faults>>

\* A file that is already stored is not imported again.
CheckUpload(c) ==
    /\ pc[c] = "check"
    /\ IF file[c] \in uploads THEN Answer(c, "idempotent") ELSE GoTo(c, "store")
    /\ UNCHANGED <<tableVars, file, left, n, interrupted, faults>>

\* Mutants: file_hash is not unique; the row is stored as if nobody had it.
StoreUpload_twice(c) ==
    /\ pc[c] = "store"
    /\ uploads' = uploads \cup {file[c]}
    /\ GoTo(c, "row")
    /\ UNCHANGED <<totals, metrics, tasks, errors, file, left, n, interrupted, faults>>

\* file_hash is unique: of two calls that saw no upload one is answered with a 500.
StoreUpload(c) ==
    /\ pc[c] = "store"
    /\ IF file[c] \in uploads
       THEN Answer(c, "error") /\ UNCHANGED uploads
       ELSE GoTo(c, "row") /\ uploads' = uploads \cup {file[c]}
    /\ UNCHANGED <<totals, metrics, tasks, errors, file, left, n, interrupted, faults>>

\* One row of import_errors; the loop goes on with the next row.
RowFails(c) ==
    /\ errors' = [errors EXCEPT ![file[c]] = @ + 1]
    /\ left' = [left EXCEPT ![c] = @ \ {At(c)}]
    /\ GoTo(c, "row")

\* An unknown store is counted as skipped and as an error.  Otherwise the task is
\* looked up.
LookUpRow(c) ==
    /\ pc[c] = "row"
    /\ left[c] # {}
    /\ IF _get_store_id(Row(c).store) # NoStore
       THEN /\ GoTo(c, IF Row(c).task \in Stored THEN "update" ELSE "insert")
            /\ UNCHANGED <<errors, left, n>>
       ELSE /\ RowFails(c)
            /\ n' = [n EXCEPT ![c].skipped = @ + 1, ![c].bad = @ + 1]
    /\ UNCHANGED <<uploads, totals, metrics, tasks, file, interrupted, faults>>

\* Row c is written to tasks; COALESCE keeps an older deadline.
WriteTask(c) ==
    tasks' = [tasks EXCEPT ![Row(c).task] =
                [status |-> "open", store |-> Row(c).store, upload |-> file[c],
                 sla |-> IF _to_dt(Row(c).sla) = NoSla THEN @.sla ELSE _to_dt(Row(c).sla)]]

RowDone(c) ==
    /\ left' = [left EXCEPT ![c] = @ \ {At(c)}]
    /\ GoTo(c, "row")

\* Mutant: the update forgets upload_id.
UpdateTask_keeps_upload(c) ==
    /\ pc[c] = "update"
    /\ tasks' = [tasks EXCEPT ![Row(c).task].status = "open", ![Row(c).task].store = Row(c).store]
    /\ n' = [n EXCEPT ![c].updated = @ + 1, ![c].valid = @ + 1]
    /\ RowDone(c)
    /\ UNCHANGED <<uploads, totals, metrics, errors, file, interrupted, faults>>

UpdateTask(c) ==
    /\ pc[c] = "update"
    /\ WriteTask(c)
    /\ n' = [n EXCEPT ![c].updated = @ + 1, ![c].valid = @ + 1]
    /\ RowDone(c)
    /\ UNCHANGED <<uploads, totals, metrics, errors, file, interrupted, faults>>

\* Mutants: a refused row ends the import; a refused row also counts as valid.
InsertTask_aborts(c) ==
    /\ pc[c] = "insert"
    /\ IF Row(c).task \in Oversized \cup Stored
       THEN /\ GoTo(c, "totals")
            /\ UNCHANGED <<tasks, n, left>>
       ELSE /\ WriteTask(c)
            /\ RowDone(c)
            /\ n' = [n EXCEPT ![c].inserted = @ + 1, ![c].valid = @ + 1]
    /\ UNCHANGED <<uploads, totals, metrics, errors, file, interrupted, faults>>

InsertTask_counts_first(c) ==
    /\ pc[c] = "insert"
    /\ IF Row(c).task \in Oversized \cup Stored
       THEN /\ RowFails(c)
            /\ n' = [n EXCEPT ![c].valid = @ + 1, ![c].bad = @ + 1]
            /\ UNCHANGED tasks
       ELSE /\ WriteTask(c)
            /\ RowDone(c)
            /\ n' = [n EXCEPT ![c].inserted = @ + 1, ![c].valid = @ + 1]
            /\ UNCHANGED errors
    /\ UNCHANGED <<uploads, totals, metrics, file, interrupted, faults>>

\* A task stored since the SELECT violates the unique portal_task_id: the row is
\* one more error, although its task exists.
InsertTask(c) ==
    /\ pc[c] = "insert"
    /\ IF Row(c).task \in Oversized \cup Stored
       THEN /\ RowFails(c)
            /\ n' = [n EXCEPT ![c].bad = @ + 1]
            /\ UNCHANGED tasks
       ELSE /\ WriteTask(c)
            /\ RowDone(c)
            /\ n' = [n EXCEPT ![c].inserted = @ + 1, ![c].valid = @ + 1]
            /\ UNCHANGED errors
    /\ UNCHANGED <<uploads, totals, metrics, file, interrupted, faults>>

EndRows(c) ==
    /\ pc[c] = "row"
    /\ left[c] = {}
    /\ GoTo(c, "totals")
    /\ UNCHANGED <<tableVars, file, left, n, interrupted, faults>>

\* A row of an unknown store is in bad and in skipped, so it is invalid twice.
invalid_rows(c) == dropped[file[c]] + n[c].bad + n[c].skipped

StoreTotals(c) ==
    /\ pc[c] = "totals"
    /\ totals' = [totals EXCEPT ![file[c]] =
                    [valid |-> n[c].valid, invalid |-> invalid_rows(c),
                     seen |-> n[c].inserted + n[c].updated]]
    /\ GoTo(c, "metrics")
    /\ UNCHANGED <<uploads, metrics, tasks, errors, file, left, n, interrupted, faults>>

StoreMetrics(c) ==
    /\ pc[c] = "metrics"
    /\ metrics' = metrics \cup {file[c]}
    /\ Answer(c, "imported")
    /\ UNCHANGED <<uploads, totals, tasks, errors, file, left, n, interrupted, faults>>

\* The form stops waiting after 60 seconds; the import goes on.
FormTimesOut(c) ==
    /\ Door[c] = "form"
    /\ Running(c)
    /\ reply[c] = "none"
    /\ reply' = [reply EXCEPT ![c] = "error"]
    /\ UNCHANGED <<tableVars, pc, file, left, n, interrupted, faults>>

\* The database connection is lost, or the API process dies, in the middle of C.
Cut(C) == {file[c] : c \in {x \in C : pc[x] \in {"row", "update", "insert", "totals", "metrics"}}}
Fail(C) ==
    /\ faults < MaxFaults
    /\ faults' = faults + 1
    /\ interrupted' = interrupted \cup Cut(C)
    /\ pc' = [c \in Calls |-> IF c \in C THEN "end" ELSE pc[c]]
    /\ reply' = [c \in Calls |-> IF c \in C THEN Told(c, "error") ELSE reply[c]]
    /\ UNCHANGED <<tableVars, file, left, n>>

LoseConnection(c) == Running(c) /\ Fail({c})
Crash == (\E c \in Calls : Running(c)) /\ Fail({c \in Calls : Running(c)})

\* The other importer writes the same table: it mirrors the portal's status, and
\* stores tasks without an upload_id.
process_l4_row(t) ==
    /\ \E s \in Stores :
            tasks' = [tasks EXCEPT ![t] =
                        IF t \in Stored THEN [@ EXCEPT !.status = "closed"]
                        ELSE [Absent EXCEPT !.status = "closed", !.store = s]]
    /\ UNCHANGED <<uploads, totals, metrics, errors, callVars, interrupted, faults>>

-----------------------------------------------------------------------------
process_excel_upload(c) ==
    \/ CheckUpload(c) \/ StoreUpload(c) \/ LookUpRow(c) \/ UpdateTask(c) \/ InsertTask(c)
    \/ EndRows(c) \/ StoreTotals(c) \/ StoreMetrics(c)

Next ==
    \/ \E c \in Calls :
            \/ \E f \in Files : Receive(c, f)
            \/ process_excel_upload(c)
            \/ FormTimesOut(c)
            \/ LoseConnection(c)
    \/ Crash
    \/ \E t \in Mirrored : process_l4_row(t)

Spec == Init /\ [][Next]_vars

-----------------------------------------------------------------------------
(* Properties.                                                             *)

\* The tables hold what their columns name, a call is at one of its steps.
TypeOK ==
    /\ uploads \subseteq Files
    /\ totals \in [Files -> [valid : Nat, invalid : Nat, seen : Nat]]
    /\ metrics \subseteq Files
    /\ tasks \in [Tasks -> [status : {"absent", "open", "closed"}, store : Stores \cup {NoStore},
                            sla : Slas \cup {NoSla}, upload : Files \cup {NoFile}]]
    /\ errors \in [Files -> Nat]
    /\ pc \in [Calls -> {"idle", "check", "store", "row", "update", "insert", "totals", "metrics", "end"}]
    /\ file \in [Calls -> Files \cup {NoFile}]
    /\ left \in [Calls -> SUBSET Nat]
    /\ n \in [Calls -> [inserted : Nat, updated : Nat, skipped : Nat, valid : Nat, bad : Nat]]
    /\ reply \in [Calls -> {"none", "ops", "error", "idempotent", "imported"}]
    /\ interrupted \subseteq Files
    /\ faults \in Nat

\* The import logs what it leaves out: once an upload has its metrics, each row of
\* the file was dropped by the parser, is in import_errors, or is a seen task; none
\* is lost or counted as two of them, although the calls race for the same tasks.
RowsAccounted ==
    \A f \in metrics :
        /\ dropped[f] + errors[f] + totals[f].valid = total[f]
        /\ totals[f].seen = totals[f].valid

\* A task of an upload is a row of that file, with the store the row names: two
\* imports that write the same task never leave a mixture of their rows.
TaskMatchesItsUpload ==
    \A t \in Tasks : tasks[t].upload # NoFile =>
        /\ tasks[t].upload \in uploads
        /\ \E i \in DOMAIN parsed[tasks[t].upload] :
                /\ parsed[tasks[t].upload][i].task = t
                /\ parsed[tasks[t].upload][i].store = tasks[t].store

\* "idempotent" tells the caller that the file was imported before: unless a fault
\* cut that import short, every usable row is a task once no call works on the file.
CompleteUnlessInterrupted ==
    \A f \in uploads \ interrupted :
        (\A c \in Calls : Running(c) => file[c] # f)
            => \A i \in DOMAIN parsed[f] :
                    parsed[f][i].store \in Stores /\ parsed[f][i].task \notin Oversized
                        => parsed[f][i].task \in Stored

\* However many calls carry the same file at once, and however often a user who saw
\* a timeout tries again, its rows are imported by one call only.
Imports(c) == pc[c] \in {"row", "update", "insert", "totals", "metrics"} \/ n[c] # Zero
ImportedOnce ==
    \A c, d \in Calls : Imports(c) /\ Imports(d) /\ file[c] = file[d] => c = d
=============================================================================
