------------------------- MODULE ExcelImport_proofs -------------------------
(***************************************************************************)
(* Theorems about the import of spreadsheets, for any number of calls,     *)
(* files, rows, tasks and faults.                                          *)
(***************************************************************************)
EXTENDS ExcelImport, LeastElement, FiniteSetTheorems, TLAPS

-----------------------------------------------------------------------------
(* The inductive invariant.                                                *)

Importing == {"row", "update", "insert", "totals", "metrics"}
Counters  == [inserted : Nat, updated : Nat, skipped : Nat, valid : Nat, bad : Nat]

\* What a call has in hand at each of its steps.
CallInv ==
    \A c \in Calls :
        /\ pc[c] \notin {"idle", "end"} => file[c] \in Files /\ left[c] \subseteq KeptRows[file[c]]
        /\ pc[c] \in {"idle", "check", "store"} => n[c] = Zero
        /\ pc[c] \in {"check", "store"} => left[c] = KeptRows[file[c]]
        /\ pc[c] \in {"update", "insert"} => left[c] # {} /\ Row(c).store \in Stores
        /\ pc[c] \in {"totals", "metrics"} => left[c] = {}
        /\ Imports(c) => file[c] \in uploads

TypeInv == TypeOK /\ CallInv

\* A call has counted each row it has passed, an upload nobody stored has no errors.
CountInv ==
    /\ \A f \in Files \ uploads : errors[f] = 0 /\ f \notin metrics
    /\ \A c \in Calls :
        /\ pc[c] \in Importing =>
            /\ file[c] \notin metrics
            /\ errors[file[c]] + n[c].valid + Cardinality(left[c]) = Cardinality(KeptRows[file[c]])
            /\ n[c].inserted + n[c].updated = n[c].valid
        /\ pc[c] = "metrics" =>
            totals[file[c]].valid = n[c].valid /\ totals[file[c]].seen = n[c].valid

\* Rows of file f that can become tasks, and their tasks.
Usable(f) == {i \in KeptRows[f] : parsed[f][i].store \in Stores /\ parsed[f][i].task \notin Oversized}
Passed(f, rest) == \A i \in Usable(f) \ rest : parsed[f][i].task \in Stored

\* An upload that no fault cut short is complete, or a call works on what is missing.
CompleteInv ==
    \A f \in uploads \ interrupted :
        \/ Passed(f, {})
        \/ \E c \in Calls : pc[c] \in Importing /\ file[c] = f /\ Passed(f, left[c])

ImportInv ==
    TypeInv /\ ImportedOnce /\ CountInv /\ RowsAccounted /\ TaskMatchesItsUpload /\ CompleteInv

-----------------------------------------------------------------------------
(* The rows of a file.                                                     *)

LEMMA Rows ==
    ASSUME NEW f \in Files
    PROVE  /\ KeptRows[f] \subseteq 1 .. Len(RowsOf[f]) /\ KeptRows[f] \subseteq Nat
           /\ IsFiniteSet(KeptRows[f])
           /\ Cardinality(KeptRows[f]) \in Nat /\ Cardinality(KeptRows[f]) <= total[f]
           /\ total[f] \in Nat /\ dropped[f] = total[f] - Cardinality(KeptRows[f])
           /\ DOMAIN parsed[f] = KeptRows[f]
           /\ \A i \in KeptRows[f] :
                parsed[f][i].task \in Tasks /\ parsed[f][i].store = RowsOf[f][i].store
<1>1. /\ RowsOf[f] \in Seq(Cells) /\ Len(RowsOf[f]) \in Nat
      /\ DOMAIN RowsOf[f] = 1 .. Len(RowsOf[f])
  BY ImportAssumption
<1>2. KeptRows[f] \subseteq 1 .. Len(RowsOf[f])
  BY <1>1 DEF KeptRows
<1>3. IsFiniteSet(1 .. Len(RowsOf[f])) /\ Cardinality(1 .. Len(RowsOf[f])) = Len(RowsOf[f])
  BY <1>1, FS_Interval
<1>4. /\ IsFiniteSet(KeptRows[f]) /\ Cardinality(KeptRows[f]) <= Len(RowsOf[f])
      /\ Cardinality(KeptRows[f]) \in Nat
  BY <1>2, <1>3, FS_Subset, FS_CardinalityType
<1>5. DOMAIN parsed[f] = KeptRows[f] /\ \A i \in KeptRows[f] : parsed[f][i] = WithId(RowsOf[f][i])
  BY DEF parsed
<1>6. ASSUME NEW i \in KeptRows[f]
      PROVE  parsed[f][i].task \in Tasks /\ parsed[f][i].store = RowsOf[f][i].store
  <2>1. RowsOf[f][i] \in Cells
    BY <1>1, <1>2
  <2>2. \A x \in DOMAIN HashOf : HashOf[x] \in Tasks
    BY ImportAssumption
  <2> QED
    BY <1>5, <2>1, <2>2 DEF WithId, Cells
<1> QED
  BY <1>1, <1>2, <1>4, <1>5, <1>6 DEF total, dropped

\* The row in work is one of those that are left.
LEMMA AtLeft ==
    ASSUME TypeOK, NEW c \in Calls, left[c] # {}
    PROVE  At(c) \in left[c]
<1>1. left[c] \in SUBSET Nat
  BY DEF TypeOK
<1>2. \E i \in left[c] : \A j \in left[c] : i <= j
  BY <1>1, Least
<1> QED
  BY <1>2 DEF At

LEMMA OneRowLess ==
    ASSUME NEW f \in Files, NEW S \in SUBSET KeptRows[f], NEW i \in S
    PROVE  /\ Cardinality(S \ {i}) = Cardinality(S) - 1
           /\ Cardinality(S) \in Nat
<1>1. IsFiniteSet(S)
  BY Rows, FS_Subset
<1> QED
  BY <1>1, FS_RemoveElement, FS_CardinalityType

-----------------------------------------------------------------------------
(* The steps, by what they do to the state.                                *)

\* No import gets any further: other calls come and go, imports are cut short, the
\* other importer closes tasks and adds some of its own.
Quiet ==
    /\ UNCHANGED <<uploads, totals, metrics, errors>>
    /\ interrupted \subseteq interrupted'
    /\ \A d \in Calls :
        /\ pc'[d] \in Importing =>
            /\ pc[d] \in Importing /\ (pc'[d] = "metrics" => pc[d] = "metrics")
            /\ file'[d] = file[d] /\ left'[d] = left[d] /\ n'[d] = n[d]
        /\ pc[d] \in Importing => pc'[d] \in Importing \/ file[d] \in interrupted'
        /\ Imports(d)' => Imports(d) /\ file'[d] = file[d]
    /\ \A t \in Tasks :
        /\ tasks[t].status # "absent" => tasks'[t].status # "absent"
        /\ \/ tasks'[t].upload = NoFile
           \/ tasks'[t].upload = tasks[t].upload /\ tasks'[t].store = tasks[t].store

\* One row is over: it is one more error, or one more task.
Over(c) ==
    /\ pc[c] \in {"row", "update", "insert"}
    /\ left[c] # {}
    /\ left' = [left EXCEPT ![c] = @ \ {At(c)}]
    /\ pc' = [pc EXCEPT ![c] = "row"]
    /\ UNCHANGED <<uploads, totals, metrics, file, reply, interrupted, faults>>
    /\ n' = [n EXCEPT ![c] = n'[c]]
    /\ n'[c] \in Counters

Errs(c) ==
    /\ Over(c)
    /\ errors' = [errors EXCEPT ![file[c]] = @ + 1]
    /\ UNCHANGED tasks
    /\ n'[c].valid = n[c].valid /\ n'[c].inserted + n'[c].updated = n[c].inserted + n[c].updated
    /\ Row(c).store \notin Stores \/ Row(c).task \in Oversized \cup Stored

Writes(c) ==
    /\ Over(c)
    /\ WriteTask(c)
    /\ UNCHANGED errors
    /\ n'[c].valid = n[c].valid + 1
    /\ n'[c].inserted + n'[c].updated = n[c].inserted + n[c].updated + 1

LEMMA LookUpSteps ==
    ASSUME TypeInv, NEW c \in Calls, LookUpRow(c)
    PROVE  \/ Errs(c)
           \/ /\ UNCHANGED <<tableVars, file, left, n, reply, interrupted, faults>>
              /\ left[c] # {} /\ Row(c).store \in Stores /\ pc[c] = "row"
              /\ \E p \in {"update", "insert"} : pc' = [pc EXCEPT ![c] = p]
<1>1. n[c] \in Counters /\ n \in [Calls -> Counters]
  BY DEF TypeInv, TypeOK, Counters
<1>2. _get_store_id(Row(c).store) # NoStore <=> Row(c).store \in Stores
  BY ImportAssumption DEF _get_store_id
<1>3. CASE Row(c).store \in Stores
  BY <1>2, <1>3 DEF LookUpRow, GoTo, tableVars
<1>4. CASE Row(c).store \notin Stores
  <2>1. RowFails(c) /\ n' = [n EXCEPT ![c].skipped = @ + 1, ![c].bad = @ + 1]
    BY <1>2, <1>4 DEF LookUpRow
  <2>2. /\ n' = [n EXCEPT ![c] = n'[c]] /\ n'[c] \in Counters
        /\ n'[c].valid = n[c].valid /\ n'[c].inserted = n[c].inserted /\ n'[c].updated = n[c].updated
    BY <1>1, <2>1 DEF Counters
  <2> QED
    BY <1>2, <1>4, <2>1, <2>2 DEF LookUpRow, RowFails, GoTo, Errs, Over
<1> QED
  BY <1>3, <1>4

LEMMA UpdateSteps ==
    ASSUME TypeInv, NEW c \in Calls, UpdateTask(c)
    PROVE  Writes(c)
<1>1. n[c] \in Counters /\ n \in [Calls -> Counters] /\ left[c] # {}
  BY DEF TypeInv, TypeOK, CallInv, Counters, UpdateTask
<1>2. n' = [n EXCEPT ![c].updated = @ + 1, ![c].valid = @ + 1]
  BY DEF UpdateTask
<1>3. /\ n' = [n EXCEPT ![c] = n'[c]] /\ n'[c] \in Counters
      /\ n'[c].valid = n[c].valid + 1 /\ n'[c].inserted = n[c].inserted /\ n'[c].updated = n[c].updated + 1
  BY <1>1, <1>2 DEF Counters
<1>4. n'[c].inserted + n'[c].updated = n[c].inserted + n[c].updated + 1
  BY <1>1, <1>3 DEF Counters
<1> QED
  BY <1>1, <1>3, <1>4 DEF UpdateTask, RowDone, GoTo, Writes, Over

LEMMA InsertSteps ==
    ASSUME TypeInv, NEW c \in Calls, InsertTask(c)
    PROVE  Errs(c) \/ Writes(c)
<1>1. n[c] \in Counters /\ n \in [Calls -> Counters] /\ left[c] # {}
  BY DEF TypeInv, TypeOK, CallInv, Counters, InsertTask
<1>2. CASE Row(c).task \in Oversized \cup Stored
  <2>1. n' = [n EXCEPT ![c].bad = @ + 1]
    BY <1>2 DEF InsertTask
  <2>2. /\ n' = [n EXCEPT ![c] = n'[c]] /\ n'[c] \in Counters
        /\ n'[c].valid = n[c].valid /\ n'[c].inserted = n[c].inserted /\ n'[c].updated = n[c].updated
    BY <1>1, <2>1 DEF Counters
  <2> QED
    BY <1>1, <1>2, <2>2 DEF InsertTask, RowFails, GoTo, Errs, Over
<1>3. CASE Row(c).task \notin Oversized \cup Stored
  <2>1. n' = [n EXCEPT ![c].inserted = @ + 1, ![c].valid = @ + 1]
    BY <1>3 DEF InsertTask
  <2>2. /\ n' = [n EXCEPT ![c] = n'[c]] /\ n'[c] \in Counters
        /\ n'[c].valid = n[c].valid + 1 /\ n'[c].inserted = n[c].inserted + 1 /\ n'[c].updated = n[c].updated
    BY <1>1, <2>1 DEF Counters
  <2>3. n'[c].inserted + n'[c].updated = n[c].inserted + n[c].updated + 1
    BY <1>1, <2>2 DEF Counters
  <2> QED
    BY <1>1, <1>3, <2>2, <2>3 DEF InsertTask, RowDone, GoTo, Writes, Over
<1> QED
  BY <1>2, <1>3

\* The row in work is one of its file.
LEMMA RowInWork ==
    ASSUME TypeInv, NEW c \in Calls, pc[c] \in {"row", "update", "insert"}, left[c] # {}
    PROVE  /\ file[c] \in Files /\ At(c) \in left[c] /\ At(c) \in KeptRows[file[c]]
           /\ Row(c) = parsed[file[c]][At(c)] /\ Row(c).task \in Tasks
           /\ file[c] \in uploads
<1>1. file[c] \in Files /\ left[c] \subseteq KeptRows[file[c]]
  BY DEF TypeInv, CallInv
<1>2. At(c) \in left[c]
  BY AtLeft DEF TypeInv
<1>3. file[c] \in uploads
  BY DEF TypeInv, CallInv, Imports
<1> QED
  BY <1>1, <1>2, <1>3, Rows DEF Row

LEMMA WriteTyped ==
    ASSUME TypeInv, NEW c \in Calls, pc[c] \in {"update", "insert"}, WriteTask(c)
    PROVE  /\ tasks' \in [Tasks -> [status : {"absent", "open", "closed"}, store : Stores \cup {NoStore},
                                    sla : Slas \cup {NoSla}, upload : Files \cup {NoFile}]]
           /\ \A t \in Tasks : t # Row(c).task => tasks'[t] = tasks[t]
           /\ tasks'[Row(c).task].upload = file[c] /\ tasks'[Row(c).task].store = Row(c).store
           /\ tasks'[Row(c).task].status = "open"
<1>1. left[c] # {} /\ Row(c).store \in Stores
  BY DEF TypeInv, CallInv
<1>2. Row(c).task \in Tasks /\ file[c] \in Files
  BY <1>1, RowInWork
<1>3. _to_dt(Row(c).sla) \in Slas \cup {NoSla}
  BY DEF _to_dt
<1>4. tasks[Row(c).task].sla \in Slas \cup {NoSla}
  BY <1>2 DEF TypeInv, TypeOK
<1> QED
  BY <1>1, <1>2, <1>3, <1>4 DEF WriteTask, TypeInv, TypeOK

\* A row that is over leaves a typed state.
LEMMA OverTyped ==
    ASSUME TypeInv, NEW c \in Calls, Over(c),
           errors' \in [Files -> Nat],
           tasks' \in [Tasks -> [status : {"absent", "open", "closed"}, store : Stores \cup {NoStore},
                                 sla : Slas \cup {NoSla}, upload : Files \cup {NoFile}]]
    PROVE  TypeInv'
<1>1. n' \in [Calls -> Counters] /\ \A d \in Calls \ {c} : n'[d] = n[d]
  BY DEF Over, TypeInv, TypeOK, Counters
<1>2. left' \in [Calls -> SUBSET Nat] /\ left'[c] \subseteq left[c]
  BY DEF Over, TypeInv, TypeOK
<1>3. pc' \in [Calls -> {"idle", "check", "store", "row", "update", "insert", "totals", "metrics", "end"}]
  BY DEF Over, TypeInv, TypeOK
<1>4. TypeOK'
  BY <1>1, <1>2, <1>3 DEF Over, TypeInv, TypeOK, Counters
<1>5. ASSUME NEW d \in Calls, d # c
      PROVE  /\ pc'[d] = pc[d] /\ left'[d] = left[d] /\ n'[d] = n[d] /\ file'[d] = file[d]
             /\ Row(d)' = Row(d)
  BY <1>1, <1>5 DEF Over, TypeInv, TypeOK, Row, At
<1>6. pc'[c] = "row" /\ file'[c] = file[c] /\ file[c] \in Files /\ left[c] \subseteq KeptRows[file[c]]
      /\ file[c] \in uploads /\ uploads' = uploads
  BY DEF Over, TypeInv, TypeOK, CallInv, Imports
<1>7. CallInv'
  BY <1>2, <1>5, <1>6 DEF TypeInv, CallInv, Imports
<1> QED
  BY <1>4, <1>7 DEF TypeInv

LEMMA ErrsTyped ==
    ASSUME TypeInv, NEW c \in Calls, Errs(c)
    PROVE  TypeInv'
<1>1. errors' \in [Files -> Nat]
  BY RowInWork DEF Errs, Over, TypeInv, TypeOK
<1> QED
  BY <1>1, OverTyped DEF Errs, TypeInv, TypeOK

LEMMA WritesTyped ==
    ASSUME TypeInv, NEW c \in Calls, UpdateTask(c) \/ InsertTask(c), Writes(c)
    PROVE  TypeInv'
<1>1. errors' \in [Files -> Nat]
  BY DEF Writes, TypeInv, TypeOK
<1>2. pc[c] \in {"update", "insert"}
  BY DEF UpdateTask, InsertTask
<1> QED
  BY <1>1, <1>2, WriteTyped, OverTyped DEF Writes

\* Steps that leave the rows and the counters of all calls alone, and file hashes stored.
LEMMA StayTyped ==
    ASSUME TypeInv, TypeOK', NEW c \in Calls,
           UNCHANGED <<file, left, n>>, uploads \subseteq uploads',
           \A d \in Calls \ {c} : pc'[d] = pc[d],
           \/ pc'[c] \in {pc[c], "end"}
           \/ pc[c] = "check" /\ pc'[c] = "store"
           \/ pc[c] = "store" /\ pc'[c] = "row" /\ file[c] \in uploads'
           \/ pc[c] = "row" /\ pc'[c] \in {"update", "insert"} /\ left[c] # {} /\ Row(c).store \in Stores
           \/ pc[c] = "row" /\ pc'[c] = "totals" /\ left[c] = {}
           \/ pc[c] = "totals" /\ pc'[c] = "metrics"
    PROVE  TypeInv'
<1>1. \A d \in Calls : Row(d)' = Row(d)
  BY DEF Row, At
<1>2. \A d \in Calls \ {c} :
        /\ pc'[d] \notin {"idle", "end"} => file'[d] \in Files /\ left'[d] \subseteq KeptRows[file'[d]]
        /\ pc'[d] \in {"idle", "check", "store"} => n'[d] = Zero
        /\ pc'[d] \in {"check", "store"} => left'[d] = KeptRows[file'[d]]
        /\ pc'[d] \in {"update", "insert"} => left'[d] # {} /\ Row(d)'.store \in Stores
        /\ pc'[d] \in {"totals", "metrics"} => left'[d] = {}
        /\ Imports(d)' => file'[d] \in uploads'
  BY <1>1 DEF TypeInv, CallInv, Imports
<1>3. /\ pc'[c] \notin {"idle", "end"} => file'[c] \in Files /\ left'[c] \subseteq KeptRows[file'[c]]
      /\ pc'[c] \in {"idle", "check", "store"} => n'[c] = Zero
      /\ pc'[c] \in {"check", "store"} => left'[c] = KeptRows[file'[c]]
      /\ pc'[c] \in {"update", "insert"} => left'[c] # {} /\ Row(c)'.store \in Stores
      /\ pc'[c] \in {"totals", "metrics"} => left'[c] = {}
  BY <1>1 DEF TypeInv, CallInv
<1>4. Imports(c)' => file'[c] \in uploads'
  BY DEF TypeInv, CallInv, Imports
<1> QED
  BY <1>2, <1>3, <1>4 DEF TypeInv, CallInv

LEMMA ReceiveQuiet ==
    ASSUME TypeInv, NEW c \in Calls, NEW f \in Files, Receive(c, f)
    PROVE  TypeInv' /\ Quiet
<1>1. pc[c] = "idle" /\ n[c] = Zero /\ file' = [file EXCEPT ![c] = f]
  BY DEF Receive, TypeInv, CallInv
<1>2. /\ left \in [Calls -> SUBSET Nat] /\ KeptRows[f] \subseteq Nat /\ DOMAIN parsed[f] = KeptRows[f]
      /\ pc \in [Calls -> {"idle", "check", "store", "row", "update", "insert", "totals", "metrics", "end"}]
      /\ file \in [Calls -> Files \cup {NoFile}]
  BY Rows DEF TypeInv, TypeOK
<1>3. /\ pc'[c] \in {"check", "end"} /\ file'[c] = f /\ n' = n
      /\ pc'[c] = "check" => left'[c] = KeptRows[f]
      /\ \A d \in Calls \ {c} :
            pc'[d] = pc[d] /\ file'[d] = file[d] /\ left'[d] = left[d] /\ Row(d)' = Row(d)
  BY <1>2 DEF Receive, Answer, GoTo, Row, At
<1>4. left' \in [Calls -> SUBSET Nat]
  BY <1>2 DEF Receive
<1>5. reply' \in [Calls -> {"none", "ops", "error", "idempotent", "imported"}]
  BY DEF Receive, Answer, Told, GoTo, TypeInv, TypeOK
<1>6. pc' \in [Calls -> {"idle", "check", "store", "row", "update", "insert", "totals", "metrics", "end"}]
  BY <1>2 DEF Receive, Answer, GoTo
<1>7. file' \in [Calls -> Files \cup {NoFile}]
  BY <1>1, <1>2
<1>8. TypeOK'
  BY <1>4, <1>5, <1>6, <1>7 DEF Receive, TypeInv, TypeOK, tableVars
<1>9. CallInv'
  BY <1>1, <1>3 DEF Receive, TypeInv, CallInv, Imports, tableVars
<1>10. Quiet
  BY <1>1, <1>3 DEF Receive, Quiet, Imports, Importing, tableVars
<1> QED
  BY <1>8, <1>9, <1>10 DEF TypeInv

LEMMA CheckQuiet ==
    ASSUME TypeInv, NEW c \in Calls, CheckUpload(c)
    PROVE  TypeInv' /\ Quiet
<1>1. pc[c] = "check" /\ n[c] = Zero
  BY DEF CheckUpload, TypeInv, CallInv
<1>2. pc \in [Calls -> {"idle", "check", "store", "row", "update", "insert", "totals", "metrics", "end"}]
  BY DEF TypeInv, TypeOK
<1>3. pc'[c] \in {"store", "end"} /\ \A d \in Calls \ {c} : pc'[d] = pc[d]
  BY <1>2 DEF CheckUpload, Answer, GoTo
<1>4. TypeOK'
  BY <1>2 DEF CheckUpload, Answer, Told, GoTo, TypeInv, TypeOK, tableVars
<1>5. TypeInv'
  BY <1>1, <1>3, <1>4, StayTyped DEF CheckUpload, tableVars
<1>6. Quiet
  BY <1>1, <1>3 DEF CheckUpload, Quiet, Imports, Importing, tableVars
<1> QED
  BY <1>5, <1>6

\* A row whose store is known is looked up.
LEMMA LookUpQuiet ==
    ASSUME TypeInv, NEW c \in Calls,
           UNCHANGED <<tableVars, file, left, n, reply, interrupted, faults>>,
           left[c] # {}, Row(c).store \in Stores, pc[c] = "row",
           NEW p \in {"update", "insert"}, pc' = [pc EXCEPT ![c] = p]
    PROVE  TypeInv' /\ Quiet
<1>1. pc'[c] = p /\ \A d \in Calls \ {c} : pc'[d] = pc[d]
  BY DEF TypeInv, TypeOK
<1>2. TypeOK'
  BY DEF TypeInv, TypeOK, tableVars
<1>3. TypeInv'
  BY <1>1, <1>2, StayTyped DEF tableVars
<1>4. Quiet
  BY <1>1 DEF Quiet, Imports, Importing, tableVars
<1> QED
  BY <1>3, <1>4

LEMMA EndRowsQuiet ==
    ASSUME TypeInv, NEW c \in Calls, EndRows(c)
    PROVE  TypeInv' /\ Quiet
<1>1. pc[c] = "row" /\ pc'[c] = "totals" /\ \A d \in Calls \ {c} : pc'[d] = pc[d]
  BY DEF EndRows, GoTo, TypeInv, TypeOK
<1>2. TypeOK'
  BY DEF EndRows, GoTo, TypeInv, TypeOK, tableVars
<1>3. TypeInv'
  BY <1>1, <1>2, StayTyped DEF EndRows, tableVars
<1>4. Quiet
  BY <1>1 DEF EndRows, Quiet, Imports, Importing, tableVars
<1> QED
  BY <1>3, <1>4

LEMMA TimeOutQuiet ==
    ASSUME TypeInv, NEW c \in Calls, FormTimesOut(c)
    PROVE  TypeInv' /\ Quiet
<1>1. TypeOK'
  BY DEF FormTimesOut, TypeInv, TypeOK, tableVars
<1>2. TypeInv'
  BY <1>1, StayTyped DEF FormTimesOut, tableVars
<1>3. Quiet
  BY DEF FormTimesOut, Quiet, Imports, Importing, tableVars
<1> QED
  BY <1>2, <1>3

LEMMA FailQuiet ==
    ASSUME TypeInv, NEW C \in SUBSET Calls, \A c \in C : Running(c), Fail(C)
    PROVE  TypeInv' /\ Quiet
<1>1. \A d \in Calls : pc'[d] = IF d \in C THEN "end" ELSE pc[d]
  BY DEF Fail
<1>2. pc' \in [Calls -> {"idle", "check", "store", "row", "update", "insert", "totals", "metrics", "end"}]
  BY DEF Fail, TypeInv, TypeOK
<1>3. reply' \in [Calls -> {"none", "ops", "error", "idempotent", "imported"}]
  <2>1. \A d \in Calls :
            /\ reply[d] \in {"none", "ops", "error", "idempotent", "imported"}
            /\ Told(d, "error") \in {"none", "ops", "error", "idempotent", "imported"}
    BY DEF TypeInv, TypeOK, Told
  <2> QED
    BY <2>1 DEF Fail
<1>4. Cut(C) \subseteq Files
  BY DEF Cut, TypeInv, CallInv
<1>5. TypeOK'
  BY <1>2, <1>3, <1>4, ImportAssumption DEF Fail, TypeInv, TypeOK, tableVars
<1>6. \A d \in Calls : Row(d)' = Row(d)
  BY DEF Fail, Row, At
<1>7. CallInv'
  BY <1>1, <1>6 DEF Fail, TypeInv, CallInv, Imports, tableVars
<1>8. \A d \in Calls :
        pc[d] \in Importing => pc'[d] \in Importing \/ file[d] \in interrupted'
  BY <1>1 DEF Fail, Cut, Importing
<1>9. \A d \in Calls : Imports(d)' => Imports(d)
  BY <1>1 DEF Fail, Imports
<1>10. Quiet
  BY <1>1, <1>8, <1>9 DEF Fail, Quiet, Importing, tableVars
<1> QED
  BY <1>5, <1>7, <1>10 DEF TypeInv

LEMMA MirrorQuiet ==
    ASSUME TypeInv, NEW t \in Mirrored, process_l4_row(t)
    PROVE  TypeInv' /\ Quiet
<1>1. t \in Tasks
  BY ImportAssumption
<1>2. PICK s \in Stores :
        tasks' = [tasks EXCEPT ![t] =
                    IF t \in Stored THEN [@ EXCEPT !.status = "closed"]
                    ELSE [Absent EXCEPT !.status = "closed", !.store = s]]
  BY DEF process_l4_row
<1>3. \A u \in Tasks \ {t} : tasks'[u] = tasks[u]
  BY <1>2 DEF TypeInv, TypeOK
<1>4. /\ tasks' \in [Tasks -> [status : {"absent", "open", "closed"}, store : Stores \cup {NoStore},
                               sla : Slas \cup {NoSla}, upload : Files \cup {NoFile}]]
      /\ tasks'[t].status = "closed"
      /\ \/ tasks'[t].upload = NoFile
         \/ tasks'[t].upload = tasks[t].upload /\ tasks'[t].store = tasks[t].store
  <2>1. CASE t \in Stored
    <3>1. tasks' = [tasks EXCEPT ![t] = [@ EXCEPT !.status = "closed"]]
      BY <1>2, <2>1
    <3>2. PICK old \in [status : {"absent", "open", "closed"}, store : Stores \cup {NoStore},
                          sla : Slas \cup {NoSla}, upload : Files \cup {NoFile}] : old = tasks[t]
      BY <1>1 DEF TypeInv, TypeOK
    <3>3. tasks' = [tasks EXCEPT ![t] = [old EXCEPT !.status = "closed"]]
      BY <3>1, <3>2
    <3>4. [old EXCEPT !.status = "closed"] \in
            [status : {"absent", "open", "closed"}, store : Stores \cup {NoStore},
             sla : Slas \cup {NoSla}, upload : Files \cup {NoFile}]
      OBVIOUS
    <3> QED
      BY <1>1, <3>2, <3>3, <3>4 DEF TypeInv, TypeOK
  <2>2. CASE t \notin Stored
    BY <1>1, <1>2, <2>2 DEF TypeInv, TypeOK, Absent
  <2> QED
    BY <2>1, <2>2
<1>5. TypeOK'
  BY <1>4 DEF process_l4_row, TypeInv, TypeOK, callVars
<1>6. \A d \in Calls : Row(d)' = Row(d) /\ Imports(d)' = Imports(d)
  BY DEF process_l4_row, callVars, Row, At, Imports
<1>7. CallInv'
  BY <1>6 DEF process_l4_row, TypeInv, CallInv, callVars
<1>8. Quiet
  BY <1>3, <1>4, <1>6 DEF process_l4_row, Quiet, callVars
<1> QED
  BY <1>5, <1>7, <1>8 DEF TypeInv

LEMMA StutterQuiet ==
    ASSUME TypeInv, UNCHANGED vars
    PROVE  TypeInv' /\ Quiet
<1>1. \A d \in Calls : Row(d)' = Row(d) /\ Imports(d)' = Imports(d)
  BY DEF vars, callVars, Row, At, Imports
<1>2. TypeOK'
  BY DEF TypeInv, TypeOK, vars, tableVars, callVars
<1>3. CallInv'
  BY <1>1 DEF TypeInv, CallInv, vars, tableVars, callVars
<1>4. Quiet
  BY <1>1 DEF Quiet, vars, tableVars, callVars
<1> QED
  BY <1>2, <1>3, <1>4 DEF TypeInv

-----------------------------------------------------------------------------
(* What a quiet step keeps.                                                *)

LEMMA QuietKeeps ==
    ASSUME ImportInv, TypeInv', Quiet
    PROVE  ImportInv'
<1>1. ImportedOnce'
  BY DEF ImportInv, ImportedOnce, Quiet
<1>2. CountInv'
  <2>1. \A f \in Files \ uploads' : errors'[f] = 0 /\ f \notin metrics'
    BY DEF ImportInv, CountInv, Quiet
  <2>2. ASSUME NEW c \in Calls, pc'[c] \in Importing
        PROVE  /\ file'[c] \notin metrics'
               /\ errors'[file'[c]] + n'[c].valid + Cardinality(left'[c]) = Cardinality(KeptRows[file'[c]])
               /\ n'[c].inserted + n'[c].updated = n'[c].valid
               /\ pc'[c] = "metrics" =>
                    totals'[file'[c]].valid = n'[c].valid /\ totals'[file'[c]].seen = n'[c].valid
    <3>1. /\ pc[c] \in Importing /\ (pc'[c] = "metrics" => pc[c] = "metrics")
          /\ file'[c] = file[c] /\ left'[c] = left[c] /\ n'[c] = n[c]
          /\ metrics' = metrics /\ errors' = errors /\ totals' = totals
      BY <2>2 DEF Quiet
    <3> QED
      BY <3>1 DEF ImportInv, CountInv
  <2> QED
    BY <2>1, <2>2 DEF CountInv, Importing
<1>3. RowsAccounted'
  BY DEF ImportInv, RowsAccounted, Quiet
<1>4. TaskMatchesItsUpload'
  BY DEF ImportInv, TaskMatchesItsUpload, Quiet
<1>5. \A t \in Tasks : t \in Stored => t \in Stored'
  BY DEF Quiet, Stored
<1>6. ASSUME NEW f \in Files, NEW rest, Passed(f, rest)
      PROVE  Passed(f, rest)'
  BY <1>5, <1>6, Rows DEF Passed, Usable
<1>7. CompleteInv'
  <2> SUFFICES ASSUME NEW f \in uploads' \ interrupted'
               PROVE  \/ Passed(f, {})'
                      \/ \E c \in Calls : pc'[c] \in Importing /\ file'[c] = f /\ Passed(f, left[c])'
                            /\ left'[c] = left[c]
    BY DEF CompleteInv, Passed, Stored
  <2>1. f \in uploads \ interrupted /\ f \in Files
    BY DEF Quiet, ImportInv, TypeInv, TypeOK
  <2>2. CASE Passed(f, {})
    BY <1>6, <2>1, <2>2
  <2>3. CASE \E c \in Calls : pc[c] \in Importing /\ file[c] = f /\ Passed(f, left[c])
    <3>1. PICK c \in Calls : pc[c] \in Importing /\ file[c] = f /\ Passed(f, left[c])
      BY <2>3
    <3>2. pc'[c] \in Importing
      BY <3>1 DEF Quiet
    <3>3. file'[c] = f /\ left'[c] = left[c]
      BY <3>1, <3>2 DEF Quiet
    <3>4. \A t \in Tasks : t \in Stored => t \in Stored'
      BY <1>5
    <3> QED
      BY <2>1, <3>1, <3>2, <3>3, <3>4, Rows DEF Passed, Usable
  <2> QED
    BY <2>1, <2>2, <2>3 DEF ImportInv, CompleteInv
<1> QED
  BY <1>1, <1>2, <1>3, <1>4, <1>7 DEF ImportInv

-----------------------------------------------------------------------------
(* The steps of an import.                                                 *)

LEMMA StoreUploadKeeps ==
    ASSUME ImportInv, NEW c \in Calls, StoreUpload(c)
    PROVE  ImportInv'
<1>1. /\ pc[c] = "store" /\ file[c] \in Files /\ n[c] = Zero /\ left[c] = KeptRows[file[c]]
      /\ TypeInv
      /\ pc \in [Calls -> {"idle", "check", "store", "row", "update", "insert", "totals", "metrics", "end"}]
  BY DEF StoreUpload, ImportInv, TypeInv, TypeOK, CallInv
<1>2. TypeOK'
  <2>1. uploads' \subseteq Files
    BY <1>1 DEF StoreUpload, TypeInv, TypeOK
  <2>2. pc' \in [Calls -> {"idle", "check", "store", "row", "update", "insert", "totals", "metrics", "end"}]
    BY <1>1 DEF StoreUpload, Answer, GoTo
  <2>3. reply' \in [Calls -> {"none", "ops", "error", "idempotent", "imported"}]
    BY DEF StoreUpload, Answer, Told, GoTo, ImportInv, TypeInv, TypeOK
  <2> QED
    BY <1>1, <2>1, <2>2, <2>3 DEF StoreUpload, TypeInv, TypeOK
<1>3. pc'[c] \in {"row", "end"} /\ \A d \in Calls \ {c} : pc'[d] = pc[d]
  BY <1>1 DEF StoreUpload, Answer, GoTo
<1>4. pc'[c] = "row" => file[c] \notin uploads /\ uploads' = uploads \cup {file[c]}
  BY <1>1 DEF StoreUpload, Answer
<1>5. TypeInv'
  BY <1>1, <1>2, <1>3, <1>4, StayTyped DEF StoreUpload
<1>6. CASE pc'[c] = "end"
  <2>1. UNCHANGED <<uploads, totals, metrics, tasks, errors, file, left, n, interrupted, faults>>
    BY <1>1, <1>6 DEF StoreUpload, GoTo
  <2>2. Quiet
    BY <1>1, <1>3, <1>6, <2>1 DEF Quiet, Imports, Importing
  <2> QED
    BY <1>5, <2>2, QuietKeeps
<1>7. CASE pc'[c] = "row"
  <2>1. \A d \in Calls \ {c} : Imports(d)' = Imports(d) /\ (Imports(d) => file[d] # file[c])
    BY <1>1, <1>3, <1>4, <1>7 DEF StoreUpload, Imports, ImportInv, TypeInv, CallInv
  <2>2. ImportedOnce'
    BY <2>1 DEF StoreUpload, ImportInv, ImportedOnce
  <2>3. errors[file[c]] = 0 /\ file[c] \notin metrics
    BY <1>1, <1>4, <1>7 DEF ImportInv, CountInv
  <2>4. Cardinality(KeptRows[file[c]]) \in Nat
    BY <1>1, Rows
  <2>5. CountInv'
    <3>1. \A f \in Files \ uploads' : errors'[f] = 0 /\ f \notin metrics'
      BY <1>4, <1>7 DEF StoreUpload, ImportInv, CountInv
    <3>2. errors[file[c]] + n[c].valid + Cardinality(left[c]) = Cardinality(KeptRows[file[c]])
      BY <1>1, <2>3, <2>4 DEF Zero
    <3>3. n[c].inserted + n[c].updated = n[c].valid
      BY <1>1 DEF Zero
    <3> QED
      BY <1>3, <1>7, <2>3, <3>1, <3>2, <3>3 DEF StoreUpload, ImportInv, CountInv
  <2>6. RowsAccounted'
    BY DEF StoreUpload, ImportInv, RowsAccounted
  <2>7. TaskMatchesItsUpload'
    BY <1>4, <1>7 DEF StoreUpload, ImportInv, TaskMatchesItsUpload
  <2>8. CompleteInv'
    <3>1. \A f, rest : Passed(f, rest)' = Passed(f, rest)
      BY DEF StoreUpload, Passed, Stored
    <3>2. Passed(file[c], left[c])
      BY <1>1 DEF Passed, Usable
    <3>3. ASSUME NEW f \in uploads \ interrupted
          PROVE  \/ Passed(f, {})
                 \/ \E d \in Calls : pc'[d] \in Importing /\ file[d] = f /\ Passed(f, left[d])
      BY <1>1, <1>3, <1>7 DEF ImportInv, CompleteInv, Importing
    <3>4. pc'[c] \in Importing
      BY <1>7 DEF Importing
    <3>5. \A f \in uploads' \ interrupted' :
            \/ Passed(f, {})
            \/ \E d \in Calls : pc'[d] \in Importing /\ file[d] = f /\ Passed(f, left[d])
      BY <1>4, <1>7, <3>2, <3>3, <3>4 DEF StoreUpload
    <3> QED
      BY <3>5 DEF StoreUpload, CompleteInv, Passed, Stored
  <2> QED
    BY <1>5, <2>2, <2>5, <2>6, <2>7, <2>8 DEF ImportInv
<1> QED
  BY <1>3, <1>6, <1>7

\* Another importing call has another file.
LEMMA OthersApart ==
    ASSUME ImportInv, NEW c \in Calls, pc[c] \in Importing, NEW d \in Calls, d # c,
           pc[d] \in Importing
    PROVE  file[d] # file[c]
BY DEF ImportInv, ImportedOnce, Imports, Importing

LEMMA OverImports ==
    ASSUME TypeInv, NEW c \in Calls, Over(c)
    PROVE  /\ \A d \in Calls : Imports(d)' => Imports(d)
           /\ pc'[c] = "row" /\ left'[c] = left[c] \ {At(c)}
           /\ \A d \in Calls \ {c} : pc'[d] = pc[d] /\ left'[d] = left[d] /\ n'[d] = n[d]
<1>1. /\ n \in [Calls -> Counters] /\ left \in [Calls -> SUBSET Nat]
      /\ pc \in [Calls -> {"idle", "check", "store", "row", "update", "insert", "totals", "metrics", "end"}]
  BY DEF TypeInv, TypeOK, Counters
<1>2. pc'[c] = "row" /\ left'[c] = left[c] \ {At(c)}
  BY <1>1 DEF Over
<1>3. \A d \in Calls \ {c} : pc'[d] = pc[d] /\ left'[d] = left[d] /\ n'[d] = n[d]
  BY <1>1 DEF Over
<1> QED
  BY <1>2, <1>3 DEF Over, Imports

\* A row that is over keeps the import's books, and the upload's completeness.
LEMMA OverKeeps ==
    ASSUME ImportInv, TypeInv', NEW c \in Calls, Over(c),
           \A f \in Files \ {file[c]} : errors'[f] = errors[f],
           errors'[file[c]] + n'[c].valid = errors[file[c]] + n[c].valid + 1,
           n'[c].inserted + n'[c].updated + n[c].valid = n[c].inserted + n[c].updated + n'[c].valid,
           \A t \in Tasks : tasks[t].status # "absent" => tasks'[t].status # "absent",
           \/ Row(c).store \notin Stores \/ Row(c).task \in Oversized
              \/ tasks'[Row(c).task].status # "absent"
    PROVE  ImportedOnce' /\ CountInv' /\ RowsAccounted' /\ CompleteInv'
<1>1. /\ TypeInv /\ pc[c] \in Importing /\ pc[c] # "metrics"
      /\ pc[c] \in {"row", "update", "insert"} /\ left[c] # {}
  BY DEF Over, ImportInv, Importing
<1>2. /\ file[c] \in Files /\ At(c) \in left[c] /\ At(c) \in KeptRows[file[c]]
      /\ Row(c) = parsed[file[c]][At(c)] /\ Row(c).task \in Tasks /\ file[c] \in uploads
  BY <1>1, RowInWork
<1>3. /\ \A d \in Calls : Imports(d)' => Imports(d)
      /\ pc'[c] = "row" /\ left'[c] = left[c] \ {At(c)}
      /\ \A d \in Calls \ {c} : pc'[d] = pc[d] /\ left'[d] = left[d] /\ n'[d] = n[d]
  BY <1>1, OverImports
<1>4. ImportedOnce'
  BY <1>3 DEF Over, ImportInv, ImportedOnce
<1>5. /\ file[c] \notin metrics
      /\ errors[file[c]] + n[c].valid + Cardinality(left[c]) = Cardinality(KeptRows[file[c]])
      /\ n[c].inserted + n[c].updated = n[c].valid
  BY <1>1 DEF ImportInv, CountInv
<1>6. CountInv'
  <2>1. \A f \in Files \ uploads' : errors'[f] = 0 /\ f \notin metrics'
    BY <1>2 DEF Over, ImportInv, CountInv
  <2>2. Cardinality(left'[c]) = Cardinality(left[c]) - 1 /\ Cardinality(left[c]) \in Nat
    <3>1. left[c] \in SUBSET KeptRows[file[c]]
      BY <1>1 DEF TypeInv, CallInv, Importing
    <3> QED
      BY <1>2, <1>3, <3>1, OneRowLess
  <2>3. /\ errors[file[c]] \in Nat /\ n[c].valid \in Nat /\ n'[c].valid \in Nat
        /\ errors'[file[c]] \in Nat /\ Cardinality(KeptRows[file[c]]) \in Nat
        /\ n[c].inserted \in Nat /\ n[c].updated \in Nat
        /\ n'[c].inserted \in Nat /\ n'[c].updated \in Nat
    <3>1. n[c] \in Counters /\ n'[c] \in Counters
      BY DEF Over, ImportInv, TypeInv, TypeOK, Counters
    <3>2. errors[file[c]] \in Nat /\ errors'[file[c]] \in Nat
      BY <1>2 DEF ImportInv, TypeInv, TypeOK
    <3> QED
      BY <1>2, <3>1, <3>2, Rows DEF Counters
  <2>4. /\ errors'[file[c]] + n'[c].valid + Cardinality(left'[c]) = Cardinality(KeptRows[file[c]])
        /\ n'[c].inserted + n'[c].updated = n'[c].valid
    BY <1>5, <2>2, <2>3
  <2>5. ASSUME NEW d \in Calls \ {c}, pc[d] \in Importing
        PROVE  errors'[file[d]] = errors[file[d]]
    <3>1. file[d] # file[c]
      BY <1>1, <2>5, OthersApart
    <3>2. file[d] \in Files
      BY <2>5 DEF ImportInv, TypeInv, CallInv, Importing
    <3> QED
      BY <3>1, <3>2
  <2>6. ASSUME NEW d \in Calls, pc'[d] \in Importing
        PROVE  /\ file'[d] \notin metrics'
               /\ errors'[file'[d]] + n'[d].valid + Cardinality(left'[d]) = Cardinality(KeptRows[file'[d]])
               /\ n'[d].inserted + n'[d].updated = n'[d].valid
               /\ pc'[d] = "metrics" =>
                    totals'[file'[d]].valid = n'[d].valid /\ totals'[file'[d]].seen = n'[d].valid
    <3>1. file' = file /\ metrics' = metrics /\ totals' = totals
      BY DEF Over
    <3>2. CASE d = c
      BY <1>3, <1>5, <2>4, <3>1, <3>2
    <3>3. CASE d # c
      <4>1. pc[d] \in Importing /\ pc'[d] = pc[d] /\ left'[d] = left[d] /\ n'[d] = n[d]
        BY <1>3, <2>6, <3>3
      <4> QED
        BY <2>5, <3>1, <3>3, <4>1 DEF ImportInv, CountInv
    <3> QED
      BY <3>2, <3>3
  <2> QED
    BY <2>1, <2>6 DEF CountInv, Importing
<1>7. RowsAccounted'
  <2>1. \A f \in metrics : f # file[c] /\ f \in Files
    BY <1>5 DEF ImportInv, TypeInv, TypeOK
  <2> QED
    BY <2>1 DEF Over, ImportInv, RowsAccounted
<1>8. CompleteInv'
  <2>1. ASSUME NEW f \in Files, NEW rest, Passed(f, rest)
        PROVE  \A i \in Usable(f) \ rest : tasks'[parsed[f][i].task].status # "absent"
    <3>1. \A i \in Usable(f) \ rest : parsed[f][i].task \in Tasks /\ parsed[f][i].task \in Stored
      BY <2>1, Rows DEF Passed, Usable
    <3> QED
      BY <3>1 DEF Stored
  <2>2. ASSUME NEW f \in Files, NEW rest,
               \A i \in Usable(f) \ rest : tasks'[parsed[f][i].task].status # "absent"
        PROVE  Passed(f, rest)'
    BY <2>2, Rows DEF Passed, Usable, Stored
  <2>3. ASSUME Passed(file[c], left[c])
        PROVE  \A i \in Usable(file[c]) \ left'[c] : tasks'[parsed[file[c]][i].task].status # "absent"
    <3>1. \A i \in Usable(file[c]) \ left[c] : tasks'[parsed[file[c]][i].task].status # "absent"
      BY <1>2, <2>1, <2>3
    <3>2. At(c) \in Usable(file[c]) => tasks'[parsed[file[c]][At(c)].task].status # "absent"
      BY <1>2 DEF Usable
    <3> QED
      BY <1>3, <3>1, <3>2
  <2>4. ASSUME NEW f \in uploads \ interrupted
        PROVE  \/ \A i \in Usable(f) \ {} : tasks'[parsed[f][i].task].status # "absent"
               \/ \E d \in Calls :
                    /\ pc'[d] \in Importing /\ file[d] = f
                    /\ \A i \in Usable(f) \ left'[d] : tasks'[parsed[f][i].task].status # "absent"
    <3>1. f \in Files
      BY DEF ImportInv, TypeInv, TypeOK
    <3>2. CASE Passed(f, {})
      BY <2>1, <3>1, <3>2
    <3>3. CASE \E d \in Calls : pc[d] \in Importing /\ file[d] = f /\ Passed(f, left[d])
      <4>1. PICK d \in Calls : pc[d] \in Importing /\ file[d] = f /\ Passed(f, left[d])
        BY <3>3
      <4>2. CASE d = c
        BY <1>3, <2>3, <4>1, <4>2 DEF Importing
      <4>3. CASE d # c
        BY <1>3, <2>1, <3>1, <4>1, <4>3
      <4> QED
        BY <4>2, <4>3
    <3> QED
      BY <3>2, <3>3 DEF ImportInv, CompleteInv
  <2>5. \A f \in uploads' \ interrupted' : f \in uploads \ interrupted /\ f \in Files
    BY DEF Over, ImportInv, TypeInv, TypeOK
  <2>6. file' = file
    BY DEF Over
  <2> QED
    BY <2>4, <2>5, <2>6, Rows DEF CompleteInv, Passed, Usable, Stored
<1> QED
  BY <1>4, <1>6, <1>7, <1>8

LEMMA ErrsKeeps ==
    ASSUME ImportInv, NEW c \in Calls, Errs(c)
    PROVE  ImportInv'
<1>1. TypeInv' /\ TypeInv /\ Over(c)
  BY ErrsTyped DEF ImportInv, Errs
<1>2. pc[c] \in {"row", "update", "insert"} /\ left[c] # {} /\ tasks' = tasks
  BY DEF Errs, Over
<1>3. file[c] \in Files /\ Row(c).task \in Tasks
  BY <1>1, <1>2, RowInWork
<1>4. /\ \A f \in Files \ {file[c]} : errors'[f] = errors[f]
      /\ errors'[file[c]] = errors[file[c]] + 1 /\ errors[file[c]] \in Nat
  BY <1>1, <1>3 DEF Errs, TypeInv, TypeOK
<1>5. n[c] \in Counters /\ n'[c] \in Counters
  BY <1>1 DEF Over, TypeInv, TypeOK, Counters
<1>6. /\ n[c].valid \in Nat /\ n[c].inserted \in Nat /\ n[c].updated \in Nat
      /\ n'[c].inserted \in Nat /\ n'[c].updated \in Nat
  BY <1>5 DEF Counters
<1>7. /\ errors'[file[c]] + n'[c].valid = errors[file[c]] + n[c].valid + 1
      /\ n'[c].inserted + n'[c].updated + n[c].valid = n[c].inserted + n[c].updated + n'[c].valid
  BY <1>4, <1>6 DEF Errs
<1>8. \/ Row(c).store \notin Stores \/ Row(c).task \in Oversized
      \/ tasks'[Row(c).task].status # "absent"
  BY <1>2 DEF Errs, Stored
<1>9. ImportedOnce' /\ CountInv' /\ RowsAccounted' /\ CompleteInv'
  BY <1>1, <1>2, <1>4, <1>7, <1>8, OverKeeps
<1>10. TaskMatchesItsUpload'
  BY <1>1, <1>2 DEF Over, ImportInv, TaskMatchesItsUpload
<1> QED
  BY <1>1, <1>9, <1>10 DEF ImportInv

LEMMA WritesKeeps ==
    ASSUME ImportInv, NEW c \in Calls, UpdateTask(c) \/ InsertTask(c), Writes(c)
    PROVE  ImportInv'
<1>1. TypeInv' /\ TypeInv /\ Over(c) /\ pc[c] \in {"update", "insert"} /\ WriteTask(c)
  BY WritesTyped DEF ImportInv, Writes, UpdateTask, InsertTask
<1>2. left[c] # {}
  BY <1>1 DEF Over
<1>3. /\ file[c] \in Files /\ At(c) \in KeptRows[file[c]] /\ file[c] \in uploads
      /\ Row(c) = parsed[file[c]][At(c)] /\ Row(c).task \in Tasks
  BY <1>1, <1>2, RowInWork
<1>4. /\ \A t \in Tasks : t # Row(c).task => tasks'[t] = tasks[t]
      /\ tasks'[Row(c).task].upload = file[c] /\ tasks'[Row(c).task].store = Row(c).store
      /\ tasks'[Row(c).task].status = "open"
  BY <1>1, WriteTyped
<1>5. errors' = errors
  BY DEF Writes
<1>6. n[c] \in Counters /\ n'[c] \in Counters
  BY <1>1 DEF Over, TypeInv, TypeOK, Counters
<1>7. /\ n[c].valid \in Nat /\ n[c].inserted \in Nat /\ n[c].updated \in Nat
      /\ n'[c].inserted \in Nat /\ n'[c].updated \in Nat /\ errors[file[c]] \in Nat
  BY <1>1, <1>3, <1>6 DEF Counters, TypeInv, TypeOK
<1>8. /\ errors'[file[c]] + n'[c].valid = errors[file[c]] + n[c].valid + 1
      /\ n'[c].inserted + n'[c].updated + n[c].valid = n[c].inserted + n[c].updated + n'[c].valid
  BY <1>5, <1>7 DEF Writes
<1>9. \A t \in Tasks : tasks[t].status # "absent" => tasks'[t].status # "absent"
  BY <1>4
<1>10. ImportedOnce' /\ CountInv' /\ RowsAccounted' /\ CompleteInv'
  BY <1>1, <1>4, <1>5, <1>8, <1>9, OverKeeps
<1>11. TaskMatchesItsUpload'
  <2> SUFFICES ASSUME NEW t \in Tasks, tasks'[t].upload # NoFile
               PROVE  /\ tasks'[t].upload \in uploads
                      /\ \E i \in DOMAIN parsed[tasks'[t].upload] :
                            /\ parsed[tasks'[t].upload][i].task = t
                            /\ parsed[tasks'[t].upload][i].store = tasks'[t].store
    BY <1>1 DEF Over, TaskMatchesItsUpload
  <2>1. CASE t = Row(c).task
    <3>1. At(c) \in DOMAIN parsed[file[c]]
      BY <1>3, Rows
    <3>2. tasks'[t].upload = file[c] /\ tasks'[t].store = parsed[file[c]][At(c)].store
      BY <1>3, <1>4, <2>1
    <3>3. parsed[file[c]][At(c)].task = t
      BY <1>3, <2>1
    <3> QED
      BY <1>3, <3>1, <3>2, <3>3
  <2>2. CASE t # Row(c).task
    BY <1>4, <2>2 DEF ImportInv, TaskMatchesItsUpload
  <2> QED
    BY <2>1, <2>2
<1> QED
  BY <1>1, <1>10, <1>11 DEF ImportInv

LEMMA TotalsKeep ==
    ASSUME ImportInv, NEW c \in Calls, StoreTotals(c)
    PROVE  ImportInv'
<1>1. /\ TypeInv /\ pc[c] = "totals" /\ pc[c] \in Importing /\ file[c] \in Files
      /\ pc \in [Calls -> {"idle", "check", "store", "row", "update", "insert", "totals", "metrics", "end"}]
  BY DEF StoreTotals, ImportInv, TypeInv, TypeOK, CallInv, Importing
<1>2. pc'[c] = "metrics" /\ \A d \in Calls \ {c} : pc'[d] = pc[d]
  BY <1>1 DEF StoreTotals, GoTo
<1>3. /\ n[c] \in Counters
      /\ n[c].valid \in Nat /\ n[c].inserted \in Nat /\ n[c].updated \in Nat
      /\ n[c].bad \in Nat /\ n[c].skipped \in Nat
  BY DEF ImportInv, TypeInv, TypeOK, Counters
<1>4. invalid_rows(c) \in Nat
  <2>1. dropped[file[c]] \in Nat
    BY <1>1, Rows
  <2> QED
    BY <1>3, <2>1 DEF invalid_rows
<1>5. PICK x \in [valid : Nat, invalid : Nat, seen : Nat] :
        /\ totals' = [totals EXCEPT ![file[c]] = x]
        /\ x.valid = n[c].valid /\ x.seen = n[c].inserted + n[c].updated
  <2> DEFINE y == [valid |-> n[c].valid, invalid |-> invalid_rows(c), seen |-> n[c].inserted + n[c].updated]
  <2>1. y \in [valid : Nat, invalid : Nat, seen : Nat]
    BY <1>3, <1>4
  <2>2. totals' = [totals EXCEPT ![file[c]] = y]
    BY DEF StoreTotals
  <2> QED
    BY <2>1, <2>2
<1>6. TypeOK'
  BY <1>1, <1>5 DEF StoreTotals, GoTo, TypeInv, TypeOK
<1>7. TypeInv'
  BY <1>1, <1>2, <1>6, StayTyped DEF StoreTotals
<1>8. \A d \in Calls : Imports(d)' => Imports(d)
  BY <1>1, <1>2 DEF StoreTotals, Imports
<1>9. ImportedOnce'
  BY <1>8 DEF StoreTotals, ImportInv, ImportedOnce
<1>10. totals'[file[c]] = x /\ \A f \in Files \ {file[c]} : totals'[f] = totals[f]
  BY <1>1, <1>5 DEF TypeInv, TypeOK
<1>11. file[c] \notin metrics /\ n[c].inserted + n[c].updated = n[c].valid
  BY <1>1 DEF ImportInv, CountInv
<1>12. CountInv'
  <2>1. \A f \in Files \ uploads' : errors'[f] = 0 /\ f \notin metrics'
    BY DEF StoreTotals, ImportInv, CountInv
  <2>2. ASSUME NEW d \in Calls, pc'[d] \in Importing
        PROVE  /\ file'[d] \notin metrics'
               /\ errors'[file'[d]] + n'[d].valid + Cardinality(left'[d]) = Cardinality(KeptRows[file'[d]])
               /\ n'[d].inserted + n'[d].updated = n'[d].valid
               /\ pc'[d] = "metrics" =>
                    totals'[file'[d]].valid = n'[d].valid /\ totals'[file'[d]].seen = n'[d].valid
    <3>1. pc[d] \in Importing /\ file[d] \in Files
      BY <1>1, <1>2, <2>2 DEF TypeInv, CallInv, Importing
    <3>2. /\ file[d] \notin metrics
          /\ errors[file[d]] + n[d].valid + Cardinality(left[d]) = Cardinality(KeptRows[file[d]])
          /\ n[d].inserted + n[d].updated = n[d].valid
          /\ pc[d] = "metrics" => totals[file[d]].valid = n[d].valid /\ totals[file[d]].seen = n[d].valid
      BY <3>1 DEF ImportInv, CountInv
    <3>3. pc'[d] = "metrics" => totals'[file[d]].valid = n[d].valid /\ totals'[file[d]].seen = n[d].valid
      <4>1. CASE d = c
        BY <1>5, <1>10, <1>11, <4>1
      <4>2. CASE d # c
        <5>1. file[d] # file[c]
          BY <1>1, <3>1, <4>2, OthersApart
        <5> QED
          BY <1>2, <1>10, <3>1, <3>2, <4>2, <5>1
      <4> QED
        BY <4>1, <4>2
    <3> QED
      BY <3>2, <3>3 DEF StoreTotals
  <2> QED
    BY <2>1, <2>2 DEF CountInv, Importing
<1>13. RowsAccounted'
  <2>1. \A f \in metrics : f # file[c] /\ f \in Files
    BY <1>1, <1>11 DEF TypeInv, TypeOK
  <2> QED
    BY <1>10, <2>1 DEF StoreTotals, ImportInv, RowsAccounted
<1>14. TaskMatchesItsUpload'
  BY DEF StoreTotals, ImportInv, TaskMatchesItsUpload
<1>15. CompleteInv'
  <2>1. \A d \in Calls : pc[d] \in Importing => pc'[d] \in Importing
    BY <1>2 DEF Importing
  <2> QED
    BY <2>1 DEF StoreTotals, ImportInv, CompleteInv, Passed, Stored
<1> QED
  BY <1>7, <1>9, <1>12, <1>13, <1>14, <1>15 DEF ImportInv

LEMMA MetricsKeep ==
    ASSUME ImportInv, NEW c \in Calls, StoreMetrics(c)
    PROVE  ImportInv'
<1>1. /\ TypeInv /\ pc[c] = "metrics" /\ pc[c] \in Importing /\ file[c] \in Files /\ left[c] = {}
      /\ pc \in [Calls -> {"idle", "check", "store", "row", "update", "insert", "totals", "metrics", "end"}]
      /\ file[c] \in uploads
  BY DEF StoreMetrics, ImportInv, TypeInv, TypeOK, CallInv, Importing, Imports
<1>2. pc'[c] = "end" /\ \A d \in Calls \ {c} : pc'[d] = pc[d]
  BY <1>1 DEF StoreMetrics, Answer
<1>3. TypeOK'
  BY <1>1 DEF StoreMetrics, Answer, Told, TypeInv, TypeOK
<1>4. TypeInv'
  BY <1>1, <1>2, <1>3, StayTyped DEF StoreMetrics
<1>5. \A d \in Calls : Imports(d)' => Imports(d)
  BY <1>1, <1>2 DEF StoreMetrics, Imports
<1>6. ImportedOnce'
  BY <1>5 DEF StoreMetrics, ImportInv, ImportedOnce
<1>7. CountInv'
  <2>1. \A f \in Files \ uploads' : errors'[f] = 0 /\ f \notin metrics'
    BY <1>1 DEF StoreMetrics, ImportInv, CountInv
  <2>2. ASSUME NEW d \in Calls, pc'[d] \in Importing
        PROVE  pc[d] \in Importing /\ pc'[d] = pc[d] /\ file[d] # file[c]
    <3>1. d # c
      BY <1>2, <2>2 DEF Importing
    <3> QED
      BY <1>1, <1>2, <2>2, <3>1, OthersApart
  <2> QED
    BY <2>1, <2>2 DEF StoreMetrics, ImportInv, CountInv, Importing
<1>8. RowsAccounted'
  <2>1. /\ errors[file[c]] + n[c].valid + Cardinality(left[c]) = Cardinality(KeptRows[file[c]])
        /\ totals[file[c]].valid = n[c].valid /\ totals[file[c]].seen = n[c].valid
    BY <1>1 DEF ImportInv, CountInv
  <2>2. Cardinality(left[c]) = 0
    BY <1>1, FS_EmptySet
  <2>3. errors[file[c]] \in Nat /\ n[c].valid \in Nat
    BY <1>1 DEF TypeInv, TypeOK
  <2>4. /\ Cardinality(KeptRows[file[c]]) \in Nat /\ total[file[c]] \in Nat
        /\ dropped[file[c]] = total[file[c]] - Cardinality(KeptRows[file[c]])
    BY <1>1, Rows
  <2>5. /\ dropped[file[c]] + errors[file[c]] + totals[file[c]].valid = total[file[c]]
        /\ totals[file[c]].seen = totals[file[c]].valid
    BY <2>1, <2>2, <2>3, <2>4
  <2> QED
    BY <2>5 DEF StoreMetrics, ImportInv, RowsAccounted
<1>9. TaskMatchesItsUpload'
  BY DEF StoreMetrics, ImportInv, TaskMatchesItsUpload
<1>10. CompleteInv'
  <2>1. ASSUME NEW f \in uploads \ interrupted
        PROVE  \/ Passed(f, {})
               \/ \E d \in Calls : pc'[d] \in Importing /\ file[d] = f /\ Passed(f, left[d])
    <3>1. CASE \E d \in Calls : pc[d] \in Importing /\ file[d] = f /\ Passed(f, left[d])
      BY <1>1, <1>2, <3>1
    <3> QED
      BY <3>1 DEF ImportInv, CompleteInv
  <2> QED
    BY <2>1 DEF StoreMetrics, CompleteInv, Passed, Stored
<1> QED
  BY <1>4, <1>6, <1>7, <1>8, <1>9, <1>10 DEF ImportInv

-----------------------------------------------------------------------------
LEMMA ImportStarts ==
    ASSUME Init
    PROVE  ImportInv
<1>1. TypeOK
  BY DEF Init, TypeOK, Absent, Zero
<1>2. CallInv
  BY DEF Init, CallInv, Imports
<1>3. ImportedOnce
  BY DEF Init, ImportedOnce, Imports
<1>4. CountInv
  BY DEF Init, CountInv, Importing
<1>5. RowsAccounted /\ CompleteInv
  BY DEF Init, RowsAccounted, CompleteInv
<1>6. TaskMatchesItsUpload
  BY DEF Init, TaskMatchesItsUpload, Absent
<1> QED
  BY <1>1, <1>2, <1>3, <1>4, <1>5, <1>6 DEF ImportInv, TypeInv

LEMMA ImportSteps ==
    ASSUME ImportInv, [Next]_vars
    PROVE  ImportInv'
<1> USE DEF ImportInv
<1>0. TypeInv
  OBVIOUS
<1> HIDE DEF ImportInv
<1>1. CASE TypeInv' /\ Quiet
  BY <1>1, QuietKeeps
<1>2. ASSUME NEW c \in Calls, NEW f \in Files, Receive(c, f)
      PROVE  ImportInv'
  BY <1>0, <1>1, <1>2, ReceiveQuiet
<1>3. ASSUME NEW c \in Calls, CheckUpload(c)
      PROVE  ImportInv'
  BY <1>0, <1>1, <1>3, CheckQuiet
<1>4. ASSUME NEW c \in Calls, LookUpRow(c)
      PROVE  ImportInv'
  <2>1. CASE Errs(c)
    BY <2>1, ErrsKeeps
  <2>2. CASE /\ UNCHANGED <<tableVars, file, left, n, reply, interrupted, faults>>
             /\ left[c] # {} /\ Row(c).store \in Stores /\ pc[c] = "row"
             /\ \E p \in {"update", "insert"} : pc' = [pc EXCEPT ![c] = p]
    BY <1>0, <1>1, <2>2, LookUpQuiet
  <2> QED
    BY <1>0, <1>4, <2>1, <2>2, LookUpSteps
<1>5. ASSUME NEW c \in Calls, UpdateTask(c)
      PROVE  ImportInv'
  BY <1>0, <1>5, UpdateSteps, WritesKeeps
<1>6. ASSUME NEW c \in Calls, InsertTask(c)
      PROVE  ImportInv'
  BY <1>0, <1>6, InsertSteps, ErrsKeeps, WritesKeeps
<1>7. ASSUME NEW c \in Calls, EndRows(c)
      PROVE  ImportInv'
  BY <1>0, <1>1, <1>7, EndRowsQuiet
<1>8. ASSUME NEW c \in Calls, FormTimesOut(c)
      PROVE  ImportInv'
  BY <1>0, <1>1, <1>8, TimeOutQuiet
<1>9. ASSUME NEW c \in Calls, LoseConnection(c)
      PROVE  ImportInv'
  <2>1. Fail({c}) /\ \A d \in {c} : Running(d)
    BY <1>9 DEF LoseConnection
  <2> QED
    BY <1>0, <1>1, <2>1, FailQuiet
<1>10. CASE Crash
  <2> DEFINE C == {c \in Calls : Running(c)}
  <2>1. C \in SUBSET Calls /\ Fail(C) /\ \A d \in C : Running(d)
    BY <1>10 DEF Crash
  <2> HIDE DEF C
  <2> QED
    BY <1>0, <1>1, <2>1, FailQuiet
<1>11. ASSUME NEW t \in Mirrored, process_l4_row(t)
       PROVE  ImportInv'
  BY <1>0, <1>1, <1>11, MirrorQuiet
<1>12. CASE UNCHANGED vars
  BY <1>0, <1>1, <1>12, StutterQuiet
<1> QED
  BY <1>2, <1>3, <1>4, <1>5, <1>6, <1>7, <1>8, <1>9, <1>10, <1>11, <1>12,
     StoreUploadKeeps, TotalsKeep, MetricsKeep
  DEF Next, process_excel_upload

LEMMA ImportInvariant == Spec => []ImportInv
<1>1. Init => ImportInv
  BY ImportStarts
<1>2. ImportInv /\ [Next]_vars => ImportInv'
  BY ImportSteps
<1> QED
  BY <1>1, <1>2, PTL DEF Spec

-----------------------------------------------------------------------------
(* The theorems.                                                           *)

\* The tables and the calls of the import keep their types.
THEOREM ImportTypeCorrect == Spec => []TypeOK
<1>1. ImportInv => TypeOK
  BY DEF ImportInv, TypeInv
<1> QED
  BY <1>1, ImportInvariant, PTL

\* The rows of a file are imported by one call, whatever calls carry it and fail.
THEOREM FileImportedOnce == Spec => []ImportedOnce
<1>1. ImportInv => ImportedOnce
  BY DEF ImportInv
<1> QED
  BY <1>1, ImportInvariant, PTL

\* Every row of a finished upload was dropped, logged as an error, or is a seen task.
THEOREM RowsAlwaysAccounted == Spec => []RowsAccounted
<1>1. ImportInv => RowsAccounted
  BY DEF ImportInv
<1> QED
  BY <1>1, ImportInvariant, PTL

\* Imports that race for a task leave one of their rows, not a mixture.
THEOREM TasksMatchUploads == Spec => []TaskMatchesItsUpload
<1>1. ImportInv => TaskMatchesItsUpload
  BY DEF ImportInv
<1> QED
  BY <1>1, ImportInvariant, PTL

\* An upload that is answered "idempotent" and was never cut short is complete.
THEOREM ImportsComplete == Spec => []CompleteUnlessInterrupted
<1>1. ASSUME ImportInv
      PROVE  CompleteUnlessInterrupted
  <2> SUFFICES ASSUME NEW f \in uploads \ interrupted,
                      \A c \in Calls : Running(c) => file[c] # f,
                      NEW i \in DOMAIN parsed[f],
                      parsed[f][i].store \in Stores, parsed[f][i].task \notin Oversized
               PROVE  parsed[f][i].task \in Stored
    BY DEF CompleteUnlessInterrupted
  <2>1. f \in Files
    BY <1>1 DEF ImportInv, TypeInv, TypeOK
  <2>2. i \in Usable(f)
    BY <2>1, Rows DEF Usable
  <2>3. Passed(f, {})
    BY <1>1 DEF ImportInv, CompleteInv, Importing, Running
  <2> QED
    BY <2>2, <2>3 DEF Passed
<1> QED
  BY <1>1, ImportInvariant, PTL

\* What a step leaves of the uploads that have their metrics.
Kept ==
    \A f \in metrics : f \in metrics' /\ totals'[f] = totals[f] /\ errors'[f] = errors[f]

\* The summary of an upload that has its metrics is final: no late call, no second
\* call with the same file and no retry after a fault counts a row of it once more,
\* changes its totals or takes the metrics away.
FinishedIsFinal == [][Kept]_vars

\* A call that still imports a file works on one without metrics.
LEMMA StillUncounted ==
    ASSUME ImportInv, NEW c \in Calls, pc[c] \in Importing
    PROVE  file[c] \in Files \ metrics
BY DEF ImportInv, TypeInv, CallInv, CountInv, Importing

LEMMA ErrsElsewhere ==
    ASSUME ImportInv, NEW c \in Calls, pc[c] \in Importing,
           errors' = [errors EXCEPT ![file[c]] = @ + 1],
           UNCHANGED <<totals, metrics>>
    PROVE  Kept
<1>1. file[c] \in Files \ metrics /\ metrics \subseteq Files /\ errors \in [Files -> Nat]
  BY StillUncounted DEF ImportInv, TypeInv, TypeOK
<1> QED
  BY <1>1 DEF Kept

LEMMA FinalStep ==
    ASSUME ImportInv, [Next]_vars
    PROVE  Kept
<1>1. CASE UNCHANGED <<totals, metrics, errors>>
  BY <1>1 DEF Kept
<1>2. ASSUME NEW c \in Calls, LookUpRow(c)
      PROVE  Kept
  <2>1. pc[c] \in Importing
    BY <1>2 DEF LookUpRow, Importing
  <2>2. CASE _get_store_id(Row(c).store) # NoStore
    BY <1>1, <1>2, <2>2 DEF LookUpRow
  <2>3. CASE _get_store_id(Row(c).store) = NoStore
    BY <1>2, <2>1, <2>3, ErrsElsewhere DEF LookUpRow, RowFails
  <2> QED
    BY <2>2, <2>3
<1>3. ASSUME NEW c \in Calls, InsertTask(c)
      PROVE  Kept
  <2>1. pc[c] \in Importing
    BY <1>3 DEF InsertTask, Importing
  <2>2. CASE Row(c).task \in Oversized \cup Stored
    BY <1>3, <2>1, <2>2, ErrsElsewhere DEF InsertTask, RowFails
  <2>3. CASE Row(c).task \notin Oversized \cup Stored
    BY <1>1, <1>3, <2>3 DEF InsertTask
  <2> QED
    BY <2>2, <2>3
<1>4. ASSUME NEW c \in Calls, StoreTotals(c)
      PROVE  Kept
  <2>1. file[c] \in Files \ metrics
    BY <1>4, StillUncounted DEF StoreTotals, Importing
  <2>2. PICK x : totals' = [totals EXCEPT ![file[c]] = x]
    BY <1>4 DEF StoreTotals
  <2>3. metrics \subseteq Files /\ DOMAIN totals = Files
    BY DEF ImportInv, TypeInv, TypeOK
  <2> QED
    BY <1>4, <2>1, <2>2, <2>3 DEF StoreTotals, Kept
<1>5. ASSUME NEW c \in Calls, StoreMetrics(c)
      PROVE  Kept
  BY <1>5 DEF StoreMetrics, Kept
<1>6. ASSUME NEW c \in Calls,
             \/ \E f \in Files : Receive(c, f)
             \/ CheckUpload(c) \/ StoreUpload(c) \/ UpdateTask(c) \/ EndRows(c)
             \/ FormTimesOut(c) \/ LoseConnection(c)
      PROVE  Kept
  BY <1>1, <1>6
  DEF Receive, CheckUpload, StoreUpload, UpdateTask, EndRows, FormTimesOut, LoseConnection,
      Fail, tableVars
<1>7. CASE Crash
  BY <1>1, <1>7 DEF Crash, Fail, tableVars
<1>8. ASSUME NEW t \in Mirrored, process_l4_row(t)
      PROVE  Kept
  BY <1>1, <1>8 DEF process_l4_row
<1>9. CASE UNCHANGED vars
  BY <1>1, <1>9 DEF vars, tableVars
<1>10. ASSUME NEW c \in Calls, process_excel_upload(c)
       PROVE  Kept
  BY <1>2, <1>3, <1>4, <1>5, <1>6, <1>10 DEF process_excel_upload
<1>11. ASSUME NEW c \in Calls,
              (\E f \in Files : Receive(c, f)) \/ FormTimesOut(c) \/ LoseConnection(c)
       PROVE  Kept
  BY <1>6, <1>11
<1>12. CASE Next
  BY <1>7, <1>8, <1>10, <1>11, <1>12, Zenon DEF Next
<1> QED
  BY <1>9, <1>12

\* A finished upload keeps its metrics, its totals and its number of errors.
THEOREM FinishedStaysFinal == Spec => FinishedIsFinal
<1>1. ImportInv /\ [Next]_vars => [Kept]_vars
  BY FinalStep
<1> QED
  BY <1>1, ImportInvariant, PTL DEF Spec, FinishedIsFinal
=============================================================================
