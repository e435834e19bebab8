------------------------- MODULE TaskUpload_proofs -------------------------
(***************************************************************************)
(* Theorems about TaskUpload for every set of requests, files and stores,  *)
(* every content of the files and every number of faults.                  *)
(***************************************************************************)
EXTENDS TaskUpload, LeastElement

-----------------------------------------------------------------------------
(* The inductive invariant, part by part.                                  *)

InFirst  == {"row", "insert", "update"}
InSecond == {"digests", "newtasks", "notices"}

RowsIn(f) == {RowsOf[f][i] : i \in DOMAIN RowsOf[f]}

\* What a handler holds at each of its steps.
HandlerInv ==
    \A h \in Requests :
        /\ pc[h] \in {"idle", "end"} => file[h] = NoFile
        /\ pc[h] \notin {"idle", "end"} => file[h] \in Files
        /\ pc[h] \notin InFirst => writes[h] = {}
        /\ pc[h] \notin InFirst \cup InSecond => at[h] = 1 /\ created[h] = {}
        /\ pc[h] \notin InSecond \ {"digests"} => drafts[h] = {}

\* The first transaction has written its upload, the usable rows it has passed
\* and nothing else, and its new tasks are not stored yet.
Written(h) ==
    /\ at[h] \in 1..(Len(RowsOf[file[h]]) + 1)
    /\ pc[h] # "row" => at[h] <= Len(RowsOf[file[h]])
    /\ file[h] \in writes[h] \ uploads
    /\ writes[h] \subseteq {file[h]} \cup RowsIn(file[h])
    /\ \A i \in 1..(at[h] - 1) : RowsOf[file[h]][i] \in Unmapped \cup writes[h]
    /\ created[h] \subseteq writes[h] \ tasks

FirstInv == \A h \in Requests : pc[h] \in InFirst => Written(h)

\* In the second one everything it speaks of is stored.
SecondInv ==
    \A h \in Requests : pc[h] \in InSecond =>
        /\ file[h] \in uploads
        /\ created[h] \subseteq tasks
        /\ \A n \in drafts[h] :
            \/ n.kind = "digest" /\ n.about = file[h]
            \/ n.kind = "newtask" /\ n.about \in created[h] /\ pc[h] = "notices"
        /\ \A n, k \in drafts[h] :
            n.kind = "newtask" /\ k.kind = "newtask" /\ n.about = k.about => n = k

\* Keys are locked by one transaction, and uploads and new tasks belong to one request.
ApartInv ==
    \A g, h \in Requests : g # h =>
        /\ writes[g] \cap writes[h] = {}
        /\ created[g] \cap created[h] = {}
        /\ pc[g] \in InSecond /\ pc[h] \in InSecond => file[g] # file[h]

\* A notice in the outbox is about what is stored, and no running request is about
\* to write it again.
OutboxInv ==
    \A n \in outbox :
        /\ n.kind = "newtask" => n.about \in tasks
        /\ n.kind = "digest" => n.about \in uploads
        /\ \A h \in Requests :
            /\ n.kind = "newtask" => n.about \notin created[h]
            /\ n.kind = "digest" /\ pc[h] \in InSecond => n.about # file[h]

UploadInv ==
    /\ TypeOK /\ HandlerInv /\ FirstInv /\ SecondInv /\ ApartInv
    /\ StoredUploadIsComplete /\ TasksComeFromUploads

NoticeInv == OutboxInv /\ AnnouncedOnce

-----------------------------------------------------------------------------
(* The steps, by what they do to the state.                                *)

\* The call ends, whatever the reason.
Ends(h) ==
    /\ Return(h)
    /\ UNCHANGED <<uploads, tasks, assigned>>
    /\ UNCHANGED outbox \/ CommitNotices(h)

\* The upload is written.
Opens(h) ==
    /\ pc[h] = "store"
    /\ ~Waits(h)
    /\ file[h] \notin uploads
    /\ writes' = [writes EXCEPT ![h] = {file[h]}]
    /\ pc' = [pc EXCEPT ![h] = "row"]
    /\ UNCHANGED <<tableVars, file, at, created, drafts>>

\* A row is written.
WritesRow(h) ==
    /\ pc[h] \in {"insert", "update"}
    /\ ~Waits(h)
    /\ Flushed(h)
    /\ \/ pc[h] = "update" /\ UNCHANGED created
       \/ Row(h) \notin tasks /\ created' = [created EXCEPT ![h] = @ \cup {Row(h)}]

\* Nothing happens but for a reassignment.
Elsewhere == UNCHANGED <<uploads, tasks, outbox, callVars>>

Works(h) ==
    \/ \E f \in Files : Receive(h, f)
    \/ Opens(h) \/ LookUpRow(h) \/ WritesRow(h) \/ CommitUpload(h)
    \/ _enqueue_manager_digests(h) \/ _enqueue_new_tasks(h)

Running(h) == pc[h] \notin {"idle", "end"}

LEMMA HandlerKinds ==
    ASSUME NEW h \in Requests, Handle(h) \/ Interrupted(h)
    PROVE  Running(h) /\ (Works(h) \/ Ends(h))
<1>1. CASE StoreUpload(h)
  BY <1>1 DEF StoreUpload, Refuse, Ends, Opens, Works, Running, tableVars
<1>2. CASE LookUpRow(h) \/ CommitUpload(h) \/ _enqueue_manager_digests(h) \/ _enqueue_new_tasks(h)
  BY <1>2 DEF LookUpRow, CommitUpload, _enqueue_manager_digests, _enqueue_new_tasks, Works, Running
<1>3. CASE InsertTask(h)
  BY <1>3 DEF InsertTask, Refuse, Ends, WritesRow, Works, Running, tableVars
<1>4. CASE UpdateTask(h)
  BY <1>4 DEF UpdateTask, Refuse, Ends, WritesRow, Works, Running, tableVars
<1>5. CASE CommitNotices(h)
  BY <1>5 DEF CommitNotices, Ends, Running
<1>6. CASE BreakDeadlock(h)
  BY <1>6 DEF BreakDeadlock, Deadlocked, Waits, Blocks, Needs, Refuse, Ends, Running, tableVars
<1>7. CASE Interrupted(h)
  BY <1>7 DEF Interrupted, Ends, Running, tableVars
<1>8. QED BY <1>1, <1>2, <1>3, <1>4, <1>5, <1>6, <1>7 DEF Handle

LEMMA Kinds ==
    ASSUME [Next]_vars
    PROVE  \/ Elsewhere
           \/ \E h \in Requests : Works(h) \/ Ends(h)
<1>1. CASE UNCHANGED vars
  BY <1>1 DEF vars, tableVars, Elsewhere
<1>2. CASE \E s \in Movable, m \in Managers \cup {Nobody} : assign_store(s, m)
  BY <1>2 DEF assign_store, Elsewhere
<1>3. ASSUME NEW h \in Requests, \/ \E f \in Files : Receive(h, f)
                                 \/ Handle(h) \/ Interrupted(h)
      PROVE  Works(h) \/ Ends(h)
  BY <1>3, HandlerKinds DEF Works
<1>4. QED BY <1>1, <1>2, <1>3 DEF Next

-----------------------------------------------------------------------------
(* Rows and locks.                                                         *)

LEMMA RowsAreTasks ==
    ASSUME NEW f \in Files
    PROVE  /\ Len(RowsOf[f]) \in Nat
           /\ DOMAIN RowsOf[f] = 1..Len(RowsOf[f])
           /\ RowsIn(f) \subseteq Tasks
           /\ f \notin Tasks
BY UploadAssumption DEF RowsIn

LEMMA RowInHand ==
    ASSUME TypeOK, FirstInv, HandlerInv, NEW h \in Requests,
           \/ pc[h] \in {"insert", "update"}
           \/ pc[h] = "row" /\ MoreRows(h)
    PROVE  /\ file[h] \in Files
           /\ at[h] \in 1..Len(RowsOf[file[h]])
           /\ Row(h) = RowsOf[file[h]][at[h]]
           /\ Row(h) \in RowsIn(file[h])
           /\ Row(h) \in Tasks
<1>1. file[h] \in Files
  BY DEF HandlerInv
<1>2. at[h] \in 1..Len(RowsOf[file[h]])
  BY <1>1, RowsAreTasks DEF FirstInv, Written, InFirst, MoreRows, TypeOK
<1>3. Row(h) = RowsOf[file[h]][at[h]]
  BY DEF Row
<1>4. QED BY <1>1, <1>2, <1>3, RowsAreTasks DEF RowsIn

\* A key that is about to be written is locked by no other transaction.
LEMMA KeyIsFree ==
    ASSUME NEW h \in Requests, ~Waits(h), NEW g \in Requests \ {h}
    PROVE  /\ pc[h] = "store" => file[h] \notin writes[g]
           /\ pc[h] \in {"insert", "update"} => Row(h) \notin writes[g]
<1>1. Needs(h) \cap writes[g] = {}
  BY DEF Waits, Blocks
<1>2. pc[h] = "store" => Needs(h) = {file[h]}
  BY DEF Needs
<1>3. pc[h] \in {"insert", "update"} => Needs(h) = {Row(h)}
  BY DEF Needs
<1>4. QED BY <1>1, <1>2, <1>3

-----------------------------------------------------------------------------
(* Every part of UploadInv is preserved.                                   *)

LEMMA TypeStep ==
    ASSUME UploadInv, [Next]_vars
    PROVE  TypeOK'
<1> USE DEF TypeOK
<1>1. CASE UNCHANGED vars
  BY <1>1 DEF UploadInv, vars, tableVars, callVars
<1>2. ASSUME NEW s \in Movable, NEW m \in Managers \cup {Nobody}, assign_store(s, m)
      PROVE  TypeOK'
  BY <1>2, UploadAssumption DEF UploadInv, assign_store, callVars
<1>3. ASSUME NEW h \in Requests, Return(h), UNCHANGED <<uploads, tasks, assigned>>,
             outbox' \in {outbox, outbox \cup drafts[h]}, faults' \in Nat
      PROVE  TypeOK'
  BY <1>3 DEF UploadInv, Return
<1>4. ASSUME NEW h \in Requests, NEW f \in Files, Receive(h, f)
      PROVE  TypeOK'
  BY <1>4 DEF UploadInv, Receive, tableVars
<1>5. ASSUME NEW h \in Requests, StoreUpload(h)
      PROVE  TypeOK'
  <2>1. CASE file[h] \in uploads \cup Unreadable
    BY <1>3, <1>5, <2>1 DEF UploadInv, StoreUpload, Refuse, tableVars
  <2>2. CASE file[h] \notin uploads \cup Unreadable
    <3>1. file[h] \in Files
      BY <1>5 DEF UploadInv, HandlerInv, StoreUpload
    <3>2. QED BY <1>5, <2>2, <3>1 DEF UploadInv, StoreUpload, tableVars
  <2>3. QED BY <2>1, <2>2
<1>6. ASSUME NEW h \in Requests, LookUpRow(h)
      PROVE  TypeOK'
  BY <1>6 DEF UploadInv, LookUpRow, tableVars
<1>7. ASSUME NEW h \in Requests, pc[h] \in {"insert", "update"}, Flushed(h),
             created' \in {created, [created EXCEPT ![h] = @ \cup {Row(h)}]}, UNCHANGED faults
      PROVE  TypeOK'
  <2>1. Row(h) \in Tasks
    BY <1>7, RowInHand DEF UploadInv
  <2>2. QED BY <1>7, <2>1 DEF UploadInv, Flushed, tableVars
<1>8. ASSUME NEW h \in Requests, InsertTask(h) \/ UpdateTask(h)
      PROVE  TypeOK'
  BY <1>3, <1>7, <1>8 DEF UploadInv, InsertTask, UpdateTask, Refuse, tableVars
<1>9. ASSUME NEW h \in Requests, CommitUpload(h)
      PROVE  TypeOK'
  BY <1>9 DEF UploadInv, CommitUpload
<1>10. ASSUME NEW h \in Requests, _enqueue_manager_digests(h)
      PROVE  TypeOK'
  <2>1. file[h] \in Files
    BY <1>10 DEF UploadInv, HandlerInv, _enqueue_manager_digests
  <2>2. {Digest(file[h], m) : m \in DigestReaders} \subseteq Notices
    BY <2>1 DEF UploadInv, DigestReaders, Notices
  <2>3. QED BY <1>10, <2>2 DEF UploadInv, _enqueue_manager_digests, tableVars
<1>11. ASSUME NEW h \in Requests, _enqueue_new_tasks(h)
      PROVE  TypeOK'
  <2> DEFINE told == {t \in created[h] \cap tasks : assigned[StoreOf[t]] # Nobody}
  <2>1. {NewTask(t, assigned[StoreOf[t]]) : t \in told} \subseteq Notices
    BY UploadAssumption DEF UploadInv, Notices
  <2>2. drafts' = [drafts EXCEPT ![h] = @ \cup {NewTask(t, assigned[StoreOf[t]]) : t \in told}]
    BY <1>11 DEF _enqueue_new_tasks
  <2> HIDE DEF told
  <2>3. QED BY <1>11, <2>1, <2>2 DEF UploadInv, _enqueue_new_tasks, tableVars
<1>12. ASSUME NEW h \in Requests, CommitNotices(h)
      PROVE  TypeOK'
  BY <1>3, <1>12 DEF UploadInv, CommitNotices
<1>13. ASSUME NEW h \in Requests, BreakDeadlock(h) \/ Interrupted(h)
      PROVE  TypeOK'
  BY <1>3, <1>13 DEF UploadInv, BreakDeadlock, Interrupted, Refuse, tableVars
<1>14. QED BY <1>1, <1>2, <1>4, <1>5, <1>6, <1>8, <1>9, <1>10, <1>11, <1>12, <1>13 DEF Next, Handle

LEMMA HandlerStep ==
    ASSUME UploadInv, [Next]_vars
    PROVE  HandlerInv'
<1> USE DEF UploadInv, TypeOK, HandlerInv, InFirst, InSecond
<1>1. CASE Elsewhere
  BY <1>1 DEF Elsewhere, callVars
<1>2. ASSUME NEW h \in Requests, Ends(h)
      PROVE  HandlerInv'
  BY <1>2 DEF Ends, Return
<1>3. ASSUME NEW h \in Requests, NEW f \in Files, Receive(h, f)
      PROVE  HandlerInv'
  BY <1>3 DEF Receive
<1>4. ASSUME NEW h \in Requests, Opens(h)
      PROVE  HandlerInv'
  BY <1>4 DEF Opens
<1>5. ASSUME NEW h \in Requests, LookUpRow(h)
      PROVE  HandlerInv'
  BY <1>5 DEF LookUpRow
<1>6. ASSUME NEW h \in Requests, WritesRow(h)
      PROVE  HandlerInv'
  BY <1>6 DEF WritesRow, Flushed
<1>7. ASSUME NEW h \in Requests, CommitUpload(h)
      PROVE  HandlerInv'
  BY <1>7 DEF CommitUpload
<1>8. ASSUME NEW h \in Requests, _enqueue_manager_digests(h)
      PROVE  HandlerInv'
  BY <1>8 DEF _enqueue_manager_digests
<1>9. ASSUME NEW h \in Requests, _enqueue_new_tasks(h)
      PROVE  HandlerInv'
  BY <1>9 DEF _enqueue_new_tasks
<1>10. QED BY <1>1, <1>2, <1>3, <1>4, <1>5, <1>6, <1>7, <1>8, <1>9, Kinds DEF Works

LEMMA FirstStep ==
    ASSUME UploadInv, [Next]_vars
    PROVE  FirstInv'
<1> USE DEF UploadInv, TypeOK, HandlerInv, FirstInv, Written, InFirst, InSecond
<1>1. CASE Elsewhere
  BY <1>1 DEF Elsewhere, callVars
<1>2. ASSUME NEW h \in Requests, Ends(h)
      PROVE  FirstInv'
  BY <1>2 DEF Ends, Return
<1>3. ASSUME NEW h \in Requests, NEW f \in Files, Receive(h, f)
      PROVE  FirstInv'
  BY <1>3 DEF Receive, tableVars
<1>4. ASSUME NEW h \in Requests, Opens(h)
      PROVE  FirstInv'
  <2>1. Len(RowsOf[file[h]]) \in Nat
    BY <1>4, RowsAreTasks DEF Opens
  <2>2. QED BY <1>4, <2>1 DEF Opens, tableVars
<1>5. ASSUME NEW h \in Requests, LookUpRow(h)
      PROVE  FirstInv'
  <2>1. /\ at[h] \in 1..Len(RowsOf[file[h]])
        /\ Row(h) = RowsOf[file[h]][at[h]]
        /\ Len(RowsOf[file[h]]) \in Nat
    BY <1>5, RowInHand, RowsAreTasks DEF LookUpRow
  <2>2. Written(h)
    BY <1>5 DEF LookUpRow
  <2>3. /\ UNCHANGED <<uploads, tasks, file, writes, created>>
        /\ \/ at'[h] = at[h] + 1 /\ pc'[h] = "row" /\ Row(h) \in Unmapped
           \/ at'[h] = at[h]
    BY <1>5 DEF LookUpRow, tableVars
  <2>4. Written(h)'
    BY <2>1, <2>2, <2>3
  <2>5. ASSUME NEW g \in Requests \ {h}
        PROVE  pc'[g] = pc[g] /\ at'[g] = at[g]
    BY <1>5 DEF LookUpRow
  <2>6. QED BY <2>3, <2>4, <2>5
<1>6. ASSUME NEW h \in Requests, WritesRow(h)
      PROVE  FirstInv'
  <2>1. /\ at[h] \in 1..Len(RowsOf[file[h]])
        /\ Row(h) = RowsOf[file[h]][at[h]]
        /\ Row(h) \in RowsIn(file[h])
        /\ Len(RowsOf[file[h]]) \in Nat
    BY <1>6, RowInHand, RowsAreTasks DEF WritesRow
  <2>2. Written(h)
    BY <1>6 DEF WritesRow
  <2>3. /\ file'[h] = file[h]
        /\ at'[h] = at[h] + 1
        /\ pc'[h] = "row"
        /\ writes'[h] = writes[h] \cup {Row(h)}
        /\ created'[h] \subseteq created[h] \cup {Row(h)}
        /\ Row(h) \in created'[h] \ created[h] => Row(h) \notin tasks
        /\ UNCHANGED <<uploads, tasks>>
    BY <1>6 DEF WritesRow, Flushed, tableVars
  <2>4. Written(h)'
    BY <2>1, <2>2, <2>3
  <2>5. ASSUME NEW g \in Requests \ {h}, pc'[g] \in InFirst
        PROVE  Written(g)'
    <3>1. /\ pc'[g] = pc[g] /\ file'[g] = file[g] /\ at'[g] = at[g]
          /\ writes'[g] = writes[g] /\ created'[g] = created[g]
          /\ UNCHANGED <<uploads, tasks>>
      BY <1>6 DEF WritesRow, Flushed, tableVars
    <3>2. QED BY <2>5, <3>1
  <2>6. QED BY <2>4, <2>5
<1>7. ASSUME NEW h \in Requests, CommitUpload(h)
      PROVE  FirstInv'
  <2>1. ASSUME NEW g \in Requests \ {h}
        PROVE  writes[g] \cap (uploads' \cup tasks') = writes[g] \cap (uploads \cup tasks)
    BY <1>7, <2>1 DEF CommitUpload, ApartInv
  <2>2. QED BY <1>7, <2>1 DEF CommitUpload, ApartInv
<1>8. ASSUME NEW h \in Requests, _enqueue_manager_digests(h)
      PROVE  FirstInv'
  BY <1>8 DEF _enqueue_manager_digests, tableVars
<1>9. ASSUME NEW h \in Requests, _enqueue_new_tasks(h)
      PROVE  FirstInv'
  BY <1>9 DEF _enqueue_new_tasks, tableVars
<1>10. QED BY <1>1, <1>2, <1>3, <1>4, <1>5, <1>6, <1>7, <1>8, <1>9, Kinds DEF Works

LEMMA SecondStep ==
    ASSUME UploadInv, [Next]_vars
    PROVE  SecondInv'
<1> USE DEF UploadInv, TypeOK, HandlerInv, SecondInv, InFirst, InSecond
<1>1. CASE Elsewhere
  BY <1>1 DEF Elsewhere, callVars
<1>2. ASSUME NEW h \in Requests, Ends(h)
      PROVE  SecondInv'
  BY <1>2 DEF Ends, Return
<1>3. ASSUME NEW h \in Requests, NEW f \in Files, Receive(h, f)
      PROVE  SecondInv'
  BY <1>3 DEF Receive, tableVars
<1>4. ASSUME NEW h \in Requests, Opens(h)
      PROVE  SecondInv'
  BY <1>4 DEF Opens, tableVars
<1>5. ASSUME NEW h \in Requests, LookUpRow(h)
      PROVE  SecondInv'
  BY <1>5 DEF LookUpRow, tableVars
<1>6. ASSUME NEW h \in Requests, WritesRow(h)
      PROVE  SecondInv'
  BY <1>6 DEF WritesRow, Flushed, tableVars
<1>7. ASSUME NEW h \in Requests, CommitUpload(h)
      PROVE  SecondInv'
  <2>1. Written(h) /\ file[h] \in Files /\ drafts[h] = {}
    BY <1>7 DEF CommitUpload, FirstInv
  <2>2. /\ file[h] \in uploads'
        /\ created[h] \subseteq tasks'
        /\ uploads \subseteq uploads' /\ tasks \subseteq tasks'
    BY <1>7, <2>1 DEF CommitUpload, Written
  <2>3. QED BY <1>7, <2>1, <2>2 DEF CommitUpload
<1>8. ASSUME NEW h \in Requests, _enqueue_manager_digests(h)
      PROVE  SecondInv'
  BY <1>8 DEF _enqueue_manager_digests, Digest, tableVars
<1>9. ASSUME NEW h \in Requests, _enqueue_new_tasks(h)
      PROVE  SecondInv'
  BY <1>9 DEF _enqueue_new_tasks, NewTask, tableVars
<1>10. QED BY <1>1, <1>2, <1>3, <1>4, <1>5, <1>6, <1>7, <1>8, <1>9, Kinds DEF Works

LEMMA ApartStep ==
    ASSUME UploadInv, [Next]_vars
    PROVE  ApartInv'
<1> USE DEF UploadInv, TypeOK, HandlerInv, ApartInv, InFirst, InSecond
<1>1. CASE Elsewhere
  BY <1>1 DEF Elsewhere, callVars
<1>2. ASSUME NEW h \in Requests, Ends(h)
      PROVE  ApartInv'
  BY <1>2 DEF Ends, Return
<1>3. ASSUME NEW h \in Requests, NEW f \in Files, Receive(h, f)
      PROVE  ApartInv'
  BY <1>3 DEF Receive
<1>4. ASSUME NEW h \in Requests, Opens(h)
      PROVE  ApartInv'
  BY <1>4, KeyIsFree DEF Opens
<1>5. ASSUME NEW h \in Requests, LookUpRow(h)
      PROVE  ApartInv'
  BY <1>5 DEF LookUpRow
<1>6. ASSUME NEW h \in Requests, WritesRow(h)
      PROVE  ApartInv'
  <2>1. ASSUME NEW g \in Requests \ {h}
        PROVE  /\ Row(h) \notin writes[g]
               /\ Row(h) \notin tasks => Row(h) \notin created[g]
    BY <1>6, KeyIsFree DEF WritesRow, FirstInv, Written, SecondInv
  <2>2. QED BY <1>6, <2>1 DEF WritesRow, Flushed
<1>7. ASSUME NEW h \in Requests, CommitUpload(h)
      PROVE  ApartInv'
  BY <1>7 DEF CommitUpload, FirstInv, Written, SecondInv
<1>8. ASSUME NEW h \in Requests, _enqueue_manager_digests(h)
      PROVE  ApartInv'
  BY <1>8 DEF _enqueue_manager_digests
<1>9. ASSUME NEW h \in Requests, _enqueue_new_tasks(h)
      PROVE  ApartInv'
  BY <1>9 DEF _enqueue_new_tasks
<1>10. QED BY <1>1, <1>2, <1>3, <1>4, <1>5, <1>6, <1>7, <1>8, <1>9, Kinds DEF Works

\* The tables change only in CommitUpload, which adds a file and its usable rows.
LEMMA TablesStep ==
    ASSUME UploadInv, [Next]_vars
    PROVE  StoredUploadIsComplete' /\ TasksComeFromUploads'
<1> USE DEF UploadInv, StoredUploadIsComplete, TasksComeFromUploads
<1>1. CASE UNCHANGED <<uploads, tasks>>
  BY <1>1
<1>2. ASSUME NEW h \in Requests, CommitUpload(h)
      PROVE  StoredUploadIsComplete' /\ TasksComeFromUploads'
  <2> DEFINE f == file[h]
  <2>1. f \in Files /\ Written(h)
    BY <1>2 DEF CommitUpload, HandlerInv, FirstInv, InFirst
  <2>2. /\ RowsIn(f) \subseteq Tasks
        /\ DOMAIN RowsOf[f] = 1..Len(RowsOf[f])
        /\ Len(RowsOf[f]) \in Nat
        /\ f \notin Tasks
    BY <2>1, RowsAreTasks
  <2>3. writes[h] \cap Files = {f}
    BY <2>1, <2>2, UploadAssumption DEF Written
  <2>4. at[h] = Len(RowsOf[f]) + 1
    BY <1>2, <2>1, <2>2 DEF CommitUpload, MoreRows, Written
  <2>5. \A i \in DOMAIN RowsOf[f] : RowsOf[f][i] \in Unmapped \cup (writes[h] \cap Tasks)
    BY <2>1, <2>2, <2>4 DEF Written, RowsIn
  <2>6. \A t \in writes[h] \cap Tasks : \E i \in DOMAIN RowsOf[f] : RowsOf[f][i] = t
    BY <2>1, <2>2 DEF Written, RowsIn
  <2>7. uploads' = uploads \cup {f} /\ tasks' = tasks \cup (writes[h] \cap Tasks)
    BY <1>2, <2>3 DEF CommitUpload
  <2> HIDE DEF f
  <2>8. QED BY <2>5, <2>6, <2>7
<1>3. QED
  BY <1>1, <1>2, Kinds DEF Works, Receive, Opens, LookUpRow, WritesRow, Flushed,
        _enqueue_manager_digests, _enqueue_new_tasks, Ends, Elsewhere, tableVars

LEMMA UploadInit == Init => UploadInv
BY UploadAssumption DEF Init, UploadInv, TypeOK, HandlerInv, FirstInv, SecondInv, ApartInv,
    InFirst, InSecond, StoredUploadIsComplete, TasksComeFromUploads

LEMMA UploadStep == UploadInv /\ [Next]_vars => UploadInv'
BY TypeStep, HandlerStep, FirstStep, SecondStep, ApartStep, TablesStep DEF UploadInv

LEMMA UploadAlways == Spec => []UploadInv
BY UploadInit, UploadStep, PTL DEF Spec

-----------------------------------------------------------------------------
(* The notices.                                                            *)

LEMMA OutboxStep ==
    ASSUME UploadInv, OutboxInv, [Next]_vars
    PROVE  OutboxInv'
<1> USE DEF UploadInv, TypeOK, HandlerInv, OutboxInv, InFirst, InSecond
<1>1. CASE Elsewhere
  BY <1>1 DEF Elsewhere, callVars
<1>2. ASSUME NEW h \in Requests, Ends(h)
      PROVE  OutboxInv'
  <2>1. CASE UNCHANGED outbox
    BY <1>2, <2>1 DEF Ends, Return
  <2>2. CASE CommitNotices(h)
    <3>1. \A n \in drafts[h] : \A g \in Requests \ {h} :
            /\ n.kind = "newtask" => n.about \notin created[g] /\ n.about \in tasks
            /\ n.kind = "digest" => n.about \in uploads
            /\ n.kind = "digest" /\ pc[g] \in InSecond => n.about # file[g]
      BY <2>2 DEF CommitNotices, SecondInv, ApartInv
    <3>2. outbox' \subseteq outbox \cup drafts[h]
      BY <2>2 DEF CommitNotices
    <3>3. \A n \in drafts[h] : /\ n.kind = "newtask" => n.about \in tasks
                               /\ n.kind = "digest" => n.about \in uploads
      BY <2>2 DEF CommitNotices, SecondInv
    <3>4. QED BY <1>2, <3>1, <3>2, <3>3 DEF Ends, Return
  <2>3. QED BY <1>2, <2>1, <2>2 DEF Ends
<1>3. ASSUME NEW h \in Requests, NEW f \in Files, Receive(h, f)
      PROVE  OutboxInv'
  BY <1>3 DEF Receive, tableVars
<1>4. ASSUME NEW h \in Requests, Opens(h)
      PROVE  OutboxInv'
  BY <1>4 DEF Opens, tableVars
<1>5. ASSUME NEW h \in Requests, LookUpRow(h)
      PROVE  OutboxInv'
  BY <1>5 DEF LookUpRow, tableVars
<1>6. ASSUME NEW h \in Requests, WritesRow(h)
      PROVE  OutboxInv'
  BY <1>6 DEF WritesRow, Flushed, tableVars
<1>7. ASSUME NEW h \in Requests, CommitUpload(h)
      PROVE  OutboxInv'
  BY <1>7 DEF CommitUpload, FirstInv, Written
<1>8. ASSUME NEW h \in Requests, _enqueue_manager_digests(h)
      PROVE  OutboxInv'
  BY <1>8 DEF _enqueue_manager_digests, tableVars
<1>9. ASSUME NEW h \in Requests, _enqueue_new_tasks(h)
      PROVE  OutboxInv'
  BY <1>9 DEF _enqueue_new_tasks, tableVars
<1>10. QED BY <1>1, <1>2, <1>3, <1>4, <1>5, <1>6, <1>7, <1>8, <1>9, Kinds DEF Works

LEMMA AnnouncedStep ==
    ASSUME UploadInv, NoticeInv, [Next]_vars
    PROVE  AnnouncedOnce'
<1>1. CASE UNCHANGED outbox
  BY <1>1 DEF NoticeInv, AnnouncedOnce
<1>2. ASSUME NEW h \in Requests, CommitNotices(h)
      PROVE  AnnouncedOnce'
  <2>1. pc[h] \in InSecond
    BY <1>2 DEF CommitNotices, InSecond
  <2>2. \A n \in drafts[h] : n.kind = "newtask" => n.about \in created[h]
    BY <2>1 DEF UploadInv, SecondInv
  <2>3. \A n, k \in drafts[h] :
            n.kind = "newtask" /\ k.kind = "newtask" /\ n.about = k.about => n = k
    BY <2>1 DEF UploadInv, SecondInv
  <2>4. \A n \in outbox : n.kind = "newtask" => n.about \notin created[h]
    BY DEF NoticeInv, OutboxInv
  <2>5. outbox' \subseteq outbox \cup drafts[h]
    BY <1>2 DEF CommitNotices
  <2>6. QED BY <2>2, <2>3, <2>4, <2>5 DEF NoticeInv, AnnouncedOnce
<1>3. QED
  BY <1>1, <1>2, Kinds DEF Works, Receive, Opens, LookUpRow, WritesRow, Flushed, CommitUpload,
        _enqueue_manager_digests, _enqueue_new_tasks, Ends, Elsewhere, tableVars

LEMMA NoticeInit == Init => NoticeInv
BY DEF Init, NoticeInv, OutboxInv, AnnouncedOnce

LEMMA NoticeStep == UploadInv /\ NoticeInv /\ [Next]_vars => NoticeInv'
BY OutboxStep, AnnouncedStep DEF NoticeInv

LEMMA NoticeAlways == Spec => []NoticeInv
BY UploadAlways, NoticeInit, NoticeStep, PTL DEF Spec

-----------------------------------------------------------------------------
(* Theorems.                                                               *)

\* The tables and the handlers keep their types, for any files and requests.
THEOREM TypeCorrect == Spec => []TypeOK
<1>1. UploadInv => TypeOK
  BY DEF UploadInv
<1>2. QED BY <1>1, UploadAlways, PTL

\* Whatever requests overlap, wait, are refused or die, a stored upload has all
\* its usable rows in tasks.
THEOREM StoredIsComplete == Spec => []StoredUploadIsComplete
<1>1. UploadInv => StoredUploadIsComplete
  BY DEF UploadInv
<1>2. QED BY <1>1, UploadAlways, PTL

\* A task is never stored without an upload that has it as a row.
THEOREM FromUploads == Spec => []TasksComeFromUploads
<1>1. UploadInv => TasksComeFromUploads
  BY DEF UploadInv
<1>2. QED BY <1>1, UploadAlways, PTL

\* A notice in the outbox is about an upload or a task that is stored.
THEOREM NoticesStored == Spec => []NoticesNameStoredRows
<1>1. TypeOK /\ OutboxInv => NoticesNameStoredRows
  BY DEF TypeOK, Notices, Digest, NewTask, OutboxInv, NoticesNameStoredRows
<1>2. UploadInv /\ NoticeInv => NoticesNameStoredRows
  BY <1>1 DEF UploadInv, NoticeInv
<1>3. QED BY <1>2, UploadAlways, NoticeAlways, PTL

\* However uploads overlap and stores change hands, a task is announced as new
\* to one manager only, once.
THEOREM Announced == Spec => []AnnouncedOnce
<1>1. NoticeInv => AnnouncedOnce
  BY DEF NoticeInv
<1>2. QED BY <1>1, NoticeAlways, PTL

\* The notices of a stored upload never meet a dedupe_key that is taken.
THEOREM KeysFresh == Spec => []DedupeKeysAreFresh
<1>1. UploadInv /\ NoticeInv => DedupeKeysAreFresh
  <2> SUFFICES ASSUME UploadInv, NoticeInv
               PROVE  DedupeKeysAreFresh
    OBVIOUS
  <2>1. \A h \in Requests : drafts[h] # {} => pc[h] \in InSecond
    BY DEF UploadInv, HandlerInv
  <2>2. \A h \in Requests : \A n \in drafts[h] :
            \/ n.kind = "digest" /\ n.about = file[h]
            \/ n.kind = "newtask" /\ n.about \in created[h]
    BY <2>1 DEF UploadInv, SecondInv
  <2>3. \A h \in Requests : drafts[h] \cap outbox = {}
    BY <2>1, <2>2 DEF NoticeInv, OutboxInv
  <2>4. \A h \in Requests, g \in Requests : g # h => drafts[g] \cap drafts[h] = {}
    BY <2>1, <2>2 DEF UploadInv, ApartInv
  <2>5. QED BY <2>3, <2>4 DEF DedupeKeysAreFresh
<1>2. QED BY <1>1, UploadAlways, NoticeAlways, PTL

-----------------------------------------------------------------------------
(* An upload is one atomic step: TaskUpload implements AtomicUpload.       *)

\* What the first transaction holds is what a transaction alone at its commit
\* would: the rows it updates are stored or its own, and it writes usable rows only.
SerialInv ==
    \A h \in Requests : pc[h] \in InFirst =>
        /\ pc[h] # "row" => Row(h) \notin Unmapped
        /\ pc[h] = "update" => Row(h) \in tasks \cup writes[h]
        /\ writes[h] \cap Unmapped = {}
        /\ writes[h] \cap Tasks \subseteq created[h] \cup tasks

LEMMA SerialInit == Init => SerialInv
BY DEF Init, SerialInv, InFirst

LEMMA SerialStep ==
    ASSUME UploadInv, SerialInv, [Next]_vars
    PROVE  SerialInv'
<1> USE DEF UploadInv, TypeOK, SerialInv, InFirst
<1>1. CASE Elsewhere
  BY <1>1 DEF Elsewhere, callVars, Row
<1>2. ASSUME NEW h \in Requests, Ends(h)
      PROVE  SerialInv'
  BY <1>2 DEF Ends, Return, Row
<1>3. ASSUME NEW h \in Requests, NEW f \in Files, Receive(h, f)
      PROVE  SerialInv'
  BY <1>3 DEF Receive, Row, tableVars
<1>4. ASSUME NEW h \in Requests, Opens(h)
      PROVE  SerialInv'
  <2>1. file[h] \in Files
    BY <1>4 DEF Opens, HandlerInv
  <2>2. {file[h]} \cap Unmapped = {} /\ {file[h]} \cap Tasks = {}
    BY <2>1, UploadAssumption
  <2>3. QED BY <1>4, <2>2 DEF Opens, Row, tableVars
<1>5. ASSUME NEW h \in Requests, LookUpRow(h)
      PROVE  SerialInv'
  BY <1>5 DEF LookUpRow, Row, tableVars
<1>6. ASSUME NEW h \in Requests, WritesRow(h)
      PROVE  SerialInv'
  <2>1. Row(h) \notin Unmapped
    BY <1>6 DEF WritesRow
  <2>2. Row(h) \in created'[h] \cup tasks
    <3>1. Row(h) \in Tasks
      BY <1>6, RowInHand DEF WritesRow
    <3>2. CASE pc[h] = "update" /\ UNCHANGED created
      BY <1>6, <3>1, <3>2
    <3>3. CASE created' = [created EXCEPT ![h] = @ \cup {Row(h)}]
      BY <3>3
    <3>4. QED BY <1>6, <3>2, <3>3 DEF WritesRow
  <2>3. /\ pc'[h] = "row"
        /\ writes'[h] = writes[h] \cup {Row(h)}
        /\ created[h] \subseteq created'[h]
        /\ tasks' = tasks
    BY <1>6 DEF WritesRow, Flushed, tableVars
  <2>4. /\ writes'[h] \cap Unmapped = {}
        /\ writes'[h] \cap Tasks \subseteq created'[h] \cup tasks'
    BY <1>6, <2>1, <2>2, <2>3 DEF WritesRow
  <2>5. ASSUME NEW g \in Requests \ {h}
        PROVE  /\ pc'[g] = pc[g] /\ writes'[g] = writes[g] /\ created'[g] = created[g]
               /\ Row(g)' = Row(g)
    BY <1>6 DEF WritesRow, Flushed, Row
  <2>6. QED BY <2>3, <2>4, <2>5
<1>7. ASSUME NEW h \in Requests, CommitUpload(h)
      PROVE  SerialInv'
  BY <1>7 DEF CommitUpload, Row
<1>8. ASSUME NEW h \in Requests, _enqueue_manager_digests(h)
      PROVE  SerialInv'
  BY <1>8 DEF _enqueue_manager_digests, Row, tableVars
<1>9. ASSUME NEW h \in Requests, _enqueue_new_tasks(h)
      PROVE  SerialInv'
  BY <1>9 DEF _enqueue_new_tasks, Row, tableVars
<1>10. QED BY <1>1, <1>2, <1>3, <1>4, <1>5, <1>6, <1>7, <1>8, <1>9, Kinds DEF Works

Outstanding == {[file |-> file[h], new |-> created[h]] : h \in Announcing}

\* At the first commit the transaction holds exactly the usable rows of its file,
\* and those it created are exactly those that are not stored yet.
LEMMA CommitIsSerial ==
    ASSUME UploadInv, SerialInv, NEW h \in Requests, CommitUpload(h)
    PROVE  /\ file[h] \in Files \ uploads
           /\ writes[h] \cap Files = {file[h]}
           /\ writes[h] \cap Tasks = Usable[file[h]]
           /\ created[h] = Usable[file[h]] \ tasks
<1> DEFINE f == file[h]
<1>1. f \in Files /\ Written(h)
  BY DEF CommitUpload, UploadInv, HandlerInv, FirstInv, InFirst
<1>2. /\ RowsIn(f) \subseteq Tasks
      /\ DOMAIN RowsOf[f] = 1..Len(RowsOf[f])
      /\ Len(RowsOf[f]) \in Nat
      /\ f \notin Tasks
  BY <1>1, RowsAreTasks
<1>3. Usable[f] = RowsIn(f) \ Unmapped
  BY <1>1 DEF Usable, RowsIn
<1>4. at[h] = Len(RowsOf[f]) + 1
  BY <1>1, <1>2 DEF CommitUpload, MoreRows, Written
<1>5. RowsIn(f) \subseteq Unmapped \cup writes[h]
  BY <1>1, <1>2, <1>4 DEF Written, RowsIn
<1>6. writes[h] \cap Unmapped = {} /\ writes[h] \cap Tasks \subseteq created[h] \cup tasks
  BY DEF CommitUpload, SerialInv, InFirst
<1>7. /\ writes[h] \subseteq {f} \cup RowsIn(f)
      /\ f \in writes[h] \ uploads
      /\ created[h] \subseteq writes[h] \ tasks
  BY <1>1 DEF Written
<1>8. created[h] \subseteq Tasks
  BY DEF UploadInv, TypeOK
<1> HIDE DEF f
<1>9. writes[h] \cap Tasks = Usable[f]
  BY <1>2, <1>3, <1>5, <1>6, <1>7
<1>10. created[h] = Usable[f] \ tasks
  BY <1>6, <1>7, <1>8, <1>9
<1>11. writes[h] \cap Files = {f}
  BY <1>1, <1>2, <1>7, UploadAssumption
<1>12. QED BY <1>1, <1>7, <1>9, <1>10, <1>11 DEF f

LEMMA CommitStores ==
    ASSUME UploadInv, SerialInv, NEW h \in Requests, CommitUpload(h)
    PROVE  \E f \in Files : Atomic!Store(f)
<1> PICK f \in Files : f = file[h]
  BY CommitIsSerial
<1>1. /\ f \notin uploads
      /\ uploads' = uploads \cup {f}
      /\ tasks' = tasks \cup Usable[f]
      /\ outbox' = outbox
  BY CommitIsSerial DEF CommitUpload
<1>2. Announcing' = Announcing \cup {h}
  BY DEF CommitUpload, Announcing, UploadInv, TypeOK
<1>3. Outstanding' = Outstanding \cup {[file |-> f, new |-> Usable[f] \ tasks]}
  <2>1. f = file[h] /\ created[h] = Usable[f] \ tasks
    BY CommitIsSerial
  <2>2. file' = file /\ created' = created
    BY DEF CommitUpload
  <2>3. QED BY <1>2, <2>1, <2>2 DEF Outstanding
<1>4. Atomic!Store(f)
  BY <1>1, <1>3 DEF Atomic!Store, Outstanding
<1>5. QED BY <1>4

\* A handler that ends takes its upload off the outstanding ones, and no other.
LEMMA EndSettles ==
    ASSUME UploadInv, NEW h \in Announcing, Return(h)
    PROVE  Outstanding' = Outstanding \ {[file |-> file[h], new |-> created[h]]}
<1>1. Announcing' = Announcing \ {h}
  BY DEF Return, Announcing, UploadInv, TypeOK
<1>2. \A g \in Announcing \ {h} :
          /\ file[g] # file[h]
          /\ file'[g] = file[g] /\ created'[g] = created[g]
  BY DEF Return, Announcing, InSecond, UploadInv, TypeOK, ApartInv
<1>3. QED BY <1>1, <1>2 DEF Outstanding

\* The drafts of a handler are digests about its upload and notices about some of
\* its new tasks, one manager each.
LEMMA DraftsAnnounce ==
    ASSUME UploadInv, NEW h \in Announcing
    PROVE  \E readers \in SUBSET Managers, told \in SUBSET created[h] :
               \E to \in [told -> Managers] :
                   drafts[h] = {[kind |-> "digest", about |-> file[h], to |-> m] : m \in readers}
                               \cup {[kind |-> "newtask", about |-> t, to |-> to[t]] : t \in told}
<1> DEFINE readers == {m \in Managers : Digest(file[h], m) \in drafts[h]}
           told == {t \in created[h] : \E m \in Managers : NewTask(t, m) \in drafts[h]}
           to == [t \in told |-> CHOOSE m \in Managers : NewTask(t, m) \in drafts[h]]
<1>1. \A n \in drafts[h] :
          \/ \E m \in Managers : n = Digest(file[h], m)
          \/ \E t \in created[h], m \in Managers : n = NewTask(t, m)
  <2>1. drafts[h] \subseteq Notices
    BY DEF UploadInv, TypeOK, Announcing
  <2>2. \A n \in drafts[h] : \/ n.kind = "digest" /\ n.about = file[h]
                             \/ n.kind = "newtask" /\ n.about \in created[h]
    BY DEF UploadInv, SecondInv, Announcing, InSecond
  <2>3. QED BY <2>1, <2>2 DEF Notices, Digest, NewTask
<1>2. \A t \in told : to[t] \in Managers /\ NewTask(t, to[t]) \in drafts[h]
  OBVIOUS
<1>3. \A t \in created[h], m, k \in Managers :
          NewTask(t, m) \in drafts[h] /\ NewTask(t, k) \in drafts[h] => m = k
  BY DEF UploadInv, SecondInv, Announcing, InSecond, NewTask
<1>4. \A t \in created[h], m \in Managers : NewTask(t, m) \in drafts[h] => t \in told /\ m = to[t]
  BY <1>2, <1>3
<1>5. /\ readers \subseteq Managers /\ told \subseteq created[h] /\ to \in [told -> Managers]
      /\ \A m \in Managers : m \in readers <=> Digest(file[h], m) \in drafts[h]
  BY <1>2
<1> HIDE DEF readers, told, to
<1>6. drafts[h] = {Digest(file[h], m) : m \in readers} \cup {NewTask(t, to[t]) : t \in told}
  BY <1>1, <1>2, <1>4, <1>5
<1>7. QED BY <1>5, <1>6 DEF Digest, NewTask

LEMMA EndAnnouncesOrForgets ==
    ASSUME UploadInv, NEW h \in Announcing, Ends(h)
    PROVE  \E p \in Outstanding : Atomic!Announce(p) \/ Atomic!Forget(p)
<1> PICK p \in Outstanding : p = [file |-> file[h], new |-> created[h]]
  BY DEF Outstanding
<1>1. p.file = file[h] /\ p.new = created[h]
  OBVIOUS
<1>2. Outstanding' = Outstanding \ {p} /\ UNCHANGED <<uploads, tasks>>
  BY EndSettles DEF Ends
<1>3. CASE UNCHANGED outbox
  BY <1>1, <1>2, <1>3 DEF Atomic!Forget, Outstanding
<1>4. CASE outbox' = outbox \cup drafts[h]
  <2>1. PICK readers \in SUBSET Managers, told \in SUBSET created[h] :
          \E to \in [told -> Managers] :
              drafts[h] = {[kind |-> "digest", about |-> file[h], to |-> m] : m \in readers}
                          \cup {[kind |-> "newtask", about |-> t, to |-> to[t]] : t \in told}
    BY DraftsAnnounce
  <2>2. PICK to \in [told -> Managers] :
              drafts[h] = {[kind |-> "digest", about |-> file[h], to |-> m] : m \in readers}
                          \cup {[kind |-> "newtask", about |-> t, to |-> to[t]] : t \in told}
    BY <2>1
  <2>3. outbox' = outbox
            \cup {[kind |-> "digest", about |-> p.file, to |-> m] : m \in readers}
            \cup {[kind |-> "newtask", about |-> t, to |-> to[t]] : t \in told}
    BY <1>1, <1>4, <2>2, Zenon
  <2>4. told \in SUBSET p.new
    BY <1>1
  <2>5. \E r \in SUBSET Managers, n \in SUBSET p.new : \E w \in [n -> Managers] :
            outbox' = outbox
                \cup {[kind |-> "digest", about |-> p.file, to |-> m] : m \in r}
                \cup {[kind |-> "newtask", about |-> t, to |-> w[t]] : t \in n}
    BY <2>3, <2>4, Zenon
  <2>6. {[file |-> file[g], new |-> created[g]] : g \in Announcing}'
            = {[file |-> file[g], new |-> created[g]] : g \in Announcing} \ {p}
    BY <1>2 DEF Outstanding
  <2>7. Atomic!Announce(p)
    BY <1>2, <2>5, <2>6, Zenon DEF Atomic!Announce
  <2>8. QED BY <2>7
<1>5. QED BY <1>3, <1>4 DEF Ends, CommitNotices

LEMMA AtomicStep ==
    ASSUME UploadInv, SerialInv, [Next]_vars
    PROVE  [Atomic!Next]_(Atomic!vars)
<1>1. ASSUME UNCHANGED <<uploads, tasks, outbox, Outstanding>>
      PROVE  UNCHANGED Atomic!vars
  BY <1>1 DEF Atomic!vars, Outstanding
<1>2. CASE Elsewhere
  BY <1>1, <1>2 DEF Elsewhere, callVars, Outstanding, Announcing
<1>3. ASSUME NEW h \in Requests, CommitUpload(h)
      PROVE  Atomic!Next
  BY <1>3, CommitStores DEF Atomic!Next
<1>4. ASSUME NEW h \in Requests, Ends(h), h \in Announcing
      PROVE  Atomic!Next
  BY <1>4, EndAnnouncesOrForgets DEF Atomic!Next, Outstanding
<1> USE DEF UploadInv, TypeOK
<1>5. ASSUME NEW h \in Requests, Ends(h), h \notin Announcing
      PROVE  UNCHANGED Atomic!vars
  <2>1. UNCHANGED <<uploads, tasks, outbox>>
    BY <1>5 DEF Ends, CommitNotices, Announcing
  <2>2. Announcing' = Announcing
    BY <1>5 DEF Ends, Return, Announcing
  <2>3. \A g \in Announcing : file'[g] = file[g] /\ created'[g] = created[g]
    BY <1>5 DEF Ends, Return, Announcing
  <2>4. QED BY <1>1, <2>1, <2>2, <2>3 DEF Outstanding
<1>6. ASSUME NEW h \in Requests,
             \/ \E f \in Files : Receive(h, f)
             \/ Opens(h) \/ LookUpRow(h) \/ WritesRow(h)
             \/ _enqueue_manager_digests(h) \/ _enqueue_new_tasks(h)
      PROVE  UNCHANGED Atomic!vars
  <2>1. UNCHANGED <<uploads, tasks, outbox>>
    BY <1>6 DEF Receive, Opens, LookUpRow, WritesRow, Flushed, _enqueue_manager_digests,
                _enqueue_new_tasks, tableVars
  <2>2. Announcing' = Announcing
    BY <1>6 DEF Receive, Opens, LookUpRow, WritesRow, Flushed, _enqueue_manager_digests,
                _enqueue_new_tasks, Announcing
  <2>3. \A g \in Announcing : file'[g] = file[g] /\ created'[g] = created[g]
    BY <1>6 DEF Receive, Opens, LookUpRow, WritesRow, Flushed, _enqueue_manager_digests,
                _enqueue_new_tasks, Announcing
  <2>4. QED BY <1>1, <2>1, <2>2, <2>3 DEF Outstanding
<1>7. QED BY <1>2, <1>3, <1>4, <1>5, <1>6, Kinds DEF Works

\* However the statements of concurrent uploads interleave, wait, are refused or
\* lost, their commits are those of uploads that run one after the other.
THEOREM UploadsAreAtomic == Spec => ImplementsAtomicUpload
<1>1. Init => Atomic!Init
  BY DEF Init, Atomic!Init, Announcing
<1>2. UploadInv /\ SerialInv /\ [Next]_vars => [Atomic!Next]_(Atomic!vars)
  BY AtomicStep
<1>3. UploadInv /\ SerialInv /\ [Next]_vars => SerialInv'
  BY SerialStep
<1>4. QED
  BY <1>1, <1>2, <1>3, SerialInit, UploadAlways, PTL DEF Spec, ImplementsAtomicUpload, Atomic!Spec

-----------------------------------------------------------------------------
(* Why every call ends: while calls run, one of them can go on, and no     *)
(* call goes on for ever.  (That the one that can go on does is fairness.) *)

\* While calls run, one of them is not held up, or PostgreSQL refuses its statement.
SomeoneGoesOn ==
    (\E h \in Requests : Running(h))
        => \E h \in Requests : Running(h) /\ (Waits(h) => Deadlocked(h))

\* A bound on the steps left to a call.
RowsLeft(h) == Len(RowsOf[file[h]]) + 1 - at[h]
StepsLeft(h) ==
    CASE pc[h] = "store" -> 2 * RowsLeft(h) + 6
      [] pc[h] = "row" -> 2 * RowsLeft(h) + 5
      [] pc[h] \in {"insert", "update"} -> 2 * RowsLeft(h) + 4
      [] pc[h] = "digests" -> 3
      [] pc[h] = "newtasks" -> 2
      [] pc[h] = "notices" -> 1
      [] OTHER -> 0

\* Each step of a call uses one up, whatever the other calls do.
StepsRunOut ==
    [][\A h \in Requests :
            pc[h] # "idle" =>
                /\ StepsLeft(h) \in Nat /\ StepsLeft(h)' \in Nat
                /\ StepsLeft(h)' <= StepsLeft(h)
                /\ Handle(h) => StepsLeft(h)' < StepsLeft(h)]_vars

\* Finitely many calls never all wait for one another without a deadlock that the
\* database breaks: a call that waits, waits for one that runs.
THEOREM NobodyWaitsForEver ==
    ASSUME IsFiniteSet(Requests)
    PROVE  Spec => []SomeoneGoesOn
<1>1. ASSUME UploadInv
      PROVE  SomeoneGoesOn
  <2> DEFINE R == {h \in Requests : Running(h)}
             E == {p \in Requests \X Requests : Blocks(p[2], p[1])}
  <2> SUFFICES ASSUME R # {}, \A h \in R : Waits(h)
               PROVE  \E h \in R : Deadlocked(h)
    BY DEF SomeoneGoesOn
  <2>1. IsFiniteSet(R)
    BY FS_Subset
  <2>2. \A g \in R : \E k \in R : Blocks(k, g)
    <3> SUFFICES ASSUME NEW g \in R
                 PROVE  \E k \in R : Blocks(k, g)
      OBVIOUS
    <3>1. PICK k \in Requests : Blocks(k, g)
      BY DEF Waits
    <3>2. writes[k] # {}
      BY <3>1 DEF Blocks
    <3>3. Running(k)
      BY <1>1, <3>2 DEF UploadInv, HandlerInv, InFirst, Running
    <3>4. QED BY <3>1, <3>3
  <2>3. \A g \in R : \E k \in R : <<g, k>> \in E
    BY <2>2
  <2>4. PICK C \in SUBSET R :
            /\ C # {}
            /\ \A x \in C : (\E y \in C : <<x, y>> \in E) /\ (\E y \in C : <<y, x>> \in E)
    <3> HIDE DEF R, E
    <3>1. QED BY <2>1, <2>3, WaitInCircle
  <2>5. \A x \in C : (\E y \in C : Blocks(y, x)) /\ (\E y \in C : Blocks(x, y))
    BY <2>4
  <2>6. PICK h \in C : TRUE
    BY <2>4
  <2>7. Deadlocked(h)
    BY <2>5, <2>6 DEF Deadlocked
  <2>8. QED BY <2>6, <2>7
<1>2. QED BY <1>1, UploadAlways, PTL

\* No call goes on for ever: every step of it uses up one of a number of steps that
\* its file bounds, and no step of another call gives it one back.
THEOREM CallsAreBounded == Spec => StepsRunOut
<1> DEFINE Falls(h) == /\ StepsLeft(h) \in Nat /\ StepsLeft(h)' \in Nat
                       /\ StepsLeft(h)' < StepsLeft(h)
<1>1. ASSUME UploadInv, NEW h \in Requests, Running(h)
      PROVE  /\ pc[h] \in {"store", "row", "insert", "update", "digests", "newtasks", "notices"}
             /\ at[h] \in Nat /\ Len(RowsOf[file[h]]) \in Nat
             /\ pc[h] \in {"store"} \cup InFirst => RowsLeft(h) \in Nat
             /\ pc[h] \in {"insert", "update"} \/ (pc[h] = "row" /\ MoreRows(h)) => RowsLeft(h) > 0
             /\ StepsLeft(h) \in Nat \ {0}
  <2>1. /\ pc[h] \in {"store", "row", "insert", "update", "digests", "newtasks", "notices"}
        /\ at[h] \in Nat
    BY <1>1 DEF UploadInv, TypeOK, Running
  <2>2. Len(RowsOf[file[h]]) \in Nat
    BY <1>1, RowsAreTasks DEF UploadInv, HandlerInv, Running
  <2>3. /\ pc[h] \in {"store"} \cup InFirst => RowsLeft(h) \in Nat
        /\ pc[h] \in {"insert", "update"} \/ (pc[h] = "row" /\ MoreRows(h)) => RowsLeft(h) > 0
    BY <1>1, <2>1, <2>2
    DEF UploadInv, HandlerInv, FirstInv, Written, InFirst, InSecond, RowsLeft, MoreRows
  <2>4. QED BY <2>1, <2>2, <2>3 DEF StepsLeft, InFirst
<1>2. ASSUME UploadInv, NEW h \in Requests, Running(h), Works(h)
      PROVE  Falls(h)
  <2> DEFINE n == RowsLeft(h)
  <2>1. file'[h] = file[h] /\ at[h] \in Nat /\ Len(RowsOf[file[h]]) \in Nat
    BY <1>1, <1>2 DEF Works, Receive, Running, Opens, LookUpRow, WritesRow, Flushed,
                CommitUpload, _enqueue_manager_digests, _enqueue_new_tasks
  <2>2. /\ at'[h] = at[h] => RowsLeft(h)' = n
        /\ at'[h] = at[h] + 1 => RowsLeft(h)' = n - 1
    BY <2>1 DEF RowsLeft
  <2>3. /\ pc[h] \in {"store"} \cup InFirst => n \in Nat
        /\ pc[h] \in {"insert", "update"} \/ (pc[h] = "row" /\ MoreRows(h)) => n > 0
    BY <1>1, <1>2
  <2> HIDE DEF n
  <2>4. CASE Opens(h)
    <3>1. pc[h] = "store" /\ pc'[h] = "row" /\ at'[h] = at[h]
      BY <1>2, <2>4 DEF Opens, UploadInv, TypeOK
    <3>2. StepsLeft(h) = 2 * n + 6 /\ StepsLeft(h)' = 2 * n + 5
      BY <2>2, <3>1 DEF StepsLeft, n
    <3>3. QED BY <2>3, <3>1, <3>2
  <2>5. CASE LookUpRow(h)
    <3>1. /\ pc[h] = "row" /\ n \in Nat \ {0}
          /\ \/ pc'[h] = "row" /\ at'[h] = at[h] + 1
             \/ pc'[h] \in {"insert", "update"} /\ at'[h] = at[h]
      BY <1>2, <2>3, <2>5 DEF LookUpRow, UploadInv, TypeOK, InFirst
    <3>2. StepsLeft(h) = 2 * n + 5 /\ StepsLeft(h)' \in {2 * (n - 1) + 5, 2 * n + 4}
      BY <2>2, <3>1 DEF StepsLeft, n
    <3>3. QED BY <3>1, <3>2
  <2>6. CASE WritesRow(h)
    <3>1. /\ pc[h] \in {"insert", "update"}
          /\ pc'[h] = "row" /\ at'[h] = at[h] + 1
      BY <1>2, <2>6 DEF WritesRow, Flushed, UploadInv, TypeOK
    <3> n \in Nat \ {0}
      BY <2>3, <3>1 DEF InFirst
    <3>2. StepsLeft(h) = 2 * n + 4 /\ StepsLeft(h)' = 2 * (n - 1) + 5
      BY <2>2, <3>1 DEF StepsLeft, n
    <3>3. QED BY <3>1, <3>2
  <2>7. CASE CommitUpload(h) \/ _enqueue_manager_digests(h) \/ _enqueue_new_tasks(h)
    <3>1. \/ pc[h] = "row" /\ pc'[h] = "digests"
          \/ pc[h] = "digests" /\ pc'[h] = "newtasks"
          \/ pc[h] = "newtasks" /\ pc'[h] = "notices"
      BY <1>2, <2>7 DEF CommitUpload, _enqueue_manager_digests, _enqueue_new_tasks, UploadInv, TypeOK
    <3>2. pc[h] = "row" => n \in Nat
      BY <2>3 DEF InFirst
    <3>3. QED BY <3>1, <3>2 DEF StepsLeft, n
  <2>8. QED BY <1>2, <2>4, <2>5, <2>6, <2>7 DEF Works, Receive, Running
<1>3. ASSUME UploadInv, NEW h \in Requests, Running(h), Ends(h)
      PROVE  Falls(h)
  BY <1>1, <1>3 DEF Ends, Return, StepsLeft, UploadInv, TypeOK
<1>4. ASSUME UploadInv, NEW h \in Requests, Handle(h) \/ Interrupted(h)
      PROVE  Falls(h)
  BY <1>2, <1>3, <1>4, HandlerKinds
<1>5. ASSUME UploadInv, [Next]_vars, NEW h \in Requests, pc[h] # "idle"
      PROVE  \/ Falls(h)
             \/ StepsLeft(h)' = StepsLeft(h) /\ StepsLeft(h) \in Nat
  <2>1. StepsLeft(h) \in Nat
    BY <1>1, <1>5 DEF StepsLeft, Running
  <2>2. CASE UNCHANGED <<pc[h], file[h], at[h]>>
    BY <2>1, <2>2 DEF StepsLeft, RowsLeft
  <2>3. CASE Handle(h) \/ Interrupted(h)
    BY <1>4, <1>5, <2>3
  <2>4. CASE \E g \in Requests \ {h} : (\E f \in Files : Receive(g, f)) \/ Handle(g) \/ Interrupted(g)
    <3>1. PICK g \in Requests \ {h} : Works(g) \/ Ends(g)
      BY <2>4, HandlerKinds DEF Works
    <3>2. UNCHANGED <<pc[h], file[h], at[h]>>
      BY <1>5, <3>1 DEF UploadInv, TypeOK, Works, Ends, Return, Receive, Opens, LookUpRow, WritesRow,
                        Flushed, CommitUpload, _enqueue_manager_digests, _enqueue_new_tasks
    <3>3. QED BY <2>2, <3>2
  <2>5. CASE \E f \in Files : Receive(h, f)
    BY <1>5, <2>5 DEF Receive
  <2>6. CASE UNCHANGED <<pc, file, at>>
    BY <2>2, <2>6
  <2>7. QED BY <1>5, <2>3, <2>4, <2>5, <2>6 DEF Next, assign_store, callVars, vars
<1>6. UploadInv /\ [Next]_vars =>
        \A h \in Requests :
            pc[h] # "idle" =>
                /\ StepsLeft(h) \in Nat /\ StepsLeft(h)' \in Nat
                /\ StepsLeft(h)' <= StepsLeft(h)
                /\ Handle(h) => StepsLeft(h)' < StepsLeft(h)
  BY <1>4, <1>5
<1>7. QED BY <1>6, UploadAlways, PTL DEF Spec, StepsRunOut
=============================================================================
