------------------------- MODULE TaskWorkflow_proofs -------------------------
(***************************************************************************)
(* Theorems about what becomes of a task, for any number of calls, tasks,  *)
(* stores and managers.                                                    *)
(***************************************************************************)
EXTENDS TaskWorkflow, TLAPS

-----------------------------------------------------------------------------
(* The inductive invariant.                                                *)

\* A call that is at work has its request.
CallInv == \A h \in Calls : pc[h] \notin {"idle", "end"} => call[h] \in Requests

TypeInv == TypeOK /\ CallInv

Locks(h) == pc[h] \in {"event", "commit"} /\ WritesState(call[h])

\* One call at a time has written the row of a task, and it wrote what its own event
\* makes of the row.
LockInv ==
    /\ \A g, h \in Calls : Locks(g) /\ Locks(h) /\ call[g].task = call[h].task => g = h
    /\ \A h \in Calls, t \in Tasks :
            Locks(h) /\ call[h].task = t => draft[h] = Step(Row(t), call[h])

\* A call leaves one event at most, in the log of one task, and only once it is over:
\* no call that still runs, was refused or was rolled back is in a log.
OneEventPerCall ==
    /\ \A t \in Tasks : \A e \in events[t] : pc[e.of] = "end"
    /\ \A t, u \in Tasks : \A e \in events[t], f \in events[u] : e.of = f.of => t = u /\ e = f

\* What a call found committed is over.
BeforeInv == \A g \in Calls : \A h \in before[g] : pc[h] = "end"

WorkflowInv ==
    TypeInv /\ CommentsAreLogged /\ LockInv /\ OneEventPerCall /\ BeforeInv /\ StateFollowsItsLog

Events == [door : {"mobile", "desk"}, op : {"accept", "comment", "close"}, by : Actors,
           text : Texts \cup Awkward \cup {NoText}, of : Calls]
Columns == [status : Allowed, owner : Managers \cup {Nobody}, completed : BOOLEAN]

-----------------------------------------------------------------------------
(* Types.                                                                  *)

LEMMA RequestTypes ==
    ASSUME NEW r \in Requests
    PROVE  /\ r.door \in {"mobile", "desk"} /\ r.op \in {"accept", "comment", "close"}
           /\ r.task \in Tasks /\ r.by \in Actors /\ r.text \in Texts \cup Awkward \cup {NoText}
BY WorkflowAssumption DEF Actors

LEMMA RowTyped ==
    ASSUME TypeOK, NEW t \in Tasks
    PROVE  Row(t) \in Rows
<1>1. NewRow \in Rows
  BY DEF NewRow, Rows, Actors
<1>2. internal[t] \in Rows \cup {NoRow}
  BY DEF TypeOK
<1> QED
  BY <1>1, <1>2 DEF Row

LEMMA DraftTyped ==
    ASSUME NEW row \in Rows, NEW r \in Requests
    PROVE  Accepted(row, r) \in Rows /\ Closed(row, r) \in Rows
BY RequestTypes DEF Accepted, Closed, Rows

LEMMA CoalesceTyped ==
    ASSUME NEW x \in Managers \cup {Nobody}, NEW y \in Managers \cup {Nobody}
    PROVE  Coalesce(x, y) \in Managers \cup {Nobody}
BY DEF Coalesce

LEMMA ManagerOfTyped ==
    ASSUME TypeOK, NEW t \in Tasks
    PROVE  ManagerOf(t) \in Managers \cup {Nobody}
BY WorkflowAssumption DEF ManagerOf, TypeOK

\* A call that ends is typed again.
LEMMA EndTyped ==
    ASSUME TypeInv, NEW h \in Calls, End(h)
    PROVE  /\ pc' \in [Calls -> {"idle", "check", "write", "event", "commit", "end"}]
           /\ call' \in [Calls -> Requests \cup {NoRequest}]
           /\ draft' \in [Calls -> Rows \cup {NoRow}]
           /\ UNCHANGED before
           /\ CallInv'
BY DEF TypeInv, TypeOK, CallInv, End

LEMMA GoToTyped ==
    ASSUME TypeInv, NEW h \in Calls, pc[h] \notin {"idle", "end"},
           NEW step \in {"write", "event", "commit"}, GoTo(h, step)
    PROVE  /\ pc' \in [Calls -> {"idle", "check", "write", "event", "commit", "end"}]
           /\ call' \in [Calls -> Requests \cup {NoRequest}]
           /\ draft' \in [Calls -> Rows \cup {NoRow}]
           /\ UNCHANGED before
           /\ CallInv'
BY DEF TypeInv, TypeOK, CallInv, GoTo

\* The calls.
LEMMA CallsTyped ==
    ASSUME TypeInv, NEW h \in Calls,
           (\E r \in Requests : Receive(h, r)) \/ Handle(h) \/ Lost(h)
    PROVE  TypeInv'
<1>1. ASSUME UNCHANGED storeVars,
             pc' \in [Calls -> {"idle", "check", "write", "event", "commit", "end"}],
             call' \in [Calls -> Requests \cup {NoRequest}],
             draft' \in [Calls -> Rows \cup {NoRow}], before' \in [Calls -> SUBSET Calls], CallInv'
      PROVE  TypeInv'
  BY <1>1 DEF TypeInv, TypeOK, storeVars
<1>a. before \in [Calls -> SUBSET Calls]
  BY DEF TypeInv, TypeOK
<1>2. ASSUME NEW r \in Requests, Receive(h, r)
      PROVE  TypeInv'
  <2>1. /\ pc' \in [Calls -> {"idle", "check", "write", "event", "commit", "end"}]
        /\ call' \in [Calls -> Requests \cup {NoRequest}]
        /\ draft' \in [Calls -> Rows \cup {NoRow}]
        /\ CallInv'
    BY <1>2 DEF Receive, TypeInv, TypeOK, CallInv
  <2> QED
    BY <1>1, <1>a, <1>2, <2>1 DEF Receive
<1>3. CASE _assert_manager_access(h)
  <2>1. CASE End(h)
    BY <1>1, <1>a, <1>3, <2>1, EndTyped DEF _assert_manager_access
  <2>2. CASE ~End(h)
    <3>1. /\ UNCHANGED <<storeVars, call, draft>> /\ pc[h] = "check"
          /\ pc' = [pc EXCEPT ![h] = "write"] /\ before' = [before EXCEPT ![h] = Committed]
      BY <1>3, <2>2 DEF _assert_manager_access
    <3>2. Committed \subseteq Calls
      BY DEF Committed, TypeInv, TypeOK
    <3>3. before' \in [Calls -> SUBSET Calls]
      BY <1>a, <3>1, <3>2
    <3>4. /\ pc' \in [Calls -> {"idle", "check", "write", "event", "commit", "end"}]
          /\ call' \in [Calls -> Requests \cup {NoRequest}]
          /\ draft' \in [Calls -> Rows \cup {NoRow}]
          /\ CallInv'
      BY <3>1 DEF TypeInv, TypeOK, CallInv
    <3> QED
      BY <1>1, <3>1, <3>3, <3>4
  <2> QED
    BY <2>1, <2>2
<1>4. CASE WriteState(h)
  <2>1. call[h] \in Requests
    BY <1>4 DEF WriteState, TypeInv, CallInv
  <2>2. Row(call[h].task) \in Rows
    BY <2>1, RequestTypes, RowTyped DEF TypeInv
  <2>3. PICK d \in Rows : draft' = [draft EXCEPT ![h] = d]
    BY <1>4, <2>1, <2>2, DraftTyped DEF WriteState, Step
  <2>4. /\ pc' \in [Calls -> {"idle", "check", "write", "event", "commit", "end"}]
        /\ draft' \in [Calls -> Rows \cup {NoRow}]
        /\ call' = call /\ CallInv'
    BY <1>4, <2>3 DEF WriteState, TypeInv, TypeOK, CallInv
  <2> QED
    BY <1>1, <1>a, <1>4, <2>4 DEF WriteState, TypeInv, TypeOK
<1>5. CASE WriteComment(h)
  BY <1>1, <1>a, <1>5, GoToTyped DEF WriteComment
<1>6. CASE InsertEvent(h)
  <2>1. UNCHANGED storeVars /\ pc[h] = "event" /\ (GoTo(h, "commit") \/ End(h))
    BY <1>6 DEF InsertEvent
  <2> QED
    BY <1>1, <1>a, <2>1, EndTyped, GoToTyped
<1>7. CASE Lost(h)
  BY <1>1, <1>a, <1>7, EndTyped DEF Lost
<1>8. CASE Commit(h)
  <2>1. PICK r \in Requests : r = call[h]
    BY <1>8 DEF Commit, TypeInv, CallInv
  <2> DEFINE e == [door |-> r.door, op |-> r.op, by |-> r.by, text |-> r.text, of |-> h]
             t == r.task
  <2>2. e \in Events /\ t \in Tasks
    BY <2>1, RequestTypes DEF Events
  <2>3. /\ internal' = IF WritesState(r) THEN [internal EXCEPT ![t] = draft[h]] ELSE internal
        /\ comments' = IF AddsComment(r) THEN [comments EXCEPT ![t] = @ \cup {h}] ELSE comments
        /\ events' = [events EXCEPT ![t] = @ \cup {e}]
        /\ End(h) /\ UNCHANGED <<assigned, columns>>
    BY <1>8, <2>1 DEF Commit
  <2> HIDE DEF e, t
  <2>4. internal' \in [Tasks -> Rows \cup {NoRow}] /\ comments' \in [Tasks -> SUBSET (Calls \cup {"remark"})]
    BY <2>2, <2>3 DEF TypeInv, TypeOK
  <2>5. events \in [Tasks -> SUBSET Events]
    BY DEF TypeInv, TypeOK, Events
  <2>6. events' \in [Tasks -> SUBSET Events]
    BY <2>2, <2>3, <2>5
  <2> QED
    BY <1>a, <2>3, <2>4, <2>6, EndTyped DEF TypeInv, TypeOK, Events
<1> QED
  BY <1>2, <1>3, <1>4, <1>5, <1>6, <1>7, <1>8 DEF Handle

-----------------------------------------------------------------------------
(* The two sorts of columns of tasks.                                      *)

\* One statement on the columns of a task.
Works(t, row) ==
    /\ columns' = [columns EXCEPT ![t] = row]
    /\ row \in Columns
    /\ columns[t].owner # Nobody => row.owner = columns[t].owner

WorkStep(t) ==
    \/ claim_task_auto(t)
    \/ \E s \in Allowed : set_work_status(t, s)
    \/ \E m \in Managers :
            manager_claim_task(t, m) \/ \E s \in Allowed : manager_set_status(t, m, s)

LEMMA WorkRows ==
    ASSUME TypeOK, NEW t \in Tasks, WorkStep(t)
    PROVE  \E row : Works(t, row)
<1>1. /\ columns[t].owner \in Managers \cup {Nobody} /\ columns[t] \in Columns
      /\ ManagerOf(t) \in Managers \cup {Nobody} /\ Nobody \notin Managers
  BY ManagerOfTyped, WorkflowAssumption DEF TypeOK, Columns
<1>2. /\ Coalesce(columns[t].owner, ManagerOf(t)) \in Managers \cup {Nobody}
      /\ columns[t].owner # Nobody => Coalesce(columns[t].owner, ManagerOf(t)) = columns[t].owner
  BY <1>1, CoalesceTyped DEF Coalesce
<1>3. CASE claim_task_auto(t)
  <2> DEFINE row == [columns[t] EXCEPT !.owner = Coalesce(@, ManagerOf(t)),
                                       !.status = IF @ = "done" THEN @ ELSE "in_progress"]
  <2>1. columns' = [columns EXCEPT ![t] = row]
    BY <1>3 DEF claim_task_auto, Work
  <2>2. row \in Columns /\ row.owner = Coalesce(columns[t].owner, ManagerOf(t))
    BY <1>1, <1>2 DEF Columns, Allowed
  <2> HIDE DEF row
  <2> QED
    BY <1>2, <2>1, <2>2 DEF Works
<1>4. ASSUME NEW s \in Allowed, set_work_status(t, s)
      PROVE  \E row : Works(t, row)
  <2> DEFINE row == [status |-> s, owner |-> Coalesce(columns[t].owner, ManagerOf(t)),
                     completed |-> s = "done"]
  <2>1. columns' = [columns EXCEPT ![t] = row]
    BY <1>4 DEF set_work_status, Work
  <2>2. row \in Columns
    BY <1>2 DEF Columns
  <2>3. row.owner = Coalesce(columns[t].owner, ManagerOf(t))
    OBVIOUS
  <2> HIDE DEF row
  <2> QED
    BY <1>2, <2>1, <2>2, <2>3 DEF Works
<1>5. ASSUME NEW m \in Managers, manager_claim_task(t, m)
      PROVE  \E row : Works(t, row)
  <2> DEFINE row == [columns[t] EXCEPT !.owner = m, !.status = "in_progress"]
  <2>1. columns' = [columns EXCEPT ![t] = row] /\ (columns[t].owner # Nobody => m = columns[t].owner)
    BY <1>2, <1>5 DEF manager_claim_task, Work, Reaches
  <2>2. row \in Columns /\ row.owner = m
    BY <1>1 DEF Columns, Allowed
  <2> HIDE DEF row
  <2> QED
    BY <2>1, <2>2 DEF Works
<1>6. ASSUME NEW m \in Managers, NEW s \in Allowed, manager_set_status(t, m, s)
      PROVE  \E row : Works(t, row)
  <2> DEFINE row == [status |-> s, owner |-> m, completed |-> s = "done"]
  <2>1. columns' = [columns EXCEPT ![t] = row] /\ (columns[t].owner # Nobody => m = columns[t].owner)
    BY <1>2, <1>6 DEF manager_set_status, Work, Reaches
  <2>2. row \in Columns
    BY DEF Columns
  <2>3. row.owner = m
    OBVIOUS
  <2> HIDE DEF row
  <2> QED
    BY <2>1, <2>2, <2>3 DEF Works
<1> QED
  BY <1>3, <1>4, <1>5, <1>6 DEF WorkStep

LEMMA WorkElsewhere ==
    ASSUME NEW t \in Tasks, WorkStep(t)
    PROVE  UNCHANGED <<assigned, internal, comments, events, callVars>>
BY DEF WorkStep, claim_task_auto, set_work_status, manager_claim_task, manager_set_status, Work

\* The other statements leave the columns alone.
LEMMA ColumnsKept ==
    ASSUME [Next]_vars
    PROVE  columns' = columns \/ \E t \in Tasks : WorkStep(t)
<1>1. ASSUME NEW h \in Calls, (\E r \in Requests : Receive(h, r)) \/ Handle(h) \/ Lost(h)
      PROVE  columns' = columns
  BY <1>1 DEF Receive, Handle, Lost, _assert_manager_access, WriteState, WriteComment, InsertEvent,
              Commit, storeVars
<1>2. ASSUME NEW t \in Tasks, ack(t) \/ visit(t) \/ add_task_comment(t)
      PROVE  columns' = columns
  BY <1>2 DEF ack, visit, Touch, add_task_comment
<1>3. ASSUME NEW s \in Stores, NEW m \in Managers \cup {Nobody}, assign_store(s, m)
      PROVE  columns' = columns
  BY <1>3 DEF assign_store
<1> QED
  BY <1>1, <1>2, <1>3 DEF Next, WorkStep, vars, storeVars

LEMMA PinnedStep ==
    ASSUME TypeOK, [Next]_vars
    PROVE  \A t \in Tasks : columns[t].owner # Nobody => columns'[t].owner = columns[t].owner
<1>1. ASSUME NEW k \in Tasks, WorkStep(k)
      PROVE  \A t \in Tasks : columns[t].owner # Nobody => columns'[t].owner = columns[t].owner
  <2>1. PICK row : Works(k, row)
    BY <1>1, WorkRows
  <2>2. \A t \in Tasks : columns'[t] = IF t = k THEN row ELSE columns[t]
    BY <2>1 DEF Works, TypeOK
  <2> QED
    BY <2>1, <2>2 DEF Works
<1> QED
  BY <1>1, ColumnsKept

-----------------------------------------------------------------------------
(* Every step keeps the types.                                             *)

LEMMA TypeKept ==
    ASSUME TypeInv, [Next]_vars
    PROVE  TypeInv'
<1>1. ASSUME NEW t \in Tasks, WorkStep(t)
      PROVE  TypeInv'
  <2>1. PICK row : Works(t, row)
    BY <1>1, WorkRows DEF TypeInv
  <2>2. columns' \in [Tasks -> Columns]
    BY <2>1 DEF Works, TypeInv, TypeOK, Columns
  <2>3. UNCHANGED <<assigned, internal, comments, events, pc, call, draft, before>>
    BY <1>1, WorkElsewhere DEF callVars
  <2> QED
    BY <1>1, <2>2, <2>3 DEF TypeInv, TypeOK, CallInv, Columns
<1>2. ASSUME NEW t \in Tasks, Touch(t)
      PROVE  TypeInv'
  <2>1. internal' \in [Tasks -> Rows \cup {NoRow}]
    BY <1>2, RowTyped DEF Touch, TypeInv, TypeOK
  <2> QED
    BY <1>2, <2>1 DEF Touch, TypeInv, TypeOK, CallInv, callVars
<1>3. ASSUME NEW t \in Tasks, add_task_comment(t)
      PROVE  TypeInv'
  <2>1. comments' \in [Tasks -> SUBSET (Calls \cup {"remark"})]
    BY <1>3 DEF add_task_comment, TypeInv, TypeOK
  <2> QED
    BY <1>3, <2>1 DEF add_task_comment, TypeInv, TypeOK, CallInv, callVars
<1>4. ASSUME NEW s \in Stores, NEW m \in Managers \cup {Nobody}, assign_store(s, m)
      PROVE  TypeInv'
  BY <1>4 DEF assign_store, TypeInv, TypeOK, CallInv, callVars
<1>5. CASE UNCHANGED vars
  BY <1>5 DEF vars, storeVars, callVars, TypeInv, TypeOK, CallInv
<1> QED
  BY <1>1, <1>2, <1>3, <1>4, <1>5, CallsTyped DEF Next, WorkStep, ack, visit

-----------------------------------------------------------------------------
(* Comments and their events.                                              *)

LEMMA CommitLogs ==
    ASSUME TypeInv, CommentsAreLogged, NEW h \in Calls, Commit(h)
    PROVE  CommentsAreLogged'
<1>1. PICK r \in Requests : r = call[h]
  BY DEF Commit, TypeInv, CallInv
<1> DEFINE e == [door |-> r.door, op |-> r.op, by |-> r.by, text |-> r.text, of |-> h]
           t == r.task
<1>2. /\ comments' = IF AddsComment(r) THEN [comments EXCEPT ![t] = @ \cup {h}] ELSE comments
      /\ events' = [events EXCEPT ![t] = @ \cup {e}]
  BY <1>1 DEF Commit
<1>3. e.of = h /\ (AddsComment(e) <=> AddsComment(r)) /\ t \in Tasks
  BY RequestTypes DEF AddsComment
<1> HIDE DEF e, t
<1>4. ASSUME NEW k \in Tasks, k # t
      PROVE  comments'[k] = comments[k] /\ events'[k] = events[k]
  BY <1>2, <1>4 DEF TypeInv, TypeOK
<1>5. /\ comments'[t] = IF AddsComment(r) THEN comments[t] \cup {h} ELSE comments[t]
      /\ events'[t] = events[t] \cup {e}
  BY <1>2, <1>3 DEF TypeInv, TypeOK
<1>6. ASSUME NEW g \in Calls
      PROVE  g \in comments'[t] <=> \E f \in events'[t] : f.of = g /\ AddsComment(f)
  <2>1. g \in comments[t] <=> \E f \in events[t] : f.of = g /\ AddsComment(f)
    BY <1>3 DEF CommentsAreLogged
  <2>2. (\E f \in events'[t] : f.of = g /\ AddsComment(f))
          <=> (\E f \in events[t] : f.of = g /\ AddsComment(f)) \/ (e.of = g /\ AddsComment(e))
    BY <1>5, Zenon
  <2> QED
    BY <1>3, <1>5, <2>1, <2>2
<1> QED
  BY <1>4, <1>6 DEF CommentsAreLogged, AddsComment

LEMMA CommentsKept ==
    ASSUME TypeInv, CommentsAreLogged, [Next]_vars
    PROVE  CommentsAreLogged'
<1>1. ASSUME comments' = comments, events' = events
      PROVE  CommentsAreLogged'
  BY <1>1 DEF CommentsAreLogged, AddsComment
<1>2. ASSUME NEW h \in Calls, (\E r \in Requests : Receive(h, r)) \/ Handle(h) \/ Lost(h), ~Commit(h)
      PROVE  comments' = comments /\ events' = events
  BY <1>2 DEF Receive, Handle, Lost, _assert_manager_access, WriteState, WriteComment, InsertEvent, storeVars
<1>3. ASSUME NEW t \in Tasks, ack(t) \/ visit(t) \/ WorkStep(t)
      PROVE  comments' = comments /\ events' = events
  BY <1>3, WorkElsewhere DEF ack, visit, Touch
<1>4. ASSUME NEW t \in Tasks, add_task_comment(t)
      PROVE  CommentsAreLogged'
  <2>1. events' = events /\ \A k \in Tasks, h \in Calls : h \in comments'[k] <=> h \in comments[k]
    BY <1>4, WorkflowAssumption DEF add_task_comment, TypeInv, TypeOK
  <2> QED
    BY <2>1 DEF CommentsAreLogged, AddsComment
<1>5. ASSUME NEW s \in Stores, NEW m \in Managers \cup {Nobody}, assign_store(s, m)
      PROVE  comments' = comments /\ events' = events
  BY <1>5 DEF assign_store
<1>6. CASE UNCHANGED storeVars
  BY <1>1, <1>6 DEF storeVars
<1> QED
  BY <1>1, <1>2, <1>3, <1>4, <1>5, <1>6, CommitLogs DEF Next, WorkStep, vars

-----------------------------------------------------------------------------
(* The row of a task and its lock.                                         *)


LEMMA NotNoRow ==
    ASSUME NEW row \in Rows
    PROVE  row # NoRow
BY DEF Rows, NoRow

\* What a call makes of a column of a row does not depend on the row.
LEMMA StepColumn ==
    ASSUME NEW row \in Rows, NEW r \in Requests, NEW c \in DOMAIN NewRow
    PROVE  Step(row, r)[c] = IF Sets(r, c) THEN Step(NewRow, r)[c] ELSE row[c]
<1>1. /\ r.op \in {"accept", "comment", "close"} /\ r.door \in {"mobile", "desk"}
      /\ (r.by = Nobody) <=> (r.door = "desk")
  BY RequestTypes, WorkflowAssumption
<1>2. c \in {"status", "accepted", "acceptedBy", "closed", "closedBy", "text"}
  BY DEF NewRow
<1>3. /\ NewRow \in Rows
      /\ NewRow["status"] = "new" /\ NewRow["accepted"] = FALSE /\ NewRow["acceptedBy"] = Nobody
      /\ NewRow["closed"] = FALSE /\ NewRow["closedBy"] = Nobody /\ NewRow["text"] = NoText
  BY DEF NewRow, Rows, Actors
<1>4. CASE r.op = "comment"
  BY <1>4 DEF Step, Sets
<1>5. CASE r.op = "accept"
  <2>1. ASSUME NEW x \in Rows
        PROVE  /\ Step(x, r)["status"] = "accepted" /\ Step(x, r)["accepted"] = TRUE
               /\ Step(x, r)["acceptedBy"] = IF r.door = "mobile" THEN r.by ELSE x["acceptedBy"]
               /\ Step(x, r)["closed"] = x["closed"] /\ Step(x, r)["closedBy"] = x["closedBy"]
               /\ Step(x, r)["text"] = x["text"]
    BY <1>5 DEF Step, Accepted, Rows
  <2>2. CASE c = "acceptedBy"
    BY <1>1, <1>3, <2>1, <2>2 DEF Sets
  <2>3. CASE c = "status"
    BY <1>3, <2>1, <2>3 DEF Sets
  <2>5. CASE c = "accepted"
    BY <1>3, <2>1, <2>5 DEF Sets
  <2>4. CASE c \in {"closed", "closedBy", "text"}
    BY <1>3, <2>1, <2>4 DEF Sets
  <2> QED
    BY <1>2, <2>2, <2>3, <2>4, <2>5
<1>6. CASE r.op = "close"
  <2>1. ASSUME NEW x \in Rows
        PROVE  /\ Step(x, r)["status"] = "resolved" /\ Step(x, r)["closed"] = TRUE
               /\ Step(x, r)["closedBy"] = IF r.door = "mobile" THEN r.by ELSE x["closedBy"]
               /\ Step(x, r)["text"] = IF r.text = NoText THEN x["text"] ELSE r.text
               /\ Step(x, r)["accepted"] = x["accepted"] /\ Step(x, r)["acceptedBy"] = x["acceptedBy"]
    BY <1>6 DEF Step, Closed, Rows
  <2>2. CASE c = "closedBy"
    BY <1>1, <1>3, <2>1, <2>2 DEF Sets
  <2>3. CASE c = "text"
    BY <1>3, <2>1, <2>3 DEF Sets
  <2>4. CASE c = "status"
    BY <1>3, <2>1, <2>4 DEF Sets
  <2>6. CASE c = "closed"
    BY <1>3, <2>1, <2>6 DEF Sets
  <2>5. CASE c \in {"accepted", "acceptedBy"}
    BY <1>3, <2>1, <2>5 DEF Sets
  <2> QED
    BY <1>2, <2>2, <2>3, <2>4, <2>5, <2>6
<1> QED
  BY <1>1, <1>4, <1>5, <1>6

\* The statements of a call before its commit.
LEMMA LocksBeforeCommit ==
    ASSUME TypeInv, LockInv, NEW h \in Calls,
           (\E r \in Requests : Receive(h, r)) \/ Handle(h) \/ Lost(h), ~Commit(h)
    PROVE  LockInv' /\ UNCHANGED <<internal, events, comments>>
<1>1. UNCHANGED <<internal, events, comments>>
  BY DEF Receive, Handle, Lost, _assert_manager_access, WriteState, WriteComment, InsertEvent, storeVars
<1>2. \A t \in Tasks : Row(t)' = Row(t)
  BY <1>1 DEF Row
<1>3. \A g \in Calls \ {h} : pc'[g] = pc[g] /\ call'[g] = call[g] /\ draft'[g] = draft[g]
  BY DEF Receive, Handle, Lost, _assert_manager_access, WriteState, WriteComment, InsertEvent, GoTo, End,
         TypeInv, TypeOK
<1>4. \A g \in Calls \ {h} : (Locks(g)' <=> Locks(g)) /\ (Locks(g) => call[g].task \in Tasks)
  BY <1>3, RequestTypes DEF Locks, TypeInv, CallInv
<1>5. \A g \in Calls \ {h}, t \in Tasks :
        Locks(g)' /\ call'[g].task = t => draft'[g] = Step(Row(t)', call'[g])
  BY <1>2, <1>3, <1>4 DEF LockInv
<1> DEFINE Same == Locks(h)' => Locks(h) /\ call'[h] = call[h] /\ draft'[h] = draft[h]
<1>6. Same => LockInv'
  <2>1. Locks(h) => call[h].task \in Tasks
    BY RequestTypes DEF Locks, TypeInv, CallInv
  <2> QED
    BY <1>2, <1>3, <1>4, <1>5, <2>1 DEF LockInv
<1> HIDE DEF Same
<1>7. CASE WriteState(h)
  <2>1. PICK r \in Requests : r = call[h]
    BY <1>7 DEF WriteState, TypeInv, CallInv
  <2>2. /\ call' = call /\ ~RowLocked(r.task) /\ r.op \in {"accept", "close"} /\ r.task \in Tasks
        /\ draft' = [draft EXCEPT ![h] = Step(Row(r.task), r)]
    BY <1>7, <2>1, RequestTypes DEF WriteState, WritesState
  <2>3. draft'[h] = Step(Row(r.task), r)
    BY <2>2 DEF TypeInv, TypeOK
  <2>4. \A g \in Calls : Locks(g) => call[g].task # r.task
    BY <2>2 DEF RowLocked, Locks
  <2>5. \A t \in Tasks : call'[h].task = t => draft'[h] = Step(Row(t)', call'[h])
    BY <1>2, <2>1, <2>2, <2>3
  <2>6. ASSUME NEW f \in Calls, NEW g \in Calls, Locks(f)', Locks(g)', call'[f].task = call'[g].task
        PROVE  f = g
    BY <1>3, <1>4, <2>1, <2>2, <2>4, <2>6 DEF LockInv
  <2>7. ASSUME NEW g \in Calls, NEW t \in Tasks, Locks(g)', call'[g].task = t
        PROVE  draft'[g] = Step(Row(t)', call'[g])
    BY <1>5, <2>5, <2>7
  <2> QED
    BY <1>1, <2>6, <2>7 DEF LockInv
<1>8. CASE ~WriteState(h)
  <2>1. ASSUME NEW r \in Requests, Receive(h, r)
        PROVE  Same
    BY <2>1 DEF Same, Receive, Locks, TypeInv, TypeOK
  <2>2. ASSUME End(h)
        PROVE  Same
    BY <2>2 DEF Same, End, Locks, TypeInv, TypeOK
  <2>3. ASSUME pc' = [pc EXCEPT ![h] = "write"]
        PROVE  Same
    BY <2>3 DEF Same, Locks, TypeInv, TypeOK
  <2>4. ASSUME WriteComment(h)
        PROVE  Same
    BY <2>4 DEF Same, WriteComment, GoTo, Locks, WritesState, TypeInv, TypeOK
  <2>5. ASSUME InsertEvent(h), GoTo(h, "commit")
        PROVE  Same
    BY <2>5 DEF Same, InsertEvent, GoTo, Locks, TypeInv, TypeOK
  <2>6. Same
    BY <1>8, <2>1, <2>2, <2>3, <2>4, <2>5 DEF Handle, Lost, _assert_manager_access, InsertEvent
  <2> QED
    BY <1>1, <1>6, <2>6
<1> QED
  BY <1>1, <1>7, <1>8

\* The commit of a call: its row and its event appear together.
LEMMA CommitWrites ==
    ASSUME TypeInv, LockInv, NEW h \in Calls, Commit(h)
    PROVE  \E r \in Requests, e \in Events :
               /\ e.of = h /\ events' = [events EXCEPT ![r.task] = @ \cup {e}]
               /\ r.task \in Tasks /\ pc[h] = "commit" /\ pc'[h] = "end"
               /\ \A row : Step(row, e) = Step(row, r)
               /\ \A t \in Tasks : Row(t)' = IF t = r.task THEN Step(Row(t), r) ELSE Row(t)
               /\ LockInv'
<1>1. PICK r \in Requests : r = call[h]
  BY DEF Commit, TypeInv, CallInv
<1> DEFINE e == [door |-> r.door, op |-> r.op, by |-> r.by, text |-> r.text, of |-> h]
           k == r.task
<1>2. /\ internal' = IF WritesState(r) THEN [internal EXCEPT ![k] = draft[h]] ELSE internal
      /\ events' = [events EXCEPT ![k] = @ \cup {e}]
      /\ pc[h] = "commit" /\ End(h)
  BY <1>1 DEF Commit
<1>3. /\ e \in Events /\ k \in Tasks /\ e.of = h
      /\ \A row : Step(row, e) = Step(row, r)
      /\ ~WritesState(r) => \A row : Step(row, r) = row
  BY RequestTypes DEF Events, Step, Accepted, Closed, WritesState
<1> HIDE DEF e, k
<1>4. \A g \in Calls \ {h} : pc'[g] = pc[g] /\ call'[g] = call[g] /\ draft'[g] = draft[g]
  BY <1>2 DEF End, TypeInv, TypeOK
<1>5. ~Locks(h)' /\ (WritesState(r) => Locks(h)) /\ pc'[h] = "end"
  BY <1>1, <1>2 DEF Locks, End, TypeInv, TypeOK
<1>6. \A g \in Calls \ {h} : Locks(g)' <=> Locks(g)
  BY <1>4 DEF Locks
<1>7. ASSUME NEW t \in Tasks, t # k
      PROVE  Row(t)' = Row(t)
  BY <1>2, <1>7 DEF Row, TypeInv, TypeOK
<1>8. Row(k)' = Step(Row(k), r)
  <2>1. CASE WritesState(r)
    <3>1. draft[h] = Step(Row(k), r)
      BY <1>1, <1>3, <1>5, <2>1 DEF LockInv, k
    <3>2. internal'[k] = draft[h]
      BY <1>2, <1>3, <2>1 DEF TypeInv, TypeOK
    <3>3. Row(k) \in Rows
      BY <1>3, RowTyped DEF TypeInv
    <3>4. Step(Row(k), r) \in Rows
      BY <3>3, DraftTyped DEF Step
    <3> QED
      BY <3>1, <3>2, <3>4, NotNoRow DEF Row
  <2>2. CASE ~WritesState(r)
    <3>1. internal' = internal
      BY <1>2, <2>2
    <3> QED
      BY <1>3, <2>2, <3>1 DEF Row
  <2> QED
    BY <2>1, <2>2
<1>9. LockInv'
  <2>1. ASSUME NEW g \in Calls, Locks(g)'
        PROVE  g # h /\ Locks(g) /\ call'[g] = call[g] /\ draft'[g] = draft[g]
    BY <1>4, <1>5, <1>6, <2>1
  <2>2. ASSUME NEW f \in Calls, NEW g \in Calls, Locks(f)', Locks(g)', call'[f].task = call'[g].task
        PROVE  f = g
    BY <2>1, <2>2 DEF LockInv
  <2>3. ASSUME NEW g \in Calls, NEW t \in Tasks, Locks(g)', call'[g].task = t
        PROVE  draft'[g] = Step(Row(t)', call'[g])
    <3>1. g # h /\ Locks(g) /\ call'[g] = call[g] /\ draft'[g] = draft[g] /\ call[g].task = t
      BY <2>1, <2>3
    <3>2. Row(t)' = Row(t)
      <4>1. CASE t # k
        BY <1>7, <4>1
      <4>2. CASE t = k
        <5>1. ~WritesState(r)
          BY <1>1, <1>5, <3>1, <4>2 DEF LockInv, k
        <5> QED
          BY <1>2, <5>1 DEF Row
      <4> QED
        BY <4>1, <4>2
    <3> QED
      BY <3>1, <3>2 DEF LockInv
  <2> QED
    BY <2>2, <2>3 DEF LockInv
<1> QED
  <2>1. /\ e \in Events /\ e.of = h /\ events' = [events EXCEPT ![r.task] = @ \cup {e}]
        /\ r.task \in Tasks /\ pc[h] = "commit" /\ pc'[h] = "end"
        /\ \A row : Step(row, e) = Step(row, r)
        /\ \A t \in Tasks : Row(t)' = IF t = r.task THEN Step(Row(t), r) ELSE Row(t)
    BY <1>2, <1>3, <1>5, <1>7, <1>8 DEF k
  <2> QED
    BY <1>9, <2>1

-----------------------------------------------------------------------------
(* The log as an audit trail.                                              *)

\* A call that is over stays so.
LEMMA EndedStays ==
    ASSUME TypeInv, [Next]_vars, NEW h \in Calls, pc[h] = "end"
    PROVE  pc'[h] = "end"
<1>1. pc \in [Calls -> {"idle", "check", "write", "event", "commit", "end"}]
  BY DEF TypeInv, TypeOK
<1>2. ASSUME NEW g \in Calls, (\E r \in Requests : Receive(g, r)) \/ Handle(g) \/ Lost(g)
      PROVE  pc'[h] = "end"
  BY <1>1, <1>2
  DEF Receive, Handle, Lost, _assert_manager_access, WriteState, WriteComment, InsertEvent, Commit, GoTo, End
<1>3. ASSUME NEW t \in Tasks, ack(t) \/ visit(t) \/ add_task_comment(t) \/ WorkStep(t)
      PROVE  UNCHANGED pc
  BY <1>3, WorkElsewhere DEF ack, visit, Touch, add_task_comment, callVars
<1>4. ASSUME NEW s \in Stores, NEW m \in Managers \cup {Nobody}, assign_store(s, m)
      PROVE  UNCHANGED pc
  BY <1>4 DEF assign_store, callVars
<1>5. CASE UNCHANGED callVars
  BY <1>5 DEF callVars
<1> QED
  BY <1>2, <1>3, <1>4, <1>5 DEF Next, WorkStep, vars

\* A step that is no commit logs nothing.
LEMMA OnlyCommitsLog ==
    ASSUME TypeInv, [Next]_vars, \A h \in Calls : ~Commit(h)
    PROVE  events' = events
<1>1. ASSUME NEW h \in Calls, (\E r \in Requests : Receive(h, r)) \/ Handle(h) \/ Lost(h)
      PROVE  UNCHANGED events
  BY <1>1 DEF Receive, Handle, Lost, _assert_manager_access, WriteState, WriteComment, InsertEvent, storeVars
<1>2. ASSUME NEW t \in Tasks, ack(t) \/ visit(t) \/ add_task_comment(t) \/ WorkStep(t)
      PROVE  UNCHANGED events
  BY <1>2, WorkElsewhere DEF ack, visit, Touch, add_task_comment
<1>3. ASSUME NEW s \in Stores, NEW m \in Managers \cup {Nobody}, assign_store(s, m)
      PROVE  UNCHANGED events
  BY <1>3 DEF assign_store
<1>4. CASE UNCHANGED storeVars
  BY <1>4 DEF storeVars
<1> QED
  BY <1>1, <1>2, <1>3, <1>4 DEF Next, WorkStep, vars

LEMMA EventsName ==
    ASSUME TypeInv, NEW t \in Tasks, NEW e \in events[t]
    PROVE  e.of \in Calls /\ e \in Events
BY DEF TypeInv, TypeOK, Events

\* A call that has not yet begun its transaction notes what is committed; the others
\* keep what they noted.
LEMMA BeforeSteps ==
    ASSUME TypeInv, [Next]_vars, NEW g \in Calls
    PROVE  before'[g] = before[g] \/ (pc[g] = "check" /\ before'[g] = Committed)
<1>1. before \in [Calls -> SUBSET Calls]
  BY DEF TypeInv, TypeOK
<1>2. ASSUME NEW h \in Calls, _assert_manager_access(h)
      PROVE  before'[g] = before[g] \/ (pc[g] = "check" /\ before'[g] = Committed)
  BY <1>1, <1>2 DEF _assert_manager_access, End
<1>3. ASSUME NEW h \in Calls, (\E r \in Requests : Receive(h, r)) \/ Handle(h) \/ Lost(h),
             ~_assert_manager_access(h)
      PROVE  UNCHANGED before
  BY <1>3 DEF Receive, Handle, Lost, WriteState, WriteComment, InsertEvent, Commit, GoTo, End
<1>4. ASSUME NEW t \in Tasks, ack(t) \/ visit(t) \/ add_task_comment(t) \/ WorkStep(t)
      PROVE  UNCHANGED before
  BY <1>4, WorkElsewhere DEF ack, visit, Touch, add_task_comment, callVars
<1>5. ASSUME NEW s \in Stores, NEW m \in Managers \cup {Nobody}, assign_store(s, m)
      PROVE  UNCHANGED before
  BY <1>5 DEF assign_store, callVars
<1>6. CASE UNCHANGED callVars
  BY <1>6 DEF callVars
<1> QED
  BY <1>2, <1>3, <1>4, <1>5, <1>6 DEF Next, WorkStep, vars

LEMMA BeforeKept ==
    ASSUME TypeInv, OneEventPerCall, BeforeInv, [Next]_vars
    PROVE  BeforeInv'
<1> SUFFICES ASSUME NEW g \in Calls, NEW h \in before'[g]
             PROVE  pc'[h] = "end"
  BY DEF BeforeInv
<1>1. CASE h \in before[g]
  <2>1. h \in Calls
    BY <1>1 DEF TypeInv, TypeOK
  <2> QED
    BY <1>1, <2>1, EndedStays DEF BeforeInv
<1>2. CASE h \in Committed
  <2>1. PICK t \in Tasks : \E e \in events[t] : h = e.of
    BY <1>2 DEF Committed
  <2>2. h \in Calls /\ pc[h] = "end"
    BY <2>1, EventsName DEF OneEventPerCall
  <2> QED
    BY <2>2, EndedStays
<1> QED
  BY <1>1, <1>2, BeforeSteps

LEMMA OnceKept ==
    ASSUME TypeInv, LockInv, OneEventPerCall, [Next]_vars
    PROVE  OneEventPerCall'
<1>1. CASE UNCHANGED events
  <2>1. \A t \in Tasks : \A e \in events[t] : pc'[e.of] = "end"
    BY EventsName, EndedStays DEF OneEventPerCall
  <2> QED
    BY <1>1, <2>1 DEF OneEventPerCall
<1>2. ASSUME NEW h \in Calls, Commit(h)
      PROVE  OneEventPerCall'
  <2>1. PICK r \in Requests, e \in Events :
            /\ e.of = h /\ events' = [events EXCEPT ![r.task] = @ \cup {e}]
            /\ r.task \in Tasks /\ pc[h] = "commit" /\ pc'[h] = "end"
    BY <1>2, CommitWrites
  <2>2. \A t \in Tasks : \A f \in events'[t] : f \in events[t] \/ (t = r.task /\ f = e)
    BY <2>1 DEF TypeInv, TypeOK
  <2>3. \A t \in Tasks : \A f \in events[t] : f.of # h /\ pc'[f.of] = "end"
    BY <2>1, EventsName, EndedStays DEF OneEventPerCall
  <2>4. ASSUME NEW t \in Tasks, NEW u \in Tasks, NEW f \in events'[t], NEW g \in events'[u], f.of = g.of
        PROVE  t = u /\ f = g
    BY <2>1, <2>2, <2>3, <2>4 DEF OneEventPerCall
  <2>5. \A t \in Tasks : \A f \in events'[t] : pc'[f.of] = "end"
    BY <2>1, <2>2, <2>3
  <2> QED
    BY <2>4, <2>5 DEF OneEventPerCall
<1> QED
  BY <1>1, <1>2, OnlyCommitsLog

-----------------------------------------------------------------------------
(* The log as the history of the state.                                    *)

\* The calls whose events are logged began long ago.
LEMMA LatestStay ==
    ASSUME TypeInv, OneEventPerCall, [Next]_vars, NEW t \in Tasks, NEW e \in events[t]
    PROVE  before'[e.of] = before[e.of]
<1>1. e.of \in Calls /\ pc[e.of] = "end"
  BY EventsName DEF OneEventPerCall
<1> QED
  BY <1>1, BeforeSteps

\* A step that changes neither the log of a task nor its row.
LEMMA FollowsStill ==
    ASSUME TypeInv, OneEventPerCall, StateFollowsItsLog, [Next]_vars,
           NEW t \in Tasks, NEW c \in DOMAIN NewRow,
           Setting(t, c)' = Setting(t, c), Row(t)'[c] = Row(t)[c]
    PROVE  \/ Setting(t, c)' = {} /\ Row(t)'[c] = NewRow[c]
           \/ \E e \in Latest(Setting(t, c))' : Row(t)'[c] = Step(NewRow, e)[c]
<1>1. CASE Setting(t, c) = {} /\ Row(t)[c] = NewRow[c]
  BY <1>1
<1>2. CASE \E e \in Latest(Setting(t, c)) : Row(t)[c] = Step(NewRow, e)[c]
  <2>1. PICK e \in Setting(t, c) :
            /\ \A f \in Setting(t, c) : e.of \notin before[f.of]
            /\ Row(t)[c] = Step(NewRow, e)[c]
    BY <1>2 DEF Latest
  <2>2. \A f \in Setting(t, c) : before'[f.of] = before[f.of]
    BY LatestStay DEF Setting
  <2>3. e \in Latest(Setting(t, c))'
    BY <2>1, <2>2 DEF Latest
  <2> QED
    BY <2>1, <2>3
<1> QED
  BY <1>1, <1>2 DEF StateFollowsItsLog

LEMMA CommitFollows ==
    ASSUME TypeInv, LockInv, OneEventPerCall, BeforeInv, StateFollowsItsLog, [Next]_vars,
           NEW h \in Calls, Commit(h)
    PROVE  LockInv' /\ StateFollowsItsLog'
<1>1. PICK r \in Requests, e \in Events :
          /\ e.of = h /\ events' = [events EXCEPT ![r.task] = @ \cup {e}]
          /\ r.task \in Tasks /\ pc[h] = "commit" /\ pc'[h] = "end"
          /\ \A row : Step(row, e) = Step(row, r)
          /\ \A t \in Tasks : Row(t)' = IF t = r.task THEN Step(Row(t), r) ELSE Row(t)
          /\ LockInv'
  BY CommitWrites
<1>2. ASSUME NEW t \in Tasks, NEW c \in DOMAIN NewRow
      PROVE  \/ Setting(t, c)' = {} /\ Row(t)'[c] = NewRow[c]
             \/ \E f \in Latest(Setting(t, c))' : Row(t)'[c] = Step(NewRow, f)[c]
  <2>1. Row(t) \in Rows
    BY RowTyped DEF TypeInv
  <2>2. events'[t] = IF t = r.task THEN events[t] \cup {e} ELSE events[t]
    BY <1>1 DEF TypeInv, TypeOK
  <2>3. Sets(e, c) <=> Sets(r, c)
    BY <1>1 DEF Sets
  <2>4. CASE t # r.task
    <3>1. Setting(t, c)' = Setting(t, c) /\ Row(t)' = Row(t)
      BY <1>1, <2>2, <2>4 DEF Setting, Sets
    <3> QED
      BY <3>1, FollowsStill
  <2>5. CASE t = r.task /\ ~Sets(r, c)
    <3>1. Row(t)' = Step(Row(t), r)
      BY <1>1, <2>5
    <3>2. Row(t)'[c] = Row(t)[c]
      BY <2>1, <2>5, <3>1, StepColumn
    <3>3. Setting(t, c)' = Setting(t, c)
      BY <2>2, <2>3, <2>5 DEF Setting, Sets
    <3> QED
      BY <3>2, <3>3, FollowsStill
  <2>6. CASE t = r.task /\ Sets(r, c)
    <3>1. Row(t)' = Step(Row(t), r)
      BY <1>1, <2>6
    <3>2. Row(t)'[c] = Step(NewRow, e)[c]
      BY <1>1, <2>1, <2>6, <3>1, StepColumn
    <3>3. e \in Setting(t, c)'
      BY <2>2, <2>3, <2>6 DEF Setting, Sets
    <3>4. ASSUME NEW f \in Setting(t, c)'
          PROVE  h \notin before'[f.of]
      <4>1. before' = before
        BY DEF Commit, End
      <4>2. f.of \in Calls
        BY <1>1, <2>2, EventsName DEF Setting
      <4> QED
        BY <1>1, <4>1, <4>2 DEF BeforeInv
    <3>5. e \in Latest(Setting(t, c))'
      BY <1>1, <3>3, <3>4 DEF Latest
    <3> QED
      BY <3>2, <3>5
  <2> QED
    BY <2>4, <2>5, <2>6
<1> QED
  BY <1>1, <1>2 DEF StateFollowsItsLog

\* Every step keeps the history.
LEMMA HistoryKept ==
    ASSUME TypeInv, LockInv, OneEventPerCall, BeforeInv, StateFollowsItsLog, [Next]_vars
    PROVE  LockInv' /\ StateFollowsItsLog'
<1>1. ASSUME \A t \in Tasks : Row(t)' = Row(t), UNCHANGED events
      PROVE  StateFollowsItsLog'
  <2>1. \A t \in Tasks, c \in DOMAIN NewRow : Setting(t, c)' = Setting(t, c)
    BY <1>1 DEF Setting, Sets
  <2>2. ASSUME NEW t \in Tasks, NEW c \in DOMAIN NewRow
        PROVE  \/ Setting(t, c)' = {} /\ Row(t)'[c] = NewRow[c]
               \/ \E e \in Latest(Setting(t, c))' : Row(t)'[c] = Step(NewRow, e)[c]
    BY <1>1, <2>1, FollowsStill
  <2> QED
    BY <2>2 DEF StateFollowsItsLog
<1>2. ASSUME \A t \in Tasks : Row(t)' = Row(t), UNCHANGED callVars
      PROVE  LockInv'
  <2>1. \A h \in Calls : Locks(h)' <=> Locks(h)
    BY <1>2 DEF Locks, callVars
  <2>2. pc' = pc /\ call' = call /\ draft' = draft
    BY <1>2 DEF callVars
  <2> QED
    BY <1>2, <2>1, <2>2 DEF LockInv
<1>3. ASSUME NEW h \in Calls, (\E r \in Requests : Receive(h, r)) \/ Handle(h) \/ Lost(h)
      PROVE  LockInv' /\ StateFollowsItsLog'
  <2>1. CASE Commit(h)
    BY <2>1, CommitFollows
  <2>2. CASE ~Commit(h)
    <3>1. LockInv' /\ UNCHANGED <<internal, events>>
      BY <1>3, <2>2, LocksBeforeCommit
    <3>2. \A t \in Tasks : Row(t)' = Row(t)
      BY <3>1 DEF Row
    <3> QED
      BY <1>1, <3>1, <3>2
  <2> QED
    BY <2>1, <2>2
<1>4. ASSUME NEW k \in Tasks, Touch(k)
      PROVE  LockInv' /\ StateFollowsItsLog'
  <2>1. Row(k) \in Rows
    BY RowTyped DEF TypeInv
  <2>2. \A t \in Tasks : internal'[t] = IF t = k THEN Row(k) ELSE internal[t]
    BY <1>4 DEF Touch, TypeInv, TypeOK
  <2>3. \A t \in Tasks : Row(t)' = Row(t)
    BY <2>1, <2>2, NotNoRow DEF Row
  <2> QED
    BY <1>1, <1>2, <1>4, <2>3 DEF Touch
<1>5. ASSUME UNCHANGED <<internal, events, callVars>>
      PROVE  LockInv' /\ StateFollowsItsLog'
  <2>1. \A t \in Tasks : Row(t)' = Row(t)
    BY <1>5 DEF Row
  <2> QED
    BY <1>1, <1>2, <1>5, <2>1
<1>6. ASSUME NEW t \in Tasks, add_task_comment(t) \/ WorkStep(t)
      PROVE  UNCHANGED <<internal, events, callVars>>
  BY <1>6, WorkElsewhere DEF add_task_comment
<1>7. ASSUME NEW s \in Stores, NEW m \in Managers \cup {Nobody}, assign_store(s, m)
      PROVE  UNCHANGED <<internal, events, callVars>>
  BY <1>7 DEF assign_store
<1>8. CASE UNCHANGED <<storeVars, callVars>>
  BY <1>5, <1>8 DEF storeVars
<1> QED
  BY <1>3, <1>4, <1>5, <1>6, <1>7, <1>8 DEF Next, WorkStep, ack, visit, vars

-----------------------------------------------------------------------------
(* The theorems.                                                           *)

LEMMA WorkflowStarts == Init => WorkflowInv
<1> SUFFICES ASSUME Init
             PROVE  WorkflowInv
  OBVIOUS
<1>1. TypeOK
  <2>1. [t \in Tasks |-> NewColumns] \in [Tasks -> Columns]
    BY DEF NewColumns, Columns, Allowed
  <2>2. columns \in [Tasks -> [status : Allowed, owner : Managers \cup {Nobody}, completed : BOOLEAN]]
    BY <2>1 DEF Init, Columns
  <2> QED
    BY <2>2 DEF Init, TypeOK
<1>2. CallInv
  BY DEF Init, CallInv
<1>3. CommentsAreLogged
  BY DEF Init, CommentsAreLogged
<1>4. LockInv
  BY DEF Init, LockInv, Locks
<1>5. OneEventPerCall /\ BeforeInv
  BY DEF Init, OneEventPerCall, BeforeInv
<1>6. StateFollowsItsLog
  BY DEF Init, StateFollowsItsLog, Setting, Row
<1> QED
  BY <1>1, <1>2, <1>3, <1>4, <1>5, <1>6 DEF WorkflowInv, TypeInv

LEMMA WorkflowInvariant == Spec => []WorkflowInv
<1>1. WorkflowInv /\ [Next]_vars => WorkflowInv'
  BY TypeKept, CommentsKept, OnceKept, BeforeKept, HistoryKept DEF WorkflowInv
<1> QED
  BY WorkflowStarts, <1>1, PTL DEF Spec

\* The tables of the workflow keep their types.
THEOREM WorkflowTypeCorrect == Spec => []TypeOK
<1>1. WorkflowInv => TypeOK
  BY DEF WorkflowInv, TypeInv
<1> QED
  BY <1>1, WorkflowInvariant, PTL

\* A comment of a mobile or desktop call is stored exactly when its event is, for any
\* number of calls that overlap, fail and are rolled back.
THEOREM CommentsAlwaysLogged == Spec => []CommentsAreLogged
<1>1. WorkflowInv => CommentsAreLogged
  BY DEF WorkflowInv
<1> QED
  BY <1>1, WorkflowInvariant, PTL

\* Each column of a task's row is what an event of its log wrote after whose commit no
\* call began that wrote it too, however calls of both doors overlap, wait for the row's
\* lock, fail and are rolled back.
THEOREM StateFollowsLog == Spec => []StateFollowsItsLog
<1>1. WorkflowInv => StateFollowsItsLog
  BY DEF WorkflowInv
<1> QED
  BY <1>1, WorkflowInvariant, PTL

\* No handler takes a task away from its owner.
THEOREM OwnerStaysPinned == Spec => OwnerIsPinned
<1>1. WorkflowInv /\ [Next]_vars =>
        [\A t \in Tasks : columns[t].owner # Nobody => columns'[t].owner = columns[t].owner]_vars
  BY PinnedStep DEF WorkflowInv, TypeInv
<1> QED
  BY <1>1, WorkflowInvariant, PTL DEF Spec, OwnerIsPinned

\* However calls overlap and fail, each is logged once at most and only when it is over.
THEOREM CallsAreLoggedOnce == Spec => []OneEventPerCall
<1>1. WorkflowInv => OneEventPerCall
  BY DEF WorkflowInv
<1> QED
  BY <1>1, WorkflowInvariant, PTL

\* What was logged stays: no handler takes an event out or changes one.
LogOnlyGrows == [][\A t \in Tasks : events[t] \subseteq events'[t]]_vars

\* The log of a task is only ever added to.
THEOREM LogIsAddedTo == Spec => LogOnlyGrows
<1>1. WorkflowInv /\ [Next]_vars => [\A t \in Tasks : events[t] \subseteq events'[t]]_vars
  <2> SUFFICES ASSUME WorkflowInv, [Next]_vars
               PROVE  \A t \in Tasks : events[t] \subseteq events'[t]
    OBVIOUS
  <2>1. ASSUME NEW h \in Calls, Commit(h)
        PROVE  \A t \in Tasks : events[t] \subseteq events'[t]
    <3>1. PICK r \in Requests, e \in Events : events' = [events EXCEPT ![r.task] = @ \cup {e}]
      BY <2>1, CommitWrites DEF WorkflowInv
    <3> QED
      BY <3>1 DEF WorkflowInv, TypeInv, TypeOK
  <2> QED
    BY <2>1, OnlyCommitsLog DEF WorkflowInv
<1> QED
  BY <1>1, WorkflowInvariant, PTL DEF Spec, LogOnlyGrows
=============================================================================
