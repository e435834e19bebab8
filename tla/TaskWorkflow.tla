---------------------------- MODULE TaskWorkflow ----------------------------
(***************************************************************************)
(* What becomes of a stored task.  Two records of it live side by side:    *)
(*                                                                         *)
(*  - task_internal_state with task_comments and task_events, written by   *)
(*    the mobile endpoints (mobile_task_workflow_service.py), by the       *)
(*    desktop service (tasks_ui_service.py) and by ops_actions.py;         *)
(*  - columns of tasks, written by ops_tasks_workspace.py and              *)
(*    manager_tasks.py.                                                    *)
(*                                                                         *)
(* The mobile and desktop handlers are transactions of several statements; *)
(* the upsert of a task's row locks it until the commit, but all they      *)
(* write is dated by now(), the moment the transaction began.  So the log  *)
(* is not in the order in which the calls took effect, and is modelled as  *)
(* a set.  The other handlers are one statement and its commit.            *)
(***************************************************************************)
EXTENDS Integers

CONSTANTS
    Calls,        \* mobile and desktop calls
    Requests,     \* what a call may ask for
    Tasks,
    Stores,
    StoreOf,      \* StoreOf[t]: the store of task t
    Managers,
    Dispatcher,   \* an actor with the role dispatcher
    Nobody,       \* NULL where a user is expected
    Awkward,      \* comments with a line break or a backslash
    Texts,        \* other comments
    NoText        \* NULL where a comment is expected

ASSUME WorkflowAssumption ==
    /\ "remark" \notin Calls
    /\ StoreOf \in [Tasks -> Stores]
    /\ Dispatcher \notin Managers /\ Nobody \notin Managers \cup {Dispatcher}
    /\ Awkward \cap Texts = {} /\ NoText \notin Awkward \cup Texts
    /\ Requests \subseteq [door : {"mobile", "desk"}, op : {"accept", "comment", "close"},
                           task : Tasks, by : Managers \cup {Dispatcher, Nobody},
                           text : Awkward \cup Texts \cup {NoText}]
    /\ \A r \in Requests : (r.door = "desk") <=> (r.by = Nobody)

Actors == Managers \cup {Dispatcher, Nobody}

VARIABLES
    assigned,     \* stores.assigned_user_id
    internal,     \* task_internal_state, one row per task or NoRow
    comments,     \* task_comments: for each task the calls that wrote one
    events,       \* task_events: for each task the events that are committed
    columns,      \* internal_status, assigned_user_id and completed_at of tasks
    pc,
    call,         \* the request a call works on
    draft,        \* the row of task_internal_state it has written, not committed
    before        \* observation: the calls that were committed when its transaction began

storeVars == <<assigned, internal, comments, events, columns>>
callVars  == <<pc, call, draft, before>>
vars      == <<storeVars, callVars>>

-----------------------------------------------------------------------------
NoRow  == [status |-> "none"]
NewRow == [status |-> "new", accepted |-> FALSE, acceptedBy |-> Nobody, closed |-> FALSE,
           closedBy |-> Nobody, text |-> NoText]
Rows   == [status : {"new", "accepted", "resolved"}, accepted : BOOLEAN, acceptedBy : Actors,
           closed : BOOLEAN, closedBy : Actors, text : Texts \cup Awkward \cup {NoText}]
NewColumns == [status |-> "new", owner |-> Nobody, completed |-> FALSE]

Coalesce(x, y) == IF x # Nobody THEN x ELSE y
ManagerOf(t)   == assigned[StoreOf[t]]
Row(t)         == IF internal[t] = NoRow THEN NewRow ELSE internal[t]

WritesState(r) == r.op \in {"accept", "close"}
RowLocked(t) == \E h \in Calls :
    pc[h] \in {"event", "commit"} /\ WritesState(call[h]) /\ call[h].task = t

Committed == {e.of : e \in UNION {events[t] : t \in Tasks}}

NoRequest == [door |-> "none"]

Init ==
    /\ assigned \in [Stores -> Managers \cup {Nobody}]
    /\ internal = [t \in Tasks |-> NoRow]
    /\ comments = [t \in Tasks |-> {}]
    /\ events = [t \in Tasks |-> {}]
    /\ columns = [t \in Tasks |-> NewColumns]
    /\ pc = [h \in Calls |-> "idle"]
    /\ call = [h \in Calls |-> NoRequest]
    /\ draft = [h \in Calls |-> NoRow]
    /\ before = [h \in Calls |-> {}]

-----------------------------------------------------------------------------
(* The mobile and desktop handlers.                                        *)

GoTo(h, step) == pc' = [pc EXCEPT ![h] = step] /\ UNCHANGED <<call, draft, before>>

\* The transaction is over; if it did not commit, nothing of it remains.
End(h) ==
    /\ pc' = [pc EXCEPT ![h] = "end"]
    /\ call' = [call EXCEPT ![h] = NoRequest]
    /\ draft' = [draft EXCEPT ![h] = NoRow]
    /\ UNCHANGED before

Receive(h, r) ==
    /\ pc[h] = "idle"
    /\ pc' = [pc EXCEPT ![h] = "check"]
    /\ call' = [call EXCEPT ![h] = r]
    /\ UNCHANGED <<storeVars, draft, before>>

\* A mobile manager must have the store now; the desktop service only looks whether
\* the task exists.  With this statement the transaction begins, a dispatcher's with
\* the next one, for whose lock it may have to wait.
_assert_manager_access(h) ==
    /\ pc[h] = "check"
    /\ LET r == call[h] IN
       \/ /\ r.by \in {Dispatcher, Nobody} \/ ManagerOf(r.task) = r.by
          /\ pc' = [pc EXCEPT ![h] = "write"]
          /\ before' = [before EXCEPT ![h] = Committed]
          /\ UNCHANGED <<call, draft>>
       \/ r.by \notin {Dispatcher, Nobody} /\ ManagerOf(r.task) # r.by /\ End(h)
    /\ UNCHANGED storeVars

\* accept_task and close_task: the mobile ones name the actor, the desktop ones do not.
Accepted(row, r) ==
    [row EXCEPT !.status = "accepted", !.accepted = TRUE,
                !.acceptedBy = IF r.door = "mobile" THEN r.by ELSE @]
Closed(row, r) ==
    [row EXCEPT !.status = "resolved", !.closed = TRUE,
                !.closedBy = IF r.door = "mobile" THEN r.by ELSE @,
                !.text = IF r.text = NoText THEN @ ELSE r.text]
Step(row, r) ==
    IF r.op = "accept" THEN Accepted(row, r) ELSE IF r.op = "close" THEN Closed(row, r) ELSE row

\* Mutant: the row is read and written without waiting for its lock.
WriteState_unlocked(h) ==
    /\ pc[h] = "write"
    /\ WritesState(call[h])
    /\ draft' = [draft EXCEPT ![h] = Step(Row(call[h].task), call[h])]
    /\ pc' = [pc EXCEPT ![h] = "event"]
    /\ UNCHANGED <<storeVars, call, before>>

\* The upsert sees the row as last committed and keeps it locked.
WriteState(h) ==
    /\ pc[h] = "write"
    /\ WritesState(call[h])
    /\ ~RowLocked(call[h].task)
    /\ draft' = [draft EXCEPT ![h] = Step(Row(call[h].task), call[h])]
    /\ pc' = [pc EXCEPT ![h] = "event"]
    /\ UNCHANGED <<storeVars, call, before>>

WriteComment(h) ==
    /\ pc[h] = "write"
    /\ call[h].op = "comment"
    /\ GoTo(h, "event")
    /\ UNCHANGED storeVars

\* The mobile payload is put together by hand: an awkward comment makes it a text
\* that is no JSON, the cast fails and the transaction is rolled back.
PayloadIsJson(r) == r.door = "desk" \/ r.op = "accept" \/ r.text \notin Awkward

\* Mutant: the comment of a payload that cannot be cast is committed all the same.
InsertEvent_keeps_comment(h) ==
    /\ pc[h] = "event"
    /\ IF PayloadIsJson(call[h])
       THEN GoTo(h, "commit") /\ UNCHANGED comments
       ELSE /\ End(h)
            /\ comments' = [comments EXCEPT ![call[h].task] =
                                IF call[h].op = "comment" THEN @ \cup {h} ELSE @]
    /\ UNCHANGED <<assigned, internal, events, columns>>

InsertEvent(h) ==
    /\ pc[h] = "event"
    /\ IF PayloadIsJson(call[h]) THEN GoTo(h, "commit") ELSE End(h)
    /\ UNCHANGED storeVars

\* The desktop close adds its comment to task_comments, the mobile one does not.
AddsComment(r) == r.op = "comment" \/ (r.door = "desk" /\ r.op = "close" /\ r.text # NoText)

Commit(h) ==
    /\ pc[h] = "commit"
    /\ LET r == call[h]
           t == r.task IN
       /\ internal' = IF WritesState(r) THEN [internal EXCEPT ![t] = draft[h]] ELSE internal
       /\ comments' = IF AddsComment(r) THEN [comments EXCEPT ![t] = @ \cup {h}] ELSE comments
       /\ events' = [events EXCEPT ![t] =
                        @ \cup {[door |-> r.door, op |-> r.op, by |-> r.by, text |-> r.text, of |-> h]}]
    /\ End(h)
    /\ UNCHANGED <<assigned, columns>>

\* The connection is lost, or the process dies: PostgreSQL rolls back.
Lost(h) ==
    /\ pc[h] \notin {"idle", "end"}
    /\ End(h)
    /\ UNCHANGED storeVars

-----------------------------------------------------------------------------
(* ops_actions.py: one upsert, which waits for the row's lock, and its     *)
(* commit.  It writes ack_at or planned_visit_at, which are not modelled:  *)
(* what matters is that the row may be made here.                          *)

Touch(t) ==
    /\ ~RowLocked(t)
    /\ internal' = [internal EXCEPT ![t] = Row(t)]
    /\ UNCHANGED <<assigned, comments, events, columns, callVars>>
ack(t) == Touch(t)
visit(t) == Touch(t)

\* The comment endpoints of task_single.py and mobile_manager_service.py insert a
\* comment and no event.
add_task_comment(t) ==
    /\ comments' = [comments EXCEPT ![t] = @ \cup {"remark"}]
    /\ UNCHANGED <<assigned, internal, events, columns, callVars>>

-----------------------------------------------------------------------------
(* ops_tasks_workspace.py and manager_tasks.py (whose router main.py does  *)
(* not include): one UPDATE of tasks.  accepted_at is not modelled.        *)

Allowed == {"new", "in_progress", "waiting", "done"}
ManagerAllowed == {"in_progress", "waiting", "done"}

Work(t, row) ==
    /\ columns' = [columns EXCEPT ![t] = row]
    /\ UNCHANGED <<assigned, internal, comments, events, callVars>>

\* Mutant: the owner is taken from the store each time.
claim_task_auto_again(t) ==
    Work(t, [columns[t] EXCEPT !.owner = Coalesce(ManagerOf(t), @),
                               !.status = IF @ = "done" THEN @ ELSE "in_progress"])

claim_task_auto(t) ==
    Work(t, [columns[t] EXCEPT !.owner = Coalesce(@, ManagerOf(t)),
                               !.status = IF @ = "done" THEN @ ELSE "in_progress"])

\* Mutant: the status is not checked, and the screen of the other record sends its own.
set_work_status_unchecked(t, s) ==
    LET status == IF s = "done" THEN "resolved" ELSE s IN
    Work(t, [status |-> status, owner |-> Coalesce(columns[t].owner, ManagerOf(t)),
             completed |-> s = "done"])

set_work_status(t, s) ==
    /\ s \in Allowed
    /\ Work(t, [status |-> s, owner |-> Coalesce(columns[t].owner, ManagerOf(t)),
                completed |-> s = "done"])

\* A manager reaches a task he owns, or one nobody owns of a store he has.
Reaches(m, t) == Coalesce(columns[t].owner, ManagerOf(t)) = m

\* completed_at stays when a task that was done is claimed again.
manager_claim_task(t, m) ==
    /\ Reaches(m, t)
    /\ Work(t, [columns[t] EXCEPT !.owner = m, !.status = "in_progress"])

manager_set_status(t, m, s) ==
    /\ s \in ManagerAllowed
    /\ Reaches(m, t)
    /\ Work(t, [status |-> s, owner |-> m, completed |-> s = "done"])

\* The dispatcher gives a store to another manager, or to none.
assign_store(s, m) ==
    /\ assigned' = [assigned EXCEPT ![s] = m]
    /\ UNCHANGED <<internal, comments, events, columns, callVars>>

-----------------------------------------------------------------------------
Handle(h) ==
    \/ _assert_manager_access(h) \/ WriteState(h) \/ WriteComment(h)
    \/ InsertEvent(h) \/ Commit(h)

Next ==
    \/ \E h \in Calls : (\E r \in Requests : Receive(h, r)) \/ Handle(h) \/ Lost(h)
    \/ \E t \in Tasks : ack(t) \/ visit(t) \/ add_task_comment(t) \/ claim_task_auto(t)
    \/ \E t \in Tasks, s \in Allowed : set_work_status(t, s)
    \/ \E t \in Tasks, m \in Managers :
            manager_claim_task(t, m) \/ \E s \in Allowed : manager_set_status(t, m, s)
    \/ \E s \in Stores, m \in Managers \cup {Nobody} : assign_store(s, m)

Spec == Init /\ [][Next]_vars

-----------------------------------------------------------------------------
(* Properties.                                                             *)

\* The tables hold what their columns name, a call is at one of its steps.
TypeOK ==
    /\ assigned \in [Stores -> Managers \cup {Nobody}]
    /\ internal \in [Tasks -> Rows \cup {NoRow}]
    /\ comments \in [Tasks -> SUBSET (Calls \cup {"remark"})]
    /\ events \in [Tasks -> SUBSET [door : {"mobile", "desk"}, op : {"accept", "comment", "close"},
                                    by : Actors, text : Texts \cup Awkward \cup {NoText}, of : Calls]]
    /\ columns \in [Tasks -> [status : Allowed, owner : Managers \cup {Nobody}, completed : BOOLEAN]]
    /\ pc \in [Calls -> {"idle", "check", "write", "event", "commit", "end"}]
    /\ call \in [Calls -> Requests \cup {NoRequest}]
    /\ draft \in [Calls -> Rows \cup {NoRow}]
    /\ before \in [Calls -> SUBSET Calls]

\* The events of a task that set column c of its row, and those among them that may
\* have been the last to take effect: no other began after their commit.
Sets(e, c)    == Step(NewRow, e)[c] # NewRow[c]
Setting(t, c) == {e \in events[t] : Sets(e, c)}
Latest(S)     == {e \in S : \A f \in S : e.of \notin before[f.of]}

\* The log is the history of the task's state, although it is not in the order in which
\* the calls took effect: what a column of the row says was written by an event of the
\* log after whose commit no call began that wrote it too, and it is as new if no event
\* writes it.  So no logged call is without effect, no state without its call in the
\* log, and none brings back what it saw before another committed.
StateFollowsItsLog ==
    \A t \in Tasks, c \in DOMAIN NewRow :
        \/ Setting(t, c) = {} /\ Row(t)[c] = NewRow[c]
        \/ \E e \in Latest(Setting(t, c)) : Row(t)[c] = Step(NewRow, e)[c]

\* A comment of a mobile or desktop call is stored exactly when its event is: no
\* comment without a trace, no trace of a comment that was rolled back.
CommentsAreLogged ==
    \A t \in Tasks, h \in Calls :
        h \in comments[t] <=>
            \E e \in events[t] : e.of = h /\ AddsComment(e)

\* A task somebody has started to work on stays his: no later claim, status change or
\* move of the store to another manager gives it away.
OwnerIsPinned ==
    [][\A t \in Tasks : columns[t].owner # Nobody => columns'[t].owner = columns[t].owner]_vars
=============================================================================
