----------------------------- MODULE SlaMonitor -----------------------------
(***************************************************************************)
(* app/jobs/sla_monitor.py: the job that notes an overdue task in          *)
(* task_activity and puts an alert for it into notification_outbox.        *)
(*                                                                         *)
(* A run is one transaction, and nothing keeps two runs apart.             *)
(***************************************************************************)
EXTENDS Integers, FiniteSets

CONSTANTS
    Monitors,     \* runs of the job that may overlap
    Tasks,
    NoTask,
    MaxFaults     \* bound: runs cut short, and (in Dashboards) statements that fail

ASSUME MonitorAssumption == NoTask \notin Tasks /\ MaxFaults \in Nat

VARIABLES
    status,       \* column status of tasks
    overdue,      \* tasks with sla_due_at < now()
    activity,     \* activity[t]: committed rows 'sla_overdue' of task_activity
    alerts,       \* tasks with an alert in notification_outbox, by its dedupe_key
    \* each run
    pc, todo, cur,
    noted, drafted,   \* its rows of task_activity and of notification_outbox, not committed
    faults

taskVars    == <<status, overdue>>
monitorVars == <<activity, alerts, pc, todo, cur, noted, drafted>>

MonitorInit ==
    /\ status = [t \in Tasks |-> "open"]
    /\ overdue = {}
    /\ activity = [t \in Tasks |-> 0]
    /\ alerts = {}
    /\ pc = [m \in Monitors |-> "idle"]
    /\ todo = [m \in Monitors |-> {}]
    /\ cur = [m \in Monitors |-> NoTask]
    /\ noted = [m \in Monitors |-> {}]
    /\ drafted = [m \in Monitors |-> {}]
    /\ faults = 0

-----------------------------------------------------------------------------
(* What becomes of a task: the workflow moves it, the import opens it again  *)
(* with the deadline of the sheet, and time passes.                          *)

SetStatus(t) ==
    /\ \E s \in {"accepted", "resolved"} : status' = [status EXCEPT ![t] = s]
    /\ UNCHANGED overdue

Import(t) ==
    /\ status' = [status EXCEPT ![t] = "open"]
    /\ overdue' \in {overdue \cup {t}, overdue \ {t}}

SlaPasses(t) ==
    /\ overdue' = overdue \cup {t}
    /\ UNCHANGED status

-----------------------------------------------------------------------------
GoTo(m, step) == pc' = [pc EXCEPT ![m] = step]

\* The tasks that are open and overdue now; the rest of the run works from this list.
ListOverdue(m) ==
    /\ pc[m] = "idle"
    /\ todo' = [todo EXCEPT ![m] = {t \in overdue : status[t] = "open"}]
    /\ GoTo(m, "loop")
    /\ UNCHANGED <<activity, alerts, cur, noted, drafted, faults>>

\* A task that was ever noted is skipped, whatever deadline it has now.  The rows
\* another run has not committed are not seen.
CheckActivity(m, t) ==
    /\ pc[m] = "loop"
    /\ t \in todo[m]
    /\ todo' = [todo EXCEPT ![m] = @ \ {t}]
    /\ IF activity[t] > 0
       THEN UNCHANGED <<pc, cur>>
       ELSE GoTo(m, "note") /\ cur' = [cur EXCEPT ![m] = t]
    /\ UNCHANGED <<activity, alerts, noted, drafted, faults>>

InsertActivity(m) ==
    /\ pc[m] = "note"
    /\ noted' = [noted EXCEPT ![m] = @ \cup {cur[m]}]
    /\ GoTo(m, "alert")
    /\ UNCHANGED <<activity, alerts, todo, cur, drafted, faults>>

\* ON CONFLICT DO NOTHING has to know what becomes of another run's row with the
\* same dedupe_key, and waits for its transaction.
WaitsFor(m, o) == o # m /\ pc[m] = "alert" /\ cur[m] \in drafted[o]

\* Mutant: a key that another run holds counts as a conflict at once.
InsertAlert_now(m) ==
    /\ pc[m] = "alert"
    /\ drafted' = [drafted EXCEPT ![m] =
                    @ \cup ({cur[m]} \ (alerts \cup UNION {drafted[o] : o \in Monitors}))]
    /\ cur' = [cur EXCEPT ![m] = NoTask]
    /\ GoTo(m, "loop")
    /\ UNCHANGED <<activity, alerts, todo, noted, faults>>

InsertAlert(m) ==
    /\ pc[m] = "alert"
    /\ \A o \in Monitors : ~WaitsFor(m, o)
    /\ drafted' = [drafted EXCEPT ![m] = @ \cup ({cur[m]} \ alerts)]
    /\ cur' = [cur EXCEPT ![m] = NoTask]
    /\ GoTo(m, "loop")
    /\ UNCHANGED <<activity, alerts, todo, noted, faults>>

Forget(m) ==
    /\ GoTo(m, "idle")
    /\ todo' = [todo EXCEPT ![m] = {}]
    /\ cur' = [cur EXCEPT ![m] = NoTask]
    /\ noted' = [noted EXCEPT ![m] = {}]
    /\ drafted' = [drafted EXCEPT ![m] = {}]

\* The one commit of a run; the job is started again later.
Commit(m) ==
    /\ pc[m] = "loop"
    /\ todo[m] = {}
    /\ activity' = [t \in Tasks |-> activity[t] + (IF t \in noted[m] THEN 1 ELSE 0)]
    /\ alerts' = alerts \cup drafted[m]
    /\ Forget(m)
    /\ UNCHANGED faults

\* Mutant: the rows are taken out of the tables although they never got there.
Rollback_deletes(m) ==
    /\ activity' = [t \in Tasks |-> activity[t] - (IF t \in noted[m] THEN 1 ELSE 0)]
    /\ Forget(m)
    /\ UNCHANGED alerts

Rollback(m) == Forget(m) /\ UNCHANGED <<activity, alerts>>

\* The run dies, or loses its connection, or a statement of it fails.
RunFails(m) ==
    /\ pc[m] # "idle"
    /\ faults < MaxFaults
    /\ faults' = faults + 1
    /\ Rollback(m)

\* The list has no order, so two runs can wait for each other; PostgreSQL fails one.
DeadlockDetected(m) ==
    /\ \E S \in SUBSET Monitors :
        /\ m \in S
        /\ \A x \in S : (\E y \in S : WaitsFor(x, y)) /\ (\E y \in S : WaitsFor(y, x))
    /\ Rollback(m)
    /\ UNCHANGED faults

run(m) ==
    \/ ListOverdue(m)
    \/ \E t \in Tasks : CheckActivity(m, t)
    \/ InsertActivity(m)
    \/ InsertAlert(m)
    \/ Commit(m)
    \/ RunFails(m)
    \/ DeadlockDetected(m)

-----------------------------------------------------------------------------
\* The tables hold what their columns name, a run is at one of its steps.
MonitorTypeOK ==
    /\ status \in [Tasks -> {"open", "accepted", "resolved"}]
    /\ overdue \subseteq Tasks
    /\ activity \in [Tasks -> Nat]
    /\ alerts \subseteq Tasks
    /\ pc \in [Monitors -> {"idle", "loop", "note", "alert"}]
    /\ todo \in [Monitors -> SUBSET Tasks]
    /\ cur \in [Monitors -> Tasks \cup {NoTask}]
    /\ noted \in [Monitors -> SUBSET Tasks]
    /\ drafted \in [Monitors -> SUBSET Tasks]
    /\ faults \in Nat

\* The check of task_activity keeps a noted task out of every later run, so a note
\* without an alert would hide the task for good: a task is noted exactly when its
\* alert is in the outbox, whichever runs overlap, fail or deadlock.
NotedIsAlerted == \A t \in Tasks : activity[t] > 0 <=> t \in alerts
=============================================================================
