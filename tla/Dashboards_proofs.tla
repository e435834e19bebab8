-------------------------- MODULE Dashboards_proofs --------------------------
(***************************************************************************)
(* Theorems about the overdue monitor and the pages, for any number of     *)
(* runs, tasks and faults.                                                 *)
(***************************************************************************)
EXTENDS Dashboards, LeastElement

-----------------------------------------------------------------------------
(* The inductive invariants.                                               *)

\* The rows a run has not committed: its alerts are for tasks it has noted, and a task
\* it has noted has an alert, its own or a stored one, but for the task in work.
RunInv ==
    \A m \in Monitors :
        /\ pc[m] = "idle" => noted[m] = {}
        /\ pc[m] \in {"note", "alert"} => cur[m] \in Tasks
        /\ drafted[m] \subseteq noted[m]
        /\ pc[m] = "alert" => cur[m] \in noted[m]
        /\ \A t \in noted[m] : t \in drafted[m] \cup alerts \/ (pc[m] = "alert" /\ cur[m] = t)

MonitorInv == RunInv /\ NotedIsAlerted

\* What a page in the middle of its statements knows: what it shows as alarming was met,
\* and where an answer without overdue tasks can be trusted, a moment without them.
PageInv ==
    /\ page = "none" => at = 1 /\ shown = Default /\ ~aborted
    /\ page # "none" => (shown.overdue => "late" \in seen) /\ (shown.open => "open" \in seen)
    /\ page \in AllOrNothing => ~aborted /\ (at > 2 /\ ~shown.overdue => "onTime" \in seen)
    /\ page = "sla" => (at > 1 /\ ~aborted /\ ~shown.overdue => "onTime" \in seen)

-----------------------------------------------------------------------------
(* The statements of the pages.                                            *)

LEMMA PageNames == Pages = {"dashboard", "sla", "center", "director", "landing"}
BY DEF Pages, Statements

\* No page has more than eight statements.
LEMMA Lengths ==
    ASSUME NEW p \in Pages
    PROVE  /\ Len(Statements[p]) \in Nat
           /\ Len(Statements[p]) <= 8
           /\ p = "sla" => Len(Statements[p]) = 3
           /\ p \in AllOrNothing => Len(Statements[p]) >= 4
<1>1. Len(Statements["dashboard"]) = 7
  BY DEF Statements, get_dashboard_metrics
<1>2. Len(Statements["sla"]) = 3
  BY DEF Statements, get_sla_metrics
<1>3. Len(Statements["center"]) = 8
  BY DEF Statements, command_center_overview
<1>4. Len(Statements["director"]) = 8
  BY DEF Statements, director_dashboard
<1>5. Len(Statements["landing"]) = 4
  BY DEF Statements, director_landing, director_dashboard
<1>6. p \in {"dashboard", "sla", "center", "director", "landing"}
  BY PageNames
<1> USE DEF AllOrNothing
<1>7. CASE p = "dashboard"
  <2>1. Len(Statements[p]) = 7
    BY <1>1, <1>7
  <2> QED
    BY <1>7, <2>1
<1>8. CASE p = "sla"
  <2>1. Len(Statements[p]) = 3
    BY <1>2, <1>8
  <2> QED
    BY <1>8, <2>1
<1>9. CASE p \in {"center", "director"}
  <2>1. Len(Statements[p]) = 8
    BY <1>3, <1>4, <1>9
  <2> QED
    BY <1>9, <2>1
<1>10. CASE p = "landing"
  <2>1. Len(Statements[p]) = 4
    BY <1>5, <1>10
  <2> QED
    BY <1>10, <2>1
<1> QED
  BY <1>6, <1>7, <1>8, <1>9, <1>10

\* Where the pages whose zeros can be trusted count the overdue tasks.
LEMMA OverdueStatements ==
    /\ Statements["sla"][1] = "overdue"
    /\ \A p \in AllOrNothing : Statements[p][2] = "overdue"
<1>1. Statements["director"][2] = "overdue"
  BY DEF Statements, director_dashboard
<1>2. Statements["landing"][2] = "overdue"
  BY DEF Statements, director_landing, director_dashboard
<1>3. Statements["sla"][1] = "overdue"
  BY DEF Statements, get_sla_metrics
<1> QED
  BY <1>1, <1>2, <1>3 DEF AllOrNothing

-----------------------------------------------------------------------------
(* The monitor.                                                            *)

LEMMA MonitorStarts == MonitorInit => MonitorTypeOK /\ MonitorInv
BY MonitorAssumption DEF MonitorInit, MonitorTypeOK, MonitorInv, RunInv, NotedIsAlerted

LEMMA MonitorTyped ==
    ASSUME MonitorTypeOK, MonitorInv, NEW m \in Monitors, run(m), UNCHANGED taskVars
    PROVE  MonitorTypeOK'
<1> USE DEF MonitorTypeOK, taskVars, GoTo
<1>1. CASE ListOverdue(m)
  BY <1>1 DEF ListOverdue
<1>2. CASE \E t \in Tasks : CheckActivity(m, t)
  BY <1>2 DEF CheckActivity
<1>3. CASE InsertActivity(m)
  BY <1>3 DEF InsertActivity, MonitorInv, RunInv
<1>4. CASE InsertAlert(m)
  BY <1>4 DEF InsertAlert, MonitorInv, RunInv
<1>5. CASE Commit(m)
  <2>1. activity' \in [Tasks -> Nat]
    BY <1>5 DEF Commit
  <2> QED
    BY <1>5, <2>1 DEF Commit, Forget
<1>6. CASE RunFails(m)
  BY <1>6 DEF RunFails, Rollback, Forget
<1>7. CASE DeadlockDetected(m)
  BY <1>7 DEF DeadlockDetected, Rollback, Forget
<1> QED
  BY <1>1, <1>2, <1>3, <1>4, <1>5, <1>6, <1>7 DEF run

LEMMA MonitorPreserved ==
    ASSUME MonitorTypeOK, MonitorInv, NEW m \in Monitors, run(m)
    PROVE  MonitorInv'
<1> USE DEF MonitorTypeOK, GoTo, MonitorInv
<1>1. CASE ListOverdue(m)
  BY <1>1 DEF ListOverdue, RunInv, NotedIsAlerted
<1>2. ASSUME NEW t \in Tasks, CheckActivity(m, t)
      PROVE  MonitorInv'
  BY <1>2 DEF CheckActivity, RunInv, NotedIsAlerted
<1>3. CASE InsertActivity(m)
  BY <1>3 DEF InsertActivity, RunInv, NotedIsAlerted
<1>4. CASE InsertAlert(m)
  BY <1>4 DEF InsertAlert, RunInv, NotedIsAlerted
<1>5. CASE Commit(m)
  <2>1. noted[m] \subseteq drafted[m] \cup alerts /\ drafted[m] \subseteq noted[m]
    BY <1>5 DEF Commit, RunInv
  <2>2. NotedIsAlerted'
    BY <1>5, <2>1 DEF Commit, NotedIsAlerted
  <2>3. RunInv'
    BY <1>5 DEF Commit, Forget, RunInv
  <2> QED
    BY <2>2, <2>3
<1>6. CASE Rollback(m)
  BY <1>6 DEF Rollback, Forget, RunInv, NotedIsAlerted
<1> QED
  BY <1>1, <1>2, <1>3, <1>4, <1>5, <1>6 DEF run, RunFails, DeadlockDetected

-----------------------------------------------------------------------------
(* The pages.                                                              *)

\* A page that is being read remembers what it has met, and meets what is so now.
LEMMA Observed ==
    ASSUME TypeOK, Observe
    PROVE  /\ seen' \subseteq {"onTime", "late", "open"}
           /\ page' # "none" =>
                /\ page # "none" => seen \subseteq seen'
                /\ Late' = {} => "onTime" \in seen'
                /\ Late' # {} => "late" \in seen'
                /\ anomalies' => "open" \in seen'
BY DEF TypeOK, Observe, Now

LEMMA AnswerTyped ==
    ASSUME TypeOK, NEW q
    PROVE  Answer(q) \in [open : BOOLEAN, overdue : BOOLEAN]
BY DEF TypeOK, Answer

LEMMA ReadingAt ==
    ASSUME TypeOK, Reading
    PROVE  page \in Pages /\ at \in 1 .. 8
<1>1. page \in Pages /\ at \in 1 .. 9 /\ at <= Len(Statements[page])
  BY DEF Reading, TypeOK
<1> QED
  BY <1>1, Lengths

LEMMA PageTyped ==
    ASSUME TypeOK, PageInv, ReadPages
    PROVE  TypeOK'
<1> USE DEF TypeOK
<1>1. MonitorTypeOK'
  <2>1. faults' \in Nat
    BY DEF ReadPages, Open, ReadStatement, StatementFails, PageFails, CannotAnswer, Close, MonitorTypeOK
  <2> QED
    BY <2>1 DEF ReadPages, MonitorTypeOK, taskVars, monitorVars
<1>2. UNCHANGED <<running, anomalies>> /\ seen' \subseteq {"onTime", "late", "open"}
  BY Observed DEF ReadPages
<1>3. /\ page' \in Pages \cup {"none"}
      /\ at' \in 1 .. 9
      /\ aborted' \in BOOLEAN
      /\ shown' \in [open : BOOLEAN, overdue : BOOLEAN]
  <2>1. CASE \E p \in Pages : Open(p)
    BY <2>1 DEF Open
  <2>2. CASE ReadStatement
    BY <2>2, ReadingAt, AnswerTyped DEF ReadStatement
  <2>3. CASE StatementFails
    BY <2>3, ReadingAt DEF StatementFails
  <2>4. CASE PageFails
    BY <2>4 DEF PageFails, Default
  <2>5. CASE Close
    <3>1. page' = "none" /\ at' = 1 /\ aborted' = FALSE /\ shown' = Default
      BY <2>5 DEF Close
    <3>2. shown' \in [open : BOOLEAN, overdue : BOOLEAN]
      BY <3>1 DEF Default
    <3>3. aborted' \in BOOLEAN
      BY <3>1
    <3> QED
      BY <3>1, <3>2, <3>3
  <2> QED
    BY <2>1, <2>2, <2>3, <2>4, <2>5 DEF ReadPages
<1> QED
  BY <1>1, <1>2, <1>3

\* What happens elsewhere leaves the page alone, and what was seen stays seen.
LEMMA PageKept ==
    ASSUME TypeOK, PageInv, Observe, UNCHANGED pageVars
    PROVE  PageInv'
<1>1. UNCHANGED <<page, at, aborted, shown>>
  BY DEF pageVars
<1>2. page # "none" => seen \subseteq seen'
  BY <1>1, Observed
<1>3. page = "sla" \/ page \in AllOrNothing => page # "none"
  BY DEF AllOrNothing
<1> QED
  BY <1>1, <1>2, <1>3 DEF PageInv

LEMMA PagePreserved ==
    ASSUME TypeOK, PageInv, ReadPages
    PROVE  PageInv'
<1>1. UNCHANGED <<status, overdue, anomalies>> /\ Observe
  BY DEF ReadPages, taskVars
<1>2. Late' = Late
  BY <1>1 DEF Late
<1>3. page' # "none" =>
        /\ page # "none" => seen \subseteq seen'
        /\ Late = {} => "onTime" \in seen'
        /\ Late # {} => "late" \in seen'
        /\ anomalies => "open" \in seen'
  BY <1>1, <1>2, Observed
<1>4. "sla" # "none" /\ "none" \notin AllOrNothing /\ "sla" \notin AllOrNothing
  BY DEF AllOrNothing
<1>5. ASSUME NEW p \in Pages, Open(p)
      PROVE  PageInv'
  <2>1. page = "none" /\ page' = p /\ UNCHANGED <<at, aborted, shown>>
    BY <1>5 DEF Open
  <2>2. at = 1 /\ ~shown.overdue /\ ~shown.open /\ ~aborted /\ p # "none"
    BY <2>1, PageNames DEF PageInv, Default
  <2> QED
    BY <2>1, <2>2 DEF PageInv
<1>6. CASE ReadStatement
  <2>1. page' = page /\ aborted' = aborted /\ ~aborted /\ shown' = Answer(Statement) /\ at' = at + 1
    BY <1>6 DEF ReadStatement
  <2>2. page \in Pages /\ at \in 1 .. 8 /\ page # "none"
    BY <1>6, ReadingAt, PageNames DEF ReadStatement
  <2>3. /\ shown'.overdue = shown.overdue \/ shown'.overdue = (Late # {})
        /\ Statement = "overdue" => shown'.overdue = (Late # {})
        /\ shown'.open = shown.open \/ shown'.open = anomalies
    BY <2>1 DEF Answer, TypeOK
  <2>4. (shown'.overdue => "late" \in seen') /\ (shown'.open => "open" \in seen')
    BY <1>3, <2>1, <2>2, <2>3 DEF PageInv
  <2>5. ASSUME page = "sla", ~shown'.overdue
        PROVE  "onTime" \in seen'
    <3>1. CASE at = 1
      <4>1. Statement = "overdue"
        BY <2>5, <3>1, OverdueStatements DEF Statement
      <4> QED
        BY <1>3, <2>1, <2>2, <2>3, <2>5, <4>1
    <3>2. CASE at # 1
      <4>1. at > 1
        BY <2>2, <3>2
      <4>2. CASE ~shown.overdue
        BY <1>3, <2>1, <2>2, <2>5, <4>1, <4>2 DEF PageInv
      <4>3. CASE shown'.overdue = (Late # {})
        BY <1>3, <2>1, <2>2, <2>5, <4>3
      <4> QED
        BY <2>3, <2>5, <4>2, <4>3
    <3> QED
      BY <3>1, <3>2
  <2>6. ASSUME page \in AllOrNothing, at' > 2, ~shown'.overdue
        PROVE  "onTime" \in seen'
    <3>1. CASE at = 2
      <4>1. Statement = "overdue"
        BY <2>6, <3>1, OverdueStatements DEF Statement
      <4> QED
        BY <1>3, <2>1, <2>2, <2>3, <2>6, <4>1
    <3>2. CASE at # 2
      <4>1. at > 2
        BY <2>1, <2>2, <2>6, <3>2
      <4> QED
        BY <1>3, <2>1, <2>2, <2>3, <2>6, <4>1 DEF PageInv
    <3> QED
      BY <3>1, <3>2
  <2> QED
    BY <2>1, <2>2, <2>4, <2>5, <2>6 DEF PageInv
<1>7. CASE StatementFails
  <2>1. page' = page /\ page # "none" /\ page \notin AllOrNothing /\ aborted' = TRUE /\ shown' = shown
    BY <1>7 DEF StatementFails, Reading
  <2> QED
    BY <1>3, <2>1 DEF PageInv
<1>8. CASE PageFails
  <2>1. page \in AllOrNothing /\ page' = "none" /\ at' = 1 /\ shown' = Default /\ aborted' = aborted
    BY <1>8 DEF PageFails
  <2> QED
    BY <1>4, <2>1 DEF PageInv
<1>9. CASE Close
  <2>1. page' = "none" /\ at' = 1 /\ shown' = Default /\ aborted' = FALSE
    BY <1>9 DEF Close
  <2> QED
    BY <1>4, <2>1 DEF PageInv
<1> QED
  BY <1>5, <1>6, <1>7, <1>8, <1>9 DEF ReadPages

-----------------------------------------------------------------------------
(* The system.                                                             *)

DashboardsInv == TypeOK /\ MonitorInv /\ PageInv

LEMMA Starts == Init => DashboardsInv
<1> SUFFICES ASSUME Init
             PROVE  DashboardsInv
  OBVIOUS
<1>1. MonitorTypeOK /\ MonitorInv
  BY MonitorStarts DEF Init
<1>2. PageInv
  BY DEF Init, PageInv, AllOrNothing
<1>3. shown \in [open : BOOLEAN, overdue : BOOLEAN]
  BY DEF Init, Default
<1>4. /\ running \in {"job", "page"} /\ anomalies \in BOOLEAN /\ aborted \in BOOLEAN
      /\ page = "none" /\ at = 1 /\ seen = {}
  BY DEF Init
<1>5. TypeOK
  BY <1>1, <1>3, <1>4 DEF TypeOK
<1> QED
  BY <1>1, <1>2, <1>5 DEF DashboardsInv

LEMMA TasksChangeKeeps ==
    ASSUME DashboardsInv, TasksChange
    PROVE  DashboardsInv'
<1> USE DEF DashboardsInv
<1>1. UNCHANGED <<monitorVars, faults, running, anomalies, pageVars>> /\ Observe
  BY DEF TasksChange
<1>2. PICK t \in Tasks : SetStatus(t) \/ Import(t) \/ SlaPasses(t)
  BY DashboardAssumption DEF TasksChange
<1>3. status' \in [Tasks -> {"open", "accepted", "resolved"}] /\ overdue' \subseteq Tasks
  BY <1>2 DEF SetStatus, Import, SlaPasses, TypeOK, MonitorTypeOK
<1>4. MonitorTypeOK'
  BY <1>1, <1>3 DEF MonitorTypeOK, TypeOK, monitorVars
<1>5. TypeOK'
  BY <1>1, <1>4, Observed DEF TypeOK, pageVars
<1>6. MonitorInv'
  BY <1>1 DEF MonitorInv, RunInv, NotedIsAlerted, monitorVars
<1> QED
  BY <1>1, <1>5, <1>6, PageKept

LEMMA RunMonitorsKeeps ==
    ASSUME DashboardsInv, RunMonitors
    PROVE  DashboardsInv'
<1> USE DEF DashboardsInv
<1>1. UNCHANGED <<taskVars, running, anomalies, pageVars, seen>>
  BY DEF RunMonitors
<1>2. PICK m \in Monitors : run(m)
  BY DEF RunMonitors
<1>3. MonitorTypeOK' /\ MonitorInv'
  BY <1>1, <1>2, MonitorTyped, MonitorPreserved DEF TypeOK
<1>4. TypeOK'
  BY <1>1, <1>3 DEF TypeOK, pageVars
<1>5. PageInv'
  BY <1>1 DEF PageInv, pageVars
<1> QED
  BY <1>3, <1>4, <1>5

LEMMA AnomaliesChangeKeeps ==
    ASSUME DashboardsInv, AnomaliesChange
    PROVE  DashboardsInv'
<1> USE DEF DashboardsInv
<1>1. UNCHANGED <<taskVars, monitorVars, faults, running, pageVars>> /\ Observe /\ anomalies' \in BOOLEAN
  BY DEF AnomaliesChange
<1>2. MonitorTypeOK' /\ MonitorInv'
  BY <1>1 DEF TypeOK, MonitorTypeOK, MonitorInv, RunInv, NotedIsAlerted, taskVars, monitorVars
<1>3. TypeOK'
  BY <1>1, <1>2, Observed DEF TypeOK, pageVars
<1> QED
  BY <1>1, <1>2, <1>3, PageKept

LEMMA ReadPagesKeeps ==
    ASSUME DashboardsInv, ReadPages
    PROVE  DashboardsInv'
<1> USE DEF DashboardsInv
<1>1. UNCHANGED monitorVars
  BY DEF ReadPages
<1>2. MonitorInv'
  BY <1>1 DEF MonitorInv, RunInv, NotedIsAlerted, monitorVars
<1> QED
  BY <1>2, PageTyped, PagePreserved

LEMMA DashboardsInvariant == Spec => []DashboardsInv
<1>1. DashboardsInv /\ [Next]_vars => DashboardsInv'
  <2>1. ASSUME DashboardsInv, UNCHANGED vars
        PROVE  DashboardsInv'
    <3>1. MonitorTypeOK' /\ MonitorInv'
      BY <2>1 DEF DashboardsInv, TypeOK, MonitorTypeOK, MonitorInv, RunInv, NotedIsAlerted,
                  vars, taskVars, monitorVars
    <3>2. PageInv'
      BY <2>1 DEF DashboardsInv, PageInv, vars, pageVars
    <3>3. TypeOK'
      BY <2>1, <3>1 DEF DashboardsInv, TypeOK, vars, pageVars
    <3> QED
      BY <3>1, <3>2, <3>3 DEF DashboardsInv
  <2> QED
    BY <2>1, TasksChangeKeeps, RunMonitorsKeeps, AnomaliesChangeKeeps, ReadPagesKeeps DEF Next
<1> QED
  BY Starts, <1>1, PTL DEF Spec

-----------------------------------------------------------------------------
\* The tables of the monitor and of the pages keep their types, and no page reads past
\* its last statement.
THEOREM DashboardsTypeCorrect == Spec => []TypeOK
<1>1. DashboardsInv => TypeOK
  BY DEF DashboardsInv
<1> QED
  BY <1>1, DashboardsInvariant, PTL

\* A task is noted exactly when its alert is in the outbox (sla_monitor.py), for any
\* number of overlapping, failing and deadlocked runs.
THEOREM MonitorLosesNoAlert == Spec => []NotedIsAlerted
<1>1. DashboardsInv => NotedIsAlerted
  BY DEF DashboardsInv, MonitorInv
<1> QED
  BY <1>1, DashboardsInvariant, PTL

\* What a finished page reports as alarming, and what the pages that do not turn failures
\* into zeros report as in order, was so at some moment while it was read: for any schema
\* that lacks at least what those of the repository lack, and any number of faults.
THEOREM PagesTellTheTruth == Spec => []PagesTellWhatWasSo
<1>1. DashboardsInv => PagesTellWhatWasSo
  <2> SUFFICES ASSUME DashboardsInv, page # "none", ~Reading
               PROVE  /\ shown.overdue => "late" \in seen
                      /\ shown.open => "open" \in seen
                      /\ (page \in AllOrNothing \/ (page = "sla" /\ ~aborted)) /\ ~shown.overdue
                            => "onTime" \in seen
    BY DEF PagesTellWhatWasSo
  <2> USE DEF DashboardsInv
  <2>1. page \in Pages /\ at \in 1 .. 9 /\ at > Len(Statements[page]) /\ Len(Statements[page]) \in Nat
    BY Lengths DEF Reading, TypeOK
  <2>2. page \in AllOrNothing => at > 2
    BY <2>1, Lengths
  <2>3. page = "sla" => at > 1
    <3>1. page = "sla" => Len(Statements[page]) = 3
      BY <2>1, Lengths
    <3> QED
      BY <2>1, <3>1
  <2> QED
    BY <2>2, <2>3 DEF PageInv
<1> QED
  BY <1>1, DashboardsInvariant, PTL

-----------------------------------------------------------------------------
(* Runs of the job that overlap.                                           *)

\* The runs that have noted a task or are about to.
Noting(t) == {m \in Monitors : t \in noted[m] \/ (pc[m] = "note" /\ cur[m] = t)}

\* Nothing is unique in task_activity: the runs that overlap may each note a task,
\* but once a note is committed no further run starts to.
NotesInHand == \A t \in Tasks : activity[t] + Cardinality(Noting(t)) <= Cardinality(Monitors)

\* A task is not noted more often than runs can overlap.
NotesAreFew == \A t \in Tasks : activity[t] <= Cardinality(Monitors)

\* While runs are under way, one of them is not held up, or can be refused.
SomeRunGoesOn ==
    (\E m \in Monitors : pc[m] # "idle")
        => \E m \in Monitors :
                /\ pc[m] # "idle"
                /\ \/ \A o \in Monitors : ~WaitsFor(m, o)
                   \/ \E S \in SUBSET Monitors :
                        /\ m \in S
                        /\ \A x \in S : (\E y \in S : WaitsFor(x, y)) /\ (\E y \in S : WaitsFor(y, x))

LEMMA NotesStep ==
    ASSUME IsFiniteSet(Monitors), MonitorTypeOK, MonitorInv, NotesInHand, NEW m \in Monitors, run(m)
    PROVE  NotesInHand'
<1> USE DEF MonitorTypeOK, GoTo
<1> SUFFICES ASSUME NEW t \in Tasks
             PROVE  activity'[t] + Cardinality(Noting(t)') <= Cardinality(Monitors)
  BY DEF NotesInHand
<1> DEFINE N == Noting(t)
           P == Noting(t)'
<1>1. activity[t] \in Nat /\ activity[t] + Cardinality(N) <= Cardinality(Monitors)
  BY DEF NotesInHand
<1>2. /\ N \in SUBSET Monitors /\ P \in SUBSET Monitors
      /\ Cardinality(Monitors) \in Nat
  BY FS_CardinalityType DEF Noting
<1>3. /\ IsFiniteSet(N) /\ IsFiniteSet(P)
      /\ Cardinality(N) \in Nat /\ Cardinality(P) \in Nat
      /\ Cardinality(P) <= Cardinality(Monitors)
      /\ P \subseteq N => Cardinality(P) <= Cardinality(N)
  <2> HIDE DEF N, P
  <2>1. IsFiniteSet(N) /\ IsFiniteSet(P) /\ Cardinality(P) <= Cardinality(Monitors)
    BY <1>2, FS_Subset
  <2>2. QED BY <2>1, FS_Subset, FS_CardinalityType
<1>4. ASSUME activity'[t] = activity[t], P \subseteq N
      PROVE  activity'[t] + Cardinality(P) <= Cardinality(Monitors)
  <2> HIDE DEF N, P
  <2>1. QED BY <1>1, <1>2, <1>3, <1>4
<1>5. CASE ListOverdue(m)
  BY <1>4, <1>5 DEF ListOverdue, Noting
<1>6. ASSUME NEW u \in Tasks, CheckActivity(m, u)
      PROVE  activity'[t] + Cardinality(P) <= Cardinality(Monitors)
  <2>1. activity'[t] = activity[t]
    BY <1>6 DEF CheckActivity
  <2>2. CASE activity[t] = 0
    <3> HIDE DEF P
    <3>1. QED BY <1>2, <1>3, <2>1, <2>2
  <2>3. CASE activity[t] # 0
    <3>1. P \subseteq N
      BY <1>1, <1>6, <2>3 DEF CheckActivity, Noting
    <3>2. QED BY <1>4, <2>1, <3>1
  <2>4. QED BY <2>2, <2>3
<1>7. CASE InsertActivity(m)
  BY <1>4, <1>7 DEF InsertActivity, Noting
<1>8. CASE InsertAlert(m)
  BY <1>4, <1>8 DEF InsertAlert, Noting
<1>9. CASE Commit(m)
  <2>1. pc[m] = "loop"
    BY <1>9 DEF Commit
  <2>2. P = N \ {m}
    BY <1>9, <2>1 DEF Commit, Forget, Noting
  <2>3. CASE t \in noted[m]
    <3>1. m \in N /\ activity'[t] = activity[t] + 1
      BY <1>9, <2>3 DEF Commit, Noting
    <3>2. Cardinality(P) = Cardinality(N) - 1
      <4> HIDE DEF N, P
      <4>1. QED BY <1>3, <2>2, <3>1, FS_RemoveElement
    <3>3. activity[t] \in Nat /\ Cardinality(N) \in Nat /\ Cardinality(Monitors) \in Nat
      BY <1>1, <1>2, <1>3
    <3>4. activity[t] + Cardinality(N) <= Cardinality(Monitors) /\ activity'[t] = activity[t] + 1
      BY <1>1, <3>1
    <3>5. activity'[t] + Cardinality(P) <= Cardinality(Monitors)
      <4> HIDE DEF N, P
      <4>1. QED BY <3>2, <3>3, <3>4
    <3>6. QED BY <3>5
  <2>4. CASE t \notin noted[m]
    <3>1. activity'[t] = activity[t]
      BY <1>9, <2>4 DEF Commit
    <3>2. QED BY <1>4, <2>2, <3>1
  <2>5. QED BY <2>3, <2>4
<1>10. CASE Rollback(m)
  BY <1>4, <1>10 DEF Rollback, Forget, Noting
<1>11. QED
  BY <1>5, <1>6, <1>7, <1>8, <1>9, <1>10 DEF run, RunFails, DeadlockDetected

\* The check of task_activity is no lock: overlapping runs note a task twice.  But a
\* task is never noted more often than there are runs at a time.
THEOREM OverdueNotesAreBounded ==
    ASSUME IsFiniteSet(Monitors)
    PROVE  Spec => []NotesAreFew
<1>1. Init => NotesInHand
  <2> SUFFICES ASSUME Init, NEW t \in Tasks
               PROVE  activity[t] + Cardinality(Noting(t)) <= Cardinality(Monitors)
    BY DEF NotesInHand
  <2>1. Noting(t) = {} /\ activity[t] = 0
    BY DEF Init, MonitorInit, Noting
  <2>2. QED BY <2>1, FS_EmptySet, FS_CardinalityType
<1>2. DashboardsInv /\ NotesInHand /\ [Next]_vars => NotesInHand'
  <2> SUFFICES ASSUME DashboardsInv, NotesInHand, [Next]_vars
               PROVE  NotesInHand'
    OBVIOUS
  <2>1. CASE UNCHANGED monitorVars
    BY <2>1 DEF NotesInHand, Noting, monitorVars
  <2>2. ASSUME NEW m \in Monitors, run(m)
        PROVE  NotesInHand'
    BY <2>2, NotesStep DEF DashboardsInv, TypeOK
  <2>3. QED
    BY <2>1, <2>2 DEF Next, TasksChange, RunMonitors, AnomaliesChange, ReadPages, vars
<1>3. DashboardsInv /\ NotesInHand => NotesAreFew
  <2> SUFFICES ASSUME DashboardsInv, NotesInHand, NEW t \in Tasks
               PROVE  activity[t] <= Cardinality(Monitors)
    BY DEF NotesAreFew
  <2>1. Noting(t) \in SUBSET Monitors
    BY DEF Noting
  <2>2. Cardinality(Noting(t)) \in Nat /\ Cardinality(Monitors) \in Nat
    BY <2>1, FS_Subset, FS_CardinalityType
  <2>3. activity[t] \in Nat /\ activity[t] + Cardinality(Noting(t)) <= Cardinality(Monitors)
    BY DEF NotesInHand, DashboardsInv, TypeOK, MonitorTypeOK
  <2>4. QED BY <2>2, <2>3
<1>4. QED BY <1>1, <1>2, <1>3, DashboardsInvariant, PTL DEF Spec

\* Finitely many runs never all wait for one another's alerts without a deadlock that
\* PostgreSQL breaks: a run that waits, waits for one under way.
THEOREM MonitorsAreNotStuck ==
    ASSUME IsFiniteSet(Monitors)
    PROVE  Spec => []SomeRunGoesOn
<1>1. ASSUME DashboardsInv
      PROVE  SomeRunGoesOn
  <2> DEFINE R == {m \in Monitors : pc[m] # "idle"}
             E == {p \in Monitors \X Monitors : WaitsFor(p[1], p[2])}
  <2> SUFFICES ASSUME R # {}, \A m \in R : \E o \in Monitors : WaitsFor(m, o)
               PROVE  \E m \in R : \E S \in SUBSET Monitors :
                        /\ m \in S
                        /\ \A x \in S : (\E y \in S : WaitsFor(x, y)) /\ (\E y \in S : WaitsFor(y, x))
    BY DEF SomeRunGoesOn
  <2>1. IsFiniteSet(R)
    BY FS_Subset
  <2>2. \A m \in R : \E o \in R : <<m, o>> \in E
    <3>1. \A o \in Monitors : drafted[o] # {} => o \in R
      BY <1>1 DEF DashboardsInv, MonitorInv, RunInv
    <3>2. QED BY <3>1 DEF WaitsFor
  <2>3. PICK C \in SUBSET R :
            /\ C # {}
            /\ \A x \in C : (\E y \in C : <<x, y>> \in E) /\ (\E y \in C : <<y, x>> \in E)
    <3> HIDE DEF R, E
    <3>1. QED BY <2>1, <2>2, WaitInCircle
  <2>4. \A x \in C : (\E y \in C : WaitsFor(x, y)) /\ (\E y \in C : WaitsFor(y, x))
    BY <2>3
  <2>5. PICK m \in C : TRUE
    BY <2>3
  <2>6. QED BY <2>4, <2>5
<1>2. QED BY <1>1, DashboardsInvariant, PTL
=============================================================================
