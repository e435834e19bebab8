----------------------------- MODULE Dashboards -----------------------------
(***************************************************************************)
(* The pages that tell people how the system is doing: GET /api/dashboard  *)
(* and its /health and /sla, /api/command-center/overview and              *)
(* /api/director/dashboard and /landing.                                   *)
(*                                                                         *)
(* A page is a row of statements on one session.  The tables change        *)
(* between any two of them.  All but the director's turn a statement       *)
(* that fails into a default; but in PostgreSQL a failed statement aborts  *)
(* the transaction, so every later one of that page fails as well.         *)
(***************************************************************************)
EXTENDS SlaMonitor, Sequences

CONSTANTS
    Lacking,     \* <<page, statement>> with a column or table the database has not
    Watched      \* bound: tasks that change while a page is read

VARIABLES
    running,     \* bound: a behaviour runs the job, or reads a page
    anomalies,   \* whether one is open
    page, at, aborted, shown,
    seen         \* observation: what was so at some moment since the page was asked for

pageVars == <<page, at, aborted, shown>>
vars     == <<taskVars, monitorVars, faults, running, anomalies, pageVars, seen>>

Default == [open |-> FALSE, overdue |-> FALSE]

\* Tasks the pages count as overdue; the job looks at those with status open only.
Late == {t \in overdue : status[t] # "resolved"}

-----------------------------------------------------------------------------
\* The statements of each page, in order.
get_dashboard_metrics ==
    <<"tasks_total", "uploads_total", "open_anomalies", "critical_open", "last_upload_at",
      "invalid_metric", "upload_row">>

get_sla_metrics == <<"overdue", "risk_24h", "manager_rows">>

command_center_overview ==
    <<"latest_upload", "trust", "active_tasks", "overdue", "open_anomalies", "modules",
      "quick_actions", "summary">>

director_dashboard ==
    <<"active_tasks", "overdue", "latest_upload", "trust", "top_stores", "manager_load",
      "latest_uploads", "uploads_daily">>
director_landing == SubSeq(director_dashboard, 1, 4)

Statements == [dashboard |-> get_dashboard_metrics, sla |-> get_sla_metrics,
               center |-> command_center_overview, director |-> director_dashboard,
               landing |-> director_landing]

\* Pages that are an error as a whole when a statement fails.
AllOrNothing == {"director", "landing"}

Pages == DOMAIN Statements

\* Statements with columns of uploads and upload_metrics that no schema of the repository
\* puts together: created_at with uploaded_at, three shares of invalid rows, profile_code.
\* So the dashboard is always without a last upload, and the command center without all
\* that it reads later.  A schema may lack more: health_state.trust_level and a tasks.sla
\* that is a time are in none of the repository, though other code counts on that sla.
NoSuchColumns ==
    {<<"dashboard", "last_upload_at">>, <<"dashboard", "invalid_metric">>,
     <<"dashboard", "upload_row">>, <<"center", "latest_upload">>}

ASSUME DashboardAssumption == NoSuchColumns \subseteq Lacking /\ Watched \subseteq Tasks

Init ==
    /\ MonitorInit
    /\ running \in {"job", "page"}
    /\ anomalies = FALSE
    /\ page = "none"
    /\ at = 1
    /\ aborted = FALSE
    /\ shown = Default
    /\ seen = {}

-----------------------------------------------------------------------------
Statement == Statements[page][at]
Reading   == page # "none" /\ at <= Len(Statements[page])

\* The value a statement adds to the page; the others are only listed on it.
Answer(q) ==
    CASE q = "open_anomalies" -> [shown EXCEPT !.open = anomalies]
      [] q = "overdue"        -> [shown EXCEPT !.overdue = Late # {}]
      [] OTHER                -> shown

Open(p) ==
    /\ page = "none"
    /\ page' = p
    /\ UNCHANGED <<at, aborted, shown, faults>>

ReadStatement ==
    /\ Reading
    /\ ~aborted
    /\ <<page, Statement>> \notin Lacking
    /\ shown' = Answer(Statement)
    /\ at' = at + 1
    /\ UNCHANGED <<page, aborted, faults>>

\* The statement cannot succeed, or meets a fault: a lost connection, a timeout.
CannotAnswer ==
    \/ (aborted \/ <<page, Statement>> \in Lacking) /\ UNCHANGED faults
    \/ faults < MaxFaults /\ faults' = faults + 1

\* _scalar, _rows, _one_row and their like in the command center go on with a default.
StatementFails ==
    /\ Reading
    /\ page \notin AllOrNothing
    /\ CannotAnswer
    /\ aborted' = TRUE
    /\ at' = at + 1
    /\ UNCHANGED <<page, shown>>

\* Mutant: the director's pages go on with a default too.
PageFails_goes_on ==
    /\ Reading
    /\ page \in AllOrNothing
    /\ CannotAnswer
    /\ aborted' = TRUE
    /\ at' = at + 1
    /\ UNCHANGED <<page, shown>>

\* The director's pages catch the exception once.
PageFails ==
    /\ Reading
    /\ page \in AllOrNothing
    /\ CannotAnswer
    /\ page' = "none"
    /\ at' = 1
    /\ shown' = Default
    /\ UNCHANGED aborted

Close ==
    /\ page # "none"
    /\ ~Reading
    /\ page' = "none"
    /\ at' = 1
    /\ aborted' = FALSE
    /\ shown' = Default
    /\ UNCHANGED faults

Now == (IF Late = {} THEN {"onTime"} ELSE {"late"}) \cup (IF anomalies THEN {"open"} ELSE {})

Observe ==
    seen' = IF page' = "none" THEN {} ELSE Now' \cup (IF page = "none" THEN {} ELSE seen)

TasksChange ==
    /\ \E t \in (IF running = "page" THEN Watched ELSE Tasks) : SetStatus(t) \/ Import(t) \/ SlaPasses(t)
    /\ UNCHANGED <<monitorVars, faults, running, anomalies, pageVars>>
    /\ Observe

RunMonitors ==
    /\ running = "job"
    /\ \E m \in Monitors : run(m)
    /\ UNCHANGED <<taskVars, running, anomalies, pageVars, seen>>

AnomaliesChange ==
    /\ running = "page"
    /\ anomalies' = ~anomalies
    /\ UNCHANGED <<taskVars, monitorVars, faults, running, pageVars>>
    /\ Observe

ReadPages ==
    /\ running = "page"
    /\ (\E p \in Pages : Open(p)) \/ ReadStatement \/ StatementFails \/ PageFails \/ Close
    /\ UNCHANGED <<taskVars, monitorVars, running, anomalies>>
    /\ Observe

Next == TasksChange \/ RunMonitors \/ AnomaliesChange \/ ReadPages

Spec == Init /\ [][Next]_vars

-----------------------------------------------------------------------------
\* The tables hold what their columns name, the page is at one of its statements.
TypeOK ==
    /\ MonitorTypeOK
    /\ running \in {"job", "page"}
    /\ anomalies \in BOOLEAN
    /\ page \in Pages \cup {"none"}
    /\ at \in 1 .. 9
    /\ aborted \in BOOLEAN
    /\ shown \in [open : BOOLEAN, overdue : BOOLEAN]
    /\ seen \subseteq {"onTime", "late", "open"}

\* What a finished page reports was so at some moment while it was read, although its
\* statements are answered at different moments and may fail.  An alarm, tasks overdue
\* or anomalies open, is true on every page.  That no task is overdue is true on the
\* director's pages, and on that of the deadlines unless a statement failed: there, and
\* always in the command center, a zero may stand for a table nobody read.
PagesTellWhatWasSo ==
    page # "none" /\ ~Reading =>
        /\ shown.overdue => "late" \in seen
        /\ shown.open => "open" \in seen
        /\ page \in AllOrNothing \/ (page = "sla" /\ ~aborted) =>
                (~shown.overdue => "onTime" \in seen)
=============================================================================
