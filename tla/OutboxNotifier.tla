--------------------------- MODULE OutboxNotifier ---------------------------
(***************************************************************************)
(* The deployed notifier, app/notifier/__main__.py: a poll loop that       *)
(* claims rows of notification_outbox, sends each one to a Matrix room and *)
(* records the outcome, under a circuit breaker kept in                    *)
(* outbox_guard_state and a watchdog for rows stuck in 'sending'.          *)
(*                                                                         *)
(* Every committed database transaction is one step; the Matrix request    *)
(* is a step of its own, before the transaction that records its outcome,  *)
(* because a process may die between the two.  Instants in the tables are  *)
(* kept relative to now() and move together in Tick.                       *)
(*                                                                         *)
(* The driver is asyncpg as requirements.txt pins it.  It refuses an int   *)
(* bound where PostgreSQL infers text, as in (:s || ' seconds')::interval, *)
(* so the two statements written that way raise whenever they are reached  *)
(* and the transaction around them is rolled back.                         *)
(***************************************************************************)
EXTENDS Integers, FiniteSets

CONSTANTS
    Rows,             \* outbox rows (one per dedupe_key) the producers may insert
    Refused,          \* rows with a channel other than matrix, or with no room
    Notifiers,        \* running notifier processes
    Enabled,          \* those started with NOTIFIER_OK
    NoRow,            \* "no row is being sent"
    BatchSize,        \* NOTIFIER_BATCH
    MaxAttempts,      \* NOTIFIER_MAX_ATTEMPTS
    SendingStuck,     \* NOTIFIER_SENDING_STUCK_MIN
    WatchdogDelay,    \* 300 s, the retry delay the watchdog sets
    MaxWindow,        \* bound: the longest guard window the table is found with
    TimelyBatches,    \* TRUE: no batch outlives SendingStuck
    MaxOverdue,       \* bound: how long past its time a row is told apart
    MaxFaults         \* bound: crashes, lost answers, transactions that fail by accident

ASSUME NotifierAssumption ==
    /\ Refused \subseteq Rows
    /\ Enabled \subseteq Notifiers
    /\ IsFiniteSet(Rows)
    /\ NoRow \notin Rows
    /\ BatchSize \in Nat \ {0}
    /\ MaxAttempts \in Nat \ {0}
    /\ {SendingStuck, WatchdogDelay} \subseteq Nat
    /\ {MaxWindow, MaxOverdue, MaxFaults} \subseteq Nat
    /\ TimelyBatches \in BOOLEAN

VARIABLES
    \* notification_outbox
    status, attempts,
    due,              \* coalesce(next_retry_at, created_at) - now()
    sendingFor,       \* now() - sending_started_at
    \* outbox_guard_state
    guard,
    openFor,          \* open_until - now(), 0 once it has passed
    \* each notifier process
    pc,
    seen,             \* the guard state it read in this iteration
    todo,             \* claimed rows it has not handled yet
    cur,              \* the row whose request it has issued
    reply,            \* what that request came back with
    \* the Matrix room, and counters only the properties read
    delivered,        \* messages of the row that reached the room
    sends,            \* requests issued for the row, counted up to MaxAttempts + 1
    charged,          \* those whose outcome was not rolled back or lost with the process
    slips,            \* deliveries of the row that a fault kept from being recorded
    faults            \* faults of any kind

tableVars == <<status, attempts, due, sendingFor>>
guardVars == <<guard, openFor>>
procVars  == <<pc, seen, todo, cur, reply>>
counters  == <<delivered, sends, charged, slips, faults>>
vars      == <<tableVars, guardVars, procVars, counters>>

-----------------------------------------------------------------------------
Statuses == {"none", "queued", "sending", "sent", "failed", "dead"}
Waiting  == {"queued", "failed"}
Settled  == {"sent", "dead"}
Null     == -1                          \* sending_started_at IS NULL

Held(n) == todo[n] \cup ({cur[n]} \ {NoRow})

\* What matrix_send returns or raises: a 2xx; RateLimitError; an error that
\* trips the guard ("Matrix 5", "timeout"); any other error.
NoReply  == "none"
Accepted == "accepted"
Limited  == "limited"
Outage   == "outage"
Rejected == "rejected"
Failures == {Limited, Outage, Rejected}
Replies  == {NoReply, Accepted} \cup Failures

AtMost(a, b)  == IF a < b THEN a ELSE b
AtLeast(a, b) == IF a > b THEN a ELSE b

\* Migration 0002 seeds a closed guard and keeps a row that is already there,
\* in any state its CHECK allows: open with its window, half open, or closed.
GuardAsFound ==
    \/ guard \in {"CLOSED", "HALF_OPEN"} /\ openFor = 0
    \/ guard = "OPEN" /\ openFor \in 0..MaxWindow

Init ==
    /\ status = [r \in Rows |-> "none"]
    /\ attempts = [r \in Rows |-> 0]
    /\ due = [r \in Rows |-> 0]
    /\ sendingFor = [r \in Rows |-> Null]
    /\ GuardAsFound
    /\ pc = [n \in Notifiers |-> "poll"]
    /\ seen = [n \in Notifiers |-> "CLOSED"]
    /\ todo = [n \in Notifiers |-> {}]
    /\ cur = [n \in Notifiers |-> NoRow]
    /\ reply = [n \in Notifiers |-> NoReply]
    /\ delivered = [r \in Rows |-> 0]
    /\ sends = [r \in Rows |-> 0]
    /\ charged = [r \in Rows |-> 0]
    /\ slips = [r \in Rows |-> 0]
    /\ faults = 0

-----------------------------------------------------------------------------
(* The statements the loop is made of: what each one writes.               *)

\* Mutant: a status the CHECK constraint does not know.
mark_sent_as_done(r) ==
    /\ status' = [status EXCEPT ![r] = "done"]
    /\ sendingFor' = [sendingFor EXCEPT ![r] = Null]
    /\ UNCHANGED <<attempts, due>>

mark_sent(r) ==
    /\ status' = [status EXCEPT ![r] = "sent"]
    /\ sendingFor' = [sendingFor EXCEPT ![r] = Null]
    /\ UNCHANGED <<attempts, due>>

\* The last UPDATE of mark_failed and the one of guard_open bind an int to
\* (:b || ' seconds')::interval: they raise.
set_next_retry_at == FALSE
guard_open        == FALSE
guard_close       == guard' = "CLOSED" /\ openFor' = 0

\* Mutants: the stamp is not cleared; the attempt that fails is not counted.
mark_failed_keeps_stamp(r) ==
    LET dead == attempts[r] + 1 >= MaxAttempts IN
    /\ attempts' = [attempts EXCEPT ![r] = @ + 1]
    /\ status' = [status EXCEPT ![r] = IF dead THEN "dead" ELSE "failed"]
    /\ IF dead THEN due' = [due EXCEPT ![r] = 0] ELSE set_next_retry_at
    /\ UNCHANGED sendingFor

mark_failed_uncounted(r) ==
    LET dead == attempts[r] + 1 >= MaxAttempts IN
    /\ status' = [status EXCEPT ![r] = IF dead THEN "dead" ELSE "failed"]
    /\ sendingFor' = [sendingFor EXCEPT ![r] = Null]
    /\ IF dead THEN due' = [due EXCEPT ![r] = 0] ELSE set_next_retry_at
    /\ UNCHANGED attempts

mark_failed(r) ==
    LET dead == attempts[r] + 1 >= MaxAttempts IN
    /\ attempts' = [attempts EXCEPT ![r] = @ + 1]
    /\ status' = [status EXCEPT ![r] = IF dead THEN "dead" ELSE "failed"]
    /\ sendingFor' = [sendingFor EXCEPT ![r] = Null]
    /\ IF dead THEN due' = [due EXCEPT ![r] = 0] ELSE set_next_retry_at

\* Whether the transaction that records a failure of row r reaches a statement
\* that raises: it has to set a retry delay, or to open the guard.
CannotRecord(r, trips) == trips \/ attempts[r] + 1 < MaxAttempts

GoTo(n, l) == pc' = [pc EXCEPT ![n] = l]

\* The process is done with the row it was sending and takes the next one.
NextRow(n) ==
    /\ GoTo(n, IF todo[n] = {} THEN "poll" ELSE "batch")
    /\ cur' = [cur EXCEPT ![n] = NoRow]
    /\ reply' = [reply EXCEPT ![n] = NoReply]
    /\ UNCHANGED <<seen, todo>>

\* The process forgets its batch: break out of the loop, or die and restart.
DropBatch(n) ==
    /\ GoTo(n, "poll")
    /\ todo' = [todo EXCEPT ![n] = {}]
    /\ cur' = [cur EXCEPT ![n] = NoRow]
    /\ reply' = [reply EXCEPT ![n] = NoReply]
    /\ UNCHANGED seen

\* One more fault; it hides the delivery of the rows in hit.
Fault(hit) ==
    /\ faults < MaxFaults
    /\ faults' = faults + 1
    /\ slips' = [r \in Rows |-> IF r \in hit THEN slips[r] + 1 ELSE slips[r]]

-----------------------------------------------------------------------------
(* Producers and time.                                                     *)

\* A producer commits a row; a second insert with its dedupe_key is refused.
Enqueue(r) ==
    /\ status[r] = "none"
    /\ status' = [status EXCEPT ![r] = "queued"]
    /\ UNCHANGED <<attempts, due, sendingFor, guardVars, procVars, counters>>

Tick ==
    /\ TimelyBatches => \A n \in Notifiers : \A r \in Held(n) : sendingFor[r] < SendingStuck
    /\ due' = [r \in Rows |-> IF status[r] \in Waiting
                              THEN AtLeast(due[r] - 1, -MaxOverdue) ELSE due[r]]
    /\ sendingFor' = [r \in Rows |-> IF sendingFor[r] = Null
                                     THEN Null ELSE AtMost(sendingFor[r] + 1, SendingStuck + 1)]
    /\ openFor' = AtLeast(openFor - 1, 0)
    /\ UNCHANGED <<status, attempts, guard, procVars, counters>>

-----------------------------------------------------------------------------
(* The head of an iteration: watchdog, guard, claim.                       *)

\* Mutants: the age is taken from another column; no row is ever found stuck.
Stuck_at_any_age == {r \in Rows : status[r] = "sending"}
Stuck_never == {}

Stuck == {r \in Rows : status[r] = "sending" /\ sendingFor[r] > SendingStuck}

watchdog_sending_stuck(n) ==
    /\ pc[n] = "poll"
    /\ GoTo(n, "guard")
    /\ status' = [r \in Rows |-> IF r \in Stuck THEN "failed" ELSE status[r]]
    /\ due' = [r \in Rows |-> IF r \in Stuck THEN WatchdogDelay ELSE due[r]]
    /\ sendingFor' = [r \in Rows |-> IF r \in Stuck THEN Null ELSE sendingFor[r]]
    /\ UNCHANGED <<attempts, guardVars, seen, todo, cur, reply, counters>>

\* Mutants: the window is not looked at; it never ends.
guard_get_ignores_window(n) ==
    /\ pc[n] = "guard"
    /\ seen' = [seen EXCEPT ![n] = guard]
    /\ GoTo(n, IF guard # "OPEN" THEN "claim" ELSE "half")
    /\ UNCHANGED <<tableVars, guardVars, todo, cur, reply, counters>>

guard_get_ignores_expiry(n) ==
    /\ pc[n] = "guard"
    /\ seen' = [seen EXCEPT ![n] = guard]
    /\ GoTo(n, IF guard # "OPEN" THEN "claim" ELSE "poll")
    /\ UNCHANGED <<tableVars, guardVars, todo, cur, reply, counters>>

guard_get(n) ==
    /\ pc[n] = "guard"
    /\ seen' = [seen EXCEPT ![n] = guard]
    /\ GoTo(n, IF guard # "OPEN" THEN "claim" ELSE IF openFor > 0 THEN "poll" ELSE "half")
    /\ UNCHANGED <<tableVars, guardVars, todo, cur, reply, counters>>

\* Unconditional: the state read a statement ago is not checked again.
guard_half_open(n) ==
    /\ pc[n] = "half"
    /\ GoTo(n, "claim")
    /\ guard' = "HALF_OPEN"
    /\ seen' = [seen EXCEPT ![n] = "HALF_OPEN"]
    /\ UNCHANGED <<tableVars, openFor, todo, cur, reply, counters>>

SendingDisabled(n) ==
    /\ pc[n] = "claim"
    /\ n \notin Enabled
    /\ GoTo(n, "poll")
    /\ UNCHANGED <<tableVars, guardVars, seen, todo, cur, reply, counters>>

\* Mutants: the query forgets to filter on the status; it forgets the failed rows.
Claimable_any_status == {r \in Rows : status[r] # "none" /\ due[r] <= 0}

Claimable_once == {r \in Rows : status[r] = "queued" /\ due[r] <= 0}

Claimable == {r \in Rows : status[r] \in Waiting /\ due[r] <= 0}

\* The batches the claim query may return: the longest overdue rows, up to the limit.
Batches(limit) ==
    {S \in SUBSET Claimable :
        /\ Cardinality(S) = AtMost(limit, Cardinality(Claimable))
        /\ \A r \in S, q \in Claimable \ S : due[r] <= due[q]}

claim_batch(n) ==
    /\ pc[n] = "claim"
    /\ n \in Enabled
    /\ \E S \in Batches(IF seen[n] = "HALF_OPEN" THEN 1 ELSE BatchSize) :
        /\ todo' = [todo EXCEPT ![n] = S]
        /\ status' = [r \in Rows |-> IF r \in S THEN "sending" ELSE status[r]]
        /\ sendingFor' = [r \in Rows |-> IF r \in S THEN 0 ELSE sendingFor[r]]
        /\ GoTo(n, IF S = {} THEN "poll" ELSE "batch")
    /\ UNCHANGED <<attempts, due, guardVars, seen, cur, reply, counters>>

\* Any statement of the head raises: rollback, and the iteration starts over.
IterationFails(n) ==
    /\ pc[n] \in {"poll", "guard", "half", "claim"}
    /\ GoTo(n, "poll")
    /\ Fault({})
    /\ UNCHANGED <<tableVars, guardVars, seen, todo, cur, reply, delivered, sends, charged>>

-----------------------------------------------------------------------------
(* The rows of the batch, one at a time.                                   *)

\* An unsupported channel or a missing room costs an attempt, without a
\* request, if the attempt can be recorded; the row stays 'sending' otherwise.
Refuse(n, r) ==
    /\ pc[n] = "batch"
    /\ r \in todo[n] \cap Refused
    /\ todo' = [todo EXCEPT ![n] = @ \ {r}]
    /\ GoTo(n, IF todo[n] = {r} THEN "poll" ELSE "batch")
    /\ \/ mark_failed(r) /\ UNCHANGED <<slips, faults>>
       \/ /\ IF CannotRecord(r, FALSE) THEN UNCHANGED <<slips, faults>> ELSE Fault({})
          /\ UNCHANGED tableVars
    /\ UNCHANGED <<guardVars, seen, cur, reply, delivered, sends, charged>>

\* matrix_send: the room takes the message and says so, or the request fails;
\* a timeout or a broken connection may hide a delivery.
matrix_send(n, r) ==
    /\ pc[n] = "batch"
    /\ r \in todo[n] \ Refused
    /\ todo' = [todo EXCEPT ![n] = @ \ {r}]
    /\ cur' = [cur EXCEPT ![n] = r]
    /\ GoTo(n, "reply")
    /\ sends' = [sends EXCEPT ![r] = AtMost(@ + 1, MaxAttempts + 1)]
    /\ charged' = [charged EXCEPT ![r] = @ + 1]
    /\ \/ /\ reply' = [reply EXCEPT ![n] = Accepted]
          /\ delivered' = [delivered EXCEPT ![r] = @ + 1]
          /\ UNCHANGED <<slips, faults>>
       \/ /\ \E a \in Failures : reply' = [reply EXCEPT ![n] = a]
          /\ UNCHANGED <<delivered, slips, faults>>
       \/ /\ \E a \in {Outage, Rejected} : reply' = [reply EXCEPT ![n] = a]
          /\ delivered' = [delivered EXCEPT ![r] = @ + 1]
          /\ Fault({r})
    /\ UNCHANGED <<tableVars, guardVars, seen>>

\* Mutant: an answer of 400 or more is not raised as an error.
RecordSent_unchecked(n) ==
    /\ pc[n] = "reply" /\ reply[n] \in {Accepted, Rejected}
    /\ mark_sent(cur[n])
    /\ guard_close
    /\ NextRow(n)
    /\ UNCHANGED counters

RecordSent(n) ==
    /\ pc[n] = "reply" /\ reply[n] = Accepted
    /\ mark_sent(cur[n])
    /\ guard_close
    /\ NextRow(n)
    /\ UNCHANGED counters

\* The request of process n leaves no trace in the table.
Forgotten(n) ==
    charged' = [r \in Rows |-> IF r = cur[n] THEN charged[r] - 1 ELSE charged[r]]

\* mark_sent, guard_close or their commit raises.  The except branch calls
\* mark_failed in the transaction that failed, which raises again: the row
\* stays 'sending' although the room has the message.
RecordSentFails(n) ==
    /\ pc[n] = "reply" /\ reply[n] = Accepted
    /\ NextRow(n)
    /\ Forgotten(n)
    /\ Fault({cur[n]})
    /\ UNCHANGED <<tableVars, guardVars, delivered, sends>>

\* A failure is recorded only if the row goes dead by it and the guard is left alone.
RecordFailed(n) ==
    /\ pc[n] = "reply" /\ reply[n] \in Failures
    /\ mark_failed(cur[n])
    /\ IF reply[n] = Rejected THEN UNCHANGED guardVars ELSE guard_open
    /\ NextRow(n)
    /\ UNCHANGED counters

\* Otherwise its transaction is rolled back, and the row stays 'sending' with
\* the attempts it had; so it does when the transaction fails by accident.  A
\* 429 ends the batch, whose other rows stay 'sending' as well.
FailureRolledBack(n) ==
    /\ pc[n] = "reply" /\ reply[n] \in Failures
    /\ IF reply[n] = Limited THEN DropBatch(n) ELSE NextRow(n)
    /\ Forgotten(n)
    /\ IF CannotRecord(cur[n], reply[n] # Rejected) THEN UNCHANGED <<slips, faults>> ELSE Fault({})
    /\ UNCHANGED <<tableVars, guardVars, delivered, sends>>

\* The process dies and docker starts it again with an empty batch.
Crash(n) ==
    /\ DropBatch(n)
    /\ Forgotten(n)
    /\ Fault({r \in Rows : r = cur[n] /\ reply[n] = Accepted})
    /\ UNCHANGED <<tableVars, guardVars, delivered, sends>>

-----------------------------------------------------------------------------
PollOnce(n) ==
    \/ watchdog_sending_stuck(n) \/ guard_get(n) \/ guard_half_open(n)
    \/ SendingDisabled(n) \/ claim_batch(n)

HandleRow(n) ==
    \/ \E r \in Rows : Refuse(n, r) \/ matrix_send(n, r)
    \/ RecordSent(n) \/ RecordFailed(n) \/ FailureRolledBack(n)

Trouble(n) ==
    IterationFails(n) \/ RecordSentFails(n) \/ Crash(n)

Next ==
    \/ Tick
    \/ \E r \in Rows : Enqueue(r)
    \/ \E n \in Notifiers : PollOnce(n) \/ HandleRow(n) \/ Trouble(n)

\* The event loop keeps running (docker restarts it) and the clock advances;
\* producers, faults and what Matrix answers are free.
Fairness ==
    /\ WF_vars(Tick)
    /\ \A n \in Notifiers : WF_vars(PollOnce(n) \/ HandleRow(n))

Spec     == Init /\ [][Next]_vars
FairSpec == Spec /\ Fairness

-----------------------------------------------------------------------------
(* Properties.                                                             *)

\* The rows keep to the CHECK constraint of notification_outbox.status, and every
\* process to the places and rows of its loop.
TypeOK ==
    /\ status \in [Rows -> Statuses]
    /\ attempts \in [Rows -> Nat]
    /\ due \in [Rows -> Int]
    /\ sendingFor \in [Rows -> Nat \cup {Null}]
    /\ guard \in {"CLOSED", "OPEN", "HALF_OPEN"}
    /\ openFor \in Nat
    /\ pc \in [Notifiers -> {"poll", "guard", "half", "claim", "batch", "reply"}]
    /\ seen \in [Notifiers -> {"CLOSED", "OPEN", "HALF_OPEN"}]
    /\ todo \in [Notifiers -> SUBSET Rows]
    /\ cur \in [Notifiers -> Rows \cup {NoRow}]
    /\ reply \in [Notifiers -> Replies]
    /\ delivered \in [Rows -> Nat]
    /\ sends \in [Rows -> Nat]
    /\ charged \in [Rows -> Int]
    /\ slips \in [Rows -> Nat]
    /\ faults \in Nat

\* The deployments in which one process at a time works on a row: a single
\* notifier (docker-compose.yml), or several whose batches end before the watchdog's limit.
Exclusive == TimelyBatches \/ \A m, n \in Notifiers : m = n

SingleNotifier == \A m, n \in Notifiers : m = n

\* A row some process still has to handle is 'sending' in the table and in
\* nobody else's batch: claim_batch hands it out once, and neither the
\* watchdog nor another process takes it back while the batch lasts.
OwnedOnce ==
    Exclusive =>
        \A n \in Notifiers : \A r \in Held(n) :
            /\ status[r] = "sending"
            /\ \A m \in Notifiers \ {n} : r \notin Held(m)

\* Every row left in 'sending', whoever abandoned it, carries a
\* sending_started_at, so that the watchdog will find it; no other row does.
WatchdogSeesSending ==
    \A r \in Rows : status[r] = "sending" <=> sendingFor[r] # Null

\* A row can be claimed again only while it has attempts left, and is given up
\* only when the last of them failed (mark_failed), in any deployment.
RetryBudget ==
    \A r \in Rows :
        /\ status[r] \notin Settled => attempts[r] < MaxAttempts
        /\ status[r] = "dead" => attempts[r] >= MaxAttempts

\* A row is marked sent only after the room took its message, in any deployment.
SentWasDelivered == \A r \in Rows : status[r] = "sent" => delivered[r] > 0

\* The request being made for a row, if its answer is the room's acceptance.
Unrecorded(r) == \E n \in Notifiers : cur[n] = r /\ reply[n] = Accepted

\* A row reaches the room once, unless a lost answer, a crash or a failing
\* transaction hid a delivery; each further copy is paid for by one of those.
\* Failures that are rolled back, however many, duplicate nothing.
DuplicatesNeedAFault ==
    Exclusive =>
        \A r \in Rows : delivered[r] <= slips[r] + (IF status[r] = "sent" \/ Unrecorded(r) THEN 1 ELSE 0)

\* attempts counts the requests that were recorded as failures and no others:
\* a request that was not rolled back or lost is one of those, or the success
\* that settled the row, or the one in flight.
RequestsAccounted ==
    Exclusive =>
        \A r \in Rows \ Refused :
            charged[r] = attempts[r]
                         + (IF status[r] = "sent" \/ \E n \in Notifiers : cur[n] = r THEN 1 ELSE 0)

\* 'sent' and 'dead' are final: no late outcome and no watchdog reopens the row.
SettledIsFinal ==
    [][Exclusive => \A r \in Rows : status[r] \in Settled => status'[r] = status[r]]_vars

\* A single notifier claims nothing while the guard is open or its window has
\* not passed, and one row at a time while it is half open.
GuardGatesClaims ==
    [][SingleNotifier =>
        \A n \in Notifiers : pc[n] = "claim" /\ pc'[n] = "batch" =>
            /\ guard # "OPEN" /\ openFor = 0
            /\ guard = "HALF_OPEN" => Cardinality(todo'[n]) = 1]_vars

\* An open guard does not stay open: some notifier turns it half open, or closes
\* it.  This build opens no guard (guard_open), it may only find one open.
GuardRecovers == guard = "OPEN" ~> guard # "OPEN"

\* The outbox behaves as AtLeastOnce promises: the rows not settled are the
\* pending messages.
PhaseOf(r) ==
    CASE status[r] = "none" -> "absent"
      [] status[r] = "sent" -> "confirmed"
      [] status[r] = "dead" -> "abandoned"
      [] OTHER -> "pending"

Promise == INSTANCE AtLeastOnce WITH
    Messages <- Rows, phase <- [r \in Rows |-> PhaseOf(r)], copies <- delivered

\* A row is confirmed only if delivered, given up only while pending, and never
\* reopened.
ImplementsAtLeastOnce == Promise!Spec

\* No row stays 'sending' for ever, whatever Matrix answers: what a 429, a
\* rollback or a crash leaves in that state, the watchdog hands out again.
SendingEnds == \A r \in Rows : status[r] = "sending" ~> status[r] # "sending"

\* Failures are not counted, so a row is not sure to be given up;
\* but if from some time on Matrix accepts every request, every row in the
\* table is settled, those that were abandoned in 'sending' included.
MatrixAnswers == \A n \in Notifiers : reply[n] \in {NoReply, Accepted}
SettledOnceMatrixAnswers ==
    <>[]MatrixAnswers => \A r \in Rows \ Refused : status[r] = "queued" ~> status[r] \in Settled

-----------------------------------------------------------------------------
(* Claims of README.md about the notifier, as properties.                  *)

\* README.md:11 and :83, a resend or a restart creates no duplicate in the room
\* (each request of matrix_send has a transaction id of its own, so the room
\* takes every copy for a new message).
RoomShowsOneCopy == \A r \in Rows : delivered[r] <= 1

\* README.md:12, no more than MaxAttempts requests are made for a row: then it is dead.
AtMostMaxAttemptsRequests == \A r \in Rows : sends[r] <= MaxAttempts
=============================================================================
