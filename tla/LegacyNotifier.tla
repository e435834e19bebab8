--------------------------- MODULE LegacyNotifier ---------------------------
(***************************************************************************)
(* app/notifier/main.py, the worker that sends notification_outbox by      *)
(* Matrix, web push and email.  (docker-compose starts app.notifier, whose *)
(* __main__.py is modelled in OutboxNotifier; this one is started by hand.) *)
(*                                                                         *)
(* A batch is claimed in one statement that commits at once and is worked  *)
(* off without any transaction, so that a claim is only a status that      *)
(* another worker, or this one after a restart, may take back.             *)
(*                                                                         *)
(* A failure is recorded only when it is the last one: below the limit the *)
(* UPDATE binds an int to $4 || ' seconds', a parameter PostgreSQL takes   *)
(* for text, asyncpg refuses it and the exception ends run_once.           *)
(***************************************************************************)
EXTENDS Integers, FiniteSets

CONSTANTS
    Workers,
    Messages,     \* of one import, so that they share created_at
    Channel,      \* Channel[m]: "matrix", "email", "webpush" or another
    Parts,        \* Parts[m]: number of messages a digest is sent in (1 if it is none)
    DevicesOf,    \* DevicesOf[m]: subscriptions of the manager of m
    Devices,
    None,         \* no message
    BatchSize,
    Limits,       \* values of OUTBOX_MAX_ATTEMPTS
    MaxCredit,    \* bound: further copies the queueings of a row are counted to allow
    MaxLoad,      \* bound: messages times workers of a behaviour
    MaxFaults     \* bound: crashes of workers and failed statements

ASSUME LegacyAssumption ==
    /\ IsFiniteSet(Workers)
    /\ DOMAIN Channel = Messages
    /\ None \notin Messages
    /\ Parts \in [Messages -> Nat \ {0}]
    /\ DevicesOf \in [Messages -> SUBSET Devices]
    /\ BatchSize \in Nat \ {0} /\ Limits \subseteq Nat \ {0}
    /\ MaxCredit \in Nat /\ MaxCredit > Cardinality(Workers)
    /\ MaxLoad \in Nat /\ MaxFaults \in Nat

VARIABLES
    up,           \* the workers that were started
    MAX_ATTEMPTS, \* as they were started with
    status, attempts,   \* columns of notification_outbox; next_retry_at has always passed
    old,          \* their created_at is SENDING_STUCK_MINUTES ago
    active,       \* subscriptions with is_active
    \* each worker
    pc, batch, cur, seen,   \* its claimed rows, the one in work and its attempts when claimed
    todo,         \* parts, or devices, it has still to send to
    success,      \* a device took the notification
    \* observation
    got,          \* got[m]: parts, or devices, of m that were taken at least once
    copies,       \* copies[m][x]: times m was queued less copies x got of it
    faults

started    == <<up, MAX_ATTEMPTS>>
rowVars    == <<status, attempts, old>>
workerVars == <<pc, batch, cur, seen, todo, success>>
vars       == <<started, rowVars, active, workerVars, got, copies, faults>>

Targets(m) == IF Channel[m] = "webpush" THEN DevicesOf[m] ELSE 1 .. Parts[m]
NoClaims == [m \in {} |-> 0]

Init ==
    /\ up \in SUBSET Workers \ {{}}
    /\ MAX_ATTEMPTS \in Limits
    /\ status \in [Messages -> {"none", "queued"}]
    /\ Cardinality(up) * Cardinality({m \in Messages : status[m] = "queued"}) <= MaxLoad
    /\ attempts = [m \in Messages |-> 0]
    /\ old = FALSE
    /\ active = Devices
    /\ pc = [w \in Workers |-> "idle"]
    /\ batch = [w \in Workers |-> NoClaims]
    /\ cur = [w \in Workers |-> None]
    /\ seen = [w \in Workers |-> 0]
    /\ todo = [w \in Workers |-> {}]
    /\ success = [w \in Workers |-> FALSE]
    /\ got = [m \in Messages |-> {}]
    /\ copies = [m \in Messages |-> [x \in Targets(m) |-> 1]]
    /\ faults = 0

OneMore(m) == [x \in Targets(m) |-> IF copies[m][x] < MaxCredit THEN copies[m][x] + 1 ELSE MaxCredit]

-----------------------------------------------------------------------------
GoTo(w, step) == pc' = [pc EXCEPT ![w] = step]

\* The row in work is done with; the worker goes on with its batch, or its loop.
Finish(w) ==
    /\ GoTo(w, IF DOMAIN batch[w] = {} THEN "idle" ELSE "batch")
    /\ cur' = [cur EXCEPT ![w] = None]
    /\ seen' = [seen EXCEPT ![w] = 0]
    /\ todo' = [todo EXCEPT ![w] = {}]
    /\ success' = [success EXCEPT ![w] = FALSE]
    /\ UNCHANGED batch

\* The worker loses all it knows, by a crash or an exception that ends run_once.
Forget(w) ==
    /\ GoTo(w, "idle")
    /\ batch' = [batch EXCEPT ![w] = NoClaims]
    /\ cur' = [cur EXCEPT ![w] = None]
    /\ seen' = [seen EXCEPT ![w] = 0]
    /\ todo' = [todo EXCEPT ![w] = {}]
    /\ success' = [success EXCEPT ![w] = FALSE]

\* Mutant: rows are only taken back by hand.
_requeue_stuck_sending_never(w) ==
    /\ pc[w] = "idle"
    /\ GoTo(w, "fetch")
    /\ UNCHANGED <<rowVars, active, batch, cur, seen, todo, success, got, copies, faults>>

\* created_at, not the moment of the claim, tells how long a row is 'sending'.
_requeue_stuck_sending(w) ==
    /\ pc[w] = "idle"
    /\ LET stuck == {m \in Messages : status[m] = "sending" /\ old} IN
       /\ status' = [m \in Messages |-> IF m \in stuck THEN "queued" ELSE status[m]]
       /\ copies' = [m \in Messages |-> IF m \in stuck THEN OneMore(m) ELSE copies[m]]
    /\ GoTo(w, "fetch")
    /\ UNCHANGED <<attempts, old, active, batch, cur, seen, todo, success, got, faults>>

\* BatchSize rows that are queued become 'sending'; of rows with the same created_at any
\* may be first.
Ready   == {m \in Messages : status[m] = "queued"}
Batches == {B \in SUBSET Ready :
                Cardinality(B) <= BatchSize /\ (Cardinality(B) < BatchSize => B = Ready)}

Claim(w, rows) ==
    /\ pc[w] = "fetch"
    /\ batch' = [batch EXCEPT ![w] = [m \in rows |-> attempts[m]]]
    /\ GoTo(w, IF rows = {} THEN "idle" ELSE "batch")
    /\ UNCHANGED <<attempts, old, active, cur, seen, todo, success, got, copies, faults>>

\* Mutant: the claim is a SELECT, the status is left to whoever sends the row.
_fetch_and_lock_batch_select(w) == (\E B \in Batches : Claim(w, B)) /\ UNCHANGED status

_fetch_and_lock_batch(w) ==
    \E B \in Batches :
        /\ Claim(w, B)
        /\ status' = [m \in Messages |-> IF m \in B THEN "sending" ELSE status[m]]

\* run_once takes the next row; the batch has no order.
Take(w, m) ==
    /\ pc[w] = "batch"
    /\ m \in DOMAIN batch[w]
    /\ batch' = [batch EXCEPT ![w] = [k \in DOMAIN @ \ {m} |-> @[k]]]
    /\ cur' = [cur EXCEPT ![w] = m]
    /\ seen' = [seen EXCEPT ![w] = batch[w][m]]
    /\ LET to == CASE Channel[m] \in {"matrix", "email"} -> Targets(m)
                   [] Channel[m] = "webpush" -> DevicesOf[m] \cap active
                   [] OTHER -> {} IN
       /\ todo' = [todo EXCEPT ![w] = to]
       /\ GoTo(w, IF to = {} THEN "fail" ELSE IF Channel[m] = "webpush" THEN "push" ELSE "send")
    /\ UNCHANGED <<rowVars, active, success, got, copies, faults>>

Deliver(w, x) ==
    /\ got' = [got EXCEPT ![cur[w]] = @ \cup {x}]
    /\ copies' = [copies EXCEPT ![cur[w]][x] = @ - 1]
NoDelivery == UNCHANGED <<got, copies>>

\* Mutant: the first part that was taken ends the row.
SendPart_first(w) ==
    /\ pc[w] = "send"
    /\ LET x == CHOOSE y \in todo[w] : \A z \in todo[w] : y <= z IN
       \/ /\ Deliver(w, x)
          /\ todo' = [todo EXCEPT ![w] = {}]
          /\ GoTo(w, "mark")
       \/ (Deliver(w, x) \/ NoDelivery) /\ GoTo(w, "fail") /\ UNCHANGED todo
    /\ UNCHANGED <<rowVars, active, batch, cur, seen, success, faults>>

\* Matrix and email: the parts one after the other.  An exception ends the row, be it
\* that the message was refused or that it was taken and the answer is lost.
SendPart(w) ==
    /\ pc[w] = "send"
    /\ LET x == CHOOSE y \in todo[w] : \A z \in todo[w] : y <= z IN
       \/ /\ Deliver(w, x)
          /\ todo' = [todo EXCEPT ![w] = @ \ {x}]
          /\ GoTo(w, IF todo[w] = {x} THEN "mark" ELSE "send")
       \/ (Deliver(w, x) \/ NoDelivery) /\ GoTo(w, "fail") /\ UNCHANGED todo
    /\ UNCHANGED <<rowVars, active, batch, cur, seen, success, faults>>

\* send_webpush_many, one device after the other: an expired subscription is switched
\* off, which its push service tells by 404 or 410; other errors pass.
Push(w, d) ==
    /\ pc[w] = "push"
    /\ todo[w] # {} /\ d = CHOOSE x \in todo[w] : TRUE
    /\ todo' = [todo EXCEPT ![w] = @ \ {d}]
    /\ \/ /\ Deliver(w, d)
          /\ success' = [success EXCEPT ![w] = TRUE]
          /\ UNCHANGED active
       \/ /\ active' = active \ {d}
          /\ NoDelivery
          /\ UNCHANGED success
       \/ NoDelivery /\ UNCHANGED <<success, active>>
    /\ UNCHANGED <<rowVars, pc, batch, cur, seen, faults>>

EndPush(w) ==
    /\ pc[w] = "push"
    /\ todo[w] = {}
    /\ GoTo(w, IF success[w] THEN "mark" ELSE "fail")
    /\ UNCHANGED <<rowVars, active, batch, cur, seen, todo, success, got, copies, faults>>

_mark_sent(w) ==
    /\ pc[w] = "mark"
    /\ status' = [status EXCEPT ![cur[w]] = "sent"]
    /\ Finish(w)
    /\ UNCHANGED <<attempts, old, active, got, copies, faults>>

\* Mutant: the row's counter is raised, whoever has raised it before.
_mark_failed_relative(w) ==
    /\ pc[w] = "fail"
    /\ \/ /\ seen[w] + 1 >= MAX_ATTEMPTS
          /\ status' = [status EXCEPT ![cur[w]] = "dead"]
          /\ attempts' = [attempts EXCEPT ![cur[w]] = @ + 1]
          /\ Finish(w)
       \/ seen[w] + 1 < MAX_ATTEMPTS /\ Forget(w) /\ UNCHANGED <<status, attempts>>
    /\ UNCHANGED <<old, active, got, copies, faults>>

\* The last failure ends the row, whatever it holds by now: its attempts are those of the
\* claim plus one.  Any other cannot be recorded: the row stays 'sending' as it was, and
\* the worker drops the rest of its batch with it.
_mark_failed(w) ==
    /\ pc[w] = "fail"
    /\ \/ /\ seen[w] + 1 >= MAX_ATTEMPTS
          /\ status' = [status EXCEPT ![cur[w]] = "dead"]
          /\ attempts' = [attempts EXCEPT ![cur[w]] = seen[w] + 1]
          /\ Finish(w)
       \/ seen[w] + 1 < MAX_ATTEMPTS /\ Forget(w) /\ UNCHANGED <<status, attempts>>
    /\ UNCHANGED <<old, active, got, copies, faults>>

-----------------------------------------------------------------------------
Fault == faults < MaxFaults /\ faults' = faults + 1

\* A statement that fails after the message was sent makes it a failed one ...
MarkSentRaises(w) ==
    /\ pc[w] = "mark"
    /\ Fault
    /\ GoTo(w, "fail")
    /\ UNCHANGED <<rowVars, active, batch, cur, seen, todo, success, got, copies>>

\* ... and one that fails in the handler, or a crash, leaves the batch 'sending'.
Crash(w) ==
    /\ DOMAIN batch[w] # {} \/ cur[w] # None
    /\ Fault
    /\ Forget(w)
    /\ UNCHANGED <<rowVars, active, got, copies>>

\* Time passes.
GrowOld ==
    /\ ~old
    /\ old' = TRUE
    /\ UNCHANGED <<status, attempts, active, workerVars, got, copies, faults>>

run_once(w) ==
    \/ _requeue_stuck_sending(w) \/ _fetch_and_lock_batch(w)
    \/ \E m \in Messages : Take(w, m)
    \/ SendPart(w) \/ (\E d \in Devices : Push(w, d)) \/ EndPush(w)
    \/ _mark_sent(w) \/ _mark_failed(w)

Next ==
    /\ \/ \E w \in up : run_once(w) \/ MarkSentRaises(w) \/ Crash(w)
       \/ GrowOld
    /\ UNCHANGED started

\* run_forever never stops, and time never does.
Fairness ==
    /\ \A w \in Workers : WF_vars(w \in up /\ run_once(w) /\ UNCHANGED started)
    /\ WF_vars(GrowOld /\ UNCHANGED started)

Spec == Init /\ [][Next]_vars /\ Fairness

-----------------------------------------------------------------------------
(* Properties.                                                             *)

\* The columns and the workers hold what they should; no row has more attempts than the
\* limit, also when two workers give it up one after the other.
TypeOK ==
    /\ MAX_ATTEMPTS \in Limits
    /\ status \in [Messages -> {"none", "queued", "sending", "sent", "dead"}]
    /\ attempts \in [Messages -> 0 .. MAX_ATTEMPTS]
    /\ old \in BOOLEAN
    /\ active \subseteq Devices
    /\ pc \in [Workers -> {"idle", "fetch", "batch", "send", "push", "mark", "fail"}]
    /\ \A w \in Workers :
        /\ DOMAIN batch[w] \subseteq Messages
        /\ \A m \in DOMAIN batch[w] : batch[w][m] \in 0 .. MAX_ATTEMPTS - 1
    /\ cur \in [Workers -> Messages \cup {None}]
    /\ seen \in [Workers -> 0 .. MAX_ATTEMPTS - 1]
    /\ \A w \in Workers : pc[w] \in {"send", "push", "mark", "fail"} <=> cur[w] # None
    /\ \A w \in Workers : todo[w] # {} => todo[w] \subseteq Targets(cur[w])
    /\ success \in [Workers -> BOOLEAN]
    /\ \A m \in Messages : got[m] \subseteq Targets(m) /\ copies[m] \in [Targets(m) -> Int]
    /\ faults \in 0 .. MaxFaults

\* The targets in T are enough for message m: every part of it, or a device.
Complete(m, T) == IF Channel[m] = "webpush" THEN T # {} ELSE T = Targets(m)

\* A message that is marked sent was taken, also when workers take it from each other
\* in the middle.
SentWasDelivered ==
    \A m \in Messages : status[m] = "sent" => Complete(m, got[m])

\* Nobody gets a message twice without a cause: each further copy of a part needs a
\* requeue of its row, however many workers there are.
CopiesAreRetries ==
    \A m \in Messages : \A x \in Targets(m) : copies[m][x] >= 0

\* No failure is under way that main.py:216 cannot record.
FailuresAreRecorded == \A w \in Workers : pc[w] = "fail" => seen[w] + 1 >= MAX_ATTEMPTS

\* If such failures stop, every message is sent or given up for good in the end, although
\* workers crashed with rows they had claimed and lost their batches to exceptions.
EveryMessageEnds ==
    <>[]FailuresAreRecorded =>
        \A m \in Messages : <>[](status[m] \in {"none", "sent", "dead"})

PhaseOf(m) ==
    CASE status[m] = "none" -> "absent"
      [] status[m] = "sent" -> "confirmed"
      [] status[m] = "dead" -> "abandoned"
      [] OTHER -> "pending"
TakenInFull(m) == IF Complete(m, got[m]) THEN 1 ELSE 0

Promise == INSTANCE AtLeastOnce WITH
    phase  <- [m \in Messages |-> PhaseOf(m)],
    copies <- [m \in Messages |-> TakenInFull(m)]

\* A single worker does what AtLeastOnce allows, although it restarts, loses answers
\* and takes rows back by the age of their import: it changes no row that is sent or
\* dead and confirms none that was not taken.  (Of two, one may mark dead what the other sent.)
LoneWorkerKeepsPromise ==
    [][Cardinality(up) = 1 => [Promise!Next]_(Promise!vars)]_vars
=============================================================================
