----------------------- MODULE OutboxNotifier_proofs -----------------------
(***************************************************************************)
(* Theorems about OutboxNotifier for every number of rows, notifiers and   *)
(* attempts, every delay and every number of faults.                       *)
(***************************************************************************)
EXTENDS OutboxNotifier, FiniteSetTheorems, TLAPS

-----------------------------------------------------------------------------
(* The inductive invariant, part by part.                                  *)

\* What a process holds at each label of its loop.
ProcessInv ==
    \A n \in Notifiers :
        /\ pc[n] = "reply" => cur[n] \in Rows \ todo[n] /\ reply[n] # NoReply
        /\ pc[n] # "reply" => cur[n] = NoRow /\ reply[n] = NoReply
        /\ pc[n] \notin {"batch", "reply"} => todo[n] = {}

\* A row whose acceptance is about to be recorded is in the room.
AcceptedInv ==
    \A n \in Notifiers : reply[n] = Accepted => delivered[cur[n]] > 0

-----------------------------------------------------------------------------
LEMMA ReplyKinds ==
    /\ {NoReply, Accepted} \cup Failures = Replies
    /\ Accepted # NoReply /\ NoReply \notin Failures /\ Accepted \notin Failures
    /\ {Outage, Rejected} \subseteq Failures
BY DEF Replies, Failures, NoReply, Accepted, Limited, Outage, Rejected

LEMMA BatchSubset ==
    ASSUME NEW limit, NEW S \in Batches(limit)
    PROVE  /\ S \subseteq Claimable
           /\ S \subseteq Rows
BY DEF Batches, Claimable

\* mark_failed gets to its end only if the row dies by it.
LEMMA MarkFailedEnds ==
    ASSUME NEW r \in Rows, mark_failed(r)
    PROVE  /\ attempts[r] + 1 >= MaxAttempts
           /\ attempts' = [attempts EXCEPT ![r] = @ + 1]
           /\ status' = [status EXCEPT ![r] = "dead"]
           /\ sendingFor' = [sendingFor EXCEPT ![r] = Null]
           /\ due' = [due EXCEPT ![r] = 0]
BY DEF mark_failed, set_next_retry_at

LEMMA MarkFailedType ==
    ASSUME TypeOK, NEW r \in Rows, mark_failed(r)
    PROVE  /\ attempts' \in [Rows -> Nat] /\ status' \in [Rows -> Statuses]
           /\ due' \in [Rows -> Int] /\ sendingFor' \in [Rows -> Nat \cup {Null}]
BY MarkFailedEnds DEF TypeOK, Statuses

LEMMA FaultType ==
    ASSUME TypeOK, NEW hit, Fault(hit)
    PROVE  slips' \in [Rows -> Nat] /\ faults' \in Nat
BY DEF Fault, TypeOK

LEMMA ForgottenType ==
    ASSUME TypeOK, NEW n, Forgotten(n)
    PROVE  charged' \in [Rows -> Int]
BY DEF Forgotten, TypeOK

LEMMA SetsOfBatch ==
    ASSUME TypeOK, NEW S \in SUBSET Rows
    PROVE  /\ [q \in Rows |-> IF q \in S THEN "sending" ELSE status[q]] \in [Rows -> Statuses]
           /\ [q \in Rows |-> IF q \in S THEN 0 ELSE sendingFor[q]] \in [Rows -> Nat \cup {Null}]
BY DEF TypeOK, Statuses

-----------------------------------------------------------------------------
(* Types, and what a process holds at each label.                          *)

TypeInv == TypeOK /\ ProcessInv

LEMMA TypeInvInit == Init => TypeInv
<1> SUFFICES ASSUME Init PROVE TypeInv
  OBVIOUS
<1>1. guard \in {"CLOSED", "OPEN", "HALF_OPEN"} /\ openFor \in Nat
  BY NotifierAssumption DEF Init, GuardAsFound
<1>2. QED BY <1>1, NotifierAssumption, ReplyKinds DEF Init, TypeInv, TypeOK, ProcessInv, Statuses

LEMMA TypeInvStep == TypeInv /\ [Next]_vars => TypeInv'
<1> SUFFICES ASSUME TypeInv, [Next]_vars PROVE TypeInv'
  OBVIOUS
<1> USE NotifierAssumption DEF TypeInv
<1>1. CASE Tick
  <2>1. due' \in [Rows -> Int] /\ sendingFor' \in [Rows -> Nat \cup {Null}] /\ openFor' \in Nat
    BY <1>1, SMTT(30) DEF Tick, TypeOK, AtLeast, AtMost, Null
  <2>2. QED BY <1>1, <2>1 DEF Tick, TypeOK, ProcessInv, procVars, counters
<1>2. ASSUME NEW r \in Rows, Enqueue(r) PROVE TypeInv'
  BY <1>2 DEF Enqueue, TypeOK, ProcessInv, Statuses, guardVars, procVars, counters
<1>3. ASSUME NEW n \in Notifiers, watchdog_sending_stuck(n) PROVE TypeInv'
  BY <1>3 DEF watchdog_sending_stuck, GoTo, TypeOK, ProcessInv, Statuses, Null, guardVars, counters
<1>4. ASSUME NEW n \in Notifiers, guard_get(n) PROVE TypeInv'
  BY <1>4 DEF guard_get, GoTo, TypeOK, ProcessInv, tableVars, guardVars, counters
<1>5. ASSUME NEW n \in Notifiers, guard_half_open(n) PROVE TypeInv'
  BY <1>5 DEF guard_half_open, GoTo, TypeOK, ProcessInv, tableVars, counters
<1>6. ASSUME NEW n \in Notifiers, SendingDisabled(n) PROVE TypeInv'
  BY <1>6 DEF SendingDisabled, GoTo, TypeOK, ProcessInv, tableVars, guardVars, counters
<1>7. ASSUME NEW n \in Notifiers, claim_batch(n) PROVE TypeInv'
  <2>1. PICK S \in SUBSET Rows :
          /\ todo' = [todo EXCEPT ![n] = S]
          /\ status' = [r \in Rows |-> IF r \in S THEN "sending" ELSE status[r]]
          /\ sendingFor' = [r \in Rows |-> IF r \in S THEN 0 ELSE sendingFor[r]]
          /\ GoTo(n, IF S = {} THEN "poll" ELSE "batch")
    BY <1>7, BatchSubset DEF claim_batch
  <2>2. status' \in [Rows -> Statuses] /\ sendingFor' \in [Rows -> Nat \cup {Null}]
    BY <2>1, SetsOfBatch
  <2>3. QED BY <1>7, <2>1, <2>2 DEF claim_batch, GoTo, TypeOK, ProcessInv, guardVars, counters
<1>8. ASSUME NEW n \in Notifiers, IterationFails(n) PROVE TypeInv'
  BY <1>8, FaultType DEF IterationFails, GoTo, TypeOK, ProcessInv, tableVars, guardVars
<1>9. ASSUME NEW n \in Notifiers, NEW r \in Rows, Refuse(n, r) PROVE TypeInv'
  <2>1. /\ attempts' \in [Rows -> Nat] /\ status' \in [Rows -> Statuses]
        /\ due' \in [Rows -> Int] /\ sendingFor' \in [Rows -> Nat \cup {Null}]
        /\ slips' \in [Rows -> Nat] /\ faults' \in Nat
    <3>1. CASE mark_failed(r) /\ UNCHANGED <<slips, faults>>
      BY <3>1, MarkFailedType DEF TypeOK
    <3>2. CASE Fault({}) /\ UNCHANGED tableVars
      BY <3>2, FaultType DEF TypeOK, tableVars
    <3>3. CASE UNCHANGED <<slips, faults>> /\ UNCHANGED tableVars
      BY <3>3 DEF TypeOK, tableVars
    <3>4. QED BY <1>9, <3>1, <3>2, <3>3 DEF Refuse
  <2>2. QED BY <1>9, <2>1 DEF Refuse, GoTo, TypeOK, ProcessInv, guardVars
<1>10. ASSUME NEW n \in Notifiers, NEW r \in Rows, matrix_send(n, r) PROVE TypeInv'
  <2>1. /\ delivered' \in [Rows -> Nat] /\ slips' \in [Rows -> Nat] /\ faults' \in Nat
        /\ reply' \in [Notifiers -> Replies] /\ reply'[n] # NoReply
        /\ \A m \in Notifiers \ {n} : reply'[m] = reply[m]
    <3>1. CASE /\ reply' = [reply EXCEPT ![n] = Accepted]
               /\ delivered' = [delivered EXCEPT ![r] = @ + 1]
               /\ UNCHANGED <<slips, faults>>
      <4>1. Accepted \in Replies /\ Accepted # NoReply
        BY ReplyKinds
      <4>2. delivered' \in [Rows -> Nat] /\ slips' \in [Rows -> Nat] /\ faults' \in Nat
        BY <3>1 DEF TypeOK
      <4>3. /\ reply' \in [Notifiers -> Replies] /\ reply'[n] # NoReply
            /\ \A m \in Notifiers \ {n} : reply'[m] = reply[m]
        BY <3>1, <4>1 DEF TypeOK
      <4>4. QED BY <4>2, <4>3
    <3>2. CASE /\ \E a \in Failures : reply' = [reply EXCEPT ![n] = a]
               /\ UNCHANGED <<delivered, slips, faults>>
      <4>1. delivered' \in [Rows -> Nat] /\ slips' \in [Rows -> Nat] /\ faults' \in Nat
        BY <3>2 DEF TypeOK
      <4>2. /\ reply' \in [Notifiers -> Replies] /\ reply'[n] # NoReply
            /\ \A m \in Notifiers \ {n} : reply'[m] = reply[m]
        BY <3>2, ReplyKinds DEF TypeOK
      <4>3. QED BY <4>1, <4>2
    <3>3. CASE /\ \E a \in {Outage, Rejected} : reply' = [reply EXCEPT ![n] = a]
               /\ delivered' = [delivered EXCEPT ![r] = @ + 1]
               /\ Fault({r})
      <4>1. {Outage, Rejected} \subseteq Replies /\ NoReply \notin {Outage, Rejected}
        BY ReplyKinds
      <4>2. slips' \in [Rows -> Nat] /\ faults' \in Nat
        BY <3>3, FaultType
      <4>3. PICK a \in Replies : a # NoReply /\ reply' = [reply EXCEPT ![n] = a]
        BY <3>3, <4>1
      <4>4. delivered' \in [Rows -> Nat]
        BY <3>3 DEF TypeOK
      <4>5. QED BY <4>2, <4>3, <4>4 DEF TypeOK
    <3>4. QED BY <1>10, <3>1, <3>2, <3>3 DEF matrix_send
  <2>2. sends' \in [Rows -> Nat] /\ charged' \in [Rows -> Int]
    BY <1>10 DEF matrix_send, TypeOK, AtMost
  <2>3. QED BY <1>10, <2>1, <2>2 DEF matrix_send, GoTo, TypeOK, ProcessInv, tableVars, guardVars
<1>11. ASSUME NEW n \in Notifiers, RecordSent(n) PROVE TypeInv'
  BY <1>11, ReplyKinds
  DEF RecordSent, mark_sent, guard_close, NextRow, GoTo, TypeOK, ProcessInv, Statuses, counters
<1>12. ASSUME NEW n \in Notifiers, RecordSentFails(n) PROVE TypeInv'
  <2>1. slips' \in [Rows -> Nat] /\ faults' \in Nat /\ charged' \in [Rows -> Int]
    BY <1>12, FaultType, ForgottenType DEF RecordSentFails
  <2>2. QED
    BY <1>12, <2>1, ReplyKinds
    DEF RecordSentFails, NextRow, GoTo, TypeOK, ProcessInv, tableVars, guardVars
<1>13. ASSUME NEW n \in Notifiers, RecordFailed(n) PROVE TypeInv'
  <2>1. cur[n] \in Rows
    BY <1>13 DEF RecordFailed, ProcessInv
  <2>2. UNCHANGED guardVars
    BY <1>13 DEF RecordFailed, guard_open
  <2>3. /\ attempts' \in [Rows -> Nat] /\ status' \in [Rows -> Statuses]
        /\ due' \in [Rows -> Int] /\ sendingFor' \in [Rows -> Nat \cup {Null}]
    BY <1>13, <2>1, MarkFailedType DEF RecordFailed
  <2>4. QED
    BY <1>13, <2>2, <2>3, ReplyKinds
    DEF RecordFailed, NextRow, GoTo, TypeOK, ProcessInv, guardVars, counters
<1>14. ASSUME NEW n \in Notifiers, FailureRolledBack(n) PROVE TypeInv'
  <2>1. slips' \in [Rows -> Nat] /\ faults' \in Nat /\ charged' \in [Rows -> Int]
    BY <1>14, FaultType, ForgottenType DEF FailureRolledBack, TypeOK
  <2>2. CASE DropBatch(n)
    BY <1>14, <2>1, <2>2, ReplyKinds
    DEF FailureRolledBack, DropBatch, GoTo, TypeOK, ProcessInv, tableVars, guardVars
  <2>3. CASE NextRow(n)
    BY <1>14, <2>1, <2>3, ReplyKinds
    DEF FailureRolledBack, NextRow, GoTo, TypeOK, ProcessInv, tableVars, guardVars
  <2>4. QED BY <1>14, <2>2, <2>3 DEF FailureRolledBack
<1>15. ASSUME NEW n \in Notifiers, Crash(n) PROVE TypeInv'
  <2>1. slips' \in [Rows -> Nat] /\ faults' \in Nat /\ charged' \in [Rows -> Int]
    BY <1>15, FaultType, ForgottenType DEF Crash
  <2>2. QED
    BY <1>15, <2>1, ReplyKinds DEF Crash, DropBatch, GoTo, TypeOK, ProcessInv, tableVars, guardVars
<1>16. CASE UNCHANGED vars
  BY <1>16 DEF TypeOK, ProcessInv, vars, tableVars, guardVars, procVars, counters
<1>17. QED
  BY <1>1, <1>2, <1>3, <1>4, <1>5, <1>6, <1>7, <1>8, <1>9, <1>10, <1>11, <1>12,
     <1>13, <1>14, <1>15, <1>16
  DEF Next, PollOnce, HandleRow, Trouble

\* The tables, the guard and the local variables of the processes always have
\* the types their columns and annotations give them.
THEOREM TypeCorrect == Spec => []TypeOK
<1>1. TypeInv => TypeOK
  BY DEF TypeInv
<1>2. QED BY TypeInvInit, TypeInvStep, <1>1, PTL DEF Spec

-----------------------------------------------------------------------------
(* The watchdog and the retry budget: the marks of mark_failed, mark_sent   *)
(* and claim_batch, whoever makes them and however late.                    *)

LEMMA MarkFailedTable ==
    ASSUME TypeOK, WatchdogSeesSending, RetryBudget,
           NEW r \in Rows, mark_failed(r)
    PROVE  WatchdogSeesSending' /\ RetryBudget'
<1>1. WatchdogSeesSending'
  BY MarkFailedEnds DEF TypeOK, WatchdogSeesSending
<1>2. RetryBudget'
  BY MarkFailedEnds, NotifierAssumption DEF TypeOK, Settled, RetryBudget
<1>3. QED BY <1>1, <1>2

LEMMA TableStep ==
    TypeInv /\ WatchdogSeesSending /\ RetryBudget /\ [Next]_vars
        => WatchdogSeesSending' /\ RetryBudget'
<1> SUFFICES ASSUME TypeInv, WatchdogSeesSending, RetryBudget, [Next]_vars
             PROVE  WatchdogSeesSending' /\ RetryBudget'
  OBVIOUS
<1> USE NotifierAssumption DEF TypeInv
<1>1. CASE UNCHANGED tableVars
  BY <1>1 DEF tableVars, Settled, WatchdogSeesSending, RetryBudget
<1>2. CASE Tick
  <2>1. ASSUME NEW r \in Rows PROVE sendingFor'[r] = Null <=> sendingFor[r] = Null
    <3>1. sendingFor[r] \in Nat \cup {Null}
      BY DEF TypeOK
    <3>2. sendingFor'[r] = IF sendingFor[r] = Null
                           THEN Null ELSE AtMost(sendingFor[r] + 1, SendingStuck + 1)
      BY <1>2 DEF Tick
    <3>3. QED BY <3>1, <3>2 DEF AtMost, Null
  <2>2. QED BY <1>2, <2>1 DEF Tick, Settled, WatchdogSeesSending, RetryBudget
<1>3. ASSUME NEW r \in Rows, Enqueue(r) PROVE WatchdogSeesSending' /\ RetryBudget'
  BY <1>3 DEF Enqueue, TypeOK, Settled, WatchdogSeesSending, RetryBudget
<1>4. ASSUME NEW n \in Notifiers, watchdog_sending_stuck(n) PROVE WatchdogSeesSending' /\ RetryBudget'
  BY <1>4 DEF watchdog_sending_stuck, TypeOK, Stuck, Settled, WatchdogSeesSending, RetryBudget
<1>5. ASSUME NEW n \in Notifiers, claim_batch(n) PROVE WatchdogSeesSending' /\ RetryBudget'
  <2>1. PICK S \in SUBSET Claimable :
          /\ status' = [r \in Rows |-> IF r \in S THEN "sending" ELSE status[r]]
          /\ sendingFor' = [r \in Rows |-> IF r \in S THEN 0 ELSE sendingFor[r]]
    BY <1>5, BatchSubset DEF claim_batch
  <2>2. WatchdogSeesSending'
    BY <2>1 DEF Claimable, Null, WatchdogSeesSending
  <2>3. RetryBudget'
    BY <1>5, <2>1 DEF claim_batch, Claimable, Waiting, Settled, RetryBudget
  <2>4. QED BY <2>2, <2>3
<1>6. ASSUME NEW n \in Notifiers, NEW r \in Rows, Refuse(n, r) PROVE WatchdogSeesSending' /\ RetryBudget'
  BY <1>1, <1>6, MarkFailedTable DEF Refuse
<1>7. ASSUME NEW n \in Notifiers, RecordSent(n) PROVE WatchdogSeesSending' /\ RetryBudget'
  BY <1>7 DEF RecordSent, mark_sent, TypeOK, Settled, WatchdogSeesSending, RetryBudget
<1>8. ASSUME NEW n \in Notifiers, RecordFailed(n) PROVE WatchdogSeesSending' /\ RetryBudget'
  <2>1. cur[n] \in Rows
    BY <1>8 DEF RecordFailed, ProcessInv
  <2>2. QED BY <1>8, <2>1, MarkFailedTable DEF RecordFailed
<1>9. QED
  BY <1>1, <1>2, <1>3, <1>4, <1>5, <1>6, <1>7, <1>8
  DEF Next, PollOnce, HandleRow, Trouble, vars, guard_get, guard_half_open, SendingDisabled,
      IterationFails, matrix_send, RecordSentFails, FailureRolledBack, Crash

\* Every row in 'sending' carries the stamp the watchdog looks for.
THEOREM WatchdogSees == Spec => []WatchdogSeesSending
<1>1. Init => WatchdogSeesSending /\ RetryBudget
  BY NotifierAssumption DEF Init, Settled, WatchdogSeesSending, RetryBudget
<1>2. QED BY <1>1, TypeInvInit, TypeInvStep, TableStep, PTL DEF Spec

\* A row is retried while it has attempts left and given up when it has none.
THEOREM RetriesBounded == Spec => []RetryBudget
<1>1. Init => WatchdogSeesSending /\ RetryBudget
  BY NotifierAssumption DEF Init, Settled, WatchdogSeesSending, RetryBudget
<1>2. QED BY <1>1, TypeInvInit, TypeInvStep, TableStep, PTL DEF Spec

-----------------------------------------------------------------------------
(* A row marked sent is in the room.                                       *)

LEMMA DeliveredGrows ==
    ASSUME TypeInv, [Next]_vars, NEW r \in Rows
    PROVE  delivered'[r] >= delivered[r]
<1>1. CASE UNCHANGED delivered
  BY <1>1 DEF TypeInv, TypeOK
<1>2. ASSUME NEW n \in Notifiers, NEW q \in Rows, matrix_send(n, q)
      PROVE  delivered'[r] >= delivered[r]
  BY <1>2 DEF matrix_send, TypeInv, TypeOK
<1>3. QED
  BY <1>1, <1>2
  DEF Next, PollOnce, HandleRow, Trouble, vars, counters, Tick, Enqueue, watchdog_sending_stuck,
      guard_get, guard_half_open, SendingDisabled, claim_batch, IterationFails, Refuse, RecordSent,
      RecordSentFails, RecordFailed, FailureRolledBack, Crash

LEMMA AcceptedStep == TypeInv /\ AcceptedInv /\ [Next]_vars => AcceptedInv'
<1> SUFFICES ASSUME TypeInv, AcceptedInv, [Next]_vars, NEW m \in Notifiers, reply'[m] = Accepted
             PROVE  delivered'[cur'[m]] > 0
  BY DEF AcceptedInv
<1>1. TypeInv'
  BY TypeInvStep
<1>2. cur'[m] \in Rows
  BY <1>1, ReplyKinds DEF TypeInv, ProcessInv
<1>3. CASE cur'[m] = cur[m] /\ reply'[m] = reply[m]
  BY <1>1, <1>2, <1>3, DeliveredGrows DEF AcceptedInv, TypeInv, TypeOK
<1>4. ASSUME NEW n \in Notifiers, NEW r \in Rows, matrix_send(n, r), cur'[m] # cur[m] \/ reply'[m] # reply[m]
      PROVE  delivered'[cur'[m]] > 0
  <2>1. m = n /\ cur'[m] = r
    BY <1>4 DEF matrix_send, TypeInv, TypeOK
  <2>2. delivered'[r] = delivered[r] + 1
    BY <1>4, <2>1, ReplyKinds DEF matrix_send, TypeInv, TypeOK
  <2>3. QED BY <2>1, <2>2 DEF TypeInv, TypeOK
<1>5. ASSUME NEW n \in Notifiers, NextRow(n) \/ DropBatch(n) PROVE cur'[m] = cur[m] /\ reply'[m] = reply[m]
  BY <1>5, ReplyKinds DEF NextRow, DropBatch, TypeInv, TypeOK
<1>6. QED
  BY <1>3, <1>4, <1>5
  DEF Next, PollOnce, HandleRow, Trouble, vars, procVars, Tick, Enqueue, watchdog_sending_stuck,
      guard_get, guard_half_open, SendingDisabled, claim_batch, IterationFails, Refuse, RecordSent,
      RecordSentFails, RecordFailed, FailureRolledBack, Crash

\* Only RecordSent marks a row sent, and only the row it was sending.
LEMMA OnlyRecordSent ==
    ASSUME TypeInv, [Next]_vars, NEW r \in Rows, status'[r] = "sent", status[r] # "sent"
    PROVE  \E n \in Notifiers : RecordSent(n) /\ cur[n] = r
<1> USE DEF TypeInv
<1>1. ASSUME NEW q \in Rows, mark_failed(q) PROVE FALSE
  BY <1>1, MarkFailedEnds DEF TypeOK
<1>2. ASSUME NEW n \in Notifiers, RecordSent(n) PROVE cur[n] = r
  BY <1>2 DEF RecordSent, mark_sent, TypeOK
<1>3. ASSUME NEW n \in Notifiers, claim_batch(n) PROVE FALSE
  BY <1>3, BatchSubset DEF claim_batch
<1>4. ASSUME NEW n \in Notifiers, watchdog_sending_stuck(n) PROVE FALSE
  BY <1>4 DEF watchdog_sending_stuck
<1>5. ASSUME NEW q \in Rows, Enqueue(q) PROVE FALSE
  BY <1>5 DEF Enqueue, TypeOK
<1>6. ASSUME NEW n \in Notifiers, RecordFailed(n) PROVE FALSE
  BY <1>1, <1>6 DEF RecordFailed, ProcessInv
<1>7. ASSUME NEW n \in Notifiers, NEW q \in Rows, Refuse(n, q) PROVE FALSE
  BY <1>1, <1>7 DEF Refuse, tableVars
<1>8. status' # status
  OBVIOUS
<1>9. QED
  BY <1>2, <1>3, <1>4, <1>5, <1>6, <1>7, <1>8
  DEF Next, PollOnce, HandleRow, Trouble, vars, tableVars, Tick, guard_get, guard_half_open,
      SendingDisabled, IterationFails, matrix_send, RecordSentFails, FailureRolledBack, Crash

LEMMA SentStep == TypeInv /\ AcceptedInv /\ SentWasDelivered /\ [Next]_vars => SentWasDelivered'
<1> SUFFICES ASSUME TypeInv, AcceptedInv, SentWasDelivered, [Next]_vars,
                    NEW r \in Rows, status'[r] = "sent"
             PROVE  delivered'[r] > 0
  BY DEF SentWasDelivered
<1>1. delivered[r] > 0
  <2>1. CASE status[r] = "sent"
    BY <2>1 DEF SentWasDelivered
  <2>2. CASE status[r] # "sent"
    BY <2>2, OnlyRecordSent DEF RecordSent, AcceptedInv
  <2>3. QED BY <2>1, <2>2
<1>2. TypeInv'
  BY TypeInvStep
<1>3. QED BY <1>1, <1>2, DeliveredGrows DEF TypeInv, TypeOK

\* A row is marked sent only after the room took its message.
THEOREM SentIsDelivered == Spec => []SentWasDelivered
<1>1. Init => AcceptedInv /\ SentWasDelivered
  BY ReplyKinds DEF Init, AcceptedInv, SentWasDelivered
<1>2. QED BY <1>1, TypeInvInit, TypeInvStep, AcceptedStep, SentStep, PTL DEF Spec

-----------------------------------------------------------------------------
(* One process at a time works on a row.                                   *)

\* In a deployment with timely batches, no held row is old enough for the watchdog.
FreshBatches ==
    TimelyBatches => \A n \in Notifiers : \A r \in Held(n) : sendingFor[r] <= SendingStuck

OwnInv == OwnedOnce /\ FreshBatches

\* A step that leaves the table alone and only drops held rows keeps OwnInv.
LEMMA KeepRows ==
    ASSUME OwnInv, UNCHANGED <<status, sendingFor>>,
           \A m \in Notifiers : Held(m)' \subseteq Held(m)
    PROVE  OwnInv'
<1>1. OwnedOnce'
  BY DEF OwnInv, OwnedOnce, Exclusive
<1>2. FreshBatches'
  BY DEF OwnInv, FreshBatches
<1>3. QED BY <1>1, <1>2 DEF OwnInv

\* So does a step in which a process gives up one row and changes only that row.
LEMMA ReleaseRow ==
    ASSUME OwnInv, Exclusive, NEW n \in Notifiers, NEW r \in Held(n),
           \A q \in Rows \ {r} : status'[q] = status[q] /\ sendingFor'[q] = sendingFor[q],
           \A m \in Notifiers : Held(m) \subseteq Rows,
           \A m \in Notifiers \ {n} : Held(m)' = Held(m),
           Held(n)' \subseteq Held(n) \ {r}
    PROVE  OwnInv'
<1>1. \A m \in Notifiers : Held(m)' \subseteq Held(m) \ {r}
  BY DEF OwnInv, OwnedOnce
<1>2. OwnedOnce'
  BY <1>1 DEF OwnInv, OwnedOnce, Exclusive
<1>3. FreshBatches'
  BY <1>1 DEF OwnInv, FreshBatches
<1>4. QED BY <1>2, <1>3 DEF OwnInv

LEMMA HeldRows ==
    ASSUME TypeInv, NEW n \in Notifiers
    PROVE  /\ Held(n) \subseteq Rows
           /\ pc[n] \notin {"batch", "reply"} => Held(n) = {}
           /\ pc[n] = "batch" => Held(n) = todo[n]
           /\ pc[n] = "reply" => cur[n] \in Held(n) /\ Held(n) = todo[n] \cup {cur[n]}
BY NotifierAssumption DEF TypeInv, TypeOK, ProcessInv, Held

LEMMA ClaimKeepsOwnership ==
    ASSUME TypeInv, OwnInv, Exclusive, NEW n \in Notifiers, claim_batch(n)
    PROVE  OwnInv'
<1> USE DEF TypeInv
<1>1. PICK S \in SUBSET Claimable :
        /\ todo' = [todo EXCEPT ![n] = S]
        /\ status' = [r \in Rows |-> IF r \in S THEN "sending" ELSE status[r]]
        /\ sendingFor' = [r \in Rows |-> IF r \in S THEN 0 ELSE sendingFor[r]]
  BY BatchSubset DEF claim_batch
<1>2. Held(n)' = S
  BY <1>1 DEF claim_batch, Held, TypeOK, ProcessInv
<1>3. \A m \in Notifiers \ {n} : Held(m)' = Held(m)
  BY <1>1 DEF claim_batch, Held, TypeOK
<1>4. \A m \in Notifiers : Held(m) \cap S = {}
  BY DEF OwnInv, OwnedOnce, Claimable, Waiting
<1>5. S \subseteq Rows /\ \A m \in Notifiers : Held(m) \subseteq Rows
  BY HeldRows DEF Claimable
<1>6. OwnedOnce'
  BY <1>1, <1>2, <1>3, <1>4, <1>5 DEF OwnInv, OwnedOnce, Exclusive
<1>7. FreshBatches'
  BY <1>1, <1>2, <1>3, <1>4, <1>5, NotifierAssumption DEF OwnInv, FreshBatches
<1>8. QED BY <1>6, <1>7 DEF OwnInv

\* The watchdog leaves the held rows alone: they are too young, or, with a
\* single notifier, there are none while it runs.
LEMMA WatchdogSparesHeld ==
    ASSUME TypeInv, OwnInv, Exclusive, NEW n \in Notifiers, watchdog_sending_stuck(n)
    PROVE  OwnInv'
<1>1. \A m \in Notifiers : Held(m)' = Held(m)
  BY DEF watchdog_sending_stuck, Held
<1>2. \A m \in Notifiers : \A r \in Held(m) : r \notin Stuck
  <2>1. CASE TimelyBatches
    <3> SUFFICES ASSUME NEW m \in Notifiers, NEW r \in Held(m), r \in Stuck PROVE FALSE
      OBVIOUS
    <3>1. sendingFor[r] <= SendingStuck /\ sendingFor[r] > SendingStuck
      BY <2>1 DEF OwnInv, FreshBatches, Stuck
    <3>2. sendingFor[r] \in Int /\ SendingStuck \in Int
      BY NotifierAssumption DEF Stuck, TypeInv, TypeOK, Null
    <3>3. QED BY <3>1, <3>2
  <2>2. CASE \A m, k \in Notifiers : m = k
    BY <2>2, HeldRows DEF watchdog_sending_stuck
  <2>3. QED BY <2>1, <2>2 DEF Exclusive
<1>3. \A m \in Notifiers : \A r \in Held(m) : status'[r] = status[r] /\ sendingFor'[r] = sendingFor[r]
  BY <1>2, HeldRows DEF watchdog_sending_stuck
<1>4. QED BY <1>1, <1>3 DEF OwnInv, OwnedOnce, FreshBatches, Exclusive

LEMMA TickKeepsOwnership ==
    ASSUME TypeInv, OwnInv, Tick
    PROVE  OwnInv'
<1>1. \A m \in Notifiers : Held(m)' = Held(m)
  BY DEF Tick, Held, procVars
<1>2. OwnedOnce'
  BY <1>1 DEF Tick, OwnInv, OwnedOnce, Exclusive
<1>3. FreshBatches'
  <2> SUFFICES ASSUME TimelyBatches, NEW n \in Notifiers, NEW r \in Held(n)
               PROVE  sendingFor'[r] <= SendingStuck
    BY <1>1 DEF FreshBatches
  <2>1. r \in Rows
    BY HeldRows
  <2>2. sendingFor[r] < SendingStuck
    BY DEF Tick
  <2>3. sendingFor'[r] = IF sendingFor[r] = Null
                         THEN Null ELSE AtMost(sendingFor[r] + 1, SendingStuck + 1)
    BY <2>1 DEF Tick
  <2>4. sendingFor[r] \in Int /\ SendingStuck \in Nat
    BY <2>1, NotifierAssumption DEF TypeInv, TypeOK, Null
  <2>5. QED BY <2>2, <2>3, <2>4 DEF AtMost, Null
<1>4. QED BY <1>2, <1>3 DEF OwnInv

LEMMA OwnStep == Exclusive /\ TypeInv /\ OwnInv /\ [Next]_vars => OwnInv'
<1> SUFFICES ASSUME Exclusive, TypeInv, OwnInv, [Next]_vars PROVE OwnInv'
  OBVIOUS
<1>1. CASE UNCHANGED <<status, sendingFor, todo, cur>>
  BY <1>1, KeepRows DEF Held
<1>2. CASE Tick
  BY <1>2, TickKeepsOwnership
<1>3. ASSUME NEW r \in Rows, Enqueue(r) PROVE OwnInv'
  <2>1. \A m \in Notifiers : Held(m)' = Held(m)
    BY <1>3 DEF Enqueue, Held, procVars
  <2>2. \A m \in Notifiers : r \notin Held(m)
    BY <1>3 DEF Enqueue, OwnInv, OwnedOnce
  <2>3. \A m \in Notifiers : \A q \in Held(m) : status'[q] = status[q] /\ sendingFor'[q] = sendingFor[q]
    BY <1>3, <2>2, HeldRows DEF Enqueue, TypeInv, TypeOK
  <2>4. QED BY <2>1, <2>3 DEF OwnInv, OwnedOnce, FreshBatches, Exclusive
<1>4. ASSUME NEW n \in Notifiers, watchdog_sending_stuck(n) PROVE OwnInv'
  BY <1>4, WatchdogSparesHeld
<1>5. ASSUME NEW n \in Notifiers, claim_batch(n) PROVE OwnInv'
  BY <1>5, ClaimKeepsOwnership
<1>6. ASSUME NEW n \in Notifiers, NEW r \in Rows, Refuse(n, r) PROVE OwnInv'
  <2>1. /\ r \in Held(n) /\ Held(n)' \subseteq Held(n) \ {r}
        /\ \A m \in Notifiers \ {n} : Held(m)' = Held(m)
    BY <1>6 DEF Refuse, Held, TypeInv, TypeOK, ProcessInv
  <2>2. \A q \in Rows \ {r} : status'[q] = status[q] /\ sendingFor'[q] = sendingFor[q]
    <3>1. CASE mark_failed(r)
      BY <3>1, MarkFailedEnds DEF TypeInv, TypeOK
    <3>2. CASE UNCHANGED tableVars
      BY <3>2 DEF tableVars
    <3>3. QED BY <1>6, <3>1, <3>2 DEF Refuse
  <2>3. QED BY <2>1, <2>2, HeldRows, ReleaseRow
<1>7. ASSUME NEW n \in Notifiers, NEW r \in Rows, matrix_send(n, r) PROVE OwnInv'
  <2>1. \A m \in Notifiers : Held(m)' \subseteq Held(m)
    BY <1>7 DEF matrix_send, Held, TypeInv, TypeOK
  <2>2. QED BY <1>7, <2>1, KeepRows DEF matrix_send, tableVars
<1>8. ASSUME NEW n \in Notifiers, NextRow(n) \/ DropBatch(n), pc[n] = "reply"
      PROVE  /\ cur[n] \in Held(n) /\ Held(n)' \subseteq Held(n) \ {cur[n]}
             /\ \A m \in Notifiers \ {n} : Held(m)' = Held(m)
  <2>1. cur[n] \in Rows \ todo[n] /\ cur[n] \in Held(n)
    BY <1>8, NotifierAssumption DEF Held, TypeInv, ProcessInv
  <2>2. todo'[n] \subseteq todo[n] /\ cur'[n] = NoRow
    BY <1>8 DEF NextRow, DropBatch, TypeInv, TypeOK
  <2>3. \A m \in Notifiers \ {n} : todo'[m] = todo[m] /\ cur'[m] = cur[m]
    BY <1>8 DEF NextRow, DropBatch, TypeInv, TypeOK
  <2>4. QED BY <2>1, <2>2, <2>3 DEF Held
<1>9. ASSUME NEW n \in Notifiers, RecordSent(n) PROVE OwnInv'
  <2>1. \A q \in Rows \ {cur[n]} : status'[q] = status[q] /\ sendingFor'[q] = sendingFor[q]
    BY <1>9 DEF RecordSent, mark_sent, TypeInv, TypeOK
  <2>2. NextRow(n) /\ pc[n] = "reply"
    BY <1>9 DEF RecordSent
  <2>3. QED BY <1>8, <2>1, <2>2, HeldRows, ReleaseRow
<1>10. ASSUME NEW n \in Notifiers, RecordFailed(n) PROVE OwnInv'
  <2>1. cur[n] \in Rows /\ mark_failed(cur[n])
    BY <1>10 DEF RecordFailed, TypeInv, ProcessInv
  <2>2. \A q \in Rows \ {cur[n]} : status'[q] = status[q] /\ sendingFor'[q] = sendingFor[q]
    BY <2>1, MarkFailedEnds DEF TypeInv, TypeOK
  <2>3. NextRow(n) /\ pc[n] = "reply"
    BY <1>10 DEF RecordFailed
  <2>4. QED BY <1>8, <2>2, <2>3, HeldRows, ReleaseRow
<1>11. ASSUME NEW n \in Notifiers, NextRow(n) \/ DropBatch(n), UNCHANGED tableVars PROVE OwnInv'
  <2>1. \A m \in Notifiers : Held(m)' \subseteq Held(m)
    BY <1>11 DEF NextRow, DropBatch, Held, TypeInv, TypeOK
  <2>2. QED BY <1>11, <2>1, KeepRows DEF tableVars
<1>12. QED
  BY <1>1, <1>2, <1>3, <1>4, <1>5, <1>6, <1>7, <1>9, <1>10, <1>11
  DEF Next, PollOnce, HandleRow, Trouble, vars, tableVars, procVars, guard_get, guard_half_open,
      SendingDisabled, IterationFails, RecordSentFails, FailureRolledBack, Crash

LEMMA OwnInit == Init => OwnInv
BY DEF Init, OwnInv, OwnedOnce, FreshBatches, Held

\* A row some process still has to handle is 'sending' and in one batch only.
THEOREM Ownership == Spec => []OwnedOnce
<1>1. CASE Exclusive
  <2>1. OwnInv => OwnedOnce
    BY DEF OwnInv
  <2>2. TypeInv /\ OwnInv /\ [Next]_vars => OwnInv'
    BY <1>1, OwnStep
  <2>3. QED BY <2>1, <2>2, OwnInit, TypeInvInit, TypeInvStep, PTL DEF Spec
<1>2. CASE ~Exclusive
  <2>1. OwnedOnce
    BY <1>2 DEF OwnedOnce
  <2>2. QED BY <2>1, PTL
<1>3. QED BY <1>1, <1>2

-----------------------------------------------------------------------------
(* Settled rows.                                                           *)

\* A settled row is in nobody's batch, so no outcome reaches it any more.
LEMMA SettledStep ==
    ASSUME Exclusive, TypeInv, WatchdogSeesSending, OwnInv, [Next]_vars,
           NEW r \in Rows, status[r] \in Settled
    PROVE  status'[r] = status[r]
<1> USE DEF TypeInv
<1>1. \A n \in Notifiers : r \notin Held(n)
  BY DEF OwnInv, OwnedOnce, Settled
<1>2. ASSUME NEW q \in Rows, mark_failed(q), q # r PROVE status'[r] = status[r]
  BY <1>2, MarkFailedEnds DEF TypeOK
<1>3. ASSUME NEW n \in Notifiers, pc[n] = "reply" PROVE cur[n] # r /\ cur[n] \in Rows
  BY <1>1, <1>3, HeldRows DEF ProcessInv
<1>4. ASSUME NEW n \in Notifiers, RecordSent(n) PROVE status'[r] = status[r]
  BY <1>3, <1>4 DEF RecordSent, mark_sent, TypeOK
<1>5. ASSUME NEW n \in Notifiers, claim_batch(n) PROVE status'[r] = status[r]
  <2>1. PICK S \in SUBSET Claimable : status' = [q \in Rows |-> IF q \in S THEN "sending" ELSE status[q]]
    BY <1>5, BatchSubset DEF claim_batch
  <2>2. r \notin Claimable
    BY DEF Claimable, Waiting, Settled
  <2>3. QED BY <2>1, <2>2
<1>6. ASSUME NEW n \in Notifiers, watchdog_sending_stuck(n) PROVE status'[r] = status[r]
  BY <1>6 DEF watchdog_sending_stuck, Stuck, Settled
<1>7. ASSUME NEW q \in Rows, Enqueue(q) PROVE status'[r] = status[r]
  BY <1>7 DEF Enqueue, TypeOK, Settled
<1>8. ASSUME NEW n \in Notifiers, RecordFailed(n) PROVE status'[r] = status[r]
  <2>1. cur[n] # r /\ cur[n] \in Rows
    BY <1>3, <1>8 DEF RecordFailed
  <2>2. QED BY <1>2, <1>8, <2>1 DEF RecordFailed
<1>9. ASSUME NEW n \in Notifiers, NEW q \in Rows, Refuse(n, q) PROVE status'[r] = status[r]
  <2>1. q # r
    BY <1>1, <1>9 DEF Refuse, Held
  <2>2. QED BY <1>2, <1>9, <2>1 DEF Refuse, tableVars
<1>10. CASE UNCHANGED status
  BY <1>10
<1>11. QED
  BY <1>4, <1>5, <1>6, <1>7, <1>8, <1>9, <1>10
  DEF Next, PollOnce, HandleRow, Trouble, vars, tableVars, Tick, guard_get, guard_half_open,
      SendingDisabled, IterationFails, matrix_send, RecordSentFails, FailureRolledBack, Crash

\* 'sent' and 'dead' are final.
THEOREM Finality == Spec => SettledIsFinal
<1>1. CASE Exclusive
  <2>1. TypeInv /\ WatchdogSeesSending /\ OwnInv /\ [Next]_vars
          => [Exclusive => \A r \in Rows : status[r] \in Settled => status'[r] = status[r]]_vars
    BY <1>1, SettledStep
  <2>2. TypeInv /\ OwnInv /\ [Next]_vars => OwnInv'
    BY <1>1, OwnStep
  <2>3. QED
    BY <2>1, <2>2, OwnInit, TypeInvInit, TypeInvStep, WatchdogSees, PTL DEF Spec, SettledIsFinal
<1>2. CASE ~Exclusive
  <2>1. [Next]_vars => [Exclusive => \A r \in Rows : status[r] \in Settled => status'[r] = status[r]]_vars
    BY <1>2
  <2>2. QED BY <2>1, PTL DEF Spec, SettledIsFinal
<1>3. QED BY <1>1, <1>2

-----------------------------------------------------------------------------
(* Copies and requests are paid for.                                       *)

InFlight(r) == \E n \in Notifiers : cur[n] = r

\* Slips are never taken back.
LEMMA SlipsGrow ==
    ASSUME TypeInv, [Next]_vars, NEW r \in Rows
    PROVE  slips'[r] >= slips[r]
<1>1. CASE UNCHANGED slips
  BY <1>1 DEF TypeInv, TypeOK
<1>2. ASSUME NEW hit, Fault(hit) PROVE slips'[r] >= slips[r]
  BY <1>2 DEF Fault, TypeInv, TypeOK
<1>3. QED
  BY <1>1, <1>2
  DEF Next, PollOnce, HandleRow, Trouble, vars, counters, Tick, Enqueue, watchdog_sending_stuck,
      guard_get, guard_half_open, SendingDisabled, claim_batch, IterationFails, Refuse, matrix_send,
      RecordSent, RecordSentFails, RecordFailed, FailureRolledBack, Crash

\* A delivery in flight stays in flight, is recorded, or slips.
LEMMA AcceptedInFlight ==
    ASSUME TypeInv, [Next]_vars, NEW r \in Rows, NEW n \in Notifiers, cur[n] = r, reply[n] = Accepted
    PROVE  \/ cur'[n] = r /\ reply'[n] = Accepted
           \/ status'[r] = "sent"
           \/ slips'[r] = slips[r] + 1
<1> USE DEF TypeInv
<1>1. pc[n] = "reply"
  BY NotifierAssumption DEF ProcessInv
<1>2. CASE cur'[n] = cur[n] /\ reply'[n] = reply[n]
  BY <1>2
<1>3. ASSUME NEW m \in Notifiers \ {n}, NextRow(m) \/ DropBatch(m) PROVE cur'[n] = cur[n] /\ reply'[n] = reply[n]
  BY <1>3 DEF NextRow, DropBatch, TypeOK
<1>4. ASSUME NEW m \in Notifiers, NEW q \in Rows, matrix_send(m, q) PROVE cur'[n] = cur[n] /\ reply'[n] = reply[n]
  BY <1>1, <1>4 DEF matrix_send, TypeOK
<1>5. CASE RecordSentFails(n) \/ Crash(n)
  BY <1>5 DEF RecordSentFails, Crash, Fault
<1>6. CASE RecordSent(n)
  BY <1>6 DEF RecordSent, mark_sent, TypeOK
<1>7. ~RecordFailed(n) /\ ~FailureRolledBack(n)
  BY ReplyKinds DEF RecordFailed, FailureRolledBack
<1>8. ASSUME NEW m \in Notifiers \ {n}, HandleRow(m) \/ Trouble(m) PROVE cur'[n] = cur[n] /\ reply'[n] = reply[n]
  BY <1>3, <1>4, <1>8
  DEF HandleRow, Trouble, IterationFails, Refuse, RecordSent, RecordSentFails, RecordFailed,
      FailureRolledBack, Crash
<1>9. ASSUME NEW q \in Rows, Refuse(n, q) \/ matrix_send(n, q) PROVE FALSE
  BY <1>1, <1>9 DEF Refuse, matrix_send
<1>10. ~IterationFails(n)
  BY <1>1 DEF IterationFails
<1>11. ASSUME HandleRow(n) \/ Trouble(n) PROVE RecordSent(n) \/ RecordSentFails(n) \/ Crash(n)
  BY <1>7, <1>9, <1>10, <1>11 DEF HandleRow, Trouble
<1>12. ASSUME NEW m \in Notifiers, PollOnce(m) PROVE cur'[n] = cur[n] /\ reply'[n] = reply[n]
  BY <1>12
  DEF PollOnce, watchdog_sending_stuck, guard_get, guard_half_open, SendingDisabled, claim_batch
<1>13. QED
  BY <1>2, <1>5, <1>6, <1>8, <1>11, <1>12 DEF Next, vars, procVars, Tick, Enqueue

\* A row about to be sent is neither settled nor in flight.
LEMMA SendFresh ==
    ASSUME Exclusive, TypeInv, OwnInv, NEW n \in Notifiers, NEW r \in Rows, matrix_send(n, r)
    PROVE  /\ status[r] = "sending"
           /\ ~ InFlight(r) /\ ~ Unrecorded(r)
<1>1. r \in Held(n) /\ cur[n] = NoRow
  BY DEF matrix_send, Held, TypeInv, ProcessInv
<1>2. status[r] = "sending" /\ \A m \in Notifiers \ {n} : r \notin Held(m)
  BY <1>1 DEF OwnInv, OwnedOnce
<1>3. \A m \in Notifiers : cur[m] # r
  BY <1>1, <1>2, NotifierAssumption DEF Held
<1>4. QED BY <1>2, <1>3 DEF InFlight, Unrecorded

\* Only matrix_send delivers messages.
LEMMA OnlySends ==
    ASSUME TypeInv, [Next]_vars, NEW r \in Rows, delivered'[r] # delivered[r]
    PROVE  \E n \in Notifiers : matrix_send(n, r)
<1>1. ASSUME NEW n \in Notifiers, NEW q \in Rows, matrix_send(n, q) PROVE q = r
  BY <1>1 DEF matrix_send, TypeInv, TypeOK
<1>2. QED
  BY <1>1
  DEF Next, PollOnce, HandleRow, Trouble, vars, counters, Tick, Enqueue, watchdog_sending_stuck,
      guard_get, guard_half_open, SendingDisabled, claim_batch, IterationFails, Refuse, RecordSent,
      RecordSentFails, RecordFailed, FailureRolledBack, Crash

LEMMA DuplicatesStep ==
    ASSUME Exclusive, TypeInv, WatchdogSeesSending, OwnInv, DuplicatesNeedAFault, [Next]_vars
    PROVE  DuplicatesNeedAFault'
<1> SUFFICES ASSUME NEW r \in Rows
             PROVE  delivered'[r] <= slips'[r] + (IF status'[r] = "sent" \/ Unrecorded(r)' THEN 1 ELSE 0)
  BY DEF DuplicatesNeedAFault
<1>1. delivered[r] <= slips[r] + (IF status[r] = "sent" \/ Unrecorded(r) THEN 1 ELSE 0)
  BY DEF DuplicatesNeedAFault
<1>2. /\ delivered[r] \in Nat /\ slips[r] \in Nat
      /\ delivered'[r] \in Nat /\ slips'[r] \in Nat /\ slips'[r] >= slips[r]
  BY TypeInvStep, SlipsGrow DEF TypeInv, TypeOK
<1>3. CASE delivered'[r] = delivered[r]
  <2>1. CASE status[r] = "sent"
    BY <1>1, <1>2, <1>3, <2>1, SettledStep DEF Settled
  <2>2. CASE Unrecorded(r)
    <3>1. PICK n \in Notifiers : cur[n] = r /\ reply[n] = Accepted
      BY <2>2 DEF Unrecorded
    <3>2. Unrecorded(r)' \/ status'[r] = "sent" \/ slips'[r] = slips[r] + 1
      BY <3>1, AcceptedInFlight DEF Unrecorded
    <3>3. QED BY <1>1, <1>2, <1>3, <3>2
  <2>3. CASE status[r] # "sent" /\ ~ Unrecorded(r)
    BY <1>1, <1>2, <1>3, <2>3
  <2>4. QED BY <2>1, <2>2, <2>3
<1>4. CASE delivered'[r] # delivered[r]
  <2>1. PICK n \in Notifiers : matrix_send(n, r)
    BY <1>4, OnlySends
  <2>2. delivered[r] <= slips[r]
    BY <1>1, <1>2, <2>1, SendFresh
  <2>3. CASE /\ reply' = [reply EXCEPT ![n] = Accepted]
             /\ delivered' = [delivered EXCEPT ![r] = @ + 1]
             /\ UNCHANGED <<slips, faults>>
    <3>1. delivered'[r] = delivered[r] + 1 /\ Unrecorded(r)'
      BY <2>1, <2>3 DEF matrix_send, Unrecorded, TypeInv, TypeOK
    <3>2. QED BY <1>2, <2>2, <3>1
  <2>4. CASE delivered' = [delivered EXCEPT ![r] = @ + 1] /\ Fault({r})
    <3>1. delivered'[r] = delivered[r] + 1 /\ slips'[r] = slips[r] + 1
      BY <2>4 DEF Fault, TypeInv, TypeOK
    <3>2. QED BY <1>2, <2>2, <3>1
  <2>5. QED BY <1>4, <2>1, <2>3, <2>4 DEF matrix_send
<1>5. QED BY <1>3, <1>4

\* Without a fault a row reaches the room at most once, and each fault buys
\* at most one more copy.
THEOREM CopiesPaidFor == Spec => []DuplicatesNeedAFault
<1>1. CASE Exclusive
  <2>1. Init => DuplicatesNeedAFault
    BY DEF Init, DuplicatesNeedAFault
  <2>2. TypeInv /\ WatchdogSeesSending /\ OwnInv /\ DuplicatesNeedAFault /\ [Next]_vars => DuplicatesNeedAFault'
    BY <1>1, DuplicatesStep
  <2>3. TypeInv /\ OwnInv /\ [Next]_vars => OwnInv'
    BY <1>1, OwnStep
  <2>4. QED
    BY <2>1, <2>2, <2>3, OwnInit, TypeInvInit, TypeInvStep, WatchdogSees, PTL DEF Spec
<1>2. CASE ~Exclusive
  <2>1. DuplicatesNeedAFault
    BY <1>2 DEF DuplicatesNeedAFault
  <2>2. QED BY <2>1, PTL
<1>3. QED BY <1>1, <1>2

\* What a row that is sent or in flight adds to its recorded attempts.
Uncounted(r) == IF status[r] = "sent" \/ InFlight(r) THEN 1 ELSE 0

\* Whoever drops the row it was sending leaves it in nobody's flight.
LEMMA LastInFlight ==
    ASSUME Exclusive, TypeInv, OwnInv, NEW n \in Notifiers, NEW q \in Rows, pc[n] = "reply", cur[n] = q,
           NextRow(n) \/ DropBatch(n)
    PROVE  /\ status[q] = "sending" /\ InFlight(q) /\ ~InFlight(q)'
           /\ \A r \in Rows \ {q} : InFlight(r)' <=> InFlight(r)
<1>1. q \in Held(n) /\ status[q] = "sending"
  BY HeldRows DEF OwnInv, OwnedOnce
<1>2. \A m \in Notifiers \ {n} : cur[m] # q
  BY <1>1, NotifierAssumption DEF OwnInv, OwnedOnce, Held
<1>3. cur'[n] = NoRow /\ \A m \in Notifiers \ {n} : cur'[m] = cur[m]
  BY DEF NextRow, DropBatch, TypeInv, TypeOK
<1>4. InFlight(q) /\ ~InFlight(q)'
  BY <1>2, <1>3, NotifierAssumption DEF InFlight
<1>5. ASSUME NEW r \in Rows \ {q} PROVE InFlight(r)' <=> InFlight(r)
  BY <1>3, <1>5, NotifierAssumption DEF InFlight
<1>6. QED BY <1>1, <1>4, <1>5

LEMMA RequestsStep ==
    ASSUME Exclusive, TypeInv, WatchdogSeesSending, OwnInv, RequestsAccounted, [Next]_vars
    PROVE  RequestsAccounted'
<1> USE DEF TypeInv
<1> SUFFICES ASSUME NEW r \in Rows \ Refused
             PROVE  charged'[r] = attempts'[r] + Uncounted(r)'
  BY DEF RequestsAccounted, Uncounted, InFlight
<1>1. charged[r] = attempts[r] + Uncounted(r)
  BY DEF RequestsAccounted, Uncounted, InFlight
<1>2. charged[r] \in Int /\ attempts[r] \in Nat /\ Uncounted(r) \in {0, 1}
  BY DEF TypeOK, Uncounted
<1>3. ASSUME UNCHANGED <<charged, attempts, cur>>, status'[r] = "sent" <=> status[r] = "sent"
      PROVE  charged'[r] = attempts'[r] + Uncounted(r)'
  BY <1>1, <1>3 DEF Uncounted, InFlight
<1>4. ASSUME NEW n \in Notifiers, NEW q \in Rows, matrix_send(n, q)
      PROVE  charged'[r] = attempts'[r] + Uncounted(r)'
  <2>1. UNCHANGED <<attempts, status>>
    BY <1>4 DEF matrix_send, tableVars
  <2>2. CASE q = r
    <3>1. charged'[r] = charged[r] + 1 /\ InFlight(r)'
      BY <1>4, <2>2 DEF matrix_send, InFlight, TypeOK
    <3>2. Uncounted(r) = 0
      BY <1>4, <2>2, SendFresh DEF Uncounted
    <3>3. QED BY <1>1, <1>2, <2>1, <3>1, <3>2 DEF Uncounted
  <2>3. CASE q # r
    <3>1. cur[n] = NoRow
      BY <1>4 DEF matrix_send, ProcessInv
    <3>2. charged'[r] = charged[r] /\ (InFlight(r)' <=> InFlight(r))
      BY <1>4, <2>3, <3>1, NotifierAssumption DEF matrix_send, InFlight, TypeOK
    <3>3. QED BY <1>1, <2>1, <3>2 DEF Uncounted
  <2>4. QED BY <2>2, <2>3
<1>5. ASSUME NEW n \in Notifiers, pc[n] = "reply" PROVE cur[n] \in Rows
  BY <1>5 DEF ProcessInv
<1>6. ASSUME NEW n \in Notifiers, RecordSent(n) PROVE charged'[r] = attempts'[r] + Uncounted(r)'
  <2>1. /\ UNCHANGED <<charged, attempts>> /\ status' = [status EXCEPT ![cur[n]] = "sent"]
        /\ pc[n] = "reply" /\ NextRow(n)
    BY <1>6 DEF RecordSent, mark_sent, counters
  <2>2. CASE cur[n] = r
    <3>1. Uncounted(r) = 1 /\ status'[r] = "sent"
      BY <1>5, <2>1, <2>2, LastInFlight DEF Uncounted, TypeOK
    <3>2. QED BY <1>1, <2>1, <3>1 DEF Uncounted
  <2>3. CASE cur[n] # r
    <3>1. status'[r] = status[r] /\ (InFlight(r)' <=> InFlight(r))
      BY <1>5, <2>1, <2>3, LastInFlight DEF TypeOK
    <3>2. QED BY <1>1, <2>1, <3>1 DEF Uncounted
  <2>4. QED BY <2>2, <2>3
<1>7. ASSUME NEW n \in Notifiers, RecordFailed(n) PROVE charged'[r] = attempts'[r] + Uncounted(r)'
  <2>1. UNCHANGED charged /\ mark_failed(cur[n]) /\ pc[n] = "reply" /\ NextRow(n)
    BY <1>7 DEF RecordFailed, counters
  <2>2. /\ cur[n] \in Rows
        /\ attempts' = [attempts EXCEPT ![cur[n]] = @ + 1] /\ status' = [status EXCEPT ![cur[n]] = "dead"]
    BY <1>5, <2>1, MarkFailedEnds
  <2>3. CASE cur[n] = r
    <3>1. Uncounted(r) = 1 /\ Uncounted(r)' = 0 /\ attempts'[r] = attempts[r] + 1
      BY <2>1, <2>2, <2>3, LastInFlight DEF Uncounted, TypeOK
    <3>2. QED BY <1>1, <1>2, <2>1, <3>1
  <2>4. CASE cur[n] # r
    <3>1. status'[r] = status[r] /\ attempts'[r] = attempts[r] /\ (InFlight(r)' <=> InFlight(r))
      BY <2>1, <2>2, <2>4, LastInFlight DEF TypeOK
    <3>2. QED BY <1>1, <2>1, <3>1 DEF Uncounted
  <2>5. QED BY <2>3, <2>4
<1>8. ASSUME NEW n \in Notifiers, Forgotten(n), NextRow(n) \/ DropBatch(n), UNCHANGED tableVars
      PROVE  charged'[r] = attempts'[r] + Uncounted(r)'
  <2>1. UNCHANGED <<attempts, status>>
    BY <1>8 DEF tableVars
  <2>2. CASE cur[n] = r
    <3>1. pc[n] = "reply"
      BY <2>2, NotifierAssumption DEF ProcessInv
    <3>2. Uncounted(r) = 1 /\ Uncounted(r)' = 0
      BY <1>8, <2>1, <2>2, <3>1, LastInFlight DEF Uncounted
    <3>3. charged'[r] = charged[r] - 1
      BY <1>8, <2>2 DEF Forgotten
    <3>4. QED BY <1>1, <1>2, <2>1, <3>2, <3>3
  <2>3. CASE cur[n] # r
    <3>1. cur'[n] = NoRow /\ \A m \in Notifiers \ {n} : cur'[m] = cur[m]
      BY <1>8 DEF NextRow, DropBatch, TypeOK
    <3>2. InFlight(r)' <=> InFlight(r)
      BY <2>3, <3>1, NotifierAssumption DEF InFlight
    <3>3. charged'[r] = charged[r]
      BY <1>8, <2>3 DEF Forgotten
    <3>4. QED BY <1>1, <2>1, <3>2, <3>3 DEF Uncounted
  <2>4. QED BY <2>2, <2>3
<1>9. ASSUME NEW n \in Notifiers, NEW q \in Rows, Refuse(n, q) PROVE charged'[r] = attempts'[r] + Uncounted(r)'
  <2>1. q # r /\ q \in Rows /\ UNCHANGED <<charged, cur>>
    BY <1>9 DEF Refuse
  <2>2. status'[r] = status[r] /\ attempts'[r] = attempts[r]
    BY <1>9, <2>1, MarkFailedEnds DEF Refuse, tableVars, TypeOK
  <2>3. QED BY <1>1, <2>1, <2>2 DEF Uncounted, InFlight
<1>10. ASSUME NEW n \in Notifiers, claim_batch(n) PROVE charged'[r] = attempts'[r] + Uncounted(r)'
  <2>1. PICK S \in SUBSET Claimable : status' = [q \in Rows |-> IF q \in S THEN "sending" ELSE status[q]]
    BY <1>10, BatchSubset DEF claim_batch
  <2>2. QED BY <1>3, <1>10, <2>1 DEF claim_batch, Claimable, Waiting, counters
<1>11. ASSUME NEW n \in Notifiers, watchdog_sending_stuck(n) PROVE charged'[r] = attempts'[r] + Uncounted(r)'
  BY <1>3, <1>11 DEF watchdog_sending_stuck, Stuck, counters
<1>12. ASSUME NEW q \in Rows, Enqueue(q) PROVE charged'[r] = attempts'[r] + Uncounted(r)'
  BY <1>3, <1>12 DEF Enqueue, counters, procVars, TypeOK
<1>13. QED
  BY <1>3, <1>4, <1>6, <1>7, <1>8, <1>9, <1>10, <1>11, <1>12
  DEF Next, PollOnce, HandleRow, Trouble, vars, tableVars, procVars, counters, Tick, guard_get,
      guard_half_open, SendingDisabled, IterationFails, RecordSentFails, FailureRolledBack, Crash

\* attempts counts the requests that were recorded as failures, and no others.
THEOREM RequestsPaidFor == Spec => []RequestsAccounted
<1>1. CASE Exclusive
  <2>1. Init => RequestsAccounted
    BY NotifierAssumption DEF Init, RequestsAccounted
  <2>2. TypeInv /\ WatchdogSeesSending /\ OwnInv /\ RequestsAccounted /\ [Next]_vars => RequestsAccounted'
    BY <1>1, RequestsStep
  <2>3. TypeInv /\ OwnInv /\ [Next]_vars => OwnInv'
    BY <1>1, OwnStep
  <2>4. QED
    BY <2>1, <2>2, <2>3, OwnInit, TypeInvInit, TypeInvStep, WatchdogSees, PTL DEF Spec
<1>2. CASE ~Exclusive
  <2>1. RequestsAccounted
    BY <1>2 DEF RequestsAccounted
  <2>2. QED BY <2>1, PTL
<1>3. QED BY <1>1, <1>2

-----------------------------------------------------------------------------
(* The notifier implements AtLeastOnce.                                    *)

Phases == [r \in Rows |-> PhaseOf(r)]

\* A step that delivers nothing and changes no row's phase is a stutter.
LEMMA SamePhases ==
    ASSUME UNCHANGED delivered, \A r \in Rows : PhaseOf(r)' = PhaseOf(r)
    PROVE  UNCHANGED Promise!vars
BY DEF Promise!vars

\* A row of a batch that leaves it by mark_failed is abandoned.
LEMMA FailedPhase ==
    ASSUME TypeInv, NEW r \in Rows, status[r] = "sending", mark_failed(r), UNCHANGED delivered
    PROVE  [Promise!Next]_(Promise!vars)
<1>1. status' = [status EXCEPT ![r] = "dead"]
  BY MarkFailedEnds
<1>2. \A q \in Rows \ {r} : PhaseOf(q)' = PhaseOf(q)
  BY <1>1 DEF PhaseOf, TypeInv, TypeOK
<1>3. PhaseOf(r) = "pending" /\ PhaseOf(r)' = "abandoned"
  BY <1>1 DEF PhaseOf, TypeInv, TypeOK
<1>4. Promise!Abandon(r)
  BY <1>2, <1>3 DEF Promise!Abandon
<1>5. QED BY <1>4 DEF Promise!Next

LEMMA RefinementStep ==
    ASSUME Exclusive, TypeInv, OwnInv, AcceptedInv, [Next]_vars
    PROVE  [Promise!Next]_(Promise!vars)
<1> USE DEF TypeInv
<1>1. ASSUME UNCHANGED status, UNCHANGED delivered PROVE [Promise!Next]_(Promise!vars)
  BY <1>1, SamePhases DEF PhaseOf
<1>2. ASSUME NEW r \in Rows, Enqueue(r) PROVE [Promise!Next]_(Promise!vars)
  <2>1. /\ PhaseOf(r) = "absent" /\ PhaseOf(r)' = "pending"
        /\ \A q \in Rows \ {r} : PhaseOf(q)' = PhaseOf(q)
    BY <1>2 DEF Enqueue, PhaseOf, TypeOK
  <2>2. Promise!Post(r)
    BY <1>2, <2>1 DEF Promise!Post, Enqueue, counters
  <2>3. QED BY <2>2 DEF Promise!Next
<1>3. ASSUME NEW n \in Notifiers, watchdog_sending_stuck(n) PROVE [Promise!Next]_(Promise!vars)
  <2>1. \A r \in Rows : PhaseOf(r)' = PhaseOf(r)
    BY <1>3 DEF watchdog_sending_stuck, Stuck, PhaseOf
  <2>2. QED BY <1>3, <2>1, SamePhases DEF watchdog_sending_stuck, counters
<1>4. ASSUME NEW n \in Notifiers, claim_batch(n) PROVE [Promise!Next]_(Promise!vars)
  <2>1. PICK S \in SUBSET Claimable : status' = [q \in Rows |-> IF q \in S THEN "sending" ELSE status[q]]
    BY <1>4, BatchSubset DEF claim_batch
  <2>2. \A r \in Rows : PhaseOf(r)' = PhaseOf(r)
    BY <2>1 DEF Claimable, Waiting, PhaseOf
  <2>3. QED BY <1>4, <2>2, SamePhases DEF claim_batch, counters
<1>5. ASSUME NEW n \in Notifiers, NEW r \in Rows, Refuse(n, r) PROVE [Promise!Next]_(Promise!vars)
  <2>1. status[r] = "sending"
    BY <1>5 DEF Refuse, Held, OwnInv, OwnedOnce
  <2>2. CASE mark_failed(r)
    BY <1>5, <2>1, <2>2, FailedPhase DEF Refuse
  <2>3. CASE UNCHANGED tableVars
    BY <1>1, <1>5, <2>3 DEF Refuse, tableVars
  <2>4. QED BY <1>5, <2>2, <2>3 DEF Refuse
<1>6. ASSUME NEW n \in Notifiers, NEW r \in Rows, matrix_send(n, r) PROVE [Promise!Next]_(Promise!vars)
  <2>1. PhaseOf(r) = "pending"
    BY <1>6, SendFresh DEF PhaseOf
  <2>2. \A q \in Rows : PhaseOf(q)' = PhaseOf(q)
    BY <1>6 DEF matrix_send, tableVars, PhaseOf
  <2>3. CASE delivered' = [delivered EXCEPT ![r] = @ + 1]
    <3>1. Promise!Transmit(r)
      BY <2>1, <2>2, <2>3 DEF Promise!Transmit
    <3>2. QED BY <3>1 DEF Promise!Next
  <2>4. CASE UNCHANGED delivered
    BY <2>2, <2>4, SamePhases
  <2>5. QED BY <1>6, <2>3, <2>4 DEF matrix_send
<1>7. ASSUME NEW n \in Notifiers, pc[n] = "reply" PROVE cur[n] \in Rows /\ status[cur[n]] = "sending"
  BY <1>7, HeldRows DEF OwnInv, OwnedOnce, ProcessInv
<1>8. ASSUME NEW n \in Notifiers, RecordSent(n) PROVE [Promise!Next]_(Promise!vars)
  <2>1. cur[n] \in Rows /\ status[cur[n]] = "sending" /\ delivered[cur[n]] > 0
    BY <1>7, <1>8 DEF RecordSent, AcceptedInv
  <2>2. PICK r \in Rows : r = cur[n]
    BY <2>1
  <2>3. status' = [status EXCEPT ![r] = "sent"] /\ UNCHANGED delivered
    BY <1>8, <2>2 DEF RecordSent, mark_sent, counters
  <2>4. /\ PhaseOf(r) = "pending" /\ PhaseOf(r)' = "confirmed"
        /\ \A q \in Rows \ {r} : PhaseOf(q)' = PhaseOf(q)
    BY <2>1, <2>2, <2>3 DEF PhaseOf, TypeOK
  <2>5. Promise!Confirm(r)
    BY <2>1, <2>2, <2>3, <2>4 DEF Promise!Confirm
  <2>6. QED BY <2>5 DEF Promise!Next
<1>9. ASSUME NEW n \in Notifiers, RecordFailed(n) PROVE [Promise!Next]_(Promise!vars)
  <2>1. cur[n] \in Rows /\ status[cur[n]] = "sending"
    BY <1>7, <1>9 DEF RecordFailed
  <2>2. QED BY <1>9, <2>1, FailedPhase DEF RecordFailed, counters
<1>10. QED
  BY <1>1, <1>2, <1>3, <1>4, <1>5, <1>6, <1>8, <1>9
  DEF Next, PollOnce, HandleRow, Trouble, vars, tableVars, counters, Tick, guard_get,
      guard_half_open, SendingDisabled, IterationFails, RecordSentFails, FailureRolledBack, Crash

\* Where one process at a time works on a row, the outbox confirms only what it
\* transmitted, reopens nothing and abandons only what is pending.
THEOREM RefinesAtLeastOnce ==
    ASSUME Exclusive
    PROVE  Spec => ImplementsAtLeastOnce
<1>1. Init => Promise!Init
  BY DEF Init, Promise!Init, PhaseOf
<1>2. TypeInv /\ OwnInv /\ AcceptedInv /\ [Next]_vars => [Promise!Next]_(Promise!vars)
  BY RefinementStep
<1>3. TypeInv /\ OwnInv /\ [Next]_vars => OwnInv'
  BY OwnStep
<1>4. Init => AcceptedInv
  BY ReplyKinds DEF Init, AcceptedInv
<1>5. QED
  BY <1>1, <1>2, <1>3, <1>4, OwnInit, TypeInvInit, TypeInvStep, AcceptedStep, PTL DEF Spec, ImplementsAtLeastOnce, Promise!Spec

-----------------------------------------------------------------------------
(* The guard of a single notifier.                                         *)

\* What the process knows of the guard at the labels between reading and using it.
GateInv ==
    /\ guard # "OPEN" => openFor = 0
    /\ \A n \in Notifiers :
        /\ pc[n] = "half" => guard = "OPEN" /\ openFor = 0
        /\ pc[n] = "claim" => guard # "OPEN" /\ seen[n] = guard

LEMMA GateStep ==
    ASSUME SingleNotifier, TypeInv, GateInv, [Next]_vars
    PROVE  GateInv'
<1> USE DEF TypeInv, GateInv
<1>1. CASE Tick
  BY <1>1 DEF Tick, AtLeast, procVars, TypeOK
<1>2. ASSUME NEW r \in Rows, Enqueue(r) PROVE GateInv'
  BY <1>2 DEF Enqueue, guardVars, procVars
<1>3. ASSUME NEW n \in Notifiers, PollOnce(n) PROVE GateInv'
  BY <1>3
  DEF SingleNotifier, PollOnce, watchdog_sending_stuck, guard_get, guard_half_open, SendingDisabled,
      claim_batch, GoTo, guardVars, TypeOK
<1>4. ASSUME NEW n \in Notifiers, pc'[n] \in {"poll", "batch", "reply"},
             \/ guard' = "CLOSED" /\ openFor' = 0
             \/ guard' = "OPEN"
             \/ UNCHANGED guardVars
      PROVE  GateInv'
  BY <1>4 DEF SingleNotifier, guardVars
<1>5. ASSUME NEW n \in Notifiers, NextRow(n) \/ DropBatch(n) PROVE pc'[n] \in {"poll", "batch", "reply"}
  BY <1>5 DEF NextRow, DropBatch, GoTo, TypeOK
<1>6. ASSUME NEW n \in Notifiers, HandleRow(n) PROVE GateInv'
  BY <1>4, <1>5, <1>6
  DEF HandleRow, Refuse, matrix_send, RecordSent, RecordFailed, FailureRolledBack, guard_open, guard_close,
      GoTo, TypeOK
<1>7. ASSUME NEW n \in Notifiers, Trouble(n) PROVE GateInv'
  BY <1>4, <1>5, <1>7
  DEF Trouble, IterationFails, RecordSentFails, Crash, GoTo, TypeOK
<1>8. CASE UNCHANGED vars
  BY <1>8 DEF vars, guardVars, procVars
<1>9. QED BY <1>1, <1>2, <1>3, <1>6, <1>7, <1>8 DEF Next

\* A batch drawn in the half open state has one row.
LEMMA ProbeIsOneRow ==
    ASSUME NEW S \in Batches(1), S # {}
    PROVE  Cardinality(S) = 1
<1>1. IsFiniteSet(Claimable)
  BY NotifierAssumption, FS_Subset DEF Claimable
<1>2. Cardinality(Claimable) \in Nat /\ Cardinality(Claimable) # 0
  BY <1>1, BatchSubset, FS_CardinalityType, FS_EmptySet
<1>3. Cardinality(S) = AtMost(1, Cardinality(Claimable))
  BY DEF Batches
<1>4. QED BY <1>2, <1>3 DEF AtMost

\* A single notifier claims nothing while the guard is open, and one row at a
\* time while it is half open.
THEOREM GuardHolds == Spec => GuardGatesClaims
<1> DEFINE Gated == SingleNotifier =>
                      \A n \in Notifiers : pc[n] = "claim" /\ pc'[n] = "batch" =>
                          /\ guard # "OPEN" /\ openFor = 0
                          /\ guard = "HALF_OPEN" => Cardinality(todo'[n]) = 1
<1>1. CASE SingleNotifier
  <2>1. ASSUME TypeInv, GateInv, [Next]_vars PROVE [Gated]_vars
    <3> SUFFICES ASSUME NEW n \in Notifiers, Next, pc[n] = "claim", pc'[n] = "batch"
                 PROVE  /\ guard # "OPEN" /\ openFor = 0
                        /\ guard = "HALF_OPEN" => Cardinality(todo'[n]) = 1
      BY <2>1
    <3>1. guard # "OPEN" /\ openFor = 0 /\ seen[n] = guard
      BY <2>1 DEF GateInv
    <3>2. claim_batch(n)
      <4>1. ASSUME NEW m \in Notifiers, HandleRow(m) \/ Trouble(m) PROVE FALSE
        BY <1>1, <2>1, <4>1
        DEF HandleRow, Trouble, Refuse, matrix_send, RecordSent, RecordFailed, IterationFails,
            RecordSentFails, FailureRolledBack, Crash, NextRow, DropBatch, GoTo, SingleNotifier, TypeInv, TypeOK
      <4>2. ASSUME NEW m \in Notifiers, PollOnce(m) PROVE claim_batch(n)
        BY <1>1, <2>1, <4>2
        DEF PollOnce, watchdog_sending_stuck, guard_get, guard_half_open, SendingDisabled, GoTo,
            SingleNotifier, TypeInv, TypeOK
      <4>3. QED BY <4>1, <4>2 DEF Next, Tick, Enqueue, procVars
    <3>3. PICK S \in Batches(IF seen[n] = "HALF_OPEN" THEN 1 ELSE BatchSize) :
            /\ todo' = [todo EXCEPT ![n] = S]
            /\ GoTo(n, IF S = {} THEN "poll" ELSE "batch")
      BY <3>2 DEF claim_batch
    <3>4. S # {} /\ todo'[n] = S
      BY <2>1, <3>3 DEF GoTo, TypeInv, TypeOK
    <3>5. QED BY <3>1, <3>3, <3>4, ProbeIsOneRow
  <2>2. TypeInv /\ GateInv /\ [Next]_vars => GateInv'
    BY <1>1, GateStep
  <2>3. Init => GateInv
    BY DEF Init, GuardAsFound, GateInv
  <2>4. QED BY <2>1, <2>2, <2>3, TypeInvInit, TypeInvStep, PTL DEF Spec, GuardGatesClaims
<1>2. CASE ~SingleNotifier
  <2>1. [Next]_vars => [Gated]_vars
    BY <1>2
  <2>2. QED BY <2>1, PTL DEF Spec, GuardGatesClaims
<1>3. QED BY <1>1, <1>2
=============================================================================
