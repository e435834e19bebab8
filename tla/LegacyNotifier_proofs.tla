------------------------ MODULE LegacyNotifier_proofs ------------------------
(***************************************************************************)
(* Theorems about the alternative worker, for any number of workers,       *)
(* messages, parts, devices, attempts and faults.                          *)
(***************************************************************************)
EXTENDS LegacyNotifier, FiniteSetTheorems, TLAPS

-----------------------------------------------------------------------------
(* The inductive invariant.                                                *)

\* The variables are functions, and a message that may be sent again has attempts left.
ShapeInv ==
    /\ up \subseteq Workers /\ MAX_ATTEMPTS \in Nat \ {0}
    /\ DOMAIN batch = Workers /\ DOMAIN todo = Workers
    /\ DOMAIN got = Messages /\ DOMAIN copies = Messages
    /\ \A m \in Messages : status[m] \in {"queued", "sending"} => attempts[m] < MAX_ATTEMPTS

TypeInv == TypeOK /\ ShapeInv


\* Parts go out in order, so that those which are left are the last ones; a worker that
\* is about to mark a message has delivered it.
Working(w) ==
    /\ pc[w] = "send" =>
        /\ Channel[cur[w]] # "webpush"
        /\ \E k \in 1 .. Parts[cur[w]] :
                todo[w] = k .. Parts[cur[w]] /\ 1 .. (k - 1) \subseteq got[cur[w]]
    /\ pc[w] = "push" => Channel[cur[w]] = "webpush" /\ (success[w] => got[cur[w]] # {})
    /\ pc[w] = "mark" => Complete(cur[w], got[cur[w]])
    /\ pc[w] \notin {"push", "mark", "fail"} => ~success[w]
WorkInv == \A w \in Workers : Working(w)

\* Workers that may still send x of message m, and what is left for them and the queue.
Holders(m, x) ==
    {w \in Workers : \/ m \in DOMAIN batch[w]
                     \/ pc[w] \in {"send", "push"} /\ cur[w] = m /\ x \in todo[w]}
Queued(m) == IF status[m] = "queued" THEN 1 ELSE 0

\* A worker that starts over holds none, none is held twice, and there is a copy for each
\* holder and for the queue.
BatchInv ==
    \A w \in Workers :
        /\ pc[w] \in {"idle", "fetch"} => DOMAIN batch[w] = {}
        /\ cur[w] \notin DOMAIN batch[w]
CopiesInv ==
    /\ BatchInv
    /\ \A m \in Messages : \A x \in Targets(m) :
            copies[m][x] >= Cardinality(Holders(m, x)) + Queued(m)

LegacyInv == TypeInv /\ WorkInv /\ SentWasDelivered /\ CopiesInv

-----------------------------------------------------------------------------
(* The steps, by what they do to the state.                                *)

\* One attempt to send: x is off the list, or the whole message failed.
Tries(w, x) ==
    /\ pc[w] \in {"send", "push"}
    /\ x \in todo[w]
    /\ \/ /\ todo' = [todo EXCEPT ![w] = @ \ {x}]
          /\ \E p \in {"send", "push", "mark"} : GoTo(w, p)
       \/ UNCHANGED todo /\ GoTo(w, "fail")
    /\ Deliver(w, x) \/ NoDelivery
    /\ UNCHANGED <<rowVars, batch, cur, seen, faults>>

LEMMA FirstPart ==
    ASSUME TypeInv, WorkInv, NEW w \in Workers, pc[w] = "send",
           NEW x, x = CHOOSE y \in todo[w] : \A z \in todo[w] : y <= z
    PROVE  /\ cur[w] \in Messages
           /\ x \in 1 .. Parts[cur[w]]
           /\ todo[w] = x .. Parts[cur[w]]
           /\ 1 .. (x - 1) \subseteq got[cur[w]]
           /\ Parts[cur[w]] \in Nat
           /\ Targets(cur[w]) = 1 .. Parts[cur[w]]
<1>1. cur[w] \in Messages
  BY DEF TypeInv, TypeOK
<1>2. Channel[cur[w]] # "webpush"
  BY DEF WorkInv, Working
<1>3. PICK k \in 1 .. Parts[cur[w]] :
         todo[w] = k .. Parts[cur[w]] /\ 1 .. (k - 1) \subseteq got[cur[w]]
  BY DEF WorkInv, Working
<1>4. Parts[cur[w]] \in Nat
  BY <1>1, LegacyAssumption
<1>5. k \in todo[w] /\ \A z \in todo[w] : k <= z
  BY <1>3, <1>4
<1>6. x \in todo[w] /\ \A z \in todo[w] : x <= z
  BY <1>5
<1>7. x = k
  BY <1>3, <1>4, <1>5, <1>6
<1> QED
  BY <1>1, <1>2, <1>3, <1>4, <1>7 DEF Targets

LEMMA SendingIsTrying ==
    ASSUME TypeInv, WorkInv, NEW w \in Workers, SendPart(w)
    PROVE  \E x : Tries(w, x)
<1> DEFINE x == CHOOSE y \in todo[w] : \A z \in todo[w] : y <= z
<1>1. x \in todo[w]
  BY FirstPart DEF SendPart
<1>2. x \in todo[w] => Tries(w, x)
  <2> HIDE DEF x
  <2>1. \/ /\ Deliver(w, x)
           /\ todo' = [todo EXCEPT ![w] = @ \ {x}]
           /\ GoTo(w, IF todo[w] = {x} THEN "mark" ELSE "send")
        \/ (Deliver(w, x) \/ NoDelivery) /\ GoTo(w, "fail") /\ UNCHANGED todo
    BY DEF SendPart, x
  <2> QED
    BY <2>1 DEF SendPart, Tries
<1> QED
  BY <1>1, <1>2

LEMMA PushingIsTrying ==
    ASSUME TypeInv, NEW w \in Workers, NEW d \in Devices, Push(w, d)
    PROVE  Tries(w, d)
<1>1. d \in todo[w]
  BY DEF Push
<1>2. pc' = [pc EXCEPT ![w] = "push"]
  BY DEF Push, TypeInv, TypeOK
<1>3. GoTo(w, "push")
  BY <1>2 DEF GoTo
<1>4. Deliver(w, d) \/ NoDelivery
  BY DEF Push
<1> QED
  BY <1>1, <1>3, <1>4 DEF Push, Tries

\* A worker that is done with a message, or loses all of them, is typed again.
LEMMA FinishTyped ==
    ASSUME TypeInv, NEW w \in Workers, Finish(w) \/ Forget(w)
    PROVE  /\ pc' \in [Workers -> {"idle", "fetch", "batch", "send", "push", "mark", "fail"}]
           /\ DOMAIN batch' = Workers /\ DOMAIN todo' = Workers
           /\ \A v \in Workers :
                /\ DOMAIN batch'[v] \subseteq DOMAIN batch[v]
                /\ \A m \in DOMAIN batch'[v] : batch'[v][m] = batch[v][m]
           /\ cur' \in [Workers -> Messages \cup {None}]
           /\ seen' \in [Workers -> 0 .. MAX_ATTEMPTS - 1]
           /\ \A v \in Workers : pc'[v] \in {"send", "push", "mark", "fail"} <=> cur'[v] # None
           /\ \A v \in Workers : todo'[v] # {} => todo'[v] \subseteq Targets(cur'[v])
           /\ success' \in [Workers -> BOOLEAN]
<1>1. 0 \in 0 .. MAX_ATTEMPTS - 1
  BY DEF TypeInv, ShapeInv
<1> USE DEF TypeInv, TypeOK, ShapeInv
<1>2. CASE Finish(w)
  <2>1. PICK p \in {"idle", "batch"} : pc' = [pc EXCEPT ![w] = p]
    BY <1>2 DEF Finish, GoTo
  <2> QED
    BY <1>1, <1>2, <2>1 DEF Finish
<1>3. CASE Forget(w)
  <2>1. pc' = [pc EXCEPT ![w] = "idle"]
    BY <1>3 DEF Forget, GoTo
  <2>2. DOMAIN NoClaims = {}
    BY DEF NoClaims
  <2> QED
    BY <1>1, <1>3, <2>1, <2>2 DEF Forget
<1> QED
  BY <1>2, <1>3

\* Only the columns change.
LEMMA RequeueTyped ==
    ASSUME TypeInv, UNCHANGED started, NEW w \in Workers, _requeue_stuck_sending(w)
    PROVE  TypeInv'
<1> USE DEF TypeInv, TypeOK, ShapeInv, started, _requeue_stuck_sending, GoTo
<1>1. \A m \in Messages : copies'[m] \in {copies[m], OneMore(m)}
  OBVIOUS
<1>2. \A m \in Messages : copies'[m] \in [Targets(m) -> Int]
  <2>1. MaxCredit \in Int
    BY LegacyAssumption
  <2>2. \A m \in Messages : OneMore(m) \in [Targets(m) -> Int]
    BY <2>1 DEF OneMore
  <2> QED
    BY <1>1, <2>2
<1> QED
  BY <1>2

LEMMA FetchTyped ==
    ASSUME TypeInv, UNCHANGED started, NEW w \in Workers, _fetch_and_lock_batch(w)
    PROVE  TypeInv'
<1>1. PICK B \in Batches :
        Claim(w, B) /\ status' = [m \in Messages |-> IF m \in B THEN "sending" ELSE status[m]]
  BY DEF _fetch_and_lock_batch
<1>2. B \subseteq Messages /\ \A m \in B : status[m] = "queued"
  BY DEF Batches, Ready
<1>3. \A m \in B : attempts[m] \in 0 .. MAX_ATTEMPTS - 1
  BY <1>2, LegacyAssumption DEF TypeInv, TypeOK, ShapeInv
<1>4. PICK p \in {"idle", "batch"} : pc' = [pc EXCEPT ![w] = p]
  BY <1>1 DEF Claim, GoTo
<1> USE DEF TypeInv, TypeOK, ShapeInv, started
<1>5. batch' = [batch EXCEPT ![w] = [m \in B |-> attempts[m]]]
  BY <1>1 DEF Claim
<1>6. \A v \in Workers :
        /\ DOMAIN batch'[v] \subseteq Messages
        /\ \A m \in DOMAIN batch'[v] : batch'[v][m] \in 0 .. MAX_ATTEMPTS - 1
  BY <1>2, <1>3, <1>5
<1>7. pc[w] = "fetch"
  BY <1>1 DEF Claim
<1> QED
  BY <1>1, <1>2, <1>4, <1>5, <1>6, <1>7 DEF Claim

LEMMA TakeTyped ==
    ASSUME TypeInv, UNCHANGED started, NEW w \in Workers, NEW m \in Messages, Take(w, m)
    PROVE  TypeInv'
<1> DEFINE to == CASE Channel[m] \in {"matrix", "email"} -> Targets(m)
                   [] Channel[m] = "webpush" -> DevicesOf[m] \cap active
                   [] OTHER -> {}
<1>1. to \subseteq Targets(m)
  BY DEF Targets
<1>2. m # None
  BY LegacyAssumption
<1>3. todo' = [todo EXCEPT ![w] = to]
  BY DEF Take
<1>4. PICK p \in {"fail", "push", "send"} : pc' = [pc EXCEPT ![w] = p]
  BY DEF Take, GoTo
<1> HIDE DEF to
<1> USE DEF TypeInv, TypeOK, ShapeInv, started
<1>5. \A v \in Workers :
        /\ DOMAIN batch'[v] \subseteq DOMAIN batch[v]
        /\ \A k \in DOMAIN batch'[v] : batch'[v][k] = batch[v][k]
  BY DEF Take
<1>6. batch[w][m] \in 0 .. MAX_ATTEMPTS - 1
  BY DEF Take
<1>7. /\ DOMAIN batch' = Workers /\ DOMAIN todo' = Workers
      /\ cur' = [cur EXCEPT ![w] = m] /\ seen' = [seen EXCEPT ![w] = batch[w][m]]
      /\ UNCHANGED <<status, attempts, old, active, success, got, copies, faults>>
  BY <1>3 DEF Take, rowVars
<1>8. \A v \in Workers :
        /\ pc'[v] \in {"send", "push", "mark", "fail"} <=> cur'[v] # None
        /\ todo'[v] # {} => todo'[v] \subseteq Targets(cur'[v])
  BY <1>1, <1>2, <1>3, <1>4, <1>7
<1>9. up' = up /\ MAX_ATTEMPTS' = MAX_ATTEMPTS
  BY DEF started
<1>10. /\ pc' \in [Workers -> {"idle", "fetch", "batch", "send", "push", "mark", "fail"}]
       /\ cur' \in [Workers -> Messages \cup {None}]
       /\ seen' \in [Workers -> 0 .. MAX_ATTEMPTS - 1]
  BY <1>4, <1>6, <1>7
<1>11. \A v \in Workers :
         /\ DOMAIN batch'[v] \subseteq Messages
         /\ \A k \in DOMAIN batch'[v] : batch'[v][k] \in 0 .. MAX_ATTEMPTS - 1
  BY <1>5
<1>12. \A k \in Messages : got'[k] \subseteq Targets(k) /\ copies'[k] \in [Targets(k) -> Int]
  BY <1>7
<1> QED
  BY <1>7, <1>8, <1>9, <1>10, <1>11, <1>12

LEMMA DeliverTyped ==
    ASSUME TypeInv, NEW w \in Workers, NEW x \in todo[w], cur[w] \in Messages,
           Deliver(w, x) \/ NoDelivery
    PROVE  /\ DOMAIN got' = Messages /\ DOMAIN copies' = Messages
           /\ \A m \in Messages :
                /\ got[m] \subseteq got'[m] /\ got'[m] \subseteq Targets(m)
                /\ copies'[m] \in [Targets(m) -> Int]
<1>1. x \in Targets(cur[w])
  BY DEF TypeInv, TypeOK
<1> USE DEF TypeInv, TypeOK, ShapeInv
<1>2. CASE NoDelivery
  BY <1>2 DEF NoDelivery
<1>3. CASE Deliver(w, x)
  <2>1. \A m \in Messages :
          copies'[m] = IF m = cur[w] THEN [copies[m] EXCEPT ![x] = @ - 1] ELSE copies[m]
    BY <1>3 DEF Deliver
  <2> QED
    BY <1>1, <1>3, <2>1 DEF Deliver
<1> QED
  BY <1>2, <1>3

LEMMA TriesTyped ==
    ASSUME TypeInv, UNCHANGED started, NEW w \in Workers, NEW x, Tries(w, x),
           active' \subseteq active, success' \in [Workers -> BOOLEAN]
    PROVE  TypeInv'
<1>1. cur[w] \in Messages /\ x \in todo[w]
  BY DEF Tries, TypeInv, TypeOK
<1>2. /\ DOMAIN got' = Messages /\ DOMAIN copies' = Messages
      /\ \A m \in Messages : got'[m] \subseteq Targets(m) /\ copies'[m] \in [Targets(m) -> Int]
  BY <1>1, DeliverTyped DEF Tries
<1>3. PICK p \in {"send", "push", "mark", "fail"} : pc' = [pc EXCEPT ![w] = p]
  BY DEF Tries, GoTo
<1>4. /\ UNCHANGED <<status, attempts, old, batch, cur, seen, faults>>
      /\ pc[w] \in {"send", "push"}
  BY DEF Tries, rowVars
<1>5. DOMAIN todo' = Workers /\ \A v \in Workers : todo'[v] \subseteq todo[v]
  BY DEF Tries, TypeInv, ShapeInv
<1> USE DEF TypeInv, TypeOK, ShapeInv, started
<1>6. \A v \in Workers :
        /\ pc'[v] \in {"send", "push", "mark", "fail"} <=> cur'[v] # None
        /\ todo'[v] # {} => todo'[v] \subseteq Targets(cur'[v])
  BY <1>3, <1>4, <1>5
<1> QED
  BY <1>2, <1>3, <1>4, <1>5, <1>6

LEMMA MarkSentTyped ==
    ASSUME TypeInv, UNCHANGED started, NEW w \in Workers, _mark_sent(w)
    PROVE  TypeInv'
<1>1. Finish(w) /\ UNCHANGED <<attempts, old, active, got, copies, faults>>
  BY DEF _mark_sent
<1>2. status' \in [Messages -> {"none", "queued", "sending", "sent", "dead"}]
  BY DEF _mark_sent, TypeInv, TypeOK
<1>3. \A m \in Messages : status'[m] \in {"queued", "sending"} => status'[m] = status[m]
  BY DEF _mark_sent, TypeInv, TypeOK
<1> QED
  BY <1>1, <1>2, <1>3, FinishTyped DEF TypeInv, TypeOK, ShapeInv, started

LEMMA MarkFailedTyped ==
    ASSUME TypeInv, UNCHANGED started, NEW w \in Workers, _mark_failed(w)
    PROVE  TypeInv'
<1>1. (Finish(w) \/ Forget(w)) /\ UNCHANGED <<started, old, active, got, copies, faults>>
  BY DEF _mark_failed
<1>2. /\ cur[w] \in Messages /\ seen[w] + 1 \in 0 .. MAX_ATTEMPTS
      /\ MAX_ATTEMPTS' = MAX_ATTEMPTS /\ up' = up
  BY DEF _mark_failed, TypeInv, TypeOK, ShapeInv, started
<1>3. \/ /\ status' = [status EXCEPT ![cur[w]] = "dead"]
         /\ attempts' = [attempts EXCEPT ![cur[w]] = seen[w] + 1]
      \/ UNCHANGED <<status, attempts>>
  BY DEF _mark_failed
<1>4. /\ status' \in [Messages -> {"none", "queued", "sending", "sent", "dead"}]
      /\ attempts' \in [Messages -> 0 .. MAX_ATTEMPTS]
      /\ \A m \in Messages : status'[m] \in {"queued", "sending"} => attempts'[m] < MAX_ATTEMPTS
  <2>1. CASE UNCHANGED <<status, attempts>>
    BY <1>2, <2>1 DEF TypeInv, TypeOK, ShapeInv
  <2>2. CASE ~UNCHANGED <<status, attempts>>
    <3>1. /\ status' = [status EXCEPT ![cur[w]] = "dead"]
          /\ attempts' = [attempts EXCEPT ![cur[w]] = seen[w] + 1]
      BY <1>3, <2>2
    <3> QED
      BY <1>2, <3>1 DEF TypeInv, TypeOK, ShapeInv
  <2> QED
    BY <2>1, <2>2
<1> QED
  BY <1>1, <1>2, <1>4, FinishTyped DEF TypeInv, TypeOK, ShapeInv, started

LEMMA FaultTyped ==
    ASSUME TypeInv, Fault
    PROVE  faults' \in 0 .. MaxFaults
BY LegacyAssumption DEF Fault, TypeInv, TypeOK

LEMMA EndPushTyped ==
    ASSUME TypeInv, UNCHANGED started, NEW w \in Workers, EndPush(w)
    PROVE  TypeInv'
<1>1. PICK p \in {"mark", "fail"} : pc' = [pc EXCEPT ![w] = p]
  BY DEF EndPush, GoTo
<1> QED
  BY <1>1 DEF EndPush, TypeInv, TypeOK, ShapeInv, started, rowVars

LEMMA MarkSentRaisesTyped ==
    ASSUME TypeInv, UNCHANGED started, NEW w \in Workers, MarkSentRaises(w)
    PROVE  TypeInv'
<1>1. pc' = [pc EXCEPT ![w] = "fail"] /\ pc[w] = "mark"
  BY DEF MarkSentRaises, GoTo
<1>2. faults' \in 0 .. MaxFaults
  BY FaultTyped DEF MarkSentRaises
<1> QED
  BY <1>1, <1>2 DEF MarkSentRaises, TypeInv, TypeOK, ShapeInv, started, rowVars

LEMMA CrashTyped ==
    ASSUME TypeInv, UNCHANGED started, NEW w \in Workers, Crash(w)
    PROVE  TypeInv'
<1>1. Forget(w) /\ UNCHANGED <<rowVars, active, got, copies>>
  BY DEF Crash
<1>2. faults' \in 0 .. MaxFaults
  BY FaultTyped DEF Crash
<1> QED
  BY <1>1, <1>2, FinishTyped DEF TypeInv, TypeOK, ShapeInv, started, rowVars

LEMMA TypeKept ==
    ASSUME TypeInv, WorkInv, [Next]_vars
    PROVE  TypeInv'
<1>1. ASSUME NEW w \in Workers, run_once(w), UNCHANGED started
      PROVE  TypeInv'
  <2>1. CASE SendPart(w)
    BY <1>1, <2>1, SendingIsTrying, TriesTyped DEF SendPart, TypeInv, TypeOK
  <2>2. ASSUME NEW d \in Devices, Push(w, d)
        PROVE  TypeInv'
    <3>1. active' \subseteq active /\ success' \in [Workers -> BOOLEAN]
      BY <2>2 DEF Push, TypeInv, TypeOK
    <3> QED
      BY <1>1, <2>2, <3>1, PushingIsTrying, TriesTyped
  <2> QED
    BY <1>1, <2>1, <2>2, RequeueTyped, FetchTyped, TakeTyped, EndPushTyped, MarkSentTyped,
       MarkFailedTyped DEF run_once
<1>2. ASSUME GrowOld, UNCHANGED started
      PROVE  TypeInv'
  BY <1>2 DEF GrowOld, workerVars, TypeInv, TypeOK, ShapeInv, started
<1>3. CASE UNCHANGED vars
  BY <1>3 DEF vars, rowVars, workerVars, TypeInv, TypeOK, ShapeInv, started
<1> QED
  BY <1>1, <1>2, <1>3, CrashTyped, MarkSentRaisesTyped DEF Next, TypeInv, ShapeInv

-----------------------------------------------------------------------------
(* A message marked sent was delivered.                                    *)

\* Deliveries are never taken back.
LEMMA StillComplete ==
    ASSUME NEW m, NEW T, Complete(m, T), NEW U, T \subseteq U, U \subseteq Targets(m)
    PROVE  Complete(m, U)
BY DEF Complete

\* Whatever another worker delivers.
LEMMA OthersWork ==
    ASSUME TypeInv, TypeInv', NEW v \in Workers, Working(v),
           pc'[v] = pc[v], cur'[v] = cur[v], todo'[v] = todo[v], success'[v] = success[v],
           \A m \in Messages : got[m] \subseteq got'[m]
    PROVE  Working(v)'
<1>1. pc[v] \in {"send", "push", "mark"} => cur[v] \in Messages
  BY DEF TypeInv, TypeOK
<1>2. CASE pc[v] \in {"send", "push", "mark"}
  <2>1. PICK m \in Messages : m = cur[v] /\ m = cur'[v]
    BY <1>1, <1>2
  <2>2. got[m] \subseteq got'[m] /\ got'[m] \subseteq Targets(m)
    BY DEF TypeInv, TypeOK
  <2>3. CASE pc[v] = "send"
    BY <2>1, <2>2, <2>3 DEF Working
  <2>4. CASE pc[v] = "push"
    BY <2>1, <2>2, <2>4 DEF Working
  <2>5. CASE pc[v] = "mark"
    <3>1. Complete(m, got[m])
      BY <2>1, <2>5 DEF Working
    <3>2. Complete(m, got'[m])
      BY <2>2, <3>1, StillComplete
    <3> QED
      BY <2>1, <2>5, <3>2 DEF Working
  <2> QED
    BY <1>2, <2>3, <2>4, <2>5
<1>3. CASE pc[v] \notin {"send", "push", "mark"}
  BY <1>3 DEF Working
<1> QED
  BY <1>2, <1>3

\* Steps that deliver nothing, and after which w has failed or has nothing in work.
LEMMA WorkLeft ==
    ASSUME TypeInv, WorkInv, TypeInv', UNCHANGED got, NEW w \in Workers,
           \A v \in Workers \ {w} :
                pc'[v] = pc[v] /\ cur'[v] = cur[v] /\ todo'[v] = todo[v] /\ success'[v] = success[v],
           pc'[w] \notin {"send", "push", "mark"},
           pc'[w] = "fail" \/ ~success'[w]
    PROVE  WorkInv'
<1>1. Working(w)'
  BY DEF Working
<1>2. \A v \in Workers \ {w} : Working(v)'
  BY OthersWork DEF WorkInv
<1> QED
  BY <1>1, <1>2 DEF WorkInv

LEMMA TakeWorks ==
    ASSUME TypeInv, WorkInv, TypeInv', NEW w \in Workers, NEW m \in Messages, Take(w, m)
    PROVE  WorkInv'
<1> DEFINE to == CASE Channel[m] \in {"matrix", "email"} -> Targets(m)
                   [] Channel[m] = "webpush" -> DevicesOf[m] \cap active
                   [] OTHER -> {}
<1>1. /\ todo' = [todo EXCEPT ![w] = to]
      /\ pc' = [pc EXCEPT ![w] = IF to = {} THEN "fail" ELSE IF Channel[m] = "webpush" THEN "push" ELSE "send"]
      /\ cur' = [cur EXCEPT ![w] = m]
      /\ UNCHANGED <<success, got>>
      /\ pc[w] = "batch"
  BY DEF Take, GoTo
<1>2. Parts[m] \in Nat /\ Parts[m] >= 1 /\ 1 .. 0 = {}
  BY LegacyAssumption
<1>3. pc'[w] = "send" => Channel[m] # "webpush" /\ to = 1 .. Parts[m]
  BY <1>1 DEF Targets, TypeInv, TypeOK
<1>4. pc'[w] \in {"fail", "push", "send"} /\ (pc'[w] = "push" => Channel[m] = "webpush")
  BY <1>1 DEF TypeInv, TypeOK
<1> HIDE DEF to
<1>5. todo'[w] = to /\ cur'[w] = m
  BY <1>1 DEF TypeInv, TypeOK, ShapeInv
<1>6. ~success'[w]
  BY <1>1 DEF WorkInv, Working
<1>7. Working(w)'
  <2>1. 1 \in 1 .. Parts'[m] /\ 1 .. (1 - 1) \subseteq got'[m]
    BY <1>2
  <2> QED
    BY <1>2, <1>3, <1>4, <1>5, <1>6, <2>1 DEF Working
<1>8. \A v \in Workers \ {w} : Working(v)'
  BY <1>1, OthersWork DEF WorkInv, TypeInv, TypeOK, ShapeInv
<1> QED
  BY <1>7, <1>8 DEF WorkInv

LEMMA SendWorks ==
    ASSUME TypeInv, WorkInv, TypeInv', NEW w \in Workers, SendPart(w)
    PROVE  WorkInv'
<1>a. PICK m : m = cur[w]
  OBVIOUS
<1>b. PICK x : x = CHOOSE y \in todo[w] : \A z \in todo[w] : y <= z
  OBVIOUS
<1>1. /\ m \in Messages /\ Parts[m] \in Nat
      /\ x \in 1 .. Parts[m] /\ todo[w] = x .. Parts[m] /\ 1 .. (x - 1) \subseteq got[m]
      /\ Targets(m) = 1 .. Parts[m]
  BY <1>a, <1>b, FirstPart DEF SendPart
<1>2. /\ \/ /\ Deliver(w, x)
            /\ todo' = [todo EXCEPT ![w] = @ \ {x}]
            /\ GoTo(w, IF todo[w] = {x} THEN "mark" ELSE "send")
         \/ (Deliver(w, x) \/ NoDelivery) /\ GoTo(w, "fail") /\ UNCHANGED todo
      /\ UNCHANGED <<cur, success>>
      /\ pc[w] = "send"
  BY <1>b DEF SendPart
<1>3. \A k \in Messages : got[k] \subseteq got'[k]
  <2>1. x \in todo[w] /\ cur[w] \in Messages
    BY <1>1, <1>a
  <2>2. CASE Deliver(w, x) \/ NoDelivery
    BY <2>1, <2>2, DeliverTyped
  <2> QED
    BY <1>2, <2>2
<1>4. \A v \in Workers \ {w} : Working(v)'
  <2>1. \A v \in Workers \ {w} :
          pc'[v] = pc[v] /\ cur'[v] = cur[v] /\ todo'[v] = todo[v] /\ success'[v] = success[v]
    BY <1>2 DEF GoTo, TypeInv, TypeOK, ShapeInv
  <2> QED
    BY <2>1, <1>3, OthersWork DEF WorkInv
<1>5. ~success'[w] /\ Channel[m] # "webpush"
  BY <1>a, <1>2 DEF WorkInv, Working
<1>6. ASSUME Deliver(w, x), todo' = [todo EXCEPT ![w] = @ \ {x}],
             GoTo(w, IF todo[w] = {x} THEN "mark" ELSE "send")
      PROVE  Working(w)'
  <2>0. got'[m] = got[m] \cup {x}
    BY <1>a, <1>1, <1>6 DEF Deliver, TypeInv, ShapeInv
  <2>1. 1 .. x \subseteq got'[m]
    BY <1>1, <2>0
  <2>2. pc'[w] = (IF todo[w] = {x} THEN "mark" ELSE "send") /\ todo'[w] = todo[w] \ {x} /\ cur'[w] = m
    BY <1>a, <1>2, <1>6 DEF GoTo, TypeInv, TypeOK, ShapeInv
  <2>3. CASE todo[w] = {x}
    <3>0. Parts[m] \in x .. Parts[m]
      BY <1>1
    <3>1. Parts[m] = x
      BY <1>1, <2>3, <3>0
    <3>2. got'[m] = Targets(m)
      BY <1>1, <2>1, <3>1 DEF TypeInv, TypeOK
    <3> QED
      BY <1>1, <1>5, <2>2, <2>3, <3>2 DEF Working, Complete
  <2>4. CASE todo[w] # {x}
    <3>1. x + 1 \in 1 .. Parts[m] /\ todo[w] \ {x} = (x + 1) .. Parts[m] /\ (x + 1) - 1 = x
      BY <1>1, <2>4
    <3> QED
      BY <1>5, <2>1, <2>2, <2>4, <3>1 DEF Working
  <2> QED
    BY <2>3, <2>4
<1>7. ASSUME GoTo(w, "fail")
      PROVE  Working(w)'
  <2>1. pc'[w] = "fail"
    BY <1>7 DEF GoTo, TypeInv, TypeOK
  <2> QED
    BY <2>1 DEF Working
<1> QED
  <2>1. Working(w)'
    BY <1>2, <1>6, <1>7
  <2> QED
    BY <1>4, <2>1 DEF WorkInv

LEMMA PushWorks ==
    ASSUME TypeInv, WorkInv, TypeInv', NEW w \in Workers, NEW d \in Devices, Push(w, d)
    PROVE  WorkInv'
<1>a. PICK m : m = cur[w]
  OBVIOUS
<1>1. d \in todo[w] /\ pc[w] = "push" /\ pc' = pc /\ cur' = cur /\ m \in Messages
  BY <1>a DEF Push, TypeInv, TypeOK
<1>2. Channel[m] = "webpush" /\ (success[w] => got[m] # {})
  BY <1>a, <1>1 DEF WorkInv, Working
<1>3. Deliver(w, d) \/ NoDelivery
  BY DEF Push
<1>4. \A k \in Messages : got[k] \subseteq got'[k]
  BY <1>a, <1>1, <1>3, DeliverTyped
<1>5. \A v \in Workers \ {w} : Working(v)'
  <2>1. \A v \in Workers \ {w} : todo'[v] = todo[v] /\ success'[v] = success[v]
    BY DEF Push, TypeInv, TypeOK, ShapeInv
  <2> QED
    BY <1>1, <1>4, <2>1, OthersWork DEF WorkInv
<1>6. success'[w] => got'[m] # {}
  <2>1. CASE Deliver(w, d)
    BY <1>a, <1>1, <2>1 DEF Deliver, TypeInv, ShapeInv
  <2>2. CASE ~Deliver(w, d)
    BY <1>1, <1>2, <1>4, <2>2 DEF Push
  <2> QED
    BY <2>1, <2>2
<1>7. Working(w)'
  BY <1>a, <1>1, <1>2, <1>6 DEF Working
<1> QED
  BY <1>5, <1>7 DEF WorkInv

LEMMA EndPushWorks ==
    ASSUME TypeInv, WorkInv, TypeInv', NEW w \in Workers, EndPush(w)
    PROVE  WorkInv'
<1>1. /\ pc' = [pc EXCEPT ![w] = IF success[w] THEN "mark" ELSE "fail"]
      /\ UNCHANGED <<cur, todo, success, got>>
      /\ pc[w] = "push"
  BY DEF EndPush, GoTo
<1>2. \A v \in Workers \ {w} : Working(v)'
  BY <1>1, OthersWork DEF WorkInv, TypeInv, TypeOK
<1>3. success[w] => Complete(cur[w], got[cur[w]])
  BY <1>1 DEF WorkInv, Working, Complete
<1>4. pc'[w] = IF success[w] THEN "mark" ELSE "fail"
  BY <1>1 DEF TypeInv, TypeOK
<1>5. Working(w)'
  BY <1>1, <1>3, <1>4 DEF Working
<1> QED
  BY <1>2, <1>5 DEF WorkInv

\* The steps after which a worker has nothing in work, or the message has failed.
LEMMA OthersWorkOn ==
    ASSUME TypeInv, WorkInv, TypeInv', NEW w \in Workers, UNCHANGED started,
           \/ _requeue_stuck_sending(w) \/ _fetch_and_lock_batch(w) \/ _mark_sent(w)
           \/ _mark_failed(w) \/ MarkSentRaises(w) \/ Crash(w)
    PROVE  WorkInv'
<1> USE DEF TypeInv, TypeOK, ShapeInv
<1>1. CASE _requeue_stuck_sending(w)
  <2>1. pc' = [pc EXCEPT ![w] = "fetch"] /\ pc[w] = "idle" /\ UNCHANGED <<cur, todo, success, got>>
    BY <1>1 DEF _requeue_stuck_sending, GoTo
  <2>2. ~success'[w]
    BY <2>1 DEF WorkInv, Working
  <2> QED
    BY <2>1, <2>2, WorkLeft
<1>2. CASE _fetch_and_lock_batch(w)
  <2>1. PICK p \in {"idle", "batch"} : pc' = [pc EXCEPT ![w] = p]
    BY <1>2 DEF _fetch_and_lock_batch, Claim, GoTo
  <2>2. pc[w] = "fetch" /\ UNCHANGED <<cur, todo, success, got>>
    BY <1>2 DEF _fetch_and_lock_batch, Claim
  <2>3. ~success'[w]
    BY <2>2 DEF WorkInv, Working
  <2> QED
    BY <2>1, <2>2, <2>3, WorkLeft
<1>3. CASE Finish(w) /\ UNCHANGED got
  <2>1. PICK p \in {"idle", "batch"} : pc' = [pc EXCEPT ![w] = p]
    BY <1>3 DEF Finish, GoTo
  <2>2. /\ success' = [success EXCEPT ![w] = FALSE]
        /\ cur' = [cur EXCEPT ![w] = None]
        /\ todo' = [todo EXCEPT ![w] = {}]
    BY <1>3 DEF Finish
  <2> QED
    BY <1>3, <2>1, <2>2, WorkLeft
<1>4. CASE Forget(w) /\ UNCHANGED got
  <2>1. /\ pc' = [pc EXCEPT ![w] = "idle"]
        /\ success' = [success EXCEPT ![w] = FALSE]
        /\ cur' = [cur EXCEPT ![w] = None]
        /\ todo' = [todo EXCEPT ![w] = {}]
    BY <1>4 DEF Forget, GoTo
  <2> QED
    BY <1>4, <2>1, WorkLeft
<1>5. CASE MarkSentRaises(w)
  <2>1. pc' = [pc EXCEPT ![w] = "fail"] /\ UNCHANGED <<cur, todo, success, got>>
    BY <1>5 DEF MarkSentRaises, GoTo
  <2> QED
    BY <2>1, WorkLeft
<1> QED
  BY <1>1, <1>2, <1>3, <1>4, <1>5 DEF _mark_sent, _mark_failed, Crash

LEMMA WorkKept ==
    ASSUME TypeInv, WorkInv, [Next]_vars
    PROVE  WorkInv'
<1>1. TypeInv'
  BY TypeKept
<1>2. ASSUME UNCHANGED <<workerVars, got>>
      PROVE  WorkInv'
  BY <1>2 DEF workerVars, WorkInv, Working
<1>3. ASSUME NEW w \in up, run_once(w) \/ MarkSentRaises(w) \/ Crash(w), UNCHANGED started
      PROVE  WorkInv'
  <2>1. w \in Workers
    BY DEF TypeInv, ShapeInv
  <2> QED
    BY <1>1, <1>3, <2>1, TakeWorks, SendWorks, PushWorks, EndPushWorks, OthersWorkOn DEF run_once
<1> QED
  BY <1>2, <1>3 DEF Next, vars, GrowOld

LEMMA SentKept ==
    ASSUME TypeInv, WorkInv, SentWasDelivered, [Next]_vars
    PROVE  SentWasDelivered'
<1>1. TypeInv'
  BY TypeKept
<1>2. \A m \in Messages : got[m] \subseteq got'[m]
  <2>1. ASSUME NEW w \in Workers, NEW x, Tries(w, x)
        PROVE  \A m \in Messages : got[m] \subseteq got'[m]
    <3>1. x \in todo[w] /\ cur[w] \in Messages
      BY <2>1 DEF Tries, TypeInv, TypeOK
    <3> QED
      BY <2>1, <3>1, DeliverTyped DEF Tries
  <2>2. ASSUME NEW w \in Workers, SendPart(w)
        PROVE  \A m \in Messages : got[m] \subseteq got'[m]
    BY <2>1, <2>2, SendingIsTrying
  <2>3. ASSUME NEW w \in Workers, NEW d \in Devices, Push(w, d)
        PROVE  \A m \in Messages : got[m] \subseteq got'[m]
    BY <2>1, <2>3, PushingIsTrying
  <2>4. ASSUME NEW w \in Workers,
               \/ _requeue_stuck_sending(w) \/ _fetch_and_lock_batch(w)
               \/ \E m \in Messages : Take(w, m)
               \/ EndPush(w) \/ _mark_sent(w) \/ _mark_failed(w) \/ MarkSentRaises(w) \/ Crash(w)
        PROVE  got' = got
    BY <2>4 DEF _requeue_stuck_sending, _fetch_and_lock_batch, Claim, Take, EndPush, _mark_sent,
                _mark_failed, MarkSentRaises, Crash
  <2>5. up \subseteq Workers
    BY DEF TypeInv, ShapeInv
  <2> QED
    BY <2>2, <2>3, <2>4, <2>5 DEF Next, run_once, GrowOld, vars
<1>3. ASSUME NEW m \in Messages, status'[m] = "sent", status[m] # "sent"
      PROVE  Complete(m, got[m])
  <2>1. PICK w \in Workers : run_once(w) \/ MarkSentRaises(w) \/ Crash(w)
    BY <1>3 DEF Next, GrowOld, vars, rowVars, TypeInv, ShapeInv
  <2>2. ~MarkSentRaises(w) /\ ~Crash(w)
    BY <1>3 DEF MarkSentRaises, Crash, rowVars
  <2>3. ~_requeue_stuck_sending(w) /\ ~_fetch_and_lock_batch(w)
    BY <1>3 DEF _requeue_stuck_sending, _fetch_and_lock_batch, TypeInv, TypeOK
  <2>4. /\ ~(\E k \in Messages : Take(w, k)) /\ ~SendPart(w)
        /\ ~(\E d \in Devices : Push(w, d)) /\ ~EndPush(w)
    BY <1>3 DEF Take, SendPart, Push, EndPush, rowVars
  <2>5. ~_mark_failed(w)
    BY <1>3 DEF _mark_failed, TypeInv, TypeOK
  <2>6. _mark_sent(w)
    BY <2>1, <2>2, <2>3, <2>4, <2>5 DEF run_once
  <2>7. pc[w] = "mark" /\ m = cur[w]
    BY <1>3, <2>6 DEF _mark_sent, TypeInv, TypeOK
  <2> QED
    BY <2>7 DEF WorkInv, Working
<1>4. ASSUME NEW m \in Messages, status'[m] = "sent"
      PROVE  Complete(m, got'[m])
  <2>1. Complete(m, got[m])
    BY <1>3, <1>4 DEF SentWasDelivered, Complete
  <2>2. got[m] \subseteq got'[m] /\ got'[m] \subseteq Targets(m)
    BY <1>1, <1>2 DEF TypeInv, TypeOK
  <2> QED
    BY <2>1, <2>2, StillComplete
<1> QED
  BY <1>4 DEF SentWasDelivered, Complete

-----------------------------------------------------------------------------
(* No copy without a cause.                                                *)

LEMMA Counting ==
    ASSUME NEW A \in SUBSET Workers, NEW B \in SUBSET Workers, NEW w
    PROVE  /\ Cardinality(A) \in Nat /\ Cardinality(B) \in Nat
           /\ B \subseteq A => Cardinality(B) <= Cardinality(A)
           /\ B \subseteq A \cup {w} => Cardinality(B) <= Cardinality(A) + 1
           /\ w \in A /\ B \subseteq A \ {w} => Cardinality(B) <= Cardinality(A) - 1
<1>1. IsFiniteSet(A) /\ IsFiniteSet(B)
  BY LegacyAssumption, FS_Subset
<1>2. Cardinality(A) \in Nat /\ Cardinality(B) \in Nat
  BY <1>1, FS_CardinalityType
<1>3. B \subseteq A => Cardinality(B) <= Cardinality(A)
  BY <1>1, FS_Subset
<1>4. ASSUME B \subseteq A \cup {w}
      PROVE  Cardinality(B) <= Cardinality(A) + 1
  <2>1. /\ IsFiniteSet(A \cup {w})
        /\ Cardinality(A \cup {w}) \in {Cardinality(A), Cardinality(A) + 1}
    BY <1>1, FS_AddElement
  <2>2. Cardinality(B) <= Cardinality(A \cup {w})
    BY <1>4, <2>1, FS_Subset
  <2> QED
    BY <1>2, <2>1, <2>2
<1>5. ASSUME w \in A, B \subseteq A \ {w}
      PROVE  Cardinality(B) <= Cardinality(A) - 1
  <2>1. IsFiniteSet(A \ {w}) /\ Cardinality(A \ {w}) = Cardinality(A) - 1
    BY <1>1, <1>5, FS_RemoveElement
  <2>2. Cardinality(B) <= Cardinality(A \ {w})
    BY <1>5, <2>1, FS_Subset
  <2> QED
    BY <2>1, <2>2
<1> QED
  BY <1>2, <1>3, <1>4, <1>5

LEMMA BatchKept ==
    ASSUME TypeInv, WorkInv, BatchInv, [Next]_vars
    PROVE  BatchInv'
<1> USE DEF TypeInv, TypeOK, ShapeInv, BatchInv
<1>0. None \notin Messages
  BY LegacyAssumption
<1>1. ASSUME UNCHANGED workerVars
      PROVE  BatchInv'
  BY <1>1 DEF workerVars
<1>2. ASSUME NEW w \in Workers, Finish(w)
      PROVE  BatchInv'
  <2>1. /\ pc' = [pc EXCEPT ![w] = IF DOMAIN batch[w] = {} THEN "idle" ELSE "batch"]
        /\ cur' = [cur EXCEPT ![w] = None] /\ batch' = batch
    BY <1>2 DEF Finish, GoTo
  <2> QED
    BY <1>0, <2>1
<1>3. ASSUME NEW w \in Workers, Forget(w)
      PROVE  BatchInv'
  <2>1. /\ pc' = [pc EXCEPT ![w] = "idle"]
        /\ cur' = [cur EXCEPT ![w] = None] /\ batch' = [batch EXCEPT ![w] = NoClaims]
    BY <1>3 DEF Forget, GoTo
  <2>2. DOMAIN NoClaims = {}
    BY DEF NoClaims
  <2> QED
    BY <1>0, <2>1, <2>2
<1>4. ASSUME NEW w \in Workers, NEW p \in {"fetch", "batch", "send", "push", "mark", "fail"},
             pc' = [pc EXCEPT ![w] = p], UNCHANGED <<cur, batch>>, p = "fetch" => pc[w] = "idle"
      PROVE  BatchInv'
  BY <1>4
<1>5. ASSUME NEW w \in Workers, _fetch_and_lock_batch(w)
      PROVE  BatchInv'
  <2>1. PICK B \in Batches : Claim(w, B)
    BY <1>5 DEF _fetch_and_lock_batch
  <2>2. /\ pc[w] = "fetch" /\ cur' = cur
        /\ batch' = [batch EXCEPT ![w] = [m \in B |-> attempts[m]]]
        /\ pc' = [pc EXCEPT ![w] = IF B = {} THEN "idle" ELSE "batch"]
    BY <2>1 DEF Claim, GoTo
  <2>3. B \subseteq Messages
    BY DEF Batches, Ready
  <2>4. cur[w] = None
    BY <2>2
  <2> QED
    BY <1>0, <2>2, <2>3, <2>4
<1>6. ASSUME NEW w \in Workers, NEW m \in Messages, Take(w, m)
      PROVE  BatchInv'
  <2>1. PICK p \in {"fail", "push", "send"} : pc' = [pc EXCEPT ![w] = p]
    BY <1>6 DEF Take, GoTo
  <2>2. /\ cur' = [cur EXCEPT ![w] = m]
        /\ batch' = [batch EXCEPT ![w] = [k \in DOMAIN @ \ {m} |-> @[k]]]
    BY <1>6 DEF Take
  <2> QED
    BY <2>1, <2>2
<1>7. ASSUME NEW w \in Workers, run_once(w) \/ MarkSentRaises(w) \/ Crash(w)
      PROVE  BatchInv'
  <2>1. CASE _requeue_stuck_sending(w)
    BY <1>4, <2>1 DEF _requeue_stuck_sending, GoTo
  <2>2. ASSUME NEW x, Tries(w, x)
        PROVE  BatchInv'
    BY <1>4, <2>2 DEF Tries, GoTo
  <2>3. CASE SendPart(w)
    BY <2>2, <2>3, SendingIsTrying
  <2>4. ASSUME NEW d \in Devices, Push(w, d)
        PROVE  BatchInv'
    BY <2>2, <2>4, PushingIsTrying
  <2>5. CASE EndPush(w)
    <3>1. PICK p \in {"mark", "fail"} : pc' = [pc EXCEPT ![w] = p]
      BY <2>5 DEF EndPush, GoTo
    <3> QED
      BY <1>4, <2>5, <3>1 DEF EndPush
  <2>6. CASE MarkSentRaises(w)
    BY <1>4, <2>6 DEF MarkSentRaises, GoTo
  <2> QED
    BY <1>2, <1>3, <1>5, <1>6, <1>7, <2>1, <2>3, <2>4, <2>5, <2>6
    DEF run_once, _mark_sent, _mark_failed, Crash
<1> QED
  BY <1>1, <1>7 DEF Next, vars, GrowOld

\* Steps of one worker after which it does not hold more than before.
LEMMA HoldsLess ==
    ASSUME TypeInv, TypeInv', NEW w \in Workers, NEW m \in Messages, NEW x,
           \A v \in Workers \ {w} :
                batch'[v] = batch[v] /\ pc'[v] = pc[v] /\ cur'[v] = cur[v] /\ todo'[v] = todo[v],
           DOMAIN batch'[w] \subseteq DOMAIN batch[w],
           \/ pc'[w] \notin {"send", "push"}
           \/ pc[w] \in {"send", "push"} /\ cur'[w] = cur[w] /\ todo'[w] \subseteq todo[w]
    PROVE  Holders(m, x)' \subseteq Holders(m, x)
BY DEF Holders

\* The count, when nobody holds more and the queue neither.
LEMMA CountKept ==
    ASSUME CopiesInv, NEW m \in Messages, NEW x \in Targets(m),
           copies[m][x] \in Int, copies'[m][x] \in Int,
           Holders(m, x)' \subseteq Holders(m, x), copies'[m][x] >= copies[m][x] + Queued(m)' - Queued(m)
    PROVE  copies'[m][x] >= Cardinality(Holders(m, x)') + Queued(m)'
<1>1. Holders(m, x) \in SUBSET Workers /\ Holders(m, x)' \in SUBSET Workers
  BY DEF Holders
<1>2. /\ Cardinality(Holders(m, x)') <= Cardinality(Holders(m, x))
      /\ Cardinality(Holders(m, x)) \in Nat /\ Cardinality(Holders(m, x)') \in Nat
  BY <1>1, Counting
<1>4. copies[m][x] >= Cardinality(Holders(m, x)) + Queued(m)
  BY DEF CopiesInv
<1>5. Queued(m) \in {0, 1} /\ Queued(m)' \in {0, 1}
  BY DEF Queued
<1> QED
  BY <1>2, <1>4, <1>5

LEMMA TriesCounted ==
    ASSUME TypeInv, TypeInv', CopiesInv, NEW w \in Workers, NEW y, Tries(w, y),
           NEW m \in Messages, NEW x \in Targets(m)
    PROVE  copies'[m][x] >= Cardinality(Holders(m, x)') + Queued(m)'
<1> USE DEF TypeInv, TypeOK, ShapeInv
<1>1. /\ pc[w] \in {"send", "push"} /\ y \in todo[w] /\ cur[w] \in Messages
      /\ UNCHANGED <<status, batch, cur>>
  BY DEF Tries, rowVars
<1>2. PICK p \in {"send", "push", "mark", "fail"} : pc' = [pc EXCEPT ![w] = p]
  BY DEF Tries, GoTo
<1>3. /\ \A v \in Workers \ {w} : pc'[v] = pc[v] /\ todo'[v] = todo[v]
      /\ todo'[w] \subseteq todo[w]
      /\ y \notin todo'[w] \/ pc'[w] = "fail"
  BY <1>2 DEF Tries, GoTo
<1>4. Holders(m, x)' \subseteq Holders(m, x)
  BY <1>1, <1>3, HoldsLess
<1>5. /\ Queued(m)' = Queued(m) /\ Queued(m) \in {0, 1}
      /\ copies[m][x] \in Int /\ copies'[m][x] \in Int
  BY <1>1 DEF Queued
<1>6. CASE copies'[m][x] = copies[m][x]
  <2>1. copies'[m][x] >= copies[m][x] + Queued(m)' - Queued(m)
    BY <1>5, <1>6
  <2> HIDE DEF TypeInv, TypeOK, ShapeInv
  <2> QED
    BY <1>4, <1>5, <2>1, CountKept
<1>7. CASE copies'[m][x] # copies[m][x]
  <2>1. m = cur[w] /\ x = y /\ copies'[m][x] = copies[m][x] - 1
    BY <1>1, <1>7 DEF Tries, Deliver, NoDelivery
  <2>2. m \notin DOMAIN batch'[w] /\ (pc'[w] = "fail" \/ x \notin todo'[w])
    BY <1>1, <1>3, <2>1 DEF CopiesInv, BatchInv
  <2>3. w \in Holders(m, x) /\ w \notin Holders(m, x)'
    BY <1>1, <2>1, <2>2 DEF Holders
  <2>4. Holders(m, x)' \subseteq Holders(m, x) \ {w}
    BY <1>4, <2>3
  <2>5. Holders(m, x) \in SUBSET Workers /\ Holders(m, x)' \in SUBSET Workers
    BY DEF Holders
  <2>6. /\ Cardinality(Holders(m, x)') <= Cardinality(Holders(m, x)) - 1
        /\ Cardinality(Holders(m, x)) \in Nat /\ Cardinality(Holders(m, x)') \in Nat
    BY <2>3, <2>4, <2>5, Counting
  <2>7. copies[m][x] >= Cardinality(Holders(m, x)) + Queued(m) /\ copies[m][x] \in Int
    BY DEF CopiesInv
  <2> QED
    BY <1>5, <2>1, <2>6, <2>7
<1> QED
  BY <1>6, <1>7

LEMMA FetchCounted ==
    ASSUME TypeInv, TypeInv', CopiesInv, NEW w \in Workers, _fetch_and_lock_batch(w),
           NEW m \in Messages, NEW x \in Targets(m)
    PROVE  copies'[m][x] >= Cardinality(Holders(m, x)') + Queued(m)'
<1> USE DEF TypeInv, TypeOK, ShapeInv
<1>1. PICK B \in Batches :
        Claim(w, B) /\ status' = [k \in Messages |-> IF k \in B THEN "sending" ELSE status[k]]
  BY DEF _fetch_and_lock_batch
<1>2. B \subseteq Messages /\ \A k \in B : status[k] = "queued"
  BY DEF Batches, Ready
<1>3. /\ pc[w] = "fetch" /\ UNCHANGED <<cur, todo, copies>>
      /\ batch' = [batch EXCEPT ![w] = [k \in B |-> attempts[k]]]
  BY <1>1 DEF Claim
<1>4. PICK p \in {"idle", "batch"} : pc' = [pc EXCEPT ![w] = p]
  BY <1>1 DEF Claim, GoTo
<1>5. \A v \in Workers \ {w} :
        batch'[v] = batch[v] /\ pc'[v] = pc[v] /\ cur'[v] = cur[v] /\ todo'[v] = todo[v]
  BY <1>3, <1>4
<1>6. DOMAIN batch'[w] = B /\ pc'[w] \notin {"send", "push"}
  BY <1>3, <1>4
<1>7. CASE m \in B
  <2>1. Holders(m, x)' \subseteq Holders(m, x) \cup {w}
    BY <1>5 DEF Holders
  <2>2. Holders(m, x) \in SUBSET Workers /\ Holders(m, x)' \in SUBSET Workers
    BY DEF Holders
  <2>3. /\ Cardinality(Holders(m, x)') <= Cardinality(Holders(m, x)) + 1
        /\ Cardinality(Holders(m, x)) \in Nat /\ Cardinality(Holders(m, x)') \in Nat
    BY <2>1, <2>2, Counting
  <2>4. Queued(m) = 1 /\ Queued(m)' = 0
    BY <1>1, <1>2, <1>7 DEF Queued
  <2>5. copies[m][x] >= Cardinality(Holders(m, x)) + Queued(m) /\ copies[m][x] \in Int
    BY DEF CopiesInv
  <2> QED
    BY <1>3, <2>3, <2>4, <2>5
<1>8. CASE m \notin B
  <2>1. Holders(m, x)' \subseteq Holders(m, x)
    BY <1>5, <1>6, <1>8 DEF Holders
  <2>2. /\ Queued(m)' = Queued(m) /\ Queued(m) \in {0, 1}
        /\ copies[m][x] \in Int /\ copies'[m][x] \in Int
    BY <1>1, <1>8 DEF Queued
  <2>3. copies'[m][x] >= copies[m][x] + Queued(m)' - Queued(m)
    BY <1>3, <2>2
  <2> HIDE DEF TypeInv, TypeOK, ShapeInv
  <2> QED
    BY <2>1, <2>2, <2>3, CountKept
<1> QED
  BY <1>7, <1>8

\* What goes back into the queue gets a copy for it.
LEMMA QueueCounted ==
    ASSUME TypeInv, TypeInv', CopiesInv, NEW w \in Workers,
           _requeue_stuck_sending(w) \/ _mark_failed(w) \/ _mark_sent(w),
           NEW m \in Messages, NEW x \in Targets(m)
    PROVE  copies'[m][x] >= Cardinality(Holders(m, x)') + Queued(m)'
<1> USE DEF TypeInv, TypeOK, ShapeInv
<1>0. /\ copies[m][x] \in Int /\ copies'[m][x] \in Int
      /\ Queued(m) \in {0, 1} /\ Queued(m)' \in {0, 1}
  BY DEF Queued
<1>1. CASE _requeue_stuck_sending(w)
  <2>1. pc' = [pc EXCEPT ![w] = "fetch"] /\ UNCHANGED <<batch, cur, todo>>
    BY <1>1 DEF _requeue_stuck_sending, GoTo
  <2>2. Holders(m, x)' \subseteq Holders(m, x)
    BY <2>1, HoldsLess
  <2>3. CASE status[m] = "sending" /\ old
    <3>1. copies'[m][x] = IF copies[m][x] < MaxCredit THEN copies[m][x] + 1 ELSE MaxCredit
      BY <1>1, <2>3 DEF _requeue_stuck_sending, OneMore
    <3>2. Queued(m) = 0 /\ Queued(m)' = 1
      BY <1>1, <2>3 DEF _requeue_stuck_sending, Queued
    <3>3. CASE copies[m][x] < MaxCredit
      <4>1. copies'[m][x] >= copies[m][x] + Queued(m)' - Queued(m)
        BY <1>0, <3>1, <3>2, <3>3
      <4> HIDE DEF TypeInv, TypeOK, ShapeInv
      <4> QED
        BY <1>0, <2>2, <4>1, CountKept
    <3>4. CASE ~(copies[m][x] < MaxCredit)
      <4>1. Holders(m, x)' \in SUBSET Workers /\ Workers \in SUBSET Workers
        BY DEF Holders
      <4>2. /\ Cardinality(Holders(m, x)') <= Cardinality(Workers)
            /\ Cardinality(Holders(m, x)') \in Nat /\ Cardinality(Workers) \in Nat
        BY <4>1, Counting
      <4>3. MaxCredit > Cardinality(Workers) /\ MaxCredit \in Nat
        BY LegacyAssumption
      <4> QED
        BY <3>1, <3>2, <3>4, <4>2, <4>3
    <3> QED
      BY <3>3, <3>4
  <2>4. CASE ~(status[m] = "sending" /\ old)
    <3>1. status'[m] = status[m] /\ copies'[m] = copies[m]
      BY <1>1, <2>4 DEF _requeue_stuck_sending
    <3>2. Queued(m)' = Queued(m)
      BY <3>1 DEF Queued
    <3> QED
      BY <1>0, <2>2, <3>1, <3>2, CountKept
  <2> QED
    BY <2>3, <2>4
<1>2. ASSUME Finish(w)
      PROVE  Holders(m, x)' \subseteq Holders(m, x)
  <2>1. PICK p \in {"idle", "batch"} : pc' = [pc EXCEPT ![w] = p]
    BY <1>2 DEF Finish, GoTo
  <2>2. /\ cur' = [cur EXCEPT ![w] = None] /\ todo' = [todo EXCEPT ![w] = {}]
        /\ batch' = batch
    BY <1>2 DEF Finish
  <2> QED
    BY <2>1, <2>2, HoldsLess
<1>3. CASE _mark_sent(w)
  <2>1. status' = [status EXCEPT ![cur[w]] = "sent"] /\ copies' = copies /\ Finish(w)
    BY <1>3 DEF _mark_sent
  <2>2. Queued(m)' <= Queued(m)
    BY <2>1 DEF Queued
  <2> QED
    BY <1>0, <1>2, <2>1, <2>2, CountKept
<1>4. ASSUME Forget(w)
      PROVE  Holders(m, x)' \subseteq Holders(m, x)
  <2>1. /\ pc' = [pc EXCEPT ![w] = "idle"] /\ batch' = [batch EXCEPT ![w] = NoClaims]
        /\ cur' = [cur EXCEPT ![w] = None] /\ todo' = [todo EXCEPT ![w] = {}]
    BY <1>4 DEF Forget, GoTo
  <2>2. DOMAIN NoClaims = {}
    BY DEF NoClaims
  <2> QED
    BY <2>1, <2>2, HoldsLess
<1>5. CASE _mark_failed(w)
  <2>1. (Finish(w) \/ Forget(w)) /\ copies' = copies
    BY <1>5 DEF _mark_failed
  <2>2. status' = [status EXCEPT ![cur[w]] = "dead"] \/ status' = status
    BY <1>5 DEF _mark_failed
  <2>3. Queued(m)' <= Queued(m)
    BY <2>2 DEF Queued
  <2> QED
    BY <1>0, <1>2, <1>4, <2>1, <2>3, CountKept
<1> QED
  BY <1>1, <1>3, <1>5

LEMMA CopiesKept ==
    ASSUME TypeInv, WorkInv, CopiesInv, [Next]_vars
    PROVE  CopiesInv'
<1>1. TypeInv' /\ BatchInv'
  BY TypeKept, BatchKept DEF CopiesInv
<1> SUFFICES ASSUME NEW m \in Messages, NEW x \in Targets(m)
             PROVE  copies'[m][x] >= Cardinality(Holders(m, x)') + Queued(m)'
  BY <1>1 DEF CopiesInv, Targets
<1>2. copies[m][x] \in Int /\ copies'[m][x] \in Int /\ Queued(m) \in {0, 1}
  BY <1>1 DEF TypeInv, TypeOK, Queued
<1>3. ASSUME UNCHANGED <<status, copies>>, Holders(m, x)' \subseteq Holders(m, x)
      PROVE  copies'[m][x] >= Cardinality(Holders(m, x)') + Queued(m)'
  <2>1. Queued(m)' = Queued(m)
    BY <1>3 DEF Queued
  <2> QED
    BY <1>2, <1>3, <2>1, CountKept
<1>4. ASSUME UNCHANGED <<status, copies, workerVars>>
      PROVE  copies'[m][x] >= Cardinality(Holders(m, x)') + Queued(m)'
  BY <1>3, <1>4 DEF workerVars, Holders
<1>5. ASSUME NEW w \in Workers, run_once(w) \/ MarkSentRaises(w) \/ Crash(w)
      PROVE  copies'[m][x] >= Cardinality(Holders(m, x)') + Queued(m)'
  <2>1. CASE SendPart(w)
    BY <1>1, <2>1, SendingIsTrying, TriesCounted
  <2>2. ASSUME NEW d \in Devices, Push(w, d)
        PROVE  copies'[m][x] >= Cardinality(Holders(m, x)') + Queued(m)'
    BY <1>1, <2>2, PushingIsTrying, TriesCounted
  <2>3. CASE _fetch_and_lock_batch(w)
    BY <1>1, <2>3, FetchCounted
  <2>4. CASE _requeue_stuck_sending(w) \/ _mark_failed(w) \/ _mark_sent(w)
    BY <1>1, <2>4, QueueCounted
  <2>5. ASSUME NEW k \in Messages, Take(w, k)
        PROVE  copies'[m][x] >= Cardinality(Holders(m, x)') + Queued(m)'
    <3>1. PICK p \in {"fail", "push", "send"} : pc' = [pc EXCEPT ![w] = p]
      BY <2>5 DEF Take, GoTo
    <3>2. /\ cur' = [cur EXCEPT ![w] = k] /\ UNCHANGED <<status, copies>>
          /\ batch' = [batch EXCEPT ![w] = [j \in DOMAIN @ \ {k} |-> @[j]]]
          /\ \A v \in Workers \ {w} : todo'[v] = todo[v]
          /\ k \in DOMAIN batch[w]
      BY <2>5 DEF Take, rowVars, TypeInv, ShapeInv
    <3>3. Holders(m, x)' \subseteq Holders(m, x)
      BY <3>1, <3>2 DEF Holders, TypeInv, TypeOK, ShapeInv
    <3> QED
      BY <1>3, <3>2, <3>3
  <2>6. CASE EndPush(w) \/ MarkSentRaises(w)
    <3>1. PICK p \in {"mark", "fail"} : pc' = [pc EXCEPT ![w] = p]
      BY <2>6 DEF EndPush, MarkSentRaises, GoTo
    <3>2. UNCHANGED <<status, copies, batch, cur, todo>>
      BY <2>6 DEF EndPush, MarkSentRaises, rowVars
    <3>3. Holders(m, x)' \subseteq Holders(m, x)
      BY <3>1, <3>2 DEF Holders, TypeInv, TypeOK
    <3> QED
      BY <1>3, <3>2, <3>3
  <2>7. CASE Crash(w)
    <3>1. /\ pc' = [pc EXCEPT ![w] = "idle"] /\ UNCHANGED <<status, copies>>
          /\ batch' = [batch EXCEPT ![w] = NoClaims]
          /\ cur' = [cur EXCEPT ![w] = None]
          /\ todo' = [todo EXCEPT ![w] = {}]
      BY <2>7 DEF Crash, Forget, GoTo, rowVars
    <3>2. DOMAIN NoClaims = {}
      BY DEF NoClaims
    <3>3. Holders(m, x)' \subseteq Holders(m, x)
      BY <3>1, <3>2 DEF Holders, TypeInv, TypeOK, ShapeInv
    <3> QED
      BY <1>3, <3>1, <3>3
  <2> QED
    BY <1>5, <2>1, <2>2, <2>3, <2>4, <2>5, <2>6, <2>7 DEF run_once
<1> QED
  BY <1>4, <1>5 DEF Next, vars, rowVars, GrowOld, TypeInv, ShapeInv

-----------------------------------------------------------------------------
(* The theorems.                                                           *)

LEMMA LegacyStarts == Init => LegacyInv
<1> SUFFICES ASSUME Init
             PROVE  LegacyInv
  OBVIOUS
<1>0. /\ MAX_ATTEMPTS \in Nat \ {0} /\ 0 \in 0 .. MAX_ATTEMPTS /\ 0 \in 0 .. MAX_ATTEMPTS - 1
      /\ 0 \in 0 .. MaxFaults /\ 0 < MAX_ATTEMPTS
  BY LegacyAssumption DEF Init
<1>1. DOMAIN NoClaims = {}
  BY DEF NoClaims
<1>2. TypeInv
  <2>1. \A m \in Messages : status[m] \in {"queued", "sending"} => attempts[m] < MAX_ATTEMPTS
    BY <1>0 DEF Init
  <2>2. \A m \in Messages : got[m] \subseteq Targets(m) /\ copies[m] \in [Targets(m) -> Int]
    BY DEF Init
  <2>3. /\ up \subseteq Workers /\ MAX_ATTEMPTS \in Nat \ {0}
        /\ DOMAIN batch = Workers /\ DOMAIN todo = Workers
        /\ DOMAIN got = Messages /\ DOMAIN copies = Messages
    BY <1>0 DEF Init
  <2>4. /\ status \in [Messages -> {"none", "queued", "sending", "sent", "dead"}]
        /\ attempts \in [Messages -> 0 .. MAX_ATTEMPTS]
        /\ active \subseteq Devices
    BY <1>0 DEF Init
  <2>7. old \in BOOLEAN /\ MAX_ATTEMPTS \in Limits
    BY DEF Init
  <2>5. /\ pc \in [Workers -> {"idle", "fetch", "batch", "send", "push", "mark", "fail"}]
        /\ cur \in [Workers -> Messages \cup {None}]
        /\ seen \in [Workers -> 0 .. MAX_ATTEMPTS - 1]
        /\ success \in [Workers -> BOOLEAN] /\ faults \in 0 .. MaxFaults
    BY <1>0 DEF Init
  <2>6. \A w \in Workers :
          DOMAIN batch[w] = {} /\ pc[w] = "idle" /\ cur[w] = None /\ todo[w] = {}
    BY <1>1 DEF Init
  <2> QED
    BY <2>1, <2>2, <2>3, <2>4, <2>5, <2>6, <2>7 DEF TypeInv, TypeOK, ShapeInv
<1>3. WorkInv /\ SentWasDelivered /\ BatchInv
  BY <1>1 DEF Init, WorkInv, Working, SentWasDelivered, BatchInv
<1>4. ASSUME NEW m \in Messages, NEW x \in Targets(m)
      PROVE  copies[m][x] >= Cardinality(Holders(m, x)) + Queued(m)
  <2>1. Holders(m, x) = {}
    BY <1>1 DEF Init, Holders
  <2>2. Cardinality(Holders(m, x)) = 0
    BY <2>1, FS_EmptySet
  <2>3. copies[m][x] = 1 /\ Queued(m) <= 1 /\ Queued(m) \in Nat
    BY DEF Init, Queued
  <2> QED
    BY <2>2, <2>3
<1> QED
  BY <1>2, <1>3, <1>4 DEF LegacyInv, CopiesInv

LEMMA LegacyInvariant == Spec => []LegacyInv
<1>1. LegacyInv /\ [Next]_vars => LegacyInv'
  BY TypeKept, WorkKept, SentKept, CopiesKept DEF LegacyInv
<1> QED
  BY LegacyStarts, <1>1, PTL DEF Spec

\* The columns and the workers of app/notifier/main.py keep their types, however often
\* workers overwrite each other's attempts.
THEOREM LegacyTypeCorrect == Spec => []TypeOK
<1>1. LegacyInv => TypeOK
  BY DEF LegacyInv, TypeInv
<1> QED
  BY <1>1, LegacyInvariant, PTL

\* A message is marked sent only when each part of it, or a device, has taken it.
THEOREM LegacySentWasDelivered == Spec => []SentWasDelivered
<1>1. LegacyInv => SentWasDelivered
  BY DEF LegacyInv
<1> QED
  BY <1>1, LegacyInvariant, PTL

\* Each copy of a part beyond the first is paid for by a requeue of its row.
THEOREM LegacyCopiesAreRetries == Spec => []CopiesAreRetries
<1>1. LegacyInv => CopiesAreRetries
  <2> SUFFICES ASSUME LegacyInv, NEW m \in Messages, NEW x \in Targets(m)
               PROVE  copies[m][x] >= 0
    BY DEF CopiesAreRetries
  <2>1. Holders(m, x) \in SUBSET Workers
    BY DEF Holders
  <2>2. Cardinality(Holders(m, x)) \in Nat /\ Queued(m) \in Nat
    BY <2>1, Counting DEF Queued
  <2>3. copies[m][x] >= Cardinality(Holders(m, x)) + Queued(m) /\ copies[m][x] \in Int
    BY DEF LegacyInv, CopiesInv, TypeInv, TypeOK
  <2> QED
    BY <2>2, <2>3
<1> QED
  BY <1>1, LegacyInvariant, PTL

-----------------------------------------------------------------------------
(* A single worker does what AtLeastOnce allows.                           *)

Alone == Cardinality(up) = 1

\* What a single worker has claimed is its own: nobody takes it back meanwhile.
HeldInv ==
    Alone => \A w \in up, m \in Messages :
                m \in DOMAIN batch[w] \/ cur[w] = m => status[m] = "sending"

LEMMA OneWorker ==
    ASSUME TypeInv, Alone
    PROVE  \E w \in Workers : up = {w}
<1>1. IsFiniteSet(up)
  BY LegacyAssumption, FS_Subset DEF TypeInv, ShapeInv
<1>2. \E w : up = {w}
  BY <1>1, FS_Singleton DEF Alone
<1> QED
  BY <1>2 DEF TypeInv, ShapeInv

\* The steps of a worker that leave its claims and all rows alone.
LEMMA TryingClaimsNothing ==
    ASSUME TypeInv, WorkInv, NEW w \in Workers,
           \/ SendPart(w) \/ (\E d \in Devices : Push(w, d)) \/ EndPush(w) \/ MarkSentRaises(w)
    PROVE  UNCHANGED <<status, batch, cur>>
BY DEF SendPart, Push, EndPush, MarkSentRaises, rowVars

LEMMA HeldKept ==
    ASSUME LegacyInv, HeldInv, [Next]_vars
    PROVE  HeldInv'
<1> USE DEF LegacyInv, TypeInv, TypeOK, ShapeInv
<1>1. CASE UNCHANGED <<up, status, batch, cur>>
  BY <1>1 DEF HeldInv, Alone
<1>2. ASSUME Alone, NEW w \in Workers, up = {w}, up' = up,
             run_once(w) \/ MarkSentRaises(w) \/ Crash(w)
      PROVE  HeldInv'
  <2>1. ASSUME \A m \in Messages :
                  m \in DOMAIN batch'[w] \/ cur'[w] = m => status'[m] = "sending"
        PROVE  HeldInv'
    BY <1>2, <2>1 DEF HeldInv
  <2>2. \A m \in Messages : m \in DOMAIN batch[w] \/ cur[w] = m => status[m] = "sending"
    BY <1>2 DEF HeldInv
  <2>3. cur[w] \notin DOMAIN batch[w]
    BY DEF CopiesInv, BatchInv
  <2>4. CASE _requeue_stuck_sending(w)
    <3>1. DOMAIN batch[w] = {} /\ cur[w] = None /\ batch' = batch /\ cur' = cur
      BY <2>4 DEF _requeue_stuck_sending, CopiesInv, BatchInv
    <3>2. None \notin Messages
      BY LegacyAssumption
    <3> QED
      BY <2>1, <3>1, <3>2
  <2>5. CASE _fetch_and_lock_batch(w)
    <3>1. PICK B \in Batches : Claim(w, B) /\ status' = [m \in Messages |-> IF m \in B THEN "sending" ELSE status[m]]
      BY <2>5 DEF _fetch_and_lock_batch
    <3>2. cur'[w] = None /\ DOMAIN batch'[w] = B
      BY <3>1 DEF Claim
    <3>3. None \notin Messages
      BY LegacyAssumption
    <3> QED
      BY <2>1, <3>1, <3>2, <3>3
  <2>6. ASSUME NEW m \in Messages, Take(w, m)
        PROVE  HeldInv'
    <3>1. m \in DOMAIN batch[w] /\ cur'[w] = m /\ DOMAIN batch'[w] = DOMAIN batch[w] \ {m} /\ status' = status
      BY <2>6 DEF Take, rowVars
    <3> QED
      BY <2>1, <2>2, <3>1
  <2>7. CASE SendPart(w) \/ (\E d \in Devices : Push(w, d)) \/ EndPush(w) \/ MarkSentRaises(w)
    BY <1>1, <1>2, <2>7, TryingClaimsNothing
  <2>8. CASE _mark_sent(w) \/ _mark_failed(w)
    <3>1. /\ cur'[w] = None /\ DOMAIN batch'[w] \subseteq DOMAIN batch[w]
          /\ \A m \in Messages : m # cur[w] => status'[m] = status[m]
      BY <2>8 DEF _mark_sent, _mark_failed, Finish, Forget, NoClaims
    <3>2. None \notin Messages
      BY LegacyAssumption
    <3> QED
      BY <2>1, <2>2, <2>3, <3>1, <3>2
  <2>9. CASE Crash(w)
    <3>1. cur'[w] = None /\ DOMAIN batch'[w] = {}
      BY <2>9 DEF Crash, Forget, NoClaims
    <3>2. None \notin Messages
      BY LegacyAssumption
    <3> QED
      BY <2>1, <3>1, <3>2
  <2> QED
    BY <1>2, <2>4, <2>5, <2>6, <2>7, <2>8, <2>9 DEF run_once
<1>3. CASE ~Alone
  <2>1. up' = up
    BY DEF Next, vars, started
  <2> QED
    BY <1>3, <2>1 DEF HeldInv, Alone
<1>4. CASE Alone
  <2>1. PICK w \in Workers : up = {w}
    BY <1>4, OneWorker
  <2>2. CASE run_once(w) \/ MarkSentRaises(w) \/ Crash(w)
    <3>1. up' = up
      BY DEF Next, vars, started
    <3> QED
      BY <1>2, <1>4, <2>1, <2>2, <3>1
  <2> QED
    BY <1>1, <2>1, <2>2 DEF Next, vars, started, rowVars, workerVars, GrowOld
<1> QED
  BY <1>3, <1>4

\* A step that takes nothing and changes no phase is a stutter.
LEMMA SamePhases ==
    ASSUME UNCHANGED got, \A m \in Messages : PhaseOf(m)' = PhaseOf(m)
    PROVE  [Promise!Next]_(Promise!vars)
BY DEF Promise!vars, TakenInFull

\* An attempt is a transmission when it completes the message.
LEMMA TryTransmits ==
    ASSUME TypeInv, NEW w \in Workers, NEW x, Tries(w, x), status[cur[w]] = "sending"
    PROVE  [Promise!Next]_(Promise!vars)
<1> USE DEF TypeInv, TypeOK
<1>1. PICK m \in Messages : m = cur[w]
  BY DEF Tries
<1>2. \A k \in Messages : PhaseOf(k)' = PhaseOf(k)
  BY DEF Tries, PhaseOf, rowVars
<1>3. PhaseOf(m) = "pending"
  BY <1>1 DEF PhaseOf
<1>4. \A k \in Messages \ {m} : got'[k] = got[k]
  BY <1>1 DEF Tries, Deliver, NoDelivery, ShapeInv
<1>5. \A k \in Messages \ {m} : TakenInFull(k)' = TakenInFull(k)
  BY <1>4 DEF TakenInFull
<1>6. Complete(m, got[m]) => Complete(m, got'[m])
  <2>1. x \in todo[w] /\ x \in Targets(m) /\ got[m] \subseteq Targets(m)
    BY <1>1 DEF Tries
  <2>2. got[m] \subseteq got'[m] /\ got'[m] \subseteq Targets(m)
    BY <1>1, <2>1 DEF Tries, Deliver, NoDelivery, ShapeInv
  <2> QED
    BY <2>2, StillComplete
<1>7. CASE TakenInFull(m)' = TakenInFull(m)
  BY <1>2, <1>5, <1>7 DEF Promise!vars
<1>8. CASE TakenInFull(m)' = TakenInFull(m) + 1
  <2>1. [k \in Messages |-> TakenInFull(k)]' = [[k \in Messages |-> TakenInFull(k)] EXCEPT ![m] = @ + 1]
    BY <1>5, <1>8
  <2>2. [k \in Messages |-> PhaseOf(k)]' = [k \in Messages |-> PhaseOf(k)]
    BY <1>2
  <2>3. Promise!Transmit(m)
    BY <1>3, <2>1, <2>2 DEF Promise!Transmit
  <2> QED
    BY <2>3 DEF Promise!Next
<1>9. TakenInFull(m)' = TakenInFull(m) \/ TakenInFull(m)' = TakenInFull(m) + 1
  BY <1>6 DEF TakenInFull
<1> QED
  BY <1>7, <1>8, <1>9

\* The phase of one row moves as its status does; the others stay.
LEMMA OnePhaseMoves ==
    ASSUME TypeInv, NEW m \in Messages, status[m] = "sending", UNCHANGED got,
           NEW s \in {"sent", "dead"}, status' = [status EXCEPT ![m] = s],
           s = "sent" => Complete(m, got[m])
    PROVE  [Promise!Next]_(Promise!vars)
<1> USE DEF TypeInv, TypeOK
<1>1. \A k \in Messages \ {m} : PhaseOf(k)' = PhaseOf(k)
  BY DEF PhaseOf
<1>2. PhaseOf(m) = "pending" /\ status'[m] = s
  BY DEF PhaseOf
<1>3. [k \in Messages |-> TakenInFull(k)]' = [k \in Messages |-> TakenInFull(k)]
  BY DEF TakenInFull
<1>4. CASE s = "sent"
  <2>1. PhaseOf(m)' = "confirmed" /\ TakenInFull(m) > 0
    BY <1>2, <1>4 DEF PhaseOf, TakenInFull
  <2>2. Promise!Confirm(m)
    BY <1>1, <1>2, <1>3, <2>1 DEF Promise!Confirm
  <2> QED
    BY <2>2 DEF Promise!Next
<1>5. CASE s = "dead"
  <2>1. PhaseOf(m)' = "abandoned"
    BY <1>2, <1>5 DEF PhaseOf
  <2>2. Promise!Abandon(m)
    BY <1>1, <1>2, <1>3, <2>1 DEF Promise!Abandon
  <2> QED
    BY <2>2 DEF Promise!Next
<1> QED
  BY <1>4, <1>5

LEMMA PromiseStep ==
    ASSUME LegacyInv, HeldInv, Alone, [Next]_vars
    PROVE  [Promise!Next]_(Promise!vars)
<1> USE DEF LegacyInv
<1>1. PICK w \in Workers : up = {w}
  BY OneWorker
<1>2. ASSUME UNCHANGED status, UNCHANGED got
      PROVE  [Promise!Next]_(Promise!vars)
  BY <1>2, SamePhases DEF PhaseOf
<1>3. cur[w] # None => cur[w] \in Messages /\ status[cur[w]] = "sending"
  BY <1>1 DEF HeldInv, TypeInv, TypeOK
<1>4. CASE _requeue_stuck_sending(w)
  <2>1. \A m \in Messages : PhaseOf(m)' = PhaseOf(m)
    BY <1>4 DEF _requeue_stuck_sending, PhaseOf
  <2> QED
    BY <1>4, <2>1, SamePhases DEF _requeue_stuck_sending
<1>5. CASE _fetch_and_lock_batch(w)
  <2>1. PICK B \in Batches : Claim(w, B) /\ status' = [m \in Messages |-> IF m \in B THEN "sending" ELSE status[m]]
    BY <1>5 DEF _fetch_and_lock_batch
  <2>2. \A m \in Messages : PhaseOf(m)' = PhaseOf(m)
    BY <2>1 DEF Batches, Ready, PhaseOf
  <2> QED
    BY <2>1, <2>2, SamePhases DEF Claim
<1>6. ASSUME NEW x, Tries(w, x)
      PROVE  [Promise!Next]_(Promise!vars)
  <2>1. status[cur[w]] = "sending"
    BY <1>3, <1>6 DEF Tries, TypeInv, TypeOK
  <2> QED
    BY <1>6, <2>1, TryTransmits
<1>7. CASE _mark_sent(w)
  <2>1. PICK m \in Messages : m = cur[w] /\ status[m] = "sending"
    BY <1>3, <1>7 DEF _mark_sent, TypeInv, TypeOK
  <2>2. Complete(m, got[m]) /\ status' = [status EXCEPT ![m] = "sent"] /\ got' = got
    BY <1>7, <2>1 DEF _mark_sent, WorkInv, Working
  <2> QED
    BY <2>1, <2>2, OnePhaseMoves
<1>8. CASE _mark_failed(w)
  <2>1. PICK m \in Messages : m = cur[w] /\ status[m] = "sending"
    BY <1>3, <1>8 DEF _mark_failed, TypeInv, TypeOK
  <2>2. status' = [status EXCEPT ![m] = "dead"] \/ status' = status
    BY <1>8, <2>1 DEF _mark_failed
  <2>3. got' = got
    BY <1>8 DEF _mark_failed
  <2> QED
    BY <1>2, <2>1, <2>2, <2>3, OnePhaseMoves
<1>9. ASSUME (\E m \in Messages : Take(w, m)) \/ EndPush(w) \/ MarkSentRaises(w) \/ Crash(w)
      PROVE  [Promise!Next]_(Promise!vars)
  BY <1>2, <1>9 DEF Take, EndPush, MarkSentRaises, Crash, rowVars
<1>10. CASE SendPart(w)
  BY <1>6, <1>10, SendingIsTrying
<1>11. ASSUME NEW d \in Devices, Push(w, d)
       PROVE  [Promise!Next]_(Promise!vars)
  BY <1>6, <1>11, PushingIsTrying
<1>12. CASE GrowOld \/ UNCHANGED vars
  BY <1>2, <1>12 DEF GrowOld, vars, rowVars
<1> QED
  BY <1>1, <1>4, <1>5, <1>7, <1>8, <1>9, <1>10, <1>11, <1>12 DEF Next, run_once

\* One worker of app/notifier/main.py keeps the promise of the outbox: whatever it
\* loses or repeats, it reopens no row that is sent or dead and confirms none that
\* was not taken.
THEOREM LoneWorkerIsFaithful == Spec => LoneWorkerKeepsPromise
<1>1. Init => HeldInv
  BY LegacyAssumption DEF Init, HeldInv, NoClaims
<1>2. LegacyInv /\ HeldInv /\ [Next]_vars => HeldInv'
  BY HeldKept
<1>3. LegacyInv /\ HeldInv /\ [Next]_vars => [Cardinality(up) = 1 => [Promise!Next]_(Promise!vars)]_vars
  BY PromiseStep DEF Alone
<1> QED
  BY <1>1, <1>2, <1>3, LegacyInvariant, PTL DEF Spec, LoneWorkerKeepsPromise

\* Where one worker is started the table, from its first state on, is an outbox as
\* AtLeastOnce describes it, as the table of the deployed notifier is.
THEOREM LoneWorkerRefinesAtLeastOnce == Spec /\ Cardinality(up) = 1 => Promise!Spec
<1>1. Init => Promise!Init
  <2> SUFFICES ASSUME Init
               PROVE  Promise!Init
    OBVIOUS
  <2>1. \A m \in Messages : PhaseOf(m) \in {"absent", "pending"} /\ TakenInFull(m) = 0
    <3> SUFFICES ASSUME NEW m \in Messages
                 PROVE  PhaseOf(m) \in {"absent", "pending"} /\ TakenInFull(m) = 0
      OBVIOUS
    <3>1. got[m] = {} /\ status[m] \in {"none", "queued"}
      BY DEF Init
    <3>2. Channel[m] # "webpush" => 1 \in Targets(m)
      BY LegacyAssumption DEF Targets
    <3> QED
      BY <3>1, <3>2 DEF PhaseOf, TakenInFull, Complete
  <2> QED
    BY <2>1 DEF Promise!Init
<1>2. [Next]_vars => (Alone => Alone')
  BY DEF Next, vars, started, Alone
<1>3. Alone /\ [Alone => [Promise!Next]_(Promise!vars)]_vars => [Promise!Next]_(Promise!vars)
  BY DEF vars, rowVars, Promise!vars, PhaseOf, TakenInFull, Complete
<1>4. Spec => [][Alone => [Promise!Next]_(Promise!vars)]_vars
  BY LoneWorkerIsFaithful DEF LoneWorkerKeepsPromise, Alone
<1>5. Alone <=> Cardinality(up) = 1
  BY DEF Alone
<1> HIDE DEF Alone
<1> QED
  BY <1>1, <1>2, <1>3, <1>4, <1>5, PTL DEF Spec, Promise!Spec
=============================================================================
