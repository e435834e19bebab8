----------------------------- MODULE MCAccounts -----------------------------
(* A dispatcher, a manager whose email was seeded in capitals, and a         *)
(* spreadsheet that names the manager twice and a newcomer.                  *)
EXTENDS Accounts, TLC

CONSTANTS c1, c2, u1, u2, u3, u4, boot, A, a, b, s1

MCLower == boot :> boot @@ A :> a @@ a :> a @@ b :> b
User(e, role) == [email |-> e, role |-> role, active |-> TRUE, pw |-> Pw("nobody", 0)]
MCSeeded == u1 :> User(b, "dispatcher") @@ u2 :> User(A, "manager") @@ u3 :> Absent @@ u4 :> Absent
Row(e, s) == [email |-> e, store |-> s]
MCSheet == <<Row(a, s1), Row(boot, NoStore), Row(a, NoStore)>>
Ask(op, u, e, act, s) == [op |-> op, id |-> u, email |-> e, active |-> act, store |-> s]
MCRequests ==
    {Ask("boot", Nobody, NoEmail, TRUE, NoStore), Ask("create", Nobody, NoEmail, TRUE, NoStore)}
    \cup {Ask("create", Nobody, e, TRUE, NoStore) : e \in {boot, a}}
    \cup {Ask("update", u2, e, FALSE, NoStore) : e \in {boot, b}}
    \cup {Ask("update", u3, e, TRUE, NoStore) : e \in {NoEmail, a}}
    \cup {Ask(op, u, NoEmail, TRUE, NoStore) : op \in {"password", "delete"}, u \in {u1, u2, u3}}
    \cup {Ask("assign", u, NoEmail, TRUE, s1) : u \in {Nobody, u1, u2, u3}}
=============================================================================
