------------------------------ MODULE Accounts ------------------------------
(***************************************************************************)
(* Users and the stores they are responsible for: the endpoints of         *)
(* admin_managers.py, the bootstrap of every start of the application and  *)
(* the script that imports managers from a spreadsheet.                    *)
(*                                                                         *)
(* An endpoint checks with one statement and writes with another, which    *)
(* commits; deleting a manager and the script are transactions of several  *)
(* writes, whose rows stay locked until the commit.                        *)
(***************************************************************************)
EXTENDS Integers, Sequences, FiniteSets

CONSTANTS
    Calls,
    Requests,    \* what a call may ask for
    Ids,         \* bound: the uuids users may get
    Nobody,      \* NULL where a user is expected
    Emails,
    Lower,       \* Lower[e]: e in lower case
    NoEmail,
    BootEmail,   \* BOOTSTRAP_ADMIN_EMAIL
    Stores,
    NoStore,     \* an empty cell, or a number without a row in stores
    Seeded,      \* the users there are before the first start
    Sheet        \* rows of the spreadsheet of the script

Absent == [role |-> "absent"]   \* a uuid nobody has drawn yet
Gone   == [role |-> "gone"]     \* that of a deleted user
Roles  == {"manager", "dispatcher", "admin"}
Pw(by, n) == [by |-> by, n |-> n]
Users  == [email : Emails, role : Roles, active : BOOLEAN,
           pw : [by : {"nobody", "boot", "dispatcher", "script"}, n : Nat]]

ASSUME AccountsAssumption ==
    /\ Nobody \notin Ids /\ NoEmail \notin Emails /\ NoStore \notin Stores
    /\ Lower \in [Emails -> Emails] /\ \A e \in Emails : Lower[Lower[e]] = Lower[e]
    /\ BootEmail \in Emails /\ Lower[BootEmail] = BootEmail
    /\ Seeded \in [Ids -> Users \cup {Absent}]
    /\ \A u, v \in Ids : Seeded[u] # Absent /\ Seeded[v] # Absent
            /\ Lower[Seeded[u].email] = Lower[Seeded[v].email] => u = v
    /\ Sheet \in Seq([email : {Lower[e] : e \in Emails}, store : Stores \cup {NoStore}])
    \* A path names one user, and a store that is assigned is there.
    /\ Requests \subseteq
            [op : {"create", "update", "password", "delete", "assign", "boot"},
             id : Ids \cup {Nobody}, email : {Lower[e] : e \in Emails} \cup {NoEmail},
             active : BOOLEAN, store : Stores \cup {NoStore}]
    /\ \A r \in Requests :
            /\ r.op \in {"create", "boot"} => r.id = Nobody
            /\ r.op \in {"update", "password", "delete"} => r.id # Nobody
            /\ r.op = "assign" => r.store \in Stores

VARIABLES
    users,
    assigned,    \* stores.assigned_user_id
    pc, call,
    held,        \* stores a delete_manager has locked
    script,      \* the transaction of the script
    printed,     \* "GENERATED PASSWORDS": who is told which
    changed      \* observation: users somebody else wrote since the script looked

callVars   == <<pc, call, held>>
scriptVars == <<script, printed>>
vars       == <<users, assigned, callVars, scriptVars, changed>>

-----------------------------------------------------------------------------
Exists(U, u)    == U[u].role \in Roles
WithEmail(U, e) == {u \in Ids : Exists(U, u) /\ Lower[U[u].email] = Lower[e]}

\* What the script has written without committing, and which rows that locks.
Draft == [u \in Ids |-> IF u \in DOMAIN script.users THEN script.users[u] ELSE users[u]]
UserLocked(u)     == u \in DOMAIN script.users
StoreLocked(s, c) == s \in DOMAIN script.stores \/ \E d \in Calls \ {c} : s \in held[d]

\* The unique index on users.email does not ignore case; an insert waits for another
\* of the same email that has not committed.
Taken(e, u) == \E v \in Ids \ {u} : Exists(users, v) /\ users[v].email = e
Awaited(e)  == \E v \in DOMAIN script.users : users[v] = Absent /\ script.users[v].email = e

NoCall   == [op |-> "none"]
NoWrites == [x \in {} |-> NoCall]
Idle     == [step |-> "idle", generate |-> FALSE, at |-> 1, id |-> Nobody,
             users |-> NoWrites, stores |-> NoWrites, told |-> <<>>]

Init ==
    /\ users = Seeded
    /\ assigned \in [Stores -> {u \in Ids : Seeded[u].role = "manager"} \cup {Nobody}]
    /\ pc = [c \in Calls |-> "idle"]
    /\ call = [c \in Calls |-> NoCall]
    /\ held = [c \in Calls |-> {}]
    /\ script = Idle
    /\ printed = <<>>
    /\ changed = {}

-----------------------------------------------------------------------------
(* The endpoints and the bootstrap.                                        *)

GoTo(c, step) == pc' = [pc EXCEPT ![c] = step] /\ UNCHANGED <<call, held>>

\* The call is over; what it has not committed is gone and its locks are free.
End(c) ==
    /\ pc' = [pc EXCEPT ![c] = "end"]
    /\ call' = [call EXCEPT ![c] = NoCall]
    /\ held' = [held EXCEPT ![c] = {}]

FirstStep(r) ==
    CASE r.op = "delete" -> "unassign"
      [] r.op = "password" -> "write"
      [] r.op = "assign" -> IF r.id = Nobody THEN "write" ELSE "check"
      [] r.op \in {"create", "update"} -> IF r.email = NoEmail THEN "write" ELSE "check"
      [] r.op = "boot" -> "check"

Receive(c, r) ==
    /\ pc[c] = "idle"
    /\ pc' = [pc EXCEPT ![c] = FirstStep(r)]
    /\ call' = [call EXCEPT ![c] = r]
    /\ UNCHANGED <<users, assigned, held, scriptVars, changed>>

\* Mutant: the check compares the emails as they are.
CheckEmail_exact(c) ==
    /\ pc[c] = "check"
    /\ call[c].op \in {"create", "update"}
    /\ IF Taken(call[c].email, call[c].id) THEN End(c) ELSE GoTo(c, "write")
    /\ UNCHANGED <<users, assigned, scriptVars, changed>>

\* create_manager and update_manager look for another user of that email.
CheckEmail(c) ==
    /\ pc[c] = "check"
    /\ call[c].op \in {"create", "update"}
    /\ IF WithEmail(users, call[c].email) \ {call[c].id} # {} THEN End(c) ELSE GoTo(c, "write")
    /\ UNCHANGED <<users, assigned, scriptVars, changed>>

\* Mutant: anybody may be given a store.
CheckManager_any(c) ==
    /\ pc[c] = "check"
    /\ call[c].op = "assign"
    /\ IF Exists(users, call[c].id) THEN GoTo(c, "write") ELSE End(c)
    /\ UNCHANGED <<users, assigned, scriptVars, changed>>

CheckManager(c) ==
    /\ pc[c] = "check"
    /\ call[c].op = "assign"
    /\ IF users[call[c].id].role = "manager" THEN GoTo(c, "write") ELSE End(c)
    /\ UNCHANGED <<users, assigned, scriptVars, changed>>

CheckBoot(c) ==
    /\ pc[c] = "check"
    /\ call[c].op = "boot"
    /\ GoTo(c, IF WithEmail(users, BootEmail) = {} THEN "write" ELSE "promote")
    /\ UNCHANGED <<users, assigned, scriptVars, changed>>

\* One statement that writes user u, and its commit.
Write(c, u, row) ==
    /\ users' = [users EXCEPT ![u] = row]
    /\ changed' = changed \cup {u}
    /\ End(c)
    /\ UNCHANGED <<assigned, scriptVars>>
Refuse(c) == End(c) /\ UNCHANGED <<users, assigned, scriptVars, changed>>

InsertUser(c, row) ==
    /\ ~Awaited(row.email)
    /\ IF Taken(row.email, Nobody) THEN Refuse(c)
       ELSE \E u \in Ids : users[u] = Absent /\ ~UserLocked(u) /\ Write(c, u, row)

NewManager(e) == [email |-> e, role |-> "manager", active |-> TRUE, pw |-> Pw("nobody", 0)]

\* Mutant: the column takes NULL.
create_manager_null(c) ==
    /\ pc[c] = "write"
    /\ call[c].op = "create"
    /\ InsertUser(c, NewManager(call[c].email))

\* The endpoint takes a manager without an email, the column does not.
create_manager(c) ==
    /\ pc[c] = "write"
    /\ call[c].op = "create"
    /\ IF call[c].email = NoEmail THEN Refuse(c)
       ELSE InsertUser(c, NewManager(call[c].email))

update_manager(c) ==
    /\ pc[c] = "write"
    /\ call[c].op = "update"
    /\ LET r == call[c] IN
       /\ ~UserLocked(r.id)
       /\ ~Awaited(r.email)
       /\ IF users[r.id].role # "manager" \/ r.email = NoEmail \/ Taken(r.email, r.id) THEN Refuse(c)
          ELSE Write(c, r.id, [users[r.id] EXCEPT !.email = r.email, !.active = r.active])

update_manager_password(c) ==
    /\ pc[c] = "write"
    /\ call[c].op = "password"
    /\ ~UserLocked(call[c].id)
    /\ IF users[call[c].id].role # "manager" THEN Refuse(c)
       ELSE Write(c, call[c].id, [users[call[c].id] EXCEPT !.pw = Pw("dispatcher", 0)])

\* delete_manager: the stores of the user, whoever he is, then the user if he is a
\* manager.  The foreign key of stores sets what was assigned meanwhile to NULL.
UnassignStores(c) ==
    /\ pc[c] = "unassign"
    /\ LET his == {s \in Stores : assigned[s] = call[c].id} IN
       /\ \A s \in his : ~StoreLocked(s, c)
       /\ held' = [held EXCEPT ![c] = his]
    /\ pc' = [pc EXCEPT ![c] = "delete"]
    /\ UNCHANGED <<users, assigned, call, scriptVars, changed>>

DeleteUser(c) ==
    /\ pc[c] = "delete"
    /\ LET u == call[c].id
           deleted == users[u].role = "manager"
           freed == held[c] \cup {s \in Stores : deleted /\ assigned[s] = u} IN
       /\ ~UserLocked(u)
       /\ \A s \in freed : ~StoreLocked(s, c)
       /\ assigned' = [s \in Stores |-> IF s \in freed THEN Nobody ELSE assigned[s]]
       /\ users' = IF deleted THEN [users EXCEPT ![u] = Gone] ELSE users
       /\ changed' = changed \cup {u}
    /\ End(c)
    /\ UNCHANGED scriptVars

\* The foreign key refuses a user who was deleted since the check.
assign_store(c) ==
    /\ pc[c] = "write"
    /\ call[c].op = "assign"
    /\ ~StoreLocked(call[c].store, c)
    /\ assigned' = IF call[c].id = Nobody \/ Exists(users, call[c].id)
                   THEN [assigned EXCEPT ![call[c].store] = call[c].id] ELSE assigned
    /\ End(c)
    /\ UNCHANGED <<users, scriptVars, changed>>

\* ensure_bootstrap_admin: every start of the application resets this account.
Promoted(row) == [row EXCEPT !.role = IF @ \in {"admin", "dispatcher"} THEN @ ELSE "admin",
                             !.active = TRUE, !.pw = Pw("boot", 0)]
PromoteAdmin(c) ==
    /\ pc[c] = "promote"
    /\ LET found == WithEmail(users, BootEmail) IN
       /\ \A u \in found : ~UserLocked(u)
       /\ users' = [u \in Ids |-> IF u \in found THEN Promoted(users[u]) ELSE users[u]]
       /\ changed' = changed \cup found
    /\ End(c)
    /\ UNCHANGED <<assigned, scriptVars>>
InsertAdmin(c) ==
    /\ pc[c] = "write"
    /\ call[c].op = "boot"
    /\ InsertUser(c, [email |-> BootEmail, role |-> "admin", active |-> TRUE, pw |-> Pw("boot", 0)])

\* The connection is lost, or PostgreSQL ends one of two transactions that wait for
\* each other.
Lost(c) ==
    /\ pc[c] \notin {"idle", "end"}
    /\ Refuse(c)

-----------------------------------------------------------------------------
(* import_managers_from_excel.py: all rows in one transaction.             *)

SheetRow == Sheet[script.at]

Begin(generate) ==
    /\ script.step = "idle"
    /\ script' = [Idle EXCEPT !.step = "look", !.generate = generate]
    /\ UNCHANGED printed

LookUpManager ==
    /\ script.step = "look"
    /\ script.at <= Len(Sheet)
    /\ LET found == WithEmail(Draft, SheetRow.email) IN
       \E u \in IF found = {} THEN {Nobody} ELSE found :
           /\ script' = [script EXCEPT !.step = "upsert", !.id = u]
           /\ changed' = changed \ {u}
    /\ UNCHANGED printed

Told(u) ==
    IF script.generate THEN Append(script.told, [id |-> u, pw |-> Pw("script", script.at)])
    ELSE script.told
Password(row) == IF script.generate THEN [row EXCEPT !.pw = Pw("script", script.at)] ELSE row
Wrote(u, row) ==
    script' = [script EXCEPT !.step = "assign", !.id = u,
                   !.users = [v \in DOMAIN @ \cup {u} |-> IF v = u THEN row ELSE @[v]],
                   !.told = Told(u)]

\* Mutant: only a new account gets the password.
UpdateManager_keeps_password ==
    /\ script.step = "upsert"
    /\ script.id # Nobody
    /\ Exists(Draft, script.id)
    /\ Wrote(script.id, [Draft[script.id] EXCEPT !.role = "manager", !.active = TRUE])
    /\ UNCHANGED <<printed, changed>>

UpdateManager ==
    /\ script.step = "upsert"
    /\ script.id # Nobody
    /\ Exists(Draft, script.id)
    /\ Wrote(script.id, Password([Draft[script.id] EXCEPT !.role = "manager", !.active = TRUE]))
    /\ UNCHANGED <<printed, changed>>

\* He was deleted since: the UPDATE finds no row, and the script goes on.
UpdateNobody ==
    /\ script.step = "upsert"
    /\ script.id # Nobody
    /\ ~Exists(Draft, script.id)
    /\ script' = [script EXCEPT !.step = "assign", !.told = Told(script.id)]
    /\ UNCHANGED <<printed, changed>>

\* The email was not taken when the script looked; if it is now, the script fails.
InsertManager ==
    /\ script.step = "upsert"
    /\ script.id = Nobody
    /\ ~Taken(SheetRow.email, Nobody)
    /\ \E u \in Ids :
           /\ Draft[u] = Absent
           /\ Wrote(u, Password(NewManager(SheetRow.email)))
           /\ changed' = changed \ {u}
    /\ UNCHANGED printed

NextRow(s) == [s EXCEPT !.step = "look", !.at = @ + 1, !.id = Nobody]

AssignStore ==
    /\ script.step = "assign"
    /\ IF SheetRow.store = NoStore
       THEN script' = NextRow(script)
       ELSE /\ Exists(Draft, script.id)
            /\ \A c \in Calls : SheetRow.store \notin held[c]
            /\ script' = NextRow([script EXCEPT !.stores =
                            [s \in DOMAIN @ \cup {SheetRow.store} |->
                                IF s = SheetRow.store THEN script.id ELSE @[s]]])
    /\ UNCHANGED <<printed, changed>>

Commit ==
    /\ script.step = "look"
    /\ script.at > Len(Sheet)
    /\ users' = Draft
    /\ assigned' = [s \in Stores |->
                        IF s \in DOMAIN script.stores THEN script.stores[s] ELSE assigned[s]]
    /\ printed' = script.told
    /\ script' = [Idle EXCEPT !.step = "end"]
    /\ UNCHANGED changed

\* A violated constraint or a lost connection: everything is rolled back.
Rollback ==
    /\ script.step \notin {"idle", "end"}
    /\ script' = [Idle EXCEPT !.step = "end"]
    /\ UNCHANGED <<printed, changed>>

-----------------------------------------------------------------------------
Handle(c) ==
    \/ CheckEmail(c) \/ create_manager(c) \/ update_manager(c) \/ update_manager_password(c)
    \/ UnassignStores(c) \/ DeleteUser(c) \/ CheckManager(c) \/ assign_store(c)
    \/ CheckBoot(c) \/ PromoteAdmin(c) \/ InsertAdmin(c)

Import ==
    \/ LookUpManager \/ UpdateManager \/ UpdateNobody \/ InsertManager \/ AssignStore \/ Rollback

Next ==
    \/ \E c \in Calls : (\E r \in Requests : Receive(c, r)) \/ Handle(c) \/ Lost(c)
    \/ (\E generate \in BOOLEAN : Begin(generate)) /\ UNCHANGED <<users, assigned, callVars, changed>>
    \/ Import /\ UNCHANGED <<users, assigned, callVars>>
    \/ Commit /\ UNCHANGED callVars

Spec == Init /\ [][Next]_vars

\* authenticate_user and POST /login
CanLogIn(u, pw) == Exists(users, u) /\ users[u].active /\ users[u].pw = pw

-----------------------------------------------------------------------------
(* Properties.                                                             *)

\* The tables hold what their columns name, a call is at one of its steps.
TypeOK ==
    /\ users \in [Ids -> Users \cup {Absent, Gone}]
    /\ assigned \in [Stores -> Ids \cup {Nobody}]
    /\ pc \in [Calls -> {"idle", "check", "write", "promote", "unassign", "delete", "end"}]
    /\ call \in [Calls -> Requests \cup {NoCall}]
    /\ held \in [Calls -> SUBSET Stores]
    /\ script.step \in {"idle", "look", "upsert", "assign", "end"}
    /\ DOMAIN script.users \subseteq Ids /\ \A u \in DOMAIN script.users : script.users[u] \in Users
    /\ DOMAIN script.stores \subseteq Stores /\ \A s \in DOMAIN script.stores : script.stores[s] \in Ids
    /\ changed \subseteq Ids \cup {Nobody}

\* A login finds one account: no two users have the same email but for its case,
\* although the index tells cases apart and the checks race with the writes.
OneAccountPerEmail ==
    \A u, v \in Ids : Exists(users, u) /\ Exists(users, v)
        /\ Lower[users[u].email] = Lower[users[v].email] => u = v

\* A store is assigned to a manager that exists, whoever is deleted, demoted or
\* imported meanwhile; only the bootstrap makes an admin of one and leaves his stores.
StoresHaveManagers ==
    \A s \in Stores : assigned[s] # Nobody =>
        /\ Exists(users, assigned[s])
        /\ users[assigned[s]].role = "manager" \/ Lower[users[assigned[s]].email] = BootEmail

\* The passwords the script prints log their owners in, the last of them where a
\* manager has several rows, unless another call wrote the account since.
PrintedPasswordsWork ==
    \A i \in DOMAIN printed :
        \/ \E j \in DOMAIN printed : j > i /\ printed[j].id = printed[i].id
        \/ printed[i].id \in changed
        \/ CanLogIn(printed[i].id, printed[i].pw)
=============================================================================
