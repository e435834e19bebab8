---------------------------- MODULE Accounts_proofs ----------------------------
(***************************************************************************)
(* Theorems about users and their stores, for any number of calls, users,  *)
(* stores and rows of the spreadsheet.                                     *)
(***************************************************************************)
EXTENDS Accounts, TLAPS

-----------------------------------------------------------------------------
(* The inductive invariant.                                                *)

UserRows  == Users \cup {Absent, Gone}
Passwords == [id : Ids, pw : [by : {"script"}, n : Nat]]
Drafts    == UNION {[D -> Users] : D \in SUBSET Ids}
Links     == UNION {[D -> Ids] : D \in SUBSET Stores}
Scripts   == [step : {"idle", "look", "upsert", "assign", "end"}, generate : BOOLEAN,
              at : Nat \ {0}, id : Ids \cup {Nobody}, users : Drafts, stores : Links, told : Seq(Passwords)]

\* The users U once the rows D are committed.
Merge(U, D) == [u \in Ids |-> IF u \in DOMAIN D THEN D[u] ELSE U[u]]

Unique(U) == \A u, v \in Ids :
    Exists(U, u) /\ Exists(U, v) /\ Lower[U[u].email] = Lower[U[v].email] => u = v
Suits(U, u) == Exists(U, u) /\ (U[u].role = "manager" \/ Lower[U[u].email] = BootEmail)

\* Who has the email e, but for x, has it in lower case: the unique index will tell.
Cleared(U, x, e) == \A u \in Ids \ {x} :
    Exists(U, u) /\ Lower[U[u].email] = e => U[u].email = e

\* What a call has found out before it writes.
Ready(U, r) ==
    /\ r.op \in {"create", "update"} /\ r.email # NoEmail => Cleared(U, r.id, r.email)
    /\ r.op = "boot" => Cleared(U, Nobody, BootEmail)
    /\ r.op = "assign" /\ r.id # Nobody => U[r.id] = Gone \/ Suits(U, r.id)

CallInv == \A c \in Calls :
    /\ pc[c] \notin {"idle", "end"} => call[c] \in Requests
    /\ pc[c] = "write" => Ready(users, call[c])
    /\ pc[c] \in {"unassign", "delete"} => call[c].op = "delete"

\* The rows a script has written: new ones in lower case, old ones with their emails.
DraftsOK(U, D) == \A u \in DOMAIN D :
    /\ D[u].role = "manager"
    /\ \/ U[u] = Absent /\ Lower[D[u].email] = D[u].email
       \/ Exists(U, u) /\ U[u].email = D[u].email

\* A row of the sheet that is new to the script: who has its email by now is in users.
Vacant(U, D, e) == \A u \in Ids :
    Exists(Merge(U, D), u) /\ Lower[Merge(U, D)[u].email] = e => Exists(U, u) /\ U[u].email = e

\* A password the script is going to print.
Holds(U, s, ch, i) ==
    LET u == s.told[i].id IN
    \/ \E j \in DOMAIN s.told : j > i /\ s.told[j].id = u
    \/ u \in DOMAIN s.users /\ s.users[u].pw = s.told[i].pw /\ s.users[u].active
    \/ U[u] = Gone /\ u \in ch

ScriptOK(U, s, ch) ==
    /\ s \in Scripts
    /\ s.step \in {"upsert", "assign"} => s.at \in 1 .. Len(Sheet)
    /\ DraftsOK(U, s.users)
    /\ Unique(Merge(U, s.users))
    /\ \A x \in DOMAIN s.stores : s.stores[x] \in DOMAIN s.users
    /\ s.step = "upsert" /\ s.id = Nobody => Vacant(U, s.users, Sheet[s.at].email)
    /\ s.step = "upsert" /\ s.id # Nobody =>
            Exists(Merge(U, s.users), s.id) \/ (U[s.id] = Gone /\ s.id \in ch)
    /\ s.step = "assign" => s.id \in DOMAIN s.users \/ (s.id # Nobody /\ U[s.id] = Gone)
    /\ ~s.generate => s.told = <<>>
    /\ \A i \in DOMAIN s.told : Holds(U, s, ch, i)

PrintInv ==
    /\ printed \in Seq(Passwords)
    /\ script.step # "end" => printed = <<>>
    /\ PrintedPasswordsWork

AccountsInv == TypeOK /\ CallInv /\ ScriptOK(users, script, changed) /\ StoresHaveManagers /\ PrintInv

-----------------------------------------------------------------------------
(* The users, whoever writes them.                                         *)

\* The users become V: those the script has not written change, they keep their
\* emails, but x may get one in lower case that nobody has, the script included.
Moves(U, V, D, x) == \A u \in Ids :
    \/ V[u] = U[u]
    \/ /\ u \notin DOMAIN D /\ U[u] # Gone
       /\ \/ V[u] = Gone /\ Exists(U, u)
          \/ /\ V[u] \in Users
             /\ \/ Exists(U, u) /\ V[u].email = U[u].email
                \/ /\ u = x /\ Lower[V[u].email] = V[u].email
                   /\ \A v \in Ids \ {u} :
                        Exists(Merge(U, D), v) => Lower[Merge(U, D)[v].email] # V[u].email
             /\ Suits(U, u) => Suits(V, u)

LEMMA RowKinds ==
    /\ Absent \notin Users /\ Gone \notin Users /\ Absent # Gone
    /\ \A row \in Users : row.role \in Roles /\ row.email \in Emails
    /\ \A U \in [Ids -> UserRows], u \in Ids : Exists(U, u) <=> U[u] \in Users
BY DEF Absent, Gone, Users, Roles, UserRows, Exists

LEMMA MovesKeepReady ==
    ASSUME NEW U \in [Ids -> UserRows], NEW V \in [Ids -> UserRows], NEW D \in Drafts, NEW x,
           Moves(U, V, D, x), NEW r, Ready(U, r), r.id \in Ids \cup {Nobody}
    PROVE  Ready(V, r)
<1>1. ASSUME NEW y, NEW e, Cleared(U, y, e)
      PROVE  Cleared(V, y, e)
  BY <1>1, RowKinds DEF Cleared, Moves
<1>2. ASSUME r.id \in Ids, U[r.id] = Gone \/ Suits(U, r.id)
      PROVE  V[r.id] = Gone \/ Suits(V, r.id)
  BY <1>2, RowKinds DEF Moves, Suits
<1> QED
  BY <1>1, <1>2 DEF Ready

LEMMA MergeTyped ==
    ASSUME NEW U \in [Ids -> UserRows], NEW D \in Drafts
    PROVE  /\ Merge(U, D) \in [Ids -> UserRows]
           /\ DOMAIN D \subseteq Ids /\ \A u \in DOMAIN D : D[u] \in Users
BY DEF Drafts, Merge, UserRows

LEMMA MovesKeepUnique ==
    ASSUME NEW U \in [Ids -> UserRows], NEW V \in [Ids -> UserRows], NEW D \in Drafts, NEW x,
           Moves(U, V, D, x), Unique(Merge(U, D))
    PROVE  Unique(Merge(V, D))
<1> DEFINE M == Merge(U, D)
           N == Merge(V, D)
<1>1. \A u \in Ids :
        \/ N[u] = M[u]
        \/ N[u] = Gone
        \/ Exists(M, u) /\ N[u].email = M[u].email
        \/ /\ u = x /\ Lower[N[u].email] = N[u].email
           /\ \A v \in Ids \ {u} : Exists(M, v) => Lower[M[v].email] # N[u].email
  BY DEF Moves, Merge, Exists
<1>2. ~(Gone.role \in Roles)
  BY DEF Gone, Roles
<1> HIDE DEF M, N
<1>3. ASSUME NEW u \in Ids, NEW v \in Ids, Exists(N, u), Exists(N, v), Lower[N[u].email] = Lower[N[v].email]
      PROVE  u = v
  <2>1. \A w \in Ids : Exists(N, w) =>
            \/ Exists(M, w) /\ Lower[N[w].email] = Lower[M[w].email]
            \/ /\ w = x
               /\ \A y \in Ids \ {w} : Exists(M, y) => Lower[M[y].email] # Lower[N[w].email]
    BY <1>1, <1>2 DEF Exists
  <2>2. \A w, y \in Ids : Exists(M, w) /\ Exists(M, y) /\ Lower[M[w].email] = Lower[M[y].email] => w = y
    BY DEF Unique, M
  <2> QED
    BY <1>3, <2>1, <2>2
<1> QED
  BY <1>3 DEF Unique, N

LEMMA MovesKeepScript ==
    ASSUME NEW U \in [Ids -> UserRows], NEW V \in [Ids -> UserRows], NEW s, NEW x, NEW ch, NEW ch2,
           ScriptOK(U, s, ch), Moves(U, V, s.users, x), ch \subseteq ch2,
           \A u \in Ids : V[u] # U[u] => u \in ch2
    PROVE  ScriptOK(V, s, ch2)
<1> DEFINE D == s.users
<1>1. D \in Drafts /\ DraftsOK(U, D) /\ Unique(Merge(U, D)) /\ s.told \in Seq(Passwords)
      /\ s.id \in Ids \cup {Nobody}
  BY DEF ScriptOK, Scripts
<1>2. \A u \in DOMAIN D : V[u] = U[u] /\ u \in Ids
  BY <1>1, MergeTyped DEF Moves
<1>3. \A u \in Ids : U[u] = Gone => V[u] = Gone
  BY DEF Moves
<1>4. DraftsOK(V, D)
  BY <1>1, <1>2 DEF DraftsOK, Exists
<1>5. Unique(Merge(V, D))
  BY <1>1, MovesKeepUnique
<1>6. ASSUME s.step = "upsert", s.id = Nobody
      PROVE  Vacant(V, D, Sheet[s.at].email)
  <2>1. PICK e : e = Sheet[s.at].email
    OBVIOUS
  <2>2. Vacant(U, D, e)
    BY <1>6, <2>1 DEF ScriptOK
  <2>3. ASSUME NEW u \in Ids, Exists(Merge(V, D), u), Lower[Merge(V, D)[u].email] = e
        PROVE  Exists(V, u) /\ V[u].email = e
    <3>1. CASE u \in DOMAIN D
      <4>1. Merge(V, D)[u] = D[u] /\ Merge(U, D)[u] = D[u]
        BY <3>1 DEF Merge
      <4>2. Exists(U, u) /\ U[u].email = e
        BY <2>2, <2>3, <4>1 DEF Vacant, Exists
      <4> QED
        BY <1>2, <3>1, <4>2 DEF Exists
    <3>2. CASE u \notin DOMAIN D
      <4>1. Merge(V, D)[u] = V[u] /\ Merge(U, D)[u] = U[u]
        BY <3>2 DEF Merge
      <4>2. Exists(V, u) /\ Lower[V[u].email] = e
        BY <2>3, <4>1 DEF Exists
      <4>3. CASE Exists(U, u) /\ V[u].email = U[u].email
        BY <2>2, <4>1, <4>2, <4>3 DEF Vacant, Exists
      <4>4. CASE Lower[V[u].email] = V[u].email
        BY <4>2, <4>4
      <4>5. V[u] # Gone
        BY <4>2, RowKinds
      <4> QED
        BY <4>2, <4>3, <4>4, <4>5 DEF Moves, Exists
    <3> QED
      BY <3>1, <3>2
  <2> QED
    BY <2>1, <2>3 DEF Vacant
<1>7. ASSUME s.step = "upsert", s.id # Nobody
      PROVE  Exists(Merge(V, D), s.id) \/ (V[s.id] = Gone /\ s.id \in ch2)
  <2>1. s.id \in Ids
    BY <1>1, <1>7
  <2>2. CASE U[s.id] = Gone /\ s.id \in ch
    BY <1>3, <2>1, <2>2
  <2>3. CASE Exists(Merge(U, D), s.id)
    <3>1. CASE s.id \in DOMAIN D
      BY <2>1, <2>3, <3>1 DEF Merge, Exists
    <3>2. CASE s.id \notin DOMAIN D
      <4>1. Exists(U, s.id)
        BY <2>1, <2>3, <3>2 DEF Merge, Exists
      <4>2. V[s.id] = U[s.id] \/ V[s.id] = Gone \/ V[s.id] \in Users
        BY <2>1 DEF Moves
      <4>3. V[s.id] # U[s.id] => s.id \in ch2
        BY <2>1
      <4> QED
        BY <2>1, <3>2, <4>1, <4>2, <4>3, RowKinds DEF Merge, Exists
    <3> QED
      BY <3>1, <3>2
  <2> QED
    BY <1>7, <2>2, <2>3 DEF ScriptOK
<1>8. s.step = "assign" => s.id \in DOMAIN D \/ (s.id # Nobody /\ V[s.id] = Gone)
  BY <1>1, <1>3 DEF ScriptOK
<1>9. ASSUME NEW i \in DOMAIN s.told
      PROVE  Holds(V, s, ch2, i)
  <2>1. Holds(U, s, ch, i)
    BY <1>9 DEF ScriptOK
  <2>2. s.told[i].id \in Ids
    <3>1. PICK told \in Seq(Passwords) : told = s.told
      BY <1>1
    <3>2. told[i] \in Passwords
      BY <1>9, <3>1
    <3> QED
      BY <3>1, <3>2 DEF Passwords
  <2> QED
    BY <1>3, <2>1, <2>2 DEF Holds
<1> QED
  BY <1>4, <1>5, <1>6, <1>7, <1>8, <1>9 DEF ScriptOK

\* An email that is cleared, not taken and not awaited is new to everybody.
LEMMA FreshEmail ==
    ASSUME TypeOK, ScriptOK(users, script, changed), NEW y \in Ids \cup {Nobody}, NEW e,
           Cleared(users, y, e), ~Taken(e, y), ~Awaited(e),
           NEW v \in Ids \ {y}, Exists(Merge(users, script.users), v)
    PROVE  Lower[Merge(users, script.users)[v].email] # e
<1> DEFINE D == script.users
<1>1. DraftsOK(users, D) /\ D \in Drafts
  BY DEF ScriptOK, Scripts
<1>2. ~(Exists(users, v) /\ Lower[users[v].email] = e)
  BY DEF Cleared, Taken
<1>3. CASE v \notin DOMAIN D
  BY <1>2, <1>3 DEF Merge, Exists
<1>4. CASE v \in DOMAIN D
  <2>1. Merge(users, D)[v] = D[v]
    BY <1>4 DEF Merge
  <2>2. CASE Exists(users, v) /\ users[v].email = D[v].email
    BY <1>2, <2>1, <2>2
  <2>3. CASE users[v] = Absent /\ Lower[D[v].email] = D[v].email
    BY <1>4, <2>1, <2>3 DEF Awaited
  <2> QED
    BY <1>1, <1>4, <2>2, <2>3 DEF DraftsOK
<1> QED
  BY <1>3, <1>4

LEMMA LowerCase ==
    /\ BootEmail \in Emails /\ Lower[BootEmail] = BootEmail
    /\ \A r \in Requests :
        /\ r.op \in {"create", "update", "password", "delete", "assign", "boot"}
        /\ r.id \in Ids \cup {Nobody} /\ r.active \in BOOLEAN
        /\ r.op \in {"create", "boot"} => r.id = Nobody
        /\ r.op \in {"update", "password", "delete"} => r.id \in Ids
        /\ r.email # NoEmail => r.email \in Emails /\ Lower[r.email] = r.email
    /\ \A i \in 1 .. Len(Sheet) :
        /\ Sheet[i].email \in Emails /\ Lower[Sheet[i].email] = Sheet[i].email
        /\ Sheet[i].store \in Stores \cup {NoStore}
    /\ Len(Sheet) \in Nat /\ Nobody \notin Ids
<1>1. BootEmail \in Emails /\ Lower[BootEmail] = BootEmail /\ Nobody \notin Ids
  BY AccountsAssumption
<1>2. \A e \in Emails : Lower[e] \in Emails /\ Lower[Lower[e]] = Lower[e]
  BY AccountsAssumption
<1>3. ASSUME NEW r \in Requests
      PROVE  /\ r.op \in {"create", "update", "password", "delete", "assign", "boot"}
             /\ r.id \in Ids \cup {Nobody} /\ r.active \in BOOLEAN
             /\ r.op \in {"create", "boot"} => r.id = Nobody
             /\ r.op \in {"update", "password", "delete"} => r.id \in Ids
             /\ r.email # NoEmail => r.email \in Emails /\ Lower[r.email] = r.email
  <2>1. r \in [op : {"create", "update", "password", "delete", "assign", "boot"},
               id : Ids \cup {Nobody}, email : {Lower[e] : e \in Emails} \cup {NoEmail},
               active : BOOLEAN, store : Stores \cup {NoStore}]
    BY AccountsAssumption
  <2>2. /\ r.op \in {"create", "boot"} => r.id = Nobody
        /\ r.op \in {"update", "password", "delete"} => r.id # Nobody
    BY AccountsAssumption
  <2>3. r.email # NoEmail => \E e \in Emails : r.email = Lower[e]
    BY <2>1
  <2> QED
    BY <1>2, <2>1, <2>2, <2>3
<1> DEFINE SheetRows == [email : {Lower[e] : e \in Emails}, store : Stores \cup {NoStore}]
<1>4. PICK sheet \in Seq(SheetRows) : sheet = Sheet
  BY AccountsAssumption
<1>5. ASSUME NEW i \in 1 .. Len(sheet)
      PROVE  /\ sheet[i].email \in Emails /\ Lower[sheet[i].email] = sheet[i].email
             /\ sheet[i].store \in Stores \cup {NoStore}
  <2>1. sheet[i] \in SheetRows
    <3> HIDE DEF SheetRows
    <3> QED
      BY <1>4, <1>5
  <2>2. \E e \in Emails : sheet[i].email = Lower[e]
    BY <2>1
  <2> QED
    BY <1>2, <2>1, <2>2
<1> QED
  BY <1>1, <1>3, <1>4, <1>5

-----------------------------------------------------------------------------
(* The endpoints.                                                          *)

LEMMA StoresSuit == StoresHaveManagers <=> \A x \in Stores : assigned[x] # Nobody => Suits(users, assigned[x])
BY DEF StoresHaveManagers, Suits

\* What a step of call c may do: move the users, and give a store to who suits.
LEMMA EndpointKeeps ==
    ASSUME AccountsInv, NEW c \in Calls, NEW x,
           UNCHANGED scriptVars,
           users' \in [Ids -> UserRows], Moves(users, users', script.users, x),
           changed \subseteq changed', changed' \subseteq Ids \cup {Nobody},
           \A u \in Ids : users'[u] # users[u] => u \in changed',
           assigned' \in [Stores -> Ids \cup {Nobody}],
           \A y \in Stores : assigned'[y] # Nobody =>
                Suits(users, assigned'[y]) /\ users'[assigned'[y]] # Gone,
           pc' \in [Calls -> {"idle", "check", "write", "promote", "unassign", "delete", "end"}],
           call' \in [Calls -> Requests \cup {NoCall}], held' \in [Calls -> SUBSET Stores],
           \A d \in Calls \ {c} : pc'[d] = pc[d] /\ call'[d] = call[d],
           \/ pc'[c] = "end"
           \/ /\ pc'[c] # "idle" /\ call'[c] \in Requests
              /\ pc'[c] = "write" => Ready(users', call'[c])
              /\ pc'[c] \in {"unassign", "delete"} => call'[c].op = "delete"
    PROVE  AccountsInv'
<1>1. /\ users \in [Ids -> UserRows] /\ script \in Scripts /\ script' = script /\ printed' = printed
      /\ TypeOK /\ CallInv /\ ScriptOK(users, script, changed) /\ PrintInv
  BY DEF AccountsInv, TypeOK, UserRows, ScriptOK, scriptVars
<1>2. script.users \in Drafts
  BY <1>1 DEF Scripts
<1>3. TypeOK'
  BY <1>1 DEF TypeOK, UserRows
<1>4. ScriptOK(users', script', changed')
  BY <1>1, MovesKeepScript
<1>5. CallInv'
  <2>1. ASSUME NEW d \in Calls \ {c}
        PROVE  /\ pc'[d] \notin {"idle", "end"} => call'[d] \in Requests
               /\ pc'[d] = "write" => Ready(users', call'[d])
               /\ pc'[d] \in {"unassign", "delete"} => call'[d].op = "delete"
    <3>1. /\ pc[d] \notin {"idle", "end"} => call[d] \in Requests
          /\ pc[d] = "write" => Ready(users, call[d])
          /\ pc[d] \in {"unassign", "delete"} => call[d].op = "delete"
      BY <1>1 DEF CallInv
    <3>2. pc'[d] = pc[d] /\ call'[d] = call[d]
      OBVIOUS
    <3>3. ASSUME pc[d] = "write"
          PROVE  Ready(users', call[d])
      BY <1>1, <1>2, <3>1, <3>3, LowerCase, MovesKeepReady
    <3> QED
      BY <3>1, <3>2, <3>3
  <2>2. /\ pc'[c] \notin {"idle", "end"} => call'[c] \in Requests
        /\ pc'[c] = "write" => Ready(users', call'[c])
        /\ pc'[c] \in {"unassign", "delete"} => call'[c].op = "delete"
    OBVIOUS
  <2> QED
    BY <2>1, <2>2 DEF CallInv
<1>6. StoresHaveManagers'
  <2>1. ASSUME NEW y \in Stores, assigned'[y] # Nobody
        PROVE  Suits(users', assigned'[y])
    <3>1. PICK u \in Ids : u = assigned'[y]
      BY <2>1
    <3>2. Suits(users, u) /\ users'[u] # Gone
      BY <2>1, <3>1
    <3>3. Suits(users', u)
      BY <3>2 DEF Moves, Suits, Exists
    <3> QED
      BY <3>1, <3>3
  <2> QED
    BY <2>1 DEF StoresHaveManagers, Suits
<1>7. PrintInv'
  <2>1. printed' \in Seq(Passwords) /\ (script'.step # "end" => printed' = <<>>)
    BY <1>1 DEF PrintInv
  <2>2. ASSUME NEW i \in DOMAIN printed
        PROVE  \/ \E j \in DOMAIN printed : j > i /\ printed[j].id = printed[i].id
               \/ printed[i].id \in changed'
               \/ CanLogIn(printed[i].id, printed[i].pw)'
    <3>1. PICK u : u = printed[i].id
      OBVIOUS
    <3>2. u \in Ids
      <4>1. PICK told \in Seq(Passwords) : told = printed
        BY <1>1 DEF PrintInv
      <4>2. told[i] \in Passwords
        BY <2>2, <4>1
      <4> QED
        BY <3>1, <4>1, <4>2 DEF Passwords
    <3>3. \/ \E j \in DOMAIN printed : j > i /\ printed[j].id = u
          \/ u \in changed
          \/ CanLogIn(u, printed[i].pw)
      BY <1>1, <3>1 DEF PrintInv, PrintedPasswordsWork
    <3>4. users'[u] = users[u] \/ u \in changed'
      BY <3>2
    <3> QED
      BY <1>1, <3>1, <3>3, <3>4 DEF CanLogIn, Exists
  <2> QED
    BY <1>1, <2>1, <2>2 DEF PrintInv, PrintedPasswordsWork
<1> QED
  BY <1>3, <1>4, <1>5, <1>6, <1>7 DEF AccountsInv

LEMMA NoMove ==
    ASSUME NEW U, NEW D, NEW x
    PROVE  Moves(U, U, D, x)
BY DEF Moves

\* Steps that only read, or end the call.
LEMMA ReadKeeps ==
    ASSUME AccountsInv, NEW c \in Calls, UNCHANGED <<users, assigned, scriptVars, changed>>,
           \/ End(c)
           \/ /\ pc[c] \notin {"idle", "end"}
              /\ GoTo(c, "promote") \/ (GoTo(c, "write") /\ Ready(users, call[c]))
    PROVE  AccountsInv'
<1>1. /\ pc \in [Calls -> {"idle", "check", "write", "promote", "unassign", "delete", "end"}]
      /\ call \in [Calls -> Requests \cup {NoCall}] /\ held \in [Calls -> SUBSET Stores]
      /\ users \in [Ids -> UserRows] /\ assigned \in [Stores -> Ids \cup {Nobody}]
      /\ changed \subseteq Ids \cup {Nobody}
      /\ pc[c] \notin {"idle", "end"} => call[c] \in Requests
  BY DEF AccountsInv, TypeOK, CallInv, UserRows
<1>2. Moves(users, users', script.users, Nobody)
  BY NoMove
<1>3. \A y \in Stores : assigned[y] # Nobody => Suits(users, assigned[y]) /\ users[assigned[y]] # Gone
  BY <1>1, RowKinds, StoresSuit DEF AccountsInv, Suits
<1>4. /\ pc' \in [Calls -> {"idle", "check", "write", "promote", "unassign", "delete", "end"}]
      /\ call' \in [Calls -> Requests \cup {NoCall}] /\ held' \in [Calls -> SUBSET Stores]
      /\ \A d \in Calls \ {c} : pc'[d] = pc[d] /\ call'[d] = call[d]
  BY <1>1 DEF End, GoTo
<1>5. \/ pc'[c] = "end"
      \/ /\ pc'[c] # "idle" /\ call'[c] \in Requests
         /\ pc'[c] = "write" => Ready(users, call'[c])
         /\ pc'[c] \in {"unassign", "delete"} => call'[c].op = "delete"
  BY <1>1 DEF End, GoTo
<1> QED
  BY <1>1, <1>2, <1>3, <1>4, <1>5, EndpointKeeps DEF scriptVars

LEMMA ReceiveKeeps ==
    ASSUME AccountsInv, NEW c \in Calls, NEW r \in Requests, Receive(c, r)
    PROVE  AccountsInv'
<1>1. /\ pc \in [Calls -> {"idle", "check", "write", "promote", "unassign", "delete", "end"}]
      /\ call \in [Calls -> Requests \cup {NoCall}] /\ held \in [Calls -> SUBSET Stores]
      /\ users \in [Ids -> UserRows] /\ assigned \in [Stores -> Ids \cup {Nobody}]
      /\ changed \subseteq Ids \cup {Nobody}
  BY DEF AccountsInv, TypeOK, UserRows
<1>2. Moves(users, users', script.users, Nobody)
  BY NoMove DEF Receive
<1>3. \A y \in Stores : assigned[y] # Nobody => Suits(users, assigned[y]) /\ users[assigned[y]] # Gone
  BY <1>1, RowKinds, StoresSuit DEF AccountsInv, Suits
<1>4. /\ FirstStep(r) \in {"check", "write", "unassign"}
      /\ FirstStep(r) = "write" => Ready(users, r)
      /\ FirstStep(r) = "unassign" => r.op = "delete"
  <2>1. r.op \in {"create", "update", "password", "delete", "assign", "boot"}
    BY LowerCase
  <2> QED
    BY <2>1 DEF FirstStep, Ready
<1>5. /\ pc' \in [Calls -> {"idle", "check", "write", "promote", "unassign", "delete", "end"}]
      /\ call' \in [Calls -> Requests \cup {NoCall}]
      /\ \A d \in Calls \ {c} : pc'[d] = pc[d] /\ call'[d] = call[d]
      /\ pc'[c] = FirstStep(r) /\ call'[c] = r
  BY <1>1, <1>4 DEF Receive
<1> QED
  BY <1>1, <1>2, <1>3, <1>4, <1>5, EndpointKeeps DEF Receive

\* The checks: what the call found out is Ready's.
LEMMA CheckKeeps ==
    ASSUME AccountsInv, NEW c \in Calls, CheckEmail(c) \/ CheckManager(c) \/ CheckBoot(c)
    PROVE  AccountsInv'
<1>1. PICK r \in Requests : r = call[c]
  BY DEF AccountsInv, CallInv, CheckEmail, CheckManager, CheckBoot
<1>2. pc[c] = "check" /\ UNCHANGED <<users, assigned, scriptVars, changed>>
  BY DEF CheckEmail, CheckManager, CheckBoot
<1>3. CASE CheckEmail(c)
  <2>1. r.op \in {"create", "update"}
    BY <1>1, <1>3 DEF CheckEmail
  <2>2. ASSUME WithEmail(users, r.email) \ {r.id} = {}
        PROVE  Ready(users, r)
    BY <2>1, <2>2, LowerCase DEF Ready, Cleared, WithEmail
  <2> QED
    BY <1>1, <1>2, <1>3, <2>2, ReadKeeps DEF CheckEmail
<1>4. CASE CheckManager(c)
  <2>1. r.op = "assign"
    BY <1>1, <1>4 DEF CheckManager
  <2>2. ASSUME users[r.id].role = "manager"
        PROVE  Ready(users, r)
    BY <2>1, <2>2 DEF Ready, Suits, Exists, Roles
  <2> QED
    BY <1>1, <1>2, <1>4, <2>2, ReadKeeps DEF CheckManager
<1>5. CASE CheckBoot(c)
  <2>1. r.op = "boot"
    BY <1>1, <1>5 DEF CheckBoot
  <2>2. ASSUME WithEmail(users, BootEmail) = {}
        PROVE  Ready(users, r)
    BY <2>1, <2>2, LowerCase DEF Ready, Cleared, WithEmail
  <2>3. GoTo(c, "promote") \/ (GoTo(c, "write") /\ WithEmail(users, BootEmail) = {})
    BY <1>5 DEF CheckBoot
  <2> QED
    BY <1>1, <1>2, <2>2, <2>3, ReadKeeps
<1> QED
  BY <1>3, <1>4, <1>5

\* One statement that writes user u.
LEMMA WriteKeeps ==
    ASSUME AccountsInv, NEW c \in Calls, NEW u \in Ids, NEW row \in Users, Write(c, u, row),
           u \notin DOMAIN script.users, users[u] # Gone,
           \/ Exists(users, u) /\ row.email = users[u].email
           \/ /\ Lower[row.email] = row.email
              /\ \A v \in Ids \ {u} : Exists(Merge(users, script.users), v)
                    => Lower[Merge(users, script.users)[v].email] # row.email,
           Suits(users, u) => row.role = "manager" \/ Lower[row.email] = BootEmail
    PROVE  AccountsInv'
<1>1. /\ pc \in [Calls -> {"idle", "check", "write", "promote", "unassign", "delete", "end"}]
      /\ call \in [Calls -> Requests \cup {NoCall}] /\ held \in [Calls -> SUBSET Stores]
      /\ users \in [Ids -> UserRows] /\ assigned \in [Stores -> Ids \cup {Nobody}]
      /\ changed \subseteq Ids \cup {Nobody}
  BY DEF AccountsInv, TypeOK, UserRows
<1>2. /\ users' \in [Ids -> UserRows] /\ users'[u] = row
      /\ \A v \in Ids \ {u} : users'[v] = users[v]
  BY <1>1 DEF Write, UserRows
<1>3. Suits(users, u) => Suits(users', u)
  BY <1>2, RowKinds DEF Suits, Exists
<1>4. Moves(users, users', script.users, u)
  BY <1>2, <1>3 DEF Moves
<1>5. \A y \in Stores : assigned[y] # Nobody => Suits(users, assigned[y]) /\ users'[assigned[y]] # Gone
  <2>1. ASSUME NEW y \in Stores, assigned[y] # Nobody
        PROVE  Suits(users, assigned[y]) /\ users'[assigned[y]] # Gone
    <3>1. PICK v \in Ids : v = assigned[y]
      BY <1>1, <2>1
    <3>2. Suits(users, v)
      BY <2>1, <3>1, StoresSuit DEF AccountsInv
    <3>3. users'[v] # Gone
      BY <1>1, <1>2, <3>2, RowKinds DEF Suits
    <3> QED
      BY <3>1, <3>2, <3>3
  <2> QED
    BY <2>1
<1>6. /\ pc' \in [Calls -> {"idle", "check", "write", "promote", "unassign", "delete", "end"}]
      /\ call' \in [Calls -> Requests \cup {NoCall}] /\ held' \in [Calls -> SUBSET Stores]
      /\ \A d \in Calls \ {c} : pc'[d] = pc[d] /\ call'[d] = call[d]
      /\ pc'[c] = "end"
  BY <1>1 DEF Write, End
<1>7. UNCHANGED <<assigned, scriptVars>> /\ changed' = changed \cup {u}
  BY DEF Write
<1> QED
  BY <1>1, <1>2, <1>4, <1>5, <1>6, <1>7, EndpointKeeps

LEMMA RefuseKeeps ==
    ASSUME AccountsInv, NEW c \in Calls, Refuse(c)
    PROVE  AccountsInv'
BY ReadKeeps DEF Refuse

LEMMA InsertKeeps ==
    ASSUME AccountsInv, NEW c \in Calls, NEW row \in Users, InsertUser(c, row),
           Lower[row.email] = row.email, Cleared(users, Nobody, row.email)
    PROVE  AccountsInv'
<1>1. CASE Taken(row.email, Nobody)
  BY <1>1, RefuseKeeps DEF InsertUser
<1>2. CASE ~Taken(row.email, Nobody)
  <2>1. PICK u \in Ids : users[u] = Absent /\ ~UserLocked(u) /\ Write(c, u, row)
    BY <1>2 DEF InsertUser
  <2>2. ~Exists(users, u) /\ users[u] # Gone /\ u \notin DOMAIN script.users
    BY <2>1 DEF Exists, Roles, Absent, Gone, UserLocked
  <2>3. \A v \in Ids : Exists(Merge(users, script.users), v)
            => Lower[Merge(users, script.users)[v].email] # row.email
    BY <1>2, FreshEmail, LowerCase DEF InsertUser, AccountsInv
  <2> QED
    BY <2>1, <2>2, <2>3, WriteKeeps DEF Suits
<1> QED
  BY <1>1, <1>2

LEMMA CreateKeeps ==
    ASSUME AccountsInv, NEW c \in Calls, create_manager(c)
    PROVE  AccountsInv'
<1>1. PICK r \in Requests : r = call[c] /\ r.op = "create" /\ Ready(users, r)
  BY DEF create_manager, AccountsInv, CallInv
<1>2. CASE r.email = NoEmail
  BY <1>1, <1>2, RefuseKeeps DEF create_manager
<1>3. CASE r.email # NoEmail
  <2>1. Cleared(users, Nobody, r.email) /\ r.email \in Emails /\ Lower[r.email] = r.email
    BY <1>1, <1>3, LowerCase DEF Ready
  <2>2. PICK row : row = NewManager(r.email)
    OBVIOUS
  <2>3. row \in Users /\ row.email = r.email
    BY <2>1, <2>2 DEF NewManager, Users, Roles, Pw
  <2>4. InsertUser(c, row)
    BY <1>1, <1>3, <2>2 DEF create_manager
  <2> QED
    BY <2>1, <2>3, <2>4, InsertKeeps
<1> QED
  BY <1>2, <1>3

LEMMA InsertAdminKeeps ==
    ASSUME AccountsInv, NEW c \in Calls, InsertAdmin(c)
    PROVE  AccountsInv'
<1>1. PICK r \in Requests : r = call[c] /\ r.op = "boot" /\ Ready(users, r)
  BY DEF InsertAdmin, AccountsInv, CallInv
<1>2. PICK row : row = [email |-> BootEmail, role |-> "admin", active |-> TRUE, pw |-> Pw("boot", 0)]
  OBVIOUS
<1>3. row \in Users /\ row.email = BootEmail
  BY <1>2, LowerCase DEF Users, Roles, Pw
<1>4. InsertUser(c, row) /\ Cleared(users, Nobody, BootEmail)
  BY <1>1, <1>2 DEF InsertAdmin, Ready
<1> QED
  BY <1>3, <1>4, LowerCase, InsertKeeps

LEMMA UserTyped ==
    ASSUME AccountsInv, NEW u \in Ids, users[u].role \in Roles
    PROVE  users[u] \in Users /\ Exists(users, u) /\ users[u] # Gone
BY RowKinds DEF AccountsInv, TypeOK, UserRows, Exists, Roles, Gone, Absent

LEMMA UpdateKeeps ==
    ASSUME AccountsInv, NEW c \in Calls, update_manager(c)
    PROVE  AccountsInv'
<1>1. PICK r \in Requests : r = call[c] /\ r.op = "update" /\ Ready(users, r)
  BY DEF update_manager, AccountsInv, CallInv
<1>2. r.id \in Ids /\ r.active \in BOOLEAN
  BY <1>1, LowerCase
<1>3. CASE users[r.id].role # "manager" \/ r.email = NoEmail \/ Taken(r.email, r.id)
  BY <1>1, <1>3, RefuseKeeps DEF update_manager
<1>4. CASE ~(users[r.id].role # "manager" \/ r.email = NoEmail \/ Taken(r.email, r.id))
  <2>1. /\ ~UserLocked(r.id) /\ ~Awaited(r.email)
        /\ Write(c, r.id, [users[r.id] EXCEPT !.email = r.email, !.active = r.active])
    BY <1>1, <1>4 DEF update_manager
  <2>2. Cleared(users, r.id, r.email) /\ r.email \in Emails /\ Lower[r.email] = r.email
    BY <1>1, <1>4, LowerCase DEF Ready
  <2>3. PICK old \in Users : old = users[r.id] /\ old # Gone
    BY <1>2, <1>4, UserTyped DEF Roles
  <2>4. PICK row : row = [old EXCEPT !.email = r.email, !.active = r.active]
    OBVIOUS
  <2>5. row \in Users /\ row.email = r.email /\ row.role = "manager"
    BY <1>2, <1>4, <2>2, <2>3, <2>4 DEF Users
  <2>6. \A v \in Ids \ {r.id} : Exists(Merge(users, script.users), v)
            => Lower[Merge(users, script.users)[v].email] # r.email
    BY <1>2, <1>4, <2>1, <2>2, FreshEmail DEF AccountsInv
  <2>7. r.id \notin DOMAIN script.users /\ Write(c, r.id, row)
    BY <2>1, <2>3, <2>4 DEF UserLocked
  <2> QED
    BY <1>2, <2>2, <2>3, <2>5, <2>6, <2>7, WriteKeeps
<1> QED
  BY <1>3, <1>4

LEMMA PasswordKeeps ==
    ASSUME AccountsInv, NEW c \in Calls, update_manager_password(c)
    PROVE  AccountsInv'
<1>1. PICK r \in Requests : r = call[c] /\ r.op = "password"
  BY DEF update_manager_password, AccountsInv, CallInv
<1>2. r.id \in Ids
  BY <1>1, LowerCase
<1>3. CASE users[r.id].role # "manager"
  BY <1>1, <1>3, RefuseKeeps DEF update_manager_password
<1>4. CASE users[r.id].role = "manager"
  <2>1. ~UserLocked(r.id) /\ Write(c, r.id, [users[r.id] EXCEPT !.pw = Pw("dispatcher", 0)])
    BY <1>1, <1>4 DEF update_manager_password
  <2>2. PICK old \in Users : old = users[r.id] /\ old # Gone /\ Exists(users, r.id)
    BY <1>2, <1>4, UserTyped DEF Roles
  <2>3. PICK row : row = [old EXCEPT !.pw = Pw("dispatcher", 0)]
    OBVIOUS
  <2>4. row \in Users /\ row.email = old.email /\ row.role = "manager"
    BY <1>4, <2>2, <2>3 DEF Users, Pw
  <2>5. r.id \notin DOMAIN script.users /\ Write(c, r.id, row)
    BY <2>1, <2>2, <2>3 DEF UserLocked
  <2> QED
    BY <1>2, <2>2, <2>4, <2>5, WriteKeeps
<1> QED
  BY <1>3, <1>4

LEMMA UnassignKeeps ==
    ASSUME AccountsInv, NEW c \in Calls, UnassignStores(c)
    PROVE  AccountsInv'
<1>1. /\ pc \in [Calls -> {"idle", "check", "write", "promote", "unassign", "delete", "end"}]
      /\ call \in [Calls -> Requests \cup {NoCall}] /\ held \in [Calls -> SUBSET Stores]
      /\ users \in [Ids -> UserRows] /\ assigned \in [Stores -> Ids \cup {Nobody}]
      /\ changed \subseteq Ids \cup {Nobody}
      /\ call[c] \in Requests /\ call[c].op = "delete"
  BY DEF AccountsInv, TypeOK, CallInv, UserRows, UnassignStores
<1>2. Moves(users, users', script.users, Nobody)
  BY NoMove DEF UnassignStores
<1>3. \A y \in Stores : assigned[y] # Nobody => Suits(users, assigned[y]) /\ users[assigned[y]] # Gone
  BY <1>1, RowKinds, StoresSuit DEF AccountsInv, Suits
<1>4. /\ pc' \in [Calls -> {"idle", "check", "write", "promote", "unassign", "delete", "end"}]
      /\ held' \in [Calls -> SUBSET Stores]
      /\ \A d \in Calls \ {c} : pc'[d] = pc[d]
      /\ pc'[c] = "delete"
  BY <1>1 DEF UnassignStores
<1>5. UNCHANGED <<users, assigned, call, scriptVars, changed>>
  BY DEF UnassignStores
<1> QED
  BY <1>1, <1>2, <1>3, <1>4, <1>5, EndpointKeeps

LEMMA DeleteKeeps ==
    ASSUME AccountsInv, NEW c \in Calls, DeleteUser(c)
    PROVE  AccountsInv'
<1>1. /\ pc \in [Calls -> {"idle", "check", "write", "promote", "unassign", "delete", "end"}]
      /\ call \in [Calls -> Requests \cup {NoCall}] /\ held \in [Calls -> SUBSET Stores]
      /\ users \in [Ids -> UserRows] /\ assigned \in [Stores -> Ids \cup {Nobody}]
      /\ changed \subseteq Ids \cup {Nobody}
      /\ call[c] \in Requests /\ call[c].op = "delete"
  BY DEF AccountsInv, TypeOK, CallInv, UserRows, DeleteUser
<1>2. PICK u \in Ids : u = call[c].id
  BY <1>1, LowerCase
<1> DEFINE freed == held[c] \cup {y \in Stores : users[u].role = "manager" /\ assigned[y] = u}
<1>3. /\ u \notin DOMAIN script.users
      /\ assigned' = [y \in Stores |-> IF y \in freed THEN Nobody ELSE assigned[y]]
      /\ users' = IF users[u].role = "manager" THEN [users EXCEPT ![u] = Gone] ELSE users
      /\ changed' = changed \cup {u} /\ End(c) /\ UNCHANGED scriptVars
  BY <1>2 DEF DeleteUser, UserLocked
<1>4. /\ users' \in [Ids -> UserRows] /\ \A v \in Ids \ {u} : users'[v] = users[v]
      /\ users'[u] = users[u] \/ (users'[u] = Gone /\ users[u].role = "manager")
  BY <1>1, <1>3 DEF UserRows
<1>5. Moves(users, users', script.users, Nobody)
  <2>1. users[u].role = "manager" => Exists(users, u) /\ users[u] # Gone
    BY UserTyped DEF Roles
  <2> QED
    BY <1>3, <1>4, <2>1 DEF Moves
<1>6. assigned' \in [Stores -> Ids \cup {Nobody}]
  BY <1>1, <1>3
<1>7. ASSUME NEW y \in Stores, assigned'[y] # Nobody
      PROVE  Suits(users, assigned'[y]) /\ users'[assigned'[y]] # Gone
  <2>1. y \notin freed /\ assigned'[y] = assigned[y]
    BY <1>3, <1>7
  <2>2. PICK v \in Ids : v = assigned[y]
    BY <1>1, <1>7, <2>1
  <2>3. Suits(users, v) /\ users[v] # Gone
    BY <1>1, <1>7, <2>1, <2>2, StoresSuit, RowKinds DEF AccountsInv, Suits
  <2>4. users'[v] # Gone
    BY <1>4, <2>1, <2>2, <2>3
  <2> QED
    BY <2>1, <2>2, <2>3, <2>4
<1>8. /\ pc' \in [Calls -> {"idle", "check", "write", "promote", "unassign", "delete", "end"}]
      /\ call' \in [Calls -> Requests \cup {NoCall}] /\ held' \in [Calls -> SUBSET Stores]
      /\ \A d \in Calls \ {c} : pc'[d] = pc[d] /\ call'[d] = call[d]
      /\ pc'[c] = "end"
  BY <1>1, <1>3 DEF End
<1>9. /\ changed \subseteq changed' /\ changed' \subseteq Ids \cup {Nobody} /\ UNCHANGED scriptVars
      /\ \A v \in Ids : users'[v] # users[v] => v \in changed'
  BY <1>1, <1>3, <1>4
<1> QED
  BY <1>4, <1>5, <1>6, <1>7, <1>8, <1>9, EndpointKeeps

LEMMA AssignKeeps ==
    ASSUME AccountsInv, NEW c \in Calls, assign_store(c)
    PROVE  AccountsInv'
<1>1. /\ pc \in [Calls -> {"idle", "check", "write", "promote", "unassign", "delete", "end"}]
      /\ call \in [Calls -> Requests \cup {NoCall}] /\ held \in [Calls -> SUBSET Stores]
      /\ users \in [Ids -> UserRows] /\ assigned \in [Stores -> Ids \cup {Nobody}]
      /\ changed \subseteq Ids \cup {Nobody}
  BY DEF AccountsInv, TypeOK, UserRows
<1>2. PICK r \in Requests : r = call[c] /\ r.op = "assign" /\ Ready(users, r) /\ r.id \in Ids \cup {Nobody}
  BY LowerCase DEF assign_store, AccountsInv, CallInv
<1>3. Moves(users, users', script.users, Nobody)
  BY NoMove DEF assign_store
<1>4. /\ assigned' = IF r.id = Nobody \/ Exists(users, r.id)
                     THEN [assigned EXCEPT ![r.store] = r.id] ELSE assigned
      /\ End(c) /\ UNCHANGED <<users, scriptVars, changed>>
  BY <1>2 DEF assign_store
<1>5. assigned' \in [Stores -> Ids \cup {Nobody}]
  BY <1>1, <1>2, <1>4
<1>6. ASSUME NEW y \in Stores, assigned'[y] # Nobody
      PROVE  Suits(users, assigned'[y]) /\ users[assigned'[y]] # Gone
  <2>1. assigned'[y] = assigned[y] \/ (assigned'[y] = r.id /\ Exists(users, r.id))
    BY <1>1, <1>2, <1>4, <1>6
  <2>2. PICK v \in Ids : v = assigned'[y]
    BY <1>5, <1>6
  <2>3. CASE assigned'[y] = assigned[y]
    BY <1>1, <1>6, <2>2, <2>3, StoresSuit, RowKinds DEF AccountsInv, Suits
  <2>4. CASE assigned'[y] = r.id /\ Exists(users, r.id)
    <3>1. users[v] # Gone
      BY <1>1, <2>2, <2>4, RowKinds
    <3> QED
      BY <1>2, <1>6, <2>2, <2>4, <3>1 DEF Ready
  <2> QED
    BY <2>1, <2>3, <2>4
<1>7. /\ pc' \in [Calls -> {"idle", "check", "write", "promote", "unassign", "delete", "end"}]
      /\ call' \in [Calls -> Requests \cup {NoCall}] /\ held' \in [Calls -> SUBSET Stores]
      /\ \A d \in Calls \ {c} : pc'[d] = pc[d] /\ call'[d] = call[d]
      /\ pc'[c] = "end"
  BY <1>1, <1>4 DEF End
<1> QED
  BY <1>1, <1>3, <1>4, <1>5, <1>6, <1>7, EndpointKeeps

LEMMA PromoteKeeps ==
    ASSUME AccountsInv, NEW c \in Calls, PromoteAdmin(c), pc[c] = "promote"
    PROVE  AccountsInv'
<1>1. /\ pc \in [Calls -> {"idle", "check", "write", "promote", "unassign", "delete", "end"}]
      /\ call \in [Calls -> Requests \cup {NoCall}] /\ held \in [Calls -> SUBSET Stores]
      /\ users \in [Ids -> UserRows] /\ assigned \in [Stores -> Ids \cup {Nobody}]
      /\ changed \subseteq Ids \cup {Nobody}
  BY DEF AccountsInv, TypeOK, UserRows
<1>2. PICK found : found = WithEmail(users, BootEmail)
  OBVIOUS
<1>3. /\ \A u \in found : u \notin DOMAIN script.users
      /\ users' = [u \in Ids |-> IF u \in found THEN Promoted(users[u]) ELSE users[u]]
      /\ changed' = changed \cup found /\ found \subseteq Ids
      /\ End(c) /\ UNCHANGED <<assigned, scriptVars>>
  BY <1>2 DEF PromoteAdmin, UserLocked, WithEmail
<1>4. ASSUME NEW u \in found
      PROVE  /\ u \in Ids /\ users'[u] = Promoted(users[u]) /\ Promoted(users[u]) \in Users
             /\ Exists(users, u) /\ users[u] # Gone /\ Promoted(users[u]).email = users[u].email
             /\ Lower[users[u].email] = BootEmail
  <2>1. u \in Ids /\ Exists(users, u) /\ Lower[users[u].email] = BootEmail
    BY <1>2, <1>4, LowerCase DEF WithEmail
  <2>2. PICK old \in Users : old = users[u] /\ old # Gone
    BY <2>1, UserTyped DEF Exists
  <2>3. Promoted(old) \in Users /\ Promoted(old).email = old.email
    BY DEF Promoted, Users, Roles, Pw
  <2> QED
    BY <1>3, <2>1, <2>2, <2>3
<1>5. \A u \in Ids \ found : users'[u] = users[u]
  BY <1>3
<1>6. users' \in [Ids -> UserRows]
  <2>1. \A u \in Ids : users'[u] \in UserRows
    BY <1>1, <1>4, <1>5 DEF UserRows
  <2> QED
    BY <1>3, <2>1
<1>7. \A u \in found : Suits(users', u)
  BY <1>4, <1>6, RowKinds DEF Suits
<1>8. Moves(users, users', script.users, Nobody)
  BY <1>3, <1>4, <1>5, <1>7 DEF Moves
<1>9. ASSUME NEW y \in Stores, assigned[y] # Nobody
      PROVE  Suits(users, assigned[y]) /\ users'[assigned[y]] # Gone
  <2>1. PICK v \in Ids : v = assigned[y]
    BY <1>1, <1>9
  <2>2. Suits(users, v) /\ users[v] # Gone
    BY <1>1, <1>9, <2>1, StoresSuit, RowKinds DEF AccountsInv, Suits
  <2>3. users'[v] # Gone
    BY <1>4, <1>5, <2>2, RowKinds
  <2> QED
    BY <2>1, <2>2, <2>3
<1>10. /\ pc' \in [Calls -> {"idle", "check", "write", "promote", "unassign", "delete", "end"}]
       /\ call' \in [Calls -> Requests \cup {NoCall}] /\ held' \in [Calls -> SUBSET Stores]
       /\ \A d \in Calls \ {c} : pc'[d] = pc[d] /\ call'[d] = call[d]
       /\ pc'[c] = "end"
  BY <1>1, <1>3 DEF End
<1> QED
  BY <1>1, <1>3, <1>5, <1>6, <1>8, <1>9, <1>10, EndpointKeeps

-----------------------------------------------------------------------------
(* The script.                                                             *)

LEMMA CommittedUnique ==
    ASSUME NEW U \in [Ids -> UserRows], NEW D \in Drafts, DraftsOK(U, D), Unique(Merge(U, D))
    PROVE  Unique(U)
<1>1. ASSUME NEW u \in Ids, Exists(U, u)
      PROVE  Exists(Merge(U, D), u) /\ Merge(U, D)[u].email = U[u].email
  <2>1. U[u] # Absent
    BY <1>1, RowKinds
  <2> QED
    BY <1>1, <2>1 DEF DraftsOK, Merge, Exists, Roles
<1> QED
  BY <1>1 DEF Unique

LEMMA IdleOK ==
    ASSUME NEW U \in [Ids -> UserRows], Unique(U), NEW g \in BOOLEAN, NEW st \in {"idle", "look", "end"}, NEW ch,
           NEW s, s = [step |-> st, generate |-> g, at |-> 1, id |-> Nobody,
                       users |-> NoWrites, stores |-> NoWrites, told |-> <<>>]
    PROVE  ScriptOK(U, s, ch)
<1>1. DOMAIN NoWrites = {} /\ NoWrites \in Drafts /\ NoWrites \in Links
  <2>1. DOMAIN NoWrites = {}
    BY DEF NoWrites
  <2>2. NoWrites \in [{} -> Users] /\ NoWrites \in [{} -> Ids]
    BY DEF NoWrites
  <2> QED
    BY <2>1, <2>2 DEF Drafts, Links
<1>2. Merge(U, NoWrites) = U
  BY <1>1 DEF Merge
<1>3. s \in Scripts
  <2>0. <<>> \in Seq(Passwords)
    OBVIOUS
  <2>1. PICK none : none = <<>> /\ none \in Seq(Passwords)
    BY <2>0, Zenon
  <2>2. s = [step |-> st, generate |-> g, at |-> 1, id |-> Nobody,
             users |-> NoWrites, stores |-> NoWrites, told |-> none]
    BY <2>1
  <2> QED
    BY <1>1, <2>1, <2>2 DEF Scripts
<1>4. DraftsOK(U, NoWrites)
  BY <1>1 DEF DraftsOK
<1>5. s.step = st /\ s.users = NoWrites /\ s.stores = NoWrites /\ s.told = <<>> /\ DOMAIN s.told = {}
  OBVIOUS
<1> QED
  BY <1>1, <1>2, <1>3, <1>4, <1>5 DEF ScriptOK

\* What a step of the script that is not its commit leaves alone.
LEMMA ScriptKeeps ==
    ASSUME AccountsInv, UNCHANGED <<users, assigned, callVars, printed>>, script.step # "end",
           changed' \subseteq Ids \cup {Nobody}, ScriptOK(users, script', changed')
    PROVE  AccountsInv'
<1>1. /\ TypeOK /\ CallInv /\ StoresHaveManagers /\ printed = <<>>
      /\ users' = users /\ assigned' = assigned /\ pc' = pc /\ call' = call /\ held' = held
      /\ printed' = <<>>
  BY DEF AccountsInv, PrintInv, callVars
<1>2. /\ script'.step \in {"idle", "look", "upsert", "assign", "end"}
      /\ script'.users \in Drafts /\ script'.stores \in Links
  BY DEF ScriptOK, Scripts
<1>3. /\ DOMAIN script'.users \subseteq Ids /\ \A u \in DOMAIN script'.users : script'.users[u] \in Users
      /\ DOMAIN script'.stores \subseteq Stores
      /\ \A y \in DOMAIN script'.stores : script'.stores[y] \in Ids
  BY <1>2 DEF Drafts, Links
<1>4. TypeOK'
  BY <1>1, <1>2, <1>3 DEF TypeOK
<1>5. CallInv'
  BY <1>1 DEF CallInv
<1>6. StoresHaveManagers'
  BY <1>1 DEF StoresHaveManagers
<1>7. PrintInv'
  BY <1>1 DEF PrintInv, PrintedPasswordsWork
<1>8. ScriptOK(users', script', changed')
  BY <1>1
<1> QED
  BY <1>4, <1>5, <1>6, <1>7, <1>8 DEF AccountsInv

\* The invariant of the script, taken apart.
LEMMA ScriptFacts ==
    ASSUME AccountsInv
    PROVE  /\ users \in [Ids -> UserRows] /\ changed \subseteq Ids \cup {Nobody}
           /\ script \in Scripts /\ script.users \in Drafts /\ script.stores \in Links
           /\ script.told \in Seq(Passwords) /\ script.generate \in BOOLEAN
           /\ script.id \in Ids \cup {Nobody} /\ script.at \in Nat \ {0}
           /\ DraftsOK(users, script.users) /\ Unique(Merge(users, script.users)) /\ Unique(users)
           /\ Draft = Merge(users, script.users)
           /\ script.step \in {"upsert", "assign"} => script.at \in 1 .. Len(Sheet)
           /\ \A y \in DOMAIN script.stores : script.stores[y] \in DOMAIN script.users
           /\ ~script.generate => script.told = <<>>
           /\ \A i \in DOMAIN script.told : Holds(users, script, changed, i)
<1>1. users \in [Ids -> UserRows] /\ changed \subseteq Ids \cup {Nobody}
  BY DEF AccountsInv, TypeOK, UserRows
<1>2. ScriptOK(users, script, changed)
  BY DEF AccountsInv
<1>3. /\ script \in Scripts /\ script.users \in Drafts /\ script.stores \in Links
      /\ script.told \in Seq(Passwords) /\ script.generate \in BOOLEAN
      /\ script.id \in Ids \cup {Nobody} /\ script.at \in Nat \ {0}
  BY <1>2 DEF ScriptOK, Scripts
<1>4. Unique(users)
  BY <1>1, <1>2, <1>3, CommittedUnique DEF ScriptOK
<1>5. Draft = Merge(users, script.users)
  BY DEF Draft, Merge
<1> QED
  BY <1>1, <1>2, <1>3, <1>4, <1>5 DEF ScriptOK

LEMMA BeginKeeps ==
    ASSUME AccountsInv, NEW g \in BOOLEAN, Begin(g), UNCHANGED <<users, assigned, callVars, changed>>
    PROVE  AccountsInv'
<1>1. ScriptOK(users, script', changed')
  <2>1. script' = [step |-> "look", generate |-> g, at |-> 1, id |-> Nobody,
                   users |-> NoWrites, stores |-> NoWrites, told |-> <<>>]
    BY DEF Begin, Idle
  <2> QED
    BY <2>1, ScriptFacts, IdleOK
<1>2. script.step # "end" /\ changed' \subseteq Ids \cup {Nobody} /\ printed' = printed
  BY ScriptFacts DEF Begin
<1> QED
  BY <1>1, <1>2, ScriptKeeps

LEMMA RollbackKeeps ==
    ASSUME AccountsInv, Rollback, UNCHANGED <<users, assigned, callVars>>
    PROVE  AccountsInv'
<1>1. ScriptOK(users, script', changed')
  <2>1. script' = [step |-> "end", generate |-> FALSE, at |-> 1, id |-> Nobody,
                   users |-> NoWrites, stores |-> NoWrites, told |-> <<>>]
    BY DEF Rollback, Idle
  <2> QED
    BY <2>1, ScriptFacts, IdleOK
<1>2. script.step # "end" /\ changed' \subseteq Ids \cup {Nobody} /\ printed' = printed
  BY ScriptFacts DEF Rollback
<1> QED
  BY <1>1, <1>2, ScriptKeeps

\* Who is in the draft has not been deleted.
LEMMA DraftAlive ==
    ASSUME AccountsInv, NEW u \in Ids, Exists(Merge(users, script.users), u)
    PROVE  /\ users[u] # Gone
           /\ Merge(users, script.users)[u] \in Users
           /\ u \in DOMAIN script.users \/ Exists(users, u)
           /\ \/ users[u] = Absent /\ Lower[Merge(users, script.users)[u].email] = Merge(users, script.users)[u].email
              \/ Exists(users, u) /\ users[u].email = Merge(users, script.users)[u].email
<1>1. users \in [Ids -> UserRows] /\ script.users \in Drafts /\ DraftsOK(users, script.users)
  BY ScriptFacts
<1>2. CASE u \in DOMAIN script.users
  <2>1. Merge(users, script.users)[u] = script.users[u] /\ script.users[u] \in Users
    BY <1>1, <1>2, MergeTyped DEF Merge
  <2> QED
    BY <1>1, <1>2, <2>1, RowKinds DEF DraftsOK
<1>3. CASE u \notin DOMAIN script.users
  <2>1. Merge(users, script.users)[u] = users[u] /\ Exists(users, u)
    BY <1>3 DEF Merge, Exists
  <2> QED
    BY <1>1, <1>3, <2>1, RowKinds
<1> QED
  BY <1>2, <1>3

LEMMA LookUpKeeps ==
    ASSUME AccountsInv, LookUpManager, UNCHANGED <<users, assigned, callVars>>
    PROVE  AccountsInv'
<1>1. PICK e : e = SheetRow.email
  OBVIOUS
<1>2. PICK D : D = script.users
  OBVIOUS
<1>3. script.at \in 1 .. Len(Sheet) /\ Lower[e] = e /\ e = Sheet[script.at].email /\ Nobody \notin Ids
  <2>1. script.at \in 1 .. Len(Sheet)
    BY ScriptFacts, LowerCase DEF LookUpManager
  <2> QED
    BY <1>1, <2>1, LowerCase DEF SheetRow
<1>4. PICK u \in IF WithEmail(Draft, e) = {} THEN {Nobody} ELSE WithEmail(Draft, e) :
        script' = [script EXCEPT !.step = "upsert", !.id = u] /\ changed' = changed \ {u}
  BY <1>1 DEF LookUpManager
<1>5. u \in Ids \cup {Nobody} /\ (u # Nobody => Exists(Merge(users, D), u))
  BY <1>2, <1>4, ScriptFacts DEF WithEmail
<1>6. u = Nobody => Vacant(users, D, e)
  <2>1. ASSUME u = Nobody, NEW v \in Ids, Exists(Merge(users, D), v), Lower[Merge(users, D)[v].email] = e
        PROVE  FALSE
    <3>1. v \in WithEmail(Draft, e)
      BY <1>2, <1>3, <2>1, ScriptFacts DEF WithEmail
    <3> QED
      BY <1>3, <1>4, <2>1, <3>1 DEF WithEmail
  <2> QED
    BY <2>1 DEF Vacant
<1>7. /\ script' \in Scripts /\ script'.step = "upsert" /\ script'.id = u /\ script'.at = script.at
      /\ script'.users = D /\ script'.stores = script.stores /\ script'.told = script.told
      /\ script'.generate = script.generate
  BY <1>2, <1>4, <1>5, ScriptFacts DEF Scripts
<1>8. ASSUME NEW i \in DOMAIN script.told
      PROVE  Holds(users, script', changed', i)
  <2>1. Holds(users, script, changed, i)
    BY ScriptFacts
  <2>2. u \in Ids => users[u] # Gone
    BY <1>2, <1>3, <1>5, DraftAlive
  <2>3. script.told[i].id \in Ids
    <3>1. PICK told \in Seq(Passwords) : told = script.told
      BY ScriptFacts
    <3>2. told[i] \in Passwords
      BY <1>8, <3>1
    <3> QED
      BY <3>1, <3>2 DEF Passwords
  <2> QED
    BY <1>2, <1>4, <1>7, <2>1, <2>2, <2>3 DEF Holds
<1>9. ScriptOK(users, script', changed')
  BY <1>2, <1>3, <1>5, <1>6, <1>7, <1>8, ScriptFacts DEF ScriptOK
<1>10. script.step # "end" /\ changed' \subseteq Ids \cup {Nobody} /\ printed' = printed
  BY <1>4, ScriptFacts DEF LookUpManager
<1> QED
  BY <1>9, <1>10, ScriptKeeps

LEMMA ToldOne ==
    ASSUME NEW told \in Seq(Passwords), NEW id, NEW pw, NEW more, more = Append(told, [id |-> id, pw |-> pw]),
           id \in Ids, pw \in [by : {"script"}, n : Nat]
    PROVE  /\ more \in Seq(Passwords) /\ DOMAIN more = 1 .. Len(told) + 1
           /\ DOMAIN told = 1 .. Len(told) /\ Len(told) \in Nat
           /\ more[Len(told) + 1].id = id /\ more[Len(told) + 1].pw = pw
           /\ \A i \in DOMAIN told : more[i] = told[i] /\ i < Len(told) + 1
<1>1. PICK p \in Passwords : p = [id |-> id, pw |-> pw]
  BY DEF Passwords
<1>2. more = Append(told, p)
  BY <1>1
<1>3. more \in Seq(Passwords) /\ Len(more) = Len(told) + 1 /\ Len(told) \in Nat
  BY <1>2
<1>4. /\ more[Len(told) + 1] = p
      /\ \A i \in DOMAIN told : more[i] = told[i] /\ i < Len(told) + 1
  BY <1>2
<1> QED
  BY <1>1, <1>3, <1>4

\* The script writes a row and may tell its owner a password.
LEMMA WroteKeeps ==
    ASSUME AccountsInv, UNCHANGED <<users, assigned, callVars, printed>>, script.step = "upsert",
           NEW u \in Ids, NEW row \in Users, Wrote(u, row),
           row.role = "manager", row.active, script.generate => row.pw = Pw("script", script.at),
           \/ users[u] = Absent /\ Lower[row.email] = row.email
           \/ Exists(users, u) /\ users[u].email = row.email,
           \A v \in Ids \ {u} : Exists(Merge(users, script.users), v)
                => Lower[Merge(users, script.users)[v].email] # Lower[row.email],
           changed' = changed \/ changed' = changed \ {u}
    PROVE  AccountsInv'
<1> DEFINE D == script.users
           E == [v \in DOMAIN D \cup {u} |-> IF v = u THEN row ELSE D[v]]
           p == Pw("script", script.at)
<1>1. /\ users \in [Ids -> UserRows] /\ D \in Drafts /\ DraftsOK(users, D) /\ Unique(Merge(users, D))
      /\ script \in Scripts /\ script.at \in 1 .. Len(Sheet) /\ script.told \in Seq(Passwords)
      /\ changed' \subseteq Ids \cup {Nobody}
  BY ScriptFacts
<1>2. E \in Drafts /\ DOMAIN E = DOMAIN D \cup {u} /\ E[u] = row /\ \A v \in DOMAIN D \ {u} : E[v] = D[v]
  <2>1. DOMAIN D \subseteq Ids /\ \A v \in DOMAIN D : D[v] \in Users
    BY <1>1, MergeTyped
  <2>2. E \in [DOMAIN D \cup {u} -> Users]
    BY <2>1
  <2> QED
    BY <2>1, <2>2 DEF Drafts
<1>3. /\ script'.step = "assign" /\ script'.id = u /\ script'.users = E /\ script'.told = Told(u)
      /\ script'.at = script.at /\ script'.generate = script.generate /\ script'.stores = script.stores
  BY <1>1 DEF Wrote, Scripts
<1>4. Told(u) \in Seq(Passwords) /\ (~script.generate => Told(u) = <<>>)
  <2>1. CASE script.generate
    <3>1. p \in [by : {"script"}, n : Nat]
      BY <1>1, LowerCase DEF Pw
    <3>2. Told(u) = Append(script.told, [id |-> u, pw |-> p])
      BY <2>1 DEF Told
    <3> QED
      BY <1>1, <2>1, <3>1, <3>2, ToldOne
  <2>2. CASE ~script.generate
    BY <1>1, <2>2, ScriptFacts DEF Told
  <2> QED
    BY <2>1, <2>2
<1>5. script' \in Scripts
  <2>1. script' = [script EXCEPT !.step = "assign", !.id = u, !.users = E, !.told = Told(u)]
    BY DEF Wrote
  <2>2. PICK d \in Drafts, t \in Seq(Passwords) : d = E /\ t = Told(u)
    BY <1>2, <1>4
  <2>3. script' = [script EXCEPT !.step = "assign", !.id = u, !.users = d, !.told = t]
    BY <2>1, <2>2
  <2> QED
    BY <1>1, <2>3 DEF Scripts
<1> HIDE DEF E
<1>6. DraftsOK(users, E)
  BY <1>1, <1>2 DEF DraftsOK
<1>7. Unique(Merge(users, E))
  <2>1. Merge(users, E)[u] = row /\ \A v \in Ids \ {u} : Merge(users, E)[v] = Merge(users, D)[v]
    BY <1>2 DEF Merge
  <2> QED
    BY <1>1, <2>1 DEF Unique, Exists
<1>8. ASSUME NEW i \in DOMAIN script'.told
      PROVE  Holds(users, script', changed', i)
  <2>1. script.generate
    BY <1>3, <1>4, <1>8
  <2>2. PICK q \in [by : {"script"}, n : Nat] :
            q = p /\ Told(u) = Append(script.told, [id |-> u, pw |-> q])
    <3>1. p \in [by : {"script"}, n : Nat]
      BY <1>1, LowerCase DEF Pw
    <3>2. Told(u) = Append(script.told, [id |-> u, pw |-> p])
      BY <2>1 DEF Told
    <3> QED
      BY <3>1, <3>2
  <2>0. PICK more : more = script'.told
    OBVIOUS
  <2>3. PICK told \in Seq(Passwords) : told = script.told /\ more = script'.told
    BY <1>1, <2>0
  <2>4. more = Append(told, [id |-> u, pw |-> q])
    BY <1>3, <2>2, <2>3
  <2>5. /\ more \in Seq(Passwords) /\ DOMAIN more = 1 .. Len(told) + 1
        /\ DOMAIN told = 1 .. Len(told) /\ Len(told) \in Nat
        /\ more[Len(told) + 1].id = u /\ more[Len(told) + 1].pw = q
        /\ \A k \in DOMAIN told : more[k] = told[k] /\ k < Len(told) + 1
    BY <2>2, <2>4, ToldOne
  <2>6. CASE i = Len(told) + 1
    BY <1>2, <1>3, <2>1, <2>2, <2>3, <2>5, <2>6 DEF Holds
  <2>7. CASE i \in DOMAIN told /\ more[i].id = u
    BY <2>3, <2>5, <2>7 DEF Holds
  <2>8. CASE i \in DOMAIN told /\ more[i].id # u
    <3>1. Holds(users, script, changed, i)
      BY <2>3, <2>8, ScriptFacts
    <3>2. more[i] = told[i]
      BY <2>5, <2>8
    <3>3. CASE \E j \in DOMAIN told : j > i /\ told[j].id = told[i].id
      BY <2>3, <2>5, <3>2, <3>3 DEF Holds
    <3>4. CASE \/ told[i].id \in DOMAIN D /\ D[told[i].id].pw = told[i].pw /\ D[told[i].id].active
               \/ users[told[i].id] = Gone /\ told[i].id \in changed
      BY <1>2, <1>3, <2>3, <2>8, <3>2, <3>4 DEF Holds
    <3> QED
      BY <2>3, <3>1, <3>3, <3>4 DEF Holds
  <2> QED
    BY <1>8, <2>3, <2>5, <2>6, <2>7, <2>8
<1>9. ScriptOK(users, script', changed')
  BY <1>1, <1>2, <1>3, <1>4, <1>5, <1>6, <1>7, <1>8, ScriptFacts DEF ScriptOK
<1> QED
  BY <1>1, <1>9, ScriptKeeps

LEMMA UpdateManagerKeeps ==
    ASSUME AccountsInv, UpdateManager, UNCHANGED <<users, assigned, callVars>>
    PROVE  AccountsInv'
<1>1. PICK u \in Ids : u = script.id
  BY ScriptFacts DEF UpdateManager
<1>2. PICK M \in [Ids -> UserRows] : M = Merge(users, script.users) /\ M = Draft
  BY ScriptFacts, MergeTyped
<1>3. Exists(M, u) /\ M[u] \in Users /\ Unique(M)
  BY <1>1, <1>2, ScriptFacts, DraftAlive DEF UpdateManager
<1>4. script.at \in Nat
  BY ScriptFacts
<1>5. PICK row : row = Password([M[u] EXCEPT !.role = "manager", !.active = TRUE])
  OBVIOUS
<1>6. /\ row \in Users /\ row.email = M[u].email /\ row.role = "manager" /\ row.active
      /\ script.generate => row.pw = Pw("script", script.at)
  BY <1>3, <1>4, <1>5 DEF Password, Users, Roles, Pw
<1>7. \/ users[u] = Absent /\ Lower[row.email] = row.email
      \/ Exists(users, u) /\ users[u].email = row.email
  BY <1>2, <1>3, <1>6, DraftAlive
<1>8. \A v \in Ids \ {u} : Exists(M, v) => Lower[M[v].email] # Lower[row.email]
  BY <1>3, <1>6 DEF Unique
<1>9. Wrote(u, row) /\ changed' = changed /\ printed' = printed /\ script.step = "upsert"
  BY <1>1, <1>2, <1>5 DEF UpdateManager
<1> QED
  BY <1>2, <1>6, <1>7, <1>8, <1>9, WroteKeeps

LEMMA InsertManagerKeeps ==
    ASSUME AccountsInv, InsertManager, UNCHANGED <<users, assigned, callVars>>
    PROVE  AccountsInv'
<1>1. PICK M \in [Ids -> UserRows] : M = Merge(users, script.users) /\ M = Draft
  BY ScriptFacts, MergeTyped
<1>2. PICK e : e = SheetRow.email
  OBVIOUS
<1>3. script.at \in Nat /\ e \in Emails /\ Lower[e] = e /\ e = Sheet[script.at].email
  BY <1>2, ScriptFacts, LowerCase DEF SheetRow, InsertManager
<1>4. PICK u \in Ids : /\ M[u] = Absent /\ Wrote(u, Password(NewManager(e)))
                       /\ changed' = changed \ {u}
  BY <1>1, <1>2 DEF InsertManager
<1>5. PICK row : row = Password(NewManager(e))
  OBVIOUS
<1>6. /\ row \in Users /\ row.email = e /\ row.role = "manager" /\ row.active
      /\ script.generate => row.pw = Pw("script", script.at)
  BY <1>3, <1>5 DEF Password, NewManager, Users, Roles, Pw
<1>7. users[u] = Absent
  <2>1. \A v \in DOMAIN script.users : script.users[v] \in Users
    BY ScriptFacts, MergeTyped
  <2> QED
    BY <1>1, <1>4, <2>1, RowKinds DEF Merge
<1>8. \A v \in Ids \ {u} : Exists(M, v) => Lower[M[v].email] # e
  <2>1. Vacant(users, script.users, e)
    BY <1>3 DEF InsertManager, AccountsInv, ScriptOK
  <2>2. ~Taken(e, Nobody) /\ Nobody \notin Ids
    BY <1>2, LowerCase DEF InsertManager
  <2> QED
    BY <1>1, <2>1, <2>2 DEF Vacant, Taken
<1>9. Wrote(u, row) /\ printed' = printed /\ script.step = "upsert"
  BY <1>4, <1>5 DEF InsertManager
<1> QED
  BY <1>1, <1>3, <1>4, <1>6, <1>7, <1>8, <1>9, WroteKeeps

LEMMA UpdateNobodyKeeps ==
    ASSUME AccountsInv, UpdateNobody, UNCHANGED <<users, assigned, callVars>>
    PROVE  AccountsInv'
<1> DEFINE D == script.users
<1>1. PICK u \in Ids : u = script.id
  BY ScriptFacts DEF UpdateNobody
<1>2. /\ script \in Scripts /\ script.told \in Seq(Passwords) /\ changed' = changed /\ printed' = printed
      /\ script.step = "upsert" /\ script.id # Nobody /\ script.at \in 1 .. Len(Sheet)
      /\ changed' \subseteq Ids \cup {Nobody}
  BY ScriptFacts DEF UpdateNobody
<1>3. users[u] = Gone /\ u \in changed
  <2>1. ~Exists(Merge(users, D), u)
    BY <1>1, ScriptFacts DEF UpdateNobody
  <2> QED
    BY <1>1, <1>2, <2>1 DEF AccountsInv, ScriptOK
<1>4. /\ Told(u) \in Seq(Passwords) /\ (~script.generate => Told(u) = <<>>)
      /\ \A i \in DOMAIN Told(u) :
            \/ i \in DOMAIN script.told /\ Told(u)[i] = script.told[i]
            \/ Told(u)[i].id = u
      /\ \A i \in DOMAIN script.told : i \in DOMAIN Told(u) /\ Told(u)[i] = script.told[i]
  <2>1. CASE script.generate
    <3>1. PICK q \in [by : {"script"}, n : Nat] : q = Pw("script", script.at)
      <4>1. Pw("script", script.at) \in [by : {"script"}, n : Nat]
        BY <1>2, LowerCase DEF Pw
      <4> QED
        BY <4>1
    <3>0. PICK more : more = Told(u)
      OBVIOUS
    <3>2. PICK told \in Seq(Passwords) : told = script.told /\ more = Told(u)
      BY <1>2, <3>0
    <3>3. more = Append(told, [id |-> u, pw |-> q])
      BY <2>1, <3>1, <3>2 DEF Told
    <3>4. /\ more \in Seq(Passwords) /\ DOMAIN more = 1 .. Len(told) + 1
          /\ DOMAIN told = 1 .. Len(told) /\ Len(told) \in Nat
          /\ more[Len(told) + 1].id = u
          /\ \A k \in DOMAIN told : more[k] = told[k] /\ k < Len(told) + 1
      BY <3>3, ToldOne
    <3>5. \A i \in DOMAIN more : i \in DOMAIN told \/ i = Len(told) + 1
      BY <3>4
    <3>6. \A i \in DOMAIN told : i \in DOMAIN more
      BY <3>4
    <3> QED
      BY <2>1, <3>2, <3>4, <3>5, <3>6
  <2>2. CASE ~script.generate
    BY <1>2, <2>2, ScriptFacts DEF Told
  <2> QED
    BY <2>1, <2>2
<1>5. script' = [script EXCEPT !.step = "assign", !.told = Told(u)]
  BY <1>1 DEF UpdateNobody
<1>6. /\ script'.step = "assign" /\ script'.id = u /\ script'.users = D /\ script'.told = Told(u)
      /\ script'.at = script.at /\ script'.generate = script.generate /\ script'.stores = script.stores
      /\ script' \in Scripts
  <2>1. PICK t \in Seq(Passwords) : t = Told(u)
    BY <1>4
  <2>2. script' = [script EXCEPT !.step = "assign", !.told = t]
    BY <1>5, <2>1
  <2> QED
    BY <1>1, <1>2, <2>1, <2>2 DEF Scripts
<1>7. ASSUME NEW i \in DOMAIN script'.told
      PROVE  Holds(users, script', changed', i)
  <2>1. CASE Told(u)[i].id = u
    BY <1>2, <1>3, <1>6, <2>1 DEF Holds
  <2>2. CASE i \in DOMAIN script.told /\ Told(u)[i] = script.told[i]
    <3>1. Holds(users, script, changed, i)
      BY <2>2, ScriptFacts
    <3> QED
      BY <1>2, <1>4, <1>6, <2>2, <3>1 DEF Holds
  <2> QED
    BY <1>4, <1>6, <1>7, <2>1, <2>2
<1>8. ScriptOK(users, script', changed')
  BY <1>1, <1>2, <1>3, <1>4, <1>6, <1>7, ScriptFacts DEF ScriptOK
<1> QED
  BY <1>2, <1>8, ScriptKeeps

LEMMA AssignStoreKeeps ==
    ASSUME AccountsInv, AssignStore, UNCHANGED <<users, assigned, callVars>>
    PROVE  AccountsInv'
<1> DEFINE D == script.users
<1>1. /\ script \in Scripts /\ script.at \in 1 .. Len(Sheet) /\ script.at \in Nat
      /\ script.step = "assign" /\ changed' = changed /\ printed' = printed
      /\ changed' \subseteq Ids \cup {Nobody}
  BY ScriptFacts DEF AssignStore
<1>2. PICK links \in Links :
        /\ script' = NextRow([script EXCEPT !.stores = links])
        /\ \A y \in DOMAIN links : links[y] \in DOMAIN D
  <2>1. CASE SheetRow.store = NoStore
    <3>1. [script EXCEPT !.stores = script.stores] = script
      BY <1>1 DEF Scripts
    <3>2. script' = NextRow([script EXCEPT !.stores = script.stores])
      BY <2>1, <3>1 DEF AssignStore
    <3> QED
      BY <3>2, ScriptFacts
  <2>2. CASE SheetRow.store # NoStore
    <3>1. PICK links : links = [y \in DOMAIN script.stores \cup {SheetRow.store} |->
                                    IF y = SheetRow.store THEN script.id ELSE script.stores[y]]
      OBVIOUS
    <3>2. script' = NextRow([script EXCEPT !.stores = links]) /\ Exists(Draft, script.id)
      BY <2>2, <3>1 DEF AssignStore
    <3>3. script.id \in DOMAIN D
      <4>1. script.id \in DOMAIN D \/ (script.id # Nobody /\ users[script.id] = Gone)
        BY <1>1 DEF AccountsInv, ScriptOK
      <4>2. script.id \in Ids => users[script.id] # Gone
        BY <3>2, ScriptFacts, DraftAlive
      <4> QED
        BY <4>1, <4>2, ScriptFacts
    <3>4. DOMAIN D \subseteq Ids /\ SheetRow.store \in Stores
      BY <1>1, <2>2, ScriptFacts, MergeTyped, LowerCase DEF SheetRow
    <3>5. /\ DOMAIN script.stores \subseteq Stores
          /\ \A y \in DOMAIN script.stores : script.stores[y] \in DOMAIN D
      BY ScriptFacts DEF Links
    <3>6. links \in [DOMAIN script.stores \cup {SheetRow.store} -> Ids]
      BY <3>1, <3>3, <3>4, <3>5
    <3>7. links \in Links
      BY <3>4, <3>5, <3>6 DEF Links
    <3>8. \A y \in DOMAIN links : links[y] \in DOMAIN D
      BY <3>1, <3>3, <3>5
    <3> QED
      BY <3>2, <3>7, <3>8
  <2> QED
    BY <2>1, <2>2
<1>3. /\ script'.step = "look" /\ script'.id = Nobody /\ script'.users = D /\ script'.told = script.told
      /\ script'.at = script.at + 1 /\ script'.generate = script.generate /\ script'.stores = links
      /\ script' \in Scripts
  <2>1. PICK k \in Nat \ {0} : k = script.at + 1
    BY <1>1
  <2>2. PICK s \in Scripts : s = [script EXCEPT !.stores = links]
    BY <1>1 DEF Scripts
  <2>3. /\ s.users = D /\ s.told = script.told /\ s.at = script.at
        /\ s.generate = script.generate /\ s.stores = links
    BY <1>1, <2>2 DEF Scripts
  <2>4. script' = [s EXCEPT !.step = "look", !.at = k, !.id = Nobody]
    BY <1>2, <2>1, <2>2, <2>3 DEF NextRow
  <2> QED
    BY <2>1, <2>3, <2>4 DEF Scripts
<1>4. ASSUME NEW i \in DOMAIN script'.told
      PROVE  Holds(users, script', changed', i)
  <2>1. Holds(users, script, changed, i)
    BY <1>3, <1>4, ScriptFacts
  <2> QED
    BY <1>1, <1>3, <2>1 DEF Holds
<1>5. ScriptOK(users, script', changed')
  BY <1>1, <1>2, <1>3, <1>4, ScriptFacts DEF ScriptOK
<1> QED
  BY <1>1, <1>5, ScriptKeeps

LEMMA CommitKeeps ==
    ASSUME AccountsInv, Commit, UNCHANGED callVars
    PROVE  AccountsInv'
<1> DEFINE D == script.users
           M == Merge(users, D)
<1>1. /\ pc' = pc /\ call' = call /\ held' = held /\ changed' = changed
      /\ users' = M /\ printed' = script.told
      /\ assigned' = [y \in Stores |-> IF y \in DOMAIN script.stores THEN script.stores[y] ELSE assigned[y]]
      /\ script' = [step |-> "end", generate |-> FALSE, at |-> 1, id |-> Nobody,
                    users |-> NoWrites, stores |-> NoWrites, told |-> <<>>]
  BY ScriptFacts DEF Commit, callVars, Idle
<1>2. /\ TypeOK /\ CallInv /\ users \in [Ids -> UserRows] /\ assigned \in [Stores -> Ids \cup {Nobody}]
      /\ script.told \in Seq(Passwords) /\ DraftsOK(users, D)
  BY ScriptFacts DEF AccountsInv, TypeOK
<1>3. /\ M \in [Ids -> UserRows] /\ Unique(M)
      /\ DOMAIN D \subseteq Ids /\ \A u \in DOMAIN D : D[u] \in Users
  BY ScriptFacts, MergeTyped
<1>4. ASSUME NEW u \in DOMAIN D
      PROVE  M[u] = D[u] /\ Exists(M, u) /\ Suits(M, u) /\ u \in Ids
  BY <1>2, <1>3, <1>4, RowKinds DEF DraftsOK, Merge, Suits
<1>5. \A u \in Ids \ DOMAIN D : M[u] = users[u]
  BY DEF Merge
<1>6. ScriptOK(users', script', changed')
  BY <1>1, <1>3, IdleOK
<1>7. CallInv'
  <2>1. ASSUME NEW r \in Requests, Ready(users, r)
        PROVE  Ready(M, r)
    <3>1. ASSUME NEW x, NEW e, Cleared(users, x, e)
          PROVE  Cleared(M, x, e)
      <4>1. ASSUME NEW u \in Ids \ {x}, Exists(M, u), Lower[M[u].email] = e
            PROVE  M[u].email = e
        <5>1. CASE u \in DOMAIN D
          BY <1>2, <1>4, <3>1, <4>1, <5>1 DEF DraftsOK, Cleared
        <5>2. CASE u \notin DOMAIN D
          BY <1>5, <3>1, <4>1, <5>2 DEF Cleared, Exists
        <5> QED
          BY <5>1, <5>2
      <4> QED
        BY <4>1 DEF Cleared
    <3>2. ASSUME NEW u \in Ids, users[u] = Gone \/ Suits(users, u)
          PROVE  M[u] = Gone \/ Suits(M, u)
      BY <1>4, <1>5, <3>2 DEF Suits, Exists
    <3>3. r.id \in Ids \cup {Nobody}
      BY LowerCase
    <3> HIDE DEF M
    <3> QED
      BY <2>1, <3>1, <3>2, <3>3 DEF Ready
  <2> QED
    BY <1>1, <1>2, <2>1 DEF CallInv
<1>8. /\ assigned' \in [Stores -> Ids \cup {Nobody}]
      /\ StoresHaveManagers'
  <2>1. ASSUME NEW y \in Stores
        PROVE  /\ assigned'[y] \in Ids \cup {Nobody}
               /\ assigned'[y] # Nobody => Suits(M, assigned'[y])
    <3>1. CASE y \in DOMAIN script.stores
      BY <1>1, <1>4, <3>1, ScriptFacts
    <3>2. CASE y \notin DOMAIN script.stores
      <4>1. assigned'[y] = assigned[y]
        BY <1>1, <3>2
      <4>2. PICK v \in Ids \cup {Nobody} : v = assigned[y]
        BY <1>2
      <4>3. v # Nobody => Suits(users, v)
        BY <4>2, StoresSuit DEF AccountsInv
      <4>4. v # Nobody => Suits(M, v)
        BY <1>4, <1>5, <4>3 DEF Suits, Exists
      <4> QED
        BY <4>1, <4>2, <4>4
    <3> QED
      BY <3>1, <3>2
  <2>2. assigned' \in [Stores -> Ids \cup {Nobody}]
    BY <1>1, <2>1
  <2>3. StoresHaveManagers'
    BY <1>1, <2>1 DEF StoresHaveManagers, Suits
  <2> QED
    BY <2>2, <2>3
<1>9. TypeOK'
  <2>1. script'.users = NoWrites /\ script'.stores = NoWrites /\ DOMAIN NoWrites = {} /\ script'.step = "end"
    BY <1>1 DEF NoWrites
  <2> HIDE DEF M
  <2> QED
    BY <1>1, <1>2, <1>3, <1>8, <2>1 DEF TypeOK, UserRows
<1>10. PrintInv'
  <2>1. ASSUME NEW i \in DOMAIN script.told
        PROVE  \/ \E j \in DOMAIN script.told : j > i /\ script.told[j].id = script.told[i].id
               \/ script.told[i].id \in changed
               \/ /\ Exists(M, script.told[i].id) /\ M[script.told[i].id].active
                  /\ M[script.told[i].id].pw = script.told[i].pw
    <3>1. Holds(users, script, changed, i)
      BY ScriptFacts
    <3> HIDE DEF M
    <3> QED
      BY <1>4, <3>1 DEF Holds
  <2>2. script'.step = "end"
    BY <1>1
  <2> HIDE DEF M
  <2> QED
    BY <1>1, <1>2, <2>1, <2>2 DEF PrintInv, PrintedPasswordsWork, CanLogIn
<1> QED
  BY <1>6, <1>7, <1>8, <1>9, <1>10 DEF AccountsInv

-----------------------------------------------------------------------------
(* The theorems.                                                           *)

LEMMA InitKeeps == Init => AccountsInv
<1> SUFFICES ASSUME Init PROVE AccountsInv
  OBVIOUS
<1>1. /\ users \in [Ids -> UserRows]
      /\ \A u, v \in Ids : Seeded[u] # Absent /\ Seeded[v] # Absent
            /\ Lower[Seeded[u].email] = Lower[Seeded[v].email] => u = v
  BY AccountsAssumption DEF Init, UserRows
<1>2. Unique(users)
  BY <1>1, RowKinds DEF Init, Unique
<1>3. script = [step |-> "idle", generate |-> FALSE, at |-> 1, id |-> Nobody,
                users |-> NoWrites, stores |-> NoWrites, told |-> <<>>]
  BY DEF Init, Idle
<1>4. ScriptOK(users, script, changed)
  BY <1>1, <1>2, <1>3, IdleOK
<1>5. TypeOK
  <2>1. /\ script.users = NoWrites /\ script.stores = NoWrites /\ DOMAIN NoWrites = {}
        /\ script.step = "idle"
    BY <1>3 DEF NoWrites
  <2>2. assigned \in [Stores -> Ids \cup {Nobody}]
    BY DEF Init
  <2>3. /\ pc \in [Calls -> {"idle", "check", "write", "promote", "unassign", "delete", "end"}]
        /\ call \in [Calls -> Requests \cup {NoCall}] /\ held \in [Calls -> SUBSET Stores]
        /\ changed = {}
    BY DEF Init
  <2> QED
    BY <1>1, <2>1, <2>2, <2>3 DEF TypeOK, UserRows
<1>6. StoresHaveManagers
  <2>1. ASSUME NEW y \in Stores, assigned[y] # Nobody
        PROVE  Suits(users, assigned[y])
    BY <2>1 DEF Init, Suits, Exists, Roles
  <2> QED
    BY <2>1, StoresSuit
<1>7. CallInv
  BY DEF Init, CallInv
<1>8. PrintInv
  BY <1>3 DEF Init, PrintInv, PrintedPasswordsWork
<1> QED
  BY <1>4, <1>5, <1>6, <1>7, <1>8 DEF AccountsInv

LEMMA StepKeeps == AccountsInv /\ [Next]_vars => AccountsInv'
<1> SUFFICES ASSUME AccountsInv, [Next]_vars PROVE AccountsInv'
  OBVIOUS
<1>1. ASSUME NEW c \in Calls, NEW r \in Requests, Receive(c, r)
      PROVE  AccountsInv'
  BY <1>1, ReceiveKeeps
<1>2. ASSUME NEW c \in Calls, Handle(c)
      PROVE  AccountsInv'
  <2>1. CASE CheckEmail(c) \/ CheckManager(c) \/ CheckBoot(c)
    BY <2>1, CheckKeeps
  <2>2. CASE create_manager(c)
    BY <2>2, CreateKeeps
  <2>3. CASE update_manager(c)
    BY <2>3, UpdateKeeps
  <2>4. CASE update_manager_password(c)
    BY <2>4, PasswordKeeps
  <2>5. CASE UnassignStores(c)
    BY <2>5, UnassignKeeps
  <2>6. CASE DeleteUser(c)
    BY <2>6, DeleteKeeps
  <2>7. CASE assign_store(c)
    BY <2>7, AssignKeeps
  <2>8. CASE PromoteAdmin(c)
    BY <2>8, PromoteKeeps DEF PromoteAdmin
  <2>9. CASE InsertAdmin(c)
    BY <2>9, InsertAdminKeeps
  <2> QED
    BY <1>2, <2>1, <2>2, <2>3, <2>4, <2>5, <2>6, <2>7, <2>8, <2>9 DEF Handle
<1>3. ASSUME NEW c \in Calls, Lost(c)
      PROVE  AccountsInv'
  BY <1>3, RefuseKeeps DEF Lost
<1>4. ASSUME NEW g \in BOOLEAN, Begin(g), UNCHANGED <<users, assigned, callVars, changed>>
      PROVE  AccountsInv'
  BY <1>4, BeginKeeps
<1>5. CASE Import /\ UNCHANGED <<users, assigned, callVars>>
  BY <1>5, LookUpKeeps, UpdateManagerKeeps, UpdateNobodyKeeps, InsertManagerKeeps, AssignStoreKeeps,
     RollbackKeeps DEF Import
<1>6. CASE Commit /\ UNCHANGED callVars
  BY <1>6, CommitKeeps
<1>7. CASE UNCHANGED vars
  <2>1. /\ users' = users /\ assigned' = assigned /\ pc' = pc /\ call' = call /\ held' = held
        /\ script' = script /\ printed' = printed /\ changed' = changed
    BY <1>7 DEF vars, callVars, scriptVars
  <2>2. TypeOK' /\ StoresHaveManagers'
    BY <2>1 DEF AccountsInv, TypeOK, StoresHaveManagers
  <2>3. CallInv' /\ PrintInv'
    BY <2>1 DEF AccountsInv, CallInv, PrintInv, PrintedPasswordsWork, CanLogIn
  <2>4. ScriptOK(users', script', changed')
    BY <2>1 DEF AccountsInv
  <2> QED
    BY <2>2, <2>3, <2>4 DEF AccountsInv
<1> QED
  BY <1>1, <1>2, <1>3, <1>4, <1>5, <1>6, <1>7 DEF Next

\* The invariant of the proof holds in every reachable state: whatever the calls and
\* the script do, interleaved, each stays within what it has found out.
THEOREM AccountsAreConsistent == Spec => []AccountsInv
BY InitKeeps, StepKeeps, PTL DEF Spec

\* The tables of users and stores, and the calls under way, keep their types.
THEOREM AccountsTypeCorrect == Spec => []TypeOK
<1>1. AccountsInv => TypeOK
  BY DEF AccountsInv
<1> QED
  BY <1>1, AccountsAreConsistent, PTL

\* However the checks of create_manager, update_manager, the bootstrap and the script
\* race with their writes, no two users have one email, case ignored.
THEOREM EmailsStayUnique == Spec => []OneAccountPerEmail
<1>1. AccountsInv => OneAccountPerEmail
  BY ScriptFacts DEF Unique, OneAccountPerEmail
<1> QED
  BY <1>1, AccountsAreConsistent, PTL

\* No interleaving of delete_manager, assign_store, the bootstrap and the script leaves
\* a store with a user who is gone, or neither a manager nor the bootstrap account.
THEOREM StoresStayManaged == Spec => []StoresHaveManagers
<1>1. AccountsInv => StoresHaveManagers
  BY DEF AccountsInv
<1> QED
  BY <1>1, AccountsAreConsistent, PTL

\* The passwords the script prints after its commit are those of the accounts, for any
\* spreadsheet, repeated rows included, unless another call has written them since.
THEOREM PrintedPasswordsLogIn == Spec => []PrintedPasswordsWork
<1>1. AccountsInv => PrintedPasswordsWork
  BY DEF AccountsInv, PrintInv
<1> QED
  BY <1>1, AccountsAreConsistent, PTL

-----------------------------------------------------------------------------
(* Accounts come and go once.                                              *)

\* A deleted user stays deleted: the script, which may have read him before and
\* commits later, does not bring him back, nor does a start of the application.  The
\* only users to go are managers, and with them their stores are free.
DeletedOnce ==
    [][\A u \in Ids :
        /\ users[u] = Gone => users'[u] = Gone
        /\ Exists(users, u) /\ ~Exists(users', u) =>
                /\ users[u].role = "manager" /\ users'[u] = Gone
                /\ \A s \in Stores : assigned'[s] # u]_vars

\* What one user goes through in a step.
Lives(old, new) ==
    \/ new = old
    \/ old \in Users \cup {Absent} /\ new \in Users
    \/ old \in Users /\ old.role = "manager" /\ new = Gone

AllLive == \A u \in Ids : Lives(users[u], users'[u])

LEMMA InsertLives ==
    ASSUME TypeOK, NEW c \in Calls, NEW row \in Users, InsertUser(c, row)
    PROVE  AllLive
BY DEF InsertUser, Write, Refuse, Lives, AllLive, TypeOK

LEMMA WriteLives ==
    ASSUME TypeOK, NEW c \in Calls, NEW v \in Ids, users[v].role = "manager",
           NEW row \in Users, Write(c, v, row)
    PROVE  AllLive
<1>1. users[v] \in Users
  BY DEF TypeOK, Absent, Gone
<1> QED
  BY <1>1 DEF Write, Lives, AllLive, TypeOK

LEMMA UsersLive ==
    ASSUME AccountsInv, [Next]_vars
    PROVE  AllLive
<1>0. TypeOK /\ users \in [Ids -> UserRows]
  BY DEF AccountsInv, TypeOK, UserRows
<1>1. CASE UNCHANGED users
  BY <1>1 DEF AllLive, Lives
<1>2. ASSUME NEW c \in Calls, create_manager(c)
      PROVE  AllLive
  <2>1. call[c] \in Requests /\ call[c].email \in {Lower[e] : e \in Emails} \cup {NoEmail}
    BY <1>2, AccountsAssumption DEF create_manager, AccountsInv, CallInv
  <2>2. CASE call[c].email = NoEmail
    BY <1>1, <1>2, <2>2 DEF create_manager, Refuse
  <2>3. CASE call[c].email # NoEmail
    <3>1. call[c].email \in Emails
      BY <2>1, <2>3, AccountsAssumption
    <3>2. NewManager(call[c].email) \in Users
      BY <3>1 DEF NewManager, Users, Roles, Pw
    <3> QED
      BY <1>0, <1>2, <2>3, <3>2, InsertLives DEF create_manager
  <2> QED
    BY <2>2, <2>3
<1>3. ASSUME NEW c \in Calls, InsertAdmin(c)
      PROVE  AllLive
  <2>1. [email |-> BootEmail, role |-> "admin", active |-> TRUE, pw |-> Pw("boot", 0)] \in Users
    BY AccountsAssumption DEF Users, Roles, Pw
  <2> QED
    BY <1>0, <1>3, <2>1, InsertLives DEF InsertAdmin
<1>4. ASSUME NEW c \in Calls, update_manager(c)
      PROVE  AllLive
  <2>1. PICK r \in Requests : r = call[c] /\ r.op = "update"
    BY <1>4 DEF update_manager, AccountsInv, CallInv
  <2>2. /\ r.id \in Ids /\ r.active \in BOOLEAN
        /\ r.email \in {Lower[e] : e \in Emails} \cup {NoEmail}
    BY <2>1, AccountsAssumption
  <2>3. CASE Refuse(c)
    BY <1>1, <2>3 DEF Refuse
  <2>4. CASE /\ users[r.id].role = "manager" /\ r.email # NoEmail
             /\ Write(c, r.id, [users[r.id] EXCEPT !.email = r.email, !.active = r.active])
    <3>1. r.email \in Emails /\ users[r.id] \in Users
      BY <1>0, <2>2, <2>4, AccountsAssumption DEF UserRows, Absent, Gone
    <3>2. [users[r.id] EXCEPT !.email = r.email, !.active = r.active] \in Users
      BY <2>2, <3>1 DEF Users
    <3> QED
      BY <1>0, <2>2, <2>4, <3>2, WriteLives
  <2> QED
    BY <1>4, <2>1, <2>3, <2>4 DEF update_manager
<1>5. ASSUME NEW c \in Calls, update_manager_password(c)
      PROVE  AllLive
  <2>1. PICK r \in Requests : r = call[c] /\ r.op = "password"
    BY <1>5 DEF update_manager_password, AccountsInv, CallInv
  <2>2. r.id \in Ids
    BY <2>1, AccountsAssumption
  <2>3. CASE Refuse(c)
    BY <1>1, <2>3 DEF Refuse
  <2>4. CASE /\ users[r.id].role = "manager"
             /\ Write(c, r.id, [users[r.id] EXCEPT !.pw = Pw("dispatcher", 0)])
    <3>1. users[r.id] \in Users
      BY <1>0, <2>2, <2>4 DEF UserRows, Absent, Gone
    <3>2. [users[r.id] EXCEPT !.pw = Pw("dispatcher", 0)] \in Users
      BY <3>1 DEF Users, Pw
    <3> QED
      BY <1>0, <2>2, <2>4, <3>2, WriteLives
  <2> QED
    BY <1>5, <2>1, <2>3, <2>4 DEF update_manager_password
<1>6. ASSUME NEW c \in Calls, DeleteUser(c)
      PROVE  AllLive
  <2>1. PICK r \in Requests : r = call[c] /\ r.op = "delete"
    BY <1>6 DEF DeleteUser, AccountsInv, CallInv
  <2>2. r.id \in Ids
    BY <2>1, AccountsAssumption
  <2>3. CASE users[r.id].role = "manager"
    <3>1. users[r.id] \in Users
      BY <1>0, <2>2, <2>3 DEF UserRows, Absent, Gone
    <3>2. users' = [users EXCEPT ![r.id] = Gone]
      BY <1>6, <2>1, <2>3 DEF DeleteUser
    <3> QED
      BY <1>0, <2>2, <2>3, <3>1, <3>2 DEF AllLive, Lives
  <2>4. CASE users[r.id].role # "manager"
    BY <1>1, <1>6, <2>1, <2>4 DEF DeleteUser
  <2> QED
    BY <2>3, <2>4
<1>7. ASSUME NEW c \in Calls, PromoteAdmin(c)
      PROVE  AllLive
  <2> SUFFICES ASSUME NEW u \in Ids
               PROVE  Lives(users[u], users'[u])
    BY DEF AllLive
  <2>1. users'[u] = IF u \in WithEmail(users, BootEmail) THEN Promoted(users[u]) ELSE users[u]
    BY <1>7 DEF PromoteAdmin
  <2>2. u \in WithEmail(users, BootEmail) => users[u] \in Users
    BY <1>0, RowKinds DEF WithEmail
  <2>3. ASSUME NEW row \in Users
        PROVE  Promoted(row) \in Users
    BY DEF Promoted, Users, Roles, Pw
  <2> QED
    BY <2>1, <2>2, <2>3 DEF Lives
<1>8. CASE Commit
  <2> SUFFICES ASSUME NEW u \in Ids
               PROVE  Lives(users[u], users'[u])
    BY DEF AllLive
  <2>1. users'[u] = IF u \in DOMAIN script.users THEN script.users[u] ELSE users[u]
    BY <1>8 DEF Commit, Draft
  <2>2. u \in DOMAIN script.users =>
            script.users[u] \in Users /\ (users[u] = Absent \/ Exists(users, u))
    BY <1>0 DEF AccountsInv, ScriptOK, DraftsOK, TypeOK
  <2> QED
    BY <1>0, <2>1, <2>2, RowKinds DEF Lives
<1>9. ASSUME NEW c \in Calls,
             \/ \E r \in Requests : Receive(c, r)
             \/ CheckEmail(c) \/ CheckManager(c) \/ CheckBoot(c) \/ UnassignStores(c)
             \/ assign_store(c) \/ Lost(c)
      PROVE  AllLive
  BY <1>1, <1>9
  DEF Receive, CheckEmail, CheckManager, CheckBoot, UnassignStores, assign_store, Lost, Refuse
<1>10. ASSUME NEW c \in Calls, (\E r \in Requests : Receive(c, r)) \/ Handle(c) \/ Lost(c)
       PROVE  AllLive
  BY <1>2, <1>3, <1>4, <1>5, <1>6, <1>7, <1>9, <1>10 DEF Handle
<1>11. CASE UNCHANGED vars
  BY <1>1, <1>11 DEF vars
<1> QED
  BY <1>1, <1>8, <1>10, <1>11 DEF Next

\* No call, no start of the application and no commit of the script brings a deleted
\* user back, and only managers, freed of their stores, are deleted.
THEOREM DeletedStaysDeleted == Spec => DeletedOnce
<1>1. ASSUME AccountsInv, AccountsInv', [Next]_vars, NEW u \in Ids
      PROVE  /\ users[u] = Gone => users'[u] = Gone
             /\ Exists(users, u) /\ ~Exists(users', u) =>
                    /\ users[u].role = "manager" /\ users'[u] = Gone
                    /\ \A s \in Stores : assigned'[s] # u
  <2>1. Lives(users[u], users'[u])
    BY <1>1, UsersLive DEF AllLive
  <2>2. users[u] \in UserRows /\ users'[u] \in UserRows
    BY <1>1 DEF AccountsInv, TypeOK, UserRows
  <2>3. \A s \in Stores : assigned'[s] # Nobody => Exists(users', assigned'[s])
    BY <1>1 DEF AccountsInv, StoresHaveManagers, Exists
  <2>4. u # Nobody
    BY AccountsAssumption
  <2> QED
    BY <2>1, <2>2, <2>3, <2>4, RowKinds DEF Lives, Exists
<1>2. AccountsInv /\ AccountsInv' /\ [Next]_vars => [\A u \in Ids :
        /\ users[u] = Gone => users'[u] = Gone
        /\ Exists(users, u) /\ ~Exists(users', u) =>
                /\ users[u].role = "manager" /\ users'[u] = Gone
                /\ \A s \in Stores : assigned'[s] # u]_vars
  BY <1>1
<1> QED
  BY <1>2, AccountsAreConsistent, PTL DEF Spec, DeletedOnce
=============================================================================
