SPECIFICATION Spec
CHECK_DEADLOCK FALSE
CONSTANTS
    c1 = c1
    c2 = c2
    u1 = u1
    u2 = u2
    u3 = u3
    u4 = u4
    boot = boot
    A = A
    a = a
    b = b
    s1 = s1
    Calls = {c1, c2}
    Requests <- MCRequests
    Ids = {u1, u2, u3, u4}
    Nobody = Nobody
    Emails = {boot, A, a, b}
    Lower <- MCLower
    NoEmail = NoEmail
    BootEmail = boot
    Stores = {s1}
    NoStore = NoStore
    Seeded <- MCSeeded
    Sheet <- MCSheet
INVARIANTS
    TypeOK
    OneAccountPerEmail
    StoresHaveManagers
    PrintedPasswordsWork
