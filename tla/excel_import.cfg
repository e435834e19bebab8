SPECIFICATION Spec
CONSTANTS
    c1 = c1
    c2 = c2
    c3 = c3
    f1 = f1
    f2 = f2
    f3 = f3
    f4 = f4
    t1 = t1
    t2 = t2
    big = big
    x = x
    s1 = s1
    s2 = s2
    stranger = stranger
    d1 = d1
    d2 = d2
    Calls = {c1, c2, c3}
    Door <- MCDoor
    Files = {f1, f2, f3, f4}
    NotXlsx = {f3}
    Unreadable = {f4}
    RowsOf <- MCRowsOf
    Tasks = {t1, t2, big}
    HashOf <- MCHashOf
    Oversized = {big}
    Stores = {s1, s2}
    Strangers = {stranger}
    Slas = {d1}
    Illegible = {d2}
    NoTask = NoTask
    NoStore = NoStore
    NoSla = NoSla
    NoFile = NoFile
    Mirrored = {t1}
    MaxFaults = 1
INVARIANTS
    TypeOK
    RowsAccounted
    TaskMatchesItsUpload
    CompleteUnlessInterrupted
    ImportedOnce
