SPECIFICATION Spec
CONSTANTS
    f1 = f1
    f2 = f2
    f3 = f3
    f4 = f4
    t1 = t1
    t2 = t2
    t3 = t3
    t4 = t4
    s1 = s1
    s2 = s2
    m1 = m1
    m2 = m2
    h1 = h1
    h2 = h2
    Requests = {h1, h2}
    Files = {f1}
    Unreadable = {}
    Tasks = {t1}
    RowsOf <- OneRow
    Unmapped = {}
    Oversized = {}
    Stores = {s1}
    StoreOf <- OneTask
    Managers = {m1}
    Nobody = Nobody
    Assigned <- OneManager
    Movable = {}
    NoFile = NoFile
    MaxFaults = 1
CHECK_DEADLOCK FALSE
INVARIANT
    CommitCreatesOneRecord
