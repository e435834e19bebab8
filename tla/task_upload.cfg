SPECIFICATION Spec
CONSTANTS
    f1 = f1
    f2 = f2
    f3 = f3
    f4 = f4
    t1 = t1
    t2 = t2
    t3 = t3
    t4 = t4
    s1 = s1
    s2 = s2
    m1 = m1
    m2 = m2
    h1 = h1
    h2 = h2
    h3 = h3
    Requests = {h1, h2, h3}
    Files = {f1, f2, f3, f4}
    Unreadable = {f4}
    Tasks = {t1, t2, t3, t4}
    RowsOf <- MCRowsOf
    Unmapped = {t3}
    Oversized = {t4}
    Stores = {s1, s2}
    StoreOf <- MCStoreOf
    Managers = {m1, m2}
    Nobody = Nobody
    Assigned <- MCAssigned
    Movable = {s2}
    NoFile = NoFile
    MaxFaults = 1
INVARIANTS
    TypeOK
    StoredUploadIsComplete
    AnnouncedOnce
    DedupeKeysAreFresh
PROPERTIES
    ImplementsAtomicUpload
    CallsEnd
