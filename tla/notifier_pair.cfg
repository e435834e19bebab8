SPECIFICATION Spec
CONSTANTS
    NoRow = NoRow
    r1 = r1
    r2 = r2
    n1 = n1
    n2 = n2
    Rows = {r1, r2}
    Refused = {}
    Notifiers = {n1, n2}
    Enabled = {n1, n2}
    BatchSize = 2
    MaxAttempts = 1
    SendingStuck = 1
    WatchdogDelay = 1
    MaxWindow = 2
    TimelyBatches = TRUE
    MaxOverdue = 1
    MaxFaults = 2
SYMMETRY Symmetry
INVARIANTS
    OwnedOnce
    DuplicatesNeedAFault
    RequestsAccounted
PROPERTIES
    SettledIsFinal
