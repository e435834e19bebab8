SPECIFICATION Spec
CONSTANTS
    NoRow = NoRow
    r1 = r1
    r2 = r2
    n1 = n1
    n2 = n2
    n3 = n3
    Rows = {r1, r2}
    Refused = {r2}
    Notifiers = {n1, n2, n3}
    Enabled = {n1, n2}
    BatchSize = 2
    MaxAttempts = 1
    SendingStuck = 0
    WatchdogDelay = 1
    MaxWindow = 1
    TimelyBatches = FALSE
    MaxOverdue = 0
    MaxFaults = 1
SYMMETRY Symmetry
INVARIANTS
    TypeOK
    WatchdogSeesSending
    RetryBudget
    SentWasDelivered
