SPECIFICATION FairSpec
CONSTANTS
    NoRow = NoRow
    r1 = r1
    r2 = r2
    n1 = n1
    Rows = {r1, r2}
    Refused = {}
    Notifiers = {n1}
    Enabled = {n1}
    BatchSize = 2
    MaxAttempts = 2
    SendingStuck = 1
    WatchdogDelay = 1
    MaxWindow = 2
    TimelyBatches = FALSE
    MaxOverdue = 1
    MaxFaults = 2
PROPERTIES
    ImplementsAtLeastOnce
    SendingEnds
    SettledOnceMatrixAnswers
    GuardRecovers
    GuardGatesClaims
