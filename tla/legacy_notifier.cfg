SPECIFICATION Spec
CONSTANTS
    m1 = m1
    m2 = m2
    m3 = m3
    w1 = w1
    w2 = w2
    d1 = d1
    d2 = d2
    Workers = {w1, w2}
    Messages = {m1, m2, m3}
    None = None
    Channel <- MCChannel
    Parts <- MCParts
    DevicesOf <- MCDevicesOf
    Devices = {d1, d2}
    BatchSize = 2
    Limits = {1, 2}
    MaxCredit = 3
    MaxLoad = 2
    MaxFaults = 2
INVARIANTS
    TypeOK
    SentWasDelivered
    CopiesAreRetries
PROPERTIES
    LoneWorkerKeepsPromise
    EveryMessageEnds
