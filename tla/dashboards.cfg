SPECIFICATION Spec
CONSTANTS
    t1 = t1
    t2 = t2
    m1 = m1
    m2 = m2
    Tasks = {t1, t2}
    Lacking <- MCLacking
    Watched = {t1}
    Monitors = {m1, m2}
    NoTask = NoTask
    MaxFaults = 2
INVARIANTS
    TypeOK
    NotedIsAlerted
    
