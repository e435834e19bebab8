SPECIFICATION Spec
CONSTANTS
    h1 = h1
    h2 = h2
    h3 = h3
    t1 = t1
    s1 = s1
    m1 = m1
    m2 = m2
    plain = plain
    rough = rough
    Calls = {h1, h2, h3}
    Requests <- MCRequests
    Tasks = {t1}
    Stores = {s1}
    StoreOf <- MCStoreOf
    Managers = {m1, m2}
    Dispatcher = Dispatcher
    Nobody = Nobody
    Awkward = {rough}
    Texts = {plain}
    NoText = NoText
INVARIANTS
    TypeOK
    StateFollowsItsLog
    CommentsAreLogged
PROPERTIES
    OwnerIsPinned
SYMMETRY Callers
