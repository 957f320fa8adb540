CONSTANTS
    Producers = {p1, p2}
    Workers = {w1, w2}
    Requests = {r1, null}
    NULL = null
    Idle = Idle
    NoThread = NoThread
    m_max_requests = 1
    SEM_VALUE_MAX = 3
SPECIFICATION FairSpec
INVARIANTS TypeOK LockProtectsQueue ListCallsAreDefined NoLostWakeup
PROPERTIES ImplementsWorkQueue BacklogDrains
