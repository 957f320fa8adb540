CONSTANTS
    Producers = {p1}
    Workers = {w1, w2}
    Requests = {r1, null}
    NULL = null
    Idle = Idle
    NoThread = NoThread
    m_max_requests = 1
    SEM_VALUE_MAX = 3
SPECIFICATION Spec
INVARIANT DestructorStopsThreads
