CONSTANTS
    READ_BUFFER_SIZE = 1
    Numbers <- MCNumbers
    listenfd = 0
    Fds = {1, 2}
    MAX_FD = 3
    MAX_EVENT_NUMBER = 2
    Workers = {w1, w2}
    Idle = Idle
    m_max_requests = 1
    Tokens = {"LF"}
    MaxBacklog = 2
    MaxRx = 1
SPECIFICATION FairSpec
INVARIANTS TypeOK OneHolder NotForgotten NeverUndercounts
PROPERTY ClientsAttended
