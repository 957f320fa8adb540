CONSTANTS
    READ_BUFFER_SIZE = 2
    Numbers <- MCNumbers
    listenfd = 0
    Fds = {1, 2, 3}
    MAX_FD = 4
    MAX_EVENT_NUMBER = 4
    Workers = {w1}
    Idle = Idle
    m_max_requests = 1
    Tokens = {"LF"}
    MaxBacklog = 2
    MaxRx = 1
SPECIFICATION Spec
INVARIANT NotForgotten
