CONSTANTS
    Servers = {1, 2, 3}
    None = None
    repl_backlog_size = 2
    Scenarios <- MCScenarios
SPECIFICATION FairSpec
INVARIANTS ReplicaFollows OffsetsAgree BacklogIsTail SlavesHaveBacklog
PROPERTY Converges
CHECK_DEADLOCK FALSE
