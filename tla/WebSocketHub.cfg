SPECIFICATION FairSpec
CONSTANTS
    Topics = {t1}
    Clients = {c1, c2}
    SendCap = 1
    QueueCap = 1
INVARIANTS TypeOK RegisteredIsOpen ForgottenIsTold
PROPERTIES DeadIsForgotten WorkerFollowsWatchers
CHECK_DEADLOCK FALSE
