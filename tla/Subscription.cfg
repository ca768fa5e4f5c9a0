SPECIFICATION FairSpec
CONSTANTS
    Tunnels = {t1}
    Enforcer = enforcer
    Requests = {r1}
    Limits = {0, 1}
    Cap = 2
    Nil = Nil
    MaxCount = 1
    MaxShown = 3
    MaxTime = 1
INVARIANTS TypeOK NeverOvercharged UsedCoversLinks OverIsCurrent
PROPERTIES AccountNeverShrinks DeniedIsStopped
