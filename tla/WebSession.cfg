SPECIFICATION FairSpec
CONSTANTS
    MaxLogins = 2
    MaxOpens = 1
INVARIANTS TypeOK UserHasToken
PROPERTIES DeniedLeaves NoRedirectLoop
CHECK_DEADLOCK FALSE
