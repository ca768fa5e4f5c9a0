SPECIFICATION FairSpec
CONSTANTS
    Tokens = {t1, t2, t3}
    Names = {n1}
    Urls = {u1, u2}
    Calls = {p1, p2}
    NoToken = NoToken
    NoName = NoName
    NoUrl = NoUrl
    MaxTokens = 2
    TTL = 1
    MaxTime = 2
INVARIANTS TypeOK SpentOnce ReservationHeld
PROPERTY BusyEnds
