SPECIFICATION AppSpec
CONSTANTS
    None = None
    Conns = {c1, c2}
    NoConn = NoConn
    Countdown = 1
    MaxVersion = 2
    Nodes = {n1, n2}
    User = User
    DetailFlows = {f1, f2}
    ListFlows = {f1}
    UpdateFlows = {f1}
    MaxRev = 1
    Insts = {i1, i2}
    Hosts = {h1, h2}
    Names = {m1, m2}
    UrlHosts = {h1}
    Files = {x1, x2}
    Addrs = {a1, a2}
    Tunnels = {t1, t2}
    New = New
    Dates = {d0, d1}
    Today = d0
    MaxFetches = 3
    MaxTunnel = 2
    PageSize = 1
    MaxLists = 1
    Rows = {r1, r2}
    MaxOps = 2
    Values = {v1}
    Bad = "bad"
    Scalar = "scalar"
    Groups = {g1, g2}
    PreviewSize = 4
    MaxZoom = 2
    Portals = {p1}
    Subs = {s1}
    Prefs = {q1, q2}
    Rests = {w1}
    MaxSaves = 2
    Settings = {k1, k2}
    MaxRuns = 2
    MaxSockets = 2
    MaxBytes = 2
    MaxPoints = 1
    MaxSources = 3
    MaxLogs = 2
    MaxAsked = 2
INVARIANTS PagesTypeOK FormsSendWhatTheyShow WhatIsBegunIsFinished
PROPERTY LateAnswersDoNoHarm
CHECK_DEADLOCK FALSE
