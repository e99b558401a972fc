\* One function and its suspends: what becomes of a kick nobody had served yet.
CONSTANTS
    d1 = d1
    d2 = d2
    a1 = a1
    a2 = a2
    Devices = {d1}
    q1 = q1
    q2 = q2
    Queues = {q1}
    Addrs = {a1}
    None = None
    Home <- HomeOne
    Used <- UsedOne
    MayRefuse = FALSE
SPECIFICATION FairSpec
PROPERTY KickSurvivesSuspend
