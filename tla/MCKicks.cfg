\* Two functions that swap windows; KVM may refuse a registration.
CONSTANTS
    d1 = d1
    d2 = d2
    a1 = a1
    a2 = a2
    Devices = {d1, d2}
    q1 = q1
    q2 = q2
    Queues = {q1, q2}
    Addrs = {a1, a2}
    None = None
    Home <- HomeTwo
    Used <- UsedTwo
    MayRefuse = TRUE
SPECIFICATION FairSpec
INVARIANTS TypeOK KicksReachTheirDevice KickIsCarried
PROPERTY KickIsServed
