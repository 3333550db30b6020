CONSTANTS
    Model = {m1, m2}
    Request = {q1, q2}
    Runner = {r1, r2}
    Reaper = Reaper
    None = None
    MaxLoaded = 1
    DefaultKeepAlive = "for"
    Asks = {"default"}
    Preloaded = {m1}
    GpuThenCpu = {m1}
SPECIFICATION Spec
SYMMETRY Symmetry
INVARIANT TypeOK
INVARIANT LeaseCountExact
INVARIANT LeasedNotKilled
INVARIANT IdleHasDeadline
INVARIANT OneLoad
PROPERTY NoSecondLoad
PROPERTY Implements
