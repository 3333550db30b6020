CONSTANTS
    Model = {m1, m2}
    Request = {q1, q2}
    Runner = {r1, r2}
    Reaper = Reaper
    None = None
    MaxLoaded = 1
    DefaultKeepAlive = "for"
    Asks = {"forever"}
    Preloaded = {}
    GpuThenCpu = {}
SPECIFICATION FairSpec
PROPERTY WaitersFinish
