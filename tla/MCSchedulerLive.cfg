CONSTANTS
    Model = {m1}
    Request = {q1, q2}
    Runner = {r1, r2}
    Reaper = Reaper
    None = None
    MaxLoaded = 1
    DefaultKeepAlive = "for"
    Asks = {"default"}
    Preloaded = {}
    GpuThenCpu = {m1}
SPECIFICATION FairSpec
PROPERTY WaitersFinish
PROPERTY DrainsEnd
PROPERTY ExpiredUnloaded
PROPERTY DeadForgotten
