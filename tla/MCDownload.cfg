CONSTANTS
    pa = pa
    pb = pb
    Part = {pa, pb}
    Size <- Sizes
    Body = Body
    None = None
    Torn = Torn
    MaxRetries = 1
    MaxHarm = 2
    MaxBreaks = 1
SPECIFICATION FairSpec
INVARIANT TypeOK
INVARIANT NoHoles
INVARIANT Resumable
PROPERTY Installed
PROPERTY StartsOver
