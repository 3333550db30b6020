CONSTANTS
    Client = {c1, c2, c3}
    Task = {t1, t2, t3}
    None = None
    MaxQueue = 2
SPECIFICATION FairSpec
INVARIANT SlotsCounted
INVARIANT AtMostMaxQueue
INVARIANT SkippedIfLeftLoading
INVARIANT JobsExact
PROPERTY Answered
