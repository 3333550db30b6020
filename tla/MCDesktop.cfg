CONSTANTS
    Own = {p1, p2}
    Other = {q}
    Tool = {App}
    App = App
    Nobody = Nobody
SPECIFICATION FairSpec
INVARIANT NamesNewest
INVARIANT StopIsTrue
PROPERTY CatchesUp
CHECK_DEADLOCK FALSE
