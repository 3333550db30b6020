CONSTANTS
    tag = tag
    pinned = pinned
    file = file
    Client = {c1, c2}
    Key = {tag, pinned}
    File = {file}
    FileOf <- TagFile
    Pull = {p1, p2}
    None = None
    Capacity = 2
    MaxLines = 1
SPECIFICATION FairSpec
INVARIANT TableExact
PROPERTY TellsOutcome
PROPERTY AbandonedStops
PROPERTY EndedIsHeard
