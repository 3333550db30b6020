CONSTANTS
    Own = {p1, p2}
    Other = {q}
    Tool = {t}
    Nobody = Nobody
SPECIFICATION DaemonSpec
INVARIANT RunningIsNamed
CHECK_DEADLOCK FALSE
