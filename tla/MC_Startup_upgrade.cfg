\* The boundary is 10 minutes; a ping answers within 1 to 30 seconds.  The
\* lock file may or may not be present at start.
CONSTANTS
    TimeoutBoundary = 600
    PingTimes = {1, 30}

SPECIFICATION Spec
\* Serving and having exited are final: main blocks in start, or is gone.
CHECK_DEADLOCK FALSE
PROPERTY NoDatabaseDuringUpgrade
