SPECIFICATION Spec
CONSTANTS
    Posts = {r1, r2}
    Migrations = 2
    Starts = 3
CHECK_DEADLOCK FALSE
INVARIANTS TypeOK StoredBefore ServesWholeSchema
PROPERTIES CleanExitDrained SignalEnds
