SPECIFICATION Spec
CONSTANTS
    r1 = r1  r2 = r2  None = None
    Replicas = {r1, r2}
    Jobs = {1, 3}
    Owner <- MCOwner
    Offset <- MCOffset
    Ttl = 1
    Delay = 1
    Limit = 2
    MaxTime = 2
    Unsteady = {r1}
    MaxEvents = 3
INVARIANTS TypeOK NotTwice ScheduleAlive
PROPERTY StoppedStays
CHECK_DEADLOCK FALSE
