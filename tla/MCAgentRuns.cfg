CONSTANTS
    Instances = {i1, i2}
    Calls = {1, 2}
    Asking = {1}
    Canceller = user
    Nobody = nobody
    ToolAttempts = 2
    MaxFaults = 1
    MaxCancels = 1
SPECIFICATION Spec
INVARIANTS TypeOK AnswersTrue
PROPERTY Ended
CHECK_DEADLOCK FALSE
