\* The error of a failed boot ends with the app's own log.
SPECIFICATION StreamSpec
CONSTANTS
    Procs = {c, p}
    Child = c
    PID1 = PID1
    Statuses = {0, 1}
    Volumes = {v}
    Prints <- Plain
    MaxAttempts = 2
    MaxLines = 1
INVARIANTS
    NoFalseSuccess
CHECK_DEADLOCK FALSE
