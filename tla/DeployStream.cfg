\* One request of each kind, with a command or an app that forks, prints, is
\* killed or crashes, and a client behind the tunnel or on the box.  A process that
\* does not exit with 0 is killed, so its code is 128 plus a signal.
SPECIFICATION FairStreamSpec
CONSTANTS
    Procs = {c, p}
    Child = c
    PID1 = PID1
    Statuses = {0}
    Volumes = {v}
    Prints <- Plain
    MaxAttempts = 2
    MaxLines = 1
INVARIANTS
    CleanShutdown
    ReadyForChild
    RestartIsNotFailure
    OnlyLongErrorsHideFailure
PROPERTIES
    ImplementsGate
    GuestEnds
    Answered
CHECK_DEADLOCK FALSE
