\* A tenant's app serves; the daemon is stopped or crashes at any point of one more
\* request about it or another app, while a machine dies, is started again, and the
\* store, the cloudflared config and the rootfs files are what is left.
SPECIFICATION RestartsSpec
CONSTANTS
    Apps = {a, b}
    Owners = {none, o1}
    NoOwner = none
    Configs <- MigratingOnly
    Images = {1, 2}
    Machines = {1, 2, 3}
    Pids = {0, 1, 2}
    Keys = {}
    VolNames = {}
    IpamMaxHost = 4
    SubnetMax = 1
    MaxRelease = 2
    Nil = Nil
    Faults = {"crash", "start", "write", "restart", "cancel"}
    Workers = {w1}
    Ops = {"deploy", "scale", "destroy"}
    MaxRequests = 1
    MaxExits = 1
    Main = Main
    MaxEpoch = 2
INVARIANTS
    RunningIsWatched
    MachinesHaveReleases
PROPERTIES
    StopAllKeepsRows
    RequestsEnd
    DeadMachinesForgotten
CHECK_DEADLOCK FALSE
