\* Two deploys of a fresh app, or two restarts of one that serves, overlap in every
\* way while a machine may die at any time.
SPECIFICATION OverlapSpec
CONSTANTS
    Apps = {a}
    Owners = {none}
    NoOwner = none
    Configs <- WebOnly
    Images = {1, 2, 3}
    Machines = {1, 2, 3}
    Pids = {0, 1}
    Keys = {}
    VolNames = {}
    IpamMaxHost = 4
    SubnetMax = 1
    MaxRelease = 3
    Nil = Nil
    Faults = {"health", "start"}
    Workers = {w1, w2}
    Ops = {"deploy"}
    MaxRequests = 2
    MaxExits = 1
    Main = Main
    MaxEpoch = 1
SYMMETRY Symmetry
INVARIANTS
    TypeOK
    LiveVmKeepsAddress
    AtMostOneServing
    RoutesSettle
    RowsAreAlive
CHECK_DEADLOCK FALSE
