\* A destroy that meets a deploy of the same app, another app that is given the
\* release id, and a restart of the daemon.
SPECIFICATION Spec
CONSTANTS
    Apps = {a, b}
    Owners = {none}
    NoOwner = none
    Configs <- WebOnly
    Images = {1, 2}
    Machines = {1, 2}
    Pids = {0, 1, 2}
    Keys = {}
    VolNames = {}
    IpamMaxHost = 4
    SubnetMax = 1
    MaxRelease = 2
    Nil = Nil
    Faults = {}
    Workers = {w1, w2}
    Ops = {"deploy", "destroy"}
    MaxRequests = 3
    MaxExits = 0
    Main = Main
    MaxEpoch = 2
SYMMETRY Symmetry
INVARIANTS
    BootsOwnImage
CHECK_DEADLOCK FALSE
