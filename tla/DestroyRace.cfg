\* A destroy while a deploy of the same app is booting.
SPECIFICATION Spec
CONSTANTS
    Apps = {a}
    Owners = {none}
    NoOwner = none
    Configs <- WebOnly
    Images = {1, 2}
    Machines = {1, 2}
    Pids = {0, 1}
    Keys = {}
    VolNames = {}
    IpamMaxHost = 4
    SubnetMax = 1
    MaxRelease = 2
    Nil = Nil
    Faults = {}
    Workers = {w1, w2}
    Ops = {"deploy", "destroy"}
    MaxRequests = 2
    MaxExits = 0
    Main = Main
    MaxEpoch = 1
SYMMETRY Symmetry
INVARIANTS
    NoOrphanVm
CHECK_DEADLOCK FALSE
