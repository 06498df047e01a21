\* One app is destroyed; another has a volume and a name that begins the same.
SPECIFICATION Spec
CONSTANTS
    Apps <- ShopAndDb
    Owners = {none}
    NoOwner = none
    Configs <- WebOnly
    Images = {1, 2}
    Machines = {1, 2}
    Pids = {0, 1}
    Keys = {}
    VolNames <- DataVolume
    IpamMaxHost = 4
    SubnetMax = 1
    MaxRelease = 2
    Nil = Nil
    Faults = {}
    Workers = {w1}
    Ops = {"volume", "destroy"}
    MaxRequests = 2
    MaxExits = 0
    Main = Main
    MaxEpoch = 1
INVARIANTS
    VolumesPersist
CHECK_DEADLOCK FALSE
