\* Every operation, one at a time, with every way it can fail.
SPECIFICATION Spec
CONSTANTS
    Apps <- Shop
    Owners = {none, o1}
    NoOwner = none
    Configs <- AllKinds
    Images = {1, 2, 3}
    Machines = {1, 2, 3, 4}
    Pids = {0, 1}
    Keys = {k}
    VolNames <- DataVolume
    IpamMaxHost = 4
    SubnetMax = 1
    MaxRelease = 3
    Nil = Nil
    Faults = {"build", "bridge", "start", "prepare", "command", "cancel", "health", "format",
              "remove"}
    Workers = {w1}
    Ops = {"deploy", "destroy", "secret", "unsecret", "volume"}
    MaxRequests = 3
    MaxExits = 1
    Main = Main
    MaxEpoch = 1
INVARIANTS
    GoneMeansGone
    CacheSettles
    VolumesPersist
    MachinesHaveReleases
PROPERTIES
    StoreSpec
CHECK_DEADLOCK FALSE
