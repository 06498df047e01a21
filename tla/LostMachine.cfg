\* Two overlapping deploys of one app stop each other's machine.
SPECIFICATION Spec
CONSTANTS
    Apps = {a}
    Owners = {none}
    NoOwner = none
    Configs <- WebOnly
    Images = {1, 2}
    Machines = {1, 2}
    Pids = {0, 1}
    Keys = {}
    VolNames = {}
    IpamMaxHost = 4
    SubnetMax = 1
    MaxRelease = 2
    Nil = Nil
    Faults = {}
    Workers = {w1, w2}
    Ops = {"deploy"}
    MaxRequests = 2
    MaxExits = 0
    Main = Main
    MaxEpoch = 1
SYMMETRY Symmetry
PROPERTIES
    OkMeansServing
CHECK_DEADLOCK FALSE
