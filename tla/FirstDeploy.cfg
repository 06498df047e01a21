\* The first deploy of an app by a tenant.
SPECIFICATION Spec
CONSTANTS
    Apps = {a}
    Owners = {none, o1}
    NoOwner = none
    Configs <- WebOnly
    Images = {1, 2}
    Machines = {1, 2}
    Pids = {0, 1}
    Keys = {}
    VolNames = {}
    IpamMaxHost = 4
    SubnetMax = 1
    MaxRelease = 2
    Nil = Nil
    Faults = {}
    Workers = {w1}
    Ops = {"deploy"}
    MaxRequests = 2
    MaxExits = 0
    Main = Main
    MaxEpoch = 1
INVARIANTS
    TenantIsolation
CHECK_DEADLOCK FALSE
