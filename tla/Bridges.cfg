\* Three boots over two subnets, failing netlink calls and binds, restarts.
SPECIFICATION BridgeSpec
CONSTANTS
    Callers = {c1, c2, c3}
    Subnets = {0, 1}
    NetFaults = TRUE
    MaxCrashes = 2
SYMMETRY Symmetry
INVARIANTS
    ReadyOnReturn
    OneGateway
