\* Queries from the host, the admin, a tenant and nobody, against a store that is
\* changed by any call between their reads; more owners than subnets and more
\* machines than a subnet has addresses, so that both pools run out and refill.
SPECIFICATION DnsSpec
CONSTANTS
    Apps = {a}
    Owners = {none, o1, o2}
    NoOwner = none
    Configs = {c}
    Images = {i}
    Machines = {1, 2}
    Pids = {0}
    Keys = {k}
    VolNames = {v}
    IpamMaxHost = 2
    SubnetMax = 1
    MaxRelease = 1
    Queries = {q}
    Host = Host
INVARIANTS
    StoreTypeOK
    IPsUnique
    IPsInOwnedSubnets
    SubnetsInjective
    ScopedAnswers
    SteadyNamesResolve
PROPERTIES
    SubnetsStable
    OwnerSticky
CHECK_DEADLOCK FALSE
