------------------------------- MODULE Bridge -------------------------------
(***************************************************************************)
(* Tenant bridges and their DNS listeners: Daemon.ensureBridge             *)
(* (internal/daemon/bridge.go) over ensureBridgeLink (bridge_linux.go).    *)
(*                                                                         *)
(* Every boot of a machine calls ensureBridge for its subnet, from its own *)
(* goroutine.  Each netlink call is a step; from the lock to the return is *)
(* one step, since nothing outside bridgeMu can see inside it.  The links  *)
(* belong to the kernel and outlive the daemon; the sockets do not.        *)
(* scripts/host-setup.sh has systemd-networkd make oak0 with its gateway   *)
(* address as a /16; oakd.service does not wait for that, so networkd may  *)
(* still be at it when oakd runs.                                          *)
(***************************************************************************)
EXTENDS Naturals

CONSTANTS
    Callers,     \* goroutines that boot machines
    Subnets,     \* tenant subnet indexes
    NetFaults,   \* whether netlink, bind and serving may fail for outside reasons
    MaxCrashes   \* bound on restarts of the daemon

ASSUME BridgeAssumption == 0 \in Subnets /\ NetFaults \in BOOLEAN /\ MaxCrashes \in Nat

VARIABLES
    links,         \* the bridges that exist in the kernel
    addresses,     \* subnet -> the prefix lengths its bridge has the gateway address with
    raised,        \* the bridges that are up
    dnsListening,  \* Daemon.dnsListening
    bound,         \* the subnets whose gateway:53 a socket of oakd is bound to
    ended,         \* history: the subnets whose DNS server failed in this run of oakd
    networkd,      \* "pending", or when it configured oak0: "first", before oakd
                   \* looked for its gateway address, or "late"
    call,          \* caller -> [idx, pc, hasGateway]
    crashes

kernelVars == <<links, addresses, raised, networkd>>

dnsVars == <<dnsListening, bound, ended>>

bridgeVars == <<kernelVars, dnsVars, call, crashes>>

Resting == [idx |-> 0, pc |-> "idle", hasGateway |-> FALSE]

CallAt(c, pc) == call[c].pc = pc

CallTo(c, pc) == call' = [call EXCEPT ![c].pc = pc]

\* The address networkd gives oak0: scripts/host-setup.sh, oak0.network.
WithOak0 == [addresses EXCEPT ![0] = @ \cup {16}]

\* The host has come up, with oak0 or before networkd has made it.
BridgeInit ==
    /\ networkd \in {"first", "pending"}
    /\ links = (IF networkd = "first" THEN {0} ELSE {})
    /\ raised = links
    /\ addresses = [i \in Subnets |-> IF i \in links THEN {16} ELSE {}]
    /\ dnsListening = {} /\ bound = {} /\ ended = {}
    /\ call = [c \in Callers |-> Resting]
    /\ crashes = 0

\* networkd adopts or makes oak0 and adds its own address.
Networkd ==
    LET looked == \E c \in Callers : CallAt(c, "addradd") /\ call[c].idx = 0 IN
    /\ networkd = "pending"
    /\ networkd' = IF looked \/ addresses[0] # {} THEN "late" ELSE "first"
    /\ links' = links \cup {0} /\ raised' = raised \cup {0}
    /\ addresses' = WithOak0
    /\ UNCHANGED <<dnsVars, call, crashes>>

EnsureBridge(c) ==
    /\ call[c].pc \in {"idle", "ok", "error"}
    /\ \E i \in Subnets :
          call' = [call EXCEPT ![c] = [idx |-> i, pc |-> "linkadd", hasGateway |-> FALSE]]
    /\ UNCHANGED <<kernelVars, dnsVars, crashes>>

\* LinkAdd, for which EEXIST is success, and LinkByName.
LinkAdd(c) ==
    /\ CallAt(c, "linkadd")
    /\ links' = links \cup {call[c].idx}
    /\ CallTo(c, "addrlist")
    /\ UNCHANGED <<addresses, raised, networkd, dnsVars, crashes>>

\* Mutant: the gateway is looked for as a /24.
AddrList_Exact(c) ==
    /\ CallAt(c, "addrlist")
    /\ call' = [call EXCEPT ![c].hasGateway = 24 \in addresses[call[c].idx], ![c].pc = "addradd"]
    /\ UNCHANGED <<kernelVars, dnsVars, crashes>>

\* "A gateway IP already present under any prefix length".
AddrList(c) ==
    /\ CallAt(c, "addrlist")
    /\ call' = [call EXCEPT ![c].hasGateway = addresses[call[c].idx] # {}, ![c].pc = "addradd"]
    /\ UNCHANGED <<kernelVars, dnsVars, crashes>>

\* The kernel refuses a second copy of address and prefix, which is success.
AddrAdd(c) ==
    LET i == call[c].idx IN
    /\ CallAt(c, "addradd")
    /\ addresses' = [addresses EXCEPT ![i] = IF call[c].hasGateway THEN @ ELSE @ \cup {24}]
    /\ CallTo(c, "linkup")
    /\ UNCHANGED <<links, raised, networkd, dnsVars, crashes>>

LinkSetUp(c) ==
    /\ CallAt(c, "linkup")
    /\ raised' = raised \cup {call[c].idx}
    /\ CallTo(c, "listen")
    /\ UNCHANGED <<links, addresses, networkd, dnsVars, crashes>>

\* Any of the netlink calls may fail; what was done so far stays.
NetlinkFails(c) ==
    /\ NetFaults
    /\ call[c].pc \in {"linkadd", "addrlist", "addradd", "linkup"}
    /\ CallTo(c, "error")
    /\ UNCHANGED <<kernelVars, dnsVars, crashes>>

\* Mutant: dnsListening is set before the bind that may fail.
Listen_MarksFirst(c) ==
    LET i == call[c].idx IN
    /\ CallAt(c, "listen")
    /\ dnsListening' = dnsListening \cup {i}
    /\ IF i \in dnsListening THEN bound' = bound /\ CallTo(c, "ok")
       ELSE \/ i \notin bound /\ bound' = bound \cup {i} /\ CallTo(c, "ok")
            \/ (NetFaults \/ i \in bound) /\ bound' = bound /\ CallTo(c, "error")
    /\ UNCHANGED <<kernelVars, ended, crashes>>

\* The section under bridgeMu: the first caller of a subnet binds its gateway
\* and starts the server.
Listen(c) ==
    LET i == call[c].idx IN
    /\ CallAt(c, "listen")
    /\ \/ /\ i \in dnsListening
          /\ CallTo(c, "ok")
          /\ UNCHANGED <<dnsListening, bound>>
       \/ /\ i \notin dnsListening /\ i \notin bound
          /\ bound' = bound \cup {i}
          /\ dnsListening' = dnsListening \cup {i}
          /\ CallTo(c, "ok")
       \/ /\ i \notin dnsListening /\ (NetFaults \/ i \in bound)
          /\ CallTo(c, "error")
          /\ UNCHANGED <<dnsListening, bound>>
    /\ UNCHANGED <<kernelVars, ended, crashes>>

\* The server of a bound socket fails and closes it.  The error is logged, and
\* dnsListening still has the subnet: no later call binds it again.
ServeFails(i) ==
    /\ NetFaults
    /\ i \in bound
    /\ bound' = bound \ {i}
    /\ ended' = ended \cup {i}
    /\ UNCHANGED <<kernelVars, dnsListening, call, crashes>>

\* A restart of the daemon: the sockets and the map go, the links stay.
BridgeCrash ==
    /\ crashes < MaxCrashes
    /\ crashes' = crashes + 1
    /\ dnsListening' = {} /\ bound' = {} /\ ended' = {}
    /\ call' = [c \in Callers |-> Resting]
    /\ UNCHANGED kernelVars

BridgeStep(c) ==
    \/ EnsureBridge(c) \/ LinkAdd(c) \/ AddrList(c) \/ AddrAdd(c) \/ LinkSetUp(c)
    \/ NetlinkFails(c) \/ Listen(c)

BridgeNext ==
    \/ BridgeCrash \/ Networkd
    \/ \E i \in Subnets : ServeFails(i)
    \/ \E c \in Callers : BridgeStep(c)

BridgeSpec == BridgeInit /\ [][BridgeNext]_bridgeVars

-----------------------------------------------------------------------------
\* A machine is booted onto a bridge that is ready: when ensureBridge returns
\* without error its link is up with the gateway address and a DNS server was
\* started on it in this run, which only a failure of its own has ended since;
\* whoever else was setting the bridge up or failed to, and after restarts.
ReadyOnReturn ==
    \A c \in Callers : CallAt(c, "ok") =>
        LET i == call[c].idx IN
        /\ i \in links /\ i \in raised
        /\ addresses[i] # {}
        /\ i \in bound \cup ended

\* oakd never gives a bridge its gateway address a second time, also when two
\* callers both saw none: "which would risk two overlapping addresses"
\* (bridge_linux.go).  Only networkd may, on oak0 when it comes after oakd.
OneGateway ==
    \A i \in Subnets :
        i # 0 \/ networkd # "late" => \A p, q \in addresses[i] : p = q

=============================================================================
