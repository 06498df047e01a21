---------------------------- MODULE Bridge_proofs ----------------------------
(***************************************************************************)
(* ensureBridge for any number of concurrent boots and tenant subnets.     *)
(*                                                                         *)
(* Neither property is inductive alone.  That a returned bridge is ready   *)
(* needs what each netlink call has established by the time the next one   *)
(* is made (Established), and that dnsListening only names sockets that    *)
(* were bound in this run (Sockets).  That the gateway address is there    *)
(* once needs to know which prefix length each bridge can have, and that   *)
(* nobody missed the /16 of an oak0 that networkd made first (Prefixes).   *)
(***************************************************************************)
EXTENDS Bridge, TLAPS

CallPcs == {"idle", "linkadd", "addrlist", "addradd", "linkup", "listen", "ok", "error"}

BridgeTypeOK ==
    /\ links \subseteq Subnets /\ raised \subseteq Subnets
    /\ dnsListening \subseteq Subnets /\ bound \subseteq Subnets /\ ended \subseteq Subnets
    /\ networkd \in {"pending", "first", "late"}
    /\ addresses \in [Subnets -> SUBSET {16, 24}]
    /\ call \in [Callers -> [idx : Subnets, pc : CallPcs, hasGateway : BOOLEAN]]

\* oak0 keeps the one address networkd came first with; until networkd comes it
\* can only have a /24, like the other bridges.
Prefixes ==
    /\ \A i \in Subnets \ {0} : addresses[i] \subseteq {24}
    /\ networkd = "pending" => addresses[0] \subseteq {24}
    /\ networkd = "first" =>
          /\ addresses[0] = {16}
          /\ \A c \in Callers : CallAt(c, "addradd") /\ call[c].idx = 0 => call[c].hasGateway

\* What has been done to a caller's bridge when it is about to make a call.
Established ==
    \A c \in Callers :
        LET i == call[c].idx IN
        /\ call[c].pc \in {"addrlist", "addradd", "linkup", "listen", "ok"} => i \in links
        /\ CallAt(c, "addradd") /\ call[c].hasGateway => addresses[i] # {}
        /\ call[c].pc \in {"linkup", "listen", "ok"} => addresses[i] # {}
        /\ call[c].pc \in {"listen", "ok"} => i \in raised
        /\ CallAt(c, "ok") => i \in bound \cup ended

Sockets == dnsListening \subseteq bound \cup ended

BridgeInv == BridgeTypeOK /\ Prefixes /\ Established /\ Sockets

-----------------------------------------------------------------------------

\* The inductive invariant holds of BridgeSpec: each netlink call, the section
\* under bridgeMu, each failure and a restart of the daemon preserve it.
THEOREM BridgeInvariant == BridgeSpec => []BridgeInv
<1>1. BridgeInit => BridgeInv
  BY BridgeAssumption DEF BridgeInit, BridgeInv, BridgeTypeOK, Prefixes, Established,
     Sockets, Resting, CallAt, CallPcs
<1>2. BridgeInv /\ [BridgeNext]_bridgeVars => BridgeInv'
  <2> SUFFICES ASSUME BridgeInv, [BridgeNext]_bridgeVars PROVE BridgeInv'
    OBVIOUS
  <2> USE BridgeAssumption DEF BridgeInv, BridgeTypeOK, CallAt, CallTo, CallPcs, kernelVars, dnsVars
  <2>1. ASSUME NEW c \in Callers, EnsureBridge(c) PROVE BridgeInv'
    BY <2>1 DEF EnsureBridge, Prefixes, Established, Sockets
  <2>2. ASSUME NEW c \in Callers, LinkAdd(c) PROVE BridgeInv'
    BY <2>2 DEF LinkAdd, Prefixes, Established, Sockets
  <2>3. ASSUME NEW c \in Callers, AddrList(c) PROVE BridgeInv'
    BY <2>3 DEF AddrList, Prefixes, Established, Sockets
  <2>4. ASSUME NEW c \in Callers, AddrAdd(c) PROVE BridgeInv'
    <3>1. BridgeTypeOK' /\ Sockets'
      BY <2>4 DEF AddrAdd, Sockets
    <3>2. Prefixes'
      BY <2>4 DEF AddrAdd, Prefixes
    <3>3. Established'
      BY <2>4 DEF AddrAdd, Established
    <3> QED
      BY <3>1, <3>2, <3>3
  <2>5. ASSUME NEW c \in Callers, LinkSetUp(c) PROVE BridgeInv'
    BY <2>5 DEF LinkSetUp, Prefixes, Established, Sockets
  <2>6. ASSUME NEW c \in Callers, NetlinkFails(c) PROVE BridgeInv'
    BY <2>6 DEF NetlinkFails, Prefixes, Established, Sockets
  <2>7. ASSUME NEW c \in Callers, Listen(c) PROVE BridgeInv'
    BY <2>7 DEF Listen, Prefixes, Established, Sockets
  <2>8. CASE BridgeCrash
    BY <2>8 DEF BridgeCrash, Prefixes, Established, Sockets, Resting
  <2>10. CASE Networkd
    BY <2>10 DEF Networkd, WithOak0, Prefixes, Established, Sockets
  <2>11. ASSUME NEW i \in Subnets, ServeFails(i) PROVE BridgeInv'
    BY <2>11 DEF ServeFails, Prefixes, Established, Sockets
  <2>9. CASE UNCHANGED bridgeVars
    BY <2>9 DEF bridgeVars, Prefixes, Established, Sockets
  <2> QED
    BY <2>1, <2>2, <2>3, <2>4, <2>5, <2>6, <2>7, <2>8, <2>9, <2>10, <2>11 DEF BridgeNext, BridgeStep
<1> QED
  BY <1>1, <1>2, PTL DEF BridgeSpec

\* ensureBridge never returns a bridge that is not ready, for any number of
\* concurrent boots, failures and restarts; its DNS server can be missing only
\* because it failed after it was started.
THEOREM BridgesReady == BridgeSpec => []ReadyOnReturn
<1>1. BridgeInv => ReadyOnReturn
  BY DEF BridgeInv, Established, ReadyOnReturn, CallAt
<1> QED
  BY <1>1, BridgeInvariant, PTL

\* No bridge gets its gateway address under two prefix lengths, although
\* callers look for it and add it in two separate netlink calls; oak0 can when
\* networkd configures it after oakd has looked.
THEOREM GatewaysUnique == BridgeSpec => []OneGateway
<1>1. BridgeInv => OneGateway
  BY BridgeAssumption DEF BridgeInv, BridgeTypeOK, Prefixes, OneGateway
<1> QED
  BY <1>1, BridgeInvariant, PTL

=============================================================================
