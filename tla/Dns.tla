--------------------------------- MODULE Dns ---------------------------------
(***************************************************************************)
(* The resolver of the .internal zone: internal/dns, and resolveDNS and    *)
(* requesterCanSee of internal/daemon/bridge.go.                           *)
(*                                                                         *)
(* miekg/dns runs a handler goroutine for each query.  resolveDNS makes up *)
(* to three store calls for it, and requests change the rows in between:   *)
(* each call is a step here, interleaved with any call on the store.  A    *)
(* source address is its third octet, or Host when it is not in            *)
(* 10.200.0.0/16.                                                          *)
(***************************************************************************)
EXTENDS OakStore

CONSTANTS
    Queries,   \* handler goroutines
    Host       \* a source outside every tenant subnet

ASSUME DnsAssumption == Host \notin 0..SubnetMax

VARIABLES
    query,     \* goroutine -> [pc, app, src, type, listed, owner]
    reply,     \* goroutine -> the response code and the addresses it sent
    window     \* history: what has been true since the query arrived

dnsVars == <<query, reply, window>>

Sources == (0..SubnetMax) \cup {Host}

NoQuery == [pc |-> "idle", app |-> NoOwner, src |-> Host, type |-> "A",
            listed |-> {}, owner |-> NoOwner]

NoReply == [rcode |-> "none", answer |-> {}]

QueryAt(q, pc) == query[q].pc = pc

Respond(q, rcode, answer) ==
    /\ query' = [query EXCEPT ![q] = [NoQuery EXCEPT !.app = query[q].app, !.src = query[q].src]]
    /\ reply' = [reply EXCEPT ![q] = [rcode |-> rcode, answer |-> answer]]

-----------------------------------------------------------------------------
(* A query: one question with a name in the zone is resolved, any other is *)
(* forwarded; a message without exactly one question is refused.           *)

ServeDNS(q) ==
    /\ QueryAt(q, "idle")
    /\ \E app \in Apps, src \in Sources, type \in {"A", "AAAA"} :
          query' = [query EXCEPT ![q] = [NoQuery EXCEPT !.app = app, !.src = src,
                                                        !.type = type, !.pc = "machines"]]
    /\ reply' = [reply EXCEPT ![q] = NoReply]

ServeElsewhere(q) ==
    /\ QueryAt(q, "idle")
    /\ \E rcode \in {"FORMERR", "UPSTREAM", "SERVFAIL"} : Respond(q, rcode, {})

\* Mutant: the newest machine stands for the app.
RunningIPs_NewestOnly(app) ==
    {machines[m].ip : m \in {n \in MachinesForApp(app) :
        n = Greatest(MachinesForApp(app)) /\ machines[n].state = "running"}}

RunningIPs(app) ==
    {machines[m].ip : m \in {n \in MachinesForApp(app) : machines[n].state = "running"}}

\* Mutant: whether the name exists is decided before who asks for it.
ListForQuery_TypeFirst(q) ==
    LET ips == RunningIPs(query[q].app) IN
    /\ QueryAt(q, "machines")
    /\ IF query[q].type # "A" /\ ips # {}
       THEN Respond(q, "NOERROR", {})
       ELSE /\ query' = [query EXCEPT ![q].listed = ips,
                                      ![q].pc = IF query[q].src = Host THEN "answer" ELSE "subnet"]
            /\ UNCHANGED reply

\* MachinesForApp; a source outside the tenant subnets may see every app.
ListForQuery(q) ==
    /\ QueryAt(q, "machines")
    /\ query' = [query EXCEPT ![q].listed = RunningIPs(query[q].app),
                              ![q].pc = IF query[q].src = Host THEN "answer" ELSE "subnet"]
    /\ UNCHANGED reply

OwnersOf(idx) == {o \in DOMAIN subnets : subnets[o] = idx}

\* OwnerForSubnet: a subnet nobody has is an error, and nothing is visible.
OwnerForSubnet(q) ==
    /\ QueryAt(q, "subnet")
    /\ \/ /\ \E o \in OwnersOf(query[q].src) :
                query' = [query EXCEPT ![q].owner = o, ![q].pc = "owner"]
          /\ UNCHANGED reply
       \/ OwnersOf(query[q].src) = {} /\ Respond(q, "NXDOMAIN", {})

\* AppOwner, and the comparison that decides.
CompareOwner(q) ==
    LET app == query[q].app IN
    /\ QueryAt(q, "owner")
    /\ IF app \in DOMAIN apps /\ apps[app].owner = query[q].owner
       THEN query' = [query EXCEPT ![q].pc = "answer"] /\ UNCHANGED reply
       ELSE Respond(q, "NXDOMAIN", {})

\* No address is NXDOMAIN; a type other than A gets an empty answer.
resolveLocal(q) ==
    LET ips == query[q].listed IN
    /\ QueryAt(q, "answer")
    /\ IF ips = {} THEN Respond(q, "NXDOMAIN", {})
                   ELSE Respond(q, "NOERROR", IF query[q].type = "A" THEN ips ELSE {})

DnsStep(q) ==
    \/ ServeDNS(q) \/ ServeElsewhere(q) \/ ListForQuery(q) \/ OwnerForSubnet(q)
    \/ CompareOwner(q) \/ resolveLocal(q)

-----------------------------------------------------------------------------
(* The history of a query: whether the app has ever, and whether it has    *)
(* always, been the requester's to see and had a running machine.          *)

Visible(app, src) ==
    \/ src = Host
    \/ app \in DOMAIN apps /\ apps[app].owner \in OwnersOf(src)

Serving(app) == \E m \in RunningMachines : machines[m].app = app

Fresh == [seen |-> FALSE, served |-> FALSE, steady |-> TRUE]

Observe(q) ==
    LET old == IF QueryAt(q, "idle") THEN Fresh ELSE window[q]
        visible == Visible(query[q].app, query[q].src)'
        serving == Serving(query[q].app)' IN
    [seen |-> old.seen \/ visible, served |-> old.served \/ serving,
     steady |-> old.steady /\ visible /\ serving]

DnsInit ==
    /\ StoreInit
    /\ query = [q \in Queries |-> NoQuery]
    /\ reply = [q \in Queries |-> NoReply]
    /\ window = [q \in Queries |-> Fresh]

\* A finished query's history stays as it was when the reply was sent.
DnsNext ==
    /\ \/ StoreNext /\ UNCHANGED <<query, reply>>
       \/ \E q \in Queries : DnsStep(q) /\ UNCHANGED storeVars
    /\ window' = [q \in Queries |->
                    IF QueryAt(q, "idle") /\ query'[q].pc = "idle" THEN window[q] ELSE Observe(q)]

DnsSpec == DnsInit /\ [][DnsNext]_<<storeVars, dnsVars>>

-----------------------------------------------------------------------------
\* A tenant learns of an app only if the app was its own and was running while
\* the query was served: for any type of question an app of somebody else looks
\* like a name that does not exist (requesterCanSee, resolveLocal).
ScopedAnswers ==
    \A q \in Queries :
        reply[q].rcode = "NOERROR" => window[q].seen /\ window[q].served

\* A name the requester owned and that had a running machine all through the
\* query resolves, to some address when an A record was asked for: no cutover,
\* reallocation or redeploy makes it NXDOMAIN for a moment.
SteadyNamesResolve ==
    \A q \in Queries :
        reply[q].rcode = "NXDOMAIN" => ~window[q].steady

=============================================================================
