----------------------------- MODULE Dns_proofs -----------------------------
(***************************************************************************)
(* The resolver, for any number of concurrent queries and any calls on the *)
(* store between the reads of one.                                         *)
(*                                                                         *)
(* What a query has read is stale when it is used, so the invariant ties   *)
(* its locals to the history: the addresses it has listed to a machine     *)
(* that ran while the query was served, the tenant it has found to the     *)
(* subnet, for good (SubnetsStable), and a query that is still steady to   *)
(* the present (Steady).  That the tenant found is the one the app belongs *)
(* to needs that no two tenants share a subnet.                            *)
(***************************************************************************)
EXTENDS Dns, OakStore_proofs

QueryPcs == {"idle", "machines", "subnet", "owner", "answer"}

DnsTypeOK ==
    /\ query \in [Queries -> [pc : QueryPcs, app : Apps \cup {NoOwner}, src : Sources,
                              type : {"A", "AAAA"}, listed : SUBSET Addresses, owner : Owners]]
    /\ DOMAIN reply = Queries
    /\ window \in [Queries -> [seen : BOOLEAN, served : BOOLEAN, steady : BOOLEAN]]

\* What a query has found out by the time it is at each of its reads.
Found(q) ==
    /\ query[q].pc \in {"subnet", "owner"} => query[q].src # Host
    /\ query[q].pc \in {"subnet", "owner", "answer"} /\ query[q].listed # {} => window[q].served
    /\ QueryAt(q, "owner") => query[q].owner \in OwnersOf(query[q].src)
    /\ QueryAt(q, "answer") => window[q].seen

\* As long as the name has been the requester's and served, it is so now, and the
\* query has listed an address.
Steady(q) ==
    ~QueryAt(q, "idle") /\ window[q].steady =>
        /\ Visible(query[q].app, query[q].src)
        /\ Serving(query[q].app)
        /\ query[q].pc \in {"subnet", "owner", "answer"} => query[q].listed # {}

\* What the reply of a finished query says.
Answer(q) ==
    /\ reply[q].rcode = "NOERROR" => window[q].seen /\ window[q].served
    /\ reply[q].rcode = "NXDOMAIN" => ~window[q].steady

\* A query that is being served has not been answered.
Unanswered(q) == ~QueryAt(q, "idle") => reply[q].rcode = "none"

DnsInv ==
    /\ StoreInv
    /\ DnsTypeOK
    /\ \A q \in Queries : Found(q) /\ Steady(q) /\ Answer(q) /\ Unanswered(q)

dnsAll == <<storeVars, dnsVars>>

-----------------------------------------------------------------------------

\* Answering queries never writes to the store: the system with the resolver
\* implements the store alone, and what is proved of the store holds of it.
THEOREM DnsUsesStore == DnsSpec => StoreSpec
<1>1. DnsInit => StoreInit
  BY DEF DnsInit
<1>2. [DnsNext]_dnsAll => [StoreNext]_storeVars
  BY DEF DnsNext, dnsAll
<1> QED
  BY <1>1, <1>2, PTL DEF DnsSpec, StoreSpec, dnsAll

-----------------------------------------------------------------------------
(* The invariant.                                                          *)

Kept(q) == Found(q) /\ Steady(q) /\ Answer(q) /\ Unanswered(q)

Watched(q) ==
    window'[q] = IF QueryAt(q, "idle") /\ query'[q].pc = "idle" THEN window[q] ELSE Observe(q)

Older(q) == IF QueryAt(q, "idle") THEN Fresh ELSE window[q]

\* What a step that serves q, or happens while q is served, adds to its history.
LEMMA Observed ==
    ASSUME NEW q \in Queries, Watched(q),
           ~QueryAt(q, "idle") \/ query'[q].pc # "idle"
    PROVE  /\ window'[q].seen = (Older(q).seen \/ Visible(query[q].app, query[q].src)')
           /\ window'[q].served = (Older(q).served \/ Serving(query[q].app)')
           /\ window'[q].steady = (/\ Older(q).steady
                                  /\ Visible(query[q].app, query[q].src)'
                                  /\ Serving(query[q].app)')
<1> DEFINE V == Visible(query[q].app, query[q].src)'
           S == Serving(query[q].app)'
<1>1. window'[q] = [seen |-> Older(q).seen \/ V, served |-> Older(q).served \/ S,
                    steady |-> Older(q).steady /\ V /\ S]
  BY DEF Watched, Observe, Older
<1> HIDE DEF V, S
<1>2. /\ window'[q].seen = (Older(q).seen \/ V)
      /\ window'[q].served = (Older(q).served \/ S)
      /\ window'[q].steady = (Older(q).steady /\ V /\ S)
  BY <1>1
<1> QED
  BY <1>2 DEF V, S

\* A query that takes no step itself keeps what it has found out, whatever the
\* step does to the store.
LEMMA Bystander ==
    ASSUME NEW q \in Queries, Kept(q),
           query'[q] = query[q], reply'[q] = reply[q], Watched(q),
           \A o \in DOMAIN subnets : o \in DOMAIN subnets' /\ subnets'[o] = subnets[o]
    PROVE  Kept(q)'
<1> USE DEF Kept
<1>1. CASE QueryAt(q, "idle")
  BY <1>1 DEF Found, Steady, Answer, Unanswered, QueryAt, Watched
<1>2. CASE ~QueryAt(q, "idle")
  <2>1. /\ window[q].seen => window'[q].seen
        /\ window[q].served => window'[q].served
        /\ window'[q].steady => /\ window[q].steady
                               /\ Visible(query[q].app, query[q].src)'
                               /\ Serving(query[q].app)'
    BY <1>2, Observed DEF Older
  <2>2. Found(q)'
    BY <2>1 DEF Found, QueryAt, OwnersOf
  <2>3. Steady(q)'
    BY <2>1, <1>2 DEF Steady, QueryAt
  <2>4. Answer(q)' /\ Unanswered(q)'
    BY <1>2 DEF Answer, Unanswered, QueryAt
  <2> QED
    BY <2>2, <2>3, <2>4
<1> QED
  BY <1>1, <1>2

\* A step of a query leads to what it should have found out by then.
LEMMA QuerySteps ==
    ASSUME NEW q \in Queries, DnsInv, DnsStep(q), UNCHANGED storeVars, Watched(q)
    PROVE  Kept(q)'
<1> USE DEF Kept
<1>0. /\ query \in [Queries -> [pc : QueryPcs, app : Apps \cup {NoOwner}, src : Sources,
                                type : {"A", "AAAA"}, listed : SUBSET Addresses, owner : Owners]]
      /\ DOMAIN reply = Queries
      /\ Kept(q)
  BY DEF DnsInv, DnsTypeOK
<1>1. CASE ServeDNS(q)
  <2>1. query'[q].pc = "machines" /\ reply'[q].rcode = "none"
    BY <1>0, <1>1 DEF ServeDNS, NoQuery, NoReply
  <2>2. window'[q].steady => /\ Visible(query[q].app, query[q].src)'
                             /\ Serving(query[q].app)'
    BY <2>1, Observed
  <2> QED
    BY <2>1, <2>2 DEF Found, Steady, Answer, Unanswered, QueryAt
<1>2. CASE ServeElsewhere(q)
  <2>1. query'[q].pc = "idle" /\ reply'[q].rcode \in {"FORMERR", "UPSTREAM", "SERVFAIL"}
    BY <1>0, <1>2 DEF ServeElsewhere, Respond, NoQuery
  <2> QED
    BY <2>1 DEF Found, Steady, Answer, Unanswered, QueryAt
<1>3. CASE ListForQuery(q)
  <2>1. /\ ~QueryAt(q, "idle")
        /\ query'[q].app = query[q].app /\ query'[q].src = query[q].src
        /\ query'[q].listed = RunningIPs(query[q].app)
        /\ query'[q].pc = IF query[q].src = Host THEN "answer" ELSE "subnet"
        /\ reply'[q] = reply[q]
    BY <1>0, <1>3 DEF ListForQuery, QueryAt
  <2>2. RunningIPs(query[q].app) # {} <=> Serving(query[q].app)'
    BY <2>1 DEF RunningIPs, Serving, MachinesForApp, RunningMachines, storeVars
  <2>3. query[q].src = Host => Visible(query[q].app, query[q].src)'
    BY <2>1 DEF Visible
  <2>4. Found(q)'
    BY <2>1, <2>2, <2>3, Observed DEF Found, QueryAt
  <2>5. Steady(q)'
    BY <2>1, <2>2, Observed DEF Steady
  <2> QED
    BY <2>1, <2>4, <2>5, <1>0 DEF Answer, Unanswered, QueryAt
<1>4. CASE OwnerForSubnet(q)
  <2>1. ~QueryAt(q, "idle") /\ query[q].pc = "subnet" /\ query[q].src # Host
    BY <1>0, <1>4 DEF OwnerForSubnet, QueryAt, Found
  <2>2. CASE OwnersOf(query[q].src) = {} /\ Respond(q, "NXDOMAIN", {})
    <3>1. query'[q].pc = "idle" /\ reply'[q].rcode = "NXDOMAIN"
      BY <1>0, <2>2 DEF Respond, NoQuery
    <3>2. ~window[q].steady
      BY <1>0, <2>1, <2>2 DEF Steady, Visible
    <3>3. ~window'[q].steady
      BY <2>1, <3>2, Observed DEF Older
    <3> QED
      BY <3>1, <3>3 DEF Found, Steady, Answer, Unanswered, QueryAt
  <2>3. ASSUME NEW o \in OwnersOf(query[q].src),
               query' = [query EXCEPT ![q].owner = o, ![q].pc = "owner"], UNCHANGED reply
        PROVE  Kept(q)'
    <3>1. /\ query'[q].pc = "owner" /\ query'[q].owner = o
          /\ query'[q].app = query[q].app /\ query'[q].src = query[q].src
          /\ query'[q].listed = query[q].listed
      BY <1>0, <2>3
    <3>2. /\ window[q].served => window'[q].served
          /\ window'[q].steady => /\ window[q].steady
                                 /\ Visible(query[q].app, query[q].src)'
                                 /\ Serving(query[q].app)'
      BY <2>1, Observed DEF Older
    <3>3. Found(q)'
      BY <1>0, <2>1, <3>1, <3>2 DEF Found, QueryAt, OwnersOf, storeVars
    <3>4. Steady(q)'
      BY <1>0, <2>1, <3>1, <3>2 DEF Steady, QueryAt
    <3> QED
      BY <1>0, <2>1, <2>3, <3>1, <3>3, <3>4 DEF Answer, Unanswered, QueryAt
  <2> QED
    BY <1>4, <2>2, <2>3 DEF OwnerForSubnet
<1>5. CASE CompareOwner(q)
  <2>1. /\ ~QueryAt(q, "idle") /\ query[q].pc = "owner" /\ query[q].src # Host
        /\ query[q].owner \in OwnersOf(query[q].src)
    BY <1>0, <1>5 DEF CompareOwner, QueryAt, Found
  <2>2. CASE query[q].app \in DOMAIN apps /\ apps[query[q].app].owner = query[q].owner
    <3>1. /\ query'[q].pc = "answer"
          /\ query'[q].app = query[q].app /\ query'[q].src = query[q].src
          /\ query'[q].listed = query[q].listed
          /\ reply'[q] = reply[q]
      BY <1>0, <1>5, <2>2 DEF CompareOwner
    <3>2. Visible(query[q].app, query[q].src)'
      BY <2>1, <2>2, <3>1 DEF Visible, OwnersOf, storeVars
    <3>3. /\ window'[q].seen
          /\ window[q].served => window'[q].served
          /\ window'[q].steady => /\ window[q].steady
                                 /\ Visible(query[q].app, query[q].src)'
                                 /\ Serving(query[q].app)'
      BY <2>1, <3>2, Observed DEF Older
    <3>4. Found(q)'
      BY <1>0, <2>1, <3>1, <3>3 DEF Found, QueryAt
    <3>5. Steady(q)'
      BY <1>0, <2>1, <3>1, <3>3 DEF Steady, QueryAt
    <3> QED
      BY <1>0, <2>1, <3>1, <3>4, <3>5 DEF Answer, Unanswered, QueryAt
  <2>3. CASE ~(query[q].app \in DOMAIN apps /\ apps[query[q].app].owner = query[q].owner)
    <3>1. query'[q].pc = "idle" /\ reply'[q].rcode = "NXDOMAIN"
      <4>1. Respond(q, "NXDOMAIN", {})
        BY <1>5, <2>3 DEF CompareOwner
      <4> QED
        BY <1>0, <4>1 DEF Respond, NoQuery
    <3>2. ~Visible(query[q].app, query[q].src)
      <4>1. \A o, p \in DOMAIN subnets : subnets[o] = subnets[p] => o = p
        BY DEF DnsInv, StoreInv, SubnetsInjective
      <4> QED
        BY <2>1, <2>3, <4>1 DEF Visible, OwnersOf
    <3>3. ~window[q].steady
      BY <1>0, <2>1, <3>2 DEF Steady
    <3>4. ~window'[q].steady
      BY <2>1, <3>3, Observed DEF Older
    <3> QED
      BY <3>1, <3>4 DEF Found, Steady, Answer, Unanswered, QueryAt
  <2> QED
    BY <2>2, <2>3
<1>6. CASE resolveLocal(q)
  <2>1. /\ ~QueryAt(q, "idle") /\ query[q].pc = "answer" /\ window[q].seen
        /\ query[q].listed # {} => window[q].served
        /\ query[q].listed = {} => ~window[q].steady
    <3>1. query[q].pc = "answer"
      BY <1>6 DEF resolveLocal, QueryAt
    <3>2. Found(q) /\ Steady(q)
      BY <1>0
    <3> QED
      BY <3>1, <3>2 DEF QueryAt, Found, Steady
  <2>2. /\ query'[q].pc = "idle"
        /\ reply'[q].rcode = IF query[q].listed = {} THEN "NXDOMAIN" ELSE "NOERROR"
    <3>1. CASE query[q].listed = {}
      <4>1. Respond(q, "NXDOMAIN", {})
        BY <1>6, <3>1 DEF resolveLocal
      <4> QED
        BY <1>0, <3>1, <4>1 DEF Respond, NoQuery
    <3>2. CASE query[q].listed # {}
      <4>1. PICK answer : Respond(q, "NOERROR", answer)
        BY <1>6, <3>2 DEF resolveLocal
      <4> QED
        BY <1>0, <3>2, <4>1 DEF Respond, NoQuery
    <3> QED
      BY <3>1, <3>2
  <2>3. /\ window'[q].seen
        /\ window[q].served => window'[q].served
        /\ window'[q].steady => window[q].steady
    BY <2>1, Observed DEF Older
  <2> QED
    BY <2>1, <2>2, <2>3 DEF Found, Steady, Answer, Unanswered, QueryAt
<1> QED
  BY <1>1, <1>2, <1>3, <1>4, <1>5, <1>6 DEF DnsStep

\* The locals of a query keep their types.
LEMMA DnsTypes ==
    ASSUME DnsInv, DnsNext
    PROVE  DnsTypeOK'
<1> USE DEF DnsInv, DnsTypeOK
<1> DEFINE Q == [pc : QueryPcs, app : Apps \cup {NoOwner}, src : Sources,
                 type : {"A", "AAAA"}, listed : SUBSET Addresses, owner : Owners]
           Typed == query' \in [Queries -> Q] /\ DOMAIN reply' = Queries
<1>1. ASSUME NEW q \in Queries, DnsStep(q), UNCHANGED storeVars PROVE Typed
  <2>1. NoOwner \in Owners /\ Host \in Sources
    BY StoreAssumption DEF StoreAssumption, Sources
  <2>2. RunningIPs(query[q].app) \in SUBSET Addresses
    BY DEF StoreInv, StoreTypeOK, MachineRow, RunningIPs, MachinesForApp
  <2>3. OwnersOf(query[q].src) \in SUBSET Owners
    BY DEF StoreInv, StoreTypeOK, OwnersOf
  <2>4. ASSUME NEW r \in Q, query' = [query EXCEPT ![q] = r],
               DOMAIN reply' = DOMAIN reply
        PROVE  Typed
    BY <2>4
  <2>5. query[q] \in Q
    OBVIOUS
  <2>6. ASSUME NEW rcode, NEW answer, Respond(q, rcode, answer) PROVE Typed
    <3>1. [NoQuery EXCEPT !.app = query[q].app, !.src = query[q].src] \in Q
      BY <2>1, <2>5 DEF NoQuery, QueryPcs
    <3>2. DOMAIN reply' = DOMAIN reply
      BY <2>6 DEF Respond
    <3> HIDE DEF Q, Typed
    <3> QED
      BY <2>4, <2>6, <3>1, <3>2 DEF Respond
  <2>7. CASE ServeDNS(q)
    <3>1. PICK app \in Apps, src \in Sources, type \in {"A", "AAAA"} :
            query' = [query EXCEPT ![q] = [NoQuery EXCEPT !.app = app, !.src = src,
                                                          !.type = type, !.pc = "machines"]]
      BY <2>7 DEF ServeDNS
    <3>2. [NoQuery EXCEPT !.app = app, !.src = src, !.type = type, !.pc = "machines"] \in Q
      BY <2>1 DEF NoQuery, QueryPcs
    <3>3. DOMAIN reply' = DOMAIN reply
      BY <2>7 DEF ServeDNS
    <3> HIDE DEF Q, Typed
    <3> QED
      BY <2>4, <3>1, <3>2, <3>3
  <2>8. CASE ListForQuery(q)
    <3> DEFINE pc == IF query[q].src = Host THEN "answer" ELSE "subnet"
               r == [query[q] EXCEPT !.listed = RunningIPs(query[q].app), !.pc = pc]
    <3>1. query' = [query EXCEPT ![q] = r] /\ DOMAIN reply' = DOMAIN reply
      BY <2>8 DEF ListForQuery
    <3>2. r \in Q
      <4>1. pc \in QueryPcs
        BY DEF QueryPcs
      <4> HIDE DEF pc
      <4> QED
        BY <2>2, <2>5, <4>1
    <3> HIDE DEF Q, Typed, r
    <3> QED
      BY <2>4, <3>1, <3>2
  <2>9. ASSUME NEW o \in OwnersOf(query[q].src), UNCHANGED reply,
               query' = [query EXCEPT ![q].owner = o, ![q].pc = "owner"]
        PROVE  Typed
    <3> DEFINE r == [query[q] EXCEPT !.owner = o, !.pc = "owner"]
    <3>1. query' = [query EXCEPT ![q] = r] /\ DOMAIN reply' = DOMAIN reply
      BY <2>9
    <3>2. r \in Q
      BY <2>3, <2>5 DEF QueryPcs
    <3> HIDE DEF Q, Typed, r
    <3> QED
      BY <2>4, <3>1, <3>2
  <2>10. ASSUME query' = [query EXCEPT ![q].pc = "answer"], UNCHANGED reply PROVE Typed
    <3> DEFINE r == [query[q] EXCEPT !.pc = "answer"]
    <3>1. query' = [query EXCEPT ![q] = r] /\ DOMAIN reply' = DOMAIN reply
      BY <2>10
    <3>2. r \in Q
      BY <2>5 DEF QueryPcs
    <3> HIDE DEF Q, Typed, r
    <3> QED
      BY <2>4, <3>1, <3>2
  <2> HIDE DEF Q, Typed
  <2>11. CASE OwnerForSubnet(q)
    BY <2>6, <2>9, <2>11 DEF OwnerForSubnet
  <2>12. CASE CompareOwner(q)
    BY <2>6, <2>10, <2>12 DEF CompareOwner
  <2>13. CASE resolveLocal(q)
    BY <2>6, <2>13 DEF resolveLocal
  <2> QED
    BY <1>1, <2>6, <2>7, <2>8, <2>11, <2>12, <2>13 DEF DnsStep, ServeElsewhere
<1>2. window' \in [Queries -> [seen : BOOLEAN, served : BOOLEAN, steady : BOOLEAN]]
  <2>1. \A q \in Queries : Observe(q) \in [seen : BOOLEAN, served : BOOLEAN, steady : BOOLEAN]
    BY DEF Observe, Fresh
  <2> QED
    BY <2>1 DEF DnsNext
<1> QED
  BY <1>1, <1>2 DEF DnsNext

\* The inductive invariant of the resolver.
THEOREM DnsInvariant == DnsSpec => []DnsInv
<1>1. DnsInit => DnsTypeOK /\ \A q \in Queries : Kept(q)
  BY StoreAssumption DEF DnsInit, DnsTypeOK, Kept, Found, Steady, Answer, Unanswered,
     QueryAt, NoQuery, NoReply, Fresh, QueryPcs, Sources, StoreAssumption
<1>2. StoreInv' /\ DnsInv /\ [DnsNext]_dnsAll => DnsInv'
  <2> SUFFICES ASSUME StoreInv', DnsInv, [DnsNext]_dnsAll PROVE DnsInv'
    OBVIOUS
  <2>1. CASE UNCHANGED dnsAll
    BY <2>1 DEF dnsAll, dnsVars, storeVars, DnsInv, DnsTypeOK, Found, Steady, Answer,
       Unanswered, QueryAt, OwnersOf, Visible, Serving, RunningMachines
  <2>2. CASE DnsNext
    <3>1. \A q \in Queries : Kept(q)
      BY DEF DnsInv, Kept
    <3>2. \A q \in Queries : Watched(q)
      BY <2>2 DEF DnsNext, Watched
    <3>3. ASSUME NEW q \in Queries PROVE Kept(q)'
      <4>1. CASE StoreNext /\ UNCHANGED <<query, reply>>
        BY <3>1, <3>2, <4>1, Bystander, SubnetsOnlyGrow
      <4>2. ASSUME NEW p \in Queries, DnsStep(p), UNCHANGED storeVars PROVE Kept(q)'
        <5>1. CASE p = q
          BY <3>2, <4>2, <5>1, QuerySteps
        <5>2. CASE p # q
          <6>1. query'[q] = query[q] /\ reply'[q] = reply[q]
            BY <4>2, <5>2 DEF DnsInv, DnsTypeOK, DnsStep, ServeDNS, ServeElsewhere,
               ListForQuery, OwnerForSubnet, CompareOwner, resolveLocal, Respond
          <6> QED
            BY <3>1, <3>2, <4>2, <6>1, Bystander DEF storeVars
        <5> QED
          BY <5>1, <5>2
      <4> QED
        BY <2>2, <4>1, <4>2 DEF DnsNext
    <3> QED
      BY <2>2, <3>3, DnsTypes DEF DnsInv, Kept
  <2> QED
    BY <2>1, <2>2
<1>3. DnsSpec => []StoreInv
  BY DnsUsesStore, StoreInvariant, PTL
<1>4. StoreInv /\ DnsTypeOK /\ (\A q \in Queries : Kept(q)) => DnsInv
  BY DEF DnsInv, Kept
<1> QED
  BY <1>1, <1>2, <1>3, <1>4, PTL DEF DnsSpec, dnsAll

\* A tenant learns of no app that was not its own while it asked.
THEOREM TenantsSeeTheirOwn == DnsSpec => []ScopedAnswers
<1>1. DnsInv => ScopedAnswers
  BY DEF DnsInv, Answer, ScopedAnswers
<1> QED
  BY <1>1, DnsInvariant, PTL

\* A name that is its owner's and served throughout a query resolves.
THEOREM ServedNamesResolve == DnsSpec => []SteadyNamesResolve
<1>1. DnsInv => SteadyNamesResolve
  BY DEF DnsInv, Answer, SteadyNamesResolve
<1> QED
  BY <1>1, DnsInvariant, PTL

=============================================================================
