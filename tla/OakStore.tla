------------------------------ MODULE OakStore ------------------------------
(***************************************************************************)
(* internal/store: oakd's SQLite database.                                 *)
(*                                                                         *)
(* Store keeps one connection open (Open: SetMaxOpenConns(1)), so each of   *)
(* its methods, transactions included, is one atomic step here.  A table   *)
(* is a partial function from its primary key to the columns the daemon    *)
(* tells apart; a SELECT is an operator, an INSERT, UPDATE or DELETE an     *)
(* action that is enabled exactly when the statement succeeds.             *)
(*                                                                         *)
(* The foreign keys are enforced, because the daemon's control flow        *)
(* depends on the errors they raise.  UNIQUE(machines.ip) and              *)
(* UNIQUE(tenant_subnets.idx) are not: IPsUnique and SubnetsInjective say  *)
(* that the allocators never hand out a value the constraint would refuse. *)
(***************************************************************************)
EXTENDS Integers

CONSTANTS
    Apps,         \* app names
    Owners,       \* values of apps.owner and tenant_subnets.owner
    NoOwner,      \* the empty owner '', which is also the admin tenant
    Configs,      \* app configurations (oak.toml), as the JSON column holds them
    Images,       \* rootfs files a release can name
    Machines,     \* machine ids
    Pids,         \* host pids; 0 stands for the NULL pid
    Keys,         \* secret names
    VolNames,     \* volume names
    IpamMaxHost,  \* ipamMaxHost, the last host address of a /24 (254)
    SubnetMax,    \* tenantSubnetMax, the last tenant subnet index (255)
    MaxRelease    \* bound on release ids

ASSUME StoreAssumption ==
    /\ NoOwner \in Owners
    /\ IpamMaxHost \in Nat
    /\ SubnetMax \in Nat
    /\ MaxRelease \in Nat
    /\ 0 \in Pids

VARIABLES
    apps,        \* app name     -> [config, owner]
    releases,    \* release id   -> [app, image]
    machines,    \* machine id   -> [app, release, ip, state, pid]
    secrets,     \* the keys of the secrets table, <<app, key>>
    volumes,     \* the keys of the volumes table, <<app, name>>
    subnets      \* tenant_subnets: owner -> idx

storeVars == <<apps, releases, machines, secrets, volumes, subnets>>

NoRows == [k \in {} |-> k]

\* The rows a table holds after INSERT OR REPLACE of one and after DELETE of some.
Put(table, key, row) ==
    [k \in DOMAIN table \cup {key} |-> IF k = key THEN row ELSE table[k]]

Drop(table, keys) == [k \in DOMAIN table \ keys |-> table[k]]

Least(S) == CHOOSE x \in S : \A y \in S : x <= y

Greatest(S) == CHOOSE x \in S : \A y \in S : y <= x

-----------------------------------------------------------------------------
(* Column types.  An address 10.200.idx.host is the pair <<idx, host>>.    *)

MachineStates == {"starting", "running", "stopped", "failed"}

Addresses == (0..SubnetMax) \X (2..IpamMaxHost)

AppRow == [config : Configs, owner : Owners]

ReleaseRow == [app : Apps, image : Images]

MachineRow == [app : Apps, release : 1..MaxRelease, ip : Addresses,
               state : MachineStates, pid : Pids]

-----------------------------------------------------------------------------
(* Apps and owners.                                                        *)

\* Mutant: INSERT OR REPLACE in place of the upsert resets the other columns.
UpsertApp_Replace(app, config) ==
    /\ apps' = Put(apps, app, [config |-> config, owner |-> NoOwner])
    /\ UNCHANGED <<releases, machines, secrets, volumes, subnets>>

UpsertApp(app, config) ==
    /\ apps' = Put(apps, app,
                   [config |-> config,
                    owner  |-> IF app \in DOMAIN apps THEN apps[app].owner
                                                      ELSE NoOwner])
    /\ UNCHANGED <<releases, machines, secrets, volumes, subnets>>

\* UPDATE ... WHERE owner = '': a no-op for an owned or an absent app.
SetAppOwner(app, owner) ==
    /\ apps' = IF app \in DOMAIN apps /\ apps[app].owner = NoOwner
               THEN [apps EXCEPT ![app].owner = owner]
               ELSE apps
    /\ UNCHANGED <<releases, machines, secrets, volumes, subnets>>

\* The foreign keys of releases and machines refuse the delete of an app they
\* still reference; deleting an absent app succeeds and changes nothing.
Referenced(app) ==
    \/ \E r \in DOMAIN releases : releases[r].app = app
    \/ \E m \in DOMAIN machines : machines[m].app = app

\* Mutant: the owner's subnet is given back with the app.
DeleteApp_FreesSubnet(app) ==
    /\ app \in DOMAIN apps /\ ~Referenced(app)
    /\ apps' = Drop(apps, {app})
    /\ subnets' = Drop(subnets, {apps[app].owner} \ {NoOwner})
    /\ UNCHANGED <<releases, machines, secrets, volumes>>

DeleteApp(app) ==
    /\ ~Referenced(app)
    /\ apps' = Drop(apps, {app})
    /\ UNCHANGED <<releases, machines, secrets, volumes, subnets>>

-----------------------------------------------------------------------------
(* Releases.  id is an INTEGER PRIMARY KEY without AUTOINCREMENT: SQLite    *)
(* assigns the largest id in the table plus one, so an id can come back     *)
(* once the rows above it are deleted.                                     *)

NextReleaseId ==
    IF DOMAIN releases = {} THEN 1 ELSE Greatest(DOMAIN releases) + 1

InsertRelease(app, image) ==
    /\ app \in DOMAIN apps
    /\ NextReleaseId <= MaxRelease
    /\ releases' = Put(releases, NextReleaseId, [app |-> app, image |-> image])
    /\ UNCHANGED <<apps, machines, secrets, volumes, subnets>>

ReleasesOf(app) == {r \in DOMAIN releases : releases[r].app = app}

LatestRelease(app) == Greatest(ReleasesOf(app))

DeleteReleasesForApp(app) ==
    /\ releases' = Drop(releases, ReleasesOf(app))
    /\ UNCHANGED <<apps, machines, secrets, volumes, subnets>>

-----------------------------------------------------------------------------
(* Tenant subnets: one /24 per owner, given out once and never taken back. *)

\* Mutant: the seeded admin row is forgotten.
FreeSubnets_FromZero ==
    (0..SubnetMax) \ {subnets[o] : o \in DOMAIN subnets \ {NoOwner}}

FreeSubnets == (1..SubnetMax) \ {subnets[o] : o \in DOMAIN subnets}

smallestFreeSubnetIdx == Least(FreeSubnets)

\* Mutant: the row is replaced without looking for the one that is there.
SubnetForOwner_Reallocates(owner) ==
    /\ FreeSubnets # {}
    /\ subnets' = Put(subnets, owner, smallestFreeSubnetIdx)
    /\ UNCHANGED <<apps, releases, machines, secrets, volumes>>

\* Enabled when the call succeeds; its result is subnets'[owner].
SubnetForOwner(owner) ==
    /\ owner \notin DOMAIN subnets => FreeSubnets # {}
    /\ subnets' = IF owner \in DOMAIN subnets
                  THEN subnets
                  ELSE Put(subnets, owner, smallestFreeSubnetIdx)
    /\ UNCHANGED <<apps, releases, machines, secrets, volumes>>

-----------------------------------------------------------------------------
(* Machines and their addresses.                                           *)

\* Mutants: the scan starts at the gateway; it looks at running machines only.
FreeHosts_Gateway(idx) ==
    {h \in 1..IpamMaxHost : \A m \in DOMAIN machines : machines[m].ip # <<idx, h>>}

FreeHosts_RunningOnly(idx) ==
    {h \in 2..IpamMaxHost :
        \A m \in DOMAIN machines :
            machines[m].state = "running" => machines[m].ip # <<idx, h>>}

FreeHosts(idx) ==
    {h \in 2..IpamMaxHost : \A m \in DOMAIN machines : machines[m].ip # <<idx, h>>}

allocIP(idx) == <<idx, Least(FreeHosts(idx))>>

\* allocIP and insertMachine in one transaction.
AllocAndInsertMachine(id, app, release, idx) ==
    /\ FreeHosts(idx) # {}
    /\ id \notin DOMAIN machines
    /\ app \in DOMAIN apps
    /\ machines' = Put(machines, id,
                       [app |-> app, release |-> release, ip |-> allocIP(idx),
                        state |-> "starting", pid |-> 0])
    /\ UNCHANGED <<apps, releases, secrets, volumes, subnets>>

\* Enabled when a row was updated: the call returns an error otherwise.
SetMachineState(id, state, pid) ==
    /\ id \in DOMAIN machines
    /\ machines' = [machines EXCEPT ![id].state = state, ![id].pid = pid]
    /\ UNCHANGED <<apps, releases, secrets, volumes, subnets>>

DeleteMachine(id) ==
    /\ machines' = Drop(machines, {id})
    /\ UNCHANGED <<apps, releases, secrets, volumes, subnets>>

MachinesForApp(app) == {m \in DOMAIN machines : machines[m].app = app}

RunningMachines == {m \in DOMAIN machines : machines[m].state = "running"}

-----------------------------------------------------------------------------
(* Secrets and volumes: neither table has a foreign key on apps.           *)

PutSecret(app, key) ==
    /\ secrets' = secrets \cup {<<app, key>>}
    /\ UNCHANGED <<apps, releases, machines, volumes, subnets>>

DeleteSecret(app, key) ==
    /\ secrets' = secrets \ {<<app, key>>}
    /\ UNCHANGED <<apps, releases, machines, volumes, subnets>>

DeleteSecretsForApp(app) ==
    /\ secrets' = {s \in secrets : s[1] # app}
    /\ UNCHANGED <<apps, releases, machines, volumes, subnets>>

CreateVolume(app, name) ==
    /\ <<app, name>> \notin volumes
    /\ volumes' = volumes \cup {<<app, name>>}
    /\ UNCHANGED <<apps, releases, machines, secrets, subnets>>

DeleteVolumesForApp(app) ==
    /\ volumes' = {v \in volumes : v[1] # app}
    /\ UNCHANGED <<apps, releases, machines, secrets, subnets>>

-----------------------------------------------------------------------------
(* The database under any sequence of calls its clients can make.          *)

\* A fresh database: schema.sql seeds the admin tenant at index 0.
StoreInit ==
    /\ apps = NoRows
    /\ releases = NoRows
    /\ machines = NoRows
    /\ secrets = {}
    /\ volumes = {}
    /\ subnets = [o \in {NoOwner} |-> 0]

AppCalls(app) ==
    \/ \E c \in Configs : UpsertApp(app, c)
    \/ \E o \in Owners : SetAppOwner(app, o)
    \/ DeleteApp(app)
    \/ \E i \in Images : InsertRelease(app, i)
    \/ DeleteReleasesForApp(app)
    \/ \E k \in Keys : PutSecret(app, k) \/ DeleteSecret(app, k)
    \/ DeleteSecretsForApp(app)
    \/ \E v \in VolNames : CreateVolume(app, v)
    \/ DeleteVolumesForApp(app)

\* The daemon passes as idx only what SubnetForOwner returned, and as release
\* an id that InsertRelease or LatestRelease returned, now or earlier.
MachineCalls(id) ==
    \/ \E a \in Apps, r \in 1..MaxRelease, o \in DOMAIN subnets :
           AllocAndInsertMachine(id, a, r, subnets[o])
    \/ \E s \in MachineStates, p \in Pids : SetMachineState(id, s, p)
    \/ DeleteMachine(id)

StoreNext ==
    \/ \E a \in Apps : AppCalls(a)
    \/ \E m \in Machines : MachineCalls(m)
    \/ \E o \in Owners : SubnetForOwner(o)

StoreSpec == StoreInit /\ [][StoreNext]_storeVars

-----------------------------------------------------------------------------
(* What the database promises its clients.                                 *)

\* Type invariant of the tables: a CHECK or NOT NULL never fails, an address
\* is a usable host (not the network, the gateway or the broadcast address)
\* of a subnet a bridge can be named after.
StoreTypeOK ==
    /\ DOMAIN apps \subseteq Apps /\ \A a \in DOMAIN apps : apps[a] \in AppRow
    /\ DOMAIN releases \subseteq 1..MaxRelease
    /\ \A r \in DOMAIN releases : releases[r] \in ReleaseRow
    /\ DOMAIN machines \subseteq Machines
    /\ \A m \in DOMAIN machines : machines[m] \in MachineRow
    /\ secrets \subseteq Apps \X Keys
    /\ volumes \subseteq Apps \X VolNames
    /\ DOMAIN subnets \subseteq Owners
    /\ \A o \in DOMAIN subnets : subnets[o] \in 0..SubnetMax

\* No two machine rows hold one address, whatever was allocated, freed and
\* reallocated in between and in whichever subnets: allocIP never offers an
\* address that is still held (store.go, allocIP and AllocAndInsertMachine).
IPsUnique ==
    \A m, n \in DOMAIN machines : machines[m].ip = machines[n].ip => m = n

\* No two tenants share a subnet, and no tenant is given the admin's index 0:
\* OwnerForSubnet can invert SubnetForOwner, which is how the DNS server
\* tells from a source address whose query it is answering.
SubnetsInjective ==
    /\ \A o, p \in DOMAIN subnets : subnets[o] = subnets[p] => o = p
    /\ NoOwner \in DOMAIN subnets /\ subnets[NoOwner] = 0

\* A machine's address lies in a subnet that some tenant owns, so a query
\* from it is attributed to a tenant rather than refused.
IPsInOwnedSubnets ==
    \A m \in DOMAIN machines : \E o \in DOMAIN subnets : subnets[o] = machines[m].ip[1]

\* A tenant keeps its subnet for good: no call moves or withdraws it, so the
\* addresses and the bridge of its machines stay valid across restarts.
SubnetsStable ==
    [][\A o \in DOMAIN subnets : o \in DOMAIN subnets' /\ subnets'[o] = subnets[o]]_storeVars

\* An app that has an owner keeps it for as long as the app exists
\* (SetAppOwner's "once set, a later call is a silent no-op"; UpsertApp on a
\* redeploy replaces the config and nothing else).
OwnerSticky ==
    [][\A a \in DOMAIN apps \cap DOMAIN apps' :
           apps[a].owner # NoOwner => apps'[a].owner = apps[a].owner]_storeVars

=============================================================================
