--------------------------- MODULE OakStore_proofs ---------------------------
(***************************************************************************)
(* Proofs about the store, for any number of apps, owners, machines and    *)
(* addresses and for any sequence of calls.                                *)
(*                                                                         *)
(* StoreInv is the inductive invariant: each of its parts needs the type   *)
(* invariant, and IPsInOwnedSubnets and SubnetsInjective hold together     *)
(* because no call takes a subnet back.                                    *)
(***************************************************************************)
EXTENDS OakStore, Extrema

\* What the foreign keys of the schema enforce: every release and every machine
\* belongs to an app that exists.
ForeignKeys ==
    /\ \A r \in DOMAIN releases : releases[r].app \in DOMAIN apps
    /\ \A m \in DOMAIN machines : machines[m].app \in DOMAIN apps

StoreInv ==
    /\ StoreTypeOK
    /\ IPsUnique
    /\ SubnetsInjective
    /\ IPsInOwnedSubnets
    /\ ForeignKeys

-----------------------------------------------------------------------------
(* Least and greatest elements.                                            *)

\* Least returns the least member: the scans of allocIP and
\* smallestFreeSubnetIdx end at a free value.
LEMMA LeastIsMember ==
    ASSUME NEW S \in SUBSET Nat, S # {}
    PROVE  Least(S) \in S /\ \A y \in S : Least(S) <= y
<1>1. \E x \in S : \A y \in S : x <= y
  BY LeastExists
<1> QED
  BY <1>1 DEF Least

\* Greatest returns the greatest member: the id of the newest release is the id
\* of a release.
LEMMA GreatestIsMember ==
    ASSUME NEW n \in Nat, NEW S \in SUBSET (0..n), S # {}
    PROVE  Greatest(S) \in S /\ \A y \in S : y <= Greatest(S)
<1>1. \E x \in S : \A y \in S : y <= x
  BY GreatestExists
<1> QED
  BY <1>1 DEF Greatest

\* Whatever subnetForApp gets for a new tenant is free and is not the admin's.
LEMMA FreeSubnetFound ==
    ASSUME StoreAssumption, FreeSubnets # {}
    PROVE  /\ smallestFreeSubnetIdx \in 1..SubnetMax
           /\ \A o \in DOMAIN subnets : subnets[o] # smallestFreeSubnetIdx
<1>1. FreeSubnets \in SUBSET Nat
  BY DEF FreeSubnets, StoreAssumption
<1>2. smallestFreeSubnetIdx \in FreeSubnets
  BY <1>1, LeastIsMember DEF smallestFreeSubnetIdx
<1> QED
  BY <1>2 DEF FreeSubnets

\* Whatever allocIP returns is a host address of the subnet that no row holds.
LEMMA FreeAddressFound ==
    ASSUME StoreAssumption, NEW idx \in 0..SubnetMax, FreeHosts(idx) # {}
    PROVE  /\ allocIP(idx) \in Addresses
           /\ allocIP(idx)[1] = idx
           /\ \A m \in DOMAIN machines : machines[m].ip # allocIP(idx)
<1>1. FreeHosts(idx) \in SUBSET Nat
  BY DEF FreeHosts, StoreAssumption
<1>2. Least(FreeHosts(idx)) \in FreeHosts(idx)
  BY <1>1, LeastIsMember
<1> QED
  BY <1>2 DEF FreeHosts, allocIP, Addresses, StoreAssumption

-----------------------------------------------------------------------------
(* Every call preserves the invariant.                                     *)

LEMMA AppCallsPreserve ==
    ASSUME StoreAssumption, StoreInv, NEW a \in Apps, AppCalls(a)
    PROVE  StoreInv'
<1> USE DEF StoreInv
<1>1. ASSUME NEW c \in Configs, UpsertApp(a, c) PROVE StoreInv'
  <2>1. StoreTypeOK'
    BY <1>1 DEF UpsertApp, Put, StoreTypeOK, AppRow, StoreAssumption
  <2>2. ForeignKeys'
    BY <1>1 DEF UpsertApp, Put, ForeignKeys
  <2> QED
    BY <1>1, <2>1, <2>2 DEF UpsertApp, IPsUnique, SubnetsInjective, IPsInOwnedSubnets
<1>2. ASSUME NEW o \in Owners, SetAppOwner(a, o) PROVE StoreInv'
  <2>1. StoreTypeOK'
    BY <1>2 DEF SetAppOwner, StoreTypeOK, AppRow
  <2>2. ForeignKeys'
    BY <1>2 DEF SetAppOwner, ForeignKeys
  <2> QED
    BY <1>2, <2>1, <2>2 DEF SetAppOwner, IPsUnique, SubnetsInjective, IPsInOwnedSubnets
<1>3. ASSUME DeleteApp(a) PROVE StoreInv'
  <2>1. StoreTypeOK'
    BY <1>3 DEF DeleteApp, Drop, StoreTypeOK
  <2>2. ForeignKeys'
    BY <1>3 DEF DeleteApp, Drop, Referenced, ForeignKeys
  <2> QED
    BY <1>3, <2>1, <2>2 DEF DeleteApp, IPsUnique, SubnetsInjective, IPsInOwnedSubnets
<1>4. ASSUME NEW i \in Images, InsertRelease(a, i) PROVE StoreInv'
  <2>1. NextReleaseId \in 1..MaxRelease
    <3>1. CASE DOMAIN releases = {}
      BY <1>4, <3>1 DEF InsertRelease, NextReleaseId, StoreAssumption
    <3>2. CASE DOMAIN releases # {}
      <4>1. DOMAIN releases \in SUBSET (1..MaxRelease) /\ DOMAIN releases \in SUBSET (0..MaxRelease)
        BY DEF StoreTypeOK, StoreAssumption
      <4>2. Greatest(DOMAIN releases) \in 1..MaxRelease
        BY <3>2, <4>1, GreatestIsMember DEF StoreAssumption
      <4> QED BY <4>2, <3>2, <1>4 DEF InsertRelease, NextReleaseId, StoreAssumption
    <3> QED BY <3>1, <3>2
  <2>2. StoreTypeOK'
    BY <1>4, <2>1 DEF InsertRelease, Put, StoreTypeOK, ReleaseRow
  <2>3. ForeignKeys'
    BY <1>4 DEF InsertRelease, Put, ForeignKeys
  <2> QED
    BY <1>4, <2>2, <2>3 DEF InsertRelease, IPsUnique, SubnetsInjective, IPsInOwnedSubnets
<1>5. ASSUME DeleteReleasesForApp(a) PROVE StoreInv'
  <2>1. StoreTypeOK'
    BY <1>5 DEF DeleteReleasesForApp, Drop, StoreTypeOK
  <2>2. ForeignKeys'
    BY <1>5 DEF DeleteReleasesForApp, Drop, ForeignKeys
  <2> QED
    BY <1>5, <2>1, <2>2
       DEF DeleteReleasesForApp, IPsUnique, SubnetsInjective, IPsInOwnedSubnets
<1>6. ASSUME \/ \E k \in Keys : PutSecret(a, k) \/ DeleteSecret(a, k)
             \/ DeleteSecretsForApp(a)
             \/ \E v \in VolNames : CreateVolume(a, v)
             \/ DeleteVolumesForApp(a)
      PROVE  StoreInv'
  <2>1. /\ secrets' \subseteq Apps \X Keys
        /\ volumes' \subseteq Apps \X VolNames
        /\ UNCHANGED <<apps, releases, machines, subnets>>
    <3>1. CASE \E k \in Keys : PutSecret(a, k)
      BY <3>1 DEF StoreTypeOK, PutSecret
    <3>2. CASE \E k \in Keys : DeleteSecret(a, k)
      BY <3>2 DEF StoreTypeOK, DeleteSecret
    <3>3. CASE DeleteSecretsForApp(a)
      BY <3>3 DEF StoreTypeOK, DeleteSecretsForApp
    <3>4. CASE \E v \in VolNames : CreateVolume(a, v)
      BY <3>4 DEF StoreTypeOK, CreateVolume
    <3>5. CASE DeleteVolumesForApp(a)
      BY <3>5 DEF StoreTypeOK, DeleteVolumesForApp
    <3> QED BY <1>6, <3>1, <3>2, <3>3, <3>4, <3>5
  <2> QED
    BY <2>1 DEF StoreTypeOK, IPsUnique, SubnetsInjective, IPsInOwnedSubnets, ForeignKeys
<1> QED
  BY <1>1, <1>2, <1>3, <1>4, <1>5, <1>6 DEF AppCalls

LEMMA MachineCallsPreserve ==
    ASSUME StoreAssumption, StoreInv, NEW id \in Machines, MachineCalls(id)
    PROVE  StoreInv'
<1> USE DEF StoreInv
<1>1. ASSUME NEW a \in Apps, NEW r \in 1..MaxRelease, NEW o \in DOMAIN subnets,
             AllocAndInsertMachine(id, a, r, subnets[o])
      PROVE  StoreInv'
  <2> DEFINE ip == allocIP(subnets[o])
             row == [app |-> a, release |-> r, ip |-> ip, state |-> "starting", pid |-> 0]
  <2>1. /\ ip \in Addresses
        /\ ip[1] = subnets[o]
        /\ \A m \in DOMAIN machines : machines[m].ip # ip
    BY <1>1, FreeAddressFound DEF AllocAndInsertMachine, StoreTypeOK
  <2>2. row \in MachineRow
    BY <2>1 DEF MachineRow, MachineStates, StoreAssumption
  <2>3. /\ DOMAIN machines' = DOMAIN machines \cup {id}
        /\ machines'[id] = row
        /\ \A m \in DOMAIN machines : machines'[m] = machines[m]
        /\ id \notin DOMAIN machines
        /\ a \in DOMAIN apps
        /\ UNCHANGED <<apps, releases, secrets, volumes, subnets>>
    BY <1>1 DEF AllocAndInsertMachine, Put
  <2>4. row.ip = ip /\ row.app = a
    OBVIOUS
  <2> HIDE DEF ip, row
  <2>5. StoreTypeOK'
    BY <2>2, <2>3 DEF StoreTypeOK
  <2>6. IPsUnique'
    BY <2>1, <2>3, <2>4 DEF IPsUnique
  <2>7. IPsInOwnedSubnets'
    BY <2>1, <2>3, <2>4 DEF IPsInOwnedSubnets
  <2>8. ForeignKeys'
    BY <2>3, <2>4 DEF ForeignKeys
  <2> QED
    BY <2>3, <2>5, <2>6, <2>7, <2>8 DEF SubnetsInjective
<1>2. ASSUME NEW s \in MachineStates, NEW p \in Pids, SetMachineState(id, s, p)
      PROVE  StoreInv'
  <2>1. /\ DOMAIN machines' = DOMAIN machines
        /\ \A m \in DOMAIN machines :
              machines'[m] \in MachineRow /\ machines'[m].ip = machines[m].ip
              /\ machines'[m].app = machines[m].app
        /\ UNCHANGED <<apps, releases, secrets, volumes, subnets>>
    BY <1>2 DEF SetMachineState, StoreTypeOK, MachineRow
  <2> QED
    BY <2>1 DEF StoreTypeOK, IPsUnique, SubnetsInjective, IPsInOwnedSubnets, ForeignKeys
<1>3. ASSUME DeleteMachine(id) PROVE StoreInv'
  <2>1. /\ DOMAIN machines' \subseteq DOMAIN machines
        /\ \A m \in DOMAIN machines' : machines'[m] = machines[m]
        /\ UNCHANGED <<apps, releases, secrets, volumes, subnets>>
    BY <1>3 DEF DeleteMachine, Drop
  <2> QED
    BY <2>1 DEF StoreTypeOK, IPsUnique, SubnetsInjective, IPsInOwnedSubnets, ForeignKeys
<1> QED
  BY <1>1, <1>2, <1>3 DEF MachineCalls

LEMMA SubnetForOwnerPreserves ==
    ASSUME StoreAssumption, StoreInv, NEW o \in Owners, SubnetForOwner(o)
    PROVE  StoreInv'
<1> USE DEF StoreInv
<1>1. CASE o \in DOMAIN subnets
  BY <1>1 DEF SubnetForOwner, StoreTypeOK, IPsUnique, SubnetsInjective,
              IPsInOwnedSubnets, ForeignKeys
<1>2. CASE o \notin DOMAIN subnets
  <2>1. /\ smallestFreeSubnetIdx \in 1..SubnetMax
        /\ \A q \in DOMAIN subnets : subnets[q] # smallestFreeSubnetIdx
    BY <1>2, FreeSubnetFound DEF SubnetForOwner
  <2>2. /\ DOMAIN subnets' = DOMAIN subnets \cup {o}
        /\ subnets'[o] = smallestFreeSubnetIdx
        /\ \A q \in DOMAIN subnets : subnets'[q] = subnets[q]
        /\ UNCHANGED <<apps, releases, machines, secrets, volumes>>
    BY <1>2 DEF SubnetForOwner, Put
  <2>3. StoreTypeOK'
    BY <2>1, <2>2 DEF StoreTypeOK, StoreAssumption
  <2>4. SubnetsInjective'
    BY <2>1, <2>2 DEF SubnetsInjective
  <2>5. IPsInOwnedSubnets'
    BY <2>2 DEF IPsInOwnedSubnets
  <2> QED
    BY <2>2, <2>3, <2>4, <2>5 DEF IPsUnique, ForeignKeys
<1> QED
  BY <1>1, <1>2

\* The schema and its seeded row.
LEMMA FreshDatabase ==
    ASSUME StoreInit
    PROVE  StoreInv
  BY StoreAssumption DEF StoreInit, StoreInv, StoreTypeOK, IPsUnique, SubnetsInjective,
     IPsInOwnedSubnets, ForeignKeys, NoRows, StoreAssumption

\* One call of any client, or none.
LEMMA StoreStepPreserves ==
    ASSUME StoreInv, [StoreNext]_storeVars
    PROVE  StoreInv'
<1>1. ASSUME NEW a \in Apps, AppCalls(a) PROVE StoreInv'
  BY <1>1, AppCallsPreserve, StoreAssumption
<1>2. ASSUME NEW m \in Machines, MachineCalls(m) PROVE StoreInv'
  BY <1>2, MachineCallsPreserve, StoreAssumption
<1>3. ASSUME NEW o \in Owners, SubnetForOwner(o) PROVE StoreInv'
  BY <1>3, SubnetForOwnerPreserves, StoreAssumption
<1>4. CASE UNCHANGED storeVars
  BY <1>4 DEF storeVars, StoreInv, StoreTypeOK, IPsUnique, SubnetsInjective,
     IPsInOwnedSubnets, ForeignKeys
<1> QED
  BY <1>1, <1>2, <1>3, <1>4 DEF StoreNext

-----------------------------------------------------------------------------
(* The theorems.                                                           *)

\* The tables keep their types, no two machines hold one address, no two
\* tenants one subnet, every address is in a tenant's subnet and no release or
\* machine outlives its app, after any sequence of store calls.
THEOREM StoreInvariant == StoreSpec => []StoreInv
<1>1. StoreInit => StoreInv
  BY FreshDatabase
<1>2. StoreInv /\ [StoreNext]_storeVars => StoreInv'
  BY StoreStepPreserves
<1> QED
  BY <1>1, <1>2, PTL DEF StoreSpec

\* The named properties the runs check follow from the invariant.
THEOREM AddressesUnique == StoreSpec => []IPsUnique
<1>1. StoreInv => IPsUnique
  BY DEF StoreInv
<1> QED
  BY <1>1, StoreInvariant, PTL

\* No two tenants ever share a subnet, and index 0 stays the admin's.
THEOREM TenantsSeparate == StoreSpec => []SubnetsInjective
<1>1. StoreInv => SubnetsInjective
  BY DEF StoreInv
<1> QED
  BY <1>1, StoreInvariant, PTL

\* The columns keep their types: no CHECK or NOT NULL ever fails, and an address
\* is a usable host of a subnet a bridge can be named after.
THEOREM TablesTyped == StoreSpec => []StoreTypeOK
<1>1. StoreInv => StoreTypeOK
  BY DEF StoreInv
<1> QED
  BY <1>1, StoreInvariant, PTL

\* Every machine's address is in a subnet some tenant owns, so that the DNS
\* server can tell whose machine is asking.
THEOREM AddressesOwned == StoreSpec => []IPsInOwnedSubnets
<1>1. StoreInv => IPsInOwnedSubnets
  BY DEF StoreInv
<1> QED
  BY <1>1, StoreInvariant, PTL

\* What a store call leaves of tenant_subnets: rows are added, never changed.
LEMMA SubnetsOnlyGrow ==
    ASSUME StoreNext
    PROVE  \A o \in DOMAIN subnets : o \in DOMAIN subnets' /\ subnets'[o] = subnets[o]
<1> DEFINE Keeps == \A o \in DOMAIN subnets :
                        o \in DOMAIN subnets' /\ subnets'[o] = subnets[o]
<1>1. ASSUME NEW a \in Apps, AppCalls(a) PROVE Keeps
  BY <1>1 DEF AppCalls, UpsertApp, SetAppOwner, DeleteApp, InsertRelease,
     DeleteReleasesForApp, PutSecret, DeleteSecret, DeleteSecretsForApp,
     CreateVolume, DeleteVolumesForApp
<1>2. ASSUME NEW m \in Machines, MachineCalls(m) PROVE Keeps
  BY <1>2 DEF MachineCalls, AllocAndInsertMachine, SetMachineState, DeleteMachine
<1>3. ASSUME NEW o \in Owners, SubnetForOwner(o) PROVE Keeps
  BY <1>3 DEF SubnetForOwner, Put
<1> QED
  BY <1>1, <1>2, <1>3 DEF StoreNext

\* No store call moves or withdraws a tenant's subnet.
THEOREM SubnetsAreStable == StoreSpec => SubnetsStable
<1> DEFINE Keeps == \A o \in DOMAIN subnets :
                        o \in DOMAIN subnets' /\ subnets'[o] = subnets[o]
<1>1. [StoreNext]_storeVars => [Keeps]_storeVars
  BY SubnetsOnlyGrow
<1> QED
  BY <1>1, PTL DEF StoreSpec, SubnetsStable

\* No store call changes the owner of an app that has one.
THEOREM OwnersAreSticky == StoreSpec => OwnerSticky
<1> DEFINE Keeps == \A a \in DOMAIN apps \cap DOMAIN apps' :
                        apps[a].owner # NoOwner => apps'[a].owner = apps[a].owner
<1>1. StoreInv /\ StoreNext => Keeps
  <2> SUFFICES ASSUME StoreInv, StoreNext PROVE Keeps
    OBVIOUS
  <2> USE DEF StoreInv
  <2>1. ASSUME NEW b \in Apps, NEW c \in Configs, UpsertApp(b, c) PROVE Keeps
    BY <2>1 DEF UpsertApp, Put
  <2>2. ASSUME NEW b \in Apps, NEW o \in Owners, SetAppOwner(b, o) PROVE Keeps
    BY <2>2 DEF SetAppOwner, StoreTypeOK, AppRow
  <2>3. ASSUME NEW b \in Apps, DeleteApp(b) PROVE Keeps
    BY <2>3 DEF DeleteApp, Drop
  <2>4. ASSUME UNCHANGED apps PROVE Keeps
    BY <2>4
  <2>5. ASSUME NEW b \in Apps, AppCalls(b) PROVE Keeps
    <3>1. CASE \/ \E i \in Images : InsertRelease(b, i)
               \/ DeleteReleasesForApp(b)
               \/ \E k \in Keys : PutSecret(b, k) \/ DeleteSecret(b, k)
               \/ DeleteSecretsForApp(b)
               \/ \E v \in VolNames : CreateVolume(b, v)
               \/ DeleteVolumesForApp(b)
      BY <3>1, <2>4 DEF InsertRelease, DeleteReleasesForApp, PutSecret, DeleteSecret,
         DeleteSecretsForApp, CreateVolume, DeleteVolumesForApp
    <3> HIDE DEF Keeps
    <3> QED BY <2>1, <2>2, <2>3, <2>5, <3>1 DEF AppCalls
  <2>6. ASSUME NEW m \in Machines, MachineCalls(m) PROVE Keeps
    BY <2>4, <2>6 DEF MachineCalls, AllocAndInsertMachine, SetMachineState, DeleteMachine
  <2>7. ASSUME NEW o \in Owners, SubnetForOwner(o) PROVE Keeps
    BY <2>4, <2>7 DEF SubnetForOwner
  <2> HIDE DEF Keeps
  <2> QED
    BY <2>5, <2>6, <2>7 DEF StoreNext
<1>2. StoreInv /\ [StoreNext]_storeVars => [Keeps]_storeVars
  BY <1>1
<1> QED
  BY <1>2, StoreInvariant, PTL DEF StoreSpec, OwnerSticky

=============================================================================
