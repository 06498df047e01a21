--------------------------- MODULE OakdProperties ---------------------------
(* What oakd promises about machines, addresses, routes and requests.      *)
EXTENDS Oakd

\* Nobody is doing anything: every request has returned, every watcher has a
\* live VM to wait for, and the tunnel is not being rewritten.
Quiet ==
    /\ phase = "up"
    /\ tunnelMu = Nil
    /\ \A w \in Workers : At(w, "idle")
    /\ \A id \in DOMAIN watch : watch[id] = "wait" /\ id \in DOMAIN vms

Pcs == {"idle", "upsert", "cache", "config", "recache", "build", "insert", "latest",
        "volumes", "owner", "subnet", "alloc", "start", "wait", "stopvm", "unclaim",
        "handle", "health", "stopnew", "unhandlenew", "failed", "deletenew", "running",
        "list", "stop", "delete", "unhandle", "ok", "tunnel", "setowner",
        "releases", "secrets", "dropvolumes", "dropapp", "uncache", "removefiles",
        "secret", "unsecret", "volume", "insertvolume"}

\* Type invariant of the deployer and the daemon.
TypeOK ==
    /\ StoreTypeOK
    /\ DOMAIN appConfigs \subseteq Apps /\ \A a \in DOMAIN appConfigs : appConfigs[a] \in Configs
    /\ tunnelMu \in {Nil, Main} \cup Workers \cup Machines
    /\ \A f \in {disk, live} : DOMAIN f \subseteq Apps
                               /\ \A a \in DOMAIN f : f[a].ip \in Addresses /\ f[a].port # 0
    /\ \A w \in Workers : req[w].pc \in Pcs /\ req[w].todo \subseteq Machines \cup VolNames
    /\ handles \subseteq Machines /\ DOMAIN vms \subseteq Machines /\ DOMAIN watch \subseteq Machines
    /\ \A m \in DOMAIN vms : vms[m].ip \in Addresses
    /\ phase \in {"reconcile", "ingress", "up", "stopping", "down"}
    /\ pending \subseteq Machines /\ halted \subseteq Machines
    /\ epoch \in 1..MaxEpoch

\* A VM that has not been told to stop holds its address: its row is in the
\* store with the address it was booted with, so allocIP cannot give it to
\* another machine.
LiveVmKeepsAddress ==
    \A m \in DOMAIN vms :
        ~vms[m].dying => m \in DOMAIN machines /\ machines[m].ip = vms[m].ip

\* However many deploys and restarts of an app overlap, when they are all over
\* the app does not have two machines serving (stopOldMachines).
AtMostOneServing ==
    Quiet => \A m, n \in RunningMachines : machines[m].app = machines[n].app => m = n

\* When nothing is going on, cloudflared routes each app that has a machine and
\* a service to its newest machine, and routes nothing else (applyTunnel after
\* every change, whoever makes it and however the calls overlap); but for a
\* Destroy that could not remove the files and stopped short of applyTunnel.
RoutesSettle ==
    Quiet /\ unremoved = {} =>
        [a \in DOMAIN live |-> live[a].ip]
        = [a \in {b \in DOMAIN ServingRows : Lookup(b).port # 0} |-> ServingRows[a]]

\* No row says running unless a watchMachine goroutine is there to delete it
\* when the machine dies, across deploys, exits, crashes and reconciles.
RunningIsWatched ==
    phase = "up" => \A m \in RunningMachines : m \in DOMAIN watch

\* A VM runs a rootfs that was built for its own app.
BootsOwnImage ==
    \A m \in DOMAIN vms : vms[m].image \in DOMAIN files => files[vms[m].image] = vms[m].app

\* A machine row names a release of its own app.  The table has no foreign key for
\* it; Reconcile boots what the id names (Destroy deletes machines, then releases).
MachinesHaveReleases ==
    \A m \in DOMAIN machines :
        /\ machines[m].release \in DOMAIN releases
        /\ releases[machines[m].release].app = machines[m].app

\* While the daemon shuts down, only a request that is still being served may
\* take away the row of a machine StopAll has stopped: the watcher must leave
\* it running for the next Reconcile.
StopAllKeepsRows ==
    [][\A m \in halted \cap RunningMachines :
           \/ m \in RunningMachines'
           \/ \E w \in Workers : At(w, "delete") /\ Current(w) = m]_vars

\* Rows, and the addresses they hold, belong to machines that are alive.
RowsAreAlive == Quiet => DOMAIN machines \subseteq DOMAIN vms

\* Once an app is destroyed nothing of it is left: no VM but one that is
\* exiting, no cached config, and, unless the removal of files failed and Destroy
\* with it, no rootfs and no route (Destroy).  Another Destroy makes up for that.
GoneMeansGone ==
    Quiet => \A a \in Apps \ DOMAIN apps :
                /\ \A m \in DOMAIN vms : vms[m].app = a => vms[m].dying
                /\ a \notin DOMAIN appConfigs
                /\ a \notin unremoved => RootfsOf(a) = {}
                /\ unremoved = {} => a \notin DOMAIN disk \cup DOMAIN live

\* The configs that applyTunnel, Restart and Scale find in memory are those in
\* the store once requests that came one after another have returned, failed or
\* not, whatever a watcher's applyTunnel looked up and cached meanwhile
\* (cacheConfig, appConfig, Destroy).
CacheSettles ==
    Quiet => \A a \in DOMAIN appConfigs :
                a \in DOMAIN apps /\ appConfigs[a] = apps[a].config

\* Behind every volume row there is its image: a mount that resolveVolumes
\* resolves is a disk with the app's data on it.
VolumesPersist == \A v \in volumes : ImagePath(v[1], v[2]) \in volImages

-----------------------------------------------------------------------------
(* Liveness, under FairSpec.                                               *)

\* Every request returns, unless it waits for what has no deadline: a release
\* command, the pull of an image, or a VM that accepts a health check and does not
\* answer (runReleaseCommand, rootfs.Pull, HTTPChecker).
RequestsEnd == \A w \in Workers : ~At(w, "idle") ~> At(w, "idle") \/ Unhurried(w)

\* A machine whose VM is gone does not stay running in the store while the
\* daemon is up, whichever run of the daemon started it (watchMachine's check
\* of state and pid against what MarkRunning and reconcileOne recorded).
DeadMachinesForgotten ==
    \A m \in Machines :
        (phase = "up" /\ m \in RunningMachines /\ m \notin DOMAIN vms)
        ~> (phase # "up" \/ m \notin DOMAIN machines)

-----------------------------------------------------------------------------
(* What the documentation says and the code does not do.                   *)

\* "ok <machine>" is sent for a machine that is running: "The machine is
\* healthy and the old ones are gone" (bootFromRelease).
OkMeansServing ==
    [][\A w \in Workers :
          At(w, "ok") /\ req'[w].pc = "tunnel" => req[w].id \in RunningMachines]_vars

\* A request that fails tears its machine down: when all have returned, no VM
\* is left without a row (bootFromRelease).
NoOrphanVm == Quiet => DOMAIN vms \subseteq DOMAIN machines

\* A machine of an app with an owner is in that owner's subnet (subnetForApp).
TenantIsolation ==
    \A m \in RunningMachines :
        LET owner == apps[machines[m].app].owner IN
        owner \in DOMAIN subnets /\ machines[m].ip[1] = subnets[owner]

=============================================================================
