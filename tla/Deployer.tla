------------------------------ MODULE Deployer ------------------------------
(***************************************************************************)
(* internal/daemon/deploy.go: the requests that deploy, restart, scale and *)
(* destroy apps, and the goroutine that watches each machine's exit.       *)
(*                                                                         *)
(* An HTTP handler runs one request in its own goroutine and nothing       *)
(* serializes two of them, not even for one app.  A worker is a handler;   *)
(* its pc names the next call it makes on state others can see, so each    *)
(* action is one store call, one access to the handles or the config       *)
(* cache, or one operation on a VM, with the local code around it.         *)
(*                                                                         *)
(* A VM is identified by its machine id: an id is random and is started at *)
(* most once per run of the daemon.  The pid column then only tells one    *)
(* run of the daemon from another, and epoch, the number of the run, is    *)
(* the pid of every VM that run starts.                                    *)
(***************************************************************************)
EXTENDS Tunnel, Sequences, SequencesExt

CONSTANTS
    Workers,       \* concurrent API requests
    Ops,           \* the requests clients make, a subset of AllOps
    MaxRequests,   \* bound on the requests of a run
    MaxExits       \* bound on VMs that exit on their own

AllOps == {"deploy", "restart", "scale", "destroy",
           "secret", "unsecret", "volume"}

ASSUME DeployerAssumption ==
    /\ Ops \subseteq AllOps
    /\ MaxRequests \in Nat
    /\ MaxExits \in Nat
    /\ Images \subseteq Nat
    /\ Nil \notin Workers \cup Machines
    /\ Workers \cap Machines = {}

VARIABLES
    req,           \* the request each worker is serving
    handles,       \* Deployer.handles: the ids with a registered Handle
    vms,           \* the Firecracker processes: id -> what they were booted with
    watch,         \* the watchMachine goroutines: id -> pc
    files,         \* the rootfs files on disk: image -> app
    volImages,     \* the volume images on disk, by name
    unremoved,     \* history: the destroyed apps whose files could not all be removed
    shuttingDown,  \* Deployer.shuttingDown
    epoch,         \* the run of the daemon, standing for the pids it starts
    nextMachine,   \* the next machine id
    nextImage,     \* the next rootfs file name (a timestamp in the code)
    issued,        \* requests issued so far
    exits          \* VMs that exited on their own so far

fileVars == <<files, volImages, unremoved>>

bounds == <<nextMachine, nextImage, issued, exits>>

deployerVars == <<storeVars, appConfigs, tunnelVars, req, handles, vms, watch,
                  fileVars, shuttingDown, epoch, bounds>>

Idle ==
    [op |-> "none", pc |-> "idle", app |-> Nil, cfg |-> Nil, owner |-> Nil,
     tenant |-> Nil, release |-> 0, image |-> 0, id |-> 0, idx |-> 0, ip |-> <<0, 0>>,
     todo |-> {}, command |-> "none"]

At(w, pc) == req[w].pc = pc

Goto(w, pc) == req' = [req EXCEPT ![w].pc = pc]

Finish(w) == req' = [req EXCEPT ![w] = Idle]

-----------------------------------------------------------------------------
(* Virtual machines (internal/vm, external processes).                     *)

\* Runtime.Start, when it succeeds: a process with the spec it was given.
Boot(id, app, image, ip, idx, cfg) ==
    vms' = Put(vms, id, [app |-> app, image |-> image, ip |-> ip, bridge |-> idx,
                         port |-> cfg.port, mounts |-> cfg.mounts, dying |-> FALSE])

\* Handle.Stop returns when the process has exited, or, once the request's
\* context is cancelled, right after signalling it.
Stop(id) ==
    \/ vms' = Drop(vms, {id})
    \/ /\ "cancel" \in Faults /\ id \in DOMAIN vms
       /\ vms' = [vms EXCEPT ![id].dying = TRUE]

\* A VM powers off, crashes, or completes an exit it was signalled to make.
VmExit(id) ==
    /\ id \in DOMAIN vms
    /\ vms' = Drop(vms, {id})
    /\ \/ vms[id].dying /\ exits' = exits
       \/ exits < MaxExits /\ exits' = exits + 1
    /\ UNCHANGED <<storeVars, appConfigs, tunnelVars, req, handles, watch, fileVars,
                   nextMachine, nextImage, issued>>

Answering(ip) == \E m \in DOMAIN vms : vms[m].ip = ip /\ ~vms[m].dying

-----------------------------------------------------------------------------
(* A request arrives: handleDeploy, handleRestart, handleScale,            *)
(* handleDestroy.  Scale keeps every field of the config this model tells  *)
(* apart, so it stores and boots the config it read.                       *)

FirstPc(op) == CASE op = "deploy" -> "upsert"
                 [] op \in {"restart", "scale"} -> "config"
                 [] op = "destroy" -> "list"
                 [] OTHER -> op

Issue(w) ==
    /\ At(w, "idle")
    /\ issued < MaxRequests
    /\ issued' = issued + 1
    /\ \E op \in Ops, app \in Apps :
         \E cfg \in IF op = "deploy" THEN Configs ELSE {Nil},
            owner \in IF op = "deploy" THEN Owners ELSE {Nil} :
           req' = [req EXCEPT ![w] = [Idle EXCEPT !.op = op, !.app = app, !.cfg = cfg,
                                                  !.owner = owner, !.pc = FirstPc(op)]]
    /\ UNCHANGED <<storeVars, appConfigs, tunnelVars, handles, vms, watch, fileVars,
                   nextMachine, nextImage, exits>>

-----------------------------------------------------------------------------
(* Deploy, Restart and Scale up to the boot.                               *)

StoreConfig(w) ==
    /\ At(w, "upsert")
    /\ UpsertApp(req[w].app, req[w].cfg)
    /\ Goto(w, "cache")
    /\ UNCHANGED <<appConfigs, tunnelVars, handles, vms, watch, fileVars, bounds>>

\* Mutant: a cached config is kept.
CacheConfig_Keeps(w) ==
    /\ At(w, "cache")
    /\ appConfigs' = IF req[w].app \in DOMAIN appConfigs THEN appConfigs
                     ELSE Put(appConfigs, req[w].app, req[w].cfg)
    /\ Goto(w, IF req[w].op = "deploy" THEN "build" ELSE "latest")
    /\ UNCHANGED <<storeVars, tunnelVars, handles, vms, watch, fileVars, bounds>>

CacheConfig(w) ==
    /\ At(w, "cache")
    /\ appConfigs' = Put(appConfigs, req[w].app, req[w].cfg)
    /\ Goto(w, IF req[w].op = "deploy" THEN "build" ELSE "latest")
    /\ UNCHANGED <<storeVars, tunnelVars, handles, vms, watch, fileVars, bounds>>

\* Restart's and Scale's appConfig: the cache, else the store, else an error.
AfterConfig(op) == IF op = "restart" THEN "latest" ELSE "upsert"

ReadConfig(w) ==
    LET app == req[w].app IN
    /\ At(w, "config")
    /\ req' = IF ~Known(app)
              THEN [req EXCEPT ![w] = Idle]
              ELSE [req EXCEPT ![w].cfg = Lookup(app),
                               ![w].pc = IF app \in DOMAIN appConfigs
                                         THEN AfterConfig(req[w].op) ELSE "recache"]
    /\ UNCHANGED <<storeVars, appConfigs, tunnelVars, handles, vms, watch, fileVars, bounds>>

RecacheConfig(w) ==
    /\ At(w, "recache")
    /\ appConfigs' = Put(appConfigs, req[w].app, req[w].cfg)
    /\ Goto(w, AfterConfig(req[w].op))
    /\ UNCHANGED <<storeVars, tunnelVars, handles, vms, watch, fileVars, bounds>>

BuildRootfs(w) ==
    /\ At(w, "build")
    /\ nextImage \in Images
    /\ \/ /\ files' = Put(files, nextImage, req[w].app)
          /\ nextImage' = nextImage + 1
          /\ req' = [req EXCEPT ![w].image = nextImage, ![w].pc = "insert"]
       \/ /\ "build" \in Faults
          /\ Finish(w)
          /\ UNCHANGED <<fileVars, nextImage>>
    /\ UNCHANGED <<storeVars, appConfigs, tunnelVars, handles, vms, watch, volImages,
                   unremoved, nextMachine, issued, exits>>

\* The foreign key fails the insert when the app has been destroyed since.
RecordRelease(w) ==
    LET r == req[w] IN
    /\ At(w, "insert")
    /\ \/ /\ InsertRelease(r.app, r.image)
          /\ req' = [req EXCEPT ![w].release = NextReleaseId,
                                ![w].command = IF r.cfg.release THEN "run" ELSE "none",
                                ![w].pc = IF r.cfg.release THEN "owner" ELSE "volumes"]
       \/ /\ r.app \notin DOMAIN apps
          /\ Finish(w)
          /\ UNCHANGED storeVars
    /\ UNCHANGED <<appConfigs, tunnelVars, handles, vms, watch, fileVars, bounds>>

FindRelease(w) ==
    LET app == req[w].app IN
    /\ At(w, "latest")
    /\ req' = IF ReleasesOf(app) = {}
              THEN [req EXCEPT ![w] = Idle]
              ELSE [req EXCEPT ![w].release = LatestRelease(app),
                               ![w].image = releases[LatestRelease(app)].image,
                               ![w].pc = "volumes"]
    /\ UNCHANGED <<storeVars, appConfigs, tunnelVars, handles, vms, watch, fileVars, bounds>>

-----------------------------------------------------------------------------
(* bootFromRelease and, while command = "run", runReleaseCommand: both      *)
(* resolve the tenant's subnet, insert a row and start a VM the same way.  *)

ResolveVolumes(w) ==
    /\ At(w, "volumes")
    /\ IF \A v \in req[w].cfg.mounts : <<req[w].app, v>> \in volumes
       THEN Goto(w, "owner") ELSE Finish(w)
    /\ UNCHANGED <<storeVars, appConfigs, tunnelVars, handles, vms, watch, fileVars, bounds>>

\* subnetForApp's two queries, and EnsureBridge.
ReadOwner(w) ==
    LET app == req[w].app IN
    /\ At(w, "owner")
    /\ req' = IF app \in DOMAIN apps
              THEN [req EXCEPT ![w].tenant = apps[app].owner, ![w].pc = "subnet"]
              ELSE [req EXCEPT ![w] = Idle]
    /\ UNCHANGED <<storeVars, appConfigs, tunnelVars, handles, vms, watch, fileVars, bounds>>

\* Mutant: the index is looked up and never inserted.
FindSubnet_Unrecorded(w) ==
    /\ At(w, "subnet")
    /\ req' = [req EXCEPT ![w].idx = IF req[w].tenant \in DOMAIN subnets
                                     THEN subnets[req[w].tenant]
                                     ELSE smallestFreeSubnetIdx,
                          ![w].tenant = Nil, ![w].pc = "alloc"]
    /\ UNCHANGED <<storeVars, appConfigs, tunnelVars, handles, vms, watch, fileVars, bounds>>

FindSubnet(w) ==
    /\ At(w, "subnet")
    /\ \/ /\ SubnetForOwner(req[w].tenant)
          /\ req' = [req EXCEPT ![w].idx = subnets'[req[w].tenant],
                                ![w].tenant = Nil, ![w].pc = "alloc"]
       \/ /\ \/ req[w].tenant \notin DOMAIN subnets /\ FreeSubnets = {}
             \/ "bridge" \in Faults
          /\ Finish(w)
          /\ UNCHANGED storeVars
    /\ UNCHANGED <<appConfigs, tunnelVars, handles, vms, watch, fileVars, bounds>>

InsertMachine(w) ==
    LET r == req[w] IN
    /\ At(w, "alloc")
    /\ nextMachine \in Machines
    /\ \/ /\ AllocAndInsertMachine(nextMachine, r.app, r.release, r.idx)
          /\ req' = [req EXCEPT ![w].id = nextMachine, ![w].ip = allocIP(r.idx),
                                ![w].pc = "start"]
          /\ nextMachine' = nextMachine + 1
       \/ /\ FreeHosts(r.idx) = {} \/ r.app \notin DOMAIN apps
          /\ Finish(w)
          /\ UNCHANGED <<storeVars, nextMachine>>
    /\ UNCHANGED <<appConfigs, tunnelVars, handles, vms, watch, fileVars,
                   nextImage, issued, exits>>

\* <app>-<name>.img.  Where volumes are modelled, an app or volume name is the
\* sequence of the words between its dashes.
ImagePath(app, name) == app \o name

\* A rootfs or a volume image that has been removed cannot be booted from.
DrivesExist(app, image, mounts) ==
    /\ image \in DOMAIN files
    /\ \A v \in mounts : ImagePath(app, v) \in volImages

MountsOf(r) == IF r.command = "run" THEN {} ELSE r.cfg.mounts

StartMachine(w) ==
    LET r == req[w] IN
    /\ At(w, "start")
    /\ DrivesExist(r.app, r.image, MountsOf(r))
    /\ Boot(r.id, r.app, r.image, r.ip, r.idx,
            [r.cfg EXCEPT !.mounts = MountsOf(r)])
    /\ Goto(w, IF r.command = "run" THEN "wait" ELSE "handle")
    /\ UNCHANGED <<storeVars, appConfigs, tunnelVars, handles, watch, fileVars, bounds>>

StartFails(w) ==
    /\ At(w, "start")
    /\ "start" \in Faults \/ ~DrivesExist(req[w].app, req[w].image, MountsOf(req[w]))
    /\ req' = IF req[w].command = "run"
              THEN [req EXCEPT ![w].command = "failed", ![w].pc = "unclaim"]
              ELSE [req EXCEPT ![w].pc = "failed"]
    /\ UNCHANGED <<storeVars, appConfigs, tunnelVars, handles, vms, watch, fileVars, bounds>>

\* An error between the insert of the row and Start: the guest environment
\* (a secret that does not decrypt), the log directory, a stale socket.
\* runReleaseCommand's deferred delete covers it; bootFromRelease just returns.
PrepareFails(w) ==
    /\ At(w, "start")
    /\ "prepare" \in Faults
    /\ req' = IF req[w].command = "run"
              THEN [req EXCEPT ![w].command = "failed", ![w].pc = "unclaim"]
              ELSE [req EXCEPT ![w] = Idle]
    /\ UNCHANGED <<storeVars, appConfigs, tunnelVars, handles, vms, watch, fileVars, bounds>>

-----------------------------------------------------------------------------
(* The rest of runReleaseCommand.  The VM has no handle and no watcher.    *)

\* handle.Wait returns and the exit marker decides; or the client has gone
\* away and Wait returns with the guest still running.
CommandEnds(w) ==
    LET id == req[w].id IN
    /\ At(w, "wait")
    /\ \/ /\ id \in DOMAIN vms
          /\ vms' = Drop(vms, {id})
          /\ req' = [req EXCEPT ![w].command = "ok", ![w].pc = "stopvm"]
       \/ /\ "command" \in Faults \/ id \notin DOMAIN vms
          /\ vms' = Drop(vms, {id})
          /\ req' = [req EXCEPT ![w].command = "failed", ![w].pc = "stopvm"]
       \/ /\ "cancel" \in Faults
          /\ req' = [req EXCEPT ![w].command = "failed", ![w].pc = "stopvm"]
          /\ UNCHANGED vms
    /\ UNCHANGED <<storeVars, appConfigs, tunnelVars, handles, watch, fileVars, bounds>>

\* The deferred calls, last one first: Stop (under a context nobody cancels),
\* then DeleteMachine.
StopCommandVm(w) ==
    /\ At(w, "stopvm")
    /\ vms' = Drop(vms, {req[w].id})
    /\ Goto(w, "unclaim")
    /\ UNCHANGED <<storeVars, appConfigs, tunnelVars, handles, watch, fileVars, bounds>>

DeleteCommandRow(w) ==
    /\ At(w, "unclaim")
    /\ DeleteMachine(req[w].id)
    /\ req' = IF req[w].command = "ok"
              THEN [req EXCEPT ![w].command = "none", ![w].id = 0, ![w].idx = 0,
                               ![w].ip = <<0, 0>>, ![w].pc = "volumes"]
              ELSE [req EXCEPT ![w] = Idle]
    /\ UNCHANGED <<appConfigs, tunnelVars, handles, vms, watch, fileVars, bounds>>

-----------------------------------------------------------------------------
(* The rest of bootFromRelease.                                            *)

SetHandle(w) ==
    /\ At(w, "handle")
    /\ handles' = handles \cup {req[w].id}
    /\ Goto(w, "health")
    /\ UNCHANGED <<storeVars, appConfigs, tunnelVars, vms, watch, fileVars, bounds>>

\* awaitHealthy: nothing to check without a service; otherwise whatever VM
\* answers at the address, until the deadline or the end of the request.  The
\* deadline is looked at between checks, and a check has no time limit: see
\* Unhurried.
AwaitHealthy(w) ==
    LET r == req[w] IN
    /\ At(w, "health")
    /\ \/ /\ r.cfg.port = 0 \/ Answering(r.ip)
          /\ Goto(w, "running")
       \/ /\ r.cfg.port # 0
          /\ "health" \in Faults \/ ~Answering(r.ip)
          /\ Goto(w, "stopnew")
    /\ UNCHANGED <<storeVars, appConfigs, tunnelVars, handles, vms, watch, fileVars, bounds>>

\* Mutant: the failure path forgets the VM it started.
StopNew_Skipped(w) ==
    /\ At(w, "stopnew")
    /\ Goto(w, "unhandlenew")
    /\ UNCHANGED <<storeVars, appConfigs, tunnelVars, handles, vms, watch, fileVars, bounds>>

\* The failure path: Stop, removeHandle, SetMachineState, DeleteMachine.
StopNew(w) ==
    /\ At(w, "stopnew")
    /\ Stop(req[w].id)
    /\ Goto(w, "unhandlenew")
    /\ UNCHANGED <<storeVars, appConfigs, tunnelVars, handles, watch, fileVars, bounds>>

UnhandleNew(w) ==
    /\ At(w, "unhandlenew")
    /\ handles' = handles \ {req[w].id}
    /\ Goto(w, "failed")
    /\ UNCHANGED <<storeVars, appConfigs, tunnelVars, vms, watch, fileVars, bounds>>

MarkFailed(w) ==
    /\ At(w, "failed")
    /\ \/ SetMachineState(req[w].id, "failed", 0)
       \/ req[w].id \notin DOMAIN machines /\ UNCHANGED storeVars
    /\ Goto(w, "deletenew")
    /\ UNCHANGED <<appConfigs, tunnelVars, handles, vms, watch, fileVars, bounds>>

DeleteNew(w) ==
    /\ At(w, "deletenew")
    /\ DeleteMachine(req[w].id)
    /\ Finish(w)
    /\ UNCHANGED <<appConfigs, tunnelVars, handles, vms, watch, fileVars, bounds>>

\* SetMachineState and the go statement after it.  A row that is gone makes
\* the call fail, and bootFromRelease returns with the VM up and its handle set.
MarkRunning(w) ==
    LET id == req[w].id IN
    /\ At(w, "running")
    /\ \/ /\ SetMachineState(id, "running", epoch)
          /\ watch' = Put(watch, id, "wait")
          /\ Goto(w, "list")
       \/ /\ id \notin DOMAIN machines
          /\ Finish(w)
          /\ UNCHANGED <<storeVars, watch>>
    /\ UNCHANGED <<appConfigs, tunnelVars, handles, vms, fileVars, bounds>>

\* Mutant: stopOldMachines takes "old" literally.
Doomed_OlderOnly(r) ==
    IF r.op = "destroy"
    THEN MachinesForApp(r.app)
    ELSE {m \in MachinesForApp(r.app) : m < r.id /\ machines[m].state = "running"}

\* Mutant: Destroy, too, lists running machines only.
Doomed_RunningOnly(r) ==
    {m \in MachinesForApp(r.app) : m # r.id /\ machines[m].state = "running"}

\* The listing that opens stopOldMachines and Destroy, and the loop both run
\* over it, newest machine first: Stop if there is a handle, DeleteMachine,
\* removeHandle.
Doomed(r) ==
    IF r.op = "destroy"
    THEN MachinesForApp(r.app)
    ELSE {m \in MachinesForApp(r.app) : m # r.id /\ machines[m].state = "running"}

AfterLoop(op) == IF op = "destroy" THEN "releases" ELSE "ok"

LoopPc(op, left) == IF left = {} THEN AfterLoop(op) ELSE "stop"

ListMachines(w) ==
    LET r == req[w] IN
    /\ At(w, "list")
    /\ req' = [req EXCEPT ![w].todo = Doomed(r), ![w].pc = LoopPc(r.op, Doomed(r))]
    /\ UNCHANGED <<storeVars, appConfigs, tunnelVars, handles, vms, watch, fileVars, bounds>>

Current(w) == Greatest(req[w].todo)

StopListed(w) ==
    /\ At(w, "stop")
    /\ \/ Current(w) \in handles /\ Stop(Current(w))
       \/ Current(w) \notin handles /\ UNCHANGED vms
    /\ Goto(w, "delete")
    /\ UNCHANGED <<storeVars, appConfigs, tunnelVars, handles, watch, fileVars, bounds>>

DeleteListed(w) ==
    /\ At(w, "delete")
    /\ DeleteMachine(Current(w))
    /\ Goto(w, "unhandle")
    /\ UNCHANGED <<appConfigs, tunnelVars, handles, vms, watch, fileVars, bounds>>

UnhandleListed(w) ==
    LET left == req[w].todo \ {Current(w)} IN
    /\ At(w, "unhandle")
    /\ handles' = handles \ {Current(w)}
    /\ req' = [req EXCEPT ![w].todo = left, ![w].pc = LoopPc(req[w].op, left)]
    /\ UNCHANGED <<storeVars, appConfigs, tunnelVars, vms, watch, fileVars, bounds>>

\* The "ok <machine>" line, before the tunnel is touched.
EmitOk(w) ==
    /\ At(w, "ok")
    /\ Goto(w, "tunnel")
    /\ UNCHANGED <<storeVars, appConfigs, tunnelVars, handles, vms, watch, fileVars, bounds>>

\* handleDeploy records the owner once Deploy has returned without error.
RecordOwner(w) ==
    /\ At(w, "setowner")
    /\ SetAppOwner(req[w].app, req[w].owner)
    /\ Finish(w)
    /\ UNCHANGED <<appConfigs, tunnelVars, handles, vms, watch, fileVars, bounds>>

-----------------------------------------------------------------------------
(* Destroy after its loop: four deletes, the cache, the files, the tunnel. *)

DestroyReleases(w) ==
    /\ At(w, "releases")
    /\ DeleteReleasesForApp(req[w].app)
    /\ Goto(w, "secrets")
    /\ UNCHANGED <<appConfigs, tunnelVars, handles, vms, watch, fileVars, bounds>>

DestroySecrets(w) ==
    /\ At(w, "secrets")
    /\ DeleteSecretsForApp(req[w].app)
    /\ Goto(w, "dropvolumes")
    /\ UNCHANGED <<appConfigs, tunnelVars, handles, vms, watch, fileVars, bounds>>

DestroyVolumes(w) ==
    /\ At(w, "dropvolumes")
    /\ DeleteVolumesForApp(req[w].app)
    /\ Goto(w, "dropapp")
    /\ UNCHANGED <<appConfigs, tunnelVars, handles, vms, watch, fileVars, bounds>>

\* A release or machine inserted since the loop makes the delete fail, and
\* Destroy returns there.
DestroyApp(w) ==
    /\ At(w, "dropapp")
    /\ \/ DeleteApp(req[w].app) /\ Goto(w, "uncache")
       \/ Referenced(req[w].app) /\ Finish(w) /\ UNCHANGED storeVars
    /\ UNCHANGED <<appConfigs, tunnelVars, handles, vms, watch, fileVars, bounds>>

DestroyCached(w) ==
    /\ At(w, "uncache")
    /\ appConfigs' = Drop(appConfigs, {req[w].app})
    /\ Goto(w, "removefiles")
    /\ UNCHANGED <<storeVars, tunnelVars, handles, vms, watch, fileVars, bounds>>

\* Glob(<app>-*.img): the words of the app's name, and at least one more.
VolumeGlob(app) == {p \in volImages : IsStrictPrefix(app, p)}

RootfsOf(app) == {i \in DOMAIN files : files[i] = app}

\* Mutant: Destroy leaves the ingress to the next deploy.
DestroyFiles_NoTunnel(w) ==
    /\ At(w, "removefiles")
    /\ files' = Drop(files, RootfsOf(req[w].app))
    /\ volImages' = volImages \ VolumeGlob(req[w].app)
    /\ unremoved' = unremoved \ {req[w].app}
    /\ Finish(w)
    /\ UNCHANGED <<storeVars, appConfigs, tunnelVars, handles, vms, watch, bounds>>

\* The directories of rootfs files and of logs, then the volume images one by one.
\* The first removal that fails ends Destroy, before applyTunnel; the app is gone
\* from the store by then, and only another Destroy comes back to the rest.
DestroyFiles(w) ==
    LET app == req[w].app IN
    /\ At(w, "removefiles")
    /\ \/ /\ files' = Drop(files, RootfsOf(app))
          /\ volImages' = volImages \ VolumeGlob(app)
          /\ unremoved' = unremoved \ {app}
          /\ Goto(w, "tunnel")
       \/ /\ "remove" \in Faults
          /\ \E part \in SUBSET RootfsOf(app), imgs \in SUBSET VolumeGlob(app) :
               /\ imgs = {} \/ (part = RootfsOf(app) /\ imgs # VolumeGlob(app))
               /\ files' = Drop(files, part)
               /\ volImages' = volImages \ imgs
          /\ unremoved' = unremoved \cup {app}
          /\ Finish(w)
    /\ UNCHANGED <<storeVars, appConfigs, tunnelVars, handles, vms, watch, bounds>>

-----------------------------------------------------------------------------
(* The requests that are a single store call for each name they are given. *)

ChangeSecret(w) ==
    /\ \/ At(w, "secret") /\ \E k \in Keys : PutSecret(req[w].app, k)
       \/ At(w, "unsecret") /\ \E k \in Keys : DeleteSecret(req[w].app, k)
    /\ Finish(w)
    /\ UNCHANGED <<appConfigs, tunnelVars, handles, vms, watch, fileVars, bounds>>

\* Mutant: the row is inserted before the image is made, which may fail.
MakeVolume_RowFirst(w) ==
    /\ At(w, "volume")
    /\ \E v \in VolNames :
         /\ \/ CreateVolume(req[w].app, v)
            \/ <<req[w].app, v>> \in volumes /\ UNCHANGED storeVars
         /\ \/ volImages' = volImages \cup {ImagePath(req[w].app, v)}
            \/ "format" \in Faults /\ UNCHANGED volImages
    /\ Finish(w)
    /\ UNCHANGED <<appConfigs, tunnelVars, handles, vms, watch, files, unremoved, bounds>>

\* handleCreateVolume opens, truncates and formats the image, new or not; an
\* error leaves the file behind.
MakeVolume(w) ==
    /\ At(w, "volume")
    /\ \E v \in VolNames :
         /\ volImages' = volImages \cup {ImagePath(req[w].app, v)}
         /\ \/ req' = [req EXCEPT ![w].todo = {v}, ![w].pc = "insertvolume"]
            \/ "format" \in Faults /\ Finish(w)
    /\ UNCHANGED <<storeVars, appConfigs, tunnelVars, handles, vms, watch, files,
                   unremoved, bounds>>

\* The primary key refuses a volume that exists.
InsertVolume(w) ==
    /\ At(w, "insertvolume")
    /\ \E v \in req[w].todo :
         \/ CreateVolume(req[w].app, v)
         \/ <<req[w].app, v>> \in volumes /\ UNCHANGED storeVars
    /\ Finish(w)
    /\ UNCHANGED <<appConfigs, tunnelVars, handles, vms, watch, fileVars, bounds>>

-----------------------------------------------------------------------------
(* watchMachine.                                                           *)

Unwatch(id) == watch' = Drop(watch, {id})

Advance(id, from, to) ==
    /\ id \in DOMAIN watch /\ watch[id] = from
    /\ watch' = [watch EXCEPT ![id] = to]

\* Wait returns, and the flag StopAll sets is read.
WatchWakes(id) ==
    /\ id \in DOMAIN watch /\ watch[id] = "wait"
    /\ id \notin DOMAIN vms
    /\ IF shuttingDown THEN Unwatch(id) ELSE Advance(id, "wait", "read")
    /\ UNCHANGED <<storeVars, appConfigs, tunnelVars, req, handles, vms, fileVars, bounds>>

\* Nothing to do unless the row is still this machine's, running, by pid.
WatchReads(id) ==
    /\ id \in DOMAIN watch /\ watch[id] = "read"
    /\ IF /\ id \in DOMAIN machines
          /\ machines[id].state = "running" /\ machines[id].pid = epoch
       THEN Advance(id, "read", "mark")
       ELSE Unwatch(id)
    /\ UNCHANGED <<storeVars, appConfigs, tunnelVars, req, handles, vms, fileVars, bounds>>

WatchMarks(id) ==
    /\ Advance(id, "mark", "unhandle")
    /\ \/ SetMachineState(id, "stopped", 0)
       \/ id \notin DOMAIN machines /\ UNCHANGED storeVars
    /\ UNCHANGED <<appConfigs, tunnelVars, req, handles, vms, fileVars, bounds>>

WatchUnhandles(id) ==
    /\ Advance(id, "unhandle", "delete")
    /\ handles' = handles \ {id}
    /\ UNCHANGED <<storeVars, appConfigs, tunnelVars, req, vms, fileVars, bounds>>

\* Mutants: the tunnel is not applied again; the row stays behind, stopped.
WatchDeletes_NoApply(id) ==
    /\ id \in DOMAIN watch /\ watch[id] = "delete"
    /\ Unwatch(id)
    /\ DeleteMachine(id)
    /\ UNCHANGED <<appConfigs, tunnelVars, req, handles, vms, fileVars, bounds>>

WatchDeletes_KeepsRow(id) ==
    /\ Advance(id, "delete", "tunnel")
    /\ UNCHANGED <<storeVars, appConfigs, tunnelVars, req, handles, vms, fileVars, bounds>>

WatchDeletes(id) ==
    /\ Advance(id, "delete", "tunnel")
    /\ DeleteMachine(id)
    /\ UNCHANGED <<appConfigs, tunnelVars, req, handles, vms, fileVars, bounds>>

-----------------------------------------------------------------------------
(* applyTunnel, called by workers and watchers.                            *)

WorkerInTunnel(w) == At(w, "tunnel")

WatcherInTunnel(id) == id \in DOMAIN watch /\ watch[id] = "tunnel"

\* A failed apply ends the request with an error; a failed restart does not.
WorkerReturns(w) ==
    \/ ApplyFails(w) /\ Finish(w)
    \/ /\ ApplyRestart(w)
       /\ IF req[w].op = "deploy" THEN Goto(w, "setowner") ELSE Finish(w)

WorkerApplies(w) ==
    /\ WorkerInTunnel(w)
    /\ \/ (ApplyRead(w) \/ ApplyWrite(w)) /\ UNCHANGED req
       \/ WorkerReturns(w)
    /\ UNCHANGED <<handles, vms, watch, fileVars, bounds>>

WatcherApplies(id) ==
    /\ WatcherInTunnel(id)
    /\ \/ (ApplyRead(id) \/ ApplyWrite(id)) /\ UNCHANGED watch
       \/ (ApplyFails(id) \/ ApplyRestart(id)) /\ Unwatch(id)
    /\ UNCHANGED <<req, handles, vms, fileVars, bounds>>

-----------------------------------------------------------------------------
DeployerInit ==
    /\ StoreInit
    /\ TunnelInit
    /\ req = [w \in Workers |-> Idle]
    /\ handles = {}
    /\ vms = NoRows
    /\ watch = NoRows
    /\ files = NoRows /\ volImages = {} /\ unremoved = {}
    /\ shuttingDown = FALSE
    /\ epoch = 1
    /\ nextMachine = 1 /\ nextImage = 1 /\ issued = 0 /\ exits = 0

\* The steps with no time limit: the wait for a release command, the pull of an
\* image, and a health check that a VM may have accepted and not answered.
Unhurried(w) ==
    \/ At(w, "wait") \/ At(w, "build")
    \/ At(w, "health") /\ req[w].cfg.port # 0 /\ Answering(req[w].ip)

\* The steps a worker takes on its own: all but CommandEnds, which waits for
\* the guest.
PrepareStep(w) ==
    \/ StoreConfig(w) \/ CacheConfig(w) \/ ReadConfig(w) \/ RecacheConfig(w)
    \/ BuildRootfs(w) \/ RecordRelease(w) \/ FindRelease(w)

BootStep(w) ==
    \/ ResolveVolumes(w) \/ ReadOwner(w) \/ FindSubnet(w) \/ InsertMachine(w)
    \/ StartMachine(w) \/ StartFails(w) \/ PrepareFails(w)
    \/ StopCommandVm(w) \/ DeleteCommandRow(w)
    \/ SetHandle(w) \/ AwaitHealthy(w)
    \/ StopNew(w) \/ UnhandleNew(w) \/ MarkFailed(w) \/ DeleteNew(w)
    \/ MarkRunning(w)

CutoverStep(w) ==
    \/ ListMachines(w) \/ StopListed(w) \/ DeleteListed(w) \/ UnhandleListed(w)
    \/ EmitOk(w) \/ WorkerApplies(w) \/ RecordOwner(w)

DestroyStep(w) ==
    \/ DestroyReleases(w) \/ DestroySecrets(w) \/ DestroyVolumes(w)
    \/ DestroyApp(w) \/ DestroyCached(w) \/ DestroyFiles(w)

WorkerStep(w) ==
    \/ PrepareStep(w) \/ BootStep(w) \/ CutoverStep(w) \/ DestroyStep(w)
    \/ ChangeSecret(w) \/ MakeVolume(w) \/ InsertVolume(w)

WatchStep(id) ==
    \/ WatchWakes(id) \/ WatchReads(id) \/ WatchMarks(id)
    \/ WatchUnhandles(id) \/ WatchDeletes(id) \/ WatcherApplies(id)

=============================================================================
