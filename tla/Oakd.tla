-------------------------------- MODULE Oakd --------------------------------
(***************************************************************************)
(* The daemon (cmd/oakd/main.go, internal/daemon/daemon.go) around the     *)
(* deployer: a run of oakd reconciles the machines the store says are      *)
(* running, serves requests, and ends by StopAll on SIGTERM or by a crash. *)
(* Either end takes every VM with it (they are children of oakd, in its    *)
(* control group), and everything in memory; the database, the rootfs      *)
(* files, the tunnel config and cloudflared survive.                       *)
(***************************************************************************)
EXTENDS Deployer

CONSTANTS
    Main,       \* the main goroutine, as a caller of applyTunnel
    MaxEpoch    \* bound on the runs of the daemon

ASSUME OakdAssumption ==
    /\ MaxEpoch \in Nat \ {0}
    /\ Pids = 0..MaxEpoch
    /\ Main \notin Workers \cup Machines \cup {Nil}

VARIABLES
    phase,    \* "reconcile", "ingress", "up", "stopping" or "down"
    pending,  \* the machines Reconcile or StopAll still has to visit
    halted    \* the machines whose VM this StopAll has stopped

oakdVars == <<phase, pending, halted>>

vars == <<deployerVars, oakdVars>>

Init ==
    /\ DeployerInit
    /\ phase = "up"
    /\ pending = {}
    /\ halted = {}

-----------------------------------------------------------------------------
(* Start: Reconcile, then applyTunnel, then Run.                           *)

Start ==
    /\ phase = "down"
    /\ epoch < MaxEpoch
    /\ epoch' = epoch + 1
    /\ phase' = "reconcile"
    /\ pending' = RunningMachines
    /\ UNCHANGED <<storeVars, appConfigs, tunnelVars, req, handles, vms, watch,
                   fileVars, shuttingDown, bounds, halted>>

\* reconcileOne looks up the release, by id alone, and the volumes; then
\* subnetForApp, which allocates a subnet when the owner has none yet; then it
\* starts the VM from the release's rootfs.
Resolved(id) ==
    LET m == machines[id] IN
    /\ m.release \in DOMAIN releases
    /\ \A v \in Lookup(m.app).mounts : <<m.app, v>> \in volumes

Owner(id) == apps[machines[id].app].owner

ReconcileSubnet(id) ==
    /\ phase = "reconcile"
    /\ id \in pending /\ id = Greatest(pending)
    /\ Resolved(id)
    /\ Owner(id) \notin DOMAIN subnets
    /\ SubnetForOwner(Owner(id))
    /\ UNCHANGED <<appConfigs, tunnelVars, req, handles, vms, watch, fileVars,
                   shuttingDown, epoch, bounds, oakdVars>>

ReconcileVisit(id) ==
    /\ phase = "reconcile"
    /\ id \in pending /\ id = Greatest(pending)
    /\ pending' = pending \ {id}
    /\ appConfigs' = Put(appConfigs, machines[id].app, Lookup(machines[id].app))
    /\ UNCHANGED <<tunnelVars, req, fileVars, shuttingDown, epoch, bounds, phase, halted>>

\* Mutants: no watcher for a reconciled machine; its row keeps the old pid.
ReconcileOne_Unwatched(id) ==
    LET m == machines[id] IN
    /\ ReconcileVisit(id)
    /\ Resolved(id) /\ Owner(id) \in DOMAIN subnets
    /\ DrivesExist(m.app, releases[m.release].image, Lookup(m.app).mounts)
    /\ Boot(id, m.app, releases[m.release].image, m.ip, subnets[Owner(id)], Lookup(m.app))
    /\ handles' = handles \cup {id}
    /\ SetMachineState(id, "running", epoch)
    /\ UNCHANGED watch

ReconcileOne_OldPid(id) ==
    LET m == machines[id] IN
    /\ ReconcileVisit(id)
    /\ Resolved(id) /\ Owner(id) \in DOMAIN subnets
    /\ DrivesExist(m.app, releases[m.release].image, Lookup(m.app).mounts)
    /\ Boot(id, m.app, releases[m.release].image, m.ip, subnets[Owner(id)], Lookup(m.app))
    /\ handles' = handles \cup {id}
    /\ watch' = Put(watch, id, "wait")
    /\ UNCHANGED storeVars

\* The VM is booted with the address in the row and on the bridge of the
\* subnet the owner has now.
ReconcileOne(id) ==
    LET m == machines[id] IN
    /\ ReconcileVisit(id)
    /\ Resolved(id) /\ Owner(id) \in DOMAIN subnets
    /\ DrivesExist(m.app, releases[m.release].image, Lookup(m.app).mounts)
    /\ Boot(id, m.app, releases[m.release].image, m.ip, subnets[Owner(id)], Lookup(m.app))
    /\ handles' = handles \cup {id}
    /\ SetMachineState(id, "running", epoch)
    /\ watch' = Put(watch, id, "wait")

\* A machine that cannot be started keeps its row, as failed.
ReconcileFails(id) ==
    /\ ReconcileVisit(id)
    /\ \/ ~Resolved(id)
       \/ Owner(id) \notin DOMAIN subnets /\ FreeSubnets = {}
       \/ /\ Resolved(id) /\ Owner(id) \in DOMAIN subnets
          /\ ~DrivesExist(machines[id].app, releases[machines[id].release].image,
                          Lookup(machines[id].app).mounts)
       \/ "start" \in Faults
    /\ SetMachineState(id, "failed", 0)
    /\ UNCHANGED <<handles, vms, watch>>

Reconciled ==
    /\ phase = "reconcile"
    /\ pending = {}
    /\ phase' = "ingress"
    /\ UNCHANGED <<deployerVars, pending, halted>>

\* Whatever applyTunnel returns, main only logs it and goes on to Run.
MainApplies ==
    /\ phase = "ingress"
    /\ \/ (ApplyRead(Main) \/ ApplyWrite(Main)) /\ UNCHANGED phase
       \/ (ApplyFails(Main) \/ ApplyRestart(Main)) /\ phase' = "up"
    /\ UNCHANGED <<req, handles, vms, watch, fileVars, shuttingDown, epoch, bounds,
                   pending, halted>>

-----------------------------------------------------------------------------
(* The end of a run.                                                       *)

\* Mutant: StopAll without the flag.
Terminate_NoFlag ==
    /\ phase = "up"
    /\ epoch < MaxEpoch
    /\ phase' = "stopping"
    /\ pending' = handles
    /\ UNCHANGED <<storeVars, appConfigs, tunnelVars, req, handles, vms, watch,
                   fileVars, shuttingDown, epoch, bounds, halted>>

\* SIGTERM: Run closes its listeners and returns; StopAll raises the flag and
\* copies the handles.  Requests that are being served go on meanwhile.
Terminate ==
    /\ phase = "up"
    /\ epoch < MaxEpoch
    /\ phase' = "stopping"
    /\ shuttingDown' = TRUE
    /\ pending' = handles
    /\ UNCHANGED <<storeVars, appConfigs, tunnelVars, req, handles, vms, watch,
                   fileVars, epoch, bounds, halted>>

StopOne(id) ==
    /\ phase = "stopping"
    /\ id \in pending
    /\ pending' = pending \ {id}
    /\ vms' = Drop(vms, {id})
    /\ handles' = handles \ {id}
    /\ halted' = halted \cup ({id} \cap DOMAIN vms)
    /\ UNCHANGED <<storeVars, appConfigs, tunnelVars, req, watch, fileVars,
                   shuttingDown, epoch, bounds, phase>>

\* What is left of a run once its process is gone.
Gone ==
    /\ phase' = "down"
    /\ pending' = {} /\ halted' = {}
    /\ req' = [w \in Workers |-> Idle]
    /\ handles' = {} /\ vms' = NoRows /\ watch' = NoRows
    /\ appConfigs' = NoRows
    /\ tunnelMu' = Nil /\ rendering' = NotRendering
    /\ shuttingDown' = FALSE
    /\ UNCHANGED <<storeVars, disk, live, fileVars, epoch, bounds>>

Exit == phase = "stopping" /\ pending = {} /\ Gone

Crash == phase # "down" /\ "crash" \in Faults /\ epoch < MaxEpoch /\ Gone

-----------------------------------------------------------------------------
DeployerStep ==
    /\ \/ phase = "up" /\ \E w \in Workers : Issue(w)
       \/ \E w \in Workers : WorkerStep(w) \/ CommandEnds(w)
       \/ \E id \in Machines : WatchStep(id) \/ VmExit(id)
    /\ UNCHANGED <<shuttingDown, epoch, oakdVars>>

MainStep ==
    \/ Start
    \/ \E id \in Machines :
          ReconcileSubnet(id) \/ ReconcileOne(id) \/ ReconcileFails(id) \/ StopOne(id)
    \/ Reconciled
    \/ MainApplies
    \/ Exit

Next == DeployerStep \/ MainStep \/ Terminate \/ Crash

Spec == Init /\ [][Next]_vars

\* The scheduler runs every goroutine that can run, and a signalled VM exits.
\* Nothing obliges a client to send a request, a guest to exit or to answer, a
\* registry to deliver or the daemon to stop.
Fairness ==
    /\ \A w \in Workers : WF_vars(/\ ~Unhurried(w) /\ WorkerStep(w)
                                  /\ UNCHANGED <<shuttingDown, epoch, oakdVars>>)
    /\ \A id \in Machines :
          /\ WF_vars(WatchStep(id) /\ UNCHANGED <<shuttingDown, epoch, oakdVars>>)
          /\ WF_vars(/\ id \in DOMAIN vms /\ vms[id].dying
                     /\ VmExit(id) /\ UNCHANGED <<shuttingDown, epoch, oakdVars>>)
    /\ WF_vars(MainStep)

FairSpec == Spec /\ Fairness

=============================================================================
