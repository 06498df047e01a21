--------------------------- MODULE OakdApps_proofs ---------------------------
(***************************************************************************)
(* What requests leave of an app: its releases and rootfs files, its       *)
(* volumes, its config in memory and its routes, when deploys overlap and  *)
(* apps are destroyed.                                                     *)
(*                                                                         *)
(* A destroy takes an app apart in ten steps and holds nothing locked, so  *)
(* most theorems have DestroysAlone as hypothesis: while an app is being   *)
(* destroyed no other request is about it.  Requests about other apps, the *)
(* watchers and the main goroutine go on as they like.                     *)
(***************************************************************************)
EXTENDS OakdSafety_proofs

\* A request after the loop of Destroy.
TeardownPcs == {"releases", "secrets", "dropvolumes", "dropapp", "uncache", "removefiles"}

-----------------------------------------------------------------------------
(* Where a request comes from, once more: the steps that lead to the        *)
(* places the invariants below speak of.                                   *)

Came(w, pc) ==
    /\ pc = "cache" => StoreConfig(w)
    /\ pc = "recache" => ReadConfig(w)
    /\ pc = "build" => CacheConfig(w)
    /\ pc = "insert" => BuildRootfs(w)
    /\ pc = "list" => MarkRunning(w)
    /\ pc \in {"releases", "ok"} => ListMachines(w) \/ UnhandleListed(w)
    /\ pc = "releases" => req[w].op = "destroy"
    /\ pc = "secrets" => DestroyReleases(w)
    /\ pc = "dropvolumes" => DestroySecrets(w)
    /\ pc = "dropapp" => DestroyVolumes(w)
    /\ pc = "uncache" => DestroyApp(w)
    /\ pc = "removefiles" => DestroyCached(w)
    /\ pc = "tunnel" => \/ EmitOk(w) \/ DestroyFiles(w)
                        \/ (WorkerApplies(w) /\ UNCHANGED req)
    /\ pc = "insertvolume" => MakeVolume(w)

\* A request is new, is over, or is about the same app as before.
Goes(w) ==
    /\ \A x \in Workers : x # w => req'[x] = req[x]
    /\ \/ req'[w].pc = "idle" /\ req'[w].op = "none"
       \/ /\ Issue(w) /\ req'[w].pc \in {"upsert", "config", "list", "secret", "unsecret", "volume"}
       \/ /\ req'[w].app = req[w].app /\ req'[w].op = req[w].op
          /\ Came(w, req'[w].pc)

LEMMA PrepareGoes ==
    ASSUME req \in [Workers -> ReqType], NEW w \in Workers, PrepareStep(w)
    PROVE  Goes(w)
<1>1. ASSUME Finish(w) PROVE Goes(w)
  BY <1>1, FinishEffect DEF Goes
<1>2. ASSUME NEW p, Goto(w, p), Came(w, p) PROVE Goes(w)
  BY <1>2, GotoEffect DEF Goes
<1>3. CASE StoreConfig(w)
  BY <1>2, <1>3 DEF StoreConfig, Came
<1>4. CASE CacheConfig(w)
  BY <1>2, <1>4 DEF CacheConfig, Came
<1>5. CASE RecacheConfig(w)
  BY <1>2, <1>5 DEF RecacheConfig, AfterConfig, Came
<1>6. CASE ReadConfig(w)
  <2>1. ASSUME NEW k, NEW p, req' = [req EXCEPT ![w].cfg = k, ![w].pc = p], Came(w, p)
        PROVE  Goes(w)
    <3>1. /\ \A x \in Workers : x # w => req'[x] = req[x]
          /\ req'[w].app = req[w].app /\ req'[w].op = req[w].op /\ req'[w].pc = p
      BY <2>1 DEF ReqType
    <3> QED BY <2>1, <3>1 DEF Goes
  <2>2. Came(w, AfterConfig(req[w].op)) /\ Came(w, "recache")
    BY <1>6 DEF AfterConfig, Came
  <2> QED BY <1>1, <1>6, <2>1, <2>2 DEF ReadConfig, Finish
<1>7. CASE BuildRootfs(w)
  <2>1. ASSUME NEW i, req' = [req EXCEPT ![w].image = i, ![w].pc = "insert"]
        PROVE  Goes(w)
    <3>1. /\ \A x \in Workers : x # w => req'[x] = req[x]
          /\ req'[w].app = req[w].app /\ req'[w].op = req[w].op /\ req'[w].pc = "insert"
      BY <2>1 DEF ReqType
    <3> QED BY <1>7, <3>1 DEF Goes, Came
  <2> QED BY <1>1, <1>7, <2>1 DEF BuildRootfs
<1>8. CASE RecordRelease(w)
  <2> DEFINE c == IF req[w].cfg.release THEN "run" ELSE "none"
             p == IF req[w].cfg.release THEN "owner" ELSE "volumes"
  <2>1. CASE ~Finish(w)
    <3>1. req' = [req EXCEPT ![w].release = NextReleaseId, ![w].command = c, ![w].pc = p]
      BY <1>8, <2>1 DEF RecordRelease
    <3>2. p \in {"owner", "volumes"}
      OBVIOUS
    <3> HIDE DEF c, p
    <3>3. /\ \A x \in Workers : x # w => req'[x] = req[x]
          /\ req'[w].app = req[w].app /\ req'[w].op = req[w].op /\ req'[w].pc = p
      BY <3>1 DEF ReqType
    <3> QED BY <3>2, <3>3 DEF Goes, Came
  <2> QED BY <1>1, <2>1
<1>9. CASE FindRelease(w)
  <2>1. ASSUME NEW n, NEW i, req' = [req EXCEPT ![w].release = n, ![w].image = i, ![w].pc = "volumes"]
        PROVE  Goes(w)
    <3>1. /\ \A x \in Workers : x # w => req'[x] = req[x]
          /\ req'[w].app = req[w].app /\ req'[w].op = req[w].op /\ req'[w].pc = "volumes"
      BY <2>1 DEF ReqType
    <3> QED BY <3>1 DEF Goes, Came
  <2> QED BY <1>1, <1>9, <2>1 DEF FindRelease, Finish
<1> QED
  BY <1>3, <1>4, <1>5, <1>6, <1>7, <1>8, <1>9 DEF PrepareStep

LEMMA BootGoes ==
    ASSUME req \in [Workers -> ReqType], NEW w \in Workers, BootStep(w) \/ CommandEnds(w)
    PROVE  Goes(w)
<1>1. ASSUME Finish(w) PROVE Goes(w)
  BY <1>1, FinishEffect DEF Goes
<1>2. ASSUME NEW p, Goto(w, p), Came(w, p) PROVE Goes(w)
  BY <1>2, GotoEffect DEF Goes
<1>3. ASSUME NEW c, NEW p, req' = [req EXCEPT ![w].command = c, ![w].pc = p], Came(w, p)
      PROVE  Goes(w)
  <2>1. /\ \A x \in Workers : x # w => req'[x] = req[x]
        /\ req'[w].app = req[w].app /\ req'[w].op = req[w].op /\ req'[w].pc = p
    BY <1>3, CommandChange
  <2> QED BY <1>3, <2>1 DEF Goes
<1>4. CASE ReadOwner(w)
  <2>1. ASSUME NEW o, req' = [req EXCEPT ![w].tenant = o, ![w].pc = "subnet"]
        PROVE  Goes(w)
    <3>1. /\ \A x \in Workers : x # w => req'[x] = req[x]
          /\ req'[w].app = req[w].app /\ req'[w].op = req[w].op /\ req'[w].pc = "subnet"
      BY <2>1 DEF ReqType
    <3> QED BY <3>1 DEF Goes, Came
  <2> QED BY <1>1, <1>4, <2>1 DEF ReadOwner, Finish
<1>5. CASE FindSubnet(w)
  <2>1. ASSUME NEW i, req' = [req EXCEPT ![w].idx = i, ![w].tenant = Nil, ![w].pc = "alloc"]
        PROVE  Goes(w)
    <3>1. /\ \A x \in Workers : x # w => req'[x] = req[x]
          /\ req'[w].app = req[w].app /\ req'[w].op = req[w].op /\ req'[w].pc = "alloc"
      BY <2>1 DEF ReqType
    <3> QED BY <3>1 DEF Goes, Came
  <2> QED BY <1>1, <1>5, <2>1 DEF FindSubnet
<1>6. CASE InsertMachine(w)
  <2>1. ASSUME NEW n, NEW i, req' = [req EXCEPT ![w].id = n, ![w].ip = i, ![w].pc = "start"]
        PROVE  Goes(w)
    <3>1. /\ \A x \in Workers : x # w => req'[x] = req[x]
          /\ req'[w].app = req[w].app /\ req'[w].op = req[w].op /\ req'[w].pc = "start"
      BY <2>1 DEF ReqType
    <3> QED BY <3>1 DEF Goes, Came
  <2> QED BY <1>1, <1>6, <2>1 DEF InsertMachine
<1>7. CASE DeleteCommandRow(w)
  <2>1. ASSUME req' = [req EXCEPT ![w].command = "none", ![w].id = 0, ![w].idx = 0,
                                  ![w].ip = <<0, 0>>, ![w].pc = "volumes"]
        PROVE  Goes(w)
    <3>1. /\ \A x \in Workers : x # w => req'[x] = req[x]
          /\ req'[w].app = req[w].app /\ req'[w].op = req[w].op /\ req'[w].pc = "volumes"
      BY <2>1 DEF ReqType
    <3> QED BY <3>1 DEF Goes, Came
  <2> QED BY <1>1, <1>7, <2>1 DEF DeleteCommandRow, Finish
<1>8. CASE StartFails(w) \/ PrepareFails(w) \/ CommandEnds(w)
  <2>1. \/ \E c, p : p \in {"unclaim", "stopvm"} /\ req' = [req EXCEPT ![w].command = c, ![w].pc = p]
        \/ Finish(w)
        \/ Goto(w, "failed")
    BY <1>8 DEF StartFails, PrepareFails, CommandEnds, Finish, Goto
  <2>2. Came(w, "unclaim") /\ Came(w, "stopvm") /\ Came(w, "failed")
    BY DEF Came
  <2> QED BY <1>1, <1>2, <1>3, <2>1, <2>2
<1>9. CASE ResolveVolumes(w) \/ StartMachine(w) \/ StopCommandVm(w) \/ SetHandle(w) \/ AwaitHealthy(w)
  <2>1. Finish(w) \/ \E p \in {"owner", "wait", "handle", "unclaim", "health", "running", "stopnew"} : Goto(w, p)
    BY <1>9 DEF ResolveVolumes, StartMachine, StopCommandVm, SetHandle, AwaitHealthy
  <2>2. \A p \in {"owner", "wait", "handle", "unclaim", "health", "running", "stopnew"} : Came(w, p)
    BY DEF Came
  <2> QED BY <1>1, <1>2, <2>1, <2>2
<1>10. CASE StopNew(w) \/ UnhandleNew(w) \/ MarkFailed(w) \/ DeleteNew(w)
  <2>1. Finish(w) \/ \E p \in {"unhandlenew", "failed", "deletenew"} : Goto(w, p)
    BY <1>10 DEF StopNew, UnhandleNew, MarkFailed, DeleteNew
  <2>2. \A p \in {"unhandlenew", "failed", "deletenew"} : Came(w, p)
    BY DEF Came
  <2> QED BY <1>1, <1>2, <2>1, <2>2
<1>11. CASE MarkRunning(w)
  BY <1>1, <1>2, <1>11 DEF MarkRunning, Came
<1> QED
  BY <1>4, <1>5, <1>6, <1>7, <1>8, <1>9, <1>10, <1>11 DEF BootStep

LEMMA WorkerGoes ==
    ASSUME DaemonInv, NEW w \in Workers, Issue(w) \/ WorkerStep(w) \/ CommandEnds(w)
    PROVE  Goes(w)
<1>1. req \in [Workers -> ReqType]
  BY DEF DaemonInv, Locals
<1>2. ASSUME Finish(w) PROVE Goes(w)
  BY <1>1, <1>2, FinishEffect DEF Goes
<1>3. ASSUME NEW p, Goto(w, p), Came(w, p) PROVE Goes(w)
  BY <1>1, <1>3, GotoEffect DEF Goes
<1>4. ASSUME NEW S, NEW p, req' = [req EXCEPT ![w].todo = S, ![w].pc = p], Came(w, p)
      PROVE  Goes(w)
  BY <1>1, <1>4, TodoChange DEF Goes
<1>5. CASE Issue(w)
  BY <1>1, <1>5, IssueChange DEF Goes
<1>6. CASE ListMachines(w) \/ UnhandleListed(w)
  <2>1. PICK S : req' = [req EXCEPT ![w].todo = S, ![w].pc = LoopPc(req[w].op, S)]
    BY <1>6 DEF ListMachines, UnhandleListed
  <2>2. Came(w, LoopPc(req[w].op, S))
    BY <1>6 DEF LoopPc, AfterLoop, Came
  <2> QED BY <1>4, <2>1, <2>2
<1>7. CASE StopListed(w) \/ DeleteListed(w)
  <2>1. Came(w, "delete") /\ Came(w, "unhandle")
    BY DEF Came
  <2> QED BY <1>3, <1>7, <2>1 DEF StopListed, DeleteListed
<1>8. CASE EmitOk(w) \/ RecordOwner(w)
  BY <1>2, <1>3, <1>8 DEF EmitOk, RecordOwner, Came
<1>9. CASE WorkerApplies(w)
  <2>1. \/ Finish(w) \/ Goto(w, "setowner") \/ (At(w, "tunnel") /\ UNCHANGED req)
    BY <1>9 DEF WorkerApplies, WorkerReturns, WorkerInTunnel
  <2>2. Came(w, "setowner")
    BY DEF Came
  <2>3. CASE At(w, "tunnel") /\ UNCHANGED req
    BY <1>9, <2>3 DEF Goes, Came, At
  <2> QED BY <1>2, <1>3, <2>1, <2>2, <2>3
<1>10. CASE DestroyReleases(w) \/ DestroySecrets(w) \/ DestroyVolumes(w)
  BY <1>3, <1>10 DEF DestroyReleases, DestroySecrets, DestroyVolumes, Came
<1>11. CASE DestroyApp(w) \/ DestroyCached(w) \/ DestroyFiles(w)
  BY <1>2, <1>3, <1>11 DEF DestroyApp, DestroyCached, DestroyFiles, Came
<1>12. CASE ChangeSecret(w) \/ InsertVolume(w)
  BY <1>2, <1>12 DEF ChangeSecret, InsertVolume
<1>13. CASE MakeVolume(w)
  <2>1. Came(w, "insertvolume")
    BY <1>13 DEF Came
  <2>2. Finish(w) \/ \E S : req' = [req EXCEPT ![w].todo = S, ![w].pc = "insertvolume"]
    BY <1>13 DEF MakeVolume
  <2> QED BY <1>2, <1>4, <2>1, <2>2
<1>14. CASE CutoverStep(w) \/ DestroyStep(w)
  BY <1>6, <1>7, <1>8, <1>9, <1>10, <1>11, <1>14 DEF CutoverStep, DestroyStep
<1> QED
  BY <1>1, <1>5, <1>12, <1>13, <1>14, PrepareGoes, BootGoes DEF WorkerStep

-----------------------------------------------------------------------------
(* Who writes what.                                                        *)

\* Destroy removes all the files of the app and goes on to the tunnel, or some of
\* them and is over.
LEMMA FilesRemoved ==
    ASSUME DaemonInv, NEW w \in Workers, DestroyFiles(w)
    PROVE  /\ req[w].pc = "removefiles" /\ UNCHANGED <<storeVars, appConfigs, tunnelVars, bounds>>
           /\ \E S \in SUBSET VolumeGlob(req[w].app) : volImages' = volImages \ S
           /\ \/ /\ files' = Drop(files, RootfsOf(req[w].app))
                 /\ unremoved' = unremoved \ {req[w].app}
                 /\ req'[w].pc = "tunnel"
              \/ /\ \E S \in SUBSET RootfsOf(req[w].app) : files' = Drop(files, S)
                 /\ unremoved' = unremoved \cup {req[w].app}
                 /\ req'[w].pc = "idle"
<1>1. req \in [Workers -> ReqType]
  BY DEF DaemonInv, Locals
<1>2. Goto(w, "tunnel") => req'[w].pc = "tunnel"
  BY <1>1, GotoEffect
<1>3. Finish(w) => req'[w].pc = "idle"
  BY <1>1, FinishEffect
<1> QED
  BY <1>2, <1>3 DEF DestroyFiles, At

LEMMA WorkerWrites ==
    ASSUME NEW w \in Workers, Issue(w) \/ WorkerStep(w) \/ CommandEnds(w)
    PROVE  /\ apps' = apps \/ StoreConfig(w) \/ RecordOwner(w) \/ DestroyApp(w)
           /\ releases' = releases \/ RecordRelease(w) \/ DestroyReleases(w)
           /\ volumes' = volumes \/ InsertVolume(w) \/ DestroyVolumes(w)
           /\ \/ appConfigs' = appConfigs
              \/ CacheConfig(w) \/ RecacheConfig(w) \/ DestroyCached(w) \/ WorkerApplies(w)
           /\ UNCHANGED <<files, nextImage>> \/ BuildRootfs(w) \/ DestroyFiles(w)
           /\ volImages' = volImages \/ MakeVolume(w) \/ DestroyFiles(w)
           /\ unremoved' = unremoved \/ DestroyFiles(w)
           /\ UNCHANGED tunnelVars \/ WorkerApplies(w)
<1>1. CASE PrepareStep(w)
  BY <1>1 DEF PrepareStep, StoreConfig, CacheConfig, ReadConfig, RecacheConfig, BuildRootfs,
     RecordRelease, FindRelease, UpsertApp, InsertRelease, storeVars, fileVars, bounds
<1>2. CASE ResolveVolumes(w) \/ ReadOwner(w) \/ FindSubnet(w) \/ InsertMachine(w)
  BY <1>2 DEF ResolveVolumes, ReadOwner, FindSubnet, SubnetForOwner, InsertMachine,
     AllocAndInsertMachine, storeVars, fileVars, bounds
<1>3. CASE StartMachine(w) \/ StartFails(w) \/ PrepareFails(w) \/ StopCommandVm(w)
           \/ DeleteCommandRow(w) \/ CommandEnds(w)
  BY <1>3 DEF StartMachine, StartFails, PrepareFails, StopCommandVm, DeleteCommandRow,
     DeleteMachine, CommandEnds, storeVars, fileVars, bounds
<1>4. CASE SetHandle(w) \/ AwaitHealthy(w) \/ StopNew(w) \/ UnhandleNew(w) \/ MarkFailed(w)
           \/ DeleteNew(w) \/ MarkRunning(w)
  BY <1>4 DEF SetHandle, AwaitHealthy, StopNew, UnhandleNew, MarkFailed, DeleteNew, MarkRunning,
     DeleteMachine, SetMachineState, storeVars, fileVars, bounds
<1>5. CASE ListMachines(w) \/ StopListed(w) \/ DeleteListed(w) \/ UnhandleListed(w) \/ EmitOk(w)
           \/ RecordOwner(w)
  BY <1>5 DEF ListMachines, StopListed, DeleteListed, UnhandleListed, EmitOk, RecordOwner,
     DeleteMachine, SetAppOwner, storeVars, fileVars, bounds
<1>6. CASE WorkerApplies(w)
  BY <1>6 DEF WorkerApplies, WorkerReturns, ApplyRead, ApplyWrite, ApplyFails, ApplyRestart,
     storeVars, fileVars, bounds
<1>7. CASE DestroyStep(w)
  BY <1>7 DEF DestroyStep, DestroyReleases, DestroySecrets, DestroyVolumes, DestroyApp,
     DestroyCached, DestroyFiles, DeleteReleasesForApp, DeleteSecretsForApp,
     DeleteVolumesForApp, DeleteApp, storeVars, fileVars, bounds
<1>8. CASE Issue(w) \/ ChangeSecret(w) \/ MakeVolume(w) \/ InsertVolume(w)
  BY <1>8 DEF Issue, ChangeSecret, MakeVolume, InsertVolume, PutSecret, DeleteSecret,
     CreateVolume, storeVars, fileVars, bounds
<1> QED
  BY <1>1, <1>2, <1>3, <1>4, <1>5, <1>6, <1>7, <1>8 DEF WorkerStep, BootStep, CutoverStep

LEMMA WatcherWrites ==
    ASSUME NEW n \in Machines, WatchStep(n) \/ VmExit(n)
    PROVE  /\ UNCHANGED <<req, apps, releases, volumes, files, volImages, unremoved, nextImage>>
           /\ UNCHANGED <<appConfigs, tunnelVars>> \/ WatcherApplies(n)
<1>1. CASE WatcherApplies(n)
  BY <1>1 DEF WatcherApplies, ApplyRead, ApplyWrite, ApplyFails, ApplyRestart, storeVars,
     fileVars, bounds
<1>2. CASE ~WatcherApplies(n)
  BY <1>2 DEF WatchStep, WatchWakes, WatchReads, WatchMarks, WatchUnhandles, WatchDeletes, VmExit,
     SetMachineState, DeleteMachine, storeVars, fileVars, bounds
<1> QED
  BY <1>1, <1>2

\* A run that is over leaves no request.
LEMMA MainWrites ==
    ASSUME MainStep \/ Terminate \/ Crash
    PROVE  /\ UNCHANGED <<apps, releases, volumes, files, volImages, unremoved, nextImage>>
           /\ req' = req \/ Gone
<1>1. CASE MainApplies
  BY <1>1 DEF MainApplies, ApplyRead, ApplyWrite, ApplyFails, ApplyRestart, storeVars,
     fileVars, bounds
<1>2. CASE Start \/ Reconciled \/ Exit \/ Terminate \/ Crash
  BY <1>2 DEF Start, Reconciled, Exit, Terminate, Crash, Gone, deployerVars, storeVars, fileVars,
     bounds
<1>3. ASSUME NEW n \in Machines,
             ReconcileSubnet(n) \/ StopOne(n) \/ ReconcileOne(n) \/ ReconcileFails(n)
      PROVE  UNCHANGED <<apps, releases, volumes, files, volImages, unremoved, nextImage, req>>
  BY <1>3 DEF ReconcileSubnet, SubnetForOwner, StopOne, ReconcileOne, ReconcileFails,
     ReconcileVisit, SetMachineState, storeVars, fileVars, bounds
<1> QED
  BY <1>1, <1>2, <1>3 DEF MainStep

\* Nothing is added to an app.
Spares(a) ==
    /\ \A m \in DOMAIN machines' :
           machines'[m].app = a => m \in DOMAIN machines /\ machines[m].app = a
    /\ \A r \in DOMAIN releases' :
           releases'[r].app = a => r \in DOMAIN releases /\ releases[r].app = a
    /\ \A v \in volumes' : v[1] = a => v \in volumes
    /\ a \in DOMAIN apps' => a \in DOMAIN apps

\* A change of state leaves the rows with their apps.
LEMMA SameApps ==
    ASSUME DaemonInv, NEW id, NEW s, NEW p, SetMachineState(id, s, p)
    PROVE  /\ DOMAIN machines' = DOMAIN machines
           /\ \A m \in DOMAIN machines : /\ machines'[m].app = machines[m].app
                                         /\ machines'[m].release = machines[m].release
<1>1. id \in DOMAIN machines /\ machines' = [machines EXCEPT ![id].state = s, ![id].pid = p]
  BY DEF SetMachineState
<1>2. machines[id] \in MachineRow
  BY <1>1 DEF DaemonInv, StoreInv, StoreTypeOK
<1>3. machines'[id].app = machines[id].app /\ machines'[id].release = machines[id].release
  BY <1>1, <1>2 DEF MachineRow
<1> QED
  BY <1>1, <1>3

\* A row is there already, with its app and release, or w has just inserted it.
Stays(m) ==
    /\ m \in DOMAIN machines
    /\ machines'[m].app = machines[m].app /\ machines'[m].release = machines[m].release

LEMMA RowsOfWorker ==
    ASSUME DaemonInv, NEW w \in Workers, Issue(w) \/ WorkerStep(w) \/ CommandEnds(w),
           NEW m \in DOMAIN machines'
    PROVE  \/ Stays(m)
           \/ /\ InsertMachine(w) /\ req[w].pc = "alloc" /\ m = nextMachine
              /\ machines'[m].app = req[w].app /\ machines'[m].release = req[w].release
<1>1. CASE RowsLess
  BY <1>1 DEF RowsLess, Stays
<1>2. CASE InsertMachine(w)
  <2>1. CASE Finish(w)
    BY <1>2, <2>1, InsertRefused DEF storeVars, Stays
  <2>2. CASE ~Finish(w)
    <3>1. machines' = Put(machines, nextMachine,
                          [app |-> req[w].app, release |-> req[w].release,
                           ip |-> allocIP(req[w].idx), state |-> "starting", pid |-> 0])
      BY <1>2, <2>2 DEF InsertMachine, AllocAndInsertMachine
    <3> QED BY <1>2, <3>1 DEF Put, Stays, InsertMachine, At
  <2> QED BY <2>1, <2>2
<1>3. CASE MarkFailed(w) \/ MarkRunning(w)
  <2>1. machines' = machines \/ \E s, p : SetMachineState(req[w].id, s, p)
    BY <1>3 DEF MarkFailed, MarkRunning, storeVars
  <2> QED BY <2>1, SameApps DEF Stays
<1> QED
  BY <1>1, <1>2, <1>3, WorkerFrame

LEMMA RowsOfOthers ==
    ASSUME DaemonInv, \/ \E n \in Machines : WatchStep(n) \/ VmExit(n)
                      \/ MainStep \/ Terminate \/ Crash
    PROVE  \A m \in DOMAIN machines' : Stays(m)
<1>1. ASSUME NEW n \in Machines, WatchStep(n) \/ VmExit(n)
      PROVE  \A m \in DOMAIN machines' : Stays(m)
  <2>1. \/ RowsLess
        \/ SetMachineState(n, "stopped", 0)
    BY <1>1, FewerRows DEF WatchStep, WatchWakes, WatchReads, WatchMarks, WatchUnhandles,
       WatchDeletes, WatcherApplies, VmExit, ApplyRead, ApplyWrite, ApplyFails, ApplyRestart
  <2> QED BY <2>1, SameApps DEF RowsLess, Stays
<1>2. ASSUME MainStep \/ Terminate \/ Crash
      PROVE  \A m \in DOMAIN machines' : Stays(m)
  <2>1. \/ machines' = machines
        \/ \E n, s, p : SetMachineState(n, s, p)
    BY <1>2, MainRows DEF ReconcileOne, ReconcileFails
  <2> QED BY <2>1, SameApps DEF Stays
<1> QED
  BY <1>1, <1>2

LEMMA WorkerSpares ==
    ASSUME DaemonInv, NEW w \in Workers, Issue(w) \/ WorkerStep(w) \/ CommandEnds(w), NEW a
    PROVE  \/ Spares(a)
           \/ /\ a = req[w].app
              /\ StoreConfig(w) \/ RecordRelease(w) \/ InsertMachine(w) \/ InsertVolume(w)
<1>1. SUFFICES ASSUME ~(/\ a = req[w].app
                        /\ StoreConfig(w) \/ RecordRelease(w) \/ InsertMachine(w) \/ InsertVolume(w))
               PROVE  Spares(a)
  OBVIOUS
<1>2. ASSUME NEW m \in DOMAIN machines', machines'[m].app = a
      PROVE  m \in DOMAIN machines /\ machines[m].app = a
  BY <1>1, <1>2, RowsOfWorker DEF Stays
<1>3. ASSUME NEW r \in DOMAIN releases', releases'[r].app = a
      PROVE  r \in DOMAIN releases /\ releases[r].app = a
  <2>1. CASE RecordRelease(w)
    BY <1>1, <1>3, <2>1 DEF RecordRelease, InsertRelease, Put, storeVars
  <2>2. CASE DestroyReleases(w)
    BY <1>3, <2>2 DEF DestroyReleases, DeleteReleasesForApp, Drop
  <2> QED BY <1>3, <2>1, <2>2, WorkerWrites
<1>4. ASSUME NEW v \in volumes', v[1] = a
      PROVE  v \in volumes
  <2>1. CASE InsertVolume(w)
    BY <1>1, <1>4, <2>1 DEF InsertVolume, CreateVolume, storeVars
  <2>2. CASE DestroyVolumes(w)
    BY <1>4, <2>2 DEF DestroyVolumes, DeleteVolumesForApp
  <2> QED BY <1>4, <2>1, <2>2, WorkerWrites
<1>5. ASSUME a \in DOMAIN apps'
      PROVE  a \in DOMAIN apps
  <2>1. CASE StoreConfig(w)
    BY <1>1, <1>5, <2>1 DEF StoreConfig, UpsertApp, Put
  <2>2. CASE RecordOwner(w) \/ DestroyApp(w)
    BY <1>5, <2>2 DEF RecordOwner, SetAppOwner, DestroyApp, DeleteApp, Drop, storeVars
  <2> QED BY <1>5, <2>1, <2>2, WorkerWrites
<1> QED
  BY <1>2, <1>3, <1>4, <1>5 DEF Spares

LEMMA OthersSpare ==
    ASSUME DaemonInv, NEW a, \/ \E n \in Machines : WatchStep(n) \/ VmExit(n)
                             \/ MainStep \/ Terminate \/ Crash
    PROVE  Spares(a)
<1>1. UNCHANGED <<apps, releases, volumes>>
  BY WatcherWrites, MainWrites
<1> QED
  BY <1>1, RowsOfOthers DEF Spares, Stays

-----------------------------------------------------------------------------
(* What a destroy has taken away stays away.                               *)

TornDown(w) ==
    LET r == req[w] IN
    /\ r.pc \in {"stop", "delete"} => MachinesForApp(r.app) \subseteq r.todo
    /\ r.pc = "unhandle" => MachinesForApp(r.app) \subseteq r.todo \ {Current(w)}
    /\ r.pc \in TeardownPcs => MachinesForApp(r.app) = {}
    /\ r.pc \in TeardownPcs \ {"releases"} => ReleasesOf(r.app) = {}
    /\ r.pc \in {"dropapp", "uncache", "removefiles"} => \A v \in volumes : v[1] # r.app
    /\ r.pc \in {"uncache", "removefiles"} => r.app \notin DOMAIN apps

Teardown ==
    \A w \in Workers : /\ req[w].pc \in TeardownPcs => req[w].op = "destroy"
                       /\ req[w].op = "destroy" => TornDown(w)

LEMMA StaysTornDown ==
    ASSUME NEW x \in Workers, TornDown(x), req'[x] = req[x], Spares(req[x].app)
    PROVE  TornDown(x)'
  BY DEF TornDown, Spares, MachinesForApp, ReleasesOf, Current

\* The destroy's own steps.
LEMMA TearsDown ==
    ASSUME DaemonInv, Teardown, NEW w \in Workers, Issue(w) \/ WorkerStep(w) \/ CommandEnds(w)
    PROVE  /\ req'[w].pc \in TeardownPcs => req'[w].op = "destroy"
           /\ req'[w].op = "destroy" => TornDown(w)'
<1>1. req \in [Workers -> ReqType]
  BY DEF DaemonInv, Locals
<1>2. CASE req'[w].pc = "idle" \/ Issue(w)
  <2>1. req'[w].pc \in {"idle", "upsert", "config", "list", "secret", "unsecret", "volume"}
    BY <1>1, <1>2, IssueChange
  <2> QED BY <2>1 DEF TornDown, TeardownPcs
<1>3. CASE ~Issue(w) /\ req'[w].pc # "idle"
  <2>1. /\ req'[w].app = req[w].app /\ req'[w].op = req[w].op
        /\ Came(w, req'[w].pc) /\ Arrival(w, req'[w].pc)
    BY <1>3, WorkerGoes, WorkerMoves DEF Goes
  <2>2. req'[w].pc \in TeardownPcs => req[w].op = "destroy"
    BY <2>1 DEF Teardown, TeardownPcs, Came, At, DestroyReleases, DestroySecrets, DestroyVolumes,
       DestroyApp, DestroyCached
  <2>3. SUFFICES ASSUME req[w].op = "destroy" PROVE TornDown(w)'
    BY <2>1, <2>2
  <2>4. TornDown(w)
    BY <2>3 DEF Teardown
  <2>5. CASE ListMachines(w) \/ UnhandleListed(w)
    <3>1. /\ req'[w].todo = IF ListMachines(w) THEN MachinesForApp(req[w].app)
                                               ELSE req[w].todo \ {Current(w)}
          /\ req'[w].pc = IF req'[w].todo = {} THEN "releases" ELSE "stop"
          /\ machines' = machines
      BY <1>1, <2>3, <2>5 DEF ListMachines, UnhandleListed, Doomed, LoopPc, AfterLoop, ReqType, storeVars, At
    <3>2. MachinesForApp(req[w].app) \subseteq req'[w].todo
      BY <2>4, <2>5, <3>1 DEF TornDown, UnhandleListed, At
    <3> QED BY <2>1, <3>1, <3>2 DEF TornDown, MachinesForApp, TeardownPcs
  <2>6. CASE StopListed(w) \/ DeleteListed(w)
    <3>1. /\ req'[w].todo = req[w].todo
          /\ \/ req'[w].pc = "delete" /\ req[w].pc = "stop" /\ machines' = machines
             \/ /\ req'[w].pc = "unhandle" /\ req[w].pc = "delete"
                /\ machines' = Drop(machines, {Current(w)})
      BY <1>1, <2>6, GotoEffect DEF StopListed, DeleteListed, DeleteMachine, At, storeVars
    <3>2. Current(w)' = Current(w)
      BY <3>1 DEF Current
    <3> QED BY <2>1, <2>4, <3>1, <3>2 DEF TornDown, MachinesForApp, TeardownPcs, Drop
  <2>7. CASE DestroyReleases(w)
    <3>1. req'[w].pc = "secrets" /\ req[w].pc = "releases" /\ machines' = machines
          /\ releases' = Drop(releases, ReleasesOf(req[w].app))
      BY <1>1, <2>7, GotoEffect DEF DestroyReleases, DeleteReleasesForApp, At
    <3> QED BY <2>1, <2>4, <3>1 DEF TornDown, MachinesForApp, ReleasesOf, TeardownPcs, Drop
  <2>8. CASE DestroySecrets(w) \/ DestroyVolumes(w)
    <3>1. /\ machines' = machines /\ releases' = releases
          /\ \/ req[w].pc = "secrets" /\ req'[w].pc = "dropvolumes"
             \/ /\ req[w].pc = "dropvolumes" /\ req'[w].pc = "dropapp"
                /\ volumes' = {v \in volumes : v[1] # req[w].app}
      BY <1>1, <2>8, GotoEffect DEF DestroySecrets, DestroyVolumes, DeleteSecretsForApp,
         DeleteVolumesForApp, At
    <3> QED BY <2>1, <2>4, <3>1 DEF TornDown, MachinesForApp, ReleasesOf, TeardownPcs
  <2>9. CASE DestroyApp(w) \/ DestroyCached(w)
    <3>1. /\ machines' = machines /\ releases' = releases /\ volumes' = volumes
          /\ \/ req[w].pc = "dropapp" /\ req'[w].pc = "uncache" /\ apps' = Drop(apps, {req[w].app})
             \/ req[w].pc = "uncache" /\ req'[w].pc = "removefiles" /\ apps' = apps
      BY <1>1, <1>3, <2>9, GotoEffect, FinishEffect DEF DestroyApp, DestroyCached, DeleteApp,
         At, storeVars
    <3> QED BY <2>1, <2>4, <3>1 DEF TornDown, MachinesForApp, ReleasesOf, TeardownPcs, Drop
  <2>10. CASE req'[w].pc \notin LoopPcs \cup TeardownPcs
    BY <2>10 DEF TornDown, LoopPcs, TeardownPcs
  <2> QED
    BY <2>1, <2>5, <2>6, <2>7, <2>8, <2>9, <2>10 DEF Came, Arrival, LoopPcs, TeardownPcs
<1> QED
  BY <1>2, <1>3

LEMMA TeardownKept ==
    ASSUME DestroysAlone, DaemonInv, Custody, Teardown, [Next]_vars
    PROVE  Teardown'
<1>1. ASSUME NEW w \in Workers, Issue(w) \/ WorkerStep(w) \/ CommandEnds(w)
      PROVE  Teardown'
  <2>1. ASSUME NEW x \in Workers, x # w
        PROVE  /\ req'[x].pc \in TeardownPcs => req'[x].op = "destroy"
               /\ req'[x].op = "destroy" => TornDown(x)'
    <3>1. req'[x] = req[x]
      BY <1>1, <2>1, WorkerMoves DEF OwnStep
    <3>2. CASE req[x].op = "destroy"
      <4>1. Spares(req[x].app)
        <5>1. StoreConfig(w) \/ RecordRelease(w) \/ InsertMachine(w) \/ InsertVolume(w)
              => req[x].app # req[w].app
          BY <2>1, <3>2 DEF DestroysAlone, StoreConfig, RecordRelease, InsertMachine,
             InsertVolume, At
        <5> QED BY <1>1, <5>1, WorkerSpares
      <4>2. TornDown(x)
        BY <3>2 DEF Teardown
      <4> QED BY <3>1, <3>2, <4>1, <4>2, StaysTornDown
    <3>3. CASE req[x].op # "destroy"
      BY <3>1, <3>3 DEF Teardown
    <3> QED BY <3>2, <3>3
  <2> QED BY <1>1, <2>1, TearsDown DEF Teardown
<1>2. ASSUME req' = req, \A a : Spares(a)
      PROVE  Teardown'
  <2>1. ASSUME NEW x \in Workers, TornDown(x)
        PROVE  TornDown(x)'
    BY <1>2, <2>1, StaysTornDown
  <2> QED BY <1>2, <2>1 DEF Teardown
<1>3. CASE \E n \in Machines : WatchStep(n) \/ VmExit(n)
  BY <1>2, <1>3, WatcherWrites, OthersSpare
<1>4. CASE MainStep \/ Terminate \/ Crash
  <2>1. CASE Gone
    <3>1. \A w \in Workers : req'[w].pc = "idle" /\ req'[w].op = "none"
      BY <2>1 DEF Gone, Idle
    <3> QED BY <3>1 DEF Teardown, TeardownPcs
  <2> QED BY <1>2, <1>4, <2>1, MainWrites, OthersSpare
<1>5. CASE UNCHANGED vars
  <2>1. UNCHANGED <<req, machines, releases, volumes, apps>>
    BY <1>5 DEF vars, deployerVars, storeVars
  <2> QED BY <1>2, <2>1 DEF Spares
<1> QED
  BY <1>1, <1>3, <1>4, <1>5 DEF Next, DeployerStep

LEMMA NothingBegun ==
    ASSUME Init
    PROVE  \A w \in Workers : req[w].pc = "idle" /\ req[w].op = "none"
  BY DEF Init, DeployerInit, Idle

LEMMA TeardownInvariant == Spec /\ []DestroysAlone => []Teardown
<1>1. Init => Teardown
  BY NothingBegun DEF Teardown, TeardownPcs
<1> QED
  BY <1>1, TeardownKept, CustodyInvariant, PTL DEF Spec
-----------------------------------------------------------------------------
(* Volumes.                                                                *)

\* No app's name, with a dash after it, begins the name of another app's image.
NamesApart ==
    \A a, b \in Apps, v \in VolNames : IsStrictPrefix(a, ImagePath(b, v)) => a = b

\* handleCreateVolume has made the image it is about to insert.
Volumes ==
    /\ VolumesPersist
    /\ \A w \in Workers : req[w].pc = "insertvolume" =>
           \A v \in req[w].todo : ImagePath(req[w].app, v) \in volImages

LEMMA VolumesUntouched ==
    ASSUME Volumes, volumes' \subseteq volumes, volImages \subseteq volImages',
           \A x \in Workers : req'[x].pc = "insertvolume" => req'[x] = req[x]
    PROVE  Volumes'
  BY DEF Volumes, VolumesPersist, ImagePath

LEMMA WorkerVolumes ==
    ASSUME NamesApart, DestroysAlone, DaemonInv, Teardown, Volumes, NEW w \in Workers,
           Issue(w) \/ WorkerStep(w) \/ CommandEnds(w)
    PROVE  Volumes'
<1>1. req \in [Workers -> ReqType]
  BY DEF DaemonInv, Locals
<1>2. \A x \in Workers : x # w => req'[x] = req[x]
  BY WorkerGoes DEF Goes
<1>3. CASE MakeVolume(w)
  <2>1. PICK v \in VolNames :
          /\ volImages' = volImages \cup {ImagePath(req[w].app, v)}
          /\ \/ req' = [req EXCEPT ![w].todo = {v}, ![w].pc = "insertvolume"]
             \/ Finish(w)
    BY <1>3 DEF MakeVolume
  <2>2. req'[w].pc = "idle" \/ (req'[w].app = req[w].app /\ req'[w].todo = {v})
    BY <1>1, <2>1, FinishEffect DEF ReqType
  <2>3. volumes' = volumes
    BY <1>3 DEF MakeVolume, storeVars
  <2> QED BY <1>2, <2>1, <2>2, <2>3 DEF Volumes, VolumesPersist, ImagePath
<1>4. CASE InsertVolume(w)
  <2>1. /\ \E v \in req[w].todo : volumes' \subseteq volumes \cup {<<req[w].app, v>>}
        /\ volImages' = volImages /\ req[w].pc = "insertvolume"
    BY <1>4 DEF InsertVolume, CreateVolume, storeVars, fileVars, At
  <2>2. req'[w].pc = "idle"
    BY <1>1, <1>4, FinishEffect DEF InsertVolume
  <2> QED BY <1>2, <2>1, <2>2 DEF Volumes, VolumesPersist, ImagePath
<1>5. CASE DestroyFiles(w)
  <2>1. /\ \E S \in SUBSET VolumeGlob(req[w].app) : volImages' = volImages \ S
        /\ volumes' = volumes /\ req[w].pc = "removefiles" /\ req'[w].pc # "insertvolume"
    BY <1>5, FilesRemoved DEF storeVars
  <2>2. /\ req[w].app \in Apps /\ req[w].op = "destroy"
        /\ \A v \in volumes : v[1] # req[w].app
    BY <2>1 DEF Teardown, TornDown, TeardownPcs, DaemonInv, Locals, Need
  <2>3. \A b \in Apps, v \in VolNames :
            b # req[w].app => ImagePath(b, v) \notin VolumeGlob(req[w].app)
    BY <2>2 DEF NamesApart, VolumeGlob
  <2>4. volumes \subseteq Apps \X VolNames
    BY DEF DaemonInv, StoreInv, StoreTypeOK
  <2>5. VolumesPersist'
    BY <2>1, <2>2, <2>3, <2>4 DEF Volumes, VolumesPersist, ImagePath
  <2>6. ASSUME NEW x \in Workers, req[x].pc = "insertvolume", NEW v \in req[x].todo
        PROVE  ImagePath(req[x].app, v) \in volImages'
    <3>1. req[x].app # req[w].app /\ req[x].app \in Apps /\ v \in VolNames
      BY <2>1, <2>2, <2>6 DEF DestroysAlone, DaemonInv, Locals, Need, At
    <3> QED BY <2>1, <2>3, <2>6, <3>1 DEF Volumes
  <2> QED BY <1>2, <2>1, <2>5, <2>6 DEF Volumes, ImagePath
<1>6. CASE ~(MakeVolume(w) \/ InsertVolume(w) \/ DestroyFiles(w))
  <2>1. volImages' = volImages
    BY <1>6, WorkerWrites
  <2>2. volumes' \subseteq volumes
    BY <1>6, WorkerWrites DEF DestroyVolumes, DeleteVolumesForApp
  <2>3. req'[w].pc # "insertvolume"
    BY <1>6, WorkerGoes DEF Goes, Came
  <2> QED BY <1>2, <2>1, <2>2, <2>3, VolumesUntouched
<1> QED
  BY <1>3, <1>4, <1>5, <1>6

LEMMA VolumesKept ==
    ASSUME NamesApart, DestroysAlone, DaemonInv, Teardown, Volumes, [Next]_vars
    PROVE  Volumes'
<1>1. CASE \E n \in Machines : WatchStep(n) \/ VmExit(n)
  BY <1>1, WatcherWrites, VolumesUntouched
<1>2. CASE MainStep \/ Terminate \/ Crash
  <2>1. Gone => \A x \in Workers : req'[x].pc # "insertvolume"
    BY DEF Gone, Idle
  <2> QED BY <1>2, <2>1, MainWrites, VolumesUntouched
<1>3. CASE UNCHANGED vars
  BY <1>3, VolumesUntouched DEF vars, deployerVars, storeVars, fileVars
<1> QED
  BY <1>1, <1>2, <1>3, WorkerVolumes DEF Next, DeployerStep

\* As long as no app is destroyed while another request is about it, and where
\* no app's name is the beginning, up to a dash, of another app's or of the name
\* of one of its volume images, every volume in the store has its image: Destroy's
\* glob removes no image of an app that is still there, whichever creations,
\* destroys, failures and crashes came in between.
THEOREM VolumeRowsHaveImages ==
    ASSUME NamesApart
    PROVE  Spec /\ []DestroysAlone => []VolumesPersist
<1>1. Init => Volumes
  <2> SUFFICES ASSUME Init PROVE Volumes
    OBVIOUS
  <2>1. volumes = {}
    BY DEF Init, DeployerInit, StoreInit
  <2> QED BY <2>1, NothingBegun DEF Volumes, VolumesPersist
<1>2. Volumes => VolumesPersist
  BY DEF Volumes
<1> QED
  BY <1>1, <1>2, VolumesKept, TeardownInvariant, CustodyInvariant, PTL DEF Spec
-----------------------------------------------------------------------------
(* Rootfs images.                                                          *)

\* The image was made, and if its file is there it was made for the app.
Owned(i, a) == i \in Nat /\ i < nextImage /\ (i \in DOMAIN files => files[i] = a)

ReleaseOf(r, a) == r \in DOMAIN releases /\ releases[r].app = a

\* Whatever names a release or an image, for whatever comes of it later, names
\* one of its own app.
ImageFiles == nextImage \in Nat /\ \A i \in DOMAIN files : i \in Nat /\ i < nextImage

ReleaseImages == \A r \in DOMAIN releases : Owned(releases[r].image, releases[r].app)

MachineReleases == \A m \in DOMAIN machines : ReleaseOf(machines[m].release, machines[m].app)

VmImages == \A m \in DOMAIN vms : Owned(vms[m].image, vms[m].app)

RequestImages ==
    \A w \in Workers :
        req[w].pc \in ReleasePcs \cup {"insert"} => Owned(req[w].image, req[w].app)

RequestReleases ==
    \A w \in Workers : req[w].pc \in ReleasePcs => ReleaseOf(req[w].release, req[w].app)

\* The part that holds however requests overlap, and the part a destroy can undo.
BuiltImages == ImageFiles /\ ReleaseImages /\ RequestImages

OwnImages == BuiltImages /\ MachineReleases /\ VmImages /\ RequestReleases

\* A request keeps the release it boots from.
LEMMA ReleaseCarried ==
    ASSUME DaemonInv, NEW w \in Workers, Issue(w) \/ WorkerStep(w) \/ CommandEnds(w),
           req'[w].pc \in ReleasePcs
    PROVE  \/ RecordRelease(w) \/ FindRelease(w)
           \/ /\ req[w].pc \in ReleasePcs
              /\ req'[w].release = req[w].release /\ req'[w].image = req[w].image
<1>1. req \in [Workers -> ReqType]
  BY DEF DaemonInv, Locals
<1>2. ~Finish(w)
  BY <1>1, FinishEffect DEF ReleasePcs
<1>3. ASSUME NEW p, Goto(w, p), req[w].pc \in ReleasePcs
      PROVE  req'[w].release = req[w].release /\ req'[w].image = req[w].image
  BY <1>1, <1>3 DEF Goto, ReqType
<1>4. CASE PrepareStep(w)
  <2>1. CASE StoreConfig(w) \/ CacheConfig(w) \/ RecacheConfig(w)
    BY <1>1, <2>1, GotoEffect DEF StoreConfig, CacheConfig, RecacheConfig, AfterConfig, ReleasePcs
  <2>2. CASE ReadConfig(w)
    <3>1. \E k : \E p \in {"latest", "upsert", "recache"} :
            req' = [req EXCEPT ![w].cfg = k, ![w].pc = p]
      BY <1>2, <2>2 DEF ReadConfig, AfterConfig, Finish
    <3> QED BY <1>1, <3>1 DEF ReqType, ReleasePcs
  <2>3. CASE BuildRootfs(w)
    <3>1. \E i : req' = [req EXCEPT ![w].image = i, ![w].pc = "insert"]
      BY <1>2, <2>3 DEF BuildRootfs
    <3> QED BY <1>1, <3>1 DEF ReqType, ReleasePcs
  <2> QED BY <1>4, <2>1, <2>2, <2>3 DEF PrepareStep
<1>5. CASE ResolveVolumes(w) \/ StartMachine(w) \/ StopCommandVm(w)
  <2>1. req[w].pc \in {"volumes", "start", "stopvm"} /\ \E p : Goto(w, p)
    BY <1>2, <1>5 DEF ResolveVolumes, StartMachine, StopCommandVm, At
  <2> QED BY <1>3, <2>1 DEF ReleasePcs
<1>6. CASE ReadOwner(w)
  <2>1. \E o : req' = [req EXCEPT ![w].tenant = o, ![w].pc = "subnet"]
    BY <1>2, <1>6 DEF ReadOwner, Finish
  <2> QED BY <1>1, <1>6, <2>1 DEF ReadOwner, At, ReqType, ReleasePcs
<1>7. CASE FindSubnet(w)
  <2>1. \E i : req' = [req EXCEPT ![w].idx = i, ![w].tenant = Nil, ![w].pc = "alloc"]
    BY <1>2, <1>7 DEF FindSubnet
  <2> QED BY <1>1, <1>7, <2>1 DEF FindSubnet, At, ReqType, ReleasePcs
<1>8. CASE InsertMachine(w)
  <2>1. \E n, i : req' = [req EXCEPT ![w].id = n, ![w].ip = i, ![w].pc = "start"]
    BY <1>2, <1>8 DEF InsertMachine
  <2> QED BY <1>1, <1>8, <2>1 DEF InsertMachine, At, ReqType, ReleasePcs
<1>9. CASE StartFails(w) \/ PrepareFails(w) \/ CommandEnds(w)
  <2>1. /\ req[w].pc \in {"start", "wait"}
        /\ \/ \E c, p : req' = [req EXCEPT ![w].command = c, ![w].pc = p]
           \/ \E p : Goto(w, p)
    BY <1>2, <1>9 DEF StartFails, PrepareFails, CommandEnds, Finish, Goto, At
  <2>2. ASSUME NEW c, NEW p, req' = [req EXCEPT ![w].command = c, ![w].pc = p]
        PROVE  req'[w].release = req[w].release /\ req'[w].image = req[w].image
    BY <1>1, <2>2 DEF ReqType
  <2> QED BY <1>3, <2>1, <2>2 DEF ReleasePcs
<1>10. CASE DeleteCommandRow(w)
  <2>1. req' = [req EXCEPT ![w].command = "none", ![w].id = 0, ![w].idx = 0,
                           ![w].ip = <<0, 0>>, ![w].pc = "volumes"]
    BY <1>2, <1>10 DEF DeleteCommandRow, Finish
  <2> QED BY <1>1, <1>10, <2>1 DEF DeleteCommandRow, At, ReqType, ReleasePcs
<1>11. CASE SetHandle(w) \/ AwaitHealthy(w) \/ StopNew(w) \/ UnhandleNew(w) \/ MarkFailed(w)
            \/ DeleteNew(w) \/ MarkRunning(w)
  BY <1>1, <1>2, <1>11, GotoEffect DEF SetHandle, AwaitHealthy, StopNew, UnhandleNew, MarkFailed,
     DeleteNew, MarkRunning, ReleasePcs
<1>12. CASE ListMachines(w) \/ UnhandleListed(w)
  <2>1. PICK S : req' = [req EXCEPT ![w].todo = S, ![w].pc = LoopPc(req[w].op, S)]
    BY <1>12 DEF ListMachines, UnhandleListed
  <2>2. LoopPc(req[w].op, S) \in {"releases", "ok", "stop"}
    BY DEF LoopPc, AfterLoop
  <2>3. req'[w].pc = LoopPc(req[w].op, S)
    BY <1>1, <2>1 DEF ReqType
  <2> QED BY <2>2, <2>3 DEF ReleasePcs
<1>13. CASE StopListed(w) \/ DeleteListed(w) \/ EmitOk(w) \/ WorkerApplies(w) \/ RecordOwner(w)
            \/ DestroyStep(w)
  BY <1>1, <1>2, <1>13, GotoEffect DEF StopListed, DeleteListed, EmitOk, WorkerApplies,
     WorkerReturns, WorkerInTunnel, RecordOwner, DestroyStep, DestroyReleases, DestroySecrets,
     DestroyVolumes, DestroyApp, DestroyCached, DestroyFiles, At, ReleasePcs
<1>14. CASE Issue(w) \/ ChangeSecret(w) \/ MakeVolume(w) \/ InsertVolume(w)
  <2>1. CASE Issue(w)
    BY <1>1, <2>1, IssueChange DEF ReleasePcs
  <2>2. CASE MakeVolume(w)
    <3>1. \E S : req' = [req EXCEPT ![w].todo = S, ![w].pc = "insertvolume"]
      BY <1>2, <2>2 DEF MakeVolume
    <3> QED BY <1>1, <3>1 DEF ReqType, ReleasePcs
  <2> QED BY <1>2, <1>14, <2>1, <2>2 DEF ChangeSecret, InsertVolume
<1> QED
  BY <1>4, <1>5, <1>6, <1>7, <1>8, <1>9, <1>10, <1>11, <1>12, <1>13, <1>14
     DEF WorkerStep, BootStep, CutoverStep
OwnedNext(i, a) == i \in Nat /\ i < nextImage' /\ (i \in DOMAIN files' => files'[i] = a)

ReleaseNext(r, a) == r \in DOMAIN releases' /\ releases'[r].app = a

LEMMA ImagesLast ==
    ASSUME DaemonInv, ImageFiles, NEW w \in Workers, Issue(w) \/ WorkerStep(w) \/ CommandEnds(w)
    PROVE  ImageFiles' /\ \A i, a : Owned(i, a) => OwnedNext(i, a)
<1>1. CASE files' = Put(files, nextImage, req[w].app) /\ nextImage' = nextImage + 1
  BY <1>1 DEF ImageFiles, Owned, OwnedNext, Put
<1>2. CASE \E S : files' = Drop(files, S) /\ nextImage' = nextImage
  BY <1>2 DEF ImageFiles, Owned, OwnedNext, Drop
<1>3. CASE UNCHANGED <<files, nextImage>>
  BY <1>3 DEF ImageFiles, Owned, OwnedNext
<1> QED
  BY <1>1, <1>2, <1>3, WorkerWrites, FilesRemoved DEF BuildRootfs, fileVars, bounds

LEMMA NextReleaseIsNew ==
    ASSUME StoreTypeOK
    PROVE  NextReleaseId \notin DOMAIN releases
<1>1. CASE DOMAIN releases # {}
  <2>1. DOMAIN releases \in SUBSET (0..MaxRelease) /\ MaxRelease \in Nat
    BY StoreAssumption DEF StoreTypeOK
  <2>2. \E x \in DOMAIN releases : \A y \in DOMAIN releases : y <= x
    BY <1>1, <2>1, GreatestExists
  <2>3. /\ Greatest(DOMAIN releases) \in DOMAIN releases
        /\ \A y \in DOMAIN releases : y <= Greatest(DOMAIN releases)
    BY <2>2 DEF Greatest
  <2>4. Greatest(DOMAIN releases) + 1 \notin DOMAIN releases
    BY <2>1, <2>3
  <2> QED BY <1>1, <2>4 DEF NextReleaseId
<1> QED
  BY <1>1

\* A release stays until its app's destroy deletes it.
LEMMA ReleasesLast ==
    ASSUME DaemonInv, NEW w \in Workers, Issue(w) \/ WorkerStep(w) \/ CommandEnds(w),
           NEW r, NEW a, ReleaseOf(r, a)
    PROVE  ReleaseNext(r, a) \/ (DestroyReleases(w) /\ a = req[w].app)
<1>1. CASE RecordRelease(w)
  <2>1. NextReleaseId \notin DOMAIN releases
    BY NextReleaseIsNew DEF DaemonInv, StoreInv
  <2> QED BY <1>1, <2>1 DEF RecordRelease, InsertRelease, Put, ReleaseOf, ReleaseNext, storeVars
<1>2. CASE DestroyReleases(w)
  BY <1>2 DEF DestroyReleases, DeleteReleasesForApp, Drop, ReleasesOf, ReleaseOf, ReleaseNext
<1> QED
  BY <1>1, <1>2, WorkerWrites DEF ReleaseOf, ReleaseNext

LEMMA WorkerReleaseImages ==
    ASSUME DaemonInv, BuiltImages, NEW w \in Workers, Issue(w) \/ WorkerStep(w) \/ CommandEnds(w)
    PROVE  ReleaseImages'
<1>1. \A i, a : Owned(i, a) => OwnedNext(i, a)
  BY ImagesLast DEF BuiltImages
<1>2. ASSUME NEW r \in DOMAIN releases'
      PROVE  Owned(releases'[r].image, releases'[r].app)
  <2>1. CASE RecordRelease(w) /\ releases' # releases
    <3>1. /\ releases' = Put(releases, NextReleaseId, [app |-> req[w].app, image |-> req[w].image])
          /\ req[w].pc = "insert"
      BY <2>1 DEF RecordRelease, InsertRelease, storeVars, At
    <3>2. Owned(req[w].image, req[w].app)
      BY <3>1 DEF BuiltImages, RequestImages
    <3> QED BY <1>2, <3>1, <3>2 DEF BuiltImages, ReleaseImages, Put
  <2>2. CASE releases' = releases \/ \E S : releases' = Drop(releases, S)
    BY <1>2, <2>2 DEF BuiltImages, ReleaseImages, Drop
  <2> QED BY <2>1, <2>2, WorkerWrites DEF DestroyReleases, DeleteReleasesForApp
<1> QED
  BY <1>1, <1>2 DEF ReleaseImages, Owned, OwnedNext

\* What RecordRelease and FindRelease leave in the request.
LEMMA ReleaseTaken ==
    ASSUME DaemonInv, NEW w \in Workers, RecordRelease(w) \/ FindRelease(w), ~Finish(w)
    PROVE  /\ req'[w].app = req[w].app /\ ReleaseNext(req'[w].release, req[w].app)
           /\ \/ req[w].pc = "insert" /\ req'[w].image = req[w].image
              \/ \E r \in DOMAIN releases :
                     releases[r].app = req[w].app /\ req'[w].image = releases[r].image
<1>1. req \in [Workers -> ReqType]
  BY DEF DaemonInv, Locals
<1>2. CASE RecordRelease(w)
  <2> DEFINE c == IF req[w].cfg.release THEN "run" ELSE "none"
             p == IF req[w].cfg.release THEN "owner" ELSE "volumes"
  <2>1. /\ req' = [req EXCEPT ![w].release = NextReleaseId, ![w].command = c, ![w].pc = p]
        /\ releases' = Put(releases, NextReleaseId, [app |-> req[w].app, image |-> req[w].image])
        /\ req[w].pc = "insert"
    BY <1>2 DEF RecordRelease, InsertRelease, At
  <2> HIDE DEF c, p
  <2>2. req'[w].release = NextReleaseId /\ req'[w].image = req[w].image /\ req'[w].app = req[w].app
    BY <1>1, <2>1 DEF ReqType
  <2>3. ReleaseNext(NextReleaseId, req[w].app)
    BY <2>1 DEF ReleaseNext, Put
  <2> QED BY <2>1, <2>2, <2>3
<1>3. CASE FindRelease(w)
  <2>1. /\ req' = [req EXCEPT ![w].release = LatestRelease(req[w].app),
                              ![w].image = releases[LatestRelease(req[w].app)].image,
                              ![w].pc = "volumes"]
        /\ ReleasesOf(req[w].app) # {} /\ releases' = releases
    BY <1>3 DEF FindRelease, Finish, storeVars
  <2>2. /\ req'[w].release = LatestRelease(req[w].app) /\ req'[w].app = req[w].app
        /\ req'[w].image = releases[LatestRelease(req[w].app)].image
    BY <1>1, <2>1 DEF ReqType
  <2>3. ReleaseOf(LatestRelease(req[w].app), req[w].app)
    BY <2>1, LatestReleaseFound DEF ReleaseOf, DaemonInv, StoreInv
  <2> QED BY <2>1, <2>2, <2>3 DEF ReleaseOf, ReleaseNext
<1> QED
  BY <1>2, <1>3

LEMMA WorkerRequestImages ==
    ASSUME DaemonInv, BuiltImages, NEW w \in Workers, Issue(w) \/ WorkerStep(w) \/ CommandEnds(w)
    PROVE  RequestImages'
<1>1. req \in [Workers -> ReqType] /\ \A i, a : Owned(i, a) => OwnedNext(i, a)
  BY ImagesLast DEF BuiltImages, DaemonInv, Locals
<1> DEFINE Fine(x) == req'[x].pc \in ReleasePcs \cup {"insert"} =>
                          OwnedNext(req'[x].image, req'[x].app)
<1>2. ASSUME NEW x \in Workers, x # w
      PROVE  Fine(x)
  <2>1. req'[x] = req[x]
    BY <1>2, WorkerMoves DEF OwnStep
  <2> QED BY <1>1, <2>1 DEF BuiltImages, RequestImages
<1>3. req'[w].pc = "insert" => OwnedNext(req'[w].image, req'[w].app)
  <2>1. SUFFICES ASSUME req'[w].pc = "insert" PROVE OwnedNext(req'[w].image, req'[w].app)
    OBVIOUS
  <2>2. BuildRootfs(w) /\ ~Finish(w)
    BY <1>1, <2>1, WorkerGoes, FinishEffect DEF Goes, Came
  <2>3. /\ files' = Put(files, nextImage, req[w].app) /\ nextImage' = nextImage + 1
        /\ req' = [req EXCEPT ![w].image = nextImage, ![w].pc = "insert"]
    BY <2>2 DEF BuildRootfs
  <2>4. req'[w].image = nextImage /\ req'[w].app = req[w].app
    BY <1>1, <2>3 DEF ReqType
  <2> QED BY <2>3, <2>4 DEF OwnedNext, Put, BuiltImages, ImageFiles
<1>4. req'[w].pc \in ReleasePcs => OwnedNext(req'[w].image, req'[w].app)
  <2>1. SUFFICES ASSUME req'[w].pc \in ReleasePcs PROVE OwnedNext(req'[w].image, req'[w].app)
    OBVIOUS
  <2>2. ~Finish(w)
    BY <1>1, <2>1, FinishEffect DEF ReleasePcs
  <2>3. req'[w].app = req[w].app
    BY <2>1, WorkerGoes DEF Goes, ReleasePcs
  <2>4. CASE RecordRelease(w) \/ FindRelease(w)
    <3>1. \/ req[w].pc = "insert" /\ req'[w].image = req[w].image
          \/ \E r \in DOMAIN releases :
                 releases[r].app = req[w].app /\ req'[w].image = releases[r].image
      BY <2>2, <2>4, ReleaseTaken
    <3>2. Owned(req'[w].image, req[w].app)
      BY <3>1 DEF BuiltImages, RequestImages, ReleaseImages
    <3> QED BY <1>1, <2>3, <3>2
  <2>5. CASE /\ req[w].pc \in ReleasePcs
             /\ req'[w].release = req[w].release /\ req'[w].image = req[w].image
    BY <1>1, <2>3, <2>5 DEF BuiltImages, RequestImages
  <2> QED BY <2>1, <2>4, <2>5, ReleaseCarried
<1>5. \A x \in Workers : Fine(x)
  BY <1>2, <1>3, <1>4
<1> QED
  BY <1>5 DEF RequestImages, Owned, OwnedNext

LEMMA BuiltKept ==
    ASSUME DaemonInv, BuiltImages, [Next]_vars
    PROVE  BuiltImages'
<1>1. ASSUME NEW w \in Workers, Issue(w) \/ WorkerStep(w) \/ CommandEnds(w)
      PROVE  BuiltImages'
  BY <1>1, ImagesLast, WorkerReleaseImages, WorkerRequestImages DEF BuiltImages
<1>2. ASSUME UNCHANGED <<files, nextImage, releases>>,
             req' = req \/ (\A w \in Workers : req'[w].pc = "idle")
      PROVE  BuiltImages'
  <2>1. ImageFiles' /\ ReleaseImages'
    BY <1>2 DEF BuiltImages, ImageFiles, ReleaseImages, Owned
  <2>2. RequestImages'
    BY <1>2 DEF BuiltImages, RequestImages, Owned, ReleasePcs
  <2> QED BY <2>1, <2>2 DEF BuiltImages
<1>3. CASE \/ \E n \in Machines : WatchStep(n) \/ VmExit(n)
           \/ MainStep \/ Terminate \/ Crash
  <2>1. Gone => \A w \in Workers : req'[w].pc = "idle"
    BY DEF Gone, Idle
  <2> QED BY <1>2, <1>3, <2>1, MainWrites, WatcherWrites
<1>4. CASE UNCHANGED vars
  BY <1>2, <1>4 DEF vars, deployerVars, storeVars, fileVars, bounds
<1> QED
  BY <1>1, <1>3, <1>4 DEF Next, DeployerStep

LEMMA WorkerVmImages ==
    ASSUME DaemonInv, BuiltImages, VmImages, NEW w \in Workers,
           Issue(w) \/ WorkerStep(w) \/ CommandEnds(w)
    PROVE  VmImages'
<1>1. \A i, a : Owned(i, a) => OwnedNext(i, a)
  BY ImagesLast DEF BuiltImages
<1>2. ASSUME NEW m \in DOMAIN vms'
      PROVE  Owned(vms'[m].image, vms'[m].app)
  <2>1. CASE VmsLess
    BY <1>2, <2>1 DEF VmsLess, VmImages
  <2>2. CASE StartMachine(w)
    <3>1. Owned(req[w].image, req[w].app)
      BY <2>2 DEF StartMachine, At, BuiltImages, RequestImages, ReleasePcs
    <3> QED BY <1>2, <2>2, <3>1 DEF StartMachine, Boot, Put, VmImages
  <2> QED BY <2>1, <2>2, WorkerFrame
<1> QED
  BY <1>1, <1>2 DEF VmImages, Owned, OwnedNext

\* Only a reconcile boots a VM.
LEMMA VmsOfOthers ==
    ASSUME \/ \E n \in Machines : WatchStep(n) \/ VmExit(n)
           \/ MainStep \/ Terminate \/ Crash
    PROVE  VmsLess \/ \E n \in Machines : ReconcileOne(n)
<1>1. ASSUME NEW n \in Machines, WatchStep(n) \/ VmExit(n)
      PROVE  VmsLess
  BY <1>1, FewerVms DEF WatchStep, WatchWakes, WatchReads, WatchMarks, WatchUnhandles,
     WatchDeletes, WatcherApplies, VmExit
<1>2. ASSUME NEW n \in Machines, ReconcileSubnet(n) \/ ReconcileFails(n) \/ StopOne(n)
      PROVE  VmsLess
  BY <1>2, FewerVms DEF ReconcileSubnet, ReconcileFails, StopOne
<1>3. CASE Start \/ Reconciled \/ MainApplies \/ Terminate
  BY <1>3, FewerVms DEF Start, Reconciled, MainApplies, Terminate, deployerVars
<1>4. CASE Gone
  BY <1>4 DEF Gone, NoRows, VmsLess
<1> QED
  BY <1>1, <1>2, <1>3, <1>4 DEF MainStep, Exit, Crash

LEMMA VmImagesLast ==
    ASSUME VmImages, VmsLess, UNCHANGED <<files, nextImage>>
    PROVE  VmImages'
  BY DEF VmImages, VmsLess, Owned

LEMMA ImagesBegin ==
    ASSUME Init
    PROVE  BuiltImages /\ DOMAIN machines = {} /\ DOMAIN vms = {}
<1>1. /\ DOMAIN files = {} /\ nextImage = 1 /\ DOMAIN releases = {}
      /\ DOMAIN machines = {} /\ DOMAIN vms = {}
  BY DEF Init, DeployerInit, StoreInit, NoRows
<1> QED
  BY <1>1, NothingBegun DEF BuiltImages, ImageFiles, ReleaseImages, RequestImages, ReleasePcs

\* However requests overlap, destroys included, no VM that a request of the first
\* run of the daemon boots has a rootfs built for another app: a request gets the
\* image with its release's id, at once, and never looks the id up again, although
\* ids come back when a destroy has deleted the rows above them.  Reconcile, which
\* looks ids up, is where a later run can go wrong (run foreign_image).
THEOREM RequestsBootTheirOwnImage == Spec => [](epoch = 1 => BootsOwnImage)
<1> DEFINE I == BuiltImages /\ Early /\ (epoch = 1 => VmImages)
<1>1. Init => I
  BY ImagesBegin DEF Early, VmImages, Init
<1>2. ASSUME DaemonInv, I, [Next]_vars
      PROVE  I'
  <2>1. BuiltImages'
    BY <1>2, BuiltKept
  <2>2. ASSUME NEW w \in Workers, Issue(w) \/ WorkerStep(w) \/ CommandEnds(w)
        PROVE  VmImages => VmImages'
    BY <1>2, <2>2, WorkerVmImages
  <2>3. CASE DeployerStep
    <3>1. Undisturbed
      BY <2>3 DEF DeployerStep, Undisturbed, oakdVars
    <3>2. ASSUME NEW n \in Machines, WatchStep(n) \/ VmExit(n)
          PROVE  VmImages => VmImages'
      <4>1. VmsLess
        BY <3>2, FewerVms DEF WatchStep, WatchWakes, WatchReads, WatchMarks, WatchUnhandles,
           WatchDeletes, WatcherApplies, VmExit
      <4> QED BY <3>2, <4>1, WatcherWrites, VmImagesLast
    <3> QED BY <1>2, <2>1, <2>2, <2>3, <3>1, <3>2 DEF DeployerStep, Early, Undisturbed
  <2>4. CASE MainStep \/ Terminate \/ Crash
    <3>1. Early'
      BY <1>2, <2>4, MainEarly
    <3>2. ASSUME epoch' = 1
          PROVE  epoch = 1 /\ VmsLess
      <4>1. epoch \in Nat /\ epoch >= 1
        BY <1>2, OakdAssumption DEF DaemonInv, Phases
      <4>2. epoch' = epoch \/ epoch' = epoch + 1
        BY <2>4 DEF MainStep, Start, ReconcileSubnet, ReconcileOne, ReconcileFails, ReconcileVisit,
           StopOne, Reconciled, MainApplies, Exit, Gone, Terminate, Crash, deployerVars
      <4>3. epoch = 1
        BY <3>2, <4>1, <4>2
      <4>4. ~\E n \in Machines : ReconcileOne(n)
        BY <1>2, <4>3 DEF Early, ReconcileOne, ReconcileVisit
      <4> QED BY <2>4, <4>3, <4>4, VmsOfOthers
    <3>3. UNCHANGED <<files, nextImage>>
      BY <2>4, MainWrites
    <3> QED BY <1>2, <2>1, <3>1, <3>2, <3>3, VmImagesLast
  <2>5. CASE UNCHANGED vars
    <3>1. UNCHANGED <<files, nextImage, vms, epoch, phase>>
      BY <2>5 DEF vars, deployerVars, oakdVars, fileVars, bounds
    <3> QED BY <1>2, <2>1, <3>1, FewerVms, VmImagesLast DEF Early
  <2> QED BY <1>2, <2>3, <2>4, <2>5 DEF Next
<1>3. I => (epoch = 1 => BootsOwnImage)
  BY DEF VmImages, Owned, BootsOwnImage
<1> HIDE DEF I
<1> QED
  BY <1>1, <1>2, <1>3, DaemonInvariant, PTL DEF Spec

LEMMA WorkerMachineReleases ==
    ASSUME DaemonInv, Teardown, OwnImages, NEW w \in Workers,
           Issue(w) \/ WorkerStep(w) \/ CommandEnds(w)
    PROVE  MachineReleases'
<1>1. ASSUME NEW m \in DOMAIN machines'
      PROVE  ReleaseNext(machines'[m].release, machines'[m].app)
  <2>1. CASE Stays(m)
    <3>1. ReleaseOf(machines[m].release, machines[m].app)
      BY <2>1 DEF OwnImages, MachineReleases, Stays
    <3>2. DestroyReleases(w) => machines[m].app # req[w].app
      BY <2>1 DEF Teardown, TornDown, DestroyReleases, At, TeardownPcs, MachinesForApp, Stays
    <3> QED BY <2>1, <3>1, <3>2, ReleasesLast DEF Stays
  <2>2. CASE /\ InsertMachine(w) /\ req[w].pc = "alloc"
             /\ machines'[m].app = req[w].app /\ machines'[m].release = req[w].release
    <3>1. ReleaseOf(req[w].release, req[w].app)
      BY <2>2 DEF OwnImages, RequestReleases, ReleasePcs
    <3>2. ~DestroyReleases(w)
      BY <2>2 DEF DestroyReleases, At
    <3> QED BY <2>2, <3>1, <3>2, ReleasesLast
  <2> QED BY <2>1, <2>2, RowsOfWorker
<1> QED
  BY <1>1 DEF MachineReleases, ReleaseOf, ReleaseNext

LEMMA WorkerRequestReleases ==
    ASSUME DestroysAlone, DaemonInv, Teardown, OwnImages, NEW w \in Workers,
           Issue(w) \/ WorkerStep(w) \/ CommandEnds(w)
    PROVE  RequestReleases'
<1> DEFINE Fine(x) == req'[x].pc \in ReleasePcs => ReleaseNext(req'[x].release, req'[x].app)
<1>1. ASSUME NEW x \in Workers, x # w
      PROVE  Fine(x)
  <2>1. req'[x] = req[x]
    BY <1>1, WorkerMoves DEF OwnStep
  <2>2. DestroyReleases(w) /\ req[x].pc \in ReleasePcs => req[x].app # req[w].app
    BY <1>1 DEF DestroysAlone, Teardown, DestroyReleases, At, TeardownPcs, ReleasePcs
  <2>3. req[x].pc \in ReleasePcs => ReleaseNext(req[x].release, req[x].app)
    BY <2>2, ReleasesLast DEF OwnImages, RequestReleases
  <2> QED BY <2>1, <2>3
<1>2. Fine(w)
  <2>1. SUFFICES ASSUME req'[w].pc \in ReleasePcs
                 PROVE  ReleaseNext(req'[w].release, req'[w].app)
    OBVIOUS
  <2>2. ~Finish(w)
    BY <2>1, FinishEffect DEF ReleasePcs, DaemonInv, Locals
  <2>3. req'[w].app = req[w].app
    BY <2>1, WorkerGoes DEF Goes, ReleasePcs
  <2>4. CASE RecordRelease(w) \/ FindRelease(w)
    BY <2>2, <2>3, <2>4, ReleaseTaken
  <2>5. CASE /\ req[w].pc \in ReleasePcs
             /\ req'[w].release = req[w].release /\ req'[w].image = req[w].image
    <3>1. ReleaseOf(req[w].release, req[w].app)
      BY <2>5 DEF OwnImages, RequestReleases
    <3>2. ~DestroyReleases(w)
      BY <2>5 DEF DestroyReleases, At, ReleasePcs
    <3> QED BY <2>3, <2>5, <3>1, <3>2, ReleasesLast
  <2> QED BY <2>1, <2>4, <2>5, ReleaseCarried
<1>3. \A x \in Workers : Fine(x)
  BY <1>1, <1>2
<1> QED
  BY <1>3 DEF RequestReleases, ReleaseOf, ReleaseNext

\* Everybody else leaves the releases and the requests alone.
LEMMA OthersOwnImages ==
    ASSUME OwnImages, BuiltImages', VmImages', UNCHANGED releases,
           req' = req \/ (\A w \in Workers : req'[w].pc = "idle"),
           \A m \in DOMAIN machines' : Stays(m)
    PROVE  OwnImages'
<1>1. MachineReleases'
  BY DEF OwnImages, MachineReleases, ReleaseOf, Stays
<1>2. RequestReleases'
  BY DEF OwnImages, RequestReleases, ReleaseOf, ReleasePcs
<1> QED
  BY <1>1, <1>2 DEF OwnImages

LEMMA OwnImagesKept ==
    ASSUME DestroysAlone, DaemonInv, Teardown, OwnImages, [Next]_vars
    PROVE  OwnImages'
<1>1. BuiltImages'
  BY BuiltKept DEF OwnImages
<1>2. ASSUME NEW w \in Workers, Issue(w) \/ WorkerStep(w) \/ CommandEnds(w)
      PROVE  OwnImages'
  BY <1>1, <1>2, WorkerMachineReleases, WorkerVmImages, WorkerRequestReleases DEF OwnImages
<1>3. CASE \/ \E n \in Machines : WatchStep(n) \/ VmExit(n)
           \/ MainStep \/ Terminate \/ Crash
  <2>1. req' = req \/ \A w \in Workers : req'[w].pc = "idle"
    <3>1. Gone => \A w \in Workers : req'[w].pc = "idle"
      BY DEF Gone, Idle
    <3> QED BY <1>3, <3>1, MainWrites, WatcherWrites
  <2>2. UNCHANGED <<files, nextImage, releases>>
    BY <1>3, MainWrites, WatcherWrites
  <2>3. ASSUME NEW n \in Machines, ReconcileOne(n)
        PROVE  VmImages'
    <3>1. /\ vms' = Put(vms, n, [app |-> machines[n].app,
                                 image |-> releases[machines[n].release].image,
                                 ip |-> machines[n].ip, bridge |-> subnets[Owner(n)],
                                 port |-> Lookup(machines[n].app).port,
                                 mounts |-> Lookup(machines[n].app).mounts, dying |-> FALSE])
          /\ n \in DOMAIN machines
      BY <2>3 DEF ReconcileOne, Boot, SetMachineState
    <3>2. Owned(releases[machines[n].release].image, machines[n].app)
      BY <3>1 DEF OwnImages, BuiltImages, MachineReleases, ReleaseImages, ReleaseOf
    <3>3. \A m \in DOMAIN vms' : Owned(vms'[m].image, vms'[m].app)
      BY <3>1, <3>2 DEF Put, OwnImages, VmImages
    <3> QED BY <2>2, <3>3 DEF VmImages, Owned
  <2>4. VmImages'
    BY <1>3, <2>2, <2>3, VmsOfOthers, VmImagesLast DEF OwnImages
  <2> QED BY <1>1, <1>3, <2>1, <2>2, <2>4, RowsOfOthers, OthersOwnImages
<1>4. CASE UNCHANGED vars
  <2>1. UNCHANGED <<files, nextImage, releases, req, machines, vms>>
    BY <1>4 DEF vars, deployerVars, storeVars, fileVars, bounds
  <2>2. VmImages'
    BY <2>1, FewerVms, VmImagesLast DEF OwnImages
  <2> QED BY <1>1, <2>1, <2>2, OthersOwnImages DEF Stays
<1> QED
  BY <1>2, <1>3, <1>4 DEF Next, DeployerStep

LEMMA OwnImagesInvariant == Spec /\ []DestroysAlone => []OwnImages
<1>1. Init => OwnImages
  BY ImagesBegin, NothingBegun DEF OwnImages, MachineReleases, VmImages, RequestReleases, ReleasePcs
<1> QED
  BY <1>1, OwnImagesKept, TeardownInvariant, CustodyInvariant, PTL DEF Spec

\* As long as no app is destroyed while another request is about it, every machine
\* row names a release of its own app, in every run: Destroy takes all of the app's
\* rows away before its releases, and a row that failed, or that a crash left
\* behind, is one of them.  A destroy that overlaps a deploy breaks it.
THEOREM MachinesKeepTheirReleases == Spec /\ []DestroysAlone => []MachinesHaveReleases
<1>1. OwnImages => MachinesHaveReleases
  BY DEF OwnImages, MachineReleases, ReleaseOf, MachinesHaveReleases
<1> QED
  BY <1>1, OwnImagesInvariant, PTL

\* And so in every run, too, a VM has a rootfs that was built for its own app:
\* Reconcile finds the right image by the id of the release, although ids come back
\* once a destroy has deleted the rows above them.  The hypothesis is needed: the
\* run foreign_image shows what a destroy that overlaps a deploy leads to.
THEOREM VmsRunTheirOwnImage == Spec /\ []DestroysAlone => []BootsOwnImage
<1>1. OwnImages => BootsOwnImage
  BY DEF OwnImages, VmImages, Owned, BootsOwnImage
<1> QED
  BY <1>1, OwnImagesInvariant, PTL
-----------------------------------------------------------------------------
(* The config cache, when the requests about an app come one after another. *)

\* What a request can do at the places the invariants below speak of.
LEMMA StepAt ==
    ASSUME NEW w \in Workers, Issue(w) \/ WorkerStep(w) \/ CommandEnds(w)
    PROVE  /\ At(w, "cache") => CacheConfig(w)
           /\ At(w, "ok") => EmitOk(w)
           /\ At(w, "tunnel") => WorkerApplies(w)
           /\ At(w, "releases") => DestroyReleases(w)
           /\ At(w, "secrets") => DestroySecrets(w)
           /\ At(w, "dropvolumes") => DestroyVolumes(w)
           /\ At(w, "dropapp") => DestroyApp(w)
           /\ At(w, "uncache") => DestroyCached(w)
           /\ At(w, "removefiles") => DestroyFiles(w)
<1>1. CASE PrepareStep(w)
  BY <1>1 DEF PrepareStep, StoreConfig, CacheConfig, ReadConfig, RecacheConfig, BuildRootfs,
     RecordRelease, FindRelease, At
<1>2. CASE BootStep(w) \/ CommandEnds(w)
  <2>1. req[w].pc \in ReleasePcs \cup MachinePcs
    BY <1>2 DEF BootStep, ResolveVolumes, ReadOwner, FindSubnet, InsertMachine, StartMachine,
       StartFails, PrepareFails, StopCommandVm, DeleteCommandRow, SetHandle, AwaitHealthy, StopNew,
       UnhandleNew, MarkFailed, DeleteNew, MarkRunning, CommandEnds, At, ReleasePcs, MachinePcs
  <2> QED BY <2>1 DEF At, ReleasePcs, MachinePcs
<1>3. CASE CutoverStep(w)
  BY <1>3 DEF CutoverStep, ListMachines, StopListed, DeleteListed, UnhandleListed, EmitOk,
     WorkerApplies, WorkerInTunnel, RecordOwner, At
<1>4. CASE DestroyStep(w)
  BY <1>4 DEF DestroyStep, DestroyReleases, DestroySecrets, DestroyVolumes, DestroyApp,
     DestroyCached, DestroyFiles, At
<1>5. CASE Issue(w) \/ ChangeSecret(w) \/ MakeVolume(w) \/ InsertVolume(w)
  BY <1>5 DEF Issue, ChangeSecret, MakeVolume, InsertVolume, At
<1> QED
  BY <1>1, <1>2, <1>3, <1>4, <1>5 DEF WorkerStep

OneAtATime ==
    \A w, x \in Workers :
        w # x /\ ~At(w, "idle") /\ ~At(x, "idle") => req[x].app # req[w].app

\* What is cached is what is stored, unless a request is about to cache or to
\* forget it; and what a request is about to cache is what is stored.
CacheInv ==
    /\ \A a \in DOMAIN appConfigs :
           \/ a \in DOMAIN apps /\ appConfigs[a] = apps[a].config
           \/ \E w \in Workers : req[w].pc \in {"cache", "uncache"} /\ req[w].app = a
    /\ \A w \in Workers : req[w].pc \in {"cache", "recache"} =>
           req[w].app \in DOMAIN apps /\ req[w].cfg = apps[req[w].app].config

SameConfigs ==
    /\ DOMAIN apps' = DOMAIN apps
    /\ \A a \in DOMAIN apps : apps'[a].config = apps[a].config

\* Whoever caches what appConfig finds does no harm.
LEMMA CacheFills ==
    ASSUME CacheInv, SameConfigs,
           \A a \in DOMAIN appConfigs' : Known(a) /\ appConfigs'[a] = Lookup(a),
           \A x \in Workers : req[x].pc \in {"cache", "uncache"} => req'[x] = req[x],
           \A x \in Workers : req'[x].pc \in {"cache", "recache"} => req'[x] = req[x]
    PROVE  CacheInv'
<1>1. ASSUME NEW a \in DOMAIN appConfigs'
      PROVE  \/ a \in DOMAIN apps' /\ appConfigs'[a] = apps'[a].config
             \/ \E w \in Workers : req'[w].pc \in {"cache", "uncache"} /\ req'[w].app = a
  <2>1. CASE a \in DOMAIN appConfigs
    BY <1>1, <2>1 DEF CacheInv, SameConfigs, Lookup
  <2>2. CASE a \notin DOMAIN appConfigs
    BY <1>1, <2>2 DEF SameConfigs, Lookup, Known
  <2> QED BY <2>1, <2>2
<1> QED
  BY <1>1 DEF CacheInv, SameConfigs

LEMMA CacheIsKnown ==
    ASSUME UNCHANGED appConfigs
    PROVE  \A a \in DOMAIN appConfigs' : Known(a) /\ appConfigs'[a] = Lookup(a)
  BY DEF Known, Lookup

LEMMA ApplyLooksUp ==
    ASSUME NEW c, ApplyRead(c) \/ ApplyWrite(c) \/ ApplyFails(c) \/ ApplyRestart(c)
    PROVE  \A a \in DOMAIN appConfigs' : Known(a) /\ appConfigs'[a] = Lookup(a)
<1>1. CASE ApplyWrite(c) \/ ApplyFails(c)
  <2>1. PICK S : CacheFound(S) /\ \A a \in S : Known(a)
    BY <1>1, FindsWhatItCaches
  <2> QED BY <2>1 DEF CacheFound, Known
<1> QED
  BY <1>1, CacheIsKnown DEF ApplyRead, ApplyRestart

\* Restart and Scale are about to cache what they found in the store.
LEMMA ReadsConfig ==
    ASSUME DaemonInv, NEW w \in Workers, ReadConfig(w), req'[w].pc = "recache"
    PROVE  /\ req[w].app \in DOMAIN apps
           /\ req'[w].app = req[w].app /\ req'[w].cfg = apps[req[w].app].config
<1>1. req \in [Workers -> ReqType]
  BY DEF DaemonInv, Locals
<1>2. ~Finish(w)
  BY <1>1, FinishEffect
<1>3. req' # [req EXCEPT ![w].cfg = Lookup(req[w].app), ![w].pc = AfterConfig(req[w].op)]
  BY <1>1 DEF AfterConfig, ReqType
<1>4. /\ req' = [req EXCEPT ![w].cfg = Lookup(req[w].app), ![w].pc = "recache"]
      /\ Known(req[w].app) /\ req[w].app \notin DOMAIN appConfigs
  BY <1>2, <1>3 DEF ReadConfig, Finish
<1>5. req'[w].app = req[w].app /\ req'[w].cfg = Lookup(req[w].app)
  BY <1>1, <1>4 DEF ReqType
<1> QED
  BY <1>4, <1>5 DEF Known, Lookup

LEMMA WorkerCache ==
    ASSUME OneAtATime, DaemonInv, CacheInv, NEW w \in Workers,
           Issue(w) \/ WorkerStep(w) \/ CommandEnds(w)
    PROVE  CacheInv'
<1>1. req \in [Workers -> ReqType]
  BY DEF DaemonInv, Locals
<1>2. /\ \A x \in Workers : x # w => req'[x] = req[x]
      /\ req'[w].pc = "cache" => StoreConfig(w)
      /\ req'[w].pc = "recache" => ReadConfig(w)
  BY WorkerGoes DEF Goes, Came
<1>3. ASSUME req[w].pc # "idle"
      PROVE  \A x \in Workers : x # w /\ req[x].pc # "idle" => req[x].app # req[w].app
  BY <1>3 DEF OneAtATime, At
<1>4. CASE StoreConfig(w)
  <2>1. /\ DOMAIN apps' = DOMAIN apps \cup {req[w].app}
        /\ apps'[req[w].app].config = req[w].cfg
        /\ \A a \in DOMAIN apps : a # req[w].app => apps'[a] = apps[a]
        /\ appConfigs' = appConfigs /\ req[w].pc = "upsert"
    BY <1>4 DEF StoreConfig, UpsertApp, Put, At
  <2>2. req'[w].pc = "cache" /\ req'[w].app = req[w].app /\ req'[w].cfg = req[w].cfg
    BY <1>1, <1>4 DEF StoreConfig, Goto, ReqType
  <2> QED BY <1>2, <1>3, <2>1, <2>2 DEF CacheInv
<1>5. CASE DestroyApp(w) /\ ~Finish(w)
  <2>1. apps' = Drop(apps, {req[w].app}) /\ appConfigs' = appConfigs /\ req[w].pc = "dropapp"
    BY <1>5 DEF DestroyApp, DeleteApp, At
  <2>2. req'[w].pc = "uncache" /\ req'[w].app = req[w].app
    BY <1>1, <1>5, GotoEffect DEF DestroyApp
  <2> QED BY <1>2, <1>3, <2>1, <2>2 DEF CacheInv, Drop
<1>6. CASE CacheConfig(w) \/ RecacheConfig(w)
  <2>1. /\ appConfigs' = Put(appConfigs, req[w].app, req[w].cfg) /\ apps' = apps
        /\ req[w].pc \in {"cache", "recache"}
    BY <1>6 DEF CacheConfig, RecacheConfig, At, storeVars
  <2>2. req'[w].pc \notin {"cache", "recache"}
    BY <1>1, <1>6, GotoEffect DEF CacheConfig, RecacheConfig, AfterConfig
  <2> QED BY <1>2, <2>1, <2>2 DEF CacheInv, Put
<1>7. CASE DestroyCached(w)
  <2>1. /\ appConfigs' = Drop(appConfigs, {req[w].app}) /\ apps' = apps
        /\ req'[w].pc = "removefiles"
    BY <1>1, <1>7, GotoEffect DEF DestroyCached, storeVars
  <2> QED BY <1>2, <2>1 DEF CacheInv, Drop
<1>8. CASE WorkerApplies(w)
  <2>1. apps' = apps /\ req[w].pc = "tunnel"
    BY <1>8 DEF WorkerApplies, WorkerInTunnel, WorkerReturns, ApplyRead, ApplyWrite, ApplyFails,
       ApplyRestart, storeVars, At
  <2>2. \A a \in DOMAIN appConfigs' : Known(a) /\ appConfigs'[a] = Lookup(a)
    BY <1>8, ApplyLooksUp DEF WorkerApplies, WorkerReturns
  <2>3. req'[w].pc \notin {"cache", "recache"}
    BY <1>2, <2>1 DEF StoreConfig, ReadConfig, At
  <2> QED BY <1>2, <2>1, <2>2, <2>3, CacheFills DEF SameConfigs
<1>9. CASE ReadConfig(w)
  <2>1. apps' = apps /\ appConfigs' = appConfigs /\ req[w].pc = "config"
    BY <1>9 DEF ReadConfig, At, storeVars
  <2>2. CASE req'[w].pc # "recache"
    <3>1. req'[w].pc # "cache"
      BY <1>2, <2>1 DEF StoreConfig, At
    <3> QED BY <1>2, <2>1, <2>2, <3>1, CacheIsKnown, CacheFills DEF SameConfigs
  <2>3. CASE req'[w].pc = "recache"
    BY <1>2, <1>9, <2>1, <2>3, ReadsConfig DEF CacheInv
  <2> QED BY <2>2, <2>3
<1>10. CASE ~(\/ StoreConfig(w) \/ (DestroyApp(w) /\ ~Finish(w)) \/ CacheConfig(w)
              \/ RecacheConfig(w) \/ DestroyCached(w) \/ WorkerApplies(w) \/ ReadConfig(w))
  <2>1. appConfigs' = appConfigs
    BY <1>10, WorkerWrites
  <2>2. SameConfigs
    <3>1. CASE RecordOwner(w)
      <4>1. \A a \in DOMAIN apps : apps[a] \in AppRow
        BY DEF DaemonInv, StoreInv, StoreTypeOK
      <4>2. \/ apps' = apps
            \/ apps' = [apps EXCEPT ![req[w].app].owner = req[w].owner] /\ req[w].app \in DOMAIN apps
        BY <3>1 DEF RecordOwner, SetAppOwner
      <4> QED BY <4>1, <4>2 DEF SameConfigs, AppRow
    <3>2. CASE DestroyApp(w) /\ Finish(w)
      <4>1. ~Goto(w, "uncache")
        BY <1>1, <3>2, GotoEffect, FinishEffect
      <4> QED BY <3>2, <4>1 DEF DestroyApp, storeVars, SameConfigs
    <3> QED BY <1>10, <3>1, <3>2, WorkerWrites DEF SameConfigs
  <2>3. req'[w].pc \notin {"cache", "recache"}
    BY <1>2, <1>10
  <2>4. req[w].pc \notin {"cache", "uncache"}
    BY <1>10, StepAt DEF At
  <2> QED BY <1>2, <2>1, <2>2, <2>3, <2>4, CacheIsKnown, CacheFills
<1> QED
  BY <1>4, <1>5, <1>6, <1>7, <1>8, <1>9, <1>10
\* Watchers and the main goroutine cache what appConfig finds.
LEMMA OthersLookUp ==
    ASSUME DaemonInv, \/ \E n \in Machines : WatchStep(n) \/ VmExit(n)
                      \/ MainStep \/ Terminate \/ Crash
    PROVE  \/ Gone
           \/ /\ req' = req
              /\ \A a \in DOMAIN appConfigs' : Known(a) /\ appConfigs'[a] = Lookup(a)
<1> DEFINE Fills == \A a \in DOMAIN appConfigs' : Known(a) /\ appConfigs'[a] = Lookup(a)
<1>1. ASSUME NEW c, ApplyRead(c) \/ ApplyWrite(c) \/ ApplyFails(c) \/ ApplyRestart(c)
      PROVE  Fills
  BY <1>1, ApplyLooksUp
<1>2. ASSUME NEW n \in Machines, WatchStep(n) \/ VmExit(n)
      PROVE  req' = req /\ Fills
  <2>1. CASE WatcherApplies(n)
    BY <1>1, <2>1 DEF WatcherApplies
  <2> QED BY <1>2, <2>1, WatcherWrites, CacheIsKnown
<1>3. ASSUME NEW n \in Machines, ReconcileOne(n) \/ ReconcileFails(n)
      PROVE  req' = req /\ Fills
  <2>1. ReconcileVisit(n)
    BY <1>3 DEF ReconcileOne, ReconcileFails
  <2>2. /\ appConfigs' = Put(appConfigs, machines[n].app, Lookup(machines[n].app))
        /\ req' = req /\ n \in DOMAIN machines
    BY <2>1 DEF ReconcileVisit, DaemonInv, Phases
  <2>3. Known(machines[n].app)
    BY <2>2 DEF Known, DaemonInv, StoreInv, ForeignKeys
  <2> QED BY <2>2, <2>3, CacheIsKnown DEF Put, Known, Lookup
<1>4. CASE MainApplies
  BY <1>1, <1>4 DEF MainApplies
<1>5. ASSUME NEW n \in Machines, ReconcileSubnet(n) \/ StopOne(n)
      PROVE  req' = req /\ Fills
  BY <1>5, CacheIsKnown DEF ReconcileSubnet, StopOne
<1>6. CASE Start \/ Reconciled \/ Terminate
  BY <1>6, CacheIsKnown DEF Start, Reconciled, Terminate, deployerVars
<1> QED
  BY <1>2, <1>3, <1>4, <1>5, <1>6 DEF MainStep, Exit, Crash

LEMMA OthersCache ==
    ASSUME DaemonInv, CacheInv, \/ \E n \in Machines : WatchStep(n) \/ VmExit(n)
                                \/ MainStep \/ Terminate \/ Crash
    PROVE  CacheInv'
<1>1. apps' = apps
  BY WatcherWrites, MainWrites
<1>2. CASE Gone
  <2>1. DOMAIN appConfigs' = {} /\ \A w \in Workers : req'[w].pc = "idle"
    BY <1>2 DEF Gone, NoRows, Idle
  <2> QED BY <2>1 DEF CacheInv
<1> QED
  BY <1>1, <1>2, OthersLookUp, CacheFills DEF SameConfigs

\* As long as the requests about an app come one after another, the configs in
\* memory are those in the store whenever nothing is going on, although watchers
\* and the requests about other apps look configs up and cache them at any time,
\* a deploy that fails has stored its config, and a run may end anywhere.
THEOREM CachedConfigsAreStored == Spec /\ []OneAtATime => []CacheSettles
<1>1. Init => CacheInv
  <2> SUFFICES ASSUME Init PROVE CacheInv
    OBVIOUS
  <2>1. DOMAIN appConfigs = {}
    BY DEF Init, DeployerInit, TunnelInit, NoRows
  <2> QED BY <2>1, NothingBegun DEF CacheInv
<1>2. ASSUME OneAtATime, DaemonInv, CacheInv, [Next]_vars
      PROVE  CacheInv'
  <2>1. CASE UNCHANGED vars
    <3>1. UNCHANGED <<req, apps, appConfigs>>
      BY <2>1 DEF vars, deployerVars, storeVars
    <3> QED BY <1>2, <3>1 DEF CacheInv
  <2> QED BY <1>2, <2>1, WorkerCache, OthersCache DEF Next, DeployerStep
<1>3. CacheInv => CacheSettles
  BY DEF CacheInv, CacheSettles, Quiet, At
<1> QED
  BY <1>1, <1>2, <1>3, DaemonInvariant, PTL DEF Spec
-----------------------------------------------------------------------------
(* The ingress, when the config file can be written and cloudflared         *)
(* restarted.                                                              *)

LockState == tunnelMu = Nil <=> rendering[1] = "none"

\* Who has the lock is in applyTunnel.
Locked ==
    /\ tunnelMu = Main => phase = "ingress"
    /\ tunnelMu \in Workers => req[tunnelMu].pc = "tunnel"
    /\ tunnelMu \in Machines => tunnelMu \in DOMAIN watch /\ watch[tunnelMu] = "tunnel"
    /\ LockState

LEMMA ApplyLock ==
    ASSUME LockState, NEW c, c # Nil,
           ApplyRead(c) \/ ApplyWrite(c) \/ ApplyFails(c) \/ ApplyRestart(c)
    PROVE  LockState' /\ tunnelMu' \in {c, Nil}
<1>1. CASE ApplyRead(c)
  BY <1>1 DEF ApplyRead, LockState
<1>2. CASE ApplyWrite(c)
  BY <1>2 DEF ApplyWrite, LockState
<1>3. CASE ApplyFails(c)
  BY <1>3 DEF ApplyFails, LockState, NotRendering
<1>4. CASE ApplyRestart(c)
  BY <1>4 DEF ApplyRestart, LockState, NotRendering
<1> QED
  BY <1>1, <1>2, <1>3, <1>4

\* Watchers are left alone by requests, which only start new ones.
LEMMA WatchersLast ==
    ASSUME DaemonInv, Custody, NEW w \in Workers, Issue(w) \/ WorkerStep(w) \/ CommandEnds(w)
    PROVE  \A m \in DOMAIN watch : m \in DOMAIN watch' /\ watch'[m] = watch[m]
<1>1. CASE MarkRunning(w)
  <2>1. req[w].id \notin DOMAIN watch
    BY <1>1 DEF MarkRunning, At, Custody, Private, Holds, MachinePcs
  <2> QED BY <1>1, <2>1 DEF MarkRunning, Put
<1> QED
  BY <1>1, WorkerFrame

LEMMA WorkerLocked ==
    ASSUME DaemonInv, Custody, Undisturbed, Locked, NEW w \in Workers,
           Issue(w) \/ WorkerStep(w) \/ CommandEnds(w)
    PROVE  Locked'
<1>1. SUFFICES /\ tunnelMu' = Main => tunnelMu = Main
               /\ tunnelMu' \in Workers => req'[tunnelMu'].pc = "tunnel"
               /\ tunnelMu' \in Machines => tunnelMu' \in DOMAIN watch' /\ watch'[tunnelMu'] = "tunnel"
               /\ LockState'
  BY DEF Locked, Undisturbed
<1>2. w \notin Machines \cup {Nil, Main} /\ Nil \notin Workers \cup Machines /\ Nil # Main
  BY DeployerAssumption, OakdAssumption
<1>3. CASE WorkerApplies(w)
  <2>1. LockState' /\ tunnelMu' \in {w, Nil}
    BY <1>1, <1>2, <1>3, ApplyLock DEF WorkerApplies, WorkerReturns, Locked
  <2>2. tunnelMu' = w => req'[w].pc = "tunnel"
    BY <1>2, <1>3 DEF WorkerApplies, WorkerReturns, WorkerInTunnel, ApplyFails, ApplyRestart, At
  <2> QED BY <1>2, <2>1, <2>2
<1>4. CASE ~WorkerApplies(w)
  <2>1. UNCHANGED <<tunnelMu, rendering, disk, live>>
    BY <1>4, WorkerWrites DEF tunnelVars
  <2>2. tunnelMu # w
    BY <1>1, <1>4, StepAt DEF Locked, At
  <2>3. \A x \in Workers : x # w => req'[x] = req[x]
    BY WorkerMoves DEF OwnStep
  <2> QED BY <1>1, <2>1, <2>2, <2>3, WatchersLast DEF Locked, LockState
<1> QED
  BY <1>3, <1>4

\* What a watcher does where the invariants below speak of it.
LEMMA WatchAt ==
    ASSUME NEW n \in Machines, WatchStep(n) \/ VmExit(n)
    PROVE  \/ UNCHANGED watch /\ VmExit(n) /\ UNCHANGED tunnelVars
           \/ WatcherApplies(n)
           \/ /\ n \in DOMAIN watch /\ Steps(n) /\ UNCHANGED tunnelVars
              /\ \/ watch[n] \in {"wait", "read"}
                 \/ WatchMarks(n) /\ watch[n] = "mark" /\ n \in DOMAIN watch' /\ watch'[n] = "unhandle"
                 \/ WatchUnhandles(n) /\ watch[n] = "unhandle" /\ n \in DOMAIN watch' /\ watch'[n] = "delete"
                 \/ WatchDeletes(n) /\ watch[n] = "delete" /\ n \in DOMAIN watch' /\ watch'[n] = "tunnel"
<1>1. CASE VmExit(n)
  BY <1>1 DEF VmExit, tunnelVars
<1>2. CASE WatchWakes(n) \/ WatchReads(n)
  BY <1>2, WatchSteps DEF WatchWakes, WatchReads
<1>3. CASE WatchMarks(n) \/ WatchUnhandles(n) \/ WatchDeletes(n)
  <2>1. n \in DOMAIN watch /\ UNCHANGED tunnelVars
    BY <1>3 DEF WatchMarks, WatchUnhandles, WatchDeletes, Advance
  <2>2. /\ Steps(n) /\ n \in DOMAIN watch'
        /\ WatchMarks(n) => watch[n] = "mark" /\ watch'[n] = "unhandle"
        /\ WatchUnhandles(n) => watch[n] = "unhandle" /\ watch'[n] = "delete"
        /\ WatchDeletes(n) => watch[n] = "delete" /\ watch'[n] = "tunnel"
    BY <1>3, WatchSteps DEF WatchMarks, WatchUnhandles, WatchDeletes, Advance
  <2> QED BY <1>3, <2>1, <2>2
<1> QED
  BY <1>1, <1>2, <1>3 DEF WatchStep

LEMMA WatcherLocked ==
    ASSUME Undisturbed, Locked, NEW n \in Machines, WatchStep(n) \/ VmExit(n)
    PROVE  Locked'
<1>1. SUFFICES /\ tunnelMu' = Main => tunnelMu = Main
               /\ tunnelMu' \in Workers => req'[tunnelMu'].pc = "tunnel"
               /\ tunnelMu' \in Machines => tunnelMu' \in DOMAIN watch' /\ watch'[tunnelMu'] = "tunnel"
               /\ LockState'
  BY DEF Locked, Undisturbed
<1>2. n \notin Workers \cup {Nil, Main} /\ Nil \notin Workers \cup Machines /\ Nil # Main
  BY DeployerAssumption, OakdAssumption
<1>3. CASE WatcherApplies(n)
  <2>1. LockState' /\ tunnelMu' \in {n, Nil}
    BY <1>1, <1>2, <1>3, ApplyLock DEF WatcherApplies, Locked
  <2>2. tunnelMu' = n => n \in DOMAIN watch' /\ watch'[n] = "tunnel"
    BY <1>2, <1>3 DEF WatcherApplies, WatcherInTunnel, ApplyFails, ApplyRestart
  <2> QED BY <1>2, <2>1, <2>2
<1>4. CASE ~WatcherApplies(n)
  <2>1. UNCHANGED <<tunnelMu, rendering, disk, live, req>>
    BY <1>4, WatchAt, WatcherWrites DEF tunnelVars
  <2>2. CASE UNCHANGED watch
    BY <1>1, <2>1, <2>2 DEF Locked, LockState
  <2>3. CASE Steps(n) /\ n \in DOMAIN watch /\ watch[n] \in {"wait", "read", "mark", "unhandle", "delete"}
    <3>1. tunnelMu # n
      BY <1>1, <2>3 DEF Locked
    <3> QED BY <1>1, <2>1, <2>3, <3>1 DEF Locked, LockState, Steps
  <2> QED BY <1>4, <2>2, <2>3, WatchAt
<1> QED
  BY <1>3, <1>4
\* Whoever has changed, or is about to change, which machines run has yet to
\* list them in applyTunnel.
DuePcs == {"list", "stop", "delete", "unhandle", "ok"} \cup TeardownPcs

WorkerDue(w) == req[w].pc \in DuePcs \/ (req[w].pc = "tunnel" /\ tunnelMu # w)

WatchDue(m) ==
    /\ m \in DOMAIN watch
    /\ watch[m] \in {"unhandle", "delete"} \/ (watch[m] = "tunnel" /\ tunnelMu # m)

\* The main goroutine of a run that is over, or begins, and has not listed them.
MainDue == phase \notin {"up", "ingress"} \/ (phase = "ingress" /\ tunnelMu # Main)

RequestDue == (\E w \in Workers : WorkerDue(w)) \/ (\E m \in Machines : WatchDue(m))

\* A Destroy that could not remove the files has gone without its applyTunnel.
Due == MainDue \/ RequestDue \/ unremoved # {}

LEMMA WorkerStaysDue ==
    ASSUME DaemonInv, Teardown, Locked, NEW w \in Workers,
           Issue(w) \/ WorkerStep(w) \/ CommandEnds(w), WorkerDue(w)
    PROVE  WorkerDue(w)' \/ ApplyRead(w) \/ unremoved' # {}
<1>1. req \in [Workers -> ReqType]
  BY DEF DaemonInv, Locals
<1>2. CASE ListMachines(w) \/ UnhandleListed(w)
  <2>1. PICK S : req' = [req EXCEPT ![w].todo = S, ![w].pc = LoopPc(req[w].op, S)]
    BY <1>2 DEF ListMachines, UnhandleListed
  <2>2. LoopPc(req[w].op, S) \in {"stop", "releases", "ok"}
    BY DEF LoopPc, AfterLoop
  <2>3. req'[w].pc = LoopPc(req[w].op, S)
    BY <1>1, <2>1 DEF ReqType
  <2> QED BY <2>2, <2>3 DEF WorkerDue, DuePcs, TeardownPcs
<1>3. CASE StopListed(w) \/ DeleteListed(w) \/ DestroyReleases(w) \/ DestroySecrets(w)
           \/ DestroyVolumes(w) \/ DestroyCached(w)
  <2>1. req'[w].pc \in {"delete", "unhandle", "secrets", "dropvolumes", "dropapp", "removefiles"}
    BY <1>1, <1>3, GotoEffect DEF StopListed, DeleteListed, DestroyReleases, DestroySecrets,
       DestroyVolumes, DestroyCached
  <2> QED BY <2>1 DEF WorkerDue, DuePcs, TeardownPcs
<1>4. CASE DestroyApp(w)
  <2>1. MachinesForApp(req[w].app) = {} /\ ReleasesOf(req[w].app) = {}
    BY <1>4 DEF DestroyApp, At, Teardown, TornDown, TeardownPcs
  <2>2. Goto(w, "uncache")
    BY <1>4, <2>1 DEF DestroyApp, Referenced, MachinesForApp, ReleasesOf
  <2>3. req'[w].pc = "uncache"
    BY <1>1, <2>2, GotoEffect
  <2> QED BY <2>3 DEF WorkerDue, DuePcs, TeardownPcs
<1>5. CASE EmitOk(w) \/ DestroyFiles(w)
  <2>1. tunnelMu' = tunnelMu /\ req[w].pc # "tunnel"
    BY <1>5 DEF EmitOk, DestroyFiles, tunnelVars, At
  <2>2. req'[w].pc = "tunnel" \/ unremoved' # {}
    BY <1>1, <1>5, GotoEffect, FilesRemoved DEF EmitOk
  <2> QED BY <2>1, <2>2 DEF WorkerDue, Locked
<1>6. CASE WorkerApplies(w)
  <2>1. tunnelMu # w
    BY <1>6 DEF WorkerApplies, WorkerInTunnel, At, WorkerDue, DuePcs, TeardownPcs
  <2> QED BY <1>6, <2>1 DEF WorkerApplies, WorkerReturns, ApplyWrite, ApplyFails, ApplyRestart
<1>7. req[w].pc \in DuePcs \cup {"tunnel"}
  BY DEF WorkerDue
<1> QED
  BY <1>2, <1>3, <1>4, <1>5, <1>6, <1>7, StepAt, LoopLeaves DEF At, DuePcs, TeardownPcs

LEMMA TunnelMoves ==
    ASSUME NEW c, ApplyRead(c) \/ ApplyWrite(c) \/ ApplyFails(c) \/ ApplyRestart(c)
    PROVE  tunnelMu' \in {tunnelMu, c, Nil}
  BY DEF ApplyRead, ApplyWrite, ApplyFails, ApplyRestart

\* What was due stays due until somebody lists the running machines.
LEMMA WorkerDueStays ==
    ASSUME DaemonInv, Custody, Teardown, Locked, Undisturbed, NEW w \in Workers,
           Issue(w) \/ WorkerStep(w) \/ CommandEnds(w), Due
    PROVE  Due' \/ ApplyRead(w)
<1>1. tunnelMu' \in {tunnelMu, w, Nil}
  <2>1. CASE WorkerApplies(w)
    BY <2>1, TunnelMoves DEF WorkerApplies, WorkerReturns
  <2> QED BY <2>1, WorkerWrites DEF tunnelVars
<1>2. w \notin Machines \cup {Main} /\ Nil \notin Workers \cup Machines \cup {Main}
  BY DeployerAssumption, OakdAssumption
<1>3. ASSUME NEW x \in Workers, WorkerDue(x), x # w
      PROVE  WorkerDue(x)'
  <2>1. req'[x] = req[x]
    BY <1>3, WorkerMoves DEF OwnStep
  <2> QED BY <1>1, <1>2, <1>3, <2>1 DEF WorkerDue
<1>4. ASSUME NEW m \in Machines, WatchDue(m)
      PROVE  WatchDue(m)'
  BY <1>1, <1>2, <1>4, WatchersLast DEF WatchDue
<1>5. MainDue => MainDue'
  BY <1>1, <1>2 DEF MainDue, Undisturbed
<1>6. ASSUME unremoved # {}, unremoved' = {}
      PROVE  WorkerDue(w)'
  <2>1. DestroyFiles(w)
    BY <1>6, WorkerWrites
  <2>2. req'[w].pc = "tunnel" /\ tunnelMu' = tunnelMu /\ req[w].pc = "removefiles"
    BY <1>6, <2>1, FilesRemoved DEF tunnelVars
  <2> QED BY <2>2 DEF WorkerDue, Locked
<1> QED
  BY <1>3, <1>4, <1>5, <1>6, WorkerStaysDue DEF Due, RequestDue

LEMMA WatcherDueStays ==
    ASSUME Locked, Undisturbed, NEW n \in Machines, WatchStep(n) \/ VmExit(n), Due
    PROVE  Due' \/ ApplyRead(n)
<1>1. tunnelMu' \in {tunnelMu, n, Nil} /\ req' = req /\ unremoved' = unremoved
  <2>1. CASE WatcherApplies(n)
    BY <2>1, TunnelMoves, WatcherWrites DEF WatcherApplies
  <2> QED BY <2>1, WatchAt, WatcherWrites DEF tunnelVars
<1>2. n \notin Workers \cup {Main} /\ Nil \notin Workers \cup Machines \cup {Main}
  BY DeployerAssumption, OakdAssumption
<1>3. ASSUME NEW x \in Workers, WorkerDue(x)
      PROVE  WorkerDue(x)'
  BY <1>1, <1>2, <1>3 DEF WorkerDue
<1>4. ASSUME NEW m \in Machines, WatchDue(m), m # n
      PROVE  WatchDue(m)'
  <2>1. m \in DOMAIN watch' /\ watch'[m] = watch[m]
    <3>1. CASE WatcherApplies(n)
      BY <1>4, <3>1 DEF WatcherApplies, Unwatch, Drop, WatchDue
    <3> QED BY <1>4, <3>1, WatchAt DEF Steps, WatchDue
  <2> QED BY <1>1, <1>2, <1>4, <2>1 DEF WatchDue
<1>5. ASSUME WatchDue(n)
      PROVE  WatchDue(n)' \/ ApplyRead(n)
  <2>1. CASE WatcherApplies(n)
    <3>1. tunnelMu # n
      BY <1>5, <2>1 DEF WatcherApplies, WatcherInTunnel, WatchDue
    <3> QED BY <2>1, <3>1 DEF WatcherApplies, ApplyWrite, ApplyFails, ApplyRestart
  <2>2. CASE UNCHANGED <<watch, tunnelVars>>
    BY <1>5, <2>2 DEF WatchDue, tunnelVars
  <2>3. CASE /\ watch[n] = "unhandle" /\ n \in DOMAIN watch' /\ watch'[n] = "delete"
    BY <2>3 DEF WatchDue
  <2>4. CASE /\ watch[n] = "delete" /\ n \in DOMAIN watch' /\ watch'[n] = "tunnel"
             /\ UNCHANGED tunnelVars
    BY <2>4 DEF WatchDue, Locked, tunnelVars
  <2> QED BY <1>5, <2>1, <2>2, <2>3, <2>4, WatchAt DEF WatchDue
<1>6. MainDue => MainDue'
  BY <1>1, <1>2 DEF MainDue, Undisturbed
<1> QED
  BY <1>1, <1>3, <1>4, <1>5, <1>6 DEF Due, RequestDue

\* Nobody changes which machines run without owing a call of applyTunnel.
SameServing ==
    /\ RunningMachines' = RunningMachines
    /\ \A m \in RunningMachines : machines'[m] = machines[m]

LEMMA WorkerServing ==
    ASSUME DaemonInv, Custody, NEW w \in Workers, Issue(w) \/ WorkerStep(w) \/ CommandEnds(w)
    PROVE  SameServing \/ Due'
<1>1. req \in [Workers -> ReqType]
  BY DEF DaemonInv, Locals
<1>2. CASE DeleteListed(w)
  <2>1. req'[w].pc = "unhandle"
    BY <1>1, <1>2, GotoEffect DEF DeleteListed
  <2> QED BY <2>1 DEF Due, RequestDue, WorkerDue, DuePcs
<1>3. CASE MarkRunning(w)
  <2>1. CASE Goto(w, "list")
    <3>1. req'[w].pc = "list"
      BY <1>1, <2>1, GotoEffect
    <3> QED BY <3>1 DEF Due, RequestDue, WorkerDue, DuePcs
  <2>2. CASE UNCHANGED storeVars
    BY <2>2 DEF SameServing, RunningMachines, storeVars
  <2> QED BY <1>3, <2>1, <2>2 DEF MarkRunning
<1>4. CASE ~DeleteListed(w) /\ ~MarkRunning(w)
  <2>1. \A m \in RunningMachines : m \in DOMAIN machines' /\ machines'[m] = machines[m]
    <3> TAKE m \in RunningMachines
    <3>1. m \in DOMAIN machines /\ machines[m].state = "running"
      BY DEF RunningMachines
    <3>2. ~(Holds(w) /\ m = req[w].id)
      BY <3>1 DEF Custody, Private
    <3> QED BY <1>4, <3>1, <3>2, WorkerRows
  <2>2. RunningMachines' \subseteq RunningMachines
    BY <1>4, WorkerRunning
  <2>3. RunningMachines \subseteq RunningMachines'
    BY <2>1 DEF RunningMachines
  <2> QED BY <2>1, <2>2, <2>3 DEF SameServing
<1> QED
  BY <1>2, <1>3, <1>4

LEMMA WatcherServing ==
    ASSUME Locked, NEW n \in Machines, WatchStep(n) \/ VmExit(n)
    PROVE  SameServing \/ Due'
<1>1. CASE machines' = machines
  BY <1>1 DEF SameServing, RunningMachines
<1>2. CASE n \in DOMAIN watch' /\ watch'[n] = "unhandle"
  BY <1>2 DEF Due, RequestDue, WatchDue
<1>3. CASE /\ watch[n] = "delete" /\ n \in DOMAIN watch' /\ watch'[n] = "tunnel"
           /\ UNCHANGED tunnelVars
  BY <1>3 DEF Due, RequestDue, WatchDue, Locked, tunnelVars
<1>4. CASE WatchWakes(n) \/ WatchReads(n) \/ WatchUnhandles(n) \/ WatcherApplies(n) \/ VmExit(n)
  <2>1. machines' = machines
    BY <1>4 DEF WatchWakes, WatchReads, WatchUnhandles, WatcherApplies, VmExit, ApplyRead,
       ApplyWrite, ApplyFails, ApplyRestart, storeVars
  <2> QED BY <1>1, <2>1
<1>5. CASE WatchMarks(n)
  BY <1>2, <1>5, WatchSteps DEF WatchMarks, Advance
<1>6. CASE WatchDeletes(n)
  <2>1. watch[n] = "delete" /\ n \in DOMAIN watch' /\ watch'[n] = "tunnel" /\ UNCHANGED tunnelVars
    BY <1>6, WatchSteps DEF WatchDeletes, Advance
  <2> QED BY <1>3, <2>1
<1> QED
  BY <1>4, <1>5, <1>6 DEF WatchStep
\* The routes f go to the newest machines of apps that have one; and all of these
\* have a route where every config has a service.
Fits(f) ==
    /\ DOMAIN f \subseteq DOMAIN ServingRows
    /\ \A a \in DOMAIN f : f[a].ip = ServingRows[a]
    /\ (\A c \in Configs : c.port # 0) => DOMAIN ServingRows \subseteq DOMAIN f

RoutedNow ==
    /\ rendering[1] = "rows" => rendering[2] = ServingRows
    /\ rendering[1] = "written" => Fits(disk)
    /\ rendering[1] = "none" => Fits(live) /\ disk = live

Routed == ~Due => RoutedNow

LEMMA ServingSame ==
    ASSUME DaemonInv, SameServing
    PROVE  ServingRows' = ServingRows
<1>1. \A a : NewestRunning(a)' = NewestRunning(a)
  <2> SUFFICES ASSUME NEW a PROVE NewestRunning(a)' = NewestRunning(a)
    OBVIOUS
  <2>1. {m \in RunningMachines' : machines'[m].app = a} = {m \in RunningMachines : machines[m].app = a}
    BY DEF SameServing
  <2> QED BY <2>1 DEF NewestRunning
<1>2. {machines'[m].app : m \in RunningMachines'} = {machines[m].app : m \in RunningMachines}
  BY DEF SameServing
<1>3. ASSUME NEW a \in {machines[m].app : m \in RunningMachines}
      PROVE  machines'[NewestRunning(a)].ip = machines[NewestRunning(a)].ip
  BY <1>3, NewestRuns DEF SameServing
<1> QED
  BY <1>1, <1>2, <1>3 DEF ServingRows

LEMMA ServingApps ==
    ASSUME DaemonInv
    PROVE  \A a \in DOMAIN ServingRows : a \in DOMAIN apps
  BY DEF ServingRows, RunningMachines, DaemonInv, StoreInv, ForeignKeys

LEMMA ApplyRoutes ==
    ASSUME {"write", "restart"} \cap Faults = {}, DaemonInv, NEW c,
           \/ ApplyRead(c)
           \/ RoutedNow /\ (ApplyWrite(c) \/ ApplyFails(c) \/ ApplyRestart(c))
    PROVE  RoutedNow'
<1>1. ServingRows' = ServingRows
  BY ServingSame DEF SameServing, RunningMachines, ApplyRead, ApplyWrite, ApplyFails, ApplyRestart,
     storeVars
<1>2. CASE ApplyRead(c)
  BY <1>1, <1>2 DEF ApplyRead, RoutedNow
<1>3. CASE RoutedNow /\ ApplyWrite(c)
  <2>1. /\ disk' = [a \in {b \in DOMAIN ServingRows : Lookup(b).port # 0} |->
                       [ip |-> ServingRows[a], port |-> Lookup(a).port]]
        /\ rendering' = <<"written", NoRows>>
        /\ \A a \in DOMAIN ServingRows : Known(a)
    BY <1>3 DEF ApplyWrite, RoutedNow
  <2>2. \A a \in DOMAIN ServingRows : Lookup(a) \in Configs
    BY <2>1, LookupFound
  <2>3. Fits(disk')
    BY <2>1, <2>2 DEF Fits
  <2> QED BY <1>1, <2>1, <2>3 DEF RoutedNow, Fits
<1>4. CASE RoutedNow /\ ApplyFails(c)
  <2>1. \E a \in DOMAIN ServingRows : ~Known(a)
    BY <1>4 DEF ApplyFails, RoutedNow
  <2> QED BY <2>1, ServingApps DEF Known
<1>5. CASE RoutedNow /\ ApplyRestart(c)
  <2>1. live' = disk /\ disk' = disk /\ Fits(disk) /\ rendering' = NotRendering
    BY <1>5 DEF ApplyRestart, RoutedNow
  <2> QED BY <1>1, <2>1 DEF RoutedNow, Fits, NotRendering
<1> QED
  BY <1>2, <1>3, <1>4, <1>5

LEMMA RoutesUntouched ==
    ASSUME DaemonInv, RoutedNow, SameServing, UNCHANGED tunnelVars
    PROVE  RoutedNow'
  BY ServingSame DEF RoutedNow, Fits, tunnelVars

LEMMA WorkerRouted ==
    ASSUME {"write", "restart"} \cap Faults = {}, DaemonInv, Custody, Teardown, Locked, Routed,
           Undisturbed, NEW w \in Workers, Issue(w) \/ WorkerStep(w) \/ CommandEnds(w)
    PROVE  Routed'
<1>1. SUFFICES ASSUME ~Due' PROVE RoutedNow'
  BY DEF Routed
<1>2. CASE ~ApplyRead(w)
  <2>1. RoutedNow /\ SameServing
    BY <1>1, <1>2, WorkerDueStays, WorkerServing DEF Routed
  <2>2. CASE WorkerApplies(w)
    BY <1>2, <2>1, <2>2, ApplyRoutes DEF WorkerApplies, WorkerReturns
  <2> QED BY <2>1, <2>2, WorkerWrites, RoutesUntouched
<1> QED
  BY <1>2, ApplyRoutes

LEMMA WatcherRouted ==
    ASSUME {"write", "restart"} \cap Faults = {}, DaemonInv, Locked, Routed, Undisturbed,
           NEW n \in Machines, WatchStep(n) \/ VmExit(n)
    PROVE  Routed'
<1>1. SUFFICES ASSUME ~Due' PROVE RoutedNow'
  BY DEF Routed
<1>2. CASE ~ApplyRead(n)
  <2>1. RoutedNow /\ SameServing
    BY <1>1, <1>2, WatcherDueStays, WatcherServing DEF Routed
  <2>2. CASE WatcherApplies(n)
    BY <1>2, <2>1, <2>2, ApplyRoutes DEF WatcherApplies
  <2> QED BY <2>1, <2>2, WatcherWrites, RoutesUntouched
<1> QED
  BY <1>2, ApplyRoutes

\* The main goroutine keeps the lock only in its own applyTunnel.
LEMMA MainLocked ==
    ASSUME DaemonInv, Locked, MainStep \/ Terminate \/ Crash
    PROVE  Locked'
<1>1. Main \notin Workers \cup Machines \cup {Nil} /\ Nil \notin Workers \cup Machines
  BY DeployerAssumption, OakdAssumption
<1>2. CASE Gone
  BY <1>1, <1>2 DEF Gone, NotRendering, Locked, LockState
<1>3. CASE MainApplies
  <2>1. LockState' /\ tunnelMu' \in {Main, Nil}
    BY <1>1, <1>3, ApplyLock DEF MainApplies, Locked
  <2>2. tunnelMu' = Main => phase' = "ingress"
    BY <1>1, <1>3 DEF MainApplies, ApplyFails, ApplyRestart
  <2> QED BY <1>1, <2>1, <2>2 DEF Locked
<1>4. ASSUME phase # "ingress", UNCHANGED <<tunnelVars, req>>,
             \A m \in DOMAIN watch : m \in DOMAIN watch' /\ watch'[m] = watch[m]
      PROVE  Locked'
  BY <1>4 DEF Locked, LockState, tunnelVars
<1>5. CASE Start \/ Reconciled \/ Terminate
  BY <1>4, <1>5 DEF Start, Reconciled, Terminate, deployerVars
<1>6. ASSUME NEW m \in Machines, ReconcileSubnet(m) \/ ReconcileFails(m) \/ StopOne(m)
      PROVE  Locked'
  BY <1>4, <1>6 DEF ReconcileSubnet, ReconcileFails, ReconcileVisit, StopOne
<1>7. ASSUME NEW m \in Machines, ReconcileOne(m)
      PROVE  Locked'
  <2>1. m \notin DOMAIN watch /\ phase # "ingress"
    BY <1>7 DEF ReconcileOne, ReconcileVisit, DaemonInv, Phases
  <2> QED BY <1>4, <1>7, <2>1 DEF ReconcileOne, ReconcileVisit, Put
<1> QED
  BY <1>2, <1>3, <1>5, <1>6, <1>7 DEF MainStep, Exit, Crash

\* Whatever a run left behind, the next one lists the machines once it has
\* reconciled them.
LEMMA MainRouted ==
    ASSUME {"write", "restart"} \cap Faults = {}, DaemonInv, Locked, Routed,
           MainStep \/ Terminate \/ Crash
    PROVE  Routed'
<1>1. Main \notin Workers \cup Machines \cup {Nil} /\ Nil \notin Workers \cup Machines
  BY DeployerAssumption, OakdAssumption
<1>2. CASE MainApplies
  <2>1. CASE ApplyRead(Main)
    BY <2>1, ApplyRoutes DEF Routed
  <2>2. CASE ApplyWrite(Main) \/ ApplyFails(Main) \/ ApplyRestart(Main)
    <3>1. tunnelMu = Main /\ tunnelMu' \in {Main, Nil} /\ phase = "ingress" /\ UNCHANGED <<req, watch>>
      BY <1>2, <2>2 DEF MainApplies, ApplyWrite, ApplyFails, ApplyRestart
    <3>2. ~MainDue
      BY <3>1 DEF MainDue
    <3>3. RequestDue => RequestDue'
      BY <1>1, <3>1 DEF RequestDue, WorkerDue, WatchDue
    <3>4. ~Due' => RoutedNow
      BY <3>2, <3>3, MainWrites DEF Due, Routed
    <3> QED BY <2>2, <3>4, ApplyRoutes DEF Routed
  <2> QED BY <1>2, <2>1, <2>2 DEF MainApplies
<1>3. CASE ~MainApplies
  <2>1. phase' \notin {"up", "ingress"} \/ Reconciled
    BY <1>3 DEF MainStep, Start, ReconcileSubnet, ReconcileOne, ReconcileFails, ReconcileVisit,
       StopOne, Exit, Gone, Terminate, Crash, oakdVars
  <2>2. CASE Reconciled
    <3>1. phase' = "ingress" /\ tunnelMu' # Main
      BY <2>2 DEF Reconciled, Locked, deployerVars, tunnelVars
    <3> QED BY <3>1 DEF Routed, Due, MainDue
  <2> QED BY <2>1, <2>2 DEF Routed, Due, MainDue
<1> QED
  BY <1>2, <1>3

IngressInv == Locked /\ Routed

LEMMA IngressInvKept ==
    ASSUME {"write", "restart"} \cap Faults = {}, DaemonInv, Custody, Teardown, IngressInv,
           [Next]_vars
    PROVE  IngressInv'
<1>1. CASE DeployerStep
  <2>1. Undisturbed
    BY <1>1 DEF DeployerStep, Undisturbed, oakdVars
  <2> QED BY <1>1, <2>1, WorkerLocked, WatcherLocked, WorkerRouted, WatcherRouted
          DEF DeployerStep, IngressInv
<1>2. CASE UNCHANGED vars
  <2>1. /\ UNCHANGED <<phase, req, watch, machines, tunnelMu, rendering, disk, live, unremoved>>
    BY <1>2 DEF vars, deployerVars, oakdVars, storeVars, tunnelVars, fileVars
  <2>2. Locked'
    BY <2>1 DEF IngressInv, Locked, LockState
  <2>3. Due' <=> Due
    BY <2>1 DEF Due, MainDue, RequestDue, WorkerDue, WatchDue
  <2>4. RoutedNow => RoutedNow'
    BY <2>1, RoutesUntouched DEF SameServing, RunningMachines, tunnelVars
  <2> QED BY <2>2, <2>3, <2>4 DEF IngressInv, Routed
<1>3. CASE MainStep \/ Terminate \/ Crash
  BY <1>3, MainLocked, MainRouted DEF IngressInv
<1> QED
  BY <1>1, <1>2, <1>3 DEF Next

LEMMA IngressInvariant ==
    ASSUME {"write", "restart"} \cap Faults = {}
    PROVE  Spec /\ []DestroysAlone => []IngressInv
<1>1. Init => IngressInv
  <2> SUFFICES ASSUME Init PROVE IngressInv
    OBVIOUS
  <2>1. /\ tunnelMu = Nil /\ rendering = NotRendering /\ disk = NoRows /\ live = NoRows
        /\ machines = NoRows
    BY DEF Init, DeployerInit, StoreInit, TunnelInit
  <2>2. Nil # Main /\ Nil \notin Workers \cup Machines
    BY DeployerAssumption, OakdAssumption
  <2>3. Locked
    BY <2>1, <2>2 DEF Locked, LockState, NotRendering
  <2>4. DOMAIN ServingRows = {} /\ DOMAIN live = {}
    BY <2>1 DEF ServingRows, RunningMachines, NoRows
  <2>5. RoutedNow
    BY <2>1, <2>4 DEF RoutedNow, Fits, NotRendering
  <2> QED BY <2>3, <2>5 DEF IngressInv, Routed
<1> QED
  BY <1>1, IngressInvKept, TeardownInvariant, CustodyInvariant, PTL DEF Spec

\* When nothing is going on, what cloudflared runs with fits.
LEMMA QuietRoutes ==
    ASSUME IngressInv, Quiet, unremoved = {}
    PROVE  Fits(live) /\ disk = live
<1>1. ~Due
  BY DEF Quiet, At, Due, MainDue, RequestDue, WorkerDue, WatchDue, DuePcs, TeardownPcs
<1> QED
  BY <1>1 DEF Quiet, IngressInv, Locked, LockState, Routed, RoutedNow

\* When nothing is going on and no Destroy has stopped short of applyTunnel at a
\* file it could not remove, every route goes to the newest machine of an app
\* that has one: none is left to a machine that a cutover, a destroy, a death or
\* an end of the daemon has taken away, although applyTunnel works from a list of
\* the machines that others change while it writes the file, and a run may end
\* between its writing the file and the restart of cloudflared.
THEOREM RoutesAreCurrent ==
    ASSUME {"write", "restart"} \cap Faults = {}
    PROVE  Spec /\ []DestroysAlone =>
               [](Quiet /\ unremoved = {} =>
                      \A a \in DOMAIN live :
                          a \in DOMAIN ServingRows /\ live[a].ip = ServingRows[a])
<1>1. IngressInv =>
          (Quiet /\ unremoved = {} =>
               \A a \in DOMAIN live : a \in DOMAIN ServingRows /\ live[a].ip = ServingRows[a])
  BY QuietRoutes DEF Fits
<1> QED
  BY <1>1, IngressInvariant, PTL

\* And where every app has a service, every app with a machine has its route.
THEOREM IngressSettles ==
    ASSUME {"write", "restart"} \cap Faults = {}, \A c \in Configs : c.port # 0
    PROVE  Spec /\ []DestroysAlone => []RoutesSettle
<1>1. ASSUME DaemonInv, IngressInv, Quiet, unremoved = {}
      PROVE  [a \in DOMAIN live |-> live[a].ip]
             = [a \in {b \in DOMAIN ServingRows : Lookup(b).port # 0} |-> ServingRows[a]]
  <2>1. \A b \in DOMAIN ServingRows : Lookup(b).port # 0
    BY <1>1, ServingApps, LookupFound DEF Known
  <2>2. DOMAIN live = {b \in DOMAIN ServingRows : Lookup(b).port # 0}
    BY <1>1, <2>1, QuietRoutes DEF Fits
  <2>3. \A a \in DOMAIN live : live[a].ip = ServingRows[a]
    BY <1>1, QuietRoutes DEF Fits
  <2> QED BY <2>2, <2>3
<1>2. DaemonInv /\ IngressInv => RoutesSettle
  BY <1>1 DEF RoutesSettle
<1> QED
  BY <1>2, IngressInvariant, DaemonInvariant, PTL

-----------------------------------------------------------------------------
(* What is left of an app that is gone.                                    *)

VmApps == \A m \in DOMAIN vms \cap DOMAIN machines : machines[m].app = vms[m].app

\* A config in memory is of an app in the store, or of one whose destroy is about
\* to forget it; an app is in the store when its config is about to be cached and
\* when its rootfs is built.
KnownApps ==
    /\ \A a \in DOMAIN appConfigs :
           \/ a \in DOMAIN apps
           \/ \E w \in Workers : req[w].pc = "uncache" /\ req[w].app = a
    /\ \A w \in Workers : req[w].pc \in {"cache", "recache", "build"} => req[w].app \in DOMAIN apps

KnownFiles ==
    FirstRun =>
        \A i \in DOMAIN files :
            \/ files[i] \in DOMAIN apps \cup unremoved
            \/ \E w \in Workers : req[w].pc \in {"uncache", "removefiles"} /\ req[w].app = files[i]

LEMMA WorkerVmApps ==
    ASSUME DaemonInv, Custody, VmApps, NEW w \in Workers,
           Issue(w) \/ WorkerStep(w) \/ CommandEnds(w)
    PROVE  VmApps'
<1> SUFFICES ASSUME NEW m \in DOMAIN vms', m \in DOMAIN machines'
             PROVE  machines'[m].app = vms'[m].app
  BY DEF VmApps
<1>1. CASE InsertMachine(w)
  <2>1. vms' = vms /\ m # nextMachine
    BY <1>1 DEF InsertMachine, Custody, Fresh, DaemonInv, Ids
  <2>2. Stays(m)
    BY <2>1, RowsOfWorker
  <2> QED BY <2>1, <2>2 DEF Stays, VmApps
<1>2. CASE ~InsertMachine(w)
  <2>1. Stays(m)
    BY <1>2, RowsOfWorker
  <2>2. CASE VmsLess
    BY <2>1, <2>2 DEF Stays, VmApps, VmsLess
  <2>3. CASE StartMachine(w)
    <3>1. Holds(w)
      BY <2>3 DEF StartMachine, At, Holds, MachinePcs
    <3>2. /\ vms'[req[w].id].app = req[w].app
          /\ m # req[w].id => m \in DOMAIN vms /\ vms'[m] = vms[m]
      BY <2>3 DEF StartMachine, Boot, Put
    <3>3. m = req[w].id => machines[m].app = req[w].app
      BY <2>1, <3>1 DEF Stays, Custody, Private
    <3> QED BY <2>1, <3>2, <3>3 DEF Stays, VmApps
  <2> QED BY <2>2, <2>3, WorkerFrame
<1> QED
  BY <1>1, <1>2

LEMMA OthersVmApps ==
    ASSUME DaemonInv, VmApps, \/ \E n \in Machines : WatchStep(n) \/ VmExit(n)
                              \/ MainStep \/ Terminate \/ Crash
    PROVE  VmApps'
<1>1. \A m \in DOMAIN machines' : Stays(m)
  BY RowsOfOthers
<1>2. CASE VmsLess
  BY <1>1, <1>2 DEF VmApps, VmsLess, Stays
<1>3. ASSUME NEW n \in Machines, ReconcileOne(n)
      PROVE  VmApps'
  <2>1. /\ vms'[n].app = machines[n].app
        /\ \A m \in DOMAIN vms' : m # n => m \in DOMAIN vms /\ vms'[m] = vms[m]
    BY <1>3 DEF ReconcileOne, Boot, Put
  <2> QED BY <1>1, <2>1 DEF VmApps, Stays
<1> QED
  BY <1>2, <1>3, VmsOfOthers
\* Only the delete of an app takes one out of the store.
LEMMA AppsStay ==
    ASSUME DaemonInv, NEW w \in Workers, Issue(w) \/ WorkerStep(w) \/ CommandEnds(w),
           ~(DestroyApp(w) /\ ~Finish(w))
    PROVE  DOMAIN apps \subseteq DOMAIN apps'
<1>1. CASE StoreConfig(w)
  BY <1>1 DEF StoreConfig, UpsertApp, Put
<1>2. CASE RecordOwner(w)
  BY <1>2 DEF RecordOwner, SetAppOwner
<1>3. CASE DestroyApp(w) /\ Finish(w)
  <2>1. ~Goto(w, "uncache")
    BY <1>3, GotoEffect, FinishEffect DEF DaemonInv, Locals
  <2> QED BY <1>3, <2>1 DEF DestroyApp, storeVars
<1> QED
  BY <1>1, <1>2, <1>3, WorkerWrites

LEMMA DropsApp ==
    ASSUME DaemonInv, NEW w \in Workers, DestroyApp(w), ~Finish(w)
    PROVE  /\ apps' = Drop(apps, {req[w].app}) /\ UNCHANGED <<appConfigs, files, unremoved>>
           /\ req[w].pc = "dropapp" /\ req'[w].pc = "uncache" /\ req'[w].app = req[w].app
<1>1. DeleteApp(req[w].app) /\ Goto(w, "uncache")
  BY DEF DestroyApp
<1>2. req'[w].pc = "uncache" /\ req'[w].app = req[w].app
  BY <1>1, GotoEffect DEF DaemonInv, Locals
<1> QED
  BY <1>1, <1>2 DEF DestroyApp, DeleteApp, fileVars, At

LEMMA WorkerKnownApps ==
    ASSUME DestroysAlone, DaemonInv, Teardown, KnownApps, NEW w \in Workers,
           Issue(w) \/ WorkerStep(w) \/ CommandEnds(w)
    PROVE  KnownApps'
<1>1. /\ \A x \in Workers : x # w => req'[x] = req[x]
      /\ req'[w].pc = "cache" => StoreConfig(w)
      /\ req'[w].pc = "recache" => ReadConfig(w)
      /\ req'[w].pc = "build" => CacheConfig(w)
      /\ req'[w].pc \in {"cache", "recache", "build"} => req'[w].app = req[w].app
  BY WorkerGoes DEF Goes, Came
<1>2. CASE DestroyApp(w) /\ ~Finish(w)
  <2>1. /\ apps' = Drop(apps, {req[w].app}) /\ appConfigs' = appConfigs
        /\ req[w].pc = "dropapp" /\ req'[w].pc = "uncache" /\ req'[w].app = req[w].app
    BY <1>2, DropsApp
  <2>2. req[w].op = "destroy"
    BY <2>1 DEF Teardown, TeardownPcs
  <2>3. \A x \in Workers : x # w /\ req[x].pc # "idle" => req[x].app # req[w].app
    BY <2>2 DEF DestroysAlone, At
  <2>4. ASSUME NEW a \in DOMAIN appConfigs'
        PROVE  \/ a \in DOMAIN apps'
               \/ \E x \in Workers : req'[x].pc = "uncache" /\ req'[x].app = a
    BY <1>1, <2>1, <2>4 DEF KnownApps, Drop
  <2>5. ASSUME NEW x \in Workers, req'[x].pc \in {"cache", "recache", "build"}
        PROVE  req'[x].app \in DOMAIN apps'
    BY <1>1, <2>1, <2>3, <2>5 DEF KnownApps, Drop
  <2> QED BY <2>4, <2>5 DEF KnownApps
<1>3. CASE ~(DestroyApp(w) /\ ~Finish(w))
  <2>1. DOMAIN apps \subseteq DOMAIN apps'
    BY <1>3, AppsStay
  <2>2. ASSUME NEW x \in Workers, req'[x].pc \in {"cache", "recache", "build"}
        PROVE  req'[x].app \in DOMAIN apps'
    <3>1. CASE x # w
      BY <1>1, <2>1, <2>2, <3>1 DEF KnownApps
    <3>2. CASE StoreConfig(w) /\ x = w
      BY <1>1, <2>2, <3>2 DEF StoreConfig, UpsertApp, Put
    <3>3. CASE ReadConfig(w) /\ req'[w].pc = "recache" /\ x = w
      BY <2>1, <3>3, ReadsConfig
    <3>4. CASE CacheConfig(w) /\ x = w
      BY <1>1, <2>1, <2>2, <3>4 DEF CacheConfig, At, KnownApps
    <3> QED BY <1>1, <2>2, <3>1, <3>2, <3>3, <3>4
  <2>3. ASSUME NEW a \in DOMAIN appConfigs'
        PROVE  \/ a \in DOMAIN apps'
               \/ \E x \in Workers : req'[x].pc = "uncache" /\ req'[x].app = a
    <3>1. CASE DestroyCached(w)
      <4>1. a \in DOMAIN appConfigs /\ a # req[w].app
        BY <2>3, <3>1 DEF DestroyCached, Drop
      <4> QED BY <1>1, <2>1, <4>1 DEF KnownApps
    <3>2. CASE ~DestroyCached(w)
      <4>1. req[w].pc # "uncache"
        BY <3>2, StepAt DEF At
      <4>2. a \in DOMAIN appConfigs \/ a \in DOMAIN apps
        <5>1. CASE CacheConfig(w) \/ RecacheConfig(w)
          BY <2>3, <5>1 DEF CacheConfig, RecacheConfig, Put, At, KnownApps
        <5>2. CASE WorkerApplies(w) /\ appConfigs' # appConfigs
          BY <2>3, <5>2, ApplyLooksUp DEF WorkerApplies, WorkerReturns, Known
        <5> QED BY <2>3, <3>2, <5>1, <5>2, WorkerWrites
      <4> QED BY <1>1, <2>1, <4>1, <4>2 DEF KnownApps
    <3> QED BY <3>1, <3>2
  <2> QED BY <2>2, <2>3 DEF KnownApps
<1> QED
  BY <1>2, <1>3

LEMMA WorkerKnownFiles ==
    ASSUME DaemonInv, KnownApps, KnownFiles, Undisturbed, NEW w \in Workers,
           Issue(w) \/ WorkerStep(w) \/ CommandEnds(w)
    PROVE  KnownFiles'
<1>1. SUFFICES ASSUME FirstRun, NEW i \in DOMAIN files'
               PROVE  \/ files'[i] \in DOMAIN apps' \cup unremoved'
                      \/ \E x \in Workers : /\ req'[x].pc \in {"uncache", "removefiles"}
                                            /\ req'[x].app = files'[i]
  BY DEF KnownFiles, FirstRun, Undisturbed
<1>2. \A x \in Workers : x # w => req'[x] = req[x]
  BY WorkerGoes DEF Goes
<1>3. CASE DestroyApp(w) /\ ~Finish(w)
  <2>1. /\ apps' = Drop(apps, {req[w].app}) /\ UNCHANGED <<files, unremoved>>
        /\ req[w].pc = "dropapp" /\ req'[w].pc = "uncache" /\ req'[w].app = req[w].app
    BY <1>3, DropsApp
  <2> QED BY <1>1, <1>2, <2>1 DEF KnownFiles, Drop
<1>4. CASE ~(DestroyApp(w) /\ ~Finish(w))
  <2>1. DOMAIN apps \subseteq DOMAIN apps'
    BY <1>4, AppsStay
  <2>2. CASE DestroyFiles(w)
    <3>1. i \in DOMAIN files /\ files'[i] = files[i] /\ unremoved \ {req[w].app} \subseteq unremoved'
      BY <1>1, <2>2, FilesRemoved DEF Drop
    <3>2. CASE files[i] # req[w].app
      BY <1>1, <1>2, <2>1, <3>1, <3>2 DEF KnownFiles
    <3>3. CASE files[i] = req[w].app
      <4>1. files' # Drop(files, RootfsOf(req[w].app))
        BY <1>1, <3>1, <3>3 DEF Drop, RootfsOf
      <4>2. req[w].app \in unremoved'
        BY <2>2, <4>1, FilesRemoved
      <4> QED BY <3>1, <3>3, <4>2
    <3> QED BY <3>2, <3>3
  <2>3. CASE BuildRootfs(w) /\ ~(i \in DOMAIN files /\ files'[i] = files[i])
    <3>1. files'[i] = req[w].app
      BY <1>1, <2>3 DEF BuildRootfs, Put, fileVars
    <3> QED BY <2>1, <2>3, <3>1 DEF BuildRootfs, At, KnownApps
  <2>4. CASE ~DestroyFiles(w) /\ i \in DOMAIN files /\ files'[i] = files[i]
    <3>1. req[w].pc # "removefiles"
      BY <2>4, StepAt DEF At
    <3>2. req[w].pc = "uncache" => req'[w].pc = "removefiles" /\ req'[w].app = req[w].app
      BY StepAt, GotoEffect DEF At, DestroyCached, DaemonInv, Locals
    <3>3. unremoved' = unremoved
      BY <2>4, WorkerWrites
    <3> QED BY <1>1, <1>2, <2>1, <2>4, <3>1, <3>2, <3>3 DEF KnownFiles
  <2> QED BY <1>1, <2>2, <2>3, <2>4, WorkerWrites
<1> QED
  BY <1>3, <1>4

LEMMA OthersKnown ==
    ASSUME DaemonInv, KnownApps, \/ \E n \in Machines : WatchStep(n) \/ VmExit(n)
                                 \/ MainStep \/ Terminate \/ Crash
    PROVE  KnownApps'
<1>1. apps' = apps
  BY WatcherWrites, MainWrites
<1>2. CASE Gone
  <2>1. DOMAIN appConfigs' = {} /\ \A w \in Workers : req'[w].pc = "idle"
    BY <1>2 DEF Gone, NoRows, Idle
  <2> QED BY <2>1 DEF KnownApps
<1> QED
  BY <1>1, <1>2, OthersLookUp DEF KnownApps, Known

\* What the daemon knows, runs and keeps is of apps in the store, or of one that
\* a destroy is done with in a moment.
KnownInv == Early /\ VmApps /\ KnownApps /\ KnownFiles

LEMMA KnownInvKept ==
    ASSUME DestroysAlone, DaemonInv, Custody, Teardown, KnownInv, [Next]_vars
    PROVE  KnownInv'
<1>1. CASE DeployerStep
  <2>1. Undisturbed
    BY <1>1 DEF DeployerStep, Undisturbed, oakdVars
  <2> Early'
    BY <2>1 DEF KnownInv, Early, Undisturbed
  <2>2. ASSUME NEW w \in Workers, Issue(w) \/ WorkerStep(w) \/ CommandEnds(w)
        PROVE  KnownInv'
    BY <2>1, <2>2, WorkerVmApps, WorkerKnownApps, WorkerKnownFiles DEF KnownInv
  <2>3. ASSUME NEW n \in Machines, WatchStep(n) \/ VmExit(n)
        PROVE  KnownInv'
    <3>1. UNCHANGED <<req, apps, files, unremoved>>
      BY <2>3, WatcherWrites
    <3>2. KnownFiles'
      BY <2>1, <3>1 DEF KnownInv, KnownFiles, FirstRun, Undisturbed
    <3> QED BY <2>3, <3>2, OthersVmApps, OthersKnown DEF KnownInv
  <2> QED BY <1>1, <2>2, <2>3 DEF DeployerStep
<1>2. CASE UNCHANGED vars
  <2>1. UNCHANGED <<phase, epoch, req, apps, machines, vms, files, unremoved, appConfigs>>
    BY <1>2 DEF vars, deployerVars, oakdVars, storeVars, fileVars
  <2> QED BY <2>1 DEF KnownInv, Early, VmApps, KnownApps, KnownFiles, FirstRun
<1>3. CASE MainStep \/ Terminate \/ Crash
  BY <1>3, MainEarly, OthersVmApps, OthersKnown DEF KnownInv, KnownFiles
<1> QED
  BY <1>1, <1>2, <1>3 DEF Next

LEMMA KnownInvariant == Spec /\ []DestroysAlone => []KnownInv
<1>1. Init => KnownInv
  <2> SUFFICES ASSUME Init PROVE KnownInv
    OBVIOUS
  <2>1. phase = "up" /\ DOMAIN appConfigs = {} /\ DOMAIN files = {} /\ DOMAIN vms = {}
    BY DEF Init, DeployerInit, TunnelInit, NoRows
  <2> QED BY <2>1, NothingBegun DEF KnownInv, Early, VmApps, KnownApps, KnownFiles
<1> QED
  BY <1>1, KnownInvKept, TeardownInvariant, CustodyInvariant, PTL DEF Spec

\* The daemon has nothing to do with the app: no VM that has not been told to stop,
\* no config in memory, and, unless a Destroy stopped short of applyTunnel, no route.
Forgotten(a) ==
    /\ \A m \in DOMAIN vms : vms[m].app = a => vms[m].dying
    /\ a \notin DOMAIN appConfigs
    /\ unremoved = {} => a \notin DOMAIN disk \cup DOMAIN live

LEMMA QuietForgets ==
    ASSUME DaemonInv, IngressInv, KnownInv, LiveVmKeepsAddress, Quiet, NEW a \in Apps \ DOMAIN apps
    PROVE  Forgotten(a)
<1>1. ASSUME NEW m \in DOMAIN vms, ~vms[m].dying
      PROVE  vms[m].app \in DOMAIN apps
  <2>1. m \in DOMAIN machines
    BY <1>1 DEF LiveVmKeepsAddress
  <2> QED BY <2>1 DEF KnownInv, VmApps, DaemonInv, StoreInv, ForeignKeys
<1>2. unremoved = {} => a \notin DOMAIN disk \cup DOMAIN live
  BY QuietRoutes, ServingApps DEF Fits
<1>3. a \notin DOMAIN appConfigs
  BY DEF KnownInv, KnownApps, Quiet, At
<1> QED
  BY <1>1, <1>2, <1>3 DEF Forgotten

\* As long as no app is destroyed while another request is about it and the
\* ingress can be written and restarted, the daemon has nothing to do any more,
\* once nothing is going on, with an app that is not in the store, although a
\* destroy takes it apart step by step, watchers and requests about other apps
\* cache configs and render routes in between, and a run may end anywhere.  Its
\* route stays only where some Destroy could not remove its files.
THEOREM DestroyedAppsAreForgotten ==
    ASSUME {"write", "restart"} \cap Faults = {}
    PROVE  Spec /\ []DestroysAlone => [](Quiet => \A a \in Apps \ DOMAIN apps : Forgotten(a))
<1>1. DaemonInv /\ IngressInv /\ KnownInv /\ LiveVmKeepsAddress =>
          (Quiet => \A a \in Apps \ DOMAIN apps : Forgotten(a))
  BY QuietForgets
<1> QED
  BY <1>1, KnownInvariant, IngressInvariant, DaemonInvariant, AddressesStayWithLiveVms, PTL

\* In the first run no rootfs file of it is left either, unless removing it failed.
\* A daemon that dies between the delete of the app and that of its files leaves
\* them until the app is destroyed again.
THEOREM DestroyLeavesNothing ==
    ASSUME {"write", "restart"} \cap Faults = {}
    PROVE  Spec /\ []DestroysAlone => [](epoch = 1 => GoneMeansGone)
<1>1. ASSUME DaemonInv, IngressInv, KnownInv, LiveVmKeepsAddress, epoch = 1, Quiet,
             NEW a \in Apps \ DOMAIN apps
      PROVE  Forgotten(a) /\ (a \notin unremoved => RootfsOf(a) = {})
  <2>1. FirstRun /\ \A w \in Workers : req[w].pc = "idle"
    BY <1>1 DEF FirstRun, Quiet, At
  <2> QED BY <1>1, <2>1, QuietForgets DEF KnownInv, KnownFiles, RootfsOf
<1>2. DaemonInv /\ IngressInv /\ KnownInv /\ LiveVmKeepsAddress => (epoch = 1 => GoneMeansGone)
  BY <1>1 DEF GoneMeansGone, Forgotten
<1> QED
  BY <1>2, KnownInvariant, IngressInvariant, DaemonInvariant, AddressesStayWithLiveVms, PTL

=============================================================================
