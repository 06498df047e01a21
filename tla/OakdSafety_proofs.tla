-------------------------- MODULE OakdSafety_proofs --------------------------
(***************************************************************************)
(* Machines across overlapping requests, watchers and runs of the daemon:  *)
(* who has a machine in hand, what its row, its VM and its handle are then, *)
(* and what that leaves when everybody is done.                            *)
(*                                                                         *)
(* Custody is the inductive invariant the theorems share: a machine is in  *)
(* the hands of one request while it boots (Holds) and of its watcher from *)
(* the moment its row says running.                                        *)
(***************************************************************************)
EXTENDS Oakd_proofs

\* The request w is booting the machine req[w].id, or taking it down again.
Holds(w) == req[w].pc \in MachinePcs

Distinct == \A w, x \in Workers : Holds(w) /\ Holds(x) /\ req[w].id = req[x].id => w = x

\* Nobody else has made it public: it has no watcher and its row is not running.
Private ==
    \A w \in Workers : Holds(w) =>
        /\ req[w].id \notin DOMAIN watch
        /\ req[w].id \in DOMAIN machines =>
               /\ machines[req[w].id].state # "running"
               /\ machines[req[w].id].app = req[w].app
               /\ machines[req[w].id].ip = req[w].ip

\* The next id has never been used.
Fresh == \A m \in DOMAIN watch \cup DOMAIN vms : m < nextMachine

\* A watcher goes on waiting while the VM lives, and when StopAll has stopped it.
Waiting == \A m \in DOMAIN watch : m \in DOMAIN vms \cup halted => watch[m] = "wait"

Stopping == (shuttingDown <=> phase = "stopping") /\ (phase # "stopping" => halted = {})

\* Where a watcher has not yet marked the row.
Minding == {"wait", "read", "mark"}

Minded ==
    \A m \in DOMAIN watch : watch[m] \in Minding /\ m \in DOMAIN machines =>
        machines[m].state = "running" /\ machines[m].pid = epoch

Tended ==
    phase \in {"reconcile", "ingress", "up"} =>
        \A m \in RunningMachines :
            \/ phase = "reconcile" /\ m \in pending
            \/ m \in DOMAIN watch /\ watch[m] \in Minding

Custody == Distinct /\ Private /\ Fresh /\ Waiting /\ Stopping /\ Minded /\ Tended

-----------------------------------------------------------------------------
(* What a step of a request does to the machine it holds.                  *)

\* Whoever holds a machine after the step held it before.
Keepers ==
    \A x \in Workers : req'[x].pc \in MachinePcs =>
        /\ Holds(x)
        /\ req'[x].id = req[x].id /\ req'[x].app = req[x].app /\ req'[x].ip = req[x].ip

LEMMA GotoEffect ==
    ASSUME req \in [Workers -> ReqType], NEW w \in Workers, NEW p, Goto(w, p)
    PROVE  /\ \A x \in Workers : x # w => req'[x] = req[x]
           /\ req'[w].pc = p /\ req'[w].id = req[w].id /\ req'[w].app = req[w].app
           /\ req'[w].ip = req[w].ip /\ req'[w].todo = req[w].todo /\ req'[w].op = req[w].op
  BY DEF Goto, ReqType

LEMMA FinishEffect ==
    ASSUME req \in [Workers -> ReqType], NEW w \in Workers, Finish(w)
    PROVE  /\ \A x \in Workers : x # w => req'[x] = req[x]
           /\ req'[w].pc = "idle" /\ req'[w].op = "none"
  BY DEF Finish, Idle

LEMMA GotoHolds ==
    ASSUME req \in [Workers -> ReqType], NEW w \in Workers, NEW p, Goto(w, p),
           p \in MachinePcs => Holds(w)
    PROVE  Keepers
  BY GotoEffect DEF Keepers, Holds

LEMMA FinishHolds ==
    ASSUME req \in [Workers -> ReqType], NEW w \in Workers, Finish(w)
    PROVE  Keepers
  BY FinishEffect DEF Keepers, Holds, MachinePcs

\* The steps that change other locals: w is at some p that holds nothing.
LEMMA LetsGo ==
    ASSUME NEW w \in Workers, req'[w].pc \notin MachinePcs,
           \A x \in Workers : x # w => req'[x] = req[x]
    PROVE  Keepers
  BY DEF Keepers, Holds

LEMMA TodoChange ==
    ASSUME req \in [Workers -> ReqType], NEW w \in Workers, NEW p, NEW S,
           req' = [req EXCEPT ![w].todo = S, ![w].pc = p]
    PROVE  /\ \A x \in Workers : x # w => req'[x] = req[x]
           /\ req'[w].pc = p /\ req'[w].todo = S /\ req'[w].op = req[w].op
           /\ req'[w].id = req[w].id /\ req'[w].app = req[w].app
  BY DEF ReqType

LEMMA CommandChange ==
    ASSUME req \in [Workers -> ReqType], NEW w \in Workers, NEW p, NEW c,
           req' = [req EXCEPT ![w].command = c, ![w].pc = p]
    PROVE  /\ \A x \in Workers : x # w => req'[x] = req[x]
           /\ req'[w].pc = p /\ req'[w].id = req[w].id /\ req'[w].app = req[w].app
           /\ req'[w].ip = req[w].ip /\ req'[w].op = req[w].op
  BY DEF ReqType

LEMMA IssueChange ==
    ASSUME req \in [Workers -> ReqType], NEW w \in Workers, Issue(w)
    PROVE  /\ \A x \in Workers : x # w => req'[x] = req[x]
           /\ req'[w].pc \in {"upsert", "config", "list", "secret", "unsecret", "volume"}
           /\ req'[w].op \in Ops
<1>1. PICK op, app, cfg, owner :
        /\ op \in Ops
        /\ req' = [req EXCEPT ![w] = [Idle EXCEPT !.op = op, !.app = app, !.cfg = cfg,
                                                  !.owner = owner, !.pc = FirstPc(op)]]
  BY DEF Issue
<1>2. FirstPc(op) \in {"upsert", "config", "list", "secret", "unsecret", "volume"}
  BY <1>1, DeployerAssumption DEF FirstPc, AllOps
<1>3. req'[w].pc = FirstPc(op) /\ req'[w].op = op
  BY <1>1 DEF Idle
<1> QED
  BY <1>1, <1>2, <1>3

\* Where a handler that changes other locals goes to, and what it is still
\* about; a handler that returns is about nothing.
Elsewhere(w, P) ==
    /\ \A x \in Workers : x # w => req'[x] = req[x]
    /\ req'[w].pc \in P \cup {"idle"}
    /\ req'[w].op \in {req[w].op, "none"}

LEMMA FinishElsewhere ==
    ASSUME req \in [Workers -> ReqType], NEW w \in Workers, NEW P, Finish(w)
    PROVE  Elsewhere(w, P)
  BY FinishEffect DEF Elsewhere

LEMMA PrepareElsewhere ==
    ASSUME req \in [Workers -> ReqType], NEW w \in Workers,
           ReadConfig(w) \/ BuildRootfs(w) \/ RecordRelease(w) \/ FindRelease(w)
    PROVE  Elsewhere(w, {"latest", "upsert", "recache", "insert", "owner", "volumes"})
<1> DEFINE P == {"latest", "upsert", "recache", "insert", "owner", "volumes"}
<1>1. ASSUME Finish(w) PROVE Elsewhere(w, P)
  BY <1>1, FinishElsewhere
<1>2. ASSUME NEW k, NEW p \in P, req' = [req EXCEPT ![w].cfg = k, ![w].pc = p]
      PROVE  Elsewhere(w, P)
  BY <1>2 DEF Elsewhere, ReqType
<1>3. ASSUME NEW i, req' = [req EXCEPT ![w].image = i, ![w].pc = "insert"]
      PROVE  Elsewhere(w, P)
  BY <1>3 DEF Elsewhere, ReqType
<1>4. ASSUME NEW n, NEW c, NEW p \in P,
             req' = [req EXCEPT ![w].release = n, ![w].command = c, ![w].pc = p]
      PROVE  Elsewhere(w, P)
  BY <1>4 DEF Elsewhere, ReqType
<1>5. ASSUME NEW n, NEW i, req' = [req EXCEPT ![w].release = n, ![w].image = i, ![w].pc = "volumes"]
      PROVE  Elsewhere(w, P)
  BY <1>5 DEF Elsewhere, ReqType
<1> HIDE DEF P
<1>6. ASSUME ReadConfig(w) PROVE Elsewhere(w, P)
  <2>1. AfterConfig(req[w].op) \in P /\ "recache" \in P
    BY DEF AfterConfig, P
  <2> QED BY <1>1, <1>2, <1>6, <2>1 DEF ReadConfig, Finish
<1>7. ASSUME BuildRootfs(w) PROVE Elsewhere(w, P)
  BY <1>1, <1>3, <1>7 DEF BuildRootfs
<1>8. ASSUME RecordRelease(w) PROVE Elsewhere(w, P)
  <2>1. "owner" \in P /\ "volumes" \in P
    BY DEF P
  <2> QED BY <1>1, <1>4, <1>8, <2>1 DEF RecordRelease
<1>9. ASSUME FindRelease(w) PROVE Elsewhere(w, P)
  BY <1>1, <1>5, <1>9 DEF FindRelease, Finish
<1> QED
  BY <1>6, <1>7, <1>8, <1>9 DEF P

LEMMA BootElsewhere ==
    ASSUME req \in [Workers -> ReqType], NEW w \in Workers,
           ReadOwner(w) \/ FindSubnet(w) \/ DeleteCommandRow(w)
    PROVE  Elsewhere(w, {"subnet", "alloc", "volumes"})
<1> DEFINE P == {"subnet", "alloc", "volumes"}
<1>1. ASSUME Finish(w) PROVE Elsewhere(w, P)
  BY <1>1, FinishElsewhere
<1>2. ASSUME NEW o, req' = [req EXCEPT ![w].tenant = o, ![w].pc = "subnet"]
      PROVE  Elsewhere(w, P)
  BY <1>2 DEF Elsewhere, ReqType
<1>3. ASSUME NEW i, req' = [req EXCEPT ![w].idx = i, ![w].tenant = Nil, ![w].pc = "alloc"]
      PROVE  Elsewhere(w, P)
  BY <1>3 DEF Elsewhere, ReqType
<1>4. ASSUME req' = [req EXCEPT ![w].command = "none", ![w].id = 0, ![w].idx = 0,
                                ![w].ip = <<0, 0>>, ![w].pc = "volumes"]
      PROVE  Elsewhere(w, P)
  BY <1>4 DEF Elsewhere, ReqType
<1> HIDE DEF P
<1>5. ASSUME ReadOwner(w) PROVE Elsewhere(w, P)
  BY <1>1, <1>2, <1>5 DEF ReadOwner, Finish
<1>6. ASSUME FindSubnet(w) PROVE Elsewhere(w, P)
  BY <1>1, <1>3, <1>6 DEF FindSubnet
<1>7. ASSUME DeleteCommandRow(w) PROVE Elsewhere(w, P)
  BY <1>1, <1>4, <1>7 DEF DeleteCommandRow, Finish
<1> QED
  BY <1>5, <1>6, <1>7 DEF P

LEMMA SmallElsewhere ==
    ASSUME req \in [Workers -> ReqType], NEW w \in Workers,
           ChangeSecret(w) \/ MakeVolume(w) \/ InsertVolume(w)
    PROVE  Elsewhere(w, {"insertvolume"})
<1>1. CASE Finish(w)
  BY <1>1, FinishElsewhere
<1>2. ASSUME NEW v, req' = [req EXCEPT ![w].todo = {v}, ![w].pc = "insertvolume"]
      PROVE  Elsewhere(w, {"insertvolume"})
  BY <1>2, TodoChange DEF Elsewhere
<1> QED
  BY <1>1, <1>2 DEF ChangeSecret, MakeVolume, InsertVolume

\* Only InsertMachine takes a machine in hand.
LEMMA KeepersKept ==
    ASSUME DaemonInv, NEW w \in Workers, Issue(w) \/ WorkerStep(w) \/ CommandEnds(w),
           ~InsertMachine(w)
    PROVE  Keepers
<1>1. req \in [Workers -> ReqType]
  BY DEF DaemonInv, Locals
<1>2. CASE Finish(w)
  BY <1>1, <1>2, FinishHolds
<1>3. ASSUME NEW p, Goto(w, p), p \in MachinePcs => Holds(w)
      PROVE  Keepers
  BY <1>1, <1>3, GotoHolds
<1>4. ASSUME NEW P, P \cap MachinePcs = {}, Elsewhere(w, P)
      PROVE  Keepers
  BY <1>4, LetsGo DEF Elsewhere, MachinePcs
<1>5. CASE Issue(w)
  BY <1>1, <1>5, IssueChange, LetsGo DEF MachinePcs
<1>6. CASE PrepareStep(w)
  <2>1. CASE StoreConfig(w) \/ CacheConfig(w) \/ RecacheConfig(w)
    <3>1. \E p \in {"cache", "build", "latest", "upsert"} : Goto(w, p)
      BY <2>1 DEF StoreConfig, CacheConfig, RecacheConfig, AfterConfig
    <3> QED BY <1>3, <3>1 DEF MachinePcs
  <2>2. CASE ReadConfig(w) \/ BuildRootfs(w) \/ RecordRelease(w) \/ FindRelease(w)
    <3>1. {"latest", "upsert", "recache", "insert", "owner", "volumes"} \cap MachinePcs = {}
      BY DEF MachinePcs
    <3> QED BY <1>1, <1>4, <2>2, <3>1, PrepareElsewhere
  <2> QED BY <1>6, <2>1, <2>2 DEF PrepareStep
<1>7. CASE ReadOwner(w) \/ FindSubnet(w) \/ DeleteCommandRow(w)
  <2>1. {"subnet", "alloc", "volumes"} \cap MachinePcs = {}
    BY DEF MachinePcs
  <2> QED BY <1>1, <1>4, <1>7, <2>1, BootElsewhere
<1>8. CASE StartFails(w) \/ PrepareFails(w) \/ CommandEnds(w)
  <2>1. Holds(w)
    BY <1>8 DEF StartFails, PrepareFails, CommandEnds, At, Holds, MachinePcs
  <2>2. \/ \E c, p : req' = [req EXCEPT ![w].command = c, ![w].pc = p]
        \/ Finish(w)
        \/ Goto(w, "failed")
    BY <1>8 DEF StartFails, PrepareFails, CommandEnds, Finish, Goto
  <2>3. ASSUME NEW c, NEW p, req' = [req EXCEPT ![w].command = c, ![w].pc = p]
        PROVE  Keepers
    BY <1>1, <2>1, <2>3, CommandChange DEF Keepers, Holds
  <2> QED BY <1>2, <1>3, <2>1, <2>2, <2>3
<1>9. CASE ResolveVolumes(w)
  BY <1>2, <1>3, <1>9 DEF ResolveVolumes, MachinePcs
<1>10. CASE StartMachine(w) \/ StopCommandVm(w) \/ SetHandle(w) \/ AwaitHealthy(w)
  <2>1. Holds(w)
    BY <1>10 DEF StartMachine, StopCommandVm, SetHandle, AwaitHealthy, At, Holds, MachinePcs
  <2> QED BY <1>3, <1>10, <2>1 DEF StartMachine, StopCommandVm, SetHandle, AwaitHealthy
<1>11. CASE StopNew(w) \/ UnhandleNew(w) \/ MarkFailed(w) \/ DeleteNew(w) \/ MarkRunning(w)
  <2>1. Holds(w)
    BY <1>11 DEF StopNew, UnhandleNew, MarkFailed, DeleteNew, MarkRunning, At, Holds, MachinePcs
  <2> QED BY <1>2, <1>3, <1>11, <2>1 DEF StopNew, UnhandleNew, MarkFailed, DeleteNew, MarkRunning
<1>12. CASE BootStep(w)
  BY <1>7, <1>8, <1>9, <1>10, <1>11, <1>12 DEF BootStep
<1>13. CASE ListMachines(w) \/ UnhandleListed(w)
  <2>1. PICK S : req' = [req EXCEPT ![w].todo = S, ![w].pc = LoopPc(req[w].op, S)]
    BY <1>13 DEF ListMachines, UnhandleListed
  <2>2. LoopPc(req[w].op, S) \notin MachinePcs
    BY DEF LoopPc, AfterLoop, MachinePcs
  <2>3. (\A x \in Workers : x # w => req'[x] = req[x]) /\ req'[w].pc = LoopPc(req[w].op, S)
    BY <1>1, <2>1, TodoChange
  <2> QED BY <2>2, <2>3, LetsGo
<1>14. CASE StopListed(w) \/ DeleteListed(w) \/ EmitOk(w) \/ RecordOwner(w) \/ WorkerApplies(w)
  <2>1. \/ Finish(w) \/ UNCHANGED req
        \/ \E p \in {"delete", "unhandle", "tunnel", "setowner"} : Goto(w, p)
    BY <1>14 DEF StopListed, DeleteListed, EmitOk, RecordOwner, WorkerApplies, WorkerReturns
  <2>2. CASE UNCHANGED req
    BY <2>2 DEF Keepers, Holds
  <2> QED BY <1>2, <1>3, <2>1, <2>2 DEF MachinePcs
<1>15. CASE DestroyStep(w)
  <2>1. Finish(w) \/ \E p \in {"secrets", "dropvolumes", "dropapp", "uncache", "removefiles", "tunnel"} : Goto(w, p)
    BY <1>15 DEF DestroyStep, DestroyReleases, DestroySecrets, DestroyVolumes, DestroyApp,
       DestroyCached, DestroyFiles
  <2> QED BY <1>2, <1>3, <2>1 DEF MachinePcs
<1>16. CASE ChangeSecret(w) \/ MakeVolume(w) \/ InsertVolume(w)
  <2>1. {"insertvolume"} \cap MachinePcs = {}
    BY DEF MachinePcs
  <2> QED BY <1>1, <1>4, <1>16, <2>1, SmallElsewhere
<1> QED
  BY <1>5, <1>6, <1>8, <1>12, <1>13, <1>14, <1>15, <1>16 DEF WorkerStep, CutoverStep

-----------------------------------------------------------------------------
(* What the steps leave alone.                                             *)

\* No row is added or changed; no VM is added, moved or revived.
RowsLess == \A m \in DOMAIN machines' : m \in DOMAIN machines /\ machines'[m] = machines[m]

VmsLess ==
    \A m \in DOMAIN vms' :
        /\ m \in DOMAIN vms
        /\ vms'[m].ip = vms[m].ip /\ vms'[m].app = vms[m].app /\ vms'[m].image = vms[m].image
        /\ vms[m].dying => vms'[m].dying

\* The main goroutine does nothing.
Undisturbed == UNCHANGED <<shuttingDown, epoch, phase, pending, halted>>

LEMMA StopLess ==
    ASSUME DaemonInv, NEW id, Stop(id)
    PROVE  VmsLess
<1>1. CASE vms' = Drop(vms, {id})
  BY <1>1 DEF VmsLess, Drop
<1>2. CASE id \in DOMAIN vms /\ vms' = [vms EXCEPT ![id].dying = TRUE]
  <2>1. \A m \in DOMAIN vms : vms[m] \in VmType
    BY DEF DaemonInv, Processes
  <2>2. vms'[id] = [vms[id] EXCEPT !.dying = TRUE] /\ vms[id] \in VmType
    BY <1>2, <2>1
  <2>3. /\ vms'[id].ip = vms[id].ip /\ vms'[id].dying
        /\ vms'[id].app = vms[id].app /\ vms'[id].image = vms[id].image
    BY <2>2 DEF VmType
  <2>4. \A m \in DOMAIN vms' : m \in DOMAIN vms /\ (m # id => vms'[m] = vms[m])
    BY <1>2
  <2> QED BY <2>3, <2>4 DEF VmsLess
<1> QED
  BY <1>1, <1>2 DEF Stop

LEMMA FewerRows ==
    /\ UNCHANGED machines => RowsLess
    /\ UNCHANGED storeVars => RowsLess
    /\ \A m : DeleteMachine(m) => RowsLess
  BY DEF RowsLess, DeleteMachine, Drop, storeVars

LEMMA FewerVms ==
    /\ UNCHANGED vms => VmsLess
    /\ \A S : vms' = Drop(vms, S) => VmsLess
  BY DEF VmsLess, Drop

LEMMA WorkerFrame ==
    ASSUME DaemonInv, NEW w \in Workers, Issue(w) \/ WorkerStep(w) \/ CommandEnds(w)
    PROVE  /\ watch' = watch \/ MarkRunning(w)
           /\ RowsLess \/ InsertMachine(w) \/ MarkFailed(w) \/ MarkRunning(w)
           /\ VmsLess \/ StartMachine(w)
           /\ nextMachine' = nextMachine \/ InsertMachine(w)
<1>1. nextMachine' = nextMachine \/ InsertMachine(w)
  BY NoNewRows
<1>2. CASE PrepareStep(w)
  <2>1. watch' = watch /\ vms' = vms
    BY <1>2 DEF PrepareStep, StoreConfig, CacheConfig, ReadConfig, RecacheConfig, BuildRootfs,
       RecordRelease, FindRelease
  <2>2. machines' = machines
    BY <1>2 DEF PrepareStep, StoreConfig, CacheConfig, ReadConfig, RecacheConfig, BuildRootfs,
       RecordRelease, FindRelease, UpsertApp, InsertRelease, storeVars
  <2> QED BY <1>1, <2>1, <2>2, FewerRows, FewerVms
<1>3. CASE BootStep(w) \/ CommandEnds(w)
  <2>1. watch' = watch \/ MarkRunning(w)
    BY <1>3 DEF BootStep, ResolveVolumes, ReadOwner, FindSubnet, InsertMachine, StartMachine,
       StartFails, PrepareFails, StopCommandVm, DeleteCommandRow, SetHandle, AwaitHealthy,
       StopNew, UnhandleNew, MarkFailed, DeleteNew, CommandEnds
  <2>2. RowsLess \/ InsertMachine(w) \/ MarkFailed(w) \/ MarkRunning(w)
    BY <1>3, FewerRows DEF BootStep, ResolveVolumes, ReadOwner, FindSubnet, StartMachine,
       StartFails, PrepareFails, StopCommandVm, DeleteCommandRow, SetHandle, AwaitHealthy,
       StopNew, UnhandleNew, DeleteNew, CommandEnds, SubnetForOwner
  <2>3. VmsLess \/ StartMachine(w)
    BY <1>3, FewerVms, StopLess DEF BootStep, ResolveVolumes, ReadOwner, FindSubnet, InsertMachine,
       StartFails, PrepareFails, StopCommandVm, DeleteCommandRow, SetHandle, AwaitHealthy,
       StopNew, UnhandleNew, MarkFailed, DeleteNew, CommandEnds, MarkRunning
  <2> QED BY <1>1, <2>1, <2>2, <2>3
<1>4. CASE CutoverStep(w)
  <2>1. watch' = watch
    BY <1>4 DEF CutoverStep, ListMachines, StopListed, DeleteListed, UnhandleListed, EmitOk,
       WorkerApplies, RecordOwner
  <2>2. RowsLess
    <3>1. CASE WorkerApplies(w)
      BY <3>1, FewerRows DEF WorkerApplies, WorkerReturns, ApplyRead, ApplyWrite, ApplyFails,
         ApplyRestart
    <3> QED BY <1>4, <3>1, FewerRows DEF CutoverStep, ListMachines, StopListed, DeleteListed,
               UnhandleListed, EmitOk, RecordOwner, SetAppOwner
  <2>3. VmsLess
    BY <1>4, FewerVms, StopLess DEF CutoverStep, ListMachines, StopListed, DeleteListed,
       UnhandleListed, EmitOk, WorkerApplies, RecordOwner
  <2> QED BY <1>1, <2>1, <2>2, <2>3
<1>5. CASE DestroyStep(w)
  <2>1. watch' = watch /\ vms' = vms
    BY <1>5 DEF DestroyStep, DestroyReleases, DestroySecrets, DestroyVolumes, DestroyApp,
       DestroyCached, DestroyFiles
  <2>2. machines' = machines
    BY <1>5 DEF DestroyStep, DestroyReleases, DestroySecrets, DestroyVolumes, DestroyApp,
       DestroyCached, DestroyFiles, DeleteReleasesForApp, DeleteSecretsForApp,
       DeleteVolumesForApp, DeleteApp, storeVars
  <2> QED BY <1>1, <2>1, <2>2, FewerRows, FewerVms
<1>6. CASE Issue(w) \/ ChangeSecret(w) \/ MakeVolume(w) \/ InsertVolume(w)
  <2>1. watch' = watch /\ vms' = vms
    BY <1>6 DEF Issue, ChangeSecret, MakeVolume, InsertVolume
  <2>2. machines' = machines
    BY <1>6 DEF Issue, ChangeSecret, MakeVolume, InsertVolume, PutSecret, DeleteSecret,
       CreateVolume, storeVars
  <2> QED BY <1>1, <2>1, <2>2, FewerRows, FewerVms
<1> QED
  BY <1>2, <1>3, <1>4, <1>5, <1>6 DEF WorkerStep

-----------------------------------------------------------------------------
(* Custody, step by step.                                                  *)

\* Rows and VMs that go change nobody's custody.
LEMMA CalmKeeps ==
    ASSUME Custody, Undisturbed, Keepers, RowsLess, VmsLess, watch' = watch,
           nextMachine' = nextMachine
    PROVE  Custody'
<1>1. Distinct'
  BY DEF Custody, Distinct, Keepers, Holds
<1>2. Private'
  BY DEF Custody, Private, Keepers, Holds, RowsLess
<1>3. Fresh' /\ Waiting'
  BY DEF Custody, Fresh, Waiting, VmsLess, Undisturbed
<1>4. Stopping' /\ Minded'
  BY DEF Custody, Stopping, Minded, RowsLess, Undisturbed
<1>5. Tended'
  BY DEF Custody, Tended, RowsLess, Undisturbed, RunningMachines
<1> QED
  BY <1>1, <1>2, <1>3, <1>4, <1>5 DEF Custody

LEMMA InsertEffect ==
    ASSUME DaemonInv, NEW w \in Workers, InsertMachine(w), ~Finish(w)
    PROVE  /\ \A x \in Workers : x # w => req'[x] = req[x]
           /\ req'[w].pc = "start" /\ req'[w].id = nextMachine /\ req'[w].app = req[w].app
           /\ req'[w].op = req[w].op
           /\ nextMachine' = nextMachine + 1
           /\ DOMAIN machines' = DOMAIN machines \cup {nextMachine}
           /\ \A m \in DOMAIN machines : machines'[m] = machines[m]
           /\ nextMachine \notin DOMAIN machines
           /\ machines'[nextMachine].state = "starting"
           /\ machines'[nextMachine].app = req'[w].app
           /\ machines'[nextMachine].ip = req'[w].ip
           /\ watch' = watch /\ vms' = vms /\ handles' = handles
<1>1. req \in [Workers -> ReqType]
  BY DEF DaemonInv, Locals
<1>2. /\ AllocAndInsertMachine(nextMachine, req[w].app, req[w].release, req[w].idx)
      /\ req' = [req EXCEPT ![w].id = nextMachine, ![w].ip = allocIP(req[w].idx), ![w].pc = "start"]
      /\ nextMachine' = nextMachine + 1
      /\ watch' = watch /\ vms' = vms /\ handles' = handles
  BY DEF InsertMachine
<1> DEFINE ip == allocIP(req[w].idx)
<1>3. /\ \A x \in Workers : x # w => req'[x] = req[x]
      /\ req'[w].pc = "start" /\ req'[w].id = nextMachine /\ req'[w].app = req[w].app
      /\ req'[w].op = req[w].op /\ req'[w].ip = ip
  <2> HIDE DEF ip
  <2>1. req' = [req EXCEPT ![w].id = nextMachine, ![w].ip = ip, ![w].pc = "start"]
    BY <1>2 DEF ip
  <2> QED BY <1>1, <2>1 DEF ReqType
<1>4. /\ DOMAIN machines' = DOMAIN machines \cup {nextMachine}
      /\ nextMachine \notin DOMAIN machines
      /\ \A m \in DOMAIN machines : machines'[m] = machines[m]
      /\ machines'[nextMachine] = [app |-> req[w].app, release |-> req[w].release, ip |-> ip,
                                   state |-> "starting", pid |-> 0]
  BY <1>2 DEF AllocAndInsertMachine, Put
<1>5. /\ machines'[nextMachine].state = "starting" /\ machines'[nextMachine].app = req[w].app
      /\ machines'[nextMachine].ip = ip
  BY <1>4
<1>6. nextMachine' = nextMachine + 1 /\ watch' = watch /\ vms' = vms /\ handles' = handles
  BY <1>2
<1>7. machines'[nextMachine].app = req'[w].app /\ machines'[nextMachine].ip = req'[w].ip
  BY <1>3, <1>5
<1> HIDE DEF ip
<1> QED
  BY <1>3, <1>4, <1>5, <1>6, <1>7

LEMMA InsertCustody ==
    ASSUME DaemonInv, Custody, Undisturbed, NEW w \in Workers, InsertMachine(w), ~Finish(w)
    PROVE  Custody'
<1>1. /\ nextMachine \in Nat /\ nextMachine' = nextMachine + 1
      /\ \A x \in Workers : x # w => req'[x] = req[x]
      /\ req'[w].pc = "start" /\ req'[w].id = nextMachine
  BY InsertEffect DEF DaemonInv, Ids
<1>2. \A x \in Workers : Holds(x) => req[x].id # nextMachine /\ req[x].id < nextMachine
  <2>1. \A x \in Workers : Holds(x) => req[x].id \in Nat /\ req[x].id < nextMachine
    BY TunnelAssumption DEF Holds, DaemonInv, Locals, Need
  <2> QED BY <1>1, <2>1
<1>3. \A m \in DOMAIN watch \cup DOMAIN vms : m \in Nat /\ m < nextMachine /\ m # nextMachine
  <2>1. \A m \in DOMAIN watch \cup DOMAIN vms : m \in Nat /\ m < nextMachine
    BY TunnelAssumption DEF Custody, Fresh, DaemonInv, Processes
  <2> QED BY <1>1, <2>1
<1>4. Distinct'
  BY <1>1, <1>2 DEF Custody, Distinct, Holds
<1>5. Private'
  BY <1>1, <1>2, <1>3, InsertEffect DEF Custody, Private, Holds
<1>6. Fresh'
  <2>1. \A m \in Nat : m < nextMachine => m < nextMachine'
    BY <1>1
  <2> QED BY <1>3, <2>1, InsertEffect DEF Fresh
<1>7. Waiting' /\ Stopping'
  BY InsertEffect DEF Custody, Waiting, Stopping, Undisturbed
<1>8. Minded'
  BY <1>3, InsertEffect DEF Custody, Minded, Undisturbed
<1>9. Tended'
  <2>1. RunningMachines' \subseteq RunningMachines
    BY InsertEffect DEF RunningMachines
  <2> QED BY <2>1, InsertEffect DEF Custody, Tended, Undisturbed
<1> QED
  BY <1>4, <1>5, <1>6, <1>7, <1>8, <1>9 DEF Custody

\* What SetMachineState leaves of the rows.
LEMMA StateEffect ==
    ASSUME DaemonInv, NEW id, NEW s, NEW p, SetMachineState(id, s, p)
    PROVE  /\ id \in DOMAIN machines /\ DOMAIN machines' = DOMAIN machines
           /\ \A m \in DOMAIN machines : m # id => machines'[m] = machines[m]
           /\ \A m \in DOMAIN machines : machines'[m].app = machines[m].app
                                         /\ machines'[m].ip = machines[m].ip
           /\ machines'[id].state = s /\ machines'[id].pid = p
<1>1. \A m \in DOMAIN machines : machines[m] \in MachineRow
  BY DEF DaemonInv, StoreInv, StoreTypeOK
<1>2. id \in DOMAIN machines /\ machines' = [machines EXCEPT ![id].state = s, ![id].pid = p]
  BY DEF SetMachineState
<1>3. machines[id] \in MachineRow
  BY <1>1, <1>2
<1>4. DOMAIN machines' = DOMAIN machines /\ \A m \in DOMAIN machines : m # id => machines'[m] = machines[m]
  BY <1>2
<1>5. /\ machines'[id].state = s /\ machines'[id].pid = p
      /\ machines'[id].app = machines[id].app /\ machines'[id].ip = machines[id].ip
  BY <1>2, <1>3 DEF MachineRow
<1> QED
  BY <1>2, <1>4, <1>5

LEMMA StartCustody ==
    ASSUME DaemonInv, Custody, Undisturbed, NEW w \in Workers, StartMachine(w)
    PROVE  Custody'
<1>1. Keepers /\ nextMachine' = nextMachine /\ watch' = watch /\ machines' = machines
  BY KeepersKept DEF WorkerStep, BootStep, StartMachine, InsertMachine, At, storeVars, bounds
<1>2. DOMAIN vms' = DOMAIN vms \cup {req[w].id}
  BY DEF StartMachine, Boot, Put
<1>3. Holds(w) /\ req[w].id < nextMachine
  BY Serving DEF StartMachine, At, Holds, MachinePcs, Need
<1>4. req[w].id \notin DOMAIN watch
  BY <1>3 DEF Custody, Private
<1>5. Distinct' /\ Private'
  BY <1>1 DEF Custody, Distinct, Private, Keepers, Holds
<1>6. Fresh' /\ Waiting'
  BY <1>1, <1>2, <1>3, <1>4 DEF Custody, Fresh, Waiting, Undisturbed
<1>7. Stopping' /\ Minded' /\ Tended'
  BY <1>1 DEF Custody, Stopping, Minded, Tended, RunningMachines, Undisturbed
<1> QED
  BY <1>5, <1>6, <1>7 DEF Custody

LEMMA FailedCustody ==
    ASSUME DaemonInv, Custody, Undisturbed, NEW w \in Workers, MarkFailed(w)
    PROVE  Custody'
<1>1. Keepers /\ nextMachine' = nextMachine /\ watch' = watch /\ vms' = vms
  BY KeepersKept DEF WorkerStep, BootStep, MarkFailed, InsertMachine, At, bounds
<1>2. CASE UNCHANGED storeVars
  BY <1>1, <1>2, CalmKeeps, FewerRows, FewerVms
<1>3. CASE SetMachineState(req[w].id, "failed", 0)
  <2>1. req[w].id \notin DOMAIN watch
    BY DEF MarkFailed, At, Custody, Private, Holds, MachinePcs
  <2>2. Distinct'
    BY <1>1 DEF Custody, Distinct, Keepers, Holds
  <2>3. Private'
    BY <1>1, <1>3, StateEffect DEF Custody, Private, Keepers, Holds
  <2>4. Fresh' /\ Waiting' /\ Stopping'
    BY <1>1 DEF Custody, Fresh, Waiting, Stopping, Undisturbed
  <2>5. Minded'
    BY <1>1, <1>3, <2>1, StateEffect DEF Custody, Minded, Undisturbed
  <2>6. RunningMachines' \subseteq RunningMachines
    BY <1>3, StateEffect DEF RunningMachines
  <2>7. Tended'
    BY <1>1, <2>6 DEF Custody, Tended, Undisturbed
  <2> QED BY <2>2, <2>3, <2>4, <2>5, <2>7 DEF Custody
<1> QED
  BY <1>2, <1>3 DEF MarkFailed

\* From MarkRunning on the machine is its watcher's.
LEMMA RunningCustody ==
    ASSUME DaemonInv, Custody, Undisturbed, NEW w \in Workers, MarkRunning(w)
    PROVE  Custody'
<1>1. Keepers /\ nextMachine' = nextMachine /\ vms' = vms
  BY KeepersKept DEF WorkerStep, BootStep, MarkRunning, InsertMachine, At, bounds
<1>2. CASE UNCHANGED <<storeVars, watch>>
  BY <1>1, <1>2, CalmKeeps, FewerRows, FewerVms
<1>3. CASE ~UNCHANGED <<storeVars, watch>>
  <2> DEFINE id == req[w].id
  <2>1. /\ SetMachineState(id, "running", epoch)
        /\ watch' = Put(watch, id, "wait")
        /\ Goto(w, "list")
    BY <1>3 DEF MarkRunning
  <2>2. /\ DOMAIN watch' = DOMAIN watch \cup {id} /\ watch'[id] = "wait"
        /\ \A m \in DOMAIN watch : m # id => watch'[m] = watch[m]
    BY <2>1 DEF Put
  <2>3. Holds(w) /\ id < nextMachine /\ req'[w].pc = "list"
    BY <2>1, Serving, GotoEffect DEF MarkRunning, At, Holds, MachinePcs, Need
  <2>4. Distinct'
    BY <1>1 DEF Custody, Distinct, Keepers, Holds
  <2>5. \A x \in Workers : req'[x].pc \in MachinePcs => x # w /\ req[x].id # id
    <3>1. ASSUME NEW x \in Workers, req'[x].pc \in MachinePcs
          PROVE  x # w /\ req[x].id # id
      <4>1. x # w
        BY <2>3, <3>1 DEF MachinePcs
      <4>2. Holds(x)
        BY <1>1, <3>1 DEF Keepers
      <4> QED BY <2>3, <4>1, <4>2 DEF Custody, Distinct
    <3> QED BY <3>1
  <2> HIDE DEF id
  <2>6. Private'
    BY <1>1, <2>1, <2>2, <2>5, StateEffect DEF Custody, Private, Keepers, Holds
  <2>7. Fresh' /\ Waiting' /\ Stopping'
    BY <1>1, <2>2, <2>3 DEF Custody, Fresh, Waiting, Stopping, Undisturbed
  <2>8. Minded'
    BY <2>1, <2>2, StateEffect DEF Custody, Minded, Undisturbed
  <2>9. RunningMachines' \subseteq RunningMachines \cup {id}
    BY <2>1, StateEffect DEF RunningMachines
  <2>10. Tended'
    BY <2>2, <2>9 DEF Custody, Tended, Undisturbed, Minding
  <2> QED BY <2>4, <2>6, <2>7, <2>8, <2>10 DEF Custody
<1> QED
  BY <1>2, <1>3

LEMMA WorkerCustody ==
    ASSUME DaemonInv, Custody, Undisturbed, NEW w \in Workers,
           Issue(w) \/ WorkerStep(w) \/ CommandEnds(w)
    PROVE  Custody'
<1>1. CASE InsertMachine(w)
  <2>1. CASE Finish(w)
    <3>1. Keepers
      BY <2>1, FinishHolds DEF DaemonInv, Locals
    <3>2. req'[w].pc = "idle"
      BY <2>1, FinishEffect DEF DaemonInv, Locals
    <3>3. UNCHANGED <<storeVars, nextMachine>> /\ watch' = watch /\ vms' = vms
      <4>1. req'[w].pc = "start" \/ UNCHANGED <<storeVars, nextMachine>>
        <5>1. req \in [Workers -> ReqType]
          BY DEF DaemonInv, Locals
        <5>2. ASSUME NEW i, req' = [req EXCEPT ![w].id = nextMachine, ![w].ip = i, ![w].pc = "start"]
              PROVE  req'[w].pc = "start"
          BY <5>1, <5>2 DEF ReqType
        <5> QED BY <1>1, <5>2 DEF InsertMachine
      <4> QED BY <1>1, <3>2, <4>1 DEF InsertMachine
    <3> QED BY <3>1, <3>3, CalmKeeps, FewerRows, FewerVms
  <2> QED BY <1>1, <2>1, InsertCustody
<1>2. CASE ~InsertMachine(w) /\ ~StartMachine(w) /\ ~MarkFailed(w) /\ ~MarkRunning(w)
  BY <1>2, KeepersKept, WorkerFrame, CalmKeeps
<1> QED
  BY <1>1, <1>2, StartCustody, FailedCustody, RunningCustody

\* Two ways a watcher leaves its place.
Steps(m) ==
    /\ \A n \in DOMAIN watch : n # m => n \in DOMAIN watch' /\ watch'[n] = watch[n]
    /\ DOMAIN watch' \subseteq DOMAIN watch

LEMMA WatchSteps ==
    ASSUME NEW m
    PROVE  /\ \A p, q : Advance(m, p, q) => Steps(m) /\ m \in DOMAIN watch' /\ watch'[m] = q
           /\ Unwatch(m) => Steps(m) /\ m \notin DOMAIN watch'
  BY DEF Steps, Advance, Unwatch, Drop

\* A step of the watcher of m: the parts of Custody it can touch.
LEMMA WatchMoves ==
    ASSUME DaemonInv, Custody, Undisturbed, NEW m \in Machines, m \in DOMAIN watch,
           UNCHANGED <<req, vms, nextMachine>>, Steps(m),
           \A n \in DOMAIN machines' : n \in DOMAIN machines /\ machines'[n].app = machines[n].app
                                       /\ machines'[n].ip = machines[n].ip,
           \A n \in DOMAIN machines' : n # m => machines'[n] = machines[n],
           m \in DOMAIN watch' => m \notin DOMAIN vms \cup halted,
           m \in DOMAIN watch' /\ watch'[m] \in Minding /\ m \in DOMAIN machines' =>
               machines'[m] = machines[m] /\ watch[m] \in Minding,
           m \in RunningMachines' => \/ phase = "stopping"
                                     \/ phase = "reconcile" /\ m \in pending
                                     \/ m \in DOMAIN watch' /\ watch'[m] \in Minding
    PROVE  Custody'
<1>1. Distinct'
  BY DEF Custody, Distinct, Holds
<1>2. Private'
  BY DEF Custody, Private, Holds, Steps
<1>3. Fresh' /\ Waiting' /\ Stopping'
  BY DEF Custody, Fresh, Waiting, Stopping, Undisturbed, Steps
<1>4. Minded'
  BY DEF Custody, Minded, Undisturbed, Steps
<1>5. Tended'
  <2> SUFFICES ASSUME phase \in {"reconcile", "ingress", "up"}, NEW n \in RunningMachines'
               PROVE  \/ phase = "reconcile" /\ n \in pending
                      \/ n \in DOMAIN watch' /\ watch'[n] \in Minding
    BY DEF Tended, Undisturbed
  <2>1. CASE n = m
    BY <2>1
  <2>2. CASE n # m
    <3>1. n \in RunningMachines
      BY <2>2 DEF RunningMachines
    <3>2. \/ phase = "reconcile" /\ n \in pending
          \/ n \in DOMAIN watch /\ watch[n] \in Minding
      BY <3>1 DEF Custody, Tended
    <3> QED BY <2>2, <3>2 DEF Steps
  <2> QED BY <2>1, <2>2
<1> QED
  BY <1>1, <1>2, <1>3, <1>4, <1>5 DEF Custody

LEMMA WatcherCustody ==
    ASSUME DaemonInv, Custody, Undisturbed, NEW m \in Machines, WatchStep(m) \/ VmExit(m)
    PROVE  Custody'
<1>1. CASE VmExit(m)
  <2>1. Keepers
    BY <1>1 DEF VmExit, Keepers, Holds
  <2>2. RowsLess /\ VmsLess /\ watch' = watch /\ nextMachine' = nextMachine
    BY <1>1, FewerRows, FewerVms DEF VmExit
  <2> QED BY <2>1, <2>2, CalmKeeps
<1>2. CASE WatchStep(m)
  <2>1. m \in DOMAIN watch /\ UNCHANGED <<req, vms, nextMachine>>
    BY <1>2 DEF WatchStep, WatchWakes, WatchReads, WatchMarks, WatchUnhandles, WatchDeletes,
       WatcherApplies, WatcherInTunnel, Advance, bounds
  <2>2. phase # "down"
    BY <2>1 DEF DaemonInv, Phases, NoRows
  <2>3. watch[m] # "wait" => m \notin DOMAIN vms \cup halted
    BY <2>1 DEF Custody, Waiting
  <2>4. watch[m] \notin Minding /\ m \in RunningMachines =>
            \/ phase = "stopping"
            \/ phase = "reconcile" /\ m \in pending
    <3>1. phase \in {"reconcile", "ingress", "up"} \/ phase = "stopping"
      BY <2>2 DEF DaemonInv, Phases
    <3>2. Tended
      BY DEF Custody
    <3> QED BY <3>1, <3>2 DEF Tended
  <2>5. CASE WatchWakes(m)
    <3>1. machines' = machines /\ watch[m] = "wait" /\ m \notin DOMAIN vms
      BY <2>5 DEF WatchWakes, storeVars
    <3>2. CASE shuttingDown
      <4>1. Unwatch(m) /\ phase = "stopping"
        BY <2>5, <3>2 DEF WatchWakes, Custody, Stopping
      <4> QED BY <2>1, <3>1, <4>1, WatchSteps, WatchMoves
    <3>3. CASE ~shuttingDown
      <4>1. Advance(m, "wait", "read") /\ halted = {}
        BY <2>5, <3>3 DEF WatchWakes, Custody, Stopping
      <4>2. Steps(m) /\ m \in DOMAIN watch' /\ watch'[m] = "read"
        BY <4>1, WatchSteps
      <4> QED BY <2>1, <3>1, <4>1, <4>2, WatchMoves DEF Minding
    <3> QED BY <3>2, <3>3
  <2>6. CASE WatchReads(m)
    <3>1. machines' = machines /\ watch[m] = "read"
      BY <2>6 DEF WatchReads, storeVars
    <3>2. CASE Advance(m, "read", "mark")
      <4>1. Steps(m) /\ m \in DOMAIN watch' /\ watch'[m] = "mark"
        BY <3>2, WatchSteps
      <4> QED BY <2>1, <2>3, <3>1, <4>1, WatchMoves DEF Minding
    <3>3. CASE ~Advance(m, "read", "mark")
      <4>1. Unwatch(m) /\ ~(m \in DOMAIN machines /\ machines[m].state = "running"
                            /\ machines[m].pid = epoch)
        BY <2>6, <3>3 DEF WatchReads
      <4>2. m \notin DOMAIN machines
        BY <2>1, <3>1, <4>1 DEF Custody, Minded, Minding
      <4>3. m \notin RunningMachines'
        BY <3>1, <4>2 DEF RunningMachines
      <4> QED BY <2>1, <3>1, <4>1, <4>3, WatchSteps, WatchMoves
    <3> QED BY <3>2, <3>3
  <2>7. CASE WatchMarks(m)
    <3>1. Advance(m, "mark", "unhandle")
      BY <2>7 DEF WatchMarks
    <3>2. Steps(m) /\ m \in DOMAIN watch' /\ watch'[m] = "unhandle" /\ watch[m] = "mark"
      BY <3>1, WatchSteps DEF Advance
    <3>3. CASE SetMachineState(m, "stopped", 0)
      <4>1. m \notin RunningMachines'
        BY <3>3, StateEffect DEF RunningMachines
      <4>2. \A n \in DOMAIN machines' : /\ n \in DOMAIN machines
                                        /\ machines'[n].app = machines[n].app
                                        /\ machines'[n].ip = machines[n].ip
                                        /\ n # m => machines'[n] = machines[n]
        BY <3>3, StateEffect
      <4> QED BY <2>1, <2>3, <3>2, <4>1, <4>2, WatchMoves DEF Minding
    <3>4. CASE m \notin DOMAIN machines /\ UNCHANGED storeVars
      <4>1. machines' = machines /\ m \notin RunningMachines'
        BY <3>4 DEF storeVars, RunningMachines
      <4> QED BY <2>1, <2>3, <3>2, <4>1, WatchMoves DEF Minding
    <3> QED BY <2>7, <3>3, <3>4 DEF WatchMarks
  <2>8. CASE WatchUnhandles(m)
    <3>1. Advance(m, "unhandle", "delete") /\ machines' = machines
      BY <2>8 DEF WatchUnhandles, storeVars
    <3>2. Steps(m) /\ m \in DOMAIN watch' /\ watch'[m] = "delete" /\ watch[m] = "unhandle"
      BY <3>1, WatchSteps DEF Advance
    <3>3. RunningMachines' = RunningMachines
      BY <3>1 DEF RunningMachines
    <3> QED BY <2>1, <2>3, <2>4, <3>1, <3>2, <3>3, WatchMoves DEF Minding
  <2>9. CASE WatchDeletes(m)
    <3>1. Advance(m, "delete", "tunnel") /\ DeleteMachine(m)
      BY <2>9 DEF WatchDeletes
    <3>2. Steps(m) /\ m \in DOMAIN watch' /\ watch'[m] = "tunnel" /\ watch[m] = "delete"
      BY <3>1, WatchSteps DEF Advance
    <3>3. RowsLess /\ m \notin RunningMachines'
      BY <3>1, FewerRows DEF DeleteMachine, Drop, RunningMachines
    <3> QED BY <2>1, <2>3, <3>2, <3>3, WatchMoves DEF Minding, RowsLess
  <2>10. CASE WatcherApplies(m)
    <3>1. watch[m] = "tunnel" /\ (watch' = watch \/ Unwatch(m))
      BY <2>10 DEF WatcherApplies, WatcherInTunnel
    <3>2. machines' = machines
      BY <2>10 DEF WatcherApplies, ApplyRead, ApplyWrite, ApplyFails, ApplyRestart, storeVars
    <3>3. RunningMachines' = RunningMachines
      BY <3>2 DEF RunningMachines
    <3>4. Steps(m) /\ (m \in DOMAIN watch' => watch'[m] = "tunnel")
      <4>1. CASE Unwatch(m)
        BY <4>1, WatchSteps
      <4>2. CASE watch' = watch
        BY <3>1, <4>2 DEF Steps
      <4> QED BY <3>1, <4>1, <4>2
    <3> QED BY <2>1, <2>3, <2>4, <3>1, <3>2, <3>3, <3>4, WatchMoves DEF Minding
  <2> QED BY <1>2, <2>5, <2>6, <2>7, <2>8, <2>9, <2>10 DEF WatchStep
<1> QED
  BY <1>1, <1>2

LEMMA MainCustody ==
    ASSUME DaemonInv, Custody, MainStep \/ Terminate \/ Crash
    PROVE  Custody'
<1> USE DEF Custody
<1>1. CASE Start
  <2>1. /\ phase = "down" /\ phase' = "reconcile" /\ pending' = RunningMachines
        /\ UNCHANGED <<machines, req, vms, watch, nextMachine, shuttingDown, halted>>
    BY <1>1 DEF Start, storeVars, bounds
  <2>2. DOMAIN watch = {}
    BY <2>1 DEF DaemonInv, Phases, NoRows
  <2>3. RunningMachines' = RunningMachines
    BY <2>1 DEF RunningMachines
  <2>4. Distinct' /\ Private' /\ Fresh' /\ Waiting'
    BY <2>1 DEF Distinct, Private, Fresh, Waiting, Holds
  <2> QED BY <2>1, <2>2, <2>3, <2>4 DEF Stopping, Minded, Tended
<1>2. ASSUME NEW m \in Machines, ReconcileSubnet(m)
      PROVE  Custody'
  <2>1. Undisturbed /\ Keepers
    BY <1>2 DEF ReconcileSubnet, Undisturbed, oakdVars, Keepers, Holds
  <2>2. machines' = machines /\ vms' = vms /\ watch' = watch /\ nextMachine' = nextMachine
    BY <1>2 DEF ReconcileSubnet, SubnetForOwner, bounds
  <2> QED BY <2>1, <2>2, FewerRows, FewerVms, CalmKeeps DEF RowsLess, VmsLess
<1>3. ASSUME NEW m \in Machines, ReconcileOne(m) \/ ReconcileFails(m)
      PROVE  Custody'
  <2>1. /\ phase = "reconcile" /\ m \in pending /\ pending' = pending \ {m}
        /\ UNCHANGED <<req, shuttingDown, epoch, nextMachine, phase, halted>>
    BY <1>3 DEF ReconcileOne, ReconcileFails, ReconcileVisit, bounds
  <2>2. /\ \A w \in Workers : req[w].pc = "idle"
        /\ m \in DOMAIN machines /\ m \notin DOMAIN watch /\ m < nextMachine
    BY <2>1 DEF DaemonInv, Phases, Ids
  <2>3. Distinct' /\ Private' /\ Stopping'
    BY <2>1, <2>2 DEF Distinct, Private, Stopping, Holds, MachinePcs
  <2>4. CASE ReconcileOne(m)
    <3>1. SetMachineState(m, "running", epoch)
      BY <2>4 DEF ReconcileOne
    <3>2. /\ DOMAIN watch' = DOMAIN watch \cup {m} /\ watch'[m] = "wait"
          /\ \A n \in DOMAIN watch : n # m => watch'[n] = watch[n]
      BY <2>4 DEF ReconcileOne, Put
    <3>3. DOMAIN vms' = DOMAIN vms \cup {m}
      BY <2>4 DEF ReconcileOne, Boot, Put
    <3>4. Fresh' /\ Waiting'
      BY <2>1, <2>2, <3>2, <3>3 DEF Fresh, Waiting
    <3>5. Minded'
      BY <2>1, <3>1, <3>2, StateEffect DEF Minded
    <3>6. RunningMachines' \subseteq RunningMachines \cup {m}
      BY <3>1, StateEffect DEF RunningMachines
    <3>7. Tended'
      BY <2>1, <3>2, <3>6 DEF Tended, Minding
    <3> QED BY <2>3, <3>4, <3>5, <3>7
  <2>5. CASE ReconcileFails(m)
    <3>1. SetMachineState(m, "failed", 0) /\ vms' = vms /\ watch' = watch
      BY <2>5 DEF ReconcileFails
    <3>2. Fresh' /\ Waiting'
      BY <2>1, <3>1 DEF Fresh, Waiting
    <3>3. Minded'
      BY <2>1, <2>2, <3>1, StateEffect DEF Minded
    <3>4. RunningMachines' \subseteq RunningMachines \ {m}
      BY <3>1, StateEffect DEF RunningMachines
    <3>5. Tended'
      BY <2>1, <3>1, <3>4 DEF Tended
    <3> QED BY <2>3, <3>2, <3>3, <3>5
  <2> QED BY <1>3, <2>4, <2>5
<1>4. ASSUME NEW m \in Machines, StopOne(m)
      PROVE  Custody'
  <2>1. /\ phase = "stopping" /\ UNCHANGED <<machines, req, watch, shuttingDown, epoch, phase>>
        /\ nextMachine' = nextMachine /\ halted' = halted \cup ({m} \cap DOMAIN vms)
    BY <1>4 DEF StopOne, storeVars, bounds
  <2>2. DOMAIN vms' \subseteq DOMAIN vms
    BY <1>4 DEF StopOne, Drop
  <2>3. Distinct' /\ Private' /\ Minded'
    BY <2>1 DEF Distinct, Private, Holds, Minded
  <2>4. Fresh' /\ Waiting'
    BY <2>1, <2>2 DEF Fresh, Waiting
  <2> QED BY <2>1, <2>3, <2>4 DEF Stopping, Tended
<1>5. CASE Reconciled \/ MainApplies \/ Terminate
  <2>1. UNCHANGED <<machines, req, vms, watch, epoch, nextMachine, halted>>
    <3>1. CASE MainApplies
      <4>1. UNCHANGED <<req, vms, watch, epoch, nextMachine, halted>>
        BY <3>1 DEF MainApplies, bounds
      <4>2. UNCHANGED machines
        BY <3>1 DEF MainApplies, ApplyRead, ApplyWrite, ApplyFails, ApplyRestart, storeVars
      <4> QED BY <4>1, <4>2
    <3>2. CASE Reconciled \/ Terminate
      BY <3>2 DEF Reconciled, Terminate, deployerVars, storeVars, bounds
    <3> QED BY <1>5, <3>1, <3>2
  <2>2. Distinct' /\ Private' /\ Fresh' /\ Waiting' /\ Minded'
    BY <2>1 DEF Distinct, Private, Fresh, Waiting, Minded, Holds
  <2>3. RunningMachines' = RunningMachines
    BY <2>1 DEF RunningMachines
  <2>4. CASE Terminate
    BY <2>1, <2>2, <2>4 DEF Terminate, Stopping, Tended
  <2>5. CASE Reconciled \/ MainApplies
    <3>1. /\ shuttingDown' = shuttingDown /\ phase \in {"reconcile", "ingress"}
          /\ phase' \in {"ingress", "up"} /\ (phase = "reconcile" => pending = {})
      BY <2>5 DEF Reconciled, MainApplies, deployerVars
    <3>2. Stopping'
      BY <2>1, <3>1 DEF Stopping
    <3>3. Tended'
      BY <2>1, <2>3, <3>1 DEF Tended
    <3> QED BY <2>2, <3>2, <3>3
  <2> QED BY <1>5, <2>4, <2>5
<1>6. CASE Exit \/ Crash
  <2>1. /\ phase' = "down" /\ halted' = {} /\ req' = [w \in Workers |-> Idle]
        /\ DOMAIN vms' = {} /\ DOMAIN watch' = {} /\ shuttingDown' = FALSE
    BY <1>6 DEF Exit, Crash, Gone, NoRows
  <2>2. \A w \in Workers : req'[w].pc = "idle"
    BY <2>1 DEF Idle
  <2>3. Distinct' /\ Private'
    BY <2>2 DEF Distinct, Private, Holds, MachinePcs
  <2> QED BY <2>1, <2>3 DEF Fresh, Waiting, Stopping, Minded, Tended
<1> QED
  BY <1>1, <1>2, <1>3, <1>4, <1>5, <1>6 DEF MainStep

LEMMA CustodyKept ==
    ASSUME DaemonInv, Custody, [Next]_vars
    PROVE  Custody'
<1>1. CASE DeployerStep
  <2>1. Undisturbed
    BY <1>1 DEF DeployerStep, Undisturbed, oakdVars
  <2> QED BY <1>1, <2>1, WorkerCustody, WatcherCustody DEF DeployerStep
<1>2. CASE UNCHANGED vars
  <2>1. /\ Undisturbed /\ machines' = machines /\ vms' = vms /\ watch' = watch
        /\ nextMachine' = nextMachine /\ req' = req
    BY <1>2 DEF vars, deployerVars, oakdVars, bounds, storeVars, Undisturbed
  <2> QED BY <2>1, CalmKeeps DEF RowsLess, VmsLess, Keepers, Holds
<1> QED
  BY <1>1, <1>2, MainCustody DEF Next

LEMMA CustodyStarts ==
    ASSUME Init
    PROVE  Custody
<1>1. /\ req = [w \in Workers |-> Idle] /\ vms = NoRows /\ watch = NoRows /\ machines = NoRows
      /\ shuttingDown = FALSE /\ phase = "up" /\ halted = {}
  BY DEF Init, DeployerInit, StoreInit
<1>2. DOMAIN NoRows = {}
  BY DEF NoRows
<1>3. \A w \in Workers : req[w].pc = "idle"
  BY <1>1 DEF Idle
<1>4. Distinct /\ Private
  BY <1>3 DEF Distinct, Private, Holds, MachinePcs
<1> QED
  BY <1>1, <1>2, <1>4 DEF Custody, Fresh, Waiting, Stopping, Minded, Tended, RunningMachines

\* One request, then one watcher, has every machine in hand.
THEOREM CustodyInvariant == Spec => [](DaemonInv /\ Custody)
<1>1. Init => Custody
  BY CustodyStarts
<1>2. DaemonInv /\ Custody /\ [Next]_vars => Custody'
  BY CustodyKept
<1> QED
  BY <1>1, <1>2, DaemonInvariant, PTL DEF Spec

\* While the daemon is up, whatever it went through, every machine whose row
\* says running has a watchMachine goroutine, so its row goes when it dies.
THEOREM EveryRunningMachineIsWatched == Spec => []RunningIsWatched
<1>1. DaemonInv /\ Custody => RunningIsWatched
  BY DEF Custody, Tended, RunningIsWatched
<1> QED
  BY <1>1, CustodyInvariant, PTL

-----------------------------------------------------------------------------
(* Whose rows a step touches.                                              *)

\* A handler touches the row it holds, and the row its loop has got to.
LEMMA WorkerRows ==
    ASSUME DaemonInv, NEW w \in Workers, Issue(w) \/ WorkerStep(w) \/ CommandEnds(w),
           NEW m \in DOMAIN machines
    PROVE  \/ m \in DOMAIN machines' /\ machines'[m] = machines[m]
           \/ Holds(w) /\ m = req[w].id
              /\ (MarkFailed(w) \/ MarkRunning(w) \/ DeleteNew(w) \/ DeleteCommandRow(w))
           \/ DeleteListed(w) /\ m = Current(w)
<1>1. CASE machines' = machines
  BY <1>1
<1>2. CASE InsertMachine(w)
  <2>1. CASE Finish(w)
    <3>1. req'[w].pc = "idle" /\ req \in [Workers -> ReqType]
      BY <2>1, FinishEffect DEF DaemonInv, Locals
    <3>2. ASSUME NEW i, req' = [req EXCEPT ![w].id = nextMachine, ![w].ip = i, ![w].pc = "start"]
          PROVE  FALSE
      BY <3>1, <3>2 DEF ReqType
    <3>3. machines' = machines
      BY <1>2, <3>2 DEF InsertMachine, storeVars
    <3> QED BY <1>1, <3>3
  <2>2. CASE ~Finish(w)
    BY <1>2, <2>2, InsertEffect
  <2> QED BY <2>1, <2>2
<1>3. CASE MarkFailed(w) \/ MarkRunning(w)
  <2>1. \/ \E s, p : SetMachineState(req[w].id, s, p)
        \/ machines' = machines
    BY <1>3 DEF MarkFailed, MarkRunning, storeVars
  <2>2. Holds(w)
    BY <1>3 DEF MarkFailed, MarkRunning, At, Holds, MachinePcs
  <2>3. ASSUME NEW s, NEW p, SetMachineState(req[w].id, s, p), m # req[w].id
        PROVE  m \in DOMAIN machines' /\ machines'[m] = machines[m]
    BY <2>3, StateEffect
  <2> QED BY <1>1, <1>3, <2>1, <2>2, <2>3
<1>4. CASE DeleteNew(w) \/ DeleteCommandRow(w)
  <2>1. DeleteMachine(req[w].id) /\ Holds(w)
    BY <1>4 DEF DeleteNew, DeleteCommandRow, At, Holds, MachinePcs
  <2> QED BY <1>4, <2>1 DEF DeleteMachine, Drop
<1>5. CASE DeleteListed(w)
  <2>1. DeleteMachine(Current(w))
    BY <1>5 DEF DeleteListed
  <2> QED BY <1>5, <2>1 DEF DeleteMachine, Drop
<1>6. CASE PrepareStep(w) \/ DestroyStep(w)
  <2>1. machines' = machines
    BY <1>6 DEF PrepareStep, StoreConfig, CacheConfig, ReadConfig, RecacheConfig, BuildRootfs,
       RecordRelease, FindRelease, UpsertApp, InsertRelease, storeVars, DestroyStep,
       DestroyReleases, DestroySecrets, DestroyVolumes, DestroyApp, DestroyCached, DestroyFiles,
       DeleteReleasesForApp, DeleteSecretsForApp, DeleteVolumesForApp, DeleteApp
  <2> QED BY <1>1, <2>1
<1>7. CASE BootStep(w) \/ CommandEnds(w)
  <2>1. CASE ResolveVolumes(w) \/ ReadOwner(w) \/ FindSubnet(w) \/ StartMachine(w) \/ StartFails(w)
             \/ PrepareFails(w) \/ StopCommandVm(w) \/ SetHandle(w) \/ AwaitHealthy(w)
             \/ StopNew(w) \/ UnhandleNew(w) \/ CommandEnds(w)
    <3>1. machines' = machines
      BY <2>1 DEF ResolveVolumes, ReadOwner, FindSubnet, StartMachine, StartFails, PrepareFails,
         StopCommandVm, SetHandle, AwaitHealthy, StopNew, UnhandleNew, CommandEnds,
         SubnetForOwner, storeVars
    <3> QED BY <1>1, <3>1
  <2> QED BY <1>2, <1>3, <1>4, <1>7, <2>1 DEF BootStep
<1>8. CASE CutoverStep(w)
  <2>1. CASE WorkerApplies(w)
    <3>1. machines' = machines
      BY <2>1 DEF WorkerApplies, WorkerReturns, ApplyRead, ApplyWrite, ApplyFails, ApplyRestart,
         storeVars
    <3> QED BY <1>1, <3>1
  <2>2. CASE ListMachines(w) \/ StopListed(w) \/ UnhandleListed(w) \/ EmitOk(w) \/ RecordOwner(w)
    <3>1. machines' = machines
      BY <2>2 DEF ListMachines, StopListed, UnhandleListed, EmitOk, RecordOwner, SetAppOwner,
         storeVars
    <3> QED BY <1>1, <3>1
  <2> QED BY <1>5, <1>8, <2>1, <2>2 DEF CutoverStep
<1>9. CASE Issue(w) \/ ChangeSecret(w) \/ MakeVolume(w) \/ InsertVolume(w)
  <2>1. machines' = machines
    BY <1>9 DEF Issue, ChangeSecret, MakeVolume, InsertVolume, PutSecret, DeleteSecret,
       CreateVolume, storeVars
  <2> QED BY <1>1, <2>1
<1> QED
  BY <1>6, <1>7, <1>8, <1>9 DEF WorkerStep

\* A watcher touches the row of its own machine, when that is dead.
LEMMA WatcherRows ==
    ASSUME DaemonInv, Custody, NEW n \in Machines, WatchStep(n) \/ VmExit(n),
           NEW m \in DOMAIN machines
    PROVE  \/ m \in DOMAIN machines' /\ machines'[m] = machines[m]
           \/ m = n /\ m \in DOMAIN watch /\ m \notin DOMAIN vms \cup halted
<1>1. CASE machines' = machines
  BY <1>1
<1>2. CASE WatchMarks(n)
  <2>1. n \in DOMAIN watch /\ watch[n] = "mark"
    BY <1>2 DEF WatchMarks, Advance
  <2>2. n \notin DOMAIN vms \cup halted
    BY <2>1 DEF Custody, Waiting
  <2>3. machines' = machines \/ SetMachineState(n, "stopped", 0)
    BY <1>2 DEF WatchMarks, storeVars
  <2> QED BY <1>1, <2>1, <2>2, <2>3, StateEffect
<1>3. CASE WatchDeletes(n)
  <2>1. n \in DOMAIN watch /\ watch[n] = "delete" /\ DeleteMachine(n)
    BY <1>3 DEF WatchDeletes, Advance
  <2>2. n \notin DOMAIN vms \cup halted
    BY <2>1 DEF Custody, Waiting
  <2> QED BY <2>1, <2>2 DEF DeleteMachine, Drop
<1>4. CASE WatchWakes(n) \/ WatchReads(n) \/ WatchUnhandles(n) \/ WatcherApplies(n) \/ VmExit(n)
  <2>1. machines' = machines
    BY <1>4 DEF WatchWakes, WatchReads, WatchUnhandles, WatcherApplies, VmExit, ApplyRead,
       ApplyWrite, ApplyFails, ApplyRestart, storeVars
  <2> QED BY <1>1, <2>1
<1> QED
  BY <1>2, <1>3, <1>4 DEF WatchStep

\* The main goroutine adds and removes none.
LEMMA MainRows ==
    ASSUME MainStep \/ Terminate \/ Crash
    PROVE  \/ machines' = machines
           \/ \E n \in Machines : ReconcileOne(n) \/ ReconcileFails(n)
<1>1. CASE MainApplies
  BY <1>1 DEF MainApplies, ApplyRead, ApplyWrite, ApplyFails, ApplyRestart, storeVars
<1>2. CASE Start \/ Reconciled \/ Exit \/ Terminate \/ Crash
  BY <1>2 DEF Start, Reconciled, Exit, Terminate, Crash, Gone, deployerVars, storeVars
<1>3. ASSUME NEW n \in Machines, ReconcileSubnet(n) \/ StopOne(n)
      PROVE  machines' = machines
  BY <1>3 DEF ReconcileSubnet, SubnetForOwner, StopOne, storeVars
<1> QED
  BY <1>1, <1>2, <1>3 DEF MainStep

\* While the daemon shuts down, a machine that StopAll stopped keeps its running
\* row for the next Reconcile, whatever its watcher and the requests still being
\* served are at, unless a cutover or a destroy had listed it.
THEOREM StopAllLeavesRowsRunning == Spec => StopAllKeepsRows
<1> DEFINE Kept == \A m \in halted \cap RunningMachines :
                      \/ m \in RunningMachines'
                      \/ \E w \in Workers : At(w, "delete") /\ Current(w) = m
<1>1. ASSUME DaemonInv, Custody, [Next]_vars
      PROVE  [Kept]_vars
  <2> SUFFICES ASSUME Next, NEW m \in halted, m \in RunningMachines
               PROVE  \/ m \in RunningMachines'
                      \/ \E w \in Workers : At(w, "delete") /\ Current(w) = m
    BY <1>1
  <2>1. m \in DOMAIN machines /\ machines[m].state = "running"
    BY DEF RunningMachines
  <2>2. ASSUME m \in DOMAIN machines' /\ machines'[m] = machines[m]
        PROVE  m \in RunningMachines'
    BY <2>1, <2>2 DEF RunningMachines
  <2>3. phase = "stopping"
    BY <1>1 DEF Custody, Stopping
  <2>4. ASSUME NEW w \in Workers, Issue(w) \/ WorkerStep(w) \/ CommandEnds(w)
        PROVE  \/ m \in RunningMachines'
               \/ \E x \in Workers : At(x, "delete") /\ Current(x) = m
    <3>1. ~(Holds(w) /\ m = req[w].id)
      BY <1>1, <2>1 DEF Custody, Private
    <3>2. \/ m \in DOMAIN machines' /\ machines'[m] = machines[m]
          \/ DeleteListed(w) /\ m = Current(w)
      BY <1>1, <2>1, <2>4, <3>1, WorkerRows
    <3> QED BY <2>2, <3>2 DEF DeleteListed
  <2>5. ASSUME NEW n \in Machines, WatchStep(n) \/ VmExit(n)
        PROVE  m \in RunningMachines'
    BY <1>1, <2>1, <2>2, <2>5, WatcherRows
  <2>6. ASSUME MainStep \/ Terminate \/ Crash
        PROVE  m \in RunningMachines'
    <3>1. \A n \in Machines : ~ReconcileOne(n) /\ ~ReconcileFails(n)
      BY <2>3 DEF ReconcileOne, ReconcileFails, ReconcileVisit
    <3> QED BY <2>1, <2>2, <2>6, <3>1, MainRows
  <2> QED BY <2>4, <2>5, <2>6 DEF Next, DeployerStep
<1> QED
  BY <1>1, CustodyInvariant, PTL DEF Spec, StopAllKeepsRows

-----------------------------------------------------------------------------
(* Where a request comes from.                                             *)

\* The steps that lead to the places the invariants below speak of.
Arrival(w, pc) ==
    /\ pc = "start" => InsertMachine(w)
    /\ pc = "unclaim" => StartFails(w) \/ PrepareFails(w) \/ StopCommandVm(w)
    /\ pc = "unhandlenew" => StopNew(w)
    /\ pc = "failed" => StartFails(w) \/ UnhandleNew(w)
    /\ pc = "deletenew" => MarkFailed(w)
    /\ pc = "list" => Issue(w) \/ MarkRunning(w)
    /\ pc = "stop" => ListMachines(w) \/ UnhandleListed(w)
    /\ pc = "delete" => StopListed(w)
    /\ pc = "unhandle" => DeleteListed(w)

\* Places nothing is said of.
Plain == Pcs \ {"start", "unclaim", "unhandlenew", "failed", "deletenew", "list", "stop",
                "delete", "unhandle"}

LEMMA PlainArrival ==
    ASSUME NEW w \in Workers, NEW p \in Plain
    PROVE  Arrival(w, p)
  BY DEF Arrival, Plain

\* What a step of w does to the other requests and to what it is about.
OwnStep(w) ==
    /\ \A x \in Workers : x # w => req'[x] = req[x]
    /\ req'[w].op \in {req[w].op, "none"} \cup Ops

LEMMA WorkerMoves ==
    ASSUME DaemonInv, NEW w \in Workers, Issue(w) \/ WorkerStep(w) \/ CommandEnds(w)
    PROVE  OwnStep(w) /\ Arrival(w, req'[w].pc)
<1> DEFINE Goal == OwnStep(w) /\ Arrival(w, req'[w].pc)
<1>1. req \in [Workers -> ReqType]
  BY DEF DaemonInv, Locals
<1>2. ASSUME Finish(w) PROVE Goal
  <2>1. OwnStep(w) /\ req'[w].pc = "idle"
    BY <1>1, <1>2, FinishEffect DEF OwnStep
  <2> QED BY <2>1 DEF Arrival
<1>3. ASSUME NEW p, Goto(w, p), Arrival(w, p) PROVE Goal
  <2>1. OwnStep(w) /\ req'[w].pc = p
    BY <1>1, <1>3, GotoEffect DEF OwnStep
  <2> QED BY <1>3, <2>1
<1>4. ASSUME NEW P, P \subseteq Plain, Elsewhere(w, P) PROVE Goal
  <2>1. OwnStep(w) /\ req'[w].pc \in Plain
    BY <1>4 DEF Elsewhere, OwnStep, Plain, Pcs
  <2> QED BY <2>1, PlainArrival
<1>5. ASSUME NEW p, NEW c, req' = [req EXCEPT ![w].command = c, ![w].pc = p], Arrival(w, p)
      PROVE  Goal
  <2>1. OwnStep(w) /\ req'[w].pc = p
    BY <1>1, <1>5, CommandChange DEF OwnStep
  <2> QED BY <1>5, <2>1
<1>6. ASSUME NEW p, NEW S, req' = [req EXCEPT ![w].todo = S, ![w].pc = p], Arrival(w, p)
      PROVE  Goal
  <2>1. OwnStep(w) /\ req'[w].pc = p
    BY <1>1, <1>6, TodoChange DEF OwnStep
  <2> QED BY <1>6, <2>1
<1> HIDE DEF Goal
<1>7. CASE Issue(w)
  <2>1. OwnStep(w) /\ req'[w].pc \in {"upsert", "config", "list", "secret", "unsecret", "volume"}
    BY <1>1, <1>7, IssueChange DEF OwnStep
  <2> QED BY <1>7, <2>1 DEF Arrival
<1>8. CASE PrepareStep(w)
  <2>1. CASE StoreConfig(w) \/ CacheConfig(w) \/ RecacheConfig(w)
    <3>1. \E p \in {"cache", "build", "latest", "upsert"} : Goto(w, p)
      BY <2>1 DEF StoreConfig, CacheConfig, RecacheConfig, AfterConfig
    <3>2. \A p \in {"cache", "build", "latest", "upsert"} : p \in Plain
      BY DEF Plain, Pcs
    <3> QED BY <1>3, <3>1, <3>2, PlainArrival DEF Goal
  <2>2. CASE ReadConfig(w) \/ BuildRootfs(w) \/ RecordRelease(w) \/ FindRelease(w)
    <3>1. {"latest", "upsert", "recache", "insert", "owner", "volumes"} \subseteq Plain
      BY DEF Plain, Pcs
    <3> QED BY <1>1, <1>4, <2>2, <3>1, PrepareElsewhere DEF Goal
  <2> QED BY <1>8, <2>1, <2>2 DEF PrepareStep
<1>9. CASE ReadOwner(w) \/ FindSubnet(w) \/ DeleteCommandRow(w)
  <2>1. {"subnet", "alloc", "volumes"} \subseteq Plain
    BY DEF Plain, Pcs
  <2> QED BY <1>1, <1>4, <1>9, <2>1, BootElsewhere DEF Goal
<1>10. CASE InsertMachine(w)
  <2>1. CASE ~Finish(w)
    <3>1. OwnStep(w) /\ req'[w].pc = "start"
      BY <1>10, <2>1, InsertEffect DEF OwnStep
    <3> QED BY <1>10, <3>1 DEF Arrival
  <2> QED BY <1>2, <2>1 DEF Goal
<1>11. CASE StartFails(w)
  <2>1. \/ req' = [req EXCEPT ![w].command = "failed", ![w].pc = "unclaim"]
        \/ Goto(w, "failed")
    BY <1>11 DEF StartFails, Goto
  <2>2. Arrival(w, "unclaim") /\ Arrival(w, "failed")
    BY <1>11 DEF Arrival
  <2> QED BY <1>3, <1>5, <2>1, <2>2 DEF Goal
<1>12. CASE PrepareFails(w)
  <2>1. \/ req' = [req EXCEPT ![w].command = "failed", ![w].pc = "unclaim"]
        \/ Finish(w)
    BY <1>12 DEF PrepareFails, Finish
  <2>2. Arrival(w, "unclaim")
    BY <1>12 DEF Arrival
  <2> QED BY <1>2, <1>5, <2>1, <2>2 DEF Goal
<1>13. CASE CommandEnds(w)
  BY <1>5, <1>13 DEF CommandEnds, Arrival, Goal
<1>14. CASE ResolveVolumes(w)
  BY <1>2, <1>3, <1>14 DEF ResolveVolumes, Arrival, Goal
<1>15. CASE StartMachine(w)
  BY <1>3, <1>15 DEF StartMachine, Arrival, Goal
<1>16. CASE StopCommandVm(w) \/ SetHandle(w) \/ AwaitHealthy(w)
  BY <1>3, <1>16 DEF StopCommandVm, SetHandle, AwaitHealthy, Arrival, Goal
<1>17. CASE StopNew(w) \/ UnhandleNew(w)
  BY <1>3, <1>17 DEF StopNew, UnhandleNew, Arrival, Goal
<1>18. CASE MarkFailed(w)
  BY <1>3, <1>18 DEF MarkFailed, Arrival, Goal
<1>19. CASE DeleteNew(w)
  BY <1>2, <1>19 DEF DeleteNew, Goal
<1>20. CASE MarkRunning(w)
  BY <1>2, <1>3, <1>20 DEF MarkRunning, Arrival, Goal
<1>21. CASE ListMachines(w) \/ UnhandleListed(w)
  <2>1. PICK S : req' = [req EXCEPT ![w].todo = S, ![w].pc = LoopPc(req[w].op, S)]
    BY <1>21 DEF ListMachines, UnhandleListed
  <2>2. LoopPc(req[w].op, S) \in {"releases", "ok", "stop"}
    BY DEF LoopPc, AfterLoop
  <2>3. Arrival(w, LoopPc(req[w].op, S))
    BY <1>21, <2>2 DEF Arrival
  <2> QED BY <1>6, <2>1, <2>3 DEF Goal
<1>22. CASE StopListed(w) \/ DeleteListed(w)
  BY <1>3, <1>22 DEF StopListed, DeleteListed, Arrival, Goal
<1>23. CASE EmitOk(w) \/ RecordOwner(w) \/ WorkerApplies(w)
  <2>1. \/ Finish(w) \/ (At(w, "tunnel") /\ UNCHANGED req)
        \/ \E p \in {"tunnel", "setowner"} : Goto(w, p)
    BY <1>23 DEF EmitOk, RecordOwner, WorkerApplies, WorkerReturns, WorkerInTunnel
  <2>2. CASE At(w, "tunnel") /\ UNCHANGED req
    BY <2>2 DEF OwnStep, At, Arrival
  <2>3. \A p \in {"tunnel", "setowner"} : Arrival(w, p)
    BY DEF Arrival
  <2> QED BY <1>2, <1>3, <2>1, <2>2, <2>3 DEF Goal
<1>24. CASE DestroyStep(w)
  <2>1. Finish(w) \/ \E p \in {"secrets", "dropvolumes", "dropapp", "uncache", "removefiles", "tunnel"} : Goto(w, p)
    BY <1>24 DEF DestroyStep, DestroyReleases, DestroySecrets, DestroyVolumes, DestroyApp,
       DestroyCached, DestroyFiles
  <2>2. \A p \in {"secrets", "dropvolumes", "dropapp", "uncache", "removefiles", "tunnel"} : Arrival(w, p)
    BY DEF Arrival
  <2> QED BY <1>2, <1>3, <2>1, <2>2 DEF Goal
<1>25. CASE ChangeSecret(w) \/ MakeVolume(w) \/ InsertVolume(w)
  <2>1. {"insertvolume"} \subseteq Plain
    BY DEF Plain, Pcs
  <2> QED BY <1>1, <1>4, <1>25, <2>1, SmallElsewhere DEF Goal
<1>26. CASE BootStep(w)
  BY <1>9, <1>10, <1>11, <1>12, <1>14, <1>15, <1>16, <1>17, <1>18, <1>19, <1>20, <1>26 DEF BootStep
<1>27. CASE CutoverStep(w)
  BY <1>21, <1>22, <1>23, <1>27 DEF CutoverStep
<1> QED
  BY <1>7, <1>8, <1>13, <1>24, <1>25, <1>26, <1>27 DEF WorkerStep

LEMMA InsertRefused ==
    ASSUME DaemonInv, NEW w \in Workers, InsertMachine(w), Finish(w)
    PROVE  UNCHANGED <<storeVars, nextMachine>>
<1>1. req'[w].pc = "idle" /\ req \in [Workers -> ReqType]
  BY FinishEffect DEF DaemonInv, Locals
<1>2. ASSUME NEW i, req' = [req EXCEPT ![w].id = nextMachine, ![w].ip = i, ![w].pc = "start"]
      PROVE  FALSE
  BY <1>1, <1>2 DEF ReqType
<1> QED
  BY <1>2 DEF InsertMachine

\* Who holds a machine after a step of w.
LEMMA HoldersAfter ==
    ASSUME DaemonInv, NEW w \in Workers, Issue(w) \/ WorkerStep(w) \/ CommandEnds(w),
           NEW x \in Workers, req'[x].pc \in MachinePcs
    PROVE  \/ /\ Holds(x)
              /\ req'[x].id = req[x].id /\ req'[x].app = req[x].app /\ req'[x].ip = req[x].ip
           \/ x = w /\ InsertMachine(w) /\ ~Finish(w)
<1>1. CASE ~InsertMachine(w)
  BY <1>1, KeepersKept DEF Keepers
<1>2. CASE InsertMachine(w) /\ x # w
  BY <1>2, WorkerMoves DEF OwnStep, Holds
<1>3. CASE InsertMachine(w) /\ x = w /\ Finish(w)
  BY <1>3, FinishEffect DEF DaemonInv, Locals, MachinePcs
<1> QED
  BY <1>1, <1>2, <1>3

\* The handles a step of w sets and removes.
LEMMA WorkerHandles ==
    ASSUME NEW w \in Workers, Issue(w) \/ WorkerStep(w) \/ CommandEnds(w)
    PROVE  \/ handles' = handles
           \/ SetHandle(w) \/ UnhandleNew(w) \/ UnhandleListed(w)
<1>1. CASE PrepareStep(w) \/ DestroyStep(w)
  BY <1>1 DEF PrepareStep, StoreConfig, CacheConfig, ReadConfig, RecacheConfig, BuildRootfs,
     RecordRelease, FindRelease, DestroyStep, DestroyReleases, DestroySecrets, DestroyVolumes,
     DestroyApp, DestroyCached, DestroyFiles
<1>2. CASE BootStep(w) \/ CommandEnds(w)
  BY <1>2 DEF BootStep, ResolveVolumes, ReadOwner, FindSubnet, InsertMachine, StartMachine,
     StartFails, PrepareFails, StopCommandVm, DeleteCommandRow, AwaitHealthy,
     StopNew, MarkFailed, DeleteNew, MarkRunning, CommandEnds
<1>3. CASE CutoverStep(w)
  BY <1>3 DEF CutoverStep, ListMachines, StopListed, DeleteListed, EmitOk, WorkerApplies,
     RecordOwner
<1>4. CASE Issue(w) \/ ChangeSecret(w) \/ MakeVolume(w) \/ InsertVolume(w)
  BY <1>4 DEF Issue, ChangeSecret, MakeVolume, InsertVolume
<1> QED
  BY <1>1, <1>2, <1>3, <1>4 DEF WorkerStep

LEMMA StartEffect ==
    ASSUME DaemonInv, NEW w \in Workers, StartMachine(w)
    PROVE  /\ DOMAIN vms' = DOMAIN vms \cup {req[w].id}
           /\ \A m \in DOMAIN vms : m # req[w].id => vms'[m] = vms[m]
           /\ vms'[req[w].id].ip = req[w].ip /\ vms'[req[w].id].dying = FALSE
           /\ req'[w].pc \in {"wait", "handle"} /\ req'[w].id = req[w].id
           /\ machines' = machines /\ handles' = handles
<1>1. req \in [Workers -> ReqType]
  BY DEF DaemonInv, Locals
<1>2. /\ DOMAIN vms' = DOMAIN vms \cup {req[w].id}
      /\ \A m \in DOMAIN vms : m # req[w].id => vms'[m] = vms[m]
      /\ vms'[req[w].id].ip = req[w].ip /\ vms'[req[w].id].dying = FALSE
  BY DEF StartMachine, Boot, Put
<1>3. req'[w].pc \in {"wait", "handle"} /\ req'[w].id = req[w].id
  BY <1>1, GotoEffect DEF StartMachine
<1> QED
  BY <1>2, <1>3 DEF StartMachine, storeVars

-----------------------------------------------------------------------------
(* While nobody destroys an app that another request is about.             *)

\* The code does not see to it, and destroy_race shows what may happen otherwise.
DestroysAlone ==
    \A w, x \in Workers :
        w # x /\ req[w].op = "destroy" /\ ~At(x, "idle") => req[x].app # req[w].app

\* A VM that runs and has not been told to stop.
Live(m) == m \in DOMAIN vms /\ ~vms[m].dying
LiveNext(m) == m \in DOMAIN vms' /\ ~vms'[m].dying

\* The row of a machine stays while a request boots it.
HeldRows == \A w \in Workers : Holds(w) => req[w].id \in DOMAIN machines

\* Before Start, and once the failure path has stopped it, no VM lives.
Boots ==
    \A w \in Workers :
        /\ req[w].pc \in {"start", "unclaim"} => req[w].id \notin DOMAIN vms
        /\ req[w].pc \in {"unhandlenew", "failed", "deletenew"} => ~Live(req[w].id)

\* A live VM has a handle, or a request that is about to set it or runs a
\* release command in it.
Handles ==
    \A m \in DOMAIN vms : Live(m) =>
        \/ m \in handles
        \/ \E w \in Workers : req[w].pc \in {"wait", "stopvm", "handle"} /\ req[w].id = m

\* What a cutover or a destroy has listed nobody is booting, and the machine it has come to
\* is stopped before its row goes.
Listed ==
    \A w \in Workers : req[w].pc \in LoopPcs =>
        /\ \A m \in req[w].todo : /\ m < nextMachine
                                  /\ \A x \in Workers : Holds(x) => req[x].id # m
        /\ req[w].pc # "stop" => ~Live(Current(w))

LiveInv == HeldRows /\ Boots /\ Handles /\ Listed /\ LiveVmKeepsAddress

LEMMA LiveLess ==
    ASSUME VmsLess, NEW m, LiveNext(m)
    PROVE  Live(m) /\ vms'[m].ip = vms[m].ip
  BY DEF VmsLess, Live, LiveNext

LEMMA WorkerHeldRows ==
    ASSUME DaemonInv, Custody, LiveInv, NEW w \in Workers,
           Issue(w) \/ WorkerStep(w) \/ CommandEnds(w)
    PROVE  HeldRows'
<1> SUFFICES ASSUME NEW x \in Workers, req'[x].pc \in MachinePcs
             PROVE  req'[x].id \in DOMAIN machines'
  BY DEF HeldRows, Holds
<1>1. CASE x = w /\ InsertMachine(w) /\ ~Finish(w)
  BY <1>1, InsertEffect
<1>2. CASE Holds(x) /\ req'[x].id = req[x].id
  <2> DEFINE m == req[x].id
  <2>1. m \in DOMAIN machines
    BY <1>2 DEF LiveInv, HeldRows
  <2>2. CASE m \in DOMAIN machines' /\ machines'[m] = machines[m]
    BY <1>2, <2>2
  <2>3. CASE /\ Holds(w) /\ m = req[w].id
             /\ MarkFailed(w) \/ MarkRunning(w) \/ DeleteNew(w) \/ DeleteCommandRow(w)
    <3>1. x = w
      BY <1>2, <2>3 DEF Custody, Distinct
    <3>2. ~DeleteNew(w)
      BY <3>1, FinishEffect DEF DeleteNew, DaemonInv, Locals, MachinePcs
    <3>3. ~DeleteCommandRow(w)
      BY <3>1, BootElsewhere DEF Elsewhere, DaemonInv, Locals, MachinePcs
    <3>4. DOMAIN machines' = DOMAIN machines
      BY <2>3, <3>2, <3>3 DEF MarkFailed, MarkRunning, SetMachineState, storeVars
    <3> QED BY <1>2, <2>1, <3>4
  <2>4. CASE DeleteListed(w) /\ m = Current(w)
    <3>1. req[w].pc \in LoopPcs
      BY <2>4 DEF DeleteListed, At, LoopPcs
    <3>2. Current(w) \in req[w].todo
      BY <3>1, CurrentIsListed
    <3> QED BY <1>2, <2>4, <3>1, <3>2 DEF LiveInv, Listed
  <2> HIDE DEF m
  <2> QED BY <2>1, <2>2, <2>3, <2>4, WorkerRows
<1> QED
  BY <1>1, <1>2, HoldersAfter

LEMMA WorkerBoots ==
    ASSUME DaemonInv, Custody, LiveInv, NEW w \in Workers,
           Issue(w) \/ WorkerStep(w) \/ CommandEnds(w)
    PROVE  Boots'
<1> SUFFICES ASSUME NEW x \in Workers
             PROVE  /\ req'[x].pc \in {"start", "unclaim"} => req'[x].id \notin DOMAIN vms'
                    /\ req'[x].pc \in {"unhandlenew", "failed", "deletenew"} => ~LiveNext(req'[x].id)
  BY DEF Boots, Live, LiveNext
<1> DEFINE Low == {"start", "unclaim"}
           Done == {"unhandlenew", "failed", "deletenew"}
<1>1. Low \cup Done \subseteq MachinePcs
  BY DEF MachinePcs
<1>2. CASE x # w /\ req[x].pc \in Low \cup Done
  <2>1. req'[x] = req[x] /\ Holds(x)
    BY <1>1, <1>2, WorkerMoves DEF OwnStep, Holds
  <2>2. CASE VmsLess
    BY <2>1, <2>2, LiveLess DEF LiveInv, Boots, VmsLess
  <2>3. CASE StartMachine(w)
    <3>1. Holds(w)
      BY <2>3 DEF StartMachine, At, Holds, MachinePcs
    <3>2. req[x].id # req[w].id
      BY <1>2, <2>1, <3>1 DEF Custody, Distinct
    <3>3. req[x].id \in DOMAIN vms' => req[x].id \in DOMAIN vms /\ vms'[req[x].id] = vms[req[x].id]
      BY <2>3, <3>2, StartEffect
    <3>4. /\ req[x].pc \in Low => req[x].id \notin DOMAIN vms
          /\ req[x].pc \in Done => ~Live(req[x].id)
      BY DEF LiveInv, Boots
    <3>5. /\ req[x].pc \in Low => req[x].id \notin DOMAIN vms'
          /\ req[x].pc \in Done => ~LiveNext(req[x].id)
      BY <3>3, <3>4 DEF Live, LiveNext
    <3> QED BY <2>1, <3>5
  <2> QED BY <2>2, <2>3, WorkerFrame
<1>3. CASE x # w /\ req[x].pc \notin Low \cup Done
  BY <1>3, WorkerMoves DEF OwnStep
<1>4. CASE x = w
  <2>1. Arrival(w, req'[w].pc) /\ req \in [Workers -> ReqType]
    BY WorkerMoves DEF DaemonInv, Locals
  <2>2. ASSUME req'[w].pc = "start" PROVE req'[w].id \notin DOMAIN vms'
    <3>1. InsertMachine(w) /\ ~Finish(w)
      BY <2>1, <2>2, FinishEffect DEF Arrival
    <3>2. req'[w].id = nextMachine /\ vms' = vms
      BY <3>1, InsertEffect
    <3>3. \A m \in DOMAIN vms : m \in Nat /\ m < nextMachine
      BY TunnelAssumption DEF Custody, Fresh, DaemonInv, Processes
    <3>4. nextMachine \in Nat
      BY DEF DaemonInv, Ids
    <3> QED BY <3>2, <3>3, <3>4
  <2>3. ASSUME req'[w].pc = "unclaim" PROVE req'[w].id \notin DOMAIN vms'
    <3>1. req'[w].id = req[w].id
      BY <1>1, <2>3, HoldersAfter, InsertEffect
    <3>2. CASE StartFails(w) \/ PrepareFails(w)
      BY <3>1, <3>2 DEF StartFails, PrepareFails, At, LiveInv, Boots
    <3>3. CASE StopCommandVm(w)
      BY <3>1, <3>3 DEF StopCommandVm, Drop
    <3> QED BY <2>1, <2>3, <3>2, <3>3 DEF Arrival
  <2>4. ASSUME req'[w].pc \in Done PROVE ~LiveNext(req'[w].id)
    <3>1. req'[w].id = req[w].id
      BY <1>1, <2>4, HoldersAfter, InsertEffect
    <3>2. CASE StopNew(w)
      <4>1. Stop(req[w].id)
        BY <3>2 DEF StopNew
      <4>2. CASE vms' = Drop(vms, {req[w].id})
        BY <3>1, <4>2 DEF LiveNext, Drop
      <4>3. CASE req[w].id \in DOMAIN vms /\ vms' = [vms EXCEPT ![req[w].id].dying = TRUE]
        <5>1. vms[req[w].id] \in VmType
          BY <4>3 DEF DaemonInv, Processes
        <5>2. vms'[req[w].id].dying
          BY <4>3, <5>1 DEF VmType
        <5> QED BY <3>1, <5>2 DEF LiveNext
      <4> QED BY <4>1, <4>2, <4>3 DEF Stop
    <3>3. CASE StartFails(w)
      BY <3>1, <3>3 DEF StartFails, At, LiveInv, Boots, Live, LiveNext
    <3>4. CASE UnhandleNew(w) \/ MarkFailed(w)
      BY <3>1, <3>4 DEF UnhandleNew, MarkFailed, At, LiveInv, Boots, Live, LiveNext
    <3> QED BY <2>1, <2>4, <3>2, <3>3, <3>4 DEF Arrival
  <2> HIDE DEF Done
  <2> QED BY <1>4, <2>2, <2>3, <2>4 DEF Done
<1> HIDE DEF Low, Done
<1> QED
  BY <1>2, <1>3, <1>4

\* Which step takes a request on from the places where its VM has no handle yet.
LEMMA HandsLeave ==
    ASSUME NEW w \in Workers, Issue(w) \/ WorkerStep(w) \/ CommandEnds(w)
    PROVE  /\ At(w, "wait") => CommandEnds(w)
           /\ At(w, "stopvm") => StopCommandVm(w)
           /\ At(w, "handle") => SetHandle(w)
<1>1. CASE PrepareStep(w) \/ DestroyStep(w)
  BY <1>1 DEF At, PrepareStep, StoreConfig, CacheConfig, ReadConfig, RecacheConfig, BuildRootfs,
     RecordRelease, FindRelease, DestroyStep, DestroyReleases, DestroySecrets, DestroyVolumes,
     DestroyApp, DestroyCached, DestroyFiles
<1>2. CASE BootStep(w) \/ CommandEnds(w)
  BY <1>2 DEF At, BootStep, ResolveVolumes, ReadOwner, FindSubnet, InsertMachine, StartMachine,
     StartFails, PrepareFails, StopCommandVm, SetHandle, DeleteCommandRow, AwaitHealthy,
     StopNew, UnhandleNew, MarkFailed, DeleteNew, MarkRunning, CommandEnds
<1>3. CASE CutoverStep(w)
  BY <1>3 DEF At, CutoverStep, ListMachines, StopListed, DeleteListed, UnhandleListed, EmitOk,
     WorkerApplies, WorkerInTunnel, RecordOwner
<1>4. CASE Issue(w) \/ ChangeSecret(w) \/ MakeVolume(w) \/ InsertVolume(w)
  BY <1>4 DEF At, Issue, ChangeSecret, MakeVolume, InsertVolume
<1> QED
  BY <1>1, <1>2, <1>3, <1>4 DEF WorkerStep

LEMMA WorkerHandled ==
    ASSUME DaemonInv, Custody, LiveInv, NEW w \in Workers,
           Issue(w) \/ WorkerStep(w) \/ CommandEnds(w)
    PROVE  Handles'
<1> DEFINE Hands == {"wait", "stopvm", "handle"}
<1> SUFFICES ASSUME NEW m, LiveNext(m)
             PROVE  \/ m \in handles'
                    \/ \E x \in Workers : req'[x].pc \in Hands /\ req'[x].id = m
  BY DEF Handles, Live, LiveNext
<1>1. OwnStep(w) /\ req \in [Workers -> ReqType]
  BY WorkerMoves DEF DaemonInv, Locals
<1>2. CASE StartMachine(w) /\ m = req[w].id
  BY <1>2, StartEffect
<1>3. CASE ~(StartMachine(w) /\ m = req[w].id)
  <2>1. Live(m)
    <3>1. CASE VmsLess
      BY <3>1, LiveLess
    <3>2. CASE StartMachine(w)
      BY <1>3, <3>2, StartEffect DEF Live, LiveNext
    <3> QED BY <3>1, <3>2, WorkerFrame
  <2>2. CASE m \in handles
    <3>1. CASE UnhandleNew(w)
      <4>1. m # req[w].id
        BY <2>1, <3>1 DEF UnhandleNew, At, LiveInv, Boots
      <4> QED BY <2>2, <3>1, <4>1 DEF UnhandleNew
    <3>2. CASE UnhandleListed(w)
      <4>1. m # Current(w)
        BY <2>1, <3>2 DEF UnhandleListed, At, LiveInv, Listed, LoopPcs
      <4> QED BY <2>2, <3>2, <4>1 DEF UnhandleListed
    <3> QED BY <2>2, <3>1, <3>2, WorkerHandles DEF SetHandle
  <2>3. ASSUME NEW x \in Workers, req[x].pc \in Hands, req[x].id = m
        PROVE  \/ m \in handles'
               \/ \E y \in Workers : req'[y].pc \in Hands /\ req'[y].id = m
    <3>1. CASE x # w
      <4>1. req'[x] = req[x]
        BY <1>1, <3>1 DEF OwnStep
      <4> QED BY <2>3, <4>1
    <3>2. CASE x = w /\ At(w, "handle")
      <4>1. SetHandle(w)
        BY <3>2, HandsLeave
      <4> QED BY <2>3, <3>2, <4>1 DEF SetHandle
    <3>3. CASE x = w /\ At(w, "stopvm")
      <4>1. StopCommandVm(w)
        BY <3>3, HandsLeave
      <4> QED BY <2>3, <3>3, <4>1 DEF StopCommandVm, Drop, LiveNext
    <3>4. CASE x = w /\ At(w, "wait")
      <4>1. CommandEnds(w)
        BY <3>4, HandsLeave
      <4>2. PICK c : req' = [req EXCEPT ![w].command = c, ![w].pc = "stopvm"]
        BY <4>1 DEF CommandEnds
      <4>3. req'[w].pc = "stopvm" /\ req'[w].id = req[w].id
        BY <1>1, <4>2 DEF ReqType
      <4> QED BY <2>3, <3>4, <4>3
    <3> QED BY <2>3, <3>1, <3>2, <3>3, <3>4 DEF At
  <2>4. m \in handles \/ \E x \in Workers : req[x].pc \in Hands /\ req[x].id = m
    BY <2>1 DEF LiveInv, Handles, Live
  <2> QED BY <2>2, <2>3, <2>4
<1> QED
  BY <1>2, <1>3

LEMMA WorkerListed ==
    ASSUME DestroysAlone, DaemonInv, Custody, LiveInv, NEW w \in Workers,
           Issue(w) \/ WorkerStep(w) \/ CommandEnds(w)
    PROVE  Listed'
<1> SUFFICES ASSUME NEW y \in Workers, req'[y].pc \in LoopPcs
             PROVE  /\ \A m \in req'[y].todo : /\ m < nextMachine'
                                               /\ \A x \in Workers : req'[x].pc \in MachinePcs => req'[x].id # m
                    /\ req'[y].pc # "stop" => ~LiveNext(Greatest(req'[y].todo))
  BY DEF Listed, Holds, Current, Live, LiveNext
<1>1. OwnStep(w) /\ Arrival(w, req'[w].pc) /\ req \in [Workers -> ReqType]
  BY WorkerMoves DEF DaemonInv, Locals
<1>2. nextMachine \in Nat /\ nextMachine' \in {nextMachine, nextMachine + 1}
  BY WorkerFrame, InsertRefused, InsertEffect DEF DaemonInv, Ids
\* What nobody held is still held by nobody.
<1>3. ASSUME NEW m \in Machines, m < nextMachine, \A x \in Workers : Holds(x) => req[x].id # m
      PROVE  m < nextMachine' /\ \A x \in Workers : req'[x].pc \in MachinePcs => req'[x].id # m
  <2>1. m \in Nat
    BY TunnelAssumption
  <2>2. m < nextMachine' /\ m # nextMachine
    BY <1>2, <1>3, <2>1
  <2>3. ASSUME NEW x \in Workers, req'[x].pc \in MachinePcs PROVE req'[x].id # m
    BY <1>3, <2>2, <2>3, HoldersAfter, InsertEffect
  <2> QED BY <2>2, <2>3
<1>4. CASE y # w
  <2>1. req'[y] = req[y] /\ req[y].pc \in LoopPcs
    BY <1>1, <1>4 DEF OwnStep
  <2>2. req[y].todo \subseteq Machines /\ Current(y) \in req[y].todo
    BY <2>1, CurrentIsListed DEF DaemonInv, Locals, Need
  <2>3. \A m \in req[y].todo : m < nextMachine /\ \A x \in Workers : Holds(x) => req[x].id # m
    BY <2>1 DEF LiveInv, Listed
  <2>4. ASSUME req[y].pc # "stop" PROVE ~LiveNext(Current(y))
    <3>1. ~Live(Current(y))
      BY <2>1, <2>4 DEF LiveInv, Listed
    <3>2. CASE VmsLess
      BY <3>1, <3>2, LiveLess
    <3>3. CASE StartMachine(w)
      <4>1. Holds(w)
        BY <3>3 DEF StartMachine, At, Holds, MachinePcs
      <4>2. Current(y) # req[w].id
        BY <2>2, <2>3, <4>1
      <4> QED BY <3>1, <3>3, <4>2, StartEffect DEF Live, LiveNext
    <3> QED BY <3>2, <3>3, WorkerFrame
  <2> QED BY <1>3, <2>1, <2>2, <2>3, <2>4 DEF Current
<1>5. CASE y = w
  <2>1. CASE ListMachines(w)
    <3>1. req' = [req EXCEPT ![w].todo = Doomed(req[w]), ![w].pc = LoopPc(req[w].op, Doomed(req[w]))]
      BY <2>1 DEF ListMachines
    <3>2. req'[w].todo = Doomed(req[w]) /\ req'[w].pc = LoopPc(req[w].op, Doomed(req[w]))
      BY <1>1, <3>1 DEF ReqType
    <3>3. req'[w].pc = "stop"
      BY <1>5, <3>2 DEF LoopPc, AfterLoop, LoopPcs
    <3>4. \A m \in Doomed(req[w]) :
             /\ m \in DOMAIN machines /\ machines[m].app = req[w].app
             /\ (req[w].op = "destroy" \/ machines[m].state = "running")
      BY DEF Doomed, MachinesForApp
    <3>5. \A m \in DOMAIN machines : m \in Machines /\ m < nextMachine
      BY DEF DaemonInv, Ids, StoreInv, StoreTypeOK
    <3>6. ASSUME NEW m \in Doomed(req[w]), NEW x \in Workers, Holds(x)
          PROVE  req[x].id # m
      <4>1. CASE machines[m].state = "running"
        BY <3>4, <3>6, <4>1 DEF Custody, Private
      <4>2. CASE req[w].op = "destroy"
        <5>1. x # w /\ ~At(x, "idle")
          BY <2>1, <3>6 DEF ListMachines, At, Holds, MachinePcs
        <5>2. req[x].app # req[w].app
          BY <4>2, <5>1 DEF DestroysAlone
        <5> QED BY <3>4, <3>6, <5>2 DEF Custody, Private
      <4> QED BY <3>4, <4>1, <4>2
    <3> QED BY <1>3, <1>5, <3>2, <3>3, <3>4, <3>5, <3>6
  <2>2. ASSUME req[w].pc \in LoopPcs
        PROVE  /\ req[w].todo \subseteq Machines /\ Current(w) \in req[w].todo
               /\ \A m \in req[w].todo : m < nextMachine /\ \A x \in Workers : Holds(x) => req[x].id # m
    BY <2>2, CurrentIsListed DEF DaemonInv, Locals, Need, LiveInv, Listed
  <2>3. CASE UnhandleListed(w)
    <3>1. req[w].pc \in LoopPcs
      BY <2>3 DEF UnhandleListed, At, LoopPcs
    <3>2. PICK S : /\ S = req[w].todo \ {Current(w)}
                   /\ req' = [req EXCEPT ![w].todo = S, ![w].pc = LoopPc(req[w].op, S)]
      BY <2>3 DEF UnhandleListed
    <3>3. req'[w].todo = S /\ req'[w].pc = LoopPc(req[w].op, S)
      BY <1>1, <3>2 DEF ReqType
    <3>4. req'[w].pc = "stop"
      BY <1>5, <3>3 DEF LoopPc, AfterLoop, LoopPcs
    <3> QED BY <1>3, <1>5, <2>2, <3>1, <3>2, <3>3, <3>4
  <2>4. CASE StopListed(w)
    <3>1. req[w].pc \in LoopPcs /\ req'[w].todo = req[w].todo
      BY <1>1, <2>4, GotoEffect DEF StopListed, At, LoopPcs
    <3>2. ~LiveNext(Current(w))
      <4>1. CASE Current(w) \in handles /\ vms' = Drop(vms, {Current(w)})
        BY <4>1 DEF Drop, LiveNext
      <4>2. CASE Current(w) \in DOMAIN vms /\ vms' = [vms EXCEPT ![Current(w)].dying = TRUE]
        <5>1. vms[Current(w)] \in VmType
          BY <4>2 DEF DaemonInv, Processes
        <5>2. vms'[Current(w)].dying
          BY <4>2, <5>1 DEF VmType
        <5> QED BY <5>2 DEF LiveNext
      <4>3. CASE Current(w) \notin handles /\ UNCHANGED vms
        <5>1. \A x \in Workers : req[x].pc \in {"wait", "stopvm", "handle"} => req[x].id # Current(w)
          BY <2>2, <3>1 DEF Holds, MachinePcs
        <5>2. ~Live(Current(w))
          BY <4>3, <5>1 DEF LiveInv, Handles, Live
        <5> QED BY <4>3, <5>2 DEF Live, LiveNext
      <4> QED BY <2>4, <4>1, <4>2, <4>3 DEF StopListed, Stop
    <3> QED BY <1>3, <1>5, <2>2, <3>1, <3>2 DEF Current
  <2>5. CASE DeleteListed(w)
    <3>1. req[w].pc \in LoopPcs /\ req'[w].todo = req[w].todo
      BY <1>1, <2>5, GotoEffect DEF DeleteListed, At, LoopPcs
    <3>2. ~Live(Current(w)) /\ vms' = vms
      BY <2>5 DEF DeleteListed, At, LoopPcs, LiveInv, Listed
    <3>3. ~LiveNext(Current(w))
      BY <3>2 DEF Live, LiveNext
    <3> QED BY <1>3, <1>5, <2>2, <3>1, <3>3 DEF Current
  <2> QED BY <1>1, <1>5, <2>1, <2>3, <2>4, <2>5 DEF Arrival, LoopPcs
<1> QED
  BY <1>4, <1>5

LEMMA WorkerAddress ==
    ASSUME DaemonInv, Custody, LiveInv, NEW w \in Workers,
           Issue(w) \/ WorkerStep(w) \/ CommandEnds(w)
    PROVE  LiveVmKeepsAddress'
<1> SUFFICES ASSUME NEW m, LiveNext(m)
             PROVE  m \in DOMAIN machines' /\ machines'[m].ip = vms'[m].ip
  BY DEF LiveVmKeepsAddress, LiveNext
<1>1. CASE StartMachine(w)
  <2>1. CASE m = req[w].id
    <3>1. Holds(w)
      BY <1>1 DEF StartMachine, At, Holds, MachinePcs
    <3>2. m \in DOMAIN machines /\ machines[m].ip = req[w].ip
      BY <2>1, <3>1 DEF LiveInv, HeldRows, Custody, Private
    <3> QED BY <1>1, <2>1, <3>2, StartEffect
  <2>2. CASE m # req[w].id
    BY <1>1, <2>2, StartEffect DEF LiveInv, LiveVmKeepsAddress, LiveNext
  <2> QED BY <2>1, <2>2
<1>2. CASE VmsLess
  <2>1. Live(m) /\ vms'[m].ip = vms[m].ip
    BY <1>2, LiveLess
  <2>2. m \in DOMAIN machines /\ machines[m].ip = vms[m].ip
    BY <2>1 DEF LiveInv, LiveVmKeepsAddress, Live
  <2>3. ~(m = req[w].id /\ (DeleteNew(w) \/ DeleteCommandRow(w)))
    BY <2>1 DEF DeleteNew, DeleteCommandRow, At, LiveInv, Boots, Live
  <2>4. ~(m = Current(w) /\ DeleteListed(w))
    BY <2>1 DEF DeleteListed, At, LiveInv, Listed, LoopPcs
  <2>5. ASSUME MarkFailed(w) \/ MarkRunning(w)
        PROVE  m \in DOMAIN machines' /\ machines'[m].ip = machines[m].ip
    <3>1. machines' = machines \/ \E s, p : SetMachineState(req[w].id, s, p)
      BY <2>5 DEF MarkFailed, MarkRunning, storeVars
    <3> QED BY <2>2, <3>1, StateEffect
  <2> QED BY <2>1, <2>2, <2>3, <2>4, <2>5, WorkerRows
<1> QED
  BY <1>1, <1>2, WorkerFrame

LEMMA WorkerLive ==
    ASSUME DestroysAlone, DaemonInv, Custody, LiveInv, NEW w \in Workers,
           Issue(w) \/ WorkerStep(w) \/ CommandEnds(w)
    PROVE  LiveInv'
  BY WorkerHeldRows, WorkerBoots, WorkerHandled, WorkerListed, WorkerAddress DEF LiveInv

\* The steps of others: no request moves, no VM starts, and no handle or row of
\* a live VM or of a machine being booted goes.
LEMMA OthersLive ==
    ASSUME LiveInv, UNCHANGED <<req, nextMachine>>, VmsLess,
           \A m \in DOMAIN machines : \/ m \in DOMAIN machines' /\ machines'[m].ip = machines[m].ip
                                      \/ m \notin DOMAIN vms /\ \A x \in Workers : Holds(x) => req[x].id # m,
           \A m \in handles : m \in handles' \/ m \notin DOMAIN vms'
    PROVE  LiveInv'
<1>1. HeldRows'
  BY DEF LiveInv, HeldRows, Holds
<1>2. \A m : LiveNext(m) => Live(m)
  BY LiveLess
<1>3. Boots'
  BY <1>2 DEF LiveInv, Boots, Live, LiveNext, VmsLess
<1>4. Handles'
  BY <1>2 DEF LiveInv, Handles, Live, LiveNext
<1>5. Listed'
  BY <1>2 DEF LiveInv, Listed, Holds, Current, Live, LiveNext
<1>6. LiveVmKeepsAddress'
  <2> SUFFICES ASSUME NEW m, LiveNext(m)
               PROVE  m \in DOMAIN machines' /\ machines'[m].ip = vms'[m].ip
    BY DEF LiveVmKeepsAddress, LiveNext
  <2>1. Live(m) /\ vms'[m].ip = vms[m].ip
    BY LiveLess
  <2> QED BY <2>1 DEF LiveInv, LiveVmKeepsAddress, Live
<1> QED
  BY <1>1, <1>3, <1>4, <1>5, <1>6 DEF LiveInv

LEMMA WatcherLive ==
    ASSUME DaemonInv, Custody, LiveInv, NEW n \in Machines, WatchStep(n) \/ VmExit(n)
    PROVE  LiveInv'
<1>1. UNCHANGED <<req, nextMachine>>
  BY DEF WatchStep, WatchWakes, WatchReads, WatchMarks, WatchUnhandles, WatchDeletes,
     WatcherApplies, VmExit, bounds
<1>2. VmsLess
  <2>1. vms' = vms \/ vms' = Drop(vms, {n})
    BY DEF WatchStep, WatchWakes, WatchReads, WatchMarks, WatchUnhandles, WatchDeletes,
       WatcherApplies, VmExit
  <2> QED BY <2>1, FewerVms
<1>3. ASSUME NEW m \in DOMAIN machines
      PROVE  \/ m \in DOMAIN machines' /\ machines'[m].ip = machines[m].ip
             \/ m \notin DOMAIN vms /\ \A x \in Workers : Holds(x) => req[x].id # m
  <2>1. m \in DOMAIN watch => \A x \in Workers : Holds(x) => req[x].id # m
    BY DEF Custody, Private
  <2> QED BY <2>1, WatcherRows
<1>4. ASSUME NEW m \in handles
      PROVE  m \in handles' \/ m \notin DOMAIN vms'
  <2>1. CASE WatchUnhandles(n)
    <3>1. n \in DOMAIN watch /\ watch[n] = "unhandle" /\ handles' = handles \ {n} /\ vms' = vms
      BY <2>1 DEF WatchUnhandles, Advance
    <3>2. n \notin DOMAIN vms
      BY <3>1 DEF Custody, Waiting
    <3> QED BY <3>1, <3>2
  <2>2. CASE ~WatchUnhandles(n)
    BY <2>2 DEF WatchStep, WatchWakes, WatchReads, WatchMarks, WatchDeletes, WatcherApplies, VmExit
  <2> QED BY <2>1, <2>2
<1> QED
  BY <1>1, <1>2, <1>3, <1>4, OthersLive

LEMMA MainLive ==
    ASSUME DaemonInv, Custody, LiveInv, MainStep \/ Terminate \/ Crash
    PROVE  LiveInv'
<1>1. CASE Exit \/ Crash
  <2>1. req' = [w \in Workers |-> Idle] /\ DOMAIN vms' = {}
    BY <1>1 DEF Exit, Crash, Gone, NoRows
  <2>2. \A w \in Workers : req'[w].pc = "idle" /\ req'[w].op = "none"
    BY <2>1 DEF Idle
  <2> QED BY <2>1, <2>2 DEF LiveInv, HeldRows, Boots, Handles, Listed, Holds,
             MachinePcs, LoopPcs, LiveVmKeepsAddress
<1>2. ASSUME NEW m \in Machines, ReconcileOne(m)
      PROVE  LiveInv'
  <2>1. /\ req' = req /\ \A w \in Workers : req[w].pc = "idle"
        /\ m \in DOMAIN machines
    BY <1>2 DEF ReconcileOne, ReconcileVisit, DaemonInv, Phases
  <2>2. HeldRows' /\ Boots' /\ Listed'
    BY <2>1 DEF LiveInv, HeldRows, Boots, Listed, Holds, MachinePcs, LoopPcs
  <2>3. /\ DOMAIN vms' = DOMAIN vms \cup {m}
        /\ \A n \in DOMAIN vms : n # m => vms'[n] = vms[n]
        /\ vms'[m].ip = machines[m].ip
    BY <1>2 DEF ReconcileOne, Boot, Put
  <2>4. handles' = handles \cup {m} /\ SetMachineState(m, "running", epoch)
    BY <1>2 DEF ReconcileOne
  <2>5. Handles'
    BY <2>1, <2>3, <2>4 DEF LiveInv, Handles, Live
  <2>6. DOMAIN machines' = DOMAIN machines /\ \A n \in DOMAIN machines : machines'[n].ip = machines[n].ip
    BY <2>4, StateEffect
  <2>7. LiveVmKeepsAddress'
    BY <2>1, <2>3, <2>6 DEF LiveInv, LiveVmKeepsAddress
  <2> QED BY <2>2, <2>5, <2>7 DEF LiveInv
<1>3. ASSUME NEW m \in Machines, ReconcileFails(m)
      PROVE  LiveInv'
  <2>1. UNCHANGED <<req, nextMachine, vms, handles>>
    BY <1>3 DEF ReconcileFails, ReconcileVisit, bounds
  <2>2. \A n \in DOMAIN machines : n \in DOMAIN machines' /\ machines'[n].ip = machines[n].ip
    BY <1>3, StateEffect DEF ReconcileFails
  <2> QED BY <2>1, <2>2, FewerVms, OthersLive
<1>4. ASSUME NEW m \in Machines, StopOne(m)
      PROVE  LiveInv'
  <2>1. UNCHANGED <<req, nextMachine, machines>> /\ vms' = Drop(vms, {m}) /\ handles' = handles \ {m}
    BY <1>4 DEF StopOne, storeVars, bounds
  <2>2. VmsLess /\ m \notin DOMAIN vms'
    BY <2>1, FewerVms DEF Drop
  <2> QED BY <2>1, <2>2, OthersLive
<1>5. CASE UNCHANGED <<req, nextMachine, machines, vms, handles>>
  BY <1>5, FewerVms, OthersLive
<1>6. ASSUME NEW m \in Machines, ReconcileSubnet(m)
      PROVE  LiveInv'
  BY <1>5, <1>6 DEF ReconcileSubnet, SubnetForOwner, bounds
<1>7. CASE MainApplies
  <2>1. UNCHANGED machines
    BY <1>7 DEF MainApplies, ApplyRead, ApplyWrite, ApplyFails, ApplyRestart, storeVars
  <2> QED BY <1>5, <1>7, <2>1 DEF MainApplies, bounds
<1>8. CASE Start \/ Reconciled \/ Terminate
  BY <1>5, <1>8 DEF Start, Reconciled, Terminate, deployerVars, storeVars, bounds
<1> QED
  BY <1>1, <1>2, <1>3, <1>4, <1>6, <1>7, <1>8 DEF MainStep

LEMMA LiveStarts ==
    ASSUME Init
    PROVE  LiveInv
<1>1. req = [w \in Workers |-> Idle] /\ DOMAIN vms = {}
  BY DEF Init, DeployerInit, NoRows
<1>2. \A w \in Workers : req[w].pc = "idle" /\ req[w].op = "none"
  BY <1>1 DEF Idle
<1> QED
  BY <1>1, <1>2 DEF LiveInv, HeldRows, Boots, Handles, Listed, Holds, MachinePcs, LoopPcs,
     LiveVmKeepsAddress

LEMMA LiveKept ==
    ASSUME DestroysAlone, DaemonInv, Custody, LiveInv, [Next]_vars
    PROVE  LiveInv'
<1>1. CASE DeployerStep
  BY <1>1, WorkerLive, WatcherLive DEF DeployerStep
<1>2. CASE UNCHANGED vars
  <2>1. UNCHANGED <<req, nextMachine, machines, vms, handles>>
    BY <1>2 DEF vars, deployerVars, bounds, storeVars
  <2> QED BY <2>1, FewerVms, OthersLive
<1> QED
  BY <1>1, <1>2, MainLive DEF Next

\* As long as no app is destroyed while another request is about it, a VM that
\* has not been told to stop has its row, with its address, however deploys,
\* restarts and scalings of the app overlap, fail, are cancelled or are cut short
\* by the end of the daemon: no address in use can be allocated again.
THEOREM AddressesStayWithLiveVms == Spec /\ []DestroysAlone => []LiveVmKeepsAddress
<1>1. Spec /\ []DestroysAlone => []LiveInv
  BY LiveStarts, LiveKept, CustodyInvariant, PTL DEF Spec
<1>2. LiveInv => LiveVmKeepsAddress
  BY DEF LiveInv
<1> QED
  BY <1>1, <1>2, PTL

-----------------------------------------------------------------------------
(* The first run of the daemon: nothing has been interrupted yet.          *)

FirstRun == epoch = 1 /\ phase = "up"

\* A run that reconciles is a later one.
Early == phase \in {"reconcile", "ingress"} => epoch # 1

\* The request w, which has booted the machine keep, has still to take other away.
Clears(w, keep, other) ==
    /\ req[w].id = keep /\ req[w].app = machines[other].app
    /\ \/ req[w].pc = "list"
       \/ req[w].pc \in {"stop", "delete"} /\ other \in req[w].todo
       \/ req[w].pc = "unhandle" /\ other \in req[w].todo \ {Current(w)}

Contested ==
    FirstRun =>
        \A m, n \in RunningMachines : m # n /\ machines[m].app = machines[n].app =>
            \E w \in Workers : Clears(w, m, n) \/ Clears(w, n, m)

\* Every row has somebody who will delete it when its machine is gone.
Claimed ==
    FirstRun =>
        \A m \in DOMAIN machines :
            \/ \E w \in Workers : Holds(w) /\ req[w].id = m
            \/ m \in DOMAIN watch /\ watch[m] # "tunnel"

LEMMA LoopLeaves ==
    ASSUME NEW w \in Workers, Issue(w) \/ WorkerStep(w) \/ CommandEnds(w)
    PROVE  /\ At(w, "list") => ListMachines(w)
           /\ At(w, "stop") => StopListed(w)
           /\ At(w, "delete") => DeleteListed(w)
           /\ At(w, "unhandle") => UnhandleListed(w)
<1>1. CASE PrepareStep(w) \/ DestroyStep(w)
  BY <1>1 DEF At, PrepareStep, StoreConfig, CacheConfig, ReadConfig, RecacheConfig, BuildRootfs,
     RecordRelease, FindRelease, DestroyStep, DestroyReleases, DestroySecrets, DestroyVolumes,
     DestroyApp, DestroyCached, DestroyFiles
<1>2. CASE BootStep(w) \/ CommandEnds(w)
  BY <1>2 DEF At, BootStep, ResolveVolumes, ReadOwner, FindSubnet, InsertMachine, StartMachine,
     StartFails, PrepareFails, StopCommandVm, SetHandle, DeleteCommandRow, AwaitHealthy,
     StopNew, UnhandleNew, MarkFailed, DeleteNew, MarkRunning, CommandEnds
<1>3. CASE CutoverStep(w)
  BY <1>3 DEF At, CutoverStep, ListMachines, StopListed, DeleteListed, UnhandleListed, EmitOk,
     WorkerApplies, WorkerInTunnel, RecordOwner
<1>4. CASE Issue(w) \/ ChangeSecret(w) \/ MakeVolume(w) \/ InsertVolume(w)
  BY <1>4 DEF At, Issue, ChangeSecret, MakeVolume, InsertVolume
<1> QED
  BY <1>1, <1>2, <1>3, <1>4 DEF WorkerStep

\* The step that brings a machine to running, and what the others leave.
LEMMA WorkerRunning ==
    ASSUME DaemonInv, NEW w \in Workers, Issue(w) \/ WorkerStep(w) \/ CommandEnds(w),
           NEW m \in RunningMachines'
    PROVE  /\ m \in DOMAIN machines /\ machines'[m].app = machines[m].app
           /\ \/ m \in RunningMachines
              \/ /\ MarkRunning(w) /\ m = req[w].id /\ req'[w].pc = "list"
                 /\ req'[w].id = m /\ req'[w].app = req[w].app
<1>1. m \in DOMAIN machines' /\ machines'[m].state = "running"
  BY DEF RunningMachines
<1>2. CASE m \in DOMAIN machines /\ machines'[m] = machines[m]
  BY <1>1, <1>2 DEF RunningMachines
<1>3. CASE InsertMachine(w)
  <2>1. CASE Finish(w)
    BY <1>1, <1>2, <1>3, <2>1, InsertRefused DEF storeVars
  <2>2. CASE ~Finish(w)
    BY <1>1, <1>2, <1>3, <2>2, InsertEffect
  <2> QED BY <2>1, <2>2
<1>4. CASE MarkFailed(w)
  <2>1. machines' = machines \/ SetMachineState(req[w].id, "failed", 0)
    BY <1>4 DEF MarkFailed, storeVars
  <2> QED BY <1>1, <1>2, <2>1, StateEffect
<1>5. CASE MarkRunning(w)
  <2>1. CASE SetMachineState(req[w].id, "running", epoch) /\ Goto(w, "list")
    <3>1. /\ req'[w].pc = "list" /\ req'[w].id = req[w].id /\ req'[w].app = req[w].app
      BY <2>1, GotoEffect DEF DaemonInv, Locals
    <3>2. /\ m \in DOMAIN machines /\ machines'[m].app = machines[m].app
          /\ m # req[w].id => machines'[m] = machines[m]
      BY <1>1, <2>1, StateEffect
    <3> QED BY <1>1, <1>2, <1>5, <3>1, <3>2
  <2>2. CASE UNCHANGED storeVars
    BY <1>1, <1>2, <2>2 DEF storeVars
  <2> QED BY <1>5, <2>1, <2>2 DEF MarkRunning
<1>6. CASE RowsLess
  BY <1>1, <1>2, <1>6 DEF RowsLess
<1> QED
  BY <1>3, <1>4, <1>5, <1>6, WorkerFrame

\* The work of w goes on.
LEMMA ClearsOn ==
    ASSUME DaemonInv, NEW w \in Workers, Issue(w) \/ WorkerStep(w) \/ CommandEnds(w),
           NEW x \in Workers, NEW m \in RunningMachines, NEW n \in RunningMachines, m # n,
           n \in RunningMachines', machines'[n].app = machines[n].app, Clears(x, m, n)
    PROVE  Clears(x, m, n)'
<1>1. OwnStep(w) /\ req \in [Workers -> ReqType]
  BY WorkerMoves DEF DaemonInv, Locals
<1>2. CASE x # w
  <2>1. req'[x] = req[x]
    BY <1>1, <1>2 DEF OwnStep
  <2> QED BY <2>1 DEF Clears, Current
<1>3. CASE x = w /\ At(w, "list")
  <2>1. ListMachines(w)
    BY <1>3, LoopLeaves
  <2> DEFINE S == Doomed(req[w])
  <2>2. n \in S
    BY <1>3 DEF Clears, Doomed, MachinesForApp, RunningMachines
  <2> HIDE DEF S
  <2>3. req' = [req EXCEPT ![w].todo = S, ![w].pc = LoopPc(req[w].op, S)]
    BY <2>1 DEF ListMachines, S
  <2>4. LoopPc(req[w].op, S) = "stop"
    BY <2>2 DEF LoopPc
  <2>5. req' = [req EXCEPT ![w].todo = S, ![w].pc = "stop"]
    BY <2>3, <2>4
  <2>6. req'[w].todo = S /\ req'[w].pc = "stop" /\ req'[w].id = req[w].id /\ req'[w].app = req[w].app
    BY <1>1, <2>5 DEF ReqType
  <2> QED BY <1>3, <2>2, <2>6 DEF Clears
<1>4. CASE x = w /\ At(w, "stop")
  <2>1. Goto(w, "delete")
    BY <1>4, LoopLeaves DEF StopListed
  <2>2. req'[w].todo = req[w].todo /\ req'[w].pc = "delete" /\ req'[w].id = req[w].id /\ req'[w].app = req[w].app
    BY <1>1, <2>1, GotoEffect
  <2> QED BY <1>4, <2>2 DEF Clears, At
<1>5. CASE x = w /\ At(w, "delete")
  <2>1. DeleteListed(w)
    BY <1>5, LoopLeaves
  <2>2. req'[w].todo = req[w].todo /\ req'[w].pc = "unhandle" /\ req'[w].id = req[w].id /\ req'[w].app = req[w].app
    BY <1>1, <2>1, GotoEffect DEF DeleteListed
  <2>3. n # Current(w)
    BY <2>1 DEF DeleteListed, DeleteMachine, Drop, RunningMachines
  <2>4. n \in req'[w].todo \ {Greatest(req'[w].todo)}
    BY <1>5, <2>2, <2>3 DEF Clears, At, Current
  <2> QED BY <1>5, <2>2, <2>4 DEF Clears, Current
<1>6. CASE x = w /\ At(w, "unhandle")
  <2>1. UnhandleListed(w)
    BY <1>6, LoopLeaves
  <2> DEFINE S == req[w].todo \ {Current(w)}
  <2>2. n \in S
    BY <1>6 DEF Clears, At
  <2> HIDE DEF S
  <2>3. req' = [req EXCEPT ![w].todo = S, ![w].pc = LoopPc(req[w].op, S)]
    BY <2>1 DEF UnhandleListed, S
  <2>4. LoopPc(req[w].op, S) = "stop"
    BY <2>2 DEF LoopPc
  <2>5. req' = [req EXCEPT ![w].todo = S, ![w].pc = "stop"]
    BY <2>3, <2>4
  <2>6. req'[w].todo = S /\ req'[w].pc = "stop" /\ req'[w].id = req[w].id /\ req'[w].app = req[w].app
    BY <1>1, <2>5 DEF ReqType
  <2> QED BY <1>6, <2>2, <2>6 DEF Clears
<1> QED
  BY <1>2, <1>3, <1>4, <1>5, <1>6 DEF Clears, At

LEMMA WorkerContested ==
    ASSUME DaemonInv, Custody, Undisturbed, Contested, NEW w \in Workers,
           Issue(w) \/ WorkerStep(w) \/ CommandEnds(w)
    PROVE  Contested'
<1> SUFFICES ASSUME FirstRun, NEW m \in RunningMachines', NEW n \in RunningMachines', m # n,
                    machines'[m].app = machines'[n].app
             PROVE  \E x \in Workers : Clears(x, m, n)' \/ Clears(x, n, m)'
  BY DEF Contested, FirstRun, Undisturbed
<1>1. /\ m \in DOMAIN machines /\ machines'[m].app = machines[m].app
      /\ n \in DOMAIN machines /\ machines'[n].app = machines[n].app
  BY WorkerRunning
\* Whoever has just become running clears the other.
<1>2. ASSUME NEW k \in RunningMachines', NEW o \in RunningMachines', k \notin RunningMachines,
             machines'[k].app = machines'[o].app
      PROVE  Clears(w, k, o)'
  <2>1. /\ MarkRunning(w) /\ k = req[w].id /\ req'[w].pc = "list"
        /\ req'[w].id = k /\ req'[w].app = req[w].app
        /\ k \in DOMAIN machines /\ machines'[k].app = machines[k].app
    BY <1>2, WorkerRunning
  <2>2. Holds(w)
    BY <2>1 DEF MarkRunning, At, Holds, MachinePcs
  <2>3. machines[k].app = req[w].app
    BY <2>1, <2>2 DEF Custody, Private
  <2> QED BY <1>2, <2>1, <2>3 DEF Clears
<1>3. CASE m \in RunningMachines /\ n \in RunningMachines
  <2>1. PICK x \in Workers : Clears(x, m, n) \/ Clears(x, n, m)
    BY <1>1, <1>3 DEF Contested
  <2> QED BY <1>1, <1>3, <2>1, ClearsOn
<1> QED
  BY <1>2, <1>3

\* A watcher only takes rows out of running.
LEMMA WatcherContested ==
    ASSUME DaemonInv, Custody, Undisturbed, Contested, NEW k \in Machines, WatchStep(k) \/ VmExit(k)
    PROVE  Contested'
<1>1. req' = req
  BY DEF WatchStep, WatchWakes, WatchReads, WatchMarks, WatchUnhandles, WatchDeletes,
     WatcherApplies, VmExit
<1>2. ASSUME NEW m \in RunningMachines'
      PROVE  m \in RunningMachines /\ machines'[m].app = machines[m].app
  <2>1. CASE WatchMarks(k)
    <3>1. machines' = machines \/ SetMachineState(k, "stopped", 0)
      BY <2>1 DEF WatchMarks, storeVars
    <3> QED BY <1>2, <3>1, StateEffect DEF RunningMachines
  <2>2. CASE WatchDeletes(k)
    BY <1>2, <2>2 DEF WatchDeletes, DeleteMachine, Drop, RunningMachines
  <2>3. CASE WatchWakes(k) \/ WatchReads(k) \/ WatchUnhandles(k) \/ WatcherApplies(k) \/ VmExit(k)
    <3>1. machines' = machines
      BY <2>3 DEF WatchWakes, WatchReads, WatchUnhandles, WatcherApplies, VmExit, ApplyRead,
         ApplyWrite, ApplyFails, ApplyRestart, storeVars
    <3> QED BY <1>2, <3>1 DEF RunningMachines
  <2> QED BY <2>1, <2>2, <2>3 DEF WatchStep
<1> SUFFICES ASSUME FirstRun, NEW m \in RunningMachines', NEW n \in RunningMachines', m # n,
                    machines'[m].app = machines'[n].app
             PROVE  \E x \in Workers : Clears(x, m, n)' \/ Clears(x, n, m)'
  BY DEF Contested, FirstRun, Undisturbed
<1>3. PICK x \in Workers : Clears(x, m, n) \/ Clears(x, n, m)
  BY <1>2 DEF Contested
<1>4. Clears(x, m, n) => Clears(x, m, n)'
  BY <1>1, <1>2 DEF Clears, Current
<1>5. Clears(x, n, m) => Clears(x, n, m)'
  BY <1>1, <1>2 DEF Clears, Current
<1> QED
  BY <1>3, <1>4, <1>5

\* How a request lets go of the machine it holds.
LEMMA HoldsLeave ==
    ASSUME DaemonInv, NEW w \in Workers, Holds(w), Issue(w) \/ WorkerStep(w) \/ CommandEnds(w)
    PROVE  \/ req'[w].pc \in MachinePcs /\ req'[w].id = req[w].id
           \/ MarkRunning(w) \/ DeleteNew(w) \/ DeleteCommandRow(w)
           \/ PrepareFails(w)
<1> DEFINE Goal == \/ req'[w].pc \in MachinePcs /\ req'[w].id = req[w].id
                   \/ MarkRunning(w) \/ DeleteNew(w) \/ DeleteCommandRow(w)
                   \/ PrepareFails(w)
<1>1. req \in [Workers -> ReqType]
  BY DEF DaemonInv, Locals
<1>2. ASSUME NEW p, Goto(w, p), p \in MachinePcs PROVE Goal
  BY <1>1, <1>2, GotoEffect
<1>3. ASSUME NEW p, NEW c, req' = [req EXCEPT ![w].command = c, ![w].pc = p], p \in MachinePcs
      PROVE  Goal
  BY <1>1, <1>3, CommandChange
<1>4. CASE StartMachine(w) \/ StopCommandVm(w) \/ SetHandle(w) \/ AwaitHealthy(w)
           \/ StopNew(w) \/ UnhandleNew(w) \/ MarkFailed(w)
  <2>1. \E p \in MachinePcs : Goto(w, p)
    BY <1>4 DEF StartMachine, StopCommandVm, SetHandle, AwaitHealthy, StopNew, UnhandleNew,
       MarkFailed, MachinePcs
  <2> HIDE DEF Goal
  <2> QED BY <1>2, <2>1 DEF Goal
<1>5. CASE StartFails(w)
  <2>1. \/ req' = [req EXCEPT ![w].command = "failed", ![w].pc = "unclaim"]
        \/ Goto(w, "failed")
    BY <1>5 DEF StartFails, Goto
  <2>2. "unclaim" \in MachinePcs /\ "failed" \in MachinePcs
    BY DEF MachinePcs
  <2> HIDE DEF Goal
  <2> QED BY <1>2, <1>3, <2>1, <2>2 DEF Goal
<1>6. CASE CommandEnds(w)
  <2>1. PICK c : req' = [req EXCEPT ![w].command = c, ![w].pc = "stopvm"]
    BY <1>6 DEF CommandEnds
  <2>2. "stopvm" \in MachinePcs
    BY DEF MachinePcs
  <2> HIDE DEF Goal
  <2> QED BY <1>3, <2>1, <2>2 DEF Goal
<1>7. CASE PrepareStep(w) \/ DestroyStep(w)
  BY <1>7 DEF Holds, MachinePcs, At, PrepareStep, StoreConfig, CacheConfig, ReadConfig,
     RecacheConfig, BuildRootfs, RecordRelease, FindRelease, DestroyStep, DestroyReleases,
     DestroySecrets, DestroyVolumes, DestroyApp, DestroyCached, DestroyFiles
<1>8. CASE ResolveVolumes(w) \/ ReadOwner(w) \/ FindSubnet(w) \/ InsertMachine(w)
  BY <1>8 DEF Holds, MachinePcs, At, ResolveVolumes, ReadOwner, FindSubnet, InsertMachine
<1>9. CASE CutoverStep(w)
  BY <1>9 DEF Holds, MachinePcs, At, CutoverStep, ListMachines, StopListed, DeleteListed,
     UnhandleListed, EmitOk, WorkerApplies, WorkerInTunnel, RecordOwner
<1>10. CASE Issue(w) \/ ChangeSecret(w) \/ MakeVolume(w) \/ InsertVolume(w)
  BY <1>10 DEF Holds, MachinePcs, At, Issue, ChangeSecret, MakeVolume, InsertVolume
<1> QED
  BY <1>4, <1>5, <1>6, <1>7, <1>8, <1>9, <1>10 DEF WorkerStep, BootStep

\* Where nothing fails between the insert of a row and Start.
LEMMA WorkerClaimed ==
    ASSUME "prepare" \notin Faults, DaemonInv, Custody, Undisturbed, Claimed, NEW w \in Workers,
           Issue(w) \/ WorkerStep(w) \/ CommandEnds(w)
    PROVE  Claimed'
<1> SUFFICES ASSUME FirstRun, NEW m \in DOMAIN machines'
             PROVE  \/ \E x \in Workers : req'[x].pc \in MachinePcs /\ req'[x].id = m
                    \/ m \in DOMAIN watch' /\ watch'[m] # "tunnel"
  BY DEF Claimed, FirstRun, Undisturbed, Holds
<1>1. CASE InsertMachine(w) /\ ~Finish(w) /\ m = nextMachine
  BY <1>1, InsertEffect DEF MachinePcs
<1>2. m \in DOMAIN machines \/ (InsertMachine(w) /\ ~Finish(w) /\ m = nextMachine)
  <2>1. CASE ~InsertMachine(w)
    BY <2>1, NoNewRows
  <2>2. CASE InsertMachine(w) /\ Finish(w)
    BY <2>2, InsertRefused DEF storeVars
  <2> QED BY <2>1, <2>2, InsertEffect
<1>3. CASE m \in DOMAIN machines
  <2>1. CASE m \in DOMAIN watch /\ watch[m] # "tunnel"
    <3>1. CASE watch' = watch
      BY <2>1, <3>1
    <3>2. CASE MarkRunning(w)
      BY <2>1, <3>2 DEF MarkRunning, Put
    <3> QED BY <3>1, <3>2, WorkerFrame
  <2>2. ASSUME NEW x \in Workers, Holds(x), req[x].id = m, x # w
        PROVE  req'[x].pc \in MachinePcs /\ req'[x].id = m
    BY <2>2, WorkerMoves DEF OwnStep, Holds
  <2>3. CASE Holds(w) /\ req[w].id = m
    <3>1. CASE MarkRunning(w)
      BY <1>3, <2>3, <3>1 DEF MarkRunning, Put
    <3>2. ~DeleteNew(w) /\ ~DeleteCommandRow(w)
      BY <2>3 DEF DeleteNew, DeleteCommandRow, DeleteMachine, Drop
    <3>3. ~PrepareFails(w)
      BY DEF PrepareFails
    <3> QED BY <2>3, <3>1, <3>2, <3>3, HoldsLeave
  <2> QED BY <1>3, <2>1, <2>2, <2>3 DEF Claimed
<1> QED
  BY <1>1, <1>2, <1>3

LEMMA WatcherClaimed ==
    ASSUME DaemonInv, Custody, Undisturbed, Claimed, NEW k \in Machines, WatchStep(k) \/ VmExit(k)
    PROVE  Claimed'
<1>1. req' = req
  BY DEF WatchStep, WatchWakes, WatchReads, WatchMarks, WatchUnhandles, WatchDeletes,
     WatcherApplies, VmExit
<1> SUFFICES ASSUME FirstRun, NEW m \in DOMAIN machines'
             PROVE  \/ \E x \in Workers : Holds(x) /\ req[x].id = m
                    \/ m \in DOMAIN watch' /\ watch'[m] # "tunnel"
  BY <1>1 DEF Claimed, FirstRun, Undisturbed, Holds
<1>2. m \in DOMAIN machines
  BY DEF WatchStep, WatchWakes, WatchReads, WatchMarks, WatchUnhandles, WatchDeletes,
     WatcherApplies, VmExit, ApplyRead, ApplyWrite, ApplyFails, ApplyRestart, storeVars,
     SetMachineState, DeleteMachine, Drop
<1>3. CASE m \in DOMAIN watch /\ watch[m] # "tunnel"
  <2>1. ASSUME NEW p, NEW q, Advance(k, p, q), q # "tunnel" \/ m # k
        PROVE  m \in DOMAIN watch' /\ watch'[m] # "tunnel"
    BY <1>3, <2>1 DEF Advance
  <2>2. CASE WatchWakes(k)
    <3>1. ~shuttingDown
      BY DEF FirstRun, Custody, Stopping
    <3> QED BY <2>1, <2>2, <3>1 DEF WatchWakes
  <2>3. CASE WatchReads(k)
    <3>1. CASE Advance(k, "read", "mark")
      BY <2>1, <3>1
    <3>2. CASE Unwatch(k) /\ ~(k \in DOMAIN machines /\ machines[k].state = "running"
                               /\ machines[k].pid = epoch)
      <4>1. m # k
        BY <1>2, <1>3, <2>3, <3>2 DEF WatchReads, Custody, Minded, Minding
      <4> QED BY <1>3, <3>2, <4>1 DEF Unwatch, Drop
    <3> QED BY <2>3, <3>1, <3>2 DEF WatchReads
  <2>4. CASE WatchMarks(k) \/ WatchUnhandles(k)
    BY <2>1, <2>4 DEF WatchMarks, WatchUnhandles
  <2>5. CASE WatchDeletes(k)
    <3>1. m # k
      BY <2>5 DEF WatchDeletes, DeleteMachine, Drop
    <3> QED BY <2>1, <2>5, <3>1 DEF WatchDeletes
  <2>6. CASE WatcherApplies(k)
    <3>1. m # k
      BY <1>3, <2>6 DEF WatcherApplies, WatcherInTunnel
    <3> QED BY <1>3, <2>6, <3>1 DEF WatcherApplies, Unwatch, Drop
  <2>7. CASE VmExit(k)
    BY <1>3, <2>7 DEF VmExit
  <2> QED BY <2>2, <2>3, <2>4, <2>5, <2>6, <2>7 DEF WatchStep
<1> QED
  BY <1>2, <1>3 DEF Claimed

\* The first run comes from nowhere but Init.
LEMMA MainEarly ==
    ASSUME DaemonInv, Early, MainStep \/ Terminate \/ Crash
    PROVE  Early' /\ ~FirstRun'
<1>1. epoch \in Nat /\ epoch >= 1
  BY OakdAssumption DEF DaemonInv, Phases
<1>2. CASE Start
  <2>1. phase' = "reconcile" /\ epoch' = epoch + 1
    BY <1>2 DEF Start
  <2>2. epoch' # 1
    BY <1>1, <2>1
  <2> QED BY <2>1, <2>2 DEF Early, FirstRun
<1>3. ASSUME NEW m \in Machines,
             ReconcileSubnet(m) \/ ReconcileOne(m) \/ ReconcileFails(m) \/ StopOne(m)
      PROVE  phase' = phase /\ epoch' = epoch /\ phase \in {"reconcile", "stopping"}
  BY <1>3 DEF ReconcileSubnet, ReconcileOne, ReconcileFails, ReconcileVisit, StopOne, oakdVars
<1>4. CASE Reconciled
  BY <1>4 DEF Reconciled, deployerVars, Early, FirstRun
<1>5. CASE MainApplies
  BY <1>5 DEF MainApplies, Early, FirstRun
<1>6. CASE Terminate \/ Exit \/ Crash
  BY <1>6 DEF Terminate, Exit, Crash, Gone, Early, FirstRun
<1>7. ASSUME phase' = phase, epoch' = epoch, phase \in {"reconcile", "stopping"}
      PROVE  Early' /\ ~FirstRun'
  BY <1>7 DEF Early, FirstRun
<1> QED
  BY <1>2, <1>3, <1>4, <1>5, <1>6, <1>7 DEF MainStep

\* In a run that no earlier one has left anything to, however many deploys,
\* restarts and scalings of an app overlap with each other, with a destroy and
\* with machines that die, once they are over at most one machine of the app is
\* running: of two that are, one was marked last, and whoever marked it has yet
\* to list the other, or has it on its list.
THEOREM CutoversLeaveOneMachine == Spec => [](epoch = 1 => AtMostOneServing)
<1> DEFINE I == Early /\ Contested
<1>1. Init => I
  <2> SUFFICES ASSUME Init PROVE I
    OBVIOUS
  <2>1. phase = "up" /\ RunningMachines = {}
    BY DEF Init, DeployerInit, StoreInit, NoRows, RunningMachines
  <2> QED BY <2>1 DEF Early, Contested
<1>2. ASSUME DaemonInv, Custody, I, [Next]_vars
      PROVE  I'
  <2>1. CASE DeployerStep
    <3>1. Undisturbed
      BY <2>1 DEF DeployerStep, Undisturbed, oakdVars
    <3>2. Early'
      BY <1>2, <3>1 DEF Early, Undisturbed
    <3> QED BY <1>2, <2>1, <3>1, <3>2, WorkerContested, WatcherContested DEF DeployerStep
  <2>2. CASE UNCHANGED vars
    <3>1. /\ phase' = phase /\ epoch' = epoch /\ machines' = machines /\ req' = req
      BY <2>2 DEF vars, deployerVars, oakdVars, storeVars
    <3> QED BY <1>2, <3>1 DEF Early, Contested, FirstRun, RunningMachines, Clears, Current
  <2>3. CASE MainStep \/ Terminate \/ Crash
    BY <1>2, <2>3, MainEarly DEF Contested
  <2> QED BY <1>2, <2>1, <2>2, <2>3 DEF Next
<1>3. I => (epoch = 1 => AtMostOneServing)
  BY DEF Contested, FirstRun, AtMostOneServing, Quiet, Clears, At
<1> HIDE DEF I
<1> QED
  BY <1>1, <1>2, <1>3, CustodyInvariant, PTL DEF Spec

\* In such a run, and where nothing fails between the insert of a row and Start,
\* no row outlives its machine: when nothing is going on, every machine in the
\* store, and every address it holds, belongs to a VM that runs.
THEOREM RowsDieWithTheirMachines ==
    ASSUME "prepare" \notin Faults
    PROVE  Spec => [](epoch = 1 => RowsAreAlive)
<1> DEFINE I == Early /\ Claimed
<1>1. Init => I
  <2> SUFFICES ASSUME Init PROVE I
    OBVIOUS
  <2>1. phase = "up" /\ DOMAIN machines = {}
    BY DEF Init, DeployerInit, StoreInit, NoRows
  <2> QED BY <2>1 DEF Early, Claimed
<1>2. ASSUME DaemonInv, Custody, I, [Next]_vars
      PROVE  I'
  <2>1. CASE DeployerStep
    <3>1. Undisturbed
      BY <2>1 DEF DeployerStep, Undisturbed, oakdVars
    <3>2. Early'
      BY <1>2, <3>1 DEF Early, Undisturbed
    <3> QED BY <1>2, <2>1, <3>1, <3>2, WorkerClaimed, WatcherClaimed DEF DeployerStep
  <2>2. CASE UNCHANGED vars
    <3>1. /\ phase' = phase /\ epoch' = epoch /\ machines' = machines /\ req' = req /\ watch' = watch
      BY <2>2 DEF vars, deployerVars, oakdVars, storeVars
    <3> QED BY <1>2, <3>1 DEF Early, Claimed, FirstRun, Holds
  <2>3. CASE MainStep \/ Terminate \/ Crash
    BY <1>2, <2>3, MainEarly DEF Claimed
  <2> QED BY <1>2, <2>1, <2>2, <2>3 DEF Next
<1>3. I => (epoch = 1 => RowsAreAlive)
  BY DEF Claimed, FirstRun, RowsAreAlive, Quiet, At, Holds, MachinePcs
<1> HIDE DEF I
<1> QED
  BY <1>1, <1>2, <1>3, CustodyInvariant, PTL DEF Spec

=============================================================================
