----------------------------- MODULE Oakd_proofs -----------------------------
(***************************************************************************)
(* The daemon and its requests, for any number of workers, machines, apps  *)
(* and runs of the daemon.                                                 *)
(*                                                                         *)
(* Two things are shown together because each needs the other: every step  *)
(* uses the store the way StoreSpec's clients do, so that the store's      *)
(* guarantees are the daemon's; and every local variable a handler carries *)
(* from one call to the next is what the later call needs (Need), although *)
(* the rows it was read from may be gone by then.                          *)
(***************************************************************************)
EXTENDS OakdProperties, OakStore_proofs

ReqType ==
    [op : AllOps \cup {"none"}, pc : Pcs, app : Apps \cup {Nil}, cfg : Configs \cup {Nil},
     owner : Owners \cup {Nil}, tenant : Owners \cup {Nil}, release : 0..MaxRelease,
     image : Images \cup {0}, id : Machines \cup {0}, idx : 0..SubnetMax,
     ip : Addresses \cup {<<0, 0>>}, todo : SUBSET (Machines \cup VolNames),
     command : {"none", "run", "ok", "failed"}]

VmType ==
    [app : Apps, image : Images \cup {0}, ip : Addresses, bridge : 0..SubnetMax,
     port : Nat, mounts : SUBSET VolNames, dying : BOOLEAN]

WatchPcs == {"wait", "read", "mark", "unhandle", "delete", "tunnel"}

\* Where a request needs the config, the release and the machine it has got.
ReleasePcs == {"volumes", "owner", "subnet", "alloc", "start", "wait", "stopvm", "unclaim"}
ConfigPcs == ReleasePcs \cup
    {"upsert", "cache", "recache", "build", "insert", "latest", "handle", "health"}
MachinePcs == {"start", "wait", "stopvm", "unclaim", "handle", "health", "stopnew",
               "unhandlenew", "failed", "deletenew", "running"}
LoopPcs == {"stop", "delete", "unhandle"}

\* What a request r must have with it when it gets to pc, with the rows of
\* tenant_subnets and the next machine id being what they are.
Need(r, pc, rows, next) ==
    /\ pc # "idle" => r.app \in Apps
    /\ pc \in ConfigPcs => r.cfg \in Configs
    /\ r.op = "deploy" => r.owner \in Owners
    /\ pc = "setowner" => r.op = "deploy"
    /\ pc = "insert" => r.image \in Images
    /\ pc = "subnet" => r.tenant \in Owners
    /\ pc \in ReleasePcs => r.release \in 1..MaxRelease
    /\ pc = "alloc" => \E o \in DOMAIN rows : r.idx = rows[o]
    /\ pc \in MachinePcs => r.id \in Machines /\ r.id < next /\ r.ip \in Addresses
    /\ pc \in LoopPcs => r.todo # {} /\ r.todo \subseteq Machines \cap (0..next)
    /\ pc = "insertvolume" => r.todo \subseteq VolNames

Locals ==
    /\ req \in [Workers -> ReqType]
    /\ \A w \in Workers : Need(req[w], req[w].pc, subnets, nextMachine)

Caches == DOMAIN appConfigs \subseteq Apps /\ \A a \in DOMAIN appConfigs : appConfigs[a] \in Configs

\* The addresses of some apps, as ServingRows lists them.
Rows(f) == DOMAIN f \subseteq Apps /\ \A a \in DOMAIN f : f[a] \in Addresses

Routes(f) == DOMAIN f \subseteq Apps /\ \A a \in DOMAIN f : f[a].ip \in Addresses /\ f[a].port # 0

Ingress ==
    /\ tunnelMu \in {Nil, Main} \cup Workers \cup Machines
    /\ rendering[1] = "rows" => Rows(rendering[2])
    /\ Routes(disk) /\ Routes(live)

Processes ==
    /\ handles \subseteq Machines
    /\ DOMAIN vms \subseteq Machines /\ \A m \in DOMAIN vms : vms[m] \in VmType
    /\ DOMAIN watch \subseteq Machines /\ \A m \in DOMAIN watch : watch[m] \in WatchPcs

\* Ids are handed out in order.
Ids == nextMachine \in Nat /\ \A m \in DOMAIN machines : m < nextMachine

\* Requests are served from the end of the reconcile on; while it goes on, the
\* rows it has yet to visit stay, because their machines have no watcher.
Phases ==
    /\ phase \in {"reconcile", "ingress", "up", "stopping", "down"}
    /\ pending \subseteq Machines /\ halted \subseteq Machines
    /\ epoch \in 1..MaxEpoch
    /\ phase \in {"reconcile", "ingress", "down"} => \A w \in Workers : req[w].pc = "idle"
    /\ phase = "reconcile" => pending \subseteq DOMAIN machines /\ pending \cap DOMAIN watch = {}
    /\ phase = "down" => watch = NoRows

DaemonInv == StoreInv /\ Locals /\ Caches /\ Ingress /\ Processes /\ Ids /\ Phases

StoreStep == [StoreNext]_storeVars

-----------------------------------------------------------------------------
(* What a step of one worker has to show about its locals.                 *)

LEMMA StoreStepGrows ==
    ASSUME StoreStep
    PROVE  \A o \in DOMAIN subnets : o \in DOMAIN subnets' /\ subnets'[o] = subnets[o]
  BY SubnetsOnlyGrow DEF StoreStep, storeVars

\* What a request has with it stays good: subnets are never withdrawn and ids
\* never taken back.
LEMMA NeedLasts ==
    ASSUME NEW r, NEW p, Need(r, p, subnets, nextMachine), StoreStep,
           nextMachine \in Nat, nextMachine' \in Nat, nextMachine <= nextMachine'
    PROVE  Need(r, p, subnets', nextMachine')
<1>1. p = "alloc" => \E o \in DOMAIN subnets' : r.idx = subnets'[o]
  BY StoreStepGrows DEF Need
<1>2. p \in MachinePcs => r.id \in Machines /\ r.id < nextMachine'
  <2>1. Machines \subseteq Nat
    BY TunnelAssumption
  <2>2. p \in MachinePcs => r.id \in Machines /\ r.id < nextMachine
    BY DEF Need
  <2>3. \A i \in Nat : i < nextMachine => i < nextMachine'
    OBVIOUS
  <2> QED BY <2>1, <2>2, <2>3
<1>3. p \in LoopPcs => r.todo \subseteq Machines \cap (0..nextMachine')
  BY DEF Need
<1> QED
  BY <1>1, <1>2, <1>3 DEF Need

LEMMA LocalsKept ==
    ASSUME Locals, StoreStep, nextMachine \in Nat, nextMachine' \in Nat,
           nextMachine <= nextMachine', NEW w \in Workers, NEW r \in ReqType,
           Need(r, r.pc, subnets', nextMachine'), req' = [req EXCEPT ![w] = r]
    PROVE  Locals'
<1>1. req' \in [Workers -> ReqType]
  BY DEF Locals
<1>2. ASSUME NEW x \in Workers
      PROVE  Need(req'[x], req'[x].pc, subnets', nextMachine')
  <2>1. CASE x = w
    BY <2>1 DEF Locals
  <2>2. CASE x # w
    <3>1. req'[x] = req[x] /\ Need(req[x], req[x].pc, subnets, nextMachine)
      BY <2>2 DEF Locals
    <3> QED BY <3>1, NeedLasts
  <2> QED BY <2>1, <2>2
<1> QED
  BY <1>1, <1>2 DEF Locals

LEMMA IdleTyped == Idle \in ReqType /\ \A rows, next : Need(Idle, Idle.pc, rows, next)
<1>1. Idle \in ReqType
  BY StoreAssumption DEF Idle, ReqType, Pcs
<1>2. Idle.pc = "idle" /\ Idle.op = "none"
  BY DEF Idle
<1> QED
  BY <1>1, <1>2 DEF Need, ConfigPcs, ReleasePcs, MachinePcs, LoopPcs

\* A request whose locals change is given as the record r it becomes.
LEMMA BecomesKeeps ==
    ASSUME Locals, StoreStep, Ids, nextMachine' = nextMachine, NEW w \in Workers,
           NEW r \in ReqType, req' = [req EXCEPT ![w] = r], Need(r, r.pc, subnets, nextMachine)
    PROVE  Locals'
<1>1. nextMachine \in Nat /\ nextMachine' \in Nat /\ nextMachine <= nextMachine'
  BY DEF Ids
<1>2. Need(r, r.pc, subnets', nextMachine')
  BY <1>1, NeedLasts
<1> QED
  BY <1>1, <1>2, LocalsKept

\* Handlers that only move on, and handlers that return.
LEMMA GotoKeeps ==
    ASSUME Locals, StoreStep, Ids, nextMachine' = nextMachine, NEW w \in Workers,
           NEW p \in Pcs, Goto(w, p), Need(req[w], p, subnets, nextMachine)
    PROVE  Locals'
<1> DEFINE r == [req[w] EXCEPT !.pc = p]
<1>1. req[w] \in ReqType
  BY DEF Locals
<1>2. r \in ReqType /\ r.pc = p /\ req' = [req EXCEPT ![w] = r]
  BY <1>1 DEF ReqType, Goto, Locals
<1>3. /\ r.app = req[w].app /\ r.cfg = req[w].cfg /\ r.owner = req[w].owner
      /\ r.tenant = req[w].tenant /\ r.release = req[w].release /\ r.image = req[w].image
      /\ r.id = req[w].id /\ r.idx = req[w].idx /\ r.ip = req[w].ip
      /\ r.todo = req[w].todo /\ r.op = req[w].op
  BY <1>1 DEF ReqType
<1> HIDE DEF r
<1>4. Need(r, r.pc, subnets, nextMachine)
  BY <1>2, <1>3 DEF Need
<1> QED
  BY <1>2, <1>4, BecomesKeeps

LEMMA FinishKeeps ==
    ASSUME Locals, StoreStep, Ids, nextMachine' = nextMachine, NEW w \in Workers, Finish(w)
    PROVE  Locals'
<1>1. Idle \in ReqType /\ Need(Idle, Idle.pc, subnets, nextMachine)
  BY IdleTyped
<1>2. req' = [req EXCEPT ![w] = Idle]
  BY DEF Finish
<1> QED
  BY <1>1, <1>2, BecomesKeeps

LEMMA NoStoreCall ==
    ASSUME UNCHANGED storeVars
    PROVE  StoreStep
  BY DEF StoreStep

-----------------------------------------------------------------------------
(* The handlers, one action after the other.                               *)

LEMMA IssueKeeps ==
    ASSUME DaemonInv, NEW w \in Workers, Issue(w)
    PROVE  StoreStep /\ Locals'
<1> USE DEF DaemonInv
<1>1. StoreStep /\ nextMachine' = nextMachine
  BY NoStoreCall DEF Issue
<1>2. PICK op \in Ops, app \in Apps :
         \E cfg \in IF op = "deploy" THEN Configs ELSE {Nil},
            owner \in IF op = "deploy" THEN Owners ELSE {Nil} :
           req' = [req EXCEPT ![w] = [Idle EXCEPT !.op = op, !.app = app, !.cfg = cfg,
                                                  !.owner = owner, !.pc = FirstPc(op)]]
  BY DEF Issue
<1>3. PICK cfg \in Configs \cup {Nil}, owner \in Owners \cup {Nil} :
        /\ op = "deploy" => cfg \in Configs /\ owner \in Owners
        /\ req' = [req EXCEPT ![w] = [Idle EXCEPT !.op = op, !.app = app, !.cfg = cfg,
                                                  !.owner = owner, !.pc = FirstPc(op)]]
  BY <1>2
<1> DEFINE r == [Idle EXCEPT !.op = op, !.app = app, !.cfg = cfg, !.owner = owner,
                             !.pc = FirstPc(op)]
<1>4. op \in AllOps
  BY DeployerAssumption
<1>5. /\ FirstPc(op) \in {"upsert", "config", "list", "secret", "unsecret", "volume"}
      /\ FirstPc(op) = "upsert" => op = "deploy"
  BY <1>4 DEF FirstPc, AllOps
<1>6. r \in ReqType
  <2>1. FirstPc(op) \in Pcs
    BY <1>5 DEF Pcs
  <2>2. /\ Idle \in ReqType /\ op \in AllOps \cup {"none"} /\ app \in Apps \cup {Nil}
        /\ cfg \in Configs \cup {Nil} /\ owner \in Owners \cup {Nil}
    BY <1>4, IdleTyped
  <2> HIDE DEF DaemonInv
  <2> QED BY <2>1, <2>2 DEF ReqType
<1>7. r.op = op /\ r.app = app /\ r.cfg = cfg /\ r.owner = owner /\ r.pc = FirstPc(op)
  BY DEF Idle
<1>8. req' = [req EXCEPT ![w] = r]
  BY <1>3
<1> HIDE DEF r
<1>9. Need(r, r.pc, subnets, nextMachine)
  BY <1>3, <1>5, <1>7 DEF Need, ConfigPcs, ReleasePcs, MachinePcs, LoopPcs
<1> QED
  BY <1>1, <1>6, <1>8, <1>9, BecomesKeeps

\* Having what the call at q needs is having what each of the calls at Q needs.
Leads(q, Q) ==
    \A r, rows, next : Need(r, q, rows, next) => \A p \in Q : Need(r, p, rows, next)

\* A handler that goes from q to one of Q, or returns, with its locals as they
\* were.
LEMMA MovesKeep ==
    ASSUME DaemonInv, StoreStep, nextMachine' = nextMachine, NEW w \in Workers,
           NEW q, At(w, q), NEW Q \in SUBSET Pcs, Leads(q, Q),
           Finish(w) \/ \E p \in Q : Goto(w, p)
    PROVE  StoreStep /\ Locals'
<1>1. Locals /\ Ids
  BY DEF DaemonInv
<1>2. CASE Finish(w)
  BY <1>1, <1>2, FinishKeeps
<1>3. CASE \E p \in Q : Goto(w, p)
  <2>1. PICK p \in Q : Goto(w, p)
    BY <1>3
  <2>2. Need(req[w], q, subnets, nextMachine)
    BY <1>1 DEF Locals, At
  <2>3. p \in Pcs /\ Need(req[w], p, subnets, nextMachine)
    BY <2>2 DEF Leads
  <2> QED BY <1>1, <2>1, <2>3, GotoKeeps
<1> QED
  BY <1>2, <1>3

\* The moves handlers make.
LEMMA Moves ==
    /\ Leads("upsert", {"cache"}) /\ Leads("cache", {"build", "latest"})
    /\ Leads("recache", {"latest", "upsert"})
    /\ Leads("volumes", {"owner"}) /\ Leads("start", {"wait", "handle"})
    /\ Leads("stopvm", {"unclaim"}) /\ Leads("handle", {"health"})
    /\ Leads("health", {"running", "stopnew"}) /\ Leads("stopnew", {"unhandlenew"})
    /\ Leads("unhandlenew", {"failed"}) /\ Leads("failed", {"deletenew"})
    /\ Leads("running", {"list"})
  BY DEF Leads, Need, ConfigPcs, ReleasePcs, MachinePcs, LoopPcs

LEMMA LaterMoves ==
    /\ Leads("stop", {"delete"}) /\ Leads("delete", {"unhandle"}) /\ Leads("ok", {"tunnel"})
    /\ Leads("releases", {"secrets"}) /\ Leads("secrets", {"dropvolumes"})
    /\ Leads("dropvolumes", {"dropapp"}) /\ Leads("dropapp", {"uncache"})
    /\ Leads("uncache", {"removefiles"}) /\ Leads("removefiles", {"tunnel"})
    /\ \A q : Leads(q, {})
  BY DEF Leads, Need, ConfigPcs, ReleasePcs, MachinePcs, LoopPcs

LEMMA MachineCall ==
    ASSUME NEW m \in Machines, MachineCalls(m)
    PROVE  StoreStep
  BY DEF StoreStep, StoreNext

LEMMA AppCall ==
    ASSUME NEW a \in Apps, AppCalls(a)
    PROVE  StoreStep
  BY DEF StoreStep, StoreNext

\* Every state and pid the daemon records is one of the column's.
LEMMA StatesCall ==
    ASSUME DaemonInv, NEW m \in Machines
    PROVE  /\ SetMachineState(m, "failed", 0) => StoreStep
           /\ SetMachineState(m, "stopped", 0) => StoreStep
           /\ SetMachineState(m, "running", epoch) => StoreStep
           /\ DeleteMachine(m) => StoreStep
<1>1. 0 \in Pids /\ epoch \in Pids
  BY OakdAssumption DEF DaemonInv, Phases
<1>2. {"failed", "stopped", "running"} \subseteq MachineStates
  BY DEF MachineStates
<1> QED
  BY <1>1, <1>2, MachineCall DEF MachineCalls

\* The machine a loop has come to is the newest it has left.
LEMMA CurrentIsListed ==
    ASSUME DaemonInv, NEW w \in Workers, req[w].pc \in LoopPcs
    PROVE  Current(w) \in req[w].todo /\ Current(w) \in Machines
<1>1. /\ req[w].todo # {} /\ req[w].todo \subseteq Machines
      /\ req[w].todo \in SUBSET (0..nextMachine) /\ nextMachine \in Nat
  BY DEF DaemonInv, Locals, Need, Ids
<1>2. Greatest(req[w].todo) \in req[w].todo
  BY <1>1, GreatestIsMember
<1> QED
  BY <1>1, <1>2 DEF Current

\* The steps of a deploy, restart or scale that leave the locals alone.
LEMMA BootMoves ==
    ASSUME DaemonInv, NEW w \in Workers,
           \/ StoreConfig(w) \/ CacheConfig(w) \/ RecacheConfig(w) \/ ResolveVolumes(w) \/ StartMachine(w)
           \/ StopCommandVm(w) \/ SetHandle(w) \/ AwaitHealthy(w) \/ StopNew(w) \/ UnhandleNew(w)
           \/ MarkFailed(w) \/ DeleteNew(w) \/ MarkRunning(w)
    PROVE  StoreStep /\ Locals'
<1>a. Need(req[w], req[w].pc, subnets, nextMachine)
  BY DEF DaemonInv, Locals
<1>1. CASE StoreConfig(w)
  <2>1. At(w, "upsert") /\ nextMachine' = nextMachine
    BY <1>1 DEF StoreConfig, bounds
  <2>2. Finish(w) \/ \E p \in {"cache"} : Goto(w, p)
    BY <1>1 DEF StoreConfig
  <2>3. StoreStep
    BY <1>1, <2>1, <1>a, AppCall DEF StoreConfig, AppCalls, At, Need, ConfigPcs
  <2> QED BY <2>1, <2>2, <2>3, MovesKeep, Moves DEF Pcs
<1>2. CASE CacheConfig(w)
  <2>1. At(w, "cache") /\ nextMachine' = nextMachine
    BY <1>2 DEF CacheConfig, bounds
  <2>2. Finish(w) \/ \E p \in {"build", "latest"} : Goto(w, p)
    BY <1>2 DEF CacheConfig
  <2>3. StoreStep
    BY <1>2, NoStoreCall DEF CacheConfig
  <2> QED BY <2>1, <2>2, <2>3, MovesKeep, Moves DEF Pcs
<1>3. CASE RecacheConfig(w)
  <2>1. At(w, "recache") /\ nextMachine' = nextMachine
    BY <1>3 DEF RecacheConfig, bounds
  <2>2. Finish(w) \/ \E p \in {"latest", "upsert"} : Goto(w, p)
    BY <1>3 DEF RecacheConfig, AfterConfig
  <2>3. StoreStep
    BY <1>3, NoStoreCall DEF RecacheConfig
  <2> QED BY <2>1, <2>2, <2>3, MovesKeep, Moves DEF Pcs
<1>4. CASE ResolveVolumes(w)
  <2>1. At(w, "volumes") /\ nextMachine' = nextMachine
    BY <1>4 DEF ResolveVolumes, bounds
  <2>2. Finish(w) \/ \E p \in {"owner"} : Goto(w, p)
    BY <1>4 DEF ResolveVolumes
  <2>3. StoreStep
    BY <1>4, NoStoreCall DEF ResolveVolumes
  <2> QED BY <2>1, <2>2, <2>3, MovesKeep, Moves DEF Pcs
<1>5. CASE StartMachine(w)
  <2>1. At(w, "start") /\ nextMachine' = nextMachine
    BY <1>5 DEF StartMachine, bounds
  <2>2. Finish(w) \/ \E p \in {"wait", "handle"} : Goto(w, p)
    BY <1>5 DEF StartMachine
  <2>3. StoreStep
    BY <1>5, NoStoreCall DEF StartMachine
  <2> QED BY <2>1, <2>2, <2>3, MovesKeep, Moves DEF Pcs
<1>6. CASE StopCommandVm(w)
  <2>1. At(w, "stopvm") /\ nextMachine' = nextMachine
    BY <1>6 DEF StopCommandVm, bounds
  <2>2. Finish(w) \/ \E p \in {"unclaim"} : Goto(w, p)
    BY <1>6 DEF StopCommandVm
  <2>3. StoreStep
    BY <1>6, NoStoreCall DEF StopCommandVm
  <2> QED BY <2>1, <2>2, <2>3, MovesKeep, Moves DEF Pcs
<1>7. CASE SetHandle(w)
  <2>1. At(w, "handle") /\ nextMachine' = nextMachine
    BY <1>7 DEF SetHandle, bounds
  <2>2. Finish(w) \/ \E p \in {"health"} : Goto(w, p)
    BY <1>7 DEF SetHandle
  <2>3. StoreStep
    BY <1>7, NoStoreCall DEF SetHandle
  <2> QED BY <2>1, <2>2, <2>3, MovesKeep, Moves DEF Pcs
<1>8. CASE AwaitHealthy(w)
  <2>1. At(w, "health") /\ nextMachine' = nextMachine
    BY <1>8 DEF AwaitHealthy, bounds
  <2>2. Finish(w) \/ \E p \in {"running", "stopnew"} : Goto(w, p)
    BY <1>8 DEF AwaitHealthy
  <2>3. StoreStep
    BY <1>8, NoStoreCall DEF AwaitHealthy
  <2> QED BY <2>1, <2>2, <2>3, MovesKeep, Moves DEF Pcs
<1>9. CASE StopNew(w)
  <2>1. At(w, "stopnew") /\ nextMachine' = nextMachine
    BY <1>9 DEF StopNew, bounds
  <2>2. Finish(w) \/ \E p \in {"unhandlenew"} : Goto(w, p)
    BY <1>9 DEF StopNew
  <2>3. StoreStep
    BY <1>9, NoStoreCall DEF StopNew
  <2> QED BY <2>1, <2>2, <2>3, MovesKeep, Moves DEF Pcs
<1>10. CASE UnhandleNew(w)
  <2>1. At(w, "unhandlenew") /\ nextMachine' = nextMachine
    BY <1>10 DEF UnhandleNew, bounds
  <2>2. Finish(w) \/ \E p \in {"failed"} : Goto(w, p)
    BY <1>10 DEF UnhandleNew
  <2>3. StoreStep
    BY <1>10, NoStoreCall DEF UnhandleNew
  <2> QED BY <2>1, <2>2, <2>3, MovesKeep, Moves DEF Pcs
<1>11. CASE MarkFailed(w)
  <2>1. At(w, "failed") /\ nextMachine' = nextMachine
    BY <1>11 DEF MarkFailed, bounds
  <2>2. Finish(w) \/ \E p \in {"deletenew"} : Goto(w, p)
    BY <1>11 DEF MarkFailed
  <2>3. StoreStep
    <3>1. req[w].id \in Machines
      BY <2>1, <1>a DEF At, Need, MachinePcs
    <3> QED BY <1>11, <3>1, StatesCall, NoStoreCall DEF MarkFailed
  <2> QED BY <2>1, <2>2, <2>3, MovesKeep, Moves DEF Pcs
<1>12. CASE DeleteNew(w)
  <2>1. At(w, "deletenew") /\ nextMachine' = nextMachine
    BY <1>12 DEF DeleteNew, bounds
  <2>2. Finish(w) \/ \E p \in {} : Goto(w, p)
    BY <1>12 DEF DeleteNew
  <2>3. StoreStep
    <3>1. req[w].id \in Machines
      BY <2>1, <1>a DEF At, Need, MachinePcs
    <3> QED BY <1>12, <3>1, StatesCall, NoStoreCall DEF DeleteNew
  <2> QED BY <2>1, <2>2, <2>3, MovesKeep, LaterMoves DEF Pcs
<1>13. CASE MarkRunning(w)
  <2>1. At(w, "running") /\ nextMachine' = nextMachine
    BY <1>13 DEF MarkRunning, bounds
  <2>2. Finish(w) \/ \E p \in {"list"} : Goto(w, p)
    BY <1>13 DEF MarkRunning
  <2>3. StoreStep
    <3>1. req[w].id \in Machines
      BY <2>1, <1>a DEF At, Need, MachinePcs
    <3> QED BY <1>13, <3>1, StatesCall, NoStoreCall DEF MarkRunning
  <2> QED BY <2>1, <2>2, <2>3, MovesKeep, Moves DEF Pcs
<1> QED
  BY <1>1, <1>2, <1>3, <1>4, <1>5, <1>6, <1>7, <1>8, <1>9, <1>10, <1>11, <1>12, <1>13

\* Those of the cutover and of Destroy.
LEMMA EndMoves ==
    ASSUME DaemonInv, NEW w \in Workers,
           \/ StopListed(w) \/ DeleteListed(w) \/ EmitOk(w) \/ DestroyReleases(w) \/ DestroySecrets(w)
           \/ DestroyVolumes(w) \/ DestroyApp(w) \/ DestroyCached(w) \/ DestroyFiles(w) \/ RecordOwner(w)
    PROVE  StoreStep /\ Locals'
<1>a. Need(req[w], req[w].pc, subnets, nextMachine)
  BY DEF DaemonInv, Locals
<1>1. CASE StopListed(w)
  <2>1. At(w, "stop") /\ nextMachine' = nextMachine
    BY <1>1 DEF StopListed, bounds
  <2>2. Finish(w) \/ \E p \in {"delete"} : Goto(w, p)
    BY <1>1 DEF StopListed
  <2>3. StoreStep
    BY <1>1, NoStoreCall DEF StopListed
  <2> QED BY <2>1, <2>2, <2>3, MovesKeep, LaterMoves DEF Pcs
<1>2. CASE DeleteListed(w)
  <2>1. At(w, "delete") /\ nextMachine' = nextMachine
    BY <1>2 DEF DeleteListed, bounds
  <2>2. Finish(w) \/ \E p \in {"unhandle"} : Goto(w, p)
    BY <1>2 DEF DeleteListed
  <2>3. StoreStep
    BY <1>2, <2>1, CurrentIsListed, StatesCall DEF DeleteListed, At, LoopPcs
  <2> QED BY <2>1, <2>2, <2>3, MovesKeep, LaterMoves DEF Pcs
<1>3. CASE EmitOk(w)
  <2>1. At(w, "ok") /\ nextMachine' = nextMachine
    BY <1>3 DEF EmitOk, bounds
  <2>2. Finish(w) \/ \E p \in {"tunnel"} : Goto(w, p)
    BY <1>3 DEF EmitOk
  <2>3. StoreStep
    BY <1>3, NoStoreCall DEF EmitOk
  <2> QED BY <2>1, <2>2, <2>3, MovesKeep, LaterMoves DEF Pcs
<1>4. CASE DestroyReleases(w)
  <2>1. At(w, "releases") /\ nextMachine' = nextMachine
    BY <1>4 DEF DestroyReleases, bounds
  <2>2. Finish(w) \/ \E p \in {"secrets"} : Goto(w, p)
    BY <1>4 DEF DestroyReleases
  <2>3. StoreStep
    BY <1>4, <2>1, <1>a, AppCall, NoStoreCall DEF DestroyReleases, AppCalls, At, Need
  <2> QED BY <2>1, <2>2, <2>3, MovesKeep, LaterMoves DEF Pcs
<1>5. CASE DestroySecrets(w)
  <2>1. At(w, "secrets") /\ nextMachine' = nextMachine
    BY <1>5 DEF DestroySecrets, bounds
  <2>2. Finish(w) \/ \E p \in {"dropvolumes"} : Goto(w, p)
    BY <1>5 DEF DestroySecrets
  <2>3. StoreStep
    BY <1>5, <2>1, <1>a, AppCall, NoStoreCall DEF DestroySecrets, AppCalls, At, Need
  <2> QED BY <2>1, <2>2, <2>3, MovesKeep, LaterMoves DEF Pcs
<1>6. CASE DestroyVolumes(w)
  <2>1. At(w, "dropvolumes") /\ nextMachine' = nextMachine
    BY <1>6 DEF DestroyVolumes, bounds
  <2>2. Finish(w) \/ \E p \in {"dropapp"} : Goto(w, p)
    BY <1>6 DEF DestroyVolumes
  <2>3. StoreStep
    BY <1>6, <2>1, <1>a, AppCall, NoStoreCall DEF DestroyVolumes, AppCalls, At, Need
  <2> QED BY <2>1, <2>2, <2>3, MovesKeep, LaterMoves DEF Pcs
<1>7. CASE DestroyApp(w)
  <2>1. At(w, "dropapp") /\ nextMachine' = nextMachine
    BY <1>7 DEF DestroyApp, bounds
  <2>2. Finish(w) \/ \E p \in {"uncache"} : Goto(w, p)
    BY <1>7 DEF DestroyApp
  <2>3. StoreStep
    BY <1>7, <2>1, <1>a, AppCall, NoStoreCall DEF DestroyApp, AppCalls, At, Need
  <2> QED BY <2>1, <2>2, <2>3, MovesKeep, LaterMoves DEF Pcs
<1>8. CASE DestroyCached(w)
  <2>1. At(w, "uncache") /\ nextMachine' = nextMachine
    BY <1>8 DEF DestroyCached, bounds
  <2>2. Finish(w) \/ \E p \in {"removefiles"} : Goto(w, p)
    BY <1>8 DEF DestroyCached
  <2>3. StoreStep
    BY <1>8, NoStoreCall DEF DestroyCached
  <2> QED BY <2>1, <2>2, <2>3, MovesKeep, LaterMoves DEF Pcs
<1>9. CASE DestroyFiles(w)
  <2>1. At(w, "removefiles") /\ nextMachine' = nextMachine
    BY <1>9 DEF DestroyFiles, bounds
  <2>2. Finish(w) \/ \E p \in {"tunnel"} : Goto(w, p)
    BY <1>9 DEF DestroyFiles
  <2>3. StoreStep
    BY <1>9, NoStoreCall DEF DestroyFiles
  <2> QED BY <2>1, <2>2, <2>3, MovesKeep, LaterMoves DEF Pcs
<1>10. CASE RecordOwner(w)
  <2>1. At(w, "setowner") /\ nextMachine' = nextMachine
    BY <1>10 DEF RecordOwner, bounds
  <2>2. Finish(w) \/ \E p \in {} : Goto(w, p)
    BY <1>10 DEF RecordOwner
  <2>3. StoreStep
    BY <1>10, <2>1, <1>a, AppCall DEF RecordOwner, AppCalls, At, Need
  <2> QED BY <2>1, <2>2, <2>3, MovesKeep, LaterMoves DEF Pcs
<1> QED
  BY <1>1, <1>2, <1>3, <1>4, <1>5, <1>6, <1>7, <1>8, <1>9, <1>10

-----------------------------------------------------------------------------
(* The steps that change a request's locals.                               *)

LEMMA ChangeKeeps ==
    ASSUME DaemonInv, StoreStep, nextMachine' = nextMachine, NEW w \in Workers,
           NEW r \in ReqType, req' = [req EXCEPT ![w] = r],
           Need(r, r.pc, subnets, nextMachine)
    PROVE  StoreStep /\ Locals'
  BY BecomesKeeps DEF DaemonInv

LEMMA ReturnKeeps ==
    ASSUME DaemonInv, StoreStep, nextMachine' = nextMachine, NEW w \in Workers, Finish(w)
    PROVE  StoreStep /\ Locals'
  BY FinishKeeps DEF DaemonInv

\* A worker that is serving has its request's record and what its call needs.
LEMMA Serving ==
    ASSUME DaemonInv, NEW w \in Workers, NEW q, At(w, q)
    PROVE  req[w] \in ReqType /\ req \in [Workers -> ReqType] /\ req[w].pc = q
           /\ Need(req[w], q, subnets, nextMachine)
  BY DEF DaemonInv, Locals, At

LEMMA ReadConfigKeeps ==
    ASSUME DaemonInv, NEW w \in Workers, ReadConfig(w)
    PROVE  StoreStep /\ Locals'
<1>1. StoreStep /\ nextMachine' = nextMachine /\ At(w, "config")
  BY NoStoreCall DEF ReadConfig, bounds
<1>2. CASE ~Known(req[w].app)
  BY <1>1, <1>2, ReturnKeeps DEF ReadConfig, Finish
<1>3. CASE Known(req[w].app)
  <2> DEFINE cfg == Lookup(req[w].app)
             pc == IF req[w].app \in DOMAIN appConfigs THEN AfterConfig(req[w].op) ELSE "recache"
             r == [req[w] EXCEPT !.cfg = cfg, !.pc = pc]
  <2>1. cfg \in Configs
    BY <1>3 DEF Lookup, Known, DaemonInv, Caches, StoreInv, StoreTypeOK, AppRow
  <2>2. pc \in {"latest", "upsert", "recache"}
    BY DEF AfterConfig
  <2>3. req' = [req EXCEPT ![w].cfg = cfg, ![w].pc = pc]
    BY <1>3 DEF ReadConfig
  <2> HIDE DEF cfg, pc
  <2>4. r \in ReqType /\ req' = [req EXCEPT ![w] = r]
    BY <1>1, <2>1, <2>2, <2>3, Serving DEF ReqType, Pcs
  <2>5. r.cfg = cfg /\ r.pc = pc /\ r.app = req[w].app /\ r.op = req[w].op /\ r.owner = req[w].owner
    BY <1>1, Serving DEF ReqType
  <2> HIDE DEF r
  <2>6. Need(r, r.pc, subnets, nextMachine)
    BY <1>1, <2>1, <2>2, <2>5, Serving DEF Need, ConfigPcs, ReleasePcs, MachinePcs, LoopPcs
  <2> QED BY <1>1, <2>4, <2>6, ChangeKeeps
<1> QED
  BY <1>2, <1>3

LEMMA BuildRootfsKeeps ==
    ASSUME DaemonInv, NEW w \in Workers, BuildRootfs(w)
    PROVE  StoreStep /\ Locals'
<1>1. StoreStep /\ nextMachine' = nextMachine /\ At(w, "build") /\ nextImage \in Images
  BY NoStoreCall DEF BuildRootfs
<1>2. CASE Finish(w)
  BY <1>1, <1>2, ReturnKeeps
<1>3. CASE req' = [req EXCEPT ![w].image = nextImage, ![w].pc = "insert"]
  <2> DEFINE r == [req[w] EXCEPT !.image = nextImage, !.pc = "insert"]
  <2>1. r \in ReqType /\ req' = [req EXCEPT ![w] = r]
    BY <1>1, <1>3, Serving DEF ReqType, Pcs
  <2>2. /\ r.image = nextImage /\ r.pc = "insert" /\ r.app = req[w].app /\ r.op = req[w].op
        /\ r.owner = req[w].owner /\ r.cfg = req[w].cfg
    BY <1>1, Serving DEF ReqType
  <2> HIDE DEF r
  <2>3. Need(r, r.pc, subnets, nextMachine)
    BY <1>1, <2>2, Serving DEF Need, ConfigPcs, ReleasePcs, MachinePcs, LoopPcs
  <2> QED BY <1>1, <2>1, <2>3, ChangeKeeps
<1> QED
  BY <1>2, <1>3 DEF BuildRootfs

LEMMA NextReleaseIdInRange ==
    ASSUME StoreTypeOK, NextReleaseId <= MaxRelease
    PROVE  NextReleaseId \in 1..MaxRelease
<1>1. CASE DOMAIN releases = {}
  BY <1>1, StoreAssumption DEF NextReleaseId
<1>2. CASE DOMAIN releases # {}
  <2>1. DOMAIN releases \in SUBSET (1..MaxRelease) /\ DOMAIN releases \in SUBSET (0..MaxRelease)
    BY StoreAssumption DEF StoreTypeOK
  <2>2. Greatest(DOMAIN releases) \in 1..MaxRelease
    BY <1>2, <2>1, GreatestIsMember, StoreAssumption
  <2> QED BY <1>2, <2>2, StoreAssumption DEF NextReleaseId
<1> QED
  BY <1>1, <1>2

LEMMA RecordReleaseKeeps ==
    ASSUME DaemonInv, NEW w \in Workers, RecordRelease(w)
    PROVE  StoreStep /\ Locals'
<1>1. nextMachine' = nextMachine /\ At(w, "insert")
  BY DEF RecordRelease, bounds
<1>2. CASE Finish(w) /\ UNCHANGED storeVars
  BY <1>1, <1>2, ReturnKeeps, NoStoreCall
<1>3. CASE ~(Finish(w) /\ UNCHANGED storeVars)
  <2>1. InsertRelease(req[w].app, req[w].image)
    BY <1>3 DEF RecordRelease
  <2>2. req[w].app \in Apps /\ req[w].image \in Images /\ req[w].cfg \in Configs
    BY <1>1, Serving DEF Need, ConfigPcs
  <2>3. StoreStep
    BY <2>1, <2>2, AppCall DEF AppCalls
  <2> DEFINE c == IF req[w].cfg.release THEN "run" ELSE "none"
             pc == IF req[w].cfg.release THEN "owner" ELSE "volumes"
             r == [req[w] EXCEPT !.release = NextReleaseId, !.command = c, !.pc = pc]
  <2>4. NextReleaseId \in 1..MaxRelease
    BY <2>1, NextReleaseIdInRange DEF InsertRelease, DaemonInv, StoreInv
  <2>5. c \in {"run", "none"} /\ pc \in {"owner", "volumes"}
    OBVIOUS
  <2>6. req' = [req EXCEPT ![w].release = NextReleaseId, ![w].command = c, ![w].pc = pc]
    BY <1>3 DEF RecordRelease
  <2> HIDE DEF c, pc
  <2>7. r \in ReqType /\ req' = [req EXCEPT ![w] = r]
    BY <1>1, <2>4, <2>5, <2>6, Serving DEF ReqType, Pcs
  <2>8. /\ r.release = NextReleaseId /\ r.pc = pc /\ r.app = req[w].app /\ r.op = req[w].op
        /\ r.owner = req[w].owner /\ r.cfg = req[w].cfg
    BY <1>1, Serving DEF ReqType
  <2> HIDE DEF r
  <2>9. Need(r, r.pc, subnets, nextMachine)
    BY <1>1, <2>4, <2>5, <2>8, Serving DEF Need, ConfigPcs, ReleasePcs, MachinePcs, LoopPcs
  <2> QED BY <1>1, <2>3, <2>7, <2>9, ChangeKeeps
<1> QED
  BY <1>2, <1>3

\* The latest release of an app is one of its rows.
LEMMA LatestReleaseFound ==
    ASSUME StoreTypeOK, NEW a, ReleasesOf(a) # {}
    PROVE  /\ LatestRelease(a) \in 1..MaxRelease
           /\ LatestRelease(a) \in DOMAIN releases
           /\ releases[LatestRelease(a)].app = a
           /\ releases[LatestRelease(a)].image \in Images
<1>1. ReleasesOf(a) \in SUBSET (0..MaxRelease) /\ MaxRelease \in Nat
  BY StoreAssumption DEF StoreTypeOK, ReleasesOf
<1>2. Greatest(ReleasesOf(a)) \in ReleasesOf(a)
  BY <1>1, GreatestIsMember
<1> QED
  BY <1>2 DEF LatestRelease, ReleasesOf, StoreTypeOK, ReleaseRow

LEMMA FindReleaseKeeps ==
    ASSUME DaemonInv, NEW w \in Workers, FindRelease(w)
    PROVE  StoreStep /\ Locals'
<1>1. StoreStep /\ nextMachine' = nextMachine /\ At(w, "latest")
  BY NoStoreCall DEF FindRelease, bounds
<1>2. CASE ReleasesOf(req[w].app) = {}
  BY <1>1, <1>2, ReturnKeeps DEF FindRelease, Finish
<1>3. CASE ReleasesOf(req[w].app) # {}
  <2> DEFINE n == LatestRelease(req[w].app)
             i == releases[n].image
             r == [req[w] EXCEPT !.release = n, !.image = i, !.pc = "volumes"]
  <2>1. n \in 1..MaxRelease /\ i \in Images
    BY <1>3, LatestReleaseFound DEF DaemonInv, StoreInv
  <2>2. req' = [req EXCEPT ![w].release = n, ![w].image = i, ![w].pc = "volumes"]
    BY <1>3 DEF FindRelease
  <2> HIDE DEF n, i
  <2>3. r \in ReqType /\ req' = [req EXCEPT ![w] = r]
    BY <1>1, <2>1, <2>2, Serving DEF ReqType, Pcs
  <2>4. /\ r.release = n /\ r.pc = "volumes" /\ r.app = req[w].app /\ r.op = req[w].op
        /\ r.owner = req[w].owner /\ r.cfg = req[w].cfg
    BY <1>1, Serving DEF ReqType
  <2> HIDE DEF r
  <2>5. Need(r, r.pc, subnets, nextMachine)
    BY <1>1, <2>1, <2>4, Serving DEF Need, ConfigPcs, ReleasePcs, MachinePcs, LoopPcs
  <2> QED BY <1>1, <2>3, <2>5, ChangeKeeps
<1> QED
  BY <1>2, <1>3

LEMMA ReadOwnerKeeps ==
    ASSUME DaemonInv, NEW w \in Workers, ReadOwner(w)
    PROVE  StoreStep /\ Locals'
<1>1. StoreStep /\ nextMachine' = nextMachine /\ At(w, "owner")
  BY NoStoreCall DEF ReadOwner, bounds
<1>2. CASE req[w].app \notin DOMAIN apps
  BY <1>1, <1>2, ReturnKeeps DEF ReadOwner, Finish
<1>3. CASE req[w].app \in DOMAIN apps
  <2> DEFINE o == apps[req[w].app].owner
             r == [req[w] EXCEPT !.tenant = o, !.pc = "subnet"]
  <2>1. o \in Owners
    BY <1>3 DEF DaemonInv, StoreInv, StoreTypeOK, AppRow
  <2>2. req' = [req EXCEPT ![w].tenant = o, ![w].pc = "subnet"]
    BY <1>3 DEF ReadOwner
  <2> HIDE DEF o
  <2>3. r \in ReqType /\ req' = [req EXCEPT ![w] = r]
    BY <1>1, <2>1, <2>2, Serving DEF ReqType, Pcs
  <2>4. /\ r.tenant = o /\ r.release = req[w].release /\ r.pc = "subnet" /\ r.app = req[w].app
        /\ r.op = req[w].op /\ r.owner = req[w].owner /\ r.cfg = req[w].cfg
    BY <1>1, Serving DEF ReqType
  <2> HIDE DEF r
  <2>5. Need(r, r.pc, subnets, nextMachine)
    BY <1>1, <2>1, <2>4, Serving DEF Need, ConfigPcs, ReleasePcs, MachinePcs, LoopPcs
  <2> QED BY <1>1, <2>3, <2>5, ChangeKeeps
<1> QED
  BY <1>2, <1>3

\* A subnet that was looked up or allocated is in the table, within range.
LEMMA SubnetFound ==
    ASSUME StoreInv, NEW o \in Owners, SubnetForOwner(o)
    PROVE  /\ o \in DOMAIN subnets'
           /\ subnets'[o] \in 0..SubnetMax
  BY FreeSubnetFound, StoreAssumption DEF SubnetForOwner, Put, StoreInv, StoreTypeOK

LEMMA FindSubnetKeeps ==
    ASSUME DaemonInv, NEW w \in Workers, FindSubnet(w)
    PROVE  StoreStep /\ Locals'
<1>1. nextMachine' = nextMachine /\ At(w, "subnet")
  BY DEF FindSubnet, bounds
<1>2. CASE Finish(w) /\ UNCHANGED storeVars
  BY <1>1, <1>2, ReturnKeeps, NoStoreCall
<1>3. CASE ~(Finish(w) /\ UNCHANGED storeVars)
  <2> DEFINE i == subnets'[req[w].tenant]
             r == [req[w] EXCEPT !.idx = i, !.tenant = Nil, !.pc = "alloc"]
  <2>1. SubnetForOwner(req[w].tenant)
    BY <1>3 DEF FindSubnet
  <2>2. req[w].tenant \in Owners /\ StoreInv
    BY <1>1, Serving DEF Need, DaemonInv
  <2>3. StoreStep
    BY <2>1, <2>2 DEF StoreStep, StoreNext
  <2>4. req[w].tenant \in DOMAIN subnets' /\ i \in 0..SubnetMax
    BY <2>1, <2>2, SubnetFound
  <2>5. req' = [req EXCEPT ![w].idx = i, ![w].tenant = Nil, ![w].pc = "alloc"]
    BY <1>3 DEF FindSubnet
  <2>6. \E o \in DOMAIN subnets' : i = subnets'[o]
    BY <2>4
  <2> HIDE DEF i
  <2>7. r \in ReqType /\ req' = [req EXCEPT ![w] = r]
    BY <1>1, <2>4, <2>5, Serving DEF ReqType, Pcs
  <2>8. /\ r.idx = i /\ r.release = req[w].release /\ r.pc = "alloc" /\ r.app = req[w].app
        /\ r.op = req[w].op /\ r.owner = req[w].owner /\ r.cfg = req[w].cfg
    BY <1>1, Serving DEF ReqType
  <2> HIDE DEF r
  <2>9. Need(r, r.pc, subnets', nextMachine')
    BY <1>1, <2>6, <2>8, Serving DEF Need, ConfigPcs, ReleasePcs, MachinePcs, LoopPcs
  <2>10. nextMachine \in Nat /\ nextMachine' \in Nat /\ nextMachine <= nextMachine' /\ Locals
    BY <1>1 DEF DaemonInv, Ids
  <2> QED BY <2>3, <2>7, <2>9, <2>10, LocalsKept
<1> QED
  BY <1>2, <1>3

LEMMA InsertMachineKeeps ==
    ASSUME DaemonInv, NEW w \in Workers, InsertMachine(w)
    PROVE  StoreStep /\ Locals'
<1>1. At(w, "alloc") /\ nextMachine \in Machines
  BY DEF InsertMachine
<1>2. CASE Finish(w) /\ UNCHANGED <<storeVars, nextMachine>>
  BY <1>1, <1>2, ReturnKeeps, NoStoreCall
<1>3. CASE ~(Finish(w) /\ UNCHANGED <<storeVars, nextMachine>>)
  <2> DEFINE ip == allocIP(req[w].idx)
             r == [req[w] EXCEPT !.id = nextMachine, !.ip = ip, !.pc = "start"]
  <2>1. /\ AllocAndInsertMachine(nextMachine, req[w].app, req[w].release, req[w].idx)
        /\ nextMachine' = nextMachine + 1
        /\ req' = [req EXCEPT ![w].id = nextMachine, ![w].ip = ip, ![w].pc = "start"]
    BY <1>3 DEF InsertMachine
  <2>2. /\ req[w].app \in Apps /\ req[w].release \in 1..MaxRelease /\ req[w].cfg \in Configs
        /\ \E o \in DOMAIN subnets : req[w].idx = subnets[o]
    BY <1>1, Serving DEF Need, ReleasePcs, ConfigPcs
  <2>3. StoreStep
    BY <1>1, <2>1, <2>2, MachineCall DEF MachineCalls
  <2>4. ip \in Addresses
    <3>1. req[w].idx \in 0..SubnetMax /\ FreeHosts(req[w].idx) # {}
      BY <2>1, <2>2 DEF AllocAndInsertMachine, DaemonInv, StoreInv, StoreTypeOK
    <3> QED BY <3>1, FreeAddressFound, StoreAssumption
  <2> HIDE DEF ip
  <2>5. r \in ReqType /\ req' = [req EXCEPT ![w] = r]
    BY <1>1, <2>1, <2>4, Serving DEF ReqType, Pcs
  <2>6. /\ r.id = nextMachine /\ r.ip = ip /\ r.pc = "start" /\ r.app = req[w].app
        /\ r.release = req[w].release /\ r.op = req[w].op /\ r.owner = req[w].owner
        /\ r.cfg = req[w].cfg
    BY <1>1, Serving DEF ReqType
  <2> HIDE DEF r
  <2>7. nextMachine \in Nat /\ nextMachine' \in Nat /\ nextMachine < nextMachine' /\ Locals
        /\ nextMachine <= nextMachine'
    BY <2>1 DEF DaemonInv, Ids
  <2>8. Need(r, r.pc, subnets', nextMachine')
    BY <1>1, <2>2, <2>4, <2>6, <2>7, Serving
       DEF Need, ConfigPcs, ReleasePcs, MachinePcs, LoopPcs
  <2> QED BY <2>3, <2>5, <2>7, <2>8, LocalsKept
<1> QED
  BY <1>2, <1>3

\* The steps of runReleaseCommand that note how the command went.
LEMMA CommandMovesKeep ==
    ASSUME DaemonInv, StoreStep, nextMachine' = nextMachine, NEW w \in Workers,
           NEW q, At(w, q), NEW p \in Pcs, Leads(q, {p}), NEW c \in {"ok", "failed"},
           req' = [req EXCEPT ![w].command = c, ![w].pc = p]
    PROVE  StoreStep /\ Locals'
<1> DEFINE r == [req[w] EXCEPT !.command = c, !.pc = p]
<1>0. req[w] \in ReqType /\ req \in [Workers -> ReqType]
  BY Serving
<1>1. r \in ReqType /\ req' = [req EXCEPT ![w] = r]
  <2>1. r \in ReqType
    BY <1>0 DEF ReqType
  <2>2. req' = [req EXCEPT ![w] = r]
    BY <1>0
  <2> QED BY <2>1, <2>2
<1>2. /\ r.pc = p /\ r.app = req[w].app /\ r.cfg = req[w].cfg /\ r.owner = req[w].owner
      /\ r.tenant = req[w].tenant /\ r.release = req[w].release /\ r.image = req[w].image
      /\ r.id = req[w].id /\ r.idx = req[w].idx /\ r.ip = req[w].ip
      /\ r.todo = req[w].todo /\ r.op = req[w].op
  BY Serving DEF ReqType
<1> HIDE DEF r
<1>3. Need(req[w], p, subnets, nextMachine)
  BY Serving DEF Leads
<1>4. Need(r, r.pc, subnets, nextMachine)
  BY <1>2, <1>3 DEF Need
<1> QED
  BY <1>1, <1>4, ChangeKeeps

LEMMA CommandMoves == Leads("start", {"unclaim"}) /\ Leads("start", {"failed"}) /\ Leads("wait", {"stopvm"})
  BY DEF Leads, Need, ConfigPcs, ReleasePcs, MachinePcs, LoopPcs

LEMMA CommandKeeps ==
    ASSUME DaemonInv, NEW w \in Workers,
           StartFails(w) \/ PrepareFails(w) \/ CommandEnds(w)
    PROVE  StoreStep /\ Locals'
<1>1. StoreStep /\ nextMachine' = nextMachine
  BY NoStoreCall DEF StartFails, PrepareFails, CommandEnds, bounds
<1>2. CASE StartFails(w) \/ PrepareFails(w)
  <2>1. At(w, "start")
    BY <1>2 DEF StartFails, PrepareFails
  <2>2. \/ req' = [req EXCEPT ![w].command = "failed", ![w].pc = "unclaim"]
        \/ Goto(w, "failed")
        \/ Finish(w)
    BY <1>2 DEF StartFails, PrepareFails, Goto, Finish
  <2>3. CASE req' = [req EXCEPT ![w].command = "failed", ![w].pc = "unclaim"]
    BY <1>1, <2>1, <2>3, CommandMovesKeep, CommandMoves DEF Pcs
  <2>4. CASE Finish(w) \/ Goto(w, "failed")
    <3>1. Finish(w) \/ \E p \in {"failed"} : Goto(w, p)
      BY <2>4
    <3> QED BY <1>1, <2>1, <3>1, MovesKeep, CommandMoves DEF Pcs
  <2> QED BY <2>2, <2>3, <2>4
<1>3. CASE CommandEnds(w)
  <2>1. At(w, "wait")
    BY <1>3 DEF CommandEnds
  <2>2. PICK c \in {"ok", "failed"} : req' = [req EXCEPT ![w].command = c, ![w].pc = "stopvm"]
    BY <1>3 DEF CommandEnds
  <2> QED BY <1>1, <2>1, <2>2, CommandMovesKeep, CommandMoves DEF Pcs
<1> QED
  BY <1>2, <1>3

LEMMA DeleteCommandRowKeeps ==
    ASSUME DaemonInv, NEW w \in Workers, DeleteCommandRow(w)
    PROVE  StoreStep /\ Locals'
<1>1. nextMachine' = nextMachine /\ At(w, "unclaim") /\ DeleteMachine(req[w].id)
  BY DEF DeleteCommandRow, bounds
<1>2. StoreStep
  BY <1>1, Serving, StatesCall DEF Need, MachinePcs
<1>3. CASE req[w].command # "ok"
  BY <1>1, <1>2, <1>3, ReturnKeeps DEF DeleteCommandRow, Finish
<1>4. CASE req[w].command = "ok"
  <2> DEFINE r == [req[w] EXCEPT !.command = "none", !.id = 0, !.idx = 0,
                                 !.ip = <<0, 0>>, !.pc = "volumes"]
  <2>1. req' = [req EXCEPT ![w].command = "none", ![w].id = 0, ![w].idx = 0,
                           ![w].ip = <<0, 0>>, ![w].pc = "volumes"]
    BY <1>4 DEF DeleteCommandRow
  <2>2. 0 \in 0..SubnetMax /\ "volumes" \in Pcs
    BY StoreAssumption DEF Pcs
  <2>3. r \in ReqType /\ req' = [req EXCEPT ![w] = r]
    BY <1>1, <2>1, <2>2, Serving DEF ReqType
  <2>4. /\ r.release = req[w].release /\ r.pc = "volumes" /\ r.app = req[w].app
        /\ r.op = req[w].op /\ r.owner = req[w].owner /\ r.cfg = req[w].cfg
    BY <1>1, Serving DEF ReqType
  <2> HIDE DEF r
  <2>5. Need(r, r.pc, subnets, nextMachine)
    BY <1>1, <2>4, Serving DEF Need, ConfigPcs, ReleasePcs, MachinePcs, LoopPcs
  <2> QED BY <1>1, <1>2, <2>3, <2>5, ChangeKeeps
<1> QED
  BY <1>3, <1>4

\* The loop of stopOldMachines and Destroy: what it has left are machines.
LEMMA LoopKeeps ==
    ASSUME DaemonInv, StoreStep, nextMachine' = nextMachine, NEW w \in Workers,
           req[w].pc # "idle",
           NEW S \in SUBSET (Machines \cap (0..nextMachine)),
           req' = [req EXCEPT ![w].todo = S, ![w].pc = LoopPc(req[w].op, S)]
    PROVE  StoreStep /\ Locals'
<1> DEFINE pc == LoopPc(req[w].op, S)
           r == [req[w] EXCEPT !.todo = S, !.pc = pc]
<1>1. pc \in {"stop", "releases", "ok"} /\ (pc = "stop" => S # {})
  BY DEF LoopPc, AfterLoop
<1>2. req[w] \in ReqType /\ req \in [Workers -> ReqType] /\ req[w].app \in Apps
      /\ (req[w].op = "deploy" => req[w].owner \in Owners)
  BY DEF DaemonInv, Locals, Need
<1>3. S \in SUBSET (Machines \cup VolNames)
  OBVIOUS
<1>4. req' = [req EXCEPT ![w].todo = S, ![w].pc = pc]
  OBVIOUS
<1> HIDE DEF pc
<1>5. r \in ReqType /\ req' = [req EXCEPT ![w] = r]
  <2>1. pc \in Pcs
    BY <1>1 DEF Pcs
  <2>2. r \in ReqType
    BY <1>2, <1>3, <2>1 DEF ReqType
  <2>3. req' = [req EXCEPT ![w] = r]
    BY <1>2, <1>4
  <2> QED BY <2>2, <2>3
<1>6. r.todo = S /\ r.pc = pc /\ r.app = req[w].app /\ r.op = req[w].op /\ r.owner = req[w].owner
  BY <1>2 DEF ReqType
<1> HIDE DEF r
<1>7. Need(r, r.pc, subnets, nextMachine)
  BY <1>1, <1>2, <1>6 DEF Need, ConfigPcs, ReleasePcs, MachinePcs, LoopPcs
<1> QED
  BY <1>5, <1>7, ChangeKeeps

LEMMA ListsKeep ==
    ASSUME DaemonInv, NEW w \in Workers, ListMachines(w) \/ UnhandleListed(w)
    PROVE  StoreStep /\ Locals'
<1>1. StoreStep /\ nextMachine' = nextMachine
  BY NoStoreCall DEF ListMachines, UnhandleListed, bounds
<1>2. CASE ListMachines(w)
  <2>1. At(w, "list") /\ req' = [req EXCEPT ![w].todo = Doomed(req[w]),
                                           ![w].pc = LoopPc(req[w].op, Doomed(req[w]))]
    BY <1>2 DEF ListMachines
  <2>2. Doomed(req[w]) \subseteq DOMAIN machines
    BY DEF Doomed, MachinesForApp
  <2>3. DOMAIN machines \subseteq Machines \cap (0..nextMachine)
    <3>1. DOMAIN machines \subseteq Machines /\ DOMAIN machines \subseteq Nat /\ nextMachine \in Nat
      BY TunnelAssumption DEF DaemonInv, StoreInv, StoreTypeOK, Ids
    <3>2. \A m \in DOMAIN machines : m < nextMachine
      BY DEF DaemonInv, Ids
    <3> QED BY <3>1, <3>2
  <2> QED BY <1>1, <2>1, <2>2, <2>3, LoopKeeps DEF At
<1>3. CASE UnhandleListed(w)
  <2> DEFINE left == req[w].todo \ {Current(w)}
  <2>1. At(w, "unhandle") /\ req' = [req EXCEPT ![w].todo = left, ![w].pc = LoopPc(req[w].op, left)]
    BY <1>3 DEF UnhandleListed
  <2>2. left \in SUBSET (Machines \cap (0..nextMachine))
    BY <2>1, Serving DEF Need, LoopPcs
  <2> HIDE DEF left
  <2> QED BY <1>1, <2>1, <2>2, LoopKeeps DEF At
<1> QED
  BY <1>2, <1>3

LEMMA SmallRequestsKeep ==
    ASSUME DaemonInv, NEW w \in Workers, ChangeSecret(w) \/ MakeVolume(w) \/ InsertVolume(w)
    PROVE  StoreStep /\ Locals'
<1>1. nextMachine' = nextMachine
  BY DEF ChangeSecret, MakeVolume, InsertVolume, bounds
<1>2. CASE ChangeSecret(w)
  <2>1. req[w].app \in Apps
    BY <1>2, Serving DEF ChangeSecret, Need
  <2>2. StoreStep
    BY <1>2, <2>1, AppCall DEF ChangeSecret, AppCalls
  <2> QED BY <1>1, <1>2, <2>2, ReturnKeeps DEF ChangeSecret
<1>3. CASE InsertVolume(w)
  <2>1. req[w].app \in Apps /\ req[w].todo \subseteq VolNames
    BY <1>3, Serving DEF InsertVolume, Need
  <2>2. StoreStep
    BY <1>3, <2>1, AppCall, NoStoreCall DEF InsertVolume, AppCalls
  <2> QED BY <1>1, <1>3, <2>2, ReturnKeeps DEF InsertVolume
<1>4. CASE MakeVolume(w)
  <2>1. StoreStep /\ At(w, "volume")
    BY <1>4, NoStoreCall DEF MakeVolume
  <2>2. CASE Finish(w)
    BY <1>1, <2>1, <2>2, ReturnKeeps
  <2>3. CASE ~Finish(w)
    <3>1. PICK v \in VolNames : req' = [req EXCEPT ![w].todo = {v}, ![w].pc = "insertvolume"]
      BY <1>4, <2>3 DEF MakeVolume
    <3> DEFINE r == [req[w] EXCEPT !.todo = {v}, !.pc = "insertvolume"]
    <3>2. /\ req[w] \in ReqType /\ req \in [Workers -> ReqType] /\ req[w].app \in Apps
          /\ req[w].op = "deploy" => req[w].owner \in Owners
      BY <2>1, Serving DEF Need
    <3>3. {v} \in SUBSET (Machines \cup VolNames) /\ "insertvolume" \in Pcs
      BY DEF Pcs
    <3>4. r \in ReqType
      BY <3>2, <3>3 DEF ReqType
    <3>5. req' = [req EXCEPT ![w] = r]
      BY <3>1, <3>2
    <3>6. /\ r.todo = {v} /\ r.pc = "insertvolume" /\ r.app = req[w].app /\ r.op = req[w].op
          /\ r.owner = req[w].owner
      BY <3>2 DEF ReqType
    <3> HIDE DEF r
    <3>7. Need(r, r.pc, subnets, nextMachine)
      BY <3>2, <3>6 DEF Need, ConfigPcs, ReleasePcs, MachinePcs, LoopPcs
    <3> QED BY <1>1, <2>1, <3>4, <3>5, <3>7, ChangeKeeps
  <2> QED BY <2>2, <2>3
<1> QED
  BY <1>2, <1>3, <1>4

\* A step that leaves the requests alone keeps their locals.
LEMMA OthersKeep ==
    ASSUME DaemonInv, StoreStep, nextMachine' = nextMachine, UNCHANGED req
    PROVE  StoreStep /\ Locals'
<1>1. nextMachine \in Nat /\ nextMachine' \in Nat /\ nextMachine <= nextMachine' /\ Locals
  BY DEF DaemonInv, Ids
<1>2. ASSUME NEW x \in Workers
      PROVE  Need(req'[x], req'[x].pc, subnets', nextMachine')
  <2>1. Need(req[x], req[x].pc, subnets, nextMachine)
    BY <1>1 DEF Locals
  <2> QED BY <1>1, <2>1, NeedLasts
<1> QED
  BY <1>1, <1>2 DEF Locals

LEMMA WorkerAppliesKeeps ==
    ASSUME DaemonInv, NEW w \in Workers, WorkerApplies(w)
    PROVE  StoreStep /\ Locals'
<1>1. At(w, "tunnel") /\ nextMachine' = nextMachine
  BY DEF WorkerApplies, WorkerInTunnel, bounds
<1>2. StoreStep
  BY NoStoreCall DEF WorkerApplies, WorkerReturns, ApplyRead, ApplyWrite, ApplyFails, ApplyRestart
<1>3. CASE UNCHANGED req
  BY <1>1, <1>2, <1>3, OthersKeep
<1>4. CASE Finish(w)
  BY <1>1, <1>2, <1>4, ReturnKeeps
<1>5. CASE Goto(w, "setowner") /\ req[w].op = "deploy"
  <2>1. Need(req[w], "setowner", subnets, nextMachine)
    BY <1>1, <1>5, Serving DEF Need, ConfigPcs, ReleasePcs, MachinePcs, LoopPcs
  <2>2. "setowner" \in Pcs /\ Locals /\ Ids
    BY DEF Pcs, DaemonInv
  <2> QED BY <1>1, <1>2, <1>5, <2>1, <2>2, GotoKeeps
<1> QED
  BY <1>3, <1>4, <1>5 DEF WorkerApplies, WorkerReturns

\* Whatever a request does, it uses the store as a client of StoreSpec and
\* keeps what its next call needs.
LEMMA WorkerKeeps ==
    ASSUME DaemonInv, NEW w \in Workers, WorkerStep(w) \/ CommandEnds(w)
    PROVE  StoreStep /\ Locals'
<1>1. CASE PrepareStep(w)
  BY <1>1, BootMoves, ReadConfigKeeps, BuildRootfsKeeps, RecordReleaseKeeps, FindReleaseKeeps
     DEF PrepareStep
<1>2. CASE BootStep(w) \/ CommandEnds(w)
  BY <1>2, BootMoves, ReadOwnerKeeps, FindSubnetKeeps, InsertMachineKeeps, CommandKeeps,
     DeleteCommandRowKeeps DEF BootStep
<1>3. CASE CutoverStep(w)
  BY <1>3, EndMoves, ListsKeep, WorkerAppliesKeeps DEF CutoverStep
<1>4. CASE DestroyStep(w)
  BY <1>4, EndMoves DEF DestroyStep
<1> QED
  BY <1>1, <1>2, <1>3, <1>4, SmallRequestsKeep DEF WorkerStep

-----------------------------------------------------------------------------
(* The other goroutines: machine watchers, the VMs and main.               *)

LEMMA WatcherKeeps ==
    ASSUME DaemonInv, NEW m \in Machines, WatchStep(m) \/ VmExit(m)
    PROVE  StoreStep /\ Locals'
<1>1. UNCHANGED req /\ nextMachine' = nextMachine
  BY DEF WatchStep, WatchWakes, WatchReads, WatchMarks, WatchUnhandles, WatchDeletes,
     WatcherApplies, VmExit, bounds
<1>2. StoreStep
  <2>1. CASE WatchMarks(m) \/ WatchDeletes(m)
    BY <2>1, StatesCall, NoStoreCall DEF WatchMarks, WatchDeletes
  <2>2. CASE WatchWakes(m) \/ WatchReads(m) \/ WatchUnhandles(m) \/ WatcherApplies(m) \/ VmExit(m)
    BY <2>2, NoStoreCall DEF WatchWakes, WatchReads, WatchUnhandles, WatcherApplies, VmExit,
       ApplyRead, ApplyWrite, ApplyFails, ApplyRestart
  <2> QED BY <2>1, <2>2 DEF WatchStep
<1> QED
  BY <1>1, <1>2, OthersKeep

LEMMA MainKeeps ==
    ASSUME DaemonInv, MainStep \/ Terminate \/ Crash
    PROVE  StoreStep /\ Locals'
<1>1. CASE Exit \/ Crash
  <2>1. StoreStep /\ req' = [w \in Workers |-> Idle]
    BY <1>1, NoStoreCall DEF Exit, Crash, Gone
  <2> QED BY <2>1, IdleTyped DEF Locals
<1>2. CASE Start \/ Reconciled \/ MainApplies \/ Terminate
  <2>1. StoreStep
    BY <1>2, NoStoreCall DEF Start, Reconciled, MainApplies, Terminate, deployerVars,
       ApplyRead, ApplyWrite, ApplyFails, ApplyRestart
  <2>2. UNCHANGED req /\ nextMachine' = nextMachine
    BY <1>2 DEF Start, Reconciled, MainApplies, Terminate, deployerVars, bounds
  <2> QED BY <2>1, <2>2, OthersKeep
<1>3. ASSUME NEW m \in Machines,
             ReconcileSubnet(m) \/ ReconcileOne(m) \/ ReconcileFails(m) \/ StopOne(m)
      PROVE  StoreStep /\ Locals'
  <2>1. UNCHANGED req /\ nextMachine' = nextMachine
    BY <1>3 DEF ReconcileSubnet, ReconcileOne, ReconcileFails, ReconcileVisit, StopOne, bounds
  <2>2. CASE ReconcileSubnet(m)
    <3>1. m \in DOMAIN machines
      BY <2>2 DEF ReconcileSubnet, DaemonInv, Phases
    <3>2. Owner(m) \in Owners
      BY <3>1 DEF Owner, DaemonInv, StoreInv, StoreTypeOK, ForeignKeys, AppRow
    <3>3. StoreStep
      BY <2>2, <3>2 DEF ReconcileSubnet, StoreStep, StoreNext
    <3> QED BY <2>1, <3>3, OthersKeep
  <2>3. CASE ReconcileOne(m) \/ ReconcileFails(m)
    <3>1. StoreStep
      BY <2>3, StatesCall DEF ReconcileOne, ReconcileFails
    <3> QED BY <2>1, <3>1, OthersKeep
  <2>4. CASE StopOne(m)
    <3>1. StoreStep
      BY <2>4, NoStoreCall DEF StopOne
    <3> QED BY <2>1, <3>1, OthersKeep
  <2> QED BY <1>3, <2>2, <2>3, <2>4
<1> QED
  BY <1>1, <1>2, <1>3 DEF MainStep

-----------------------------------------------------------------------------
(* The config cache and the ingress.                                       *)

\* The config appConfig finds is one somebody stored.
LEMMA LookupFound ==
    ASSUME DaemonInv, NEW a, Known(a)
    PROVE  a \in Apps /\ Lookup(a) \in Configs
  BY DEF Lookup, Known, DaemonInv, Caches, StoreInv, StoreTypeOK, AppRow

\* An app with a running machine has a newest one.
LEMMA NewestRuns ==
    ASSUME DaemonInv, NEW a \in {machines[m].app : m \in RunningMachines}
    PROVE  a \in Apps /\ NewestRunning(a) \in RunningMachines
<1>1. RunningMachines \subseteq 0..nextMachine /\ nextMachine \in Nat
  <2>1. RunningMachines \subseteq Nat /\ nextMachine \in Nat
    BY TunnelAssumption DEF DaemonInv, StoreInv, StoreTypeOK, Ids, RunningMachines
  <2>2. \A m \in RunningMachines : m < nextMachine
    BY DEF DaemonInv, Ids, RunningMachines
  <2> QED BY <2>1, <2>2
<1> DEFINE S == {m \in RunningMachines : machines[m].app = a}
<1>2. S # {} /\ S \in SUBSET (0..nextMachine)
  BY <1>1
<1>3. Greatest(S) \in S
  BY <1>1, <1>2, GreatestIsMember
<1>4. NewestRunning(a) \in RunningMachines
  BY <1>3 DEF NewestRunning
<1>5. a \in Apps
  BY DEF DaemonInv, StoreInv, StoreTypeOK, MachineRow, RunningMachines
<1> QED
  BY <1>4, <1>5

\* applyTunnel lists, for each app with a running machine, the address of one.
LEMMA ServingRowsTyped ==
    ASSUME DaemonInv
    PROVE  Rows(ServingRows)
<1>1. ASSUME NEW m \in RunningMachines PROVE machines[m].ip \in Addresses
  BY DEF DaemonInv, StoreInv, StoreTypeOK, MachineRow, RunningMachines
<1> QED
  BY <1>1, NewestRuns DEF Rows, ServingRows

\* applyTunnel caches configs it found, whether it goes on or gives up.
LEMMA FindsWhatItCaches ==
    ASSUME NEW c, ApplyWrite(c) \/ ApplyFails(c)
    PROVE  \E S : CacheFound(S) /\ S \subseteq DOMAIN rendering[2] /\ \A a \in S : Known(a)
<1>1. CASE ApplyWrite(c)
  BY <1>1 DEF ApplyWrite
<1>2. CASE ApplyFails(c)
  <2> DEFINE known == {a \in DOMAIN rendering[2] : Known(a)}
  <2>1. \E S \in SUBSET known : CacheFound(S)
    BY <1>2 DEF ApplyFails
  <2> QED BY <2>1
<1> QED
  BY <1>1, <1>2

LEMMA CachesFound ==
    ASSUME DaemonInv, NEW c, ApplyWrite(c) \/ ApplyFails(c)
    PROVE  Caches'
<1>1. PICK S : CacheFound(S) /\ \A a \in S : Known(a)
  BY FindsWhatItCaches
<1>2. \A a \in DOMAIN appConfigs \cup S : a \in Apps /\ Lookup(a) \in Configs
  BY <1>1, LookupFound DEF Known
<1>3. appConfigs' = [a \in DOMAIN appConfigs \cup S |-> Lookup(a)]
  BY <1>1 DEF CacheFound
<1> QED
  BY <1>2, <1>3 DEF Caches

LEMMA ApplyKeeps ==
    ASSUME DaemonInv, NEW c \in {Main} \cup Workers \cup Machines,
           ApplyRead(c) \/ ApplyWrite(c) \/ ApplyFails(c) \/ ApplyRestart(c)
    PROVE  Caches' /\ Ingress'
<1>1. CASE ApplyRead(c)
  <2>1. Caches'
    BY <1>1 DEF ApplyRead, DaemonInv, Caches
  <2>2. rendering' = <<"rows", ServingRows>> /\ Rows(ServingRows)
    BY <1>1, ServingRowsTyped DEF ApplyRead
  <2>3. Ingress'
    BY <1>1, <2>2 DEF ApplyRead, DaemonInv, Ingress, Rows, Routes
  <2> QED BY <2>1, <2>3
<1>2. CASE ApplyWrite(c)
  <2> DEFINE found == rendering[2]
  <2>1. Rows(found) /\ \A a \in DOMAIN found : a \in Apps /\ Lookup(a) \in Configs
    BY <1>2, LookupFound DEF ApplyWrite, DaemonInv, Ingress
  <2>4. Caches'
    BY <1>2, CachesFound
  <2>5. disk' = [a \in {b \in DOMAIN found : Lookup(b).port # 0} |->
                    [ip |-> found[a], port |-> Lookup(a).port]]
    BY <1>2 DEF ApplyWrite
  <2>6. Routes(disk)'
    BY <2>1, <2>5 DEF Routes, Rows
  <2>7. rendering' = <<"written", NoRows>> /\ tunnelMu' = tunnelMu /\ live' = live
    BY <1>2 DEF ApplyWrite
  <2>8. Ingress'
    BY <2>6, <2>7 DEF DaemonInv, Ingress, Routes
  <2> QED BY <2>4, <2>8
<1>3. CASE ApplyFails(c) \/ ApplyRestart(c)
  <2>1. Caches'
    BY <1>3, CachesFound DEF ApplyRestart, DaemonInv, Caches
  <2>2. rendering'[1] = "none" /\ tunnelMu' = Nil /\ disk' = disk /\ (live' = live \/ live' = disk)
    BY <1>3 DEF ApplyFails, ApplyRestart, NotRendering
  <2>3. Ingress'
    BY <2>2 DEF DaemonInv, Ingress, Routes
  <2> QED BY <2>1, <2>3
<1> QED
  BY <1>1, <1>2, <1>3

\* What the steps outside applyTunnel leave alone.
LEMMA CacheUntouched ==
    ASSUME DaemonInv, UNCHANGED appConfigs
    PROVE  Caches'
  BY DEF DaemonInv, Caches

LEMMA IngressUntouched ==
    ASSUME DaemonInv, UNCHANGED tunnelVars
    PROVE  Ingress'
  BY DEF DaemonInv, Ingress, tunnelVars, Rows, Routes

LEMMA WorkerKeepsIngress ==
    ASSUME DaemonInv, NEW w \in Workers, Issue(w) \/ WorkerStep(w) \/ CommandEnds(w)
    PROVE  Caches' /\ Ingress'
<1>1. CASE WorkerApplies(w)
  BY <1>1, ApplyKeeps DEF WorkerApplies, WorkerReturns
<1>2. CASE CacheConfig(w) \/ RecacheConfig(w)
  <2>1. UNCHANGED tunnelVars /\ appConfigs' = Put(appConfigs, req[w].app, req[w].cfg)
    BY <1>2 DEF CacheConfig, RecacheConfig
  <2>2. req[w].app \in Apps /\ req[w].cfg \in Configs
    BY <1>2, Serving DEF CacheConfig, RecacheConfig, Need, ConfigPcs
  <2>3. Caches'
    BY <2>1, <2>2 DEF DaemonInv, Caches, Put
  <2> QED BY <2>1, <2>3, IngressUntouched
<1>3. CASE DestroyCached(w)
  <2>1. UNCHANGED tunnelVars /\ Caches'
    BY <1>3 DEF DestroyCached, Drop, DaemonInv, Caches
  <2> QED BY <2>1, IngressUntouched
<1>4. CASE UNCHANGED <<appConfigs, tunnelVars>>
  BY <1>4, CacheUntouched, IngressUntouched
<1>5. CASE PrepareStep(w)
  BY <1>2, <1>4, <1>5 DEF PrepareStep, StoreConfig, ReadConfig, BuildRootfs, RecordRelease, FindRelease
<1>6. CASE BootStep(w)
  BY <1>4, <1>6 DEF BootStep, ResolveVolumes, ReadOwner, FindSubnet, InsertMachine, StartMachine,
     StartFails, PrepareFails, StopCommandVm, DeleteCommandRow, SetHandle, AwaitHealthy,
     StopNew, UnhandleNew, MarkFailed, DeleteNew, MarkRunning
<1>7. CASE CutoverStep(w)
  BY <1>1, <1>4, <1>7 DEF CutoverStep, ListMachines, StopListed, DeleteListed, UnhandleListed,
     EmitOk, RecordOwner
<1>8. CASE DestroyStep(w)
  BY <1>3, <1>4, <1>8 DEF DestroyStep, DestroyReleases, DestroySecrets, DestroyVolumes,
     DestroyApp, DestroyFiles
<1>9. CASE Issue(w) \/ CommandEnds(w) \/ ChangeSecret(w) \/ MakeVolume(w) \/ InsertVolume(w)
  BY <1>4, <1>9 DEF Issue, CommandEnds, ChangeSecret, MakeVolume, InsertVolume
<1> QED
  BY <1>5, <1>6, <1>7, <1>8, <1>9 DEF WorkerStep

LEMMA IngressKept ==
    ASSUME DaemonInv, Next
    PROVE  Caches' /\ Ingress'
<1>1. ASSUME NEW m \in Machines, WatchStep(m) \/ VmExit(m)
      PROVE  Caches' /\ Ingress'
  <2>1. CASE WatcherApplies(m)
    BY <2>1, ApplyKeeps DEF WatcherApplies
  <2>2. CASE UNCHANGED <<appConfigs, tunnelVars>>
    BY <2>2, CacheUntouched, IngressUntouched
  <2> QED BY <1>1, <2>1, <2>2 DEF WatchStep, WatchWakes, WatchReads, WatchMarks, WatchUnhandles,
             WatchDeletes, VmExit
<1>2. CASE Start \/ Reconciled \/ Terminate
  BY <1>2, CacheUntouched, IngressUntouched DEF Start, Reconciled, Terminate, deployerVars
<1>3. CASE MainApplies
  BY <1>3, ApplyKeeps DEF MainApplies
<1>4. CASE Exit \/ Crash
  <2>1. appConfigs' = NoRows /\ tunnelMu' = Nil /\ rendering' = NotRendering /\ UNCHANGED <<disk, live>>
    BY <1>4 DEF Exit, Crash, Gone
  <2>2. DOMAIN NoRows = {} /\ NotRendering[1] = "none"
    BY DEF NoRows, NotRendering
  <2> QED BY <2>1, <2>2 DEF Caches, Ingress, DaemonInv, Routes
<1>5. ASSUME NEW m \in Machines, ReconcileSubnet(m) \/ StopOne(m)
      PROVE  Caches' /\ Ingress'
  BY <1>5, CacheUntouched, IngressUntouched DEF ReconcileSubnet, StopOne
<1>6. ASSUME NEW m \in Machines, ReconcileVisit(m)
      PROVE  Caches' /\ Ingress'
  <2> DEFINE a == machines[m].app
  <2>1. UNCHANGED tunnelVars /\ appConfigs' = Put(appConfigs, a, Lookup(a)) /\ m \in DOMAIN machines
    BY <1>6 DEF ReconcileVisit, DaemonInv, Phases
  <2>2. a \in DOMAIN apps
    BY <2>1 DEF DaemonInv, StoreInv, ForeignKeys
  <2>3. a \in Apps /\ Lookup(a) \in Configs
    BY <2>2, LookupFound DEF Known
  <2>4. Caches'
    BY <2>1, <2>3 DEF DaemonInv, Caches, Put
  <2> QED BY <2>1, <2>4, IngressUntouched
<1>7. CASE DeployerStep
  BY <1>1, <1>7, WorkerKeepsIngress DEF DeployerStep
<1>8. CASE MainStep
  BY <1>2, <1>3, <1>4, <1>5, <1>6, <1>8 DEF MainStep, ReconcileOne, ReconcileFails
<1> QED
  BY <1>2, <1>4, <1>7, <1>8 DEF Next

-----------------------------------------------------------------------------
(* Handles, VMs and watchers.                                              *)

Handled == handles \subseteq Machines

Running == DOMAIN vms \subseteq Machines /\ \A m \in DOMAIN vms : vms[m] \in VmType

Watched == DOMAIN watch \subseteq Machines /\ \A m \in DOMAIN watch : watch[m] \in WatchPcs

LEMMA ProcessParts == Processes <=> Handled /\ Running /\ Watched
  BY DEF Processes, Handled, Running, Watched

LEMMA BootKeeps ==
    ASSUME Running, NEW id \in Machines, NEW a \in Apps, NEW i \in Images \cup {0},
           NEW ip \in Addresses, NEW idx \in 0..SubnetMax, NEW cfg, cfg.port \in Nat,
           cfg.mounts \in SUBSET VolNames, Boot(id, a, i, ip, idx, cfg)
    PROVE  Running'
<1> DEFINE v == [app |-> a, image |-> i, ip |-> ip, bridge |-> idx, port |-> cfg.port,
                 mounts |-> cfg.mounts, dying |-> FALSE]
<1>1. v \in VmType
  BY DEF VmType
<1>2. vms' = Put(vms, id, v)
  BY DEF Boot
<1> HIDE DEF v
<1> QED
  BY <1>1, <1>2 DEF Running, Put

LEMMA DropKeeps ==
    ASSUME Running, NEW S, vms' = Drop(vms, S)
    PROVE  Running'
  BY DEF Running, Drop

LEMMA StopKeeps ==
    ASSUME Running, NEW id, Stop(id)
    PROVE  Running'
<1>1. CASE vms' = Drop(vms, {id})
  BY <1>1, DropKeeps
<1>2. CASE id \in DOMAIN vms /\ vms' = [vms EXCEPT ![id].dying = TRUE]
  <2>1. [vms[id] EXCEPT !.dying = TRUE] \in VmType
    BY <1>2 DEF Running, VmType
  <2> QED BY <1>2, <2>1 DEF Running
<1> QED
  BY <1>1, <1>2 DEF Stop

\* The process tables under a request's steps.
LEMMA WorkerKeepsProcesses ==
    ASSUME DaemonInv, NEW w \in Workers, Issue(w) \/ WorkerStep(w) \/ CommandEnds(w)
    PROVE  Handled' /\ Running' /\ Watched'
<1>1. Handled /\ Running /\ Watched
  BY ProcessParts DEF DaemonInv
<1>2. ASSUME UNCHANGED handles PROVE Handled'
  BY <1>1, <1>2 DEF Handled
<1>3. ASSUME UNCHANGED vms PROVE Running'
  BY <1>1, <1>3 DEF Running
<1>4. ASSUME UNCHANGED watch PROVE Watched'
  BY <1>1, <1>4 DEF Watched
<1>5. CASE UNCHANGED <<handles, vms, watch>>
  BY <1>2, <1>3, <1>4, <1>5
<1>6. CASE StartMachine(w)
  <2> DEFINE r == req[w]
             cfg == [r.cfg EXCEPT !.mounts = MountsOf(r)]
  <2>1. /\ r.id \in Machines /\ r.app \in Apps /\ r.image \in Images \cup {0} /\ r.ip \in Addresses
        /\ r.idx \in 0..SubnetMax /\ r.cfg \in Configs
    BY <1>6, Serving DEF StartMachine, Need, MachinePcs, ConfigPcs, ReleasePcs, ReqType
  <2>2. r.cfg \in [port : Nat, release : BOOLEAN, mounts : SUBSET VolNames]
    BY <2>1, TunnelAssumption
  <2>3. MountsOf(r) \in SUBSET VolNames
    BY <2>2 DEF MountsOf
  <2>4. cfg.port \in Nat /\ cfg.mounts \in SUBSET VolNames
    BY <2>2, <2>3
  <2>5. Boot(r.id, r.app, r.image, r.ip, r.idx, cfg) /\ UNCHANGED <<handles, watch>>
    BY <1>6 DEF StartMachine
  <2> HIDE DEF cfg
  <2> QED BY <1>1, <1>2, <1>4, <2>1, <2>4, <2>5, BootKeeps
<1>7. CASE StopCommandVm(w) \/ StopNew(w) \/ StopListed(w) \/ CommandEnds(w)
  BY <1>1, <1>2, <1>3, <1>4, <1>7, DropKeeps, StopKeeps
     DEF StopCommandVm, StopNew, StopListed, CommandEnds
<1>8. CASE SetHandle(w) \/ UnhandleNew(w) \/ UnhandleListed(w)
  <2>1. At(w, "handle") => req[w].id \in Machines
    BY Serving DEF Need, MachinePcs
  <2>2. Handled'
    BY <1>1, <1>8, <2>1 DEF SetHandle, UnhandleNew, UnhandleListed, Handled
  <2> QED BY <1>3, <1>4, <1>8, <2>2 DEF SetHandle, UnhandleNew, UnhandleListed
<1>9. CASE MarkRunning(w)
  <2>1. req[w].id \in Machines
    BY <1>9, Serving DEF MarkRunning, Need, MachinePcs
  <2>2. ASSUME watch' = Put(watch, req[w].id, "wait") PROVE Watched'
    BY <1>1, <2>1, <2>2 DEF Watched, Put, WatchPcs
  <2> QED BY <1>2, <1>3, <1>4, <1>9, <2>2 DEF MarkRunning
<1>10. CASE PrepareStep(w)
  BY <1>5, <1>10 DEF PrepareStep, StoreConfig, CacheConfig, ReadConfig, RecacheConfig, BuildRootfs,
     RecordRelease, FindRelease
<1>11. CASE BootStep(w)
  BY <1>5, <1>6, <1>7, <1>8, <1>9, <1>11 DEF BootStep, ResolveVolumes, ReadOwner, FindSubnet,
     InsertMachine, StartFails, PrepareFails, DeleteCommandRow, AwaitHealthy, MarkFailed, DeleteNew
<1>12. CASE CutoverStep(w)
  BY <1>5, <1>7, <1>8, <1>12 DEF CutoverStep, ListMachines, DeleteListed, EmitOk, RecordOwner,
     WorkerApplies
<1>13. CASE DestroyStep(w)
  BY <1>5, <1>13 DEF DestroyStep, DestroyReleases, DestroySecrets, DestroyVolumes, DestroyApp,
     DestroyCached, DestroyFiles
<1>14. CASE Issue(w) \/ ChangeSecret(w) \/ MakeVolume(w) \/ InsertVolume(w)
  BY <1>5, <1>14 DEF Issue, ChangeSecret, MakeVolume, InsertVolume
<1> QED
  BY <1>7, <1>10, <1>11, <1>12, <1>13, <1>14 DEF WorkerStep

LEMMA AdvanceKeeps ==
    ASSUME Watched, NEW m, NEW from, NEW to \in WatchPcs, Advance(m, from, to)
    PROVE  Watched'
  BY DEF Watched, Advance

LEMMA WatcherKeepsProcesses ==
    ASSUME DaemonInv, NEW m \in Machines, WatchStep(m) \/ VmExit(m)
    PROVE  Handled' /\ Running' /\ Watched'
<1>1. Handled /\ Running /\ Watched
  BY ProcessParts DEF DaemonInv
<1>2. Handled'
  BY <1>1 DEF WatchStep, WatchWakes, WatchReads, WatchMarks, WatchUnhandles, WatchDeletes,
     WatcherApplies, VmExit, Handled
<1>3. Running'
  <2>1. vms' = vms \/ vms' = Drop(vms, {m})
    BY DEF WatchStep, WatchWakes, WatchReads, WatchMarks, WatchUnhandles, WatchDeletes,
       WatcherApplies, VmExit
  <2> QED BY <1>1, <2>1, DropKeeps DEF Running
<1>4. Watched'
  <2>1. CASE UNCHANGED watch \/ Unwatch(m)
    BY <1>1, <2>1 DEF Watched, Unwatch, Drop
  <2>2. CASE \E from, to \in WatchPcs : Advance(m, from, to)
    BY <1>1, <2>2, AdvanceKeeps
  <2>3. WatchPcs = {"wait", "read", "mark", "unhandle", "delete", "tunnel"}
    BY DEF WatchPcs
  <2>4. CASE WatchWakes(m) \/ WatchReads(m)
    <3>1. Unwatch(m) \/ Advance(m, "wait", "read") \/ Advance(m, "read", "mark")
      BY <2>4 DEF WatchWakes, WatchReads
    <3> QED BY <2>1, <2>2, <2>3, <3>1
  <2>5. CASE WatchMarks(m) \/ WatchUnhandles(m) \/ WatchDeletes(m)
    <3>1. \/ Advance(m, "mark", "unhandle") \/ Advance(m, "unhandle", "delete")
          \/ Advance(m, "delete", "tunnel")
      BY <2>5 DEF WatchMarks, WatchUnhandles, WatchDeletes
    <3> QED BY <2>2, <2>3, <3>1
  <2>6. CASE WatcherApplies(m) \/ VmExit(m)
    BY <2>1, <2>6 DEF WatcherApplies, VmExit
  <2> QED BY <2>4, <2>5, <2>6 DEF WatchStep
<1> QED
  BY <1>2, <1>3, <1>4

LEMMA ReconcileOneKeepsProcesses ==
    ASSUME DaemonInv, NEW m \in Machines, ReconcileOne(m)
    PROVE  Handled' /\ Running' /\ Watched'
<1>1. Handled /\ Running /\ Watched
  BY ProcessParts DEF DaemonInv
<1> DEFINE a == machines[m].app
           i == releases[machines[m].release].image
           s == subnets[Owner(m)]
<1>2. m \in DOMAIN machines
  BY DEF ReconcileOne, ReconcileVisit, DaemonInv, Phases
<1>3. a \in Apps /\ a \in DOMAIN apps /\ machines[m].ip \in Addresses
  BY <1>2 DEF DaemonInv, StoreInv, StoreTypeOK, MachineRow, ForeignKeys
<1>4. i \in Images \cup {0}
  BY DEF ReconcileOne, Resolved, DaemonInv, StoreInv, StoreTypeOK, ReleaseRow
<1>5. s \in 0..SubnetMax
  BY DEF ReconcileOne, DaemonInv, StoreInv, StoreTypeOK
<1>6. Lookup(a) \in [port : Nat, release : BOOLEAN, mounts : SUBSET VolNames]
  BY <1>3, LookupFound, TunnelAssumption DEF Known
<1>7. /\ Boot(m, a, i, machines[m].ip, s, Lookup(a))
      /\ handles' = handles \cup {m}
      /\ watch' = Put(watch, m, "wait")
  BY DEF ReconcileOne
<1> HIDE DEF a, i, s
<1>8. Running'
  BY <1>1, <1>3, <1>4, <1>5, <1>6, <1>7, BootKeeps
<1>9. Handled' /\ Watched'
  BY <1>1, <1>7 DEF Handled, Watched, Put, WatchPcs
<1> QED
  BY <1>8, <1>9

LEMMA ProcessesKept ==
    ASSUME DaemonInv, Next
    PROVE  Processes'
<1>1. Handled /\ Running /\ Watched
  BY ProcessParts DEF DaemonInv
<1> SUFFICES Handled' /\ Running' /\ Watched'
  BY DEF Processes, Handled, Running, Watched
<1>2. CASE DeployerStep
  BY <1>2, WorkerKeepsProcesses, WatcherKeepsProcesses DEF DeployerStep
<1>3. CASE UNCHANGED <<handles, vms, watch>>
  BY <1>1, <1>3 DEF Handled, Running, Watched
<1>4. CASE Exit \/ Crash
  <2>1. handles' = {} /\ vms' = NoRows /\ watch' = NoRows /\ DOMAIN NoRows = {}
    BY <1>4 DEF Exit, Crash, Gone, NoRows
  <2> QED BY <2>1 DEF Handled, Running, Watched
<1>5. ASSUME NEW m \in Machines, StopOne(m)
      PROVE  Handled' /\ Running' /\ Watched'
  BY <1>1, <1>5, DropKeeps DEF StopOne, Handled, Watched
<1>6. CASE MainStep
  BY <1>3, <1>4, <1>5, <1>6, ReconcileOneKeepsProcesses
     DEF MainStep, Start, ReconcileSubnet, ReconcileFails, Reconciled, MainApplies, deployerVars
<1> QED
  BY <1>2, <1>3, <1>4, <1>6 DEF Next, Terminate

-----------------------------------------------------------------------------
(* Ids and the phases of a run.                                            *)

\* Only InsertMachine adds a row, under the next id.
LEMMA NoNewRows ==
    ASSUME NEW w \in Workers, Issue(w) \/ WorkerStep(w) \/ CommandEnds(w), ~InsertMachine(w)
    PROVE  DOMAIN machines' \subseteq DOMAIN machines /\ nextMachine' = nextMachine
<1>1. CASE UNCHANGED <<machines, nextMachine>>
  BY <1>1
<1>2. CASE nextMachine' = nextMachine /\ \E m : DeleteMachine(m)
  BY <1>2 DEF DeleteMachine, Drop
<1>3. CASE nextMachine' = nextMachine /\ \E m, s, p : SetMachineState(m, s, p)
  BY <1>3 DEF SetMachineState
<1>4. CASE PrepareStep(w)
  BY <1>1, <1>4 DEF PrepareStep, StoreConfig, CacheConfig, ReadConfig, RecacheConfig, BuildRootfs,
     RecordRelease, FindRelease, UpsertApp, InsertRelease, storeVars, bounds
<1>5. CASE BootStep(w)
  BY <1>1, <1>2, <1>3, <1>5 DEF BootStep, ResolveVolumes, ReadOwner, FindSubnet, StartMachine,
     StartFails, PrepareFails, StopCommandVm, DeleteCommandRow, SetHandle, AwaitHealthy,
     StopNew, UnhandleNew, MarkFailed, DeleteNew, MarkRunning, SubnetForOwner, storeVars, bounds
<1>6. CASE CutoverStep(w)
  <2>1. CASE WorkerApplies(w)
    BY <1>1, <2>1 DEF WorkerApplies, WorkerReturns, ApplyRead, ApplyWrite, ApplyFails,
       ApplyRestart, storeVars, bounds
  <2> QED BY <1>1, <1>2, <1>6, <2>1 DEF CutoverStep, ListMachines, StopListed, DeleteListed,
             UnhandleListed, EmitOk, RecordOwner, SetAppOwner, storeVars, bounds
<1>7. CASE DestroyStep(w)
  BY <1>1, <1>7 DEF DestroyStep, DestroyReleases, DestroySecrets, DestroyVolumes, DestroyApp,
     DestroyCached, DestroyFiles, DeleteReleasesForApp, DeleteSecretsForApp, DeleteVolumesForApp,
     DeleteApp, storeVars, bounds
<1>8. CASE Issue(w) \/ CommandEnds(w) \/ ChangeSecret(w) \/ MakeVolume(w) \/ InsertVolume(w)
  BY <1>1, <1>8 DEF Issue, CommandEnds, ChangeSecret, MakeVolume, InsertVolume, PutSecret,
     DeleteSecret, CreateVolume, storeVars, bounds
<1> QED
  BY <1>4, <1>5, <1>6, <1>7, <1>8 DEF WorkerStep

LEMMA IdsKept ==
    ASSUME DaemonInv, Next
    PROVE  Ids'
<1>1. nextMachine \in Nat /\ \A m \in DOMAIN machines : m < nextMachine
  BY DEF DaemonInv, Ids
<1>2. ASSUME DOMAIN machines' \subseteq DOMAIN machines, nextMachine' = nextMachine
      PROVE  Ids'
  BY <1>1, <1>2 DEF Ids
<1>3. ASSUME NEW w \in Workers, InsertMachine(w)
      PROVE  Ids'
  <2>1. CASE UNCHANGED <<storeVars, nextMachine>>
    BY <1>2, <2>1 DEF storeVars
  <2>2. CASE /\ nextMachine' = nextMachine + 1
             /\ \E a, r, i : AllocAndInsertMachine(nextMachine, a, r, i)
    <3>1. DOMAIN machines' = DOMAIN machines \cup {nextMachine} /\ DOMAIN machines \subseteq Nat
      BY <2>2, TunnelAssumption DEF AllocAndInsertMachine, Put, DaemonInv, StoreInv, StoreTypeOK
    <3>2. \A i \in Nat : i < nextMachine \/ i = nextMachine => i < nextMachine'
      BY <1>1, <2>2
    <3>3. nextMachine' \in Nat
      BY <1>1, <2>2
    <3> QED BY <1>1, <3>1, <3>2, <3>3 DEF Ids
  <2> QED BY <1>3, <2>1, <2>2 DEF InsertMachine
<1>4. ASSUME NEW m \in Machines, WatchStep(m) \/ VmExit(m)
      PROVE  Ids'
  <2>1. nextMachine' = nextMachine
    BY <1>4 DEF WatchStep, WatchWakes, WatchReads, WatchMarks, WatchUnhandles, WatchDeletes,
       WatcherApplies, VmExit, bounds
  <2>2. DOMAIN machines' \subseteq DOMAIN machines
    <3>1. CASE WatchMarks(m) \/ WatchDeletes(m)
      BY <3>1 DEF WatchMarks, WatchDeletes, SetMachineState, DeleteMachine, Drop, storeVars
    <3>2. CASE WatchWakes(m) \/ WatchReads(m) \/ WatchUnhandles(m) \/ WatcherApplies(m) \/ VmExit(m)
      BY <3>2 DEF WatchWakes, WatchReads, WatchUnhandles, WatcherApplies, VmExit, ApplyRead,
         ApplyWrite, ApplyFails, ApplyRestart, storeVars
    <3> QED BY <1>4, <3>1, <3>2 DEF WatchStep
  <2> QED BY <1>2, <2>1, <2>2
<1>5. CASE DeployerStep
  BY <1>2, <1>3, <1>4, <1>5, NoNewRows DEF DeployerStep, WorkerStep
<1>6. CASE MainStep \/ Terminate \/ Crash
  <2>1. nextMachine' = nextMachine
    BY <1>6 DEF MainStep, Start, ReconcileSubnet, ReconcileOne, ReconcileFails, ReconcileVisit,
       StopOne, Reconciled, MainApplies, Exit, Gone, Terminate, Crash, deployerVars, bounds
  <2>2. CASE UNCHANGED storeVars
    BY <1>2, <2>1, <2>2 DEF storeVars
  <2>3. ASSUME NEW m \in Machines, ReconcileSubnet(m) \/ ReconcileOne(m) \/ ReconcileFails(m)
        PROVE  Ids'
    <3>1. DOMAIN machines' \subseteq DOMAIN machines
      BY <2>3 DEF ReconcileSubnet, ReconcileOne, ReconcileFails, SetMachineState, SubnetForOwner
    <3> QED BY <1>2, <2>1, <3>1
  <2> QED BY <1>6, <2>2, <2>3 DEF MainStep, Start, StopOne, Reconciled, MainApplies, Exit, Gone,
             Terminate, Crash, deployerVars, ApplyRead, ApplyWrite, ApplyFails, ApplyRestart
<1> QED
  BY <1>5, <1>6 DEF Next

\* A step of a request is a step of a request that is being served, while the
\* daemon is up or stopping.
LEMMA WorkerIsBusy ==
    ASSUME DaemonInv, NEW w \in Workers, WorkerStep(w) \/ CommandEnds(w)
    PROVE  req[w].pc # "idle" /\ phase \in {"up", "stopping"}
<1>1. CASE PrepareStep(w) \/ DestroyStep(w) \/ ChangeSecret(w) \/ MakeVolume(w) \/ InsertVolume(w)
  BY <1>1 DEF PrepareStep, StoreConfig, CacheConfig, ReadConfig, RecacheConfig, BuildRootfs,
     RecordRelease, FindRelease, DestroyStep, DestroyReleases, DestroySecrets, DestroyVolumes,
     DestroyApp, DestroyCached, DestroyFiles, ChangeSecret, MakeVolume, InsertVolume, At,
     DaemonInv, Phases
<1>2. CASE BootStep(w) \/ CommandEnds(w)
  BY <1>2 DEF BootStep, ResolveVolumes, ReadOwner, FindSubnet, InsertMachine, StartMachine,
     StartFails, PrepareFails, StopCommandVm, DeleteCommandRow, SetHandle, AwaitHealthy,
     StopNew, UnhandleNew, MarkFailed, DeleteNew, MarkRunning, CommandEnds, At, DaemonInv, Phases
<1>3. CASE CutoverStep(w)
  BY <1>3 DEF CutoverStep, ListMachines, StopListed, DeleteListed, UnhandleListed, EmitOk,
     WorkerApplies, WorkerInTunnel, RecordOwner, At, DaemonInv, Phases
<1> QED
  BY <1>1, <1>2, <1>3 DEF WorkerStep

\* A watcher touches the row of its own machine, and none when there is none.
LEMMA WatcherMinds ==
    ASSUME NEW m \in Machines, WatchStep(m) \/ VmExit(m)
    PROVE  /\ DOMAIN watch' \subseteq DOMAIN watch
           /\ \A n \in DOMAIN machines : n \notin DOMAIN watch => n \in DOMAIN machines'
           /\ watch = NoRows => watch' = NoRows
<1>1. CASE VmExit(m)
  BY <1>1 DEF VmExit, storeVars
<1>2. CASE WatchStep(m)
  <2>1. m \in DOMAIN watch
    BY <1>2 DEF WatchStep, WatchWakes, WatchReads, WatchMarks, WatchUnhandles, WatchDeletes,
       WatcherApplies, WatcherInTunnel, Advance
  <2>2. watch # NoRows
    BY <2>1 DEF NoRows
  <2>3. DOMAIN watch' \subseteq DOMAIN watch
    BY <1>2 DEF WatchStep, WatchWakes, WatchReads, WatchMarks, WatchUnhandles, WatchDeletes,
       WatcherApplies, Advance, Unwatch, Drop
  <2>4. \A n \in DOMAIN machines : n # m => n \in DOMAIN machines'
    <3>1. CASE WatchMarks(m) \/ WatchDeletes(m)
      BY <3>1 DEF WatchMarks, WatchDeletes, SetMachineState, DeleteMachine, Drop, storeVars
    <3>2. CASE WatchWakes(m) \/ WatchReads(m) \/ WatchUnhandles(m) \/ WatcherApplies(m)
      BY <3>2 DEF WatchWakes, WatchReads, WatchUnhandles, WatcherApplies, ApplyRead,
         ApplyWrite, ApplyFails, ApplyRestart, storeVars
    <3> QED BY <1>2, <3>1, <3>2 DEF WatchStep
  <2> QED BY <2>1, <2>2, <2>3, <2>4
<1> QED
  BY <1>1, <1>2

LEMMA PhasesKept ==
    ASSUME DaemonInv, Next
    PROVE  Phases'
<1>1. Phases /\ handles \subseteq Machines /\ MaxEpoch \in Nat \ {0}
  BY OakdAssumption DEF DaemonInv, Processes
<1>2. CASE DeployerStep
  <2>1. UNCHANGED <<shuttingDown, epoch, phase, pending, halted>>
    BY <1>2 DEF DeployerStep, oakdVars
  <2>2. ASSUME phase \in {"up", "stopping"} PROVE Phases'
    BY <1>1, <2>1, <2>2 DEF Phases
  <2>3. ASSUME NEW m \in Machines, WatchStep(m) \/ VmExit(m)
        PROVE  Phases'
    <3>1. UNCHANGED req
      BY <2>3 DEF WatchStep, WatchWakes, WatchReads, WatchMarks, WatchUnhandles, WatchDeletes,
         WatcherApplies, VmExit
    <3>2. phase = "reconcile" => pending \subseteq DOMAIN machines' /\ pending \cap DOMAIN watch' = {}
      BY <1>1, <2>3, WatcherMinds DEF Phases
    <3>3. phase = "down" => watch' = NoRows
      BY <1>1, <2>3, WatcherMinds DEF Phases
    <3> QED BY <1>1, <2>1, <3>1, <3>2, <3>3 DEF Phases
  <2> QED BY <1>2, <2>2, <2>3, WorkerIsBusy DEF DeployerStep
<1>3. CASE Start
  <2>1. /\ phase' = "reconcile" /\ pending' = RunningMachines /\ halted' = halted /\ req' = req
        /\ machines' = machines /\ watch' = watch
    BY <1>3 DEF Start, storeVars
  <2>2. epoch' \in 1..MaxEpoch
    BY <1>1, <1>3 DEF Start, Phases
  <2>3. RunningMachines \subseteq DOMAIN machines /\ DOMAIN machines \subseteq Machines
    BY DEF RunningMachines, DaemonInv, StoreInv, StoreTypeOK
  <2>4. \A w \in Workers : req[w].pc = "idle"
    BY <1>1, <1>3 DEF Start, Phases
  <2>5. DOMAIN watch = {}
    BY <1>1, <1>3 DEF Start, Phases, NoRows
  <2> QED BY <1>1, <2>1, <2>2, <2>3, <2>4, <2>5 DEF Phases
<1>4. ASSUME NEW m \in Machines, ReconcileSubnet(m)
      PROVE  Phases'
  BY <1>1, <1>4 DEF ReconcileSubnet, SubnetForOwner, oakdVars, Phases
<1>5. ASSUME NEW m \in Machines, ReconcileOne(m) \/ ReconcileFails(m)
      PROVE  Phases'
  <2>1. /\ phase = "reconcile" /\ phase' = phase /\ pending' = pending \ {m} /\ halted' = halted
        /\ req' = req /\ epoch' = epoch
    BY <1>5 DEF ReconcileOne, ReconcileFails, ReconcileVisit
  <2>2. DOMAIN machines' = DOMAIN machines
    BY <1>5 DEF ReconcileOne, ReconcileFails, SetMachineState
  <2>3. DOMAIN watch' \subseteq DOMAIN watch \cup {m}
    BY <1>5 DEF ReconcileOne, ReconcileFails, Put
  <2> QED BY <1>1, <2>1, <2>2, <2>3 DEF Phases
<1>6. ASSUME NEW m \in Machines, StopOne(m)
      PROVE  Phases'
  BY <1>1, <1>6 DEF StopOne, Phases
<1>7. CASE Reconciled
  BY <1>1, <1>7 DEF Reconciled, deployerVars, Phases
<1>8. CASE MainApplies
  <2>1. phase = "ingress" /\ phase' \in {"ingress", "up"} /\ UNCHANGED <<req, epoch, pending, halted>>
    BY <1>8 DEF MainApplies
  <2> QED BY <1>1, <2>1 DEF Phases
<1>9. CASE Exit \/ Crash
  <2>1. /\ phase' = "down" /\ pending' = {} /\ halted' = {} /\ watch' = NoRows /\ epoch' = epoch
        /\ req' = [w \in Workers |-> Idle]
    BY <1>9 DEF Exit, Crash, Gone
  <2>2. Idle.pc = "idle"
    BY DEF Idle
  <2> QED BY <1>1, <2>1, <2>2 DEF Phases
<1>10. CASE Terminate
  BY <1>1, <1>10 DEF Terminate, Phases
<1> QED
  BY <1>2, <1>3, <1>4, <1>5, <1>6, <1>7, <1>8, <1>9, <1>10 DEF Next, MainStep

-----------------------------------------------------------------------------
(* The theorems.                                                           *)

LEMMA StartsWell ==
    ASSUME Init
    PROVE  DaemonInv
<1> USE DEF Init, DeployerInit, TunnelInit
<1>1. StoreInv
  BY FreshDatabase
<1>2. Locals
  BY IdleTyped DEF Locals
<1>3. DOMAIN NoRows = {} /\ NotRendering[1] = "none" /\ Idle.pc = "idle"
  BY DEF NoRows, NotRendering, Idle
<1>4. Caches /\ Ingress /\ Processes
  BY <1>3 DEF Caches, Ingress, Processes, Rows, Routes
<1>5. Ids
  BY <1>3 DEF Ids, StoreInit
<1>6. Phases
  BY <1>3, OakdAssumption DEF Phases
<1> QED
  BY <1>1, <1>2, <1>4, <1>5, <1>6 DEF DaemonInv

LEMMA StepsKeep ==
    ASSUME DaemonInv, Next
    PROVE  StoreStep /\ DaemonInv'
<1>1. StoreStep /\ Locals'
  <2>1. CASE DeployerStep
    BY <2>1, IssueKeeps, WorkerKeeps, WatcherKeeps DEF DeployerStep
  <2> QED BY <2>1, MainKeeps DEF Next
<1>2. StoreInv'
  BY <1>1, StoreStepPreserves DEF DaemonInv, StoreStep
<1> QED
  BY <1>1, <1>2, IngressKept, ProcessesKept, IdsKept, PhasesKept DEF DaemonInv

\* The invariant of the daemon.
THEOREM DaemonInvariant == Spec => []DaemonInv
<1>1. DaemonInv /\ UNCHANGED vars => DaemonInv'
  <2> SUFFICES ASSUME DaemonInv, UNCHANGED vars PROVE DaemonInv'
    OBVIOUS
  <2>1. /\ UNCHANGED storeVars /\ UNCHANGED <<appConfigs, tunnelVars>>
        /\ UNCHANGED <<req, handles, vms, watch>> /\ nextMachine' = nextMachine
        /\ UNCHANGED <<epoch, phase, pending, halted>>
    BY DEF vars, deployerVars, oakdVars, bounds
  <2>2. StoreStep /\ Locals'
    BY <2>1, NoStoreCall, OthersKeep
  <2>3. StoreInv'
    BY <2>2, StoreStepPreserves DEF DaemonInv, StoreStep
  <2>4. Caches' /\ Ingress'
    BY <2>1, CacheUntouched, IngressUntouched
  <2>5. Processes' /\ Ids' /\ Phases'
    BY <2>1 DEF DaemonInv, Processes, Ids, Phases, storeVars
  <2> QED BY <2>2, <2>3, <2>4, <2>5 DEF DaemonInv
<1>2. DaemonInv /\ [Next]_vars => DaemonInv'
  BY <1>1, StepsKeep
<1>3. Init => DaemonInv
  BY StartsWell
<1> QED
  BY <1>2, <1>3, PTL DEF Spec

\* Whatever requests, watchers and restarts of the daemon do to each other, every
\* variable keeps its type: no handler carries a machine, an address, a config
\* or a subnet that was never there, and every route leads to an address.
THEOREM DaemonTyped == Spec => []TypeOK
<1>1. DaemonInv => TypeOK
  <2> SUFFICES ASSUME DaemonInv PROVE TypeOK
    OBVIOUS
  <2> USE DEF DaemonInv
  <2>1. StoreTypeOK
    BY DEF StoreInv
  <2>2. \A w \in Workers : req[w].pc \in Pcs /\ req[w].todo \subseteq Machines \cup VolNames
    BY DEF Locals, ReqType
  <2>3. \A f \in {disk, live} : DOMAIN f \subseteq Apps
                                /\ \A a \in DOMAIN f : f[a].ip \in Addresses /\ f[a].port # 0
    BY DEF Ingress, Routes
  <2>4. \A m \in DOMAIN vms : vms[m].ip \in Addresses
    BY DEF Processes, VmType
  <2> QED BY <2>1, <2>2, <2>3, <2>4 DEF TypeOK, Caches, Ingress, Processes, Phases
<1> QED
  BY <1>1, DaemonInvariant, PTL

\* The daemon uses the store the way StoreSpec's clients do: the release it
\* boots, the subnet it allocates in and the state it records are always ones
\* the store's calls gave out, so every guarantee of the store holds of it.
THEOREM DaemonUsesStore == Spec => StoreSpec
<1>1. Init => StoreInit
  BY DEF Init, DeployerInit
<1>2. DaemonInv /\ [Next]_vars => [StoreNext]_storeVars
  <2>1. ASSUME DaemonInv, Next PROVE [StoreNext]_storeVars
    BY <2>1, StepsKeep DEF StoreStep
  <2>2. UNCHANGED vars => UNCHANGED storeVars
    BY DEF vars, deployerVars
  <2> QED BY <2>1, <2>2
<1> QED
  BY <1>1, <1>2, DaemonInvariant, PTL DEF Spec, StoreSpec

\* No two machines of the daemon ever hold one address, and no two tenants one
\* subnet, however requests, watchers, crashes and reconciles interleave.
THEOREM DaemonAddresses == Spec => []IPsUnique /\ []SubnetsInjective /\ []IPsInOwnedSubnets
<1>1. DaemonInv => IPsUnique /\ SubnetsInjective /\ IPsInOwnedSubnets
  BY DEF DaemonInv, StoreInv
<1> QED
  BY <1>1, DaemonInvariant, PTL

=============================================================================
