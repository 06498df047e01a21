# Verification of oakberryio

oakberryio runs apps on one host as Firecracker microVMs. `oakd`, the daemon,
takes requests over HTTP, builds a root file system from an image, boots a VM on
the bridge of the app's tenant, waits until it is healthy, stops the machines it
replaces and tells cloudflared where to send the app's traffic. Its durable
state is one SQLite database.

These TLA+ modules model the daemon's control: every store call, lock, early
return and error path of the operations that change state, with concurrent
requests, machine exits, failures, shutdown and crash; and one request end to
end, from the client through the daemon to PID 1 of the guest and back. TLC
checks them on small instances; TLAPS proves the safety properties, some under
hypotheses on the environment, for every size.

## 1. Inventory

| Component | Source | State it keeps | Operations |
|---|---|---|---|
| Store | `internal/store` | apps, releases, machines, secrets, volumes, tenant subnets (SQLite) | one method per statement or transaction |
| Deployer | `internal/daemon/deploy.go` | `handles`, `appConfigs`, `shuttingDown` | Deploy, Restart, Scale, Destroy, runReleaseCommand, watchMachine, StopAll |
| Ingress | `deploy.go` (applyTunnel), `internal/tunnel` | `tunnelMu`, the config file, cloudflared's running config | applyTunnel |
| Daemon | `daemon.go`, `cmd/oakd` | the phase of the run | Reconcile, Run, StopAll |
| Bridges | `bridge.go`, `bridge_linux.go` | kernel links, `dnsListening`, sockets | ensureBridge |
| HTTP API | `api.go` | none of its own | handlers that call the deployer or the store |
| DNS | `internal/dns`, `bridge.go` | none | resolve a name for a source address |
| VMs | `internal/vm`, `internal/mmds` | a process and a console log per machine | Start, Wait, Stop |
| oak-init | `cmd/oak-init` | PID 1 of the guest: addresses, mounts, its children | boot, forward signals, reap, ssh agent, report the status, reboot |
| Volumes | `api.go`, `deploy.go`, `volumefs_linux.go` | image files, rows of the store | create, attach, remove by glob |
| Rootfs | `internal/rootfs` | files | flatten layers, mkfs |
| Guest environment | `internal/mmds`, `deploy.go` | none | merge image, config and secrets |
| Metrics | `internal/metrics`, `daemon.go` | last samples | sample, aggregate |
| CLI | `cmd/oak`, `internal/cli` | the last line it read | client of the API; the outcome of a progress stream |

How they interact. Each HTTP request is a goroutine that calls the deployer, and
each machine has a watcher goroutine blocked in `Handle.Wait`. Nothing
serializes two requests, not even for one app. They meet in the database (one
connection, so one statement or transaction at a time), in `handles` and
`appConfigs` (a short mutex each), and in `applyTunnel`, which holds `tunnelMu`
from its query to the restart of cloudflared but covers nothing others write.
SIGTERM makes `Run` return and `StopAll` stop every VM while requests may still
be running. A crash takes the VMs along and leaves database, files and
cloudflared. A guest and the daemon have no channel but the machine's start, its
Ctrl-Alt-Del, the exit of its VMM and its console log: the exit status of a
release command comes back as a line oak-init prints there. A client learns the
outcome from the last line of a response that is always 200, over a connection
that the deploy itself may cut by restarting cloudflared.

What is hard:

* a cutover is a dozen steps on shared state, and another deploy, a destroy, a
  machine's exit, SIGTERM or a crash may fall between any two of them;
* addresses, and release ids, are reused as soon as a row is deleted;
* the rows are the only thing Reconcile has to go by;
* every failure has its own clean-up path, and some have none;
* the route table is derived from rows that change while it is derived;
* PID 1 must reap everybody, report only its child, and unmount volumes that
  orphans and ssh sessions may still be using, with signals arriving at any time;
* the log is written after the fact and by others too, and is read against a
  deadline; the stream is judged by its last line, whoever wrote it.

What makes each component correct: the store hands out each address and subnet
once; a deployer operation leaves one serving
machine per app, whatever overlapped with it, and forgets machines that died; the
ingress ends up describing the machines that serve; the daemon brings back
after a restart what it had, and watches it; a bridge is ready before a machine is
attached to it; a release command that did not exit with 0 stops the deploy; a
guest that goes down by itself has unmounted its volumes; whoever asks is told,
and told the truth. `PROJECT.json` lists the hazards line by line.

## 2. Modules

`OakStore` <- `Tunnel` <- `Deployer` <- `Oakd` <- `OakdProperties` <- `MCOakd`
(each extends the one before); `OakStore` <- `Dns`; `Bridge` <- `MCBridge`;
`OakInit` <- `DeployStream` <- `MCDeployStream`, with `ReleaseGate` instantiated
in `DeployStream`. The proofs are in `OakStore_proofs` (with the lemmas on
`CHOOSE` of `Extrema`), `Dns_proofs`, `Bridge_proofs`, `DeployStream_proofs` (the
guest's theorems too), and `Oakd_proofs` <- `OakdSafety_proofs` <-
`OakdApps_proofs`; each extends the module it is about and the proofs it rests on.

**OakStore.** A table is a partial function from its primary key to the columns
the daemon tells apart; secrets and volumes are sets of keys. A method is one
action, because the store has one connection. The action is enabled exactly when
the statement succeeds; its callers model the error branch. Foreign keys are
enforced, because Destroy's and Deploy's control flow depends on them. The
UNIQUE constraints on addresses and subnet indexes are *not*: that the
allocators never ask for a value the constraint would refuse is a theorem. An
address is the pair of subnet index and host. Release ids are the greatest plus
one, as SQLite's rowids without AUTOINCREMENT, so they come back.

**Tunnel.** `applyTunnel` in three steps: lock and list; look up configs and
write the file; restart and unlock. The file lists the newest machine of an app
first and cloudflared takes the first rule that matches, so a rendered config is
the function from an app to the address and port its requests go to. The
lookups of one apply happen in one step with the write; a lookup reads the
cache, then the store, and caches what it read.

**Deployer.** A worker is a request; `req[w]` holds its local variables and its
`pc`, the next access to shared state. The loop of stopOldMachines and of
Destroy is the same code shape and the same actions. `watch` holds the
watchMachine goroutines, `vms` the processes. Machine ids are random in the
code; here they are handed out in order, and since rows are listed by creation
time, the greatest id is the newest machine. A VM id is booted at most once per
run of the daemon, so the run's number (`epoch`) stands for the pids it starts;
that is all the pid comparison in watchMachine can distinguish. A config is its
service port (0 for none), whether it has a release command, and its mounts.
Scale changes none of these, so it writes back the config it read. A secrets
request touches one key. `Handle.Stop` either sees the process exit or, when the
client went away (the `cancel` fault), returns after signalling it.
`volImages` are the volume images on disk. Creating a volume makes and formats
the image first and inserts the row then; Destroy deletes the rows and later
removes whatever matches `<app>-*.img`. A file it cannot remove ends it there, with
the app gone from the store and the tunnel not applied; the history variable
`unremoved` has the apps this happened to. Where volumes are modelled, names are
sequences of the words between their dashes, so that an image's name is the
app's followed by the volume's and the glob is a prefix.

**Oakd.** Reconcile (newest row first, as `ORDER BY` has it), applyTunnel, serving, SIGTERM with StopAll, exit
and crash. Reconciling one machine is one step: no request runs yet, and the
only other goroutines are the watchers of machines reconciled before, which
act on their own rows. The exception is the subnet a reconcile may have to
allocate, which is a store call of its own.

**Bridge.** Each netlink call of ensureBridgeLink is a step; the part under
`bridgeMu` is one. Links outlive the daemon, sockets do not. A DNS server may fail
after its bind (`ServeFails`): the code logs that and leaves `dnsListening` as it is;
the history variable `ended` has the subnets this happened to. oak0 and the /16 on
its gateway address are systemd-networkd's, as `scripts/host-setup.sh` configures it;
the unit is not required for `network-online`, so networkd may come before oakd,
between two of its netlink calls, or after them (`networkd`).

**Dns.** A query is a goroutine that lists the app's machines, finds the tenant
of the source address and compares it with the app's owner, in three store
calls between which `StoreNext` may do anything. A source is the third octet of
its address, or `Host`. `window` is a history variable: what was true of the app
while the query was served.

**OakInit.** PID 1 of a guest. `stage` is where `run()` is: mounts, network,
MMDS (with its retries), address, volumes, the child; then the wait; then kill,
reap, unmount, report, reboot. Any step of the boot may fail (`Fatal`). `proc`,
`parent` and `ends` are the guest's processes: they fork, print, exit and are
reparented as the kernel does it, and one of them is the child. Sessions of the
ssh agent are children of PID 1 as well. `CtrlAltDel` is what the host's Stop
does to the guest: forwarded as SIGTERM while runChild waits, and the end of
PID 1, hence a panic, before `signal.Notify` and after `signal.Stop`. A line on
the console is how it begins and the exit marker in it, if any.

**DeployStream.** One deploy, restart (or scale) or remote build: the handler
with the steps of Deploy, runReleaseCommand and bootFromRelease that matter
outside, the machine (one is up at a time, so both are OakInit's guest), the log
file that lags behind the console (`flushed`), the lines on the wire (an error is
one line, or has a log's end or mkfs.ext4's output below it), the
connection with its cuts, and the client. `StopLater` is what a later request
does to the machine that was left serving.

**ReleaseGate.** What a release command is for, in three variables: the app is
booted only after the command, if there is one, has exited with 0.
`DeployStream` implements it (`ImplementsGate`): `result` is the status the
child's process really ended with, recorded when it dies, whatever the log says.

**OakdProperties** states what the daemon is checked for. **MC** modules give
the constants values. Operators called `X_Y`, each right before the `X` they vary and commented
as mutants, are wrong versions of `X` used to confirm that a property would notice.

The constant `Faults` names the failures a run allows: `build`, `bridge`,
`prepare` (an error between inserting the row and starting the VM), `start`,
`command`, `health`, `cancel`, `format` (of a volume), `remove` (of a destroyed
app's files), `write` and `restart` (of cloudflared), `crash`.

## 3. Runs

All bounds are constants: `MaxRequests` and `MaxExits` limit what the
environment does, `MaxEpoch` the runs of the daemon, the sizes of `Machines`,
`Images` and `1..MaxRelease` are what those requests can consume, `IpamMaxHost`
and `SubnetMax` shrink the pools. `CHECK_DEADLOCK FALSE` is set in the daemon's and the
store's runs because a bounded environment stops asking; that no request gets
stuck is the liveness property `RequestsEnd`.

| Run | What it explores | What holds |
|---|---|---|
| `names` | any order of calls on all tables, more owners than subnets and more machines than a subnet has hosts, so both pools are exhausted and refilled; and a DNS query from the host, the admin, a tenant or an unused subnet, with any such calls between its reads | `StoreTypeOK`, `IPsUnique`, `IPsInOwnedSubnets`, `SubnetsInjective`, `SubnetsStable`, `OwnerSticky`; `ScopedAnswers`, `SteadyNamesResolve` |
| `overlap` | two deploys of a fresh app, or two restarts of one that serves, interleaved everywhere, with failing boots and health checks, while a machine dies at any moment | `TypeOK`, `LiveVmKeepsAddress`, `AtMostOneServing`, `RoutesSettle`, `RowsAreAlive` |
| `restarts` | a tenant's app serves; a deploy or scaling or destroy of it or of another app, a machine that dies, SIGTERM or crash at any step, a second run of the daemon, failing boots and tunnel writes, a cancelled request; fair executions | `RunningIsWatched`, `MachinesHaveReleases`, `StopAllKeepsRows`; under fairness `RequestsEnd`, `DeadMachinesForgotten` |
| `requests` | three requests one after another out of deploys of three kinds of config, destroys, changes of secrets and volumes, with every failure of each step but those of the tunnel, which `restarts` has | `GoneMeansGone`, `CacheSettles`, `VolumesPersist`, `MachinesHaveReleases`, and `StoreSpec`: every step of the daemon is one store call or none |
| `bridges` | three boots over two subnets, netlink and bind failures, DNS servers that fail, networkd before, between and after, two restarts | `ReadyOnReturn`, `OneGateway` |
| `deploy_stream` | one request of each kind, with a child and another process that fork, print, exit, are killed, a guest that crashes, an ssh session, a log that lags or stays incomplete, a health check that fails, a client behind the tunnel or on the box, a network that fails | `ImplementsGate`, `CleanShutdown`, `ReadyForChild`, `RestartIsNotFailure`, `OnlyLongErrorsHideFailure`; under fairness `GuestEnds`, `Answered` |
| `lost_machine` | two deploys of one app | `OkMeansServing` is violated |
| `destroy_race` | a deploy and a destroy of one app | `NoOrphanVm` is violated |
| `first_deploy` | one deploy by a tenant | `TenantIsolation` is violated |
| `false_success` | as `deploy_stream` | `NoFalseSuccess` is violated |
| `foreign_volume` | one volume is created, one app destroyed, of two whose names begin alike | `VolumesPersist` is violated |
| `foreign_image` | three deploys and destroys of two apps, two at a time, and a restart of the daemon | `BootsOwnImage` is violated |

Why the bounds are enough. The code never takes more than two requests, or a
request and a watcher, into one decision: each step looks at the rows and at its
own locals. Two overlapping requests over a serving app therefore give every pair
of a machine being replaced, one replacing it and one competing; three
machines are needed for that, and since a restart is the second half of a deploy,
from the lookup of the release on, the competing pair over a serving app is one of
restarts. Two runs of the daemon are what a stale pid or a
forgotten row needs to be met. One host in a subnet, and fewer subnets than
owners, put the allocators at their limits after few calls; two machines of one
subnet meet in `overlap`, and the store's properties are proved for any sizes. The runs split
concurrency (`overlap`), failures (`requests`) and restarts
(`restarts`) because the product of the three is out of reach; `requests` and
`restarts` have one worker, and what they show is about requests that come one after
another: `destroy_race` and `foreign_image` are what two workers lead to. In `deploy_stream` two processes are enough for an
orphan beside the child and for a session beside it; one line of output
(`MaxLines`) is enough to be the last line of a log, with the marker after it or
without; two attempts at MMDS are one that is retried and one that is not.
`Prints` has no line that looks like oak-init's marker: see section 5.
What a small bound could hide is proved for all sizes, as section 4 lists.

`requests` shows the layering: `StoreSpec`, the specification of the database
alone, is a property of the whole daemon (and a theorem).

`overlap` also starts from a serving app with two restarts in hand (`Restarting`), and
`restarts` from an app of a tenant that serves (`TenantServed`): states that one deploy
leads to, which saves the runs its steps. The tenant's machine is in subnet 0, where
`first_deploy` shows it to be, and the tenant has no subnet yet, so that Reconcile has
to allocate one.
Workers and callers are interchangeable; the symmetry sets are those. No run with
a liveness property uses symmetry. `foreign_volume` is the run that shows
`VolumesPersist` to depend on the names: in `requests`, with one app, it holds; and
`foreign_image` shows that `BootsOwnImage` depends on destroys that do not overlap
deploys. No passing run has `BootsOwnImage`: release ids change hands only after a
destroy and a deploy, which with a restart is out of the reach of a run with
fairness; the theorems of section 4 say where it holds.

**Fairness** (`restarts`): weak fairness of each worker, each watcher, the exit
of a VM that has been signalled, and the main goroutine. The Go scheduler is
fair to runnable goroutines; a mutex is released by a holder that itself is
scheduled, and Go's mutexes do not starve a waiter; stops end by their own
deadline. With one worker in that run, weak fairness suffices for
`tunnelMu`. Nothing obliges a client to ask, a guest to exit or the daemon to
stop. Three waits of a request have no deadline, and the worker is not fair in them
(`Unhurried`): the release command's, the pull of the image (`flatten.go:35`), and a
health check of an address where a VM answers. The budget of awaitHealthy is looked
at between checks, and a check goes through `http.DefaultClient`, which has no
timeout, so an app that accepts and never answers keeps the request for good.
`RequestsEnd` says that a request returns or gets to one of these. Where no VM is at
the address, connecting fails and the budget does end the wait.

In `deploy_stream` fairness is weak, too: of the handler while it is not `Busy`, of
the client's reads, of PID 1 wherever it can go on, and of the death of a process
that has SIGKILL pending. `Busy` are docker, the pull of an image, a release
command whose process is alive, and a health check while any process of the guest is
alive that may have accepted it. They, ssh shells and the flushing of the log owe
nothing: `Answered` excepts `Busy`, and `GuestEnds` a shell that was started after
the kill.

## 4. What is proved

Every theorem is proved for all values of the constants, from the named
assumptions of the modules and the hypotheses it states. Each rests on an
inductive invariant, because none of the properties is inductive by itself.

**The store** (`OakStore_proofs`, from `StoreAssumption`): `StoreInvariant`,
and from it `TablesTyped`, `AddressesUnique`, `AddressesOwned`,
`TenantsSeparate`; the action properties `SubnetsAreStable`
and `OwnersAreSticky`. The conjuncts of `StoreInv` need each other; one of them,
`ForeignKeys`, says no more than that SQLite enforces the keys, and is there for the
daemon's proofs. An address is
well typed because the index passed to the allocator is in the range of
`subnets`, whose type makes it at most `SubnetMax`; a new address is unique
because the scan considers all rows, not those of one tenant; that an address
stays in an owned subnet needs subnets that only grow. `Least` and `Greatest` are
`CHOOSE`s, so the allocators need that the set they choose from has a least
element (`Extrema`, from the well-ordering of the naturals).

**Bridges** (`Bridge_proofs`): `BridgesReady` and `GatewaysUnique`. `BridgeInv`
adds what each netlink call has established when the next is made
(`Established`), that `dnsListening` only names sockets that are bound or whose
server has failed (`Sockets`), and which prefix lengths a bridge can have
(`Prefixes`): two callers that both saw no address add the same /24, and nobody can
have missed the /16 of oak0 that was there before. What the theorems do not say, the
code does not do either: a server that fails is not started again before the next
run, and when networkd comes after oakd, oak0 has both prefixes.

**DNS** (`Dns_proofs`): `DnsUsesStore`, that queries leave the store's
specification intact; `TenantsSeeTheirOwn` and `ServedNamesResolve` for any number
of queries. `DnsInv` says for each stage of a query what its earlier reads,
possibly stale by now, still imply: an owner once read is the app's owner at some
moment of the window, and as subnets never move, so is the tenant of the source.

**The guest and the stream** (`DeployStream_proofs`): for any
number of processes, forking and dying in any order, `GuestsShutDownCleanly` and
`ChildrenFindTheirMachine`. That PID 1's reaping ends with nobody left needs that
the tree of processes has no cycle; `Family` says so by a rank that
decreases towards PID 1, and reparenting keeps it. Of the stream,
`RestartsAreNotFailures` and `FailuresAreTold`: `StreamInv` describes which lines
are on their way to the client and which will be the last it reads, at each step
of the handler and for each way the connection can end; the exception it leaves, an
error of several lines, is what `false_success` shows. `DeployImplementsGate` is
the refinement of `ReleaseGate`. Its invariant follows the status of a release
command from the process that ended with it through oak-init, the console, the
file and the poll to the handler. It is stated under `NoForgery`: no process
prints oak-init's marker. Section 5 says what happens otherwise.

**The daemon** (`Oakd_proofs`, `OakdSafety_proofs`): any number of requests, apps,
machines, failures and runs.

* `DaemonTyped`, and `DaemonUsesStore`: the whole daemon refines `StoreSpec`, so
  that the store's theorems hold of it (`DaemonAddresses`). `DaemonInv` says what
  each handler carries at each of its steps (`Need`): a release that some call
  gave it, a subnet that was allocated, a machine id below `nextMachine`.
  Subnets never move and ids never come back, which keeps the locals good while
  others run.
* `CustodyInvariant`: a machine is in the hands of one request from its insert
  until it is marked running, and of its one watcher from then on. Nobody else
  writes its state. From it `EveryRunningMachineIsWatched`, across crashes
  and reconciles, and `StopAllLeavesRowsRunning`: a watcher that wakes during a
  shutdown finds the flag set, and one that woke before has no VM that StopAll
  could have stopped.
* `AddressesStayWithLiveVms`, under `DestroysAlone`: no app is destroyed while
  another request is about it. Every path that deletes a row has stopped the VM,
  because a machine that can be listed has a handle (`Handles`, `Listed`). Where
  a destroy meets a deploy of the same app this is false, as `destroy_race` shows.
* `CutoversLeaveOneMachine`, in a first run of the daemon: of two running machines
  of an app one was marked last, and whoever marked it has yet to list the
  other, or has it on its list (`Contested`). A daemon that dies in the middle of a
  cutover leaves two running rows, and Reconcile boots both; hence `epoch = 1`.
* `RowsDieWithTheirMachines`, in a first run and without failures
  between the insert of a row and Start: every row is claimed by a request that
  will delete it or by a watcher (`Claimed`). Such a failure leaves a row
  behind (section 5).

**Apps** (`OakdApps_proofs`): what requests leave of an app. A destroy takes it
apart in ten steps with nothing locked, so `DestroysAlone` is a hypothesis of all but
one of these (`CachedConfigsAreStored` has a stronger one); requests about other apps,
watchers, exits and the main goroutine interleave with it freely. `Teardown` says
what each of the ten steps has already removed, which then stays removed.

* `VolumeRowsHaveImages`: a row is inserted after its image, and the glob that
  removes images runs after the app's rows are gone (`Volumes`). The hypothesis
  `NamesApart`, that no app's name begins the name of another app's image, is
  what `foreign_volume` lacks.
* `RequestsBootTheirOwnImage`, of a first run and with *no* hypothesis on how
  requests overlap: a request has its image from the release it inserted or looked up
  in one store call, and boots that, whatever becomes of the release and its id
  (`BuiltImages`).
* `MachinesKeepTheirReleases` and `VmsRunTheirOwnImage`, of every run: Reconcile looks
  the release up by the id in the row, so that this id still names a release of the
  app has to be carried along with what every request holds (`OwnImages`: rootfs
  files, releases, rows, VMs, locals). Here `DestroysAlone` is needed, as
  `foreign_image` shows.
* `CachedConfigsAreStored`, if the requests about one app come one after another
  (`OneAtATime`): the cache differs from the store only where a request is about
  to write or to forget the entry (`CacheInv`). Two deploys of one app write store
  and cache in either order, hence the hypothesis (section 5).
* `RoutesAreCurrent` and `IngressSettles`, in any run of the daemon, without the
  faults `write` and `restart`: whoever changes which machines run still owes a call
  of applyTunnel, and so does the main goroutine from the end of one run to its own
  call in the next (`Due`); if nobody does, then what the holder of `tunnelMu` has
  read or written, or what cloudflared runs with, describes the rows (`Locked`,
  `Routed`). A failed write or restart leaves the old routes until the
  next apply, and so does a Destroy that fails to remove a file: the theorems are
  about quiet states in which `unremoved` is empty. Which apps get a route depends on their ports, and a deploy that
  fails has stored its config without applying the tunnel; `IngressSettles`
  therefore assumes that every config has a service, and `RoutesAreCurrent` says
  what holds without that.
* `DestroyedAppsAreForgotten`, under the same hypotheses but that on ports: a live
  VM has its row, and the row its app (`VmApps` with the theorems above); a config
  in memory is of an app in the store, or of one whose destroy has yet to drop it
  (`KnownApps`). No VM and no config is left whatever failed; no route, if `unremoved`
  is empty. `DestroyLeavesNothing` adds the rootfs files of every app whose own removal
  did not fail (`KnownFiles`), in a first run of the daemon: one that dies between the
  delete of the app and that of its files leaves them.

Only model-checked: liveness (`RequestsEnd`, `DeadMachinesForgotten`,
`GuestEnds`, `Answered`), which needs fairness and `ENABLED` and is outside the
prover. Every invariant and action property of the
passing runs is stated by a theorem; where a theorem has hypotheses, they are those
listed above, each with the execution that makes it necessary.

## 5. Where the code and its documents disagree

The six violated runs, with traces TLC prints:

* `lost_machine`. Two deploys of one app each mark their machine running, then
  each lists the other's and stops it. Both report `ok`; the app has no machine.
* `destroy_race`. Destroy deletes the row of a machine that is booting and has
  no handle yet. The deploy then fails at SetMachineState and returns with
  the VM running; a comment says that any failure tears it down.
* `first_deploy`. The owner is recorded after the deploy, so the first machine
  of a tenant is placed in the admin's subnet until the app is deployed again.
* `false_success`. When a health check never passes, or a release command fails,
  the error has the end of the machine's log below it; when mkfs.ext4 fails, what it
  printed. The client looks for `error:` at the start of the last line only, finds
  another line there, and reports success (or even `ok`, if the app printed that).
  `OnlyLongErrorsHideFailure` shows that no error of one line, refusal or broken
  stream is taken for a success.
* `foreign_volume`. Destroying `shop` removes `shop-db-data.img`, the volume of
  the app `shop-db`: names may contain dashes and the glob is `shop-*.img`. The
  row stays, and the next boot of `shop-db` has no disk.
* `foreign_image`. Destroy of `a` lists its machines; a deploy of `a` then inserts
  release 1 and machine 1. Destroy deletes the releases of `a`, and its DeleteApp
  fails on the foreign key of machine 1, which a comment says never happens. The
  deploy goes on and marks machine 1 running. A deploy of `b` is given release id 1.
  After a restart Reconcile looks up release 1 for machine 1 and boots the image of
  `b` as `a`: on `a`'s address, with `a`'s route and secrets. Until the restart,
  every VM runs its own image (`RequestsBootTheirOwnImage`).

Also met while modelling, and not kept as runs:

* `README.md:21-22` promises cutover without a gap, but the old machine is
  stopped before applyTunnel moves the route (`deploy.go:570-590`);
* an error between the insert of a row and Start leaves the row and its address
  (`deploy.go:488-530`), although `deploy.go:186-188` says that on any failure
  the row is removed "so nothing is left half-provisioned"; the new config of a
  failed deploy stays as well, stored and cached, and the next applyTunnel
  renders its port for the old machine;
* `appConfig` caches what the store has, but two overlapping deploys write store
  and cache in different orders and can leave them different until the next
  deploy;
* `daemon.go:128` says `bridgeMu` serializes ensureBridge "end to end"; it is
  taken after the netlink calls. `OneGateway` and `ReadyOnReturn` hold nevertheless;
* a DNS server that fails after its bind is logged and not replaced: `dnsListening`
  still names the subnet, so ensureBridge succeeds and the tenant has no resolver
  until oakd is restarted (`bridge.go:33-47`);
* a file that cannot be removed ends Destroy before applyTunnel (`deploy.go:700-714`):
  the route of an app without machines or rows stays until the next apply, its files
  until the app is destroyed again;
* an app that accepts the health check's connection and does not answer keeps its
  deploy waiting past the 60 s that `deploy.go:783-784` speaks of;
* oakd may create oak0 with a /24 before networkd, which then adds its /16: the two
  overlapping addresses that ensureBridgeLink is careful not to make;
* cutover frees the old machine's address before cloudflared is told; a
  concurrent deploy of another app can be given it, and gets the first app's
  requests until the tunnel is applied (`deploy.go:857`, `582`);
* `deploy.go:1148-1151` says that a look-alike of the exit marker "can never be
  mistaken" for oak-init's: it is when the guest crashes before oak-init has
  printed its own, and when a session prints it after;
* Stop sends Ctrl-Alt-Del at any time. Outside of runChild's wait that ends PID 1
  and so the guest, by a panic and without unmounting (`main.go:439-441`);
  `CleanShutdown` is therefore about guests that went down by the reboot at the end of
  `run`; that of `fatal` (`main.go:53-57`), after a boot that failed, does not unmount
  what was mounted either;
* a session accepted after the kill holds the shutdown up, and if it begins after
  the last wait, its volumes stay mounted (`main.go:141-149`, variable `late`);
* app `a` with volume `b-c` and app `a-b` with volume `c` have one image
  (`api.go:564`); creating a volume that exists formats its image before the
  insert is refused (`api.go:576-584`);
* the reads of a DNS query are not a snapshot: if an app is destroyed and its
  name taken by the requester between them, the answer has the old addresses.

## 6. Not modelled, and the plan

Abstracted away on purpose: wording, logs, JSON, SQL text, timing other than as
nondeterministic failure, authentication, TLS, encryption of secrets,
Firecracker's API, Docker, tar and mkfs. Domains and static routes of the tunnel
come from the daemon's configuration and do not change while it runs. An I/O error
of SQLite itself is not modelled: a store call fails where a constraint or a missing
row makes it, so a DNS query whose list fails (`bridge.go:61-63`, an empty answer) and
a watcher that cannot delete its row are left out. StopAll's 15 s for all machines
(`cmd/oakd/main.go:47`) are left out: past them a VM is killed and not waited for,
and it is gone when the daemon is. oak-init's last wait ends when there are no children; a
wait interrupted by a signal would end it early, which Go's handlers, installed
with SA_RESTART, do not let happen. Reads (lists, status, logs, dashboard) change nothing.

Also left out, component by component: the flattening of image layers and mkfs
(file trees, no shared state; a build succeeds or fails), the merge of the guest's
environment (a pure function of small maps), metrics (read-only), the commands of
`oak` that are one request and one answer, tar extraction and the byte copying
of the ssh bridge. The contents of volumes are not modelled, so neither is what
two machines over one image do to it during a cutover.

Done in this order: the store, its proofs, the ingress, the deployer,
the daemon's life cycle, bridges and their proofs, DNS, volumes, oak-init, the
stream with its refinement, the proofs of the daemon, DNS and the stream. Next:

1. An abstract specification of an app (none, serving, replaced) that the
   deployer implements for requests that do not overlap.
2. What a second run of the daemon restores after a crash in the middle of a
   cutover (two running rows, of which the ingress serves the newest), as a
   property of its own.
3. Pure algorithms against reference definitions: the whiteouts of image layers,
   the merge of environments.
