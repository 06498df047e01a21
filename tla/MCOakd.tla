------------------------------- MODULE MCOakd -------------------------------
(* Values for the constants of the daemon's runs.                          *)
EXTENDS OakdProperties, TLC

\* A web app; one that also runs a release command; one with a volume.
Web == [port |-> 80, release |-> FALSE, mounts |-> {}]
Migrating == [Web EXCEPT !.release = TRUE]
Stateful == [Web EXCEPT !.mounts = VolNames]

WebOnly == {Web}
MigratingOnly == {Migrating}
AllKinds == {Web, Migrating, Stateful}

\* Names as their words: a database beside its app, as in "shop" and "shop-db".
Shop == {<<"shop">>}
ShopAndDb == {<<"shop">>, <<"shop", "db">>}
DataVolume == {<<"data">>}

\* Workers are interchangeable.
Symmetry == Permutations(Workers)

\* One app is deployed, for the given owner, and its machine serves: where a first
\* deploy leads to, which is in subnet 0 whoever the owner is (see first_deploy).
TheApp == CHOOSE x \in Apps : TRUE

Serving(owner) ==
    LET cfg == CHOOSE x \in Configs : TRUE
        ip == <<0, 2>> IN
    /\ apps = [x \in {TheApp} |-> [config |-> cfg, owner |-> owner]]
    /\ releases = [x \in {1} |-> [app |-> TheApp, image |-> 1]]
    /\ machines = [x \in {1} |-> [app |-> TheApp, release |-> 1, ip |-> ip,
                                  state |-> "running", pid |-> 1]]
    /\ secrets = {} /\ volumes = {} /\ subnets = [o \in {NoOwner} |-> 0]
    /\ appConfigs = [x \in {TheApp} |-> cfg]
    /\ tunnelMu = Nil /\ rendering = NotRendering
    /\ disk = [x \in {TheApp} |-> [ip |-> ip, port |-> cfg.port]] /\ live = disk
    /\ handles = {1}
    /\ vms = [x \in {1} |-> [app |-> TheApp, image |-> 1, ip |-> ip, bridge |-> 0,
                             port |-> cfg.port, mounts |-> cfg.mounts, dying |-> FALSE]]
    /\ watch = [x \in {1} |-> "wait"]
    /\ files = [x \in {1} |-> TheApp] /\ volImages = {} /\ unremoved = {}
    /\ shuttingDown = FALSE /\ epoch = 1
    /\ nextMachine = 2 /\ nextImage = 2 /\ exits = 0
    /\ phase = "up" /\ pending = {} /\ halted = {}

\* Every worker has been given a restart of that app, the second half of a deploy.
Restarting ==
    LET restart == [Idle EXCEPT !.op = "restart", !.app = TheApp, !.pc = FirstPc("restart")] IN
    /\ Serving(NoOwner)
    /\ req = [w \in Workers |-> restart] /\ issued = MaxRequests

\* Deploys that meet a fresh daemon, and restarts that meet a serving app.
OverlapSpec == (Init \/ Restarting) /\ [][Next]_vars

\* A tenant's app serves and nothing has been asked yet.
TenantServed ==
    /\ Serving(CHOOSE o \in Owners : o # NoOwner)
    /\ req = [w \in Workers |-> Idle] /\ issued = 0

RestartsSpec == TenantServed /\ [][Next]_vars /\ Fairness

=============================================================================
