------------------------------- MODULE Tunnel -------------------------------
(***************************************************************************)
(* The ingress: Deployer.applyTunnel (internal/daemon/deploy.go), the      *)
(* config cache it renders from, and internal/tunnel's Apply.              *)
(*                                                                         *)
(* applyTunnel runs under tunnelMu from the read of the running machines   *)
(* to the restart of cloudflared, but the rows, the cache and the apps it  *)
(* reads are not covered by that lock.  Its steps are: take the lock and   *)
(* list the running machines; look up each app's config and write the      *)
(* file; restart cloudflared and release the lock.                         *)
(*                                                                         *)
(* A rendered config lists the machines newest first and cloudflared       *)
(* serves the first rule that matches, so it is represented by what it     *)
(* means: for each app, where a request for its hostname goes.             *)
(***************************************************************************)
EXTENDS OakStore

CONSTANTS
    Nil,       \* no value: an unlocked mutex, an unset field
    Faults     \* the failures of the environment that a run lets happen

ASSUME TunnelAssumption ==
    /\ Machines \subseteq Nat
    /\ Configs \subseteq [port : Nat,                \* 0: no [[services]]
                          release : BOOLEAN,        \* has a release_command
                          mounts : SUBSET VolNames]

VARIABLES
    appConfigs,   \* Deployer.appConfigs: app -> config
    tunnelMu,     \* the caller inside applyTunnel, or Nil
    rendering,    \* what that caller has: <<"rows", f>> then <<"written", f>>
    disk,         \* the config file: app -> [ip, port]
    live          \* the config cloudflared runs with

tunnelVars == <<tunnelMu, rendering, disk, live>>

NotRendering == <<"none", NoRows>>

\* appConfig's answer for an app it can find, in the cache or in the store.
Known(app) == app \in DOMAIN appConfigs \/ app \in DOMAIN apps

Lookup(app) == IF app \in DOMAIN appConfigs THEN appConfigs[app]
                                            ELSE apps[app].config

\* appConfig caches what it looked up.
CacheFound(found) ==
    appConfigs' = [a \in DOMAIN appConfigs \cup found |-> Lookup(a)]

\* Ids are handed out in the order of the inserts (see Deployer), which is the
\* order of created_at and rowid, so the newest machine has the greatest id.
NewestRunning(app) ==
    Greatest({m \in RunningMachines : machines[m].app = app})

ServingRows ==
    [a \in {machines[m].app : m \in RunningMachines} |-> machines[NewestRunning(a)].ip]

ApplyRead(c) ==
    /\ tunnelMu = Nil
    /\ tunnelMu' = c
    /\ rendering' = <<"rows", ServingRows>>
    /\ UNCHANGED <<storeVars, appConfigs, disk, live>>

\* Every lookup succeeds (and caches what it read); an app without services
\* gets no route; the file is replaced by a rename.
ApplyWrite(c) ==
    LET found == rendering[2] IN
    /\ tunnelMu = c /\ rendering[1] = "rows"
    /\ \A a \in DOMAIN found : Known(a)
    /\ CacheFound(DOMAIN found)
    /\ disk' = [a \in {b \in DOMAIN found : Lookup(b).port # 0} |->
                   [ip |-> found[a], port |-> Lookup(a).port]]
    /\ rendering' = <<"written", NoRows>>
    /\ UNCHANGED <<storeVars, tunnelMu, live>>

\* Mutant: the error path forgets to unlock.
ApplyFails_KeepsLock(c) ==
    /\ tunnelMu = c /\ rendering[1] = "rows"
    /\ \/ \E a \in DOMAIN rendering[2] : ~Known(a)
       \/ "write" \in Faults
    /\ rendering' = NotRendering
    /\ UNCHANGED <<storeVars, appConfigs, tunnelMu, disk, live>>

\* An app listed a moment ago has been destroyed since, or the file cannot be
\* written: applyTunnel returns the error and leaves the old config in place.
\* What it had looked up by then stays cached.
ApplyFails(c) ==
    LET found == rendering[2]
        known == {a \in DOMAIN found : Known(a)} IN
    /\ tunnelMu = c /\ rendering[1] = "rows"
    /\ \/ known # DOMAIN found /\ \E seen \in SUBSET known : CacheFound(seen)
       \/ known = DOMAIN found /\ "write" \in Faults /\ CacheFound(known)
    /\ tunnelMu' = Nil
    /\ rendering' = NotRendering
    /\ UNCHANGED <<storeVars, disk, live>>

\* systemctl restart cloudflared; ErrRestart leaves it on its old config.
ApplyRestart(c) ==
    /\ tunnelMu = c /\ rendering[1] = "written"
    /\ \/ live' = disk
       \/ "restart" \in Faults /\ live' = live
    /\ tunnelMu' = Nil
    /\ rendering' = NotRendering
    /\ UNCHANGED <<storeVars, appConfigs, disk>>

TunnelInit ==
    /\ appConfigs = NoRows
    /\ tunnelMu = Nil
    /\ rendering = NotRendering
    /\ disk = NoRows
    /\ live = NoRows

=============================================================================
