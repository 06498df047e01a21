------------------------------- MODULE OakInit -------------------------------
(***************************************************************************)
(* cmd/oak-init: PID 1 of a guest, from run()'s first line to the reboot   *)
(* that ends the VMM, with the ssh agent of agent.go, the guest's          *)
(* processes and the serial console.                                       *)
(*                                                                         *)
(* The kernel is external: a process may fork, print and exit at any time, *)
(* its children are reparented to PID 1 when it dies, and a panic reboots  *)
(* (kernelArgs: panic=1).  A signal that Go is not asked to deliver ends   *)
(* PID 1, which is a panic too.                                            *)
(***************************************************************************)
EXTENDS Integers, Sequences

CONSTANTS
    Procs,        \* the guest's processes besides PID 1
    Child,        \* the one runChild starts
    PID1,         \* oak-init itself, as a parent
    Statuses,     \* statuses a process may exit with
    Volumes,      \* the volumes of an app's machine
    Prints,       \* lines the processes of a guest may print
    MaxAttempts,  \* fetchGuest's attempts (20)
    MaxLines      \* bound on the lines the processes print

ASSUME GuestAssumption ==
    /\ Child \in Procs /\ PID1 \notin Procs
    /\ Statuses \subseteq Nat
    /\ MaxAttempts \in Nat \ {0} /\ MaxLines \in Nat

VARIABLES
    stage,        \* where run() is
    guest,        \* MMDS: [mounts, reachable]: its volumes, and whether oakd lets ssh in
    eth0,         \* addresses of eth0
    attempts,     \* MMDS requests that failed
    mounted,      \* volumes mounted
    proc,         \* process -> "none", "alive", "killed" (SIGKILL pending) or "zombie"
    parent,       \* process -> its parent
    ends,         \* process -> how it ended, until it is reaped: [status, signal]
    code,         \* runChild's result
    console,      \* lines written to the serial console
    how,          \* how the guest went down
    late          \* history: a shell was started after kill(-1)

guestVars == <<stage, guest, eth0, attempts, mounted, proc, parent, ends, code,
               console, how, late>>

\* Of a line only matters how it begins and the exit marker in it, if any.
NoMarker == -1
Line(prefix, marker) == [prefix |-> prefix, marker |-> marker]

SIGKILL == 9
SIGTERM == 15

NotEnded == [status |-> 0, signal |-> 0]

Booting == {"mounts", "network", "fetch", "configure", "volumes", "start", "notify"}
Ending == {"kill", "reap", "unmount", "report", "reboot"}
Powered == stage \in Booting \cup {"wait"} \cup Ending

Alive == {p \in Procs : proc[p] \in {"alive", "killed"}}
Children == {p \in Procs : proc[p] # "none" /\ parent[p] = PID1}

NoGuest ==
    /\ stage = "off"
    /\ guest = [mounts |-> {}, reachable |-> FALSE]
    /\ eth0 = {} /\ attempts = 0 /\ mounted = {}
    /\ proc = [p \in Procs |-> "none"] /\ parent = [p \in Procs |-> PID1]
    /\ ends = [p \in Procs |-> NotEnded] /\ code = 0
    /\ console = <<>> /\ how = "running" /\ late = FALSE

\* Runtime.Start: a new VM, with an empty console.  Whether the kernel was
\* built to apply the ip= parameter decides if eth0 has its address already.
PowerOn(mounts) ==
    /\ stage' = "mounts"
    /\ guest' = [mounts |-> mounts, reachable |-> FALSE]
    /\ eth0' \in {{}, {"payload"}}
    /\ attempts' = 0 /\ mounted' = {}
    /\ proc' = [p \in Procs |-> "none"] /\ parent' = [p \in Procs |-> PID1]
    /\ ends' = [p \in Procs |-> NotEnded] /\ code' = 0
    /\ console' = <<>> /\ how' = "running" /\ late' = FALSE

\* The VMM process exits: the guest rebooted, panicked or was killed.
PowerOff(reason) ==
    /\ stage' = "down" /\ how' = reason
    /\ proc' = [p \in Procs |-> "none"] /\ parent' = [p \in Procs |-> PID1]
    /\ ends' = [p \in Procs |-> NotEnded]
    /\ eth0' = {} /\ attempts' = 0 /\ code' = 0
    /\ UNCHANGED <<guest, mounted, late>>

\* fatal: a line on the console, and a reboot.
Fatal ==
    /\ PowerOff("fatal")
    /\ console' = Append(console, Line("other", NoMarker))

-----------------------------------------------------------------------------
(* Boot.                                                                   *)

Proceed(from, to) == stage = from /\ stage' = to

\* mountAll, /etc, ensureStdio, lo and eth0 up.
MountAll ==
    \/ /\ Proceed("mounts", "network")
       /\ UNCHANGED <<guest, eth0, attempts, mounted, proc, parent, ends, code,
                      console, how, late>>
    \/ stage = "mounts" /\ Fatal

\* ensureFallbackAddr and routeToMMDS: MMDS drops requests without a source.
EnsureFallbackAddr ==
    \/ /\ Proceed("network", "fetch")
       /\ eth0' = IF eth0 = {} THEN {"fallback"} ELSE eth0
       /\ UNCHANGED <<guest, attempts, mounted, proc, parent, ends, code, console,
                      how, late>>
    \/ stage = "network" /\ Fatal

\* An answer that does not decode is not retried.
FetchGuest ==
    \/ /\ Proceed("fetch", "configure")
       /\ eth0 # {}
       /\ attempts' = 0
       /\ UNCHANGED <<guest, eth0, mounted, proc, parent, ends, code,
                      console, how, late>>
    \/ /\ stage = "fetch" /\ attempts + 1 < MaxAttempts
       /\ attempts' = attempts + 1
       /\ UNCHANGED <<stage, guest, eth0, mounted, proc, parent, ends, code,
                      console, how, late>>
    \/ stage = "fetch" /\ Fatal

\* Mutant: the fallback address stays.
ConfigureAddr_KeepsFallback ==
    \/ /\ Proceed("configure", "volumes")
       /\ eth0' = eth0 \cup {"payload"}
       /\ UNCHANGED <<guest, attempts, mounted, proc, parent, ends, code, console,
                      how, late>>
    \/ stage = "configure" /\ Fatal

\* configureAddr, removeFallbackAddr if one was added, writeNetworkFiles.
ConfigureAddr ==
    \/ /\ Proceed("configure", "volumes")
       /\ eth0' = (eth0 \cup {"payload"}) \ {"fallback"}
       /\ UNCHANGED <<guest, attempts, mounted, proc, parent, ends, code, console,
                      how, late>>
    \/ stage = "configure" /\ Fatal

\* One mount after the other; a failure leaves the earlier ones mounted.
MountVolumes ==
    \/ /\ stage = "volumes"
       /\ \E v \in guest.mounts \ mounted : mounted' = mounted \cup {v}
       /\ UNCHANGED <<stage, guest, eth0, attempts, proc, parent, ends, code,
                      console, how, late>>
    \/ /\ Proceed("volumes", "start")
       /\ mounted = guest.mounts
       /\ UNCHANGED <<guest, eth0, attempts, mounted, proc, parent, ends, code,
                      console, how, late>>
    \/ stage = "volumes" /\ Fatal

\* Argv, setupDev, go runSSHAgent, and runChild up to cmd.Start.
StartChild ==
    \/ /\ Proceed("start", "notify")
       /\ proc' = [proc EXCEPT ![Child] = "alive"]
       /\ UNCHANGED <<guest, eth0, attempts, mounted, parent, ends, code, console,
                      how, late>>
    \/ stage = "start" /\ Fatal

\* signal.Notify: only from here on does Ctrl-Alt-Del reach the child.
NotifySignals ==
    /\ Proceed("notify", "wait")
    /\ UNCHANGED <<guest, eth0, attempts, mounted, proc, parent, ends, code,
                   console, how, late>>

-----------------------------------------------------------------------------
(* The app runs.                                                           *)

ExitCode(p) == IF ends[p].signal # 0 THEN 128 + ends[p].signal ELSE ends[p].status

\* Mutant: whichever child is reaped first ends the wait.
Reap_First ==
    \E p \in Children :
        /\ stage = "wait" /\ proc[p] = "zombie"
        /\ proc' = [proc EXCEPT ![p] = "none"]
        /\ stage' = "kill" /\ code' = ExitCode(p)
        /\ ends' = [ends EXCEPT ![p] = NotEnded]
        /\ UNCHANGED <<guest, eth0, attempts, mounted, parent, console, how, late>>

\* Wait4(-1), until it is the child that was reaped.
Reap ==
    \E p \in Children :
        /\ stage = "wait" /\ proc[p] = "zombie"
        /\ proc' = [proc EXCEPT ![p] = "none"]
        /\ stage' = IF p = Child THEN "kill" ELSE "wait"
        /\ code' = IF p = Child THEN ExitCode(p) ELSE code
        /\ ends' = [ends EXCEPT ![p] = NotEnded]
        /\ UNCHANGED <<guest, eth0, attempts, mounted, parent, console, how, late>>

\* A process dies; its children become PID 1's.
Die(p, end) ==
    /\ proc' = [proc EXCEPT ![p] = "zombie"]
    /\ ends' = [ends EXCEPT ![p] = end]
    /\ parent' = [q \in Procs |-> IF parent[q] = p THEN PID1 ELSE parent[q]]

\* The host's Ctrl-Alt-Del is SIGINT here (CAD_OFF).  While runChild waits it
\* is passed on as SIGTERM, which the child may heed or not; before Notify and
\* after signal.Stop it ends PID 1.
CtrlAltDel ==
    \/ /\ stage = "wait"
       /\ proc[Child] = "alive" /\ Die(Child, [status |-> 0, signal |-> SIGTERM])
       /\ UNCHANGED <<stage, guest, eth0, attempts, mounted, code, console, how, late>>
    \/ stage = "wait" /\ UNCHANGED guestVars
    \/ stage \in Booting \cup Ending /\ PowerOff("panic") /\ UNCHANGED console

\* The agent accepts a session and starts a shell, a child of PID 1, for as
\* long as the machine lives.
AcceptSession(p) ==
    /\ stage \in {"notify", "wait"} \cup Ending
    /\ guest.reachable /\ p # Child /\ proc[p] = "none"
    /\ proc' = [proc EXCEPT ![p] = "alive"]
    /\ parent' = [parent EXCEPT ![p] = PID1]
    /\ late' = (late \/ stage \in Ending \ {"kill"})
    /\ UNCHANGED <<stage, guest, eth0, attempts, mounted, ends, code, console, how>>

-----------------------------------------------------------------------------
(* Shutdown, once the child has been reaped.                               *)

\* Mutant: nobody is killed.
KillAll_Skipped ==
    /\ Proceed("kill", "reap")
    /\ UNCHANGED <<guest, eth0, attempts, mounted, proc, parent, ends, code, console,
                   how, late>>

\* Kill(-1, SIGKILL) after runChild's signal.Stop.
KillAll ==
    /\ Proceed("kill", "reap")
    /\ proc' = [p \in Procs |-> IF proc[p] = "alive" THEN "killed" ELSE proc[p]]
    /\ UNCHANGED <<guest, eth0, attempts, mounted, parent, ends, code, console, how, late>>

\* Mutant: the killed processes are not waited for.
ReapAll_Skipped ==
    /\ Proceed("reap", "unmount")
    /\ UNCHANGED <<guest, eth0, attempts, mounted, proc, parent, ends, code, console,
                   how, late>>

\* Wait4(-1) until there is no child left.
ReapAll ==
    \/ \E p \in Children :
          /\ stage = "reap" /\ proc[p] = "zombie"
          /\ proc' = [proc EXCEPT ![p] = "none"]
          /\ ends' = [ends EXCEPT ![p] = NotEnded]
          /\ UNCHANGED <<stage, guest, eth0, attempts, mounted, parent, code, console,
                         how, late>>
    \/ /\ Proceed("reap", "unmount") /\ Children = {}
       /\ UNCHANGED <<guest, eth0, attempts, mounted, proc, parent, ends, code,
                      console, how, late>>

\* The error is dropped: a volume some process still uses stays mounted.
UnmountVolumes ==
    /\ Proceed("unmount", "report")
    /\ mounted' \in IF Alive = {} THEN {{}} ELSE SUBSET mounted
    /\ UNCHANGED <<guest, eth0, attempts, proc, parent, ends, code, console, how, late>>

ReportStatus ==
    /\ Proceed("report", "reboot")
    /\ console' = Append(console, Line("other", code))
    /\ UNCHANGED <<guest, eth0, attempts, mounted, proc, parent, ends, code, how, late>>

RebootGuest == stage = "reboot" /\ PowerOff("reboot") /\ UNCHANGED console

\* Every step of PID 1.
InitStep ==
    \/ MountAll \/ EnsureFallbackAddr \/ FetchGuest \/ ConfigureAddr \/ MountVolumes
    \/ StartChild \/ NotifySignals \/ Reap \/ KillAll \/ ReapAll \/ UnmountVolumes
    \/ ReportStatus \/ RebootGuest

-----------------------------------------------------------------------------
(* The guest's processes and kernel.                                       *)

Fork(p, q) ==
    /\ proc[p] = "alive" /\ proc[q] = "none" /\ q # Child
    /\ proc' = [proc EXCEPT ![q] = "alive"] /\ parent' = [parent EXCEPT ![q] = p]
    /\ UNCHANGED <<stage, guest, eth0, attempts, mounted, ends, code, console, how, late>>

PrintLine(p) ==
    /\ proc[p] = "alive" /\ Len(console) < MaxLines
    /\ \E l \in Prints : console' = Append(console, l)
    /\ UNCHANGED <<stage, guest, eth0, attempts, mounted, proc, parent, ends, code, how, late>>

\* By itself or at the hands of another process or the kernel.
ExitProc(p) ==
    /\ proc[p] = "alive"
    /\ \/ \E s \in Statuses : Die(p, [status |-> s, signal |-> 0])
       \/ Die(p, [status |-> 0, signal |-> SIGKILL])
    /\ UNCHANGED <<stage, guest, eth0, attempts, mounted, code, console, how, late>>

\* SIGKILL, pending since KillAll, takes effect.
DieKilled(p) ==
    /\ proc[p] = "killed"
    /\ Die(p, [status |-> 0, signal |-> SIGKILL])
    /\ UNCHANGED <<stage, guest, eth0, attempts, mounted, code, console, how, late>>

Crash == Powered /\ PowerOff("panic") /\ UNCHANGED console

GuestStep ==
    \/ InitStep \/ Crash
    \/ \E p \in Procs : AcceptSession(p) \/ PrintLine(p) \/ ExitProc(p) \/ DieKilled(p)
    \/ \E p, q \in Procs : Fork(p, q)

-----------------------------------------------------------------------------
\* A guest that went down by the reboot at the end of run left no volume mounted,
\* though the app's orphans were writing to them to the last: they are killed and
\* reaped first (main.go, run).  The one way around it is a session that the
\* ssh agent accepted after the kill.  fatal reboots as well, when the boot fails,
\* and unmounts nothing.
CleanShutdown == stage = "down" /\ how = "reboot" => mounted = {} \/ late

\* The app starts with one address on eth0, the payload's, whether or not the
\* kernel had configured it and MMDS needed the fallback, and with all of its
\* volumes mounted.
ReadyForChild ==
    proc[Child] = "alive" => eth0 = {"payload"} /\ mounted = guest.mounts

\* Once the child has ended the guest goes down: no orphan outlives the kill
\* and no zombie is left that Wait4 would block on.  A session accepted after
\* the kill holds it up for as long as its shell runs.
GuestEnds ==
    stage \in Ending ~> (stage = "down" \/ (late /\ Alive # {}))

=============================================================================
