------------------------- MODULE DeployStream_proofs -------------------------
(***************************************************************************)
(* A streamed request and its two machines, for any number of processes,   *)
(* volumes, statuses and lines, and any heartbeats and output.             *)
(*                                                                         *)
(* CleanShutdown rests on the shape of the process tree: reap waits for    *)
(* PID 1's children only, so that nobody is left when it has none needs    *)
(* that a process's parent is alive, or PID 1, and that the tree has no    *)
(* cycle (Family).  ReadyForChild rests on what each stage of the boot has *)
(* established (Booted) and on the child running in two stages only.       *)
(*                                                                         *)
(* What the client is told is decided by the line it will have read last   *)
(* (LastLine), so Outcome says which line that is in every state in which  *)
(* the stream can still end properly, and which lines cannot be on their   *)
(* way at all, because a broken stream may end at any of them.             *)
(*                                                                         *)
(* That the release gate is implemented is an invariant about the way of   *)
(* the status (Verdict): from the child to PID 1's wait, to runChild's     *)
(* result, to the console, to the log and to the poll.                     *)
(***************************************************************************)
EXTENDS DeployStream, Extrema, SequenceTheorems

-----------------------------------------------------------------------------
(* The guest.                                                              *)

Stages == {"off", "down", "wait"} \cup Booting \cup Ending

Lines == Prints \cup {Line("other", m) : m \in Int}

Ends == [status : Nat, signal : Nat]

GuestTypeOK ==
    /\ stage \in Stages
    /\ guest \in [mounts : SUBSET Volumes, reachable : BOOLEAN]
    /\ eth0 \in SUBSET {"fallback", "payload"}
    /\ attempts \in Nat
    /\ proc \in [Procs -> {"none", "alive", "killed", "zombie"}]
    /\ parent \in [Procs -> Procs \cup {PID1}]
    /\ ends \in [Procs -> Ends]
    /\ code \in Nat
    /\ console \in Seq(Lines)

\* A process that has not been reaped has PID 1 for its parent or a process
\* that has not died, and rank witnesses that the tree has no cycle.
Descent(rank) ==
    \A p \in Procs : proc[p] # "none" /\ parent[p] \in Procs =>
        proc[parent[p]] \in {"alive", "killed"} /\ rank[parent[p]] < rank[p]

Family == \E rank \in [Procs -> Nat] : Descent(rank)

\* No process without a machine.
NobodyHome == stage \in {"off", "down"} => \A p \in Procs : proc[p] = "none"

\* What the boot has done by the time it gets to a stage.
Booted ==
    /\ stage \in {"volumes", "start", "notify", "wait"} => eth0 = {"payload"}
    /\ stage \in {"start", "notify", "wait"} => mounted = guest.mounts

\* The child is started once, and the wait ends by reaping it; kill(-1) comes
\* after that.  It is PID 1's own.
ChildRuns == stage \in {"notify", "wait"} <=> proc[Child] \in {"alive", "killed", "zombie"}

ChildSpared == proc[Child] # "killed" /\ parent[Child] = PID1

\* What the shutdown has done by the time it gets to a stage, unless a session
\* came in after the kill.
ShutDown ==
    /\ stage \in Ending \ {"kill"} /\ ~late => \A p \in Procs : proc[p] # "alive"
    /\ stage = "unmount" /\ ~late => Alive = {}
    /\ stage \in {"report", "reboot"} /\ ~late => mounted = {}
    /\ stage = "down" /\ how = "reboot" /\ ~late => mounted = {}

GuestInv ==
    /\ GuestTypeOK /\ Family /\ NobodyHome /\ Booted /\ ChildRuns /\ ChildSpared /\ ShutDown

-----------------------------------------------------------------------------
\* The two properties of a guest follow from its invariant.
LEMMA GuestInvGives == GuestInv => CleanShutdown /\ ReadyForChild
<1>1. GuestInv => CleanShutdown
  BY DEF GuestInv, ShutDown, CleanShutdown
<1>2. GuestInv => ReadyForChild
  BY DEF GuestInv, ChildRuns, Booted, ReadyForChild
<1> QED
  BY <1>1, <1>2

\* With no process around, the invariant is one about the boot.
LEMMA EmptyFamily ==
    ASSUME \A p \in Procs : proc[p] = "none"
    PROVE  Family
<1>1. [p \in Procs |-> 0] \in [Procs -> Nat]
  OBVIOUS
<1>2. Descent([p \in Procs |-> 0])
  BY DEF Descent
<1> QED
  BY <1>1, <1>2 DEF Family

LEMMA NoGuestInv == NoGuest => GuestInv
<1> SUFFICES ASSUME NoGuest PROVE GuestInv
  OBVIOUS
<1>1. GuestTypeOK
  BY DEF NoGuest, GuestTypeOK, NotEnded, Ends, Stages
<1>2. \A p \in Procs : proc[p] = "none"
  BY DEF NoGuest
<1>3. Family
  BY <1>2, EmptyFamily
<1> QED
  BY <1>1, <1>2, <1>3, GuestAssumption
  DEF NoGuest, GuestInv, NobodyHome, Booted, ChildRuns, ChildSpared, ShutDown, Ending

LEMMA PowerOnKeepsInv ==
    ASSUME GuestInv, NEW m \in SUBSET Volumes, PowerOn(m)
    PROVE  GuestInv'
<1>1. GuestTypeOK'
  BY DEF PowerOn, GuestInv, GuestTypeOK, NotEnded, Ends, Stages, Booting
<1>2. \A p \in Procs : proc'[p] = "none"
  BY DEF PowerOn
<1>3. Family'
  <2>1. [p \in Procs |-> 0] \in [Procs -> Nat]
    OBVIOUS
  <2>2. Descent([p \in Procs |-> 0])'
    BY <1>2 DEF Descent
  <2> QED BY <2>1, <2>2 DEF Family
<1> QED
  BY <1>1, <1>2, <1>3, GuestAssumption
  DEF PowerOn, GuestInv, NobodyHome, Booted, ChildRuns, ChildSpared, ShutDown, Ending

LEMMA PowerOffKeepsInv ==
    ASSUME GuestInv, NEW r, r # "reboot" \/ stage = "reboot", PowerOff(r),
           console' \in Seq(Lines)
    PROVE  GuestInv'
<1>1. GuestTypeOK'
  BY DEF PowerOff, GuestInv, GuestTypeOK, NotEnded, Ends, Stages
<1>2. \A p \in Procs : proc'[p] = "none"
  BY DEF PowerOff
<1>3. Family'
  <2>1. [p \in Procs |-> 0] \in [Procs -> Nat]
    OBVIOUS
  <2>2. Descent([p \in Procs |-> 0])'
    BY <1>2 DEF Descent
  <2> QED BY <2>1, <2>2 DEF Family
<1>4. ShutDown'
  BY DEF PowerOff, GuestInv, ShutDown, Ending
<1> QED
  BY <1>1, <1>2, <1>3, <1>4, GuestAssumption
  DEF PowerOff, GuestInv, NobodyHome, Booted, ChildRuns, ChildSpared

LEMMA FatalKeepsInv ==
    ASSUME GuestInv, stage \in Booting, Fatal
    PROVE  GuestInv'
<1>1. console' \in Seq(Lines)
  <2>1. Line("other", NoMarker) \in Lines
    BY DEF Lines, NoMarker
  <2> QED BY <2>1 DEF Fatal, GuestInv, GuestTypeOK
<1> QED
  BY <1>1, PowerOffKeepsInv DEF Fatal

-----------------------------------------------------------------------------
\* The stages of the boot up to the child's start.
LEMMA BootKeepsInv ==
    ASSUME GuestInv,
           MountAll \/ EnsureFallbackAddr \/ FetchGuest \/ ConfigureAddr \/ MountVolumes
               \/ NotifySignals
    PROVE  GuestInv'
<1> USE DEF Booting, Ending
<1>1. CASE stage \in Booting /\ Fatal
  BY <1>1, FatalKeepsInv
<1>2. CASE ~Fatal
  <2>1. UNCHANGED <<guest, proc, parent, ends, code, console, how, late>>
    BY <1>2 DEF MountAll, EnsureFallbackAddr, FetchGuest, ConfigureAddr, MountVolumes,
                NotifySignals
  <2>2. /\ stage \in Booting /\ stage' \in Booting \cup {"wait"}
        /\ eth0' \in SUBSET {"fallback", "payload"} /\ attempts' \in Nat
    <3>1. stage \in Booting /\ stage' \in Booting \cup {"wait"}
      BY <1>2 DEF MountAll, EnsureFallbackAddr, FetchGuest, ConfigureAddr, MountVolumes,
                  NotifySignals, Proceed
    <3>2. eth0 \in SUBSET {"fallback", "payload"} /\ attempts \in Nat
      BY DEF GuestInv, GuestTypeOK
    <3>3. eth0' \in SUBSET {"fallback", "payload"}
      BY <1>2, <3>2 DEF MountAll, EnsureFallbackAddr, FetchGuest, ConfigureAddr,
                        MountVolumes, NotifySignals
    <3>4. attempts' \in Nat
      BY <1>2, <3>2 DEF MountAll, EnsureFallbackAddr, FetchGuest, ConfigureAddr,
                        MountVolumes, NotifySignals
    <3> QED BY <3>1, <3>3, <3>4
  <2>3. GuestTypeOK'
    BY <2>1, <2>2 DEF GuestInv, GuestTypeOK, Stages
  <2>4. Family'
    BY <2>1 DEF GuestInv, Family, Descent
  <2>5. Booted'
    BY <1>2, <2>1 DEF MountAll, EnsureFallbackAddr, FetchGuest, ConfigureAddr, MountVolumes,
                NotifySignals, Proceed, GuestInv, GuestTypeOK, Booted
  <2>6. stage \in {"notify", "wait"} <=> stage' \in {"notify", "wait"}
    BY <1>2 DEF MountAll, EnsureFallbackAddr, FetchGuest, ConfigureAddr, MountVolumes,
                NotifySignals, Proceed
  <2> QED
    BY <2>1, <2>2, <2>3, <2>4, <2>5, <2>6
    DEF GuestInv, NobodyHome, ChildRuns, ChildSpared, ShutDown
<1>3. Fatal => stage \in Booting
  BY DEF MountAll, EnsureFallbackAddr, FetchGuest, ConfigureAddr, MountVolumes,
         NotifySignals, Proceed
<1> QED
  BY <1>1, <1>2, <1>3

LEMMA StartChildKeepsInv ==
    ASSUME GuestInv, StartChild
    PROVE  GuestInv'
<1> USE DEF Booting, Ending
<1>1. CASE stage = "start" /\ Fatal
  BY <1>1, FatalKeepsInv
<1>2. CASE ~Fatal
  <2>1. /\ stage = "start" /\ stage' = "notify"
        /\ proc' = [proc EXCEPT ![Child] = "alive"]
        /\ UNCHANGED <<guest, eth0, attempts, mounted, parent, ends, code, console, how, late>>
    BY <1>2 DEF StartChild, Proceed
  <2>2. GuestTypeOK'
    BY <2>1 DEF GuestInv, GuestTypeOK, Stages
  <2>3. Family'
    <3>1. PICK rank \in [Procs -> Nat] : Descent(rank)
      BY DEF GuestInv, Family
    <3>2. Descent(rank)'
      BY <2>1, <3>1, GuestAssumption DEF Descent, GuestInv, GuestTypeOK, ChildSpared
    <3> QED BY <3>2 DEF Family
  <2> QED
    BY <2>1, <2>2, <2>3, GuestAssumption
    DEF GuestInv, NobodyHome, ChildRuns, ChildSpared, ShutDown, Booted, GuestTypeOK
<1>3. Fatal => stage = "start"
  BY DEF StartChild, Proceed
<1> QED
  BY <1>1, <1>2, <1>3

-----------------------------------------------------------------------------
\* A process dies: its children become PID 1's, so the tree stays one.
LEMMA DieKeepsInv ==
    ASSUME GuestInv, NEW p \in Procs, proc[p] \in {"alive", "killed"}, NEW end \in Ends,
           Die(p, end),
           UNCHANGED <<stage, guest, eth0, attempts, mounted, code, console, how, late>>
    PROVE  GuestInv'
<1>1. /\ proc' = [proc EXCEPT ![p] = "zombie"]
      /\ ends' = [ends EXCEPT ![p] = end]
      /\ parent' = [q \in Procs |-> IF parent[q] = p THEN PID1 ELSE parent[q]]
  BY DEF Die
<1>2. GuestTypeOK'
  BY <1>1 DEF GuestInv, GuestTypeOK
<1>3. Family'
  <2>1. PICK rank \in [Procs -> Nat] : Descent(rank)
    BY DEF GuestInv, Family
  <2>2. Descent(rank)'
    BY <1>1, <2>1, GuestAssumption DEF Descent, GuestInv, GuestTypeOK
  <2> QED BY <2>2 DEF Family
<1>4. ShutDown'
  BY <1>1 DEF GuestInv, GuestTypeOK, ShutDown, Alive
<1>5. NobodyHome' /\ ChildRuns' /\ ChildSpared'
  BY <1>1, GuestAssumption DEF GuestInv, GuestTypeOK, NobodyHome, ChildRuns, ChildSpared
<1> QED
  BY <1>2, <1>3, <1>4, <1>5 DEF GuestInv, Booted

\* A zombie is reaped: nobody's parent is a zombie.
LEMMA ReapedKeepsFamily ==
    ASSUME GuestInv, NEW p \in Procs, proc[p] = "zombie",
           proc' = [proc EXCEPT ![p] = "none"], parent' = parent
    PROVE  Family'
<1>1. PICK rank \in [Procs -> Nat] : Descent(rank)
  BY DEF GuestInv, Family
<1>2. Descent(rank)'
  BY <1>1 DEF Descent, GuestInv, GuestTypeOK
<1> QED
  BY <1>2 DEF Family

LEMMA ReapKeepsInv ==
    ASSUME GuestInv, Reap
    PROVE  GuestInv'
<1>1. PICK p \in Children :
        /\ stage = "wait" /\ proc[p] = "zombie"
        /\ proc' = [proc EXCEPT ![p] = "none"]
        /\ stage' = IF p = Child THEN "kill" ELSE "wait"
        /\ code' = IF p = Child THEN ExitCode(p) ELSE code
        /\ ends' = [ends EXCEPT ![p] = NotEnded]
        /\ UNCHANGED <<guest, eth0, attempts, mounted, parent, console, how, late>>
  BY DEF Reap
<1>2. p \in Procs
  BY DEF Children
<1>3. Family'
  BY <1>1, <1>2, ReapedKeepsFamily
<1>4. GuestTypeOK'
  <2>1. ExitCode(p) \in Nat
    BY <1>2 DEF ExitCode, GuestInv, GuestTypeOK, Ends
  <2> QED
    BY <1>1, <1>2, <2>1 DEF GuestInv, GuestTypeOK, Stages, Ending, NotEnded, Ends
<1>5. NobodyHome' /\ ChildRuns' /\ ChildSpared'
  BY <1>1, <1>2, GuestAssumption
  DEF GuestInv, GuestTypeOK, NobodyHome, ChildRuns, ChildSpared
<1>6. Booted' /\ ShutDown'
  BY <1>1 DEF GuestInv, Booted, ShutDown, Ending
<1> QED
  BY <1>3, <1>4, <1>5, <1>6 DEF GuestInv

LEMMA KillAllKeepsInv ==
    ASSUME GuestInv, KillAll
    PROVE  GuestInv'
<1>1. /\ stage = "kill" /\ stage' = "reap"
      /\ proc' = [p \in Procs |-> IF proc[p] = "alive" THEN "killed" ELSE proc[p]]
      /\ UNCHANGED <<guest, eth0, attempts, mounted, parent, ends, code, console, how, late>>
  BY DEF KillAll, Proceed
<1>2. GuestTypeOK'
  BY <1>1 DEF GuestInv, GuestTypeOK, Stages, Ending
<1>3. Family'
  <2>1. PICK rank \in [Procs -> Nat] : Descent(rank)
    BY DEF GuestInv, Family
  <2>2. Descent(rank)'
    BY <1>1, <2>1 DEF Descent, GuestInv, GuestTypeOK
  <2> QED BY <2>2 DEF Family
<1>4. \A p \in Procs : proc'[p] # "alive"
  BY <1>1
<1>5. NobodyHome' /\ ChildRuns' /\ ChildSpared'
  BY <1>1, GuestAssumption DEF GuestInv, GuestTypeOK, NobodyHome, ChildRuns, ChildSpared
<1>6. Booted' /\ ShutDown'
  BY <1>1, <1>4 DEF GuestInv, Booted, ShutDown
<1> QED
  BY <1>2, <1>3, <1>5, <1>6 DEF GuestInv

\* When Wait4 finds no child of PID 1 there is no process at all: the one
\* closest to the root would have a parent closer still.
LEMMA NoChildrenNobody ==
    ASSUME GuestInv, Children = {}
    PROVE  \A p \in Procs : proc[p] = "none"
<1>1. PICK rank \in [Procs -> Nat] : Descent(rank)
  BY DEF GuestInv, Family
<1> DEFINE S == {p \in Procs : proc[p] # "none"}
           R == {rank[p] : p \in S}
<1>2. SUFFICES ASSUME S # {} PROVE FALSE
  OBVIOUS
<1>3. R \in SUBSET Nat /\ R # {}
  BY <1>2
<1>4. PICK r \in R : \A y \in R : r <= y
  <2> HIDE DEF R
  <2> QED BY <1>3, LeastExists
<1>5. PICK p \in S : rank[p] = r
  OBVIOUS
<1>6. parent[p] \in Procs
  BY DEF Children, GuestInv, GuestTypeOK
<1>7. parent[p] \in S /\ rank[parent[p]] < rank[p]
  BY <1>1, <1>6 DEF Descent
<1>8. rank[parent[p]] \in R /\ rank[parent[p]] \in Nat /\ rank[p] \in Nat
  BY <1>6, <1>7
<1> QED
  BY <1>4, <1>5, <1>7, <1>8

LEMMA ReapAllKeepsInv ==
    ASSUME GuestInv, ReapAll
    PROVE  GuestInv'
<1>1. CASE \E p \in Children :
             /\ stage = "reap" /\ proc[p] = "zombie"
             /\ proc' = [proc EXCEPT ![p] = "none"]
             /\ ends' = [ends EXCEPT ![p] = NotEnded]
             /\ UNCHANGED <<stage, guest, eth0, attempts, mounted, parent, code, console,
                            how, late>>
  <2>1. PICK p \in Children :
             /\ stage = "reap" /\ proc[p] = "zombie"
             /\ proc' = [proc EXCEPT ![p] = "none"]
             /\ ends' = [ends EXCEPT ![p] = NotEnded]
             /\ UNCHANGED <<stage, guest, eth0, attempts, mounted, parent, code, console,
                            how, late>>
    BY <1>1
  <2>2. p \in Procs
    BY DEF Children
  <2>3. Family'
    BY <2>1, <2>2, ReapedKeepsFamily
  <2>4. GuestTypeOK'
    BY <2>1, <2>2 DEF GuestInv, GuestTypeOK, NotEnded, Ends
  <2>5. NobodyHome' /\ ChildRuns' /\ ChildSpared'
    BY <2>1, <2>2, GuestAssumption
    DEF GuestInv, GuestTypeOK, NobodyHome, ChildRuns, ChildSpared
  <2>6. Booted' /\ ShutDown'
    BY <2>1, <2>2 DEF GuestInv, GuestTypeOK, Booted, ShutDown
  <2> QED
    BY <2>3, <2>4, <2>5, <2>6 DEF GuestInv
<1>2. CASE /\ Proceed("reap", "unmount") /\ Children = {}
           /\ UNCHANGED <<guest, eth0, attempts, mounted, proc, parent, ends, code,
                          console, how, late>>
  <2>1. stage = "reap" /\ stage' = "unmount"
    BY <1>2 DEF Proceed
  <2>2. \A p \in Procs : proc[p] = "none"
    BY <1>2, NoChildrenNobody
  <2>3. GuestTypeOK' /\ Family'
    BY <1>2, <2>1 DEF GuestInv, GuestTypeOK, Stages, Ending, Family, Descent
  <2>4. NobodyHome' /\ ChildRuns' /\ ChildSpared'
    BY <1>2, <2>1 DEF GuestInv, NobodyHome, ChildRuns, ChildSpared
  <2>5. Booted' /\ ShutDown'
    BY <1>2, <2>1, <2>2 DEF GuestInv, Booted, ShutDown, Alive
  <2> QED
    BY <2>3, <2>4, <2>5 DEF GuestInv
<1> QED
  BY <1>1, <1>2 DEF ReapAll

LEMMA UnmountKeepsInv ==
    ASSUME GuestInv, UnmountVolumes
    PROVE  GuestInv'
<1>1. /\ stage = "unmount" /\ stage' = "report"
      /\ UNCHANGED <<guest, eth0, attempts, proc, parent, ends, code, console, how, late>>
  BY DEF UnmountVolumes, Proceed
<1>2. ~late => mounted' = {}
  BY <1>1 DEF UnmountVolumes, GuestInv, ShutDown
<1>3. GuestTypeOK' /\ Family'
  BY <1>1 DEF GuestInv, GuestTypeOK, Stages, Ending, Family, Descent
<1> QED
  BY <1>1, <1>2, <1>3
  DEF GuestInv, NobodyHome, ChildRuns, ChildSpared, Booted, ShutDown, Ending

LEMMA ReportKeepsInv ==
    ASSUME GuestInv, ReportStatus
    PROVE  GuestInv'
<1>1. /\ stage = "report" /\ stage' = "reboot"
      /\ UNCHANGED <<guest, eth0, attempts, mounted, proc, parent, ends, code, how, late>>
  BY DEF ReportStatus, Proceed
<1>2. console' \in Seq(Lines)
  <2>1. Line("other", code) \in Lines
    BY DEF Lines, GuestInv, GuestTypeOK
  <2> QED BY <2>1 DEF ReportStatus, GuestInv, GuestTypeOK
<1>3. GuestTypeOK' /\ Family'
  BY <1>1, <1>2 DEF GuestInv, GuestTypeOK, Stages, Ending, Family, Descent
<1> QED
  BY <1>1, <1>3
  DEF GuestInv, NobodyHome, ChildRuns, ChildSpared, Booted, ShutDown, Ending

-----------------------------------------------------------------------------
\* A new process, of the agent or of a fork, goes below a living one or PID 1;
\* nobody had it for a parent.
LEMMA SpawnKeepsFamily ==
    ASSUME GuestInv, NEW q \in Procs, proc[q] = "none",
           NEW p \in Procs \cup {PID1}, p \in Procs => proc[p] \in {"alive", "killed"},
           proc' = [proc EXCEPT ![q] = "alive"], parent' = [parent EXCEPT ![q] = p]
    PROVE  Family'
<1>1. PICK rank \in [Procs -> Nat] : Descent(rank)
  BY DEF GuestInv, Family
<1>2. CASE p = PID1
  <2>1. Descent(rank)'
    BY <1>1, <1>2, GuestAssumption DEF Descent, GuestInv, GuestTypeOK
  <2> QED BY <2>1 DEF Family
<1>3. CASE p \in Procs
  <2> DEFINE below == [rank EXCEPT ![q] = rank[p] + 1]
  <2>1. p # q /\ below \in [Procs -> Nat]
    BY <1>3
  <2>2. Descent(below)'
    <3> SUFFICES ASSUME NEW o \in Procs, proc'[o] # "none", parent'[o] \in Procs
                 PROVE  /\ proc'[parent'[o]] \in {"alive", "killed"}
                        /\ below[parent'[o]] < below[o]
      BY DEF Descent
    <3>1. CASE o = q
      <4>1. parent'[o] = p /\ proc'[p] = proc[p]
        BY <2>1, <3>1 DEF GuestInv, GuestTypeOK
      <4>2. below[p] = rank[p] /\ below[o] = rank[p] + 1 /\ rank[p] \in Nat
        BY <1>3, <2>1, <3>1
      <4> QED BY <1>3, <4>1, <4>2
    <3>2. CASE o # q
      <4>1. proc[o] # "none" /\ parent'[o] = parent[o] /\ parent[o] \in Procs
        BY <3>2 DEF GuestInv, GuestTypeOK
      <4>2. proc[parent[o]] \in {"alive", "killed"} /\ rank[parent[o]] < rank[o]
        BY <1>1, <4>1 DEF Descent
      <4>3. parent[o] # q
        BY <4>2
      <4> QED BY <3>2, <4>1, <4>2, <4>3 DEF GuestInv, GuestTypeOK
    <3> QED BY <3>1, <3>2
  <2> HIDE DEF below
  <2> QED BY <2>1, <2>2 DEF Family
<1> QED
  BY <1>2, <1>3

LEMMA AcceptKeepsInv ==
    ASSUME GuestInv, NEW p \in Procs, AcceptSession(p)
    PROVE  GuestInv'
<1> USE DEF Ending
<1>1. /\ stage \in {"notify", "wait"} \cup Ending /\ p # Child /\ proc[p] = "none"
      /\ proc' = [proc EXCEPT ![p] = "alive"]
      /\ parent' = [parent EXCEPT ![p] = PID1]
      /\ UNCHANGED <<stage, guest, eth0, attempts, mounted, ends, code, console, how>>
  BY DEF AcceptSession
<1>2. late \/ stage \in Ending \ {"kill"} <=> late'
  BY DEF AcceptSession
<1>3. Family'
  BY <1>1, SpawnKeepsFamily, GuestAssumption
<1>4. GuestTypeOK'
  BY <1>1 DEF GuestInv, GuestTypeOK
<1>5. NobodyHome' /\ ChildRuns' /\ ChildSpared'
  BY <1>1, GuestAssumption DEF GuestInv, GuestTypeOK, NobodyHome, ChildRuns, ChildSpared
<1>6. Booted' /\ ShutDown'
  BY <1>1, <1>2 DEF GuestInv, Booted, ShutDown
<1> QED
  BY <1>3, <1>4, <1>5, <1>6 DEF GuestInv

LEMMA ForkKeepsInv ==
    ASSUME GuestInv, NEW p \in Procs, NEW q \in Procs, Fork(p, q)
    PROVE  GuestInv'
<1>1. /\ proc[p] = "alive" /\ proc[q] = "none" /\ q # Child
      /\ proc' = [proc EXCEPT ![q] = "alive"] /\ parent' = [parent EXCEPT ![q] = p]
      /\ UNCHANGED <<stage, guest, eth0, attempts, mounted, ends, code, console, how, late>>
  BY DEF Fork
<1>2. Family'
  BY <1>1, SpawnKeepsFamily
<1>3. GuestTypeOK'
  BY <1>1 DEF GuestInv, GuestTypeOK
<1>4. NobodyHome' /\ ChildRuns' /\ ChildSpared'
  BY <1>1, GuestAssumption DEF GuestInv, GuestTypeOK, NobodyHome, ChildRuns, ChildSpared
<1>5. Booted' /\ ShutDown'
  BY <1>1 DEF GuestInv, Booted, ShutDown, Alive
<1> QED
  BY <1>2, <1>3, <1>4, <1>5 DEF GuestInv

LEMMA PrintKeepsInv ==
    ASSUME GuestInv, NEW p \in Procs, PrintLine(p)
    PROVE  GuestInv'
<1>1. UNCHANGED <<stage, guest, eth0, attempts, mounted, proc, parent, ends, code, how, late>>
  BY DEF PrintLine
<1>2. console' \in Seq(Lines)
  <2>1. PICK l \in Prints : console' = Append(console, l)
    BY DEF PrintLine
  <2>2. l \in Lines
    BY DEF Lines
  <2> QED BY <2>1, <2>2 DEF GuestInv, GuestTypeOK
<1>3. GuestTypeOK' /\ Family'
  BY <1>1, <1>2 DEF GuestInv, GuestTypeOK, Family, Descent
<1> QED
  BY <1>1, <1>3 DEF GuestInv, NobodyHome, ChildRuns, ChildSpared, Booted, ShutDown, Alive

LEMMA ExitKeepsInv ==
    ASSUME GuestInv, NEW p \in Procs, ExitProc(p) \/ DieKilled(p)
    PROVE  GuestInv'
<1>1. /\ proc[p] \in {"alive", "killed"}
      /\ UNCHANGED <<stage, guest, eth0, attempts, mounted, code, console, how, late>>
  BY DEF ExitProc, DieKilled
<1>2. PICK end \in Ends : Die(p, end)
  <2>1. [status |-> 0, signal |-> SIGKILL] \in Ends
    BY DEF Ends, SIGKILL
  <2>2. \A s \in Statuses : [status |-> s, signal |-> 0] \in Ends
    BY GuestAssumption DEF Ends
  <2> QED BY <2>1, <2>2 DEF ExitProc, DieKilled
<1> QED
  BY <1>1, <1>2, DieKeepsInv

LEMMA CtrlAltDelKeepsInv ==
    ASSUME GuestInv, CtrlAltDel
    PROVE  GuestInv'
<1>1. CASE /\ stage = "wait"
           /\ proc[Child] = "alive" /\ Die(Child, [status |-> 0, signal |-> SIGTERM])
           /\ UNCHANGED <<stage, guest, eth0, attempts, mounted, code, console, how, late>>
  <2>1. [status |-> 0, signal |-> SIGTERM] \in Ends
    BY DEF Ends, SIGTERM
  <2> QED BY <1>1, <2>1, DieKeepsInv, GuestAssumption
<1>2. CASE stage = "wait" /\ UNCHANGED guestVars
  BY <1>2 DEF guestVars, GuestInv, GuestTypeOK, Family, Descent, NobodyHome, ChildRuns,
              ChildSpared, Booted, ShutDown, Alive
<1>3. CASE stage \in Booting \cup Ending /\ PowerOff("panic") /\ UNCHANGED console
  <2>1. console' \in Seq(Lines)
    BY <1>3 DEF GuestInv, GuestTypeOK
  <2> QED BY <1>3, <2>1, PowerOffKeepsInv
<1> QED
  BY <1>1, <1>2, <1>3 DEF CtrlAltDel

LEMMA KilledKeepsInv ==
    ASSUME GuestInv, NEW r, r # "reboot" \/ stage = "reboot", PowerOff(r), UNCHANGED console
    PROVE  GuestInv'
<1>1. console' \in Seq(Lines)
  BY DEF GuestInv, GuestTypeOK
<1> QED
  BY <1>1, PowerOffKeepsInv

\* Whatever PID 1, a process or the kernel does next.
LEMMA GuestStepKeepsInv ==
    ASSUME GuestInv, GuestStep
    PROVE  GuestInv'
<1>1. CASE InitStep
  <2>1. CASE RebootGuest
    BY <2>1, KilledKeepsInv DEF RebootGuest
  <2> QED
    BY <1>1, <2>1, BootKeepsInv, StartChildKeepsInv, ReapKeepsInv, KillAllKeepsInv,
       ReapAllKeepsInv, UnmountKeepsInv, ReportKeepsInv DEF InitStep
<1>2. CASE Crash
  BY <1>2, KilledKeepsInv DEF Crash
<1>3. ASSUME NEW p \in Procs,
             AcceptSession(p) \/ PrintLine(p) \/ ExitProc(p) \/ DieKilled(p)
      PROVE  GuestInv'
  BY <1>3, AcceptKeepsInv, PrintKeepsInv, ExitKeepsInv
<1> QED
  BY <1>1, <1>2, <1>3, ForkKeepsInv DEF GuestStep

-----------------------------------------------------------------------------
(* The stream.                                                             *)

Pcs == {"idle", "rootfs", "command", "waiting", "poll", "boot", "health", "mark", "cutover",
        "tunnel", "owner", "stop", "stopping", "docker", "end"}

Words == {"ok", "error", "image", "other"} \cup {l.prefix : l \in Lines}

StreamTypeOK ==
    /\ pc \in Pcs
    /\ request \in [op : Ops, command : BOOLEAN]
    /\ message \in Seq(Words)
    /\ conn \in {"open", "cut"}
    /\ wire \in Seq(Words)
    /\ last \in Words
    /\ told \in {"none", "success", "failure"}
    /\ live \in BOOLEAN /\ result \in {"none", "ok", "failed"} /\ multiline \in BOOLEAN
    /\ faulty \in BOOLEAN

\* The log is a beginning of the console.
Logged == flushed \in 0..Len(console)

MachineInv == GuestInv /\ Logged

\* The lines the client has read last or may still read, and the one at which
\* a stream that ends properly will end.
OnTheWay == {last} \cup {wire[i] : i \in 1..Len(wire)}
LastLine == IF wire = <<>> THEN last ELSE wire[Len(wire)]

Waiting == conn = "open" /\ told = "none"

\* How far the operation is, and what has become of it.
Course ==
    /\ result = "none" <=> pc # "end"
    /\ pc \in {"tunnel", "owner"} \/ result = "ok" => live
    /\ multiline => result = "failed"
    /\ message = <<>> \/ Len(message) = 3
    /\ conn = "open" /\ pc # "end" => told = "none"
    /\ conn = "cut" => told # "none"
    /\ pc # "end" => (pc = "docker" <=> request.op = "build")

Outcome ==
    /\ request.op # "build" /\ result # "failed" => "error" \notin OnTheWay
    /\ ~live /\ ~multiline => "ok" \notin OnTheWay
    /\ pc = "tunnel" /\ Waiting => LastLine = "ok"
    /\ request.op = "build" /\ result = "ok" /\ Waiting => LastLine = "image"
    /\ result = "failed" /\ ~multiline /\ Waiting => LastLine = "error"

Verdicts ==
    /\ told = "failure" /\ ~faulty => result = "failed"
    /\ told = "success" /\ ~live => multiline

StreamInv == StreamTypeOK /\ Course /\ Outcome /\ Verdicts

\* Nobody in the guest prints what oak-init reports the status with.
NoForgery == \A l \in Prints : l.marker = NoMarker

\* The way of the release command's status.
Verdict ==
    /\ pc = "idle" => booted = FALSE
    /\ pc \in {"idle", "rootfs", "command"} => ended = NotRun
    /\ pc = "waiting" =>
         /\ stage \in Booting \ {"notify"} => ended = NotRun
         /\ proc[Child] = "alive" => ended = NotRun
         /\ proc[Child] = "zombie" => ended = ExitCode(Child)
         /\ stage \in Ending => ended = code
    /\ pc \in {"waiting", "poll"} =>
         \A i \in 1..Len(console) : console[i].marker \in {NoMarker, ended}
    /\ pc = "poll" => stage = "down"
    /\ pc = "boot" /\ request.command => ended = 0

-----------------------------------------------------------------------------
(* The machines.                                                           *)

\* The console only grows.
LEMMA ConsoleGrows ==
    ASSUME GuestInv, GuestStep
    PROVE  console' = console \/ \E l \in Lines : console' = Append(console, l)
<1>1. \A m \in Int : Line("other", m) \in Lines
  BY DEF Lines
<1>2. Fatal => \E l \in Lines : console' = Append(console, l)
  BY <1>1 DEF Fatal, NoMarker
<1>3. CASE InitStep
  <2>1. ReportStatus => \E l \in Lines : console' = Append(console, l)
    BY <1>1 DEF ReportStatus, GuestInv, GuestTypeOK
  <2> QED
    BY <1>2, <1>3, <2>1
    DEF InitStep, MountAll, EnsureFallbackAddr, FetchGuest, ConfigureAddr, MountVolumes,
        StartChild, NotifySignals, Reap, KillAll, ReapAll, UnmountVolumes, RebootGuest
<1>4. CASE Crash
  BY <1>4 DEF Crash
<1>5. ASSUME NEW p \in Procs,
             AcceptSession(p) \/ PrintLine(p) \/ ExitProc(p) \/ DieKilled(p)
      PROVE  console' = console \/ \E l \in Lines : console' = Append(console, l)
  BY <1>5 DEF AcceptSession, PrintLine, ExitProc, DieKilled, Lines
<1>6. ASSUME NEW p \in Procs, NEW q \in Procs, Fork(p, q)
      PROVE  console' = console
  BY <1>6 DEF Fork
<1> QED
  BY <1>3, <1>4, <1>5, <1>6 DEF GuestStep

LEMMA SameGuest ==
    ASSUME GuestInv, UNCHANGED guestVars
    PROVE  GuestInv'
  BY DEF guestVars, GuestInv, GuestTypeOK, Family, Descent, NobodyHome, ChildRuns,
         ChildSpared, Booted, ShutDown, Alive

LEMMA CtrlAltDelKeepsConsole ==
    ASSUME CtrlAltDel
    PROVE  console' = console
  BY DEF CtrlAltDel, guestVars

LEMMA MachineStep ==
    ASSUME MachineInv, [StreamNext]_vars
    PROVE  MachineInv'
<1> USE DEF MachineInv
<1>0. console \in Seq(Lines) /\ Len(console) \in Nat
  BY DEF GuestInv, GuestTypeOK
<1>1. CASE /\ UNCHANGED guestVars
           /\ flushed' = flushed \/ Flush
  <2>1. GuestInv'
    BY <1>1, SameGuest
  <2>2. Logged'
    BY <1>0, <1>1 DEF Logged, Flush, guestVars
  <2> QED BY <2>1, <2>2
<1>2. ASSUME NEW m \in SUBSET Volumes, PowerOn(m), flushed' = 0
      PROVE  MachineInv'
  <2>1. GuestInv'
    BY <1>2, PowerOnKeepsInv
  <2>2. Logged'
    BY <1>2 DEF Logged, PowerOn
  <2> QED BY <2>1, <2>2
<1>3. CASE CtrlAltDel /\ flushed' = flushed
  BY <1>3, CtrlAltDelKeepsInv, CtrlAltDelKeepsConsole DEF Logged
<1>4. CASE PowerOff("killed") /\ UNCHANGED <<console, flushed>>
  BY <1>4, KilledKeepsInv DEF Logged
<1>5. CASE GuestRuns
  <2>1. GuestStep /\ flushed' = flushed
    BY <1>5 DEF GuestRuns
  <2>2. GuestInv'
    BY <2>1, GuestStepKeepsInv
  <2>3. Logged'
    <3>1. Len(console') = Len(console) \/ Len(console') = Len(console) + 1
      BY <1>0, <2>1, ConsoleGrows
    <3> QED BY <1>0, <2>1, <3>1 DEF Logged
  <2> QED BY <2>2, <2>3
<1>6. CASE MarkRunning
  <2>1. /\ guest' \in {guest, [guest EXCEPT !.reachable = TRUE]}
        /\ UNCHANGED <<stage, eth0, attempts, mounted, proc, parent, ends, code, console,
                       how, late, flushed>>
    BY <1>6 DEF MarkRunning
  <2>2. guest' \in [mounts : SUBSET Volumes, reachable : BOOLEAN] /\ guest'.mounts = guest.mounts
    BY <2>1 DEF GuestInv, GuestTypeOK
  <2>3. GuestTypeOK' /\ Family'
    BY <2>1, <2>2 DEF GuestInv, GuestTypeOK, Family, Descent
  <2>4. Booted'
    BY <2>1, <2>2 DEF GuestInv, Booted
  <2> QED
    BY <2>1, <2>3, <2>4
    DEF GuestInv, NobodyHome, ChildRuns, ChildSpared, ShutDown, Alive, Logged
<1>7. CASE StartCommand
  <2>1. CASE PowerOn({}) /\ flushed' = 0
    BY <1>2, <2>1
  <2>2. CASE UNCHANGED <<guestVars, flushed>>
    BY <1>1, <2>2
  <2> QED BY <1>7, <2>1, <2>2 DEF StartCommand
<1>8. CASE StartApp
  <2>1. CASE PowerOn(Volumes) /\ flushed' = 0
    BY <1>2, <2>1
  <2>2. CASE UNCHANGED <<guestVars, flushed>>
    BY <1>1, <2>2
  <2> QED BY <1>8, <2>1, <2>2 DEF StartApp
<1>9. CASE StopMachine
  <2>1. CASE CtrlAltDel /\ flushed' = flushed
    BY <1>3, <2>1
  <2>2. CASE UNCHANGED <<guestVars, flushed>>
    BY <1>1, <2>2
  <2> QED BY <1>9, <2>1, <2>2 DEF StopMachine
<1>10. CASE KillMachine
  BY <1>4, <1>10 DEF KillMachine
<1>11. CASE StopLater
  BY <1>3, <1>4, <1>11 DEF StopLater
<1>12. CASE \/ Request \/ Heartbeat \/ DockerPrints \/ DockerEnds \/ NetworkFails
            \/ ClientStep \/ Flush \/ UNCHANGED vars \/ BuildRootfs \/ WaitCommand
            \/ PollLog \/ AwaitHealthy \/ Stopped \/ Cutover \/ ApplyTunnel \/ RecordOwner
  BY <1>1, <1>12
  DEF Request, Heartbeat, DockerPrints, DockerEnds, NetworkFails, ClientStep, ReadLine, ReadEnd,
      Flush, vars, BuildRootfs, WaitCommand, PollLog, AwaitHealthy, Stopped, Cutover,
      ApplyTunnel, RecordOwner
<1> QED
  BY <1>5, <1>6, <1>7, <1>8, <1>9, <1>10, <1>11, <1>12 DEF StreamNext, HandlerStep

\* The invariant of the machines, whatever request they serve.
THEOREM MachinesKeepTheirInvariant == StreamSpec => []MachineInv
<1>1. StreamInit => MachineInv
  <2> SUFFICES ASSUME StreamInit PROVE MachineInv
    OBVIOUS
  <2>1. GuestInv
    BY NoGuestInv DEF StreamInit
  <2>2. Logged
    BY DEF StreamInit, NoGuest, Logged
  <2> QED BY <2>1, <2>2 DEF MachineInv
<1>2. MachineInv /\ [StreamNext]_vars => MachineInv'
  BY MachineStep
<1> QED
  BY <1>1, <1>2, PTL DEF StreamSpec

\* A guest that rebooted by itself left no volume mounted, however many
\* processes its app had left behind and however they were related, unless a
\* session came in after the kill.
THEOREM GuestsShutDownCleanly == StreamSpec => []CleanShutdown
<1>1. MachineInv => CleanShutdown
  BY GuestInvGives DEF MachineInv
<1> QED
  BY <1>1, MachinesKeepTheirInvariant, PTL

\* The child runs with the payload's address and all volumes only.
THEOREM ChildrenFindTheirMachine == StreamSpec => []ReadyForChild
<1>1. MachineInv => ReadyForChild
  BY GuestInvGives DEF MachineInv
<1> QED
  BY <1>1, MachinesKeepTheirInvariant, PTL

-----------------------------------------------------------------------------
(* What the client is told.                                                *)

LEMMA Vocabulary == {"ok", "error", "image", "other"} \subseteq Words
  BY DEF Words

LEMMA LogLineTyped ==
    ASSUME MachineInv
    PROVE  readLastLines \in Words
<1>1. CASE flushed = 0
  BY <1>1 DEF readLastLines, Words
<1>2. CASE flushed # 0
  <2>1. flushed \in 1..Len(console) /\ console \in Seq(Lines)
    BY <1>2 DEF MachineInv, Logged, GuestInv, GuestTypeOK
  <2>2. console[flushed] \in Lines
    BY <2>1
  <2> QED BY <1>2, <2>2 DEF readLastLines, Words
<1> QED
  BY <1>1, <1>2

LEMMA ErrorTexts ==
    ASSUME MachineInv
    PROVE  /\ ErrorLine \in Seq(Words) /\ Len(ErrorLine) = 1 /\ ErrorLine[1] = "error"
           /\ ErrorWithTail \in Seq(Words) /\ Len(ErrorWithTail) = 3
           /\ ErrorWithOutput \in Seq(Words) /\ Len(ErrorWithOutput) = 3
<1>1. "error" \in Words /\ "other" \in Words
  BY DEF Words
<1>2. ErrorLine \in Seq(Words) /\ Len(ErrorLine) = 1 /\ ErrorLine[1] = "error"
  BY <1>1 DEF ErrorLine
<1>3. ErrorWithTail \in Seq(Words) /\ Len(ErrorWithTail) = 3
  BY <1>1, LogLineTyped DEF ErrorWithTail
<1>4. ErrorWithOutput \in Seq(Words) /\ Len(ErrorWithOutput) = 3
  BY <1>1 DEF ErrorWithOutput
<1> QED
  BY <1>2, <1>3, <1>4

\* What one Emit adds to the stream.
LEMMA Sent ==
    ASSUME wire \in Seq(Words), NEW lines \in Seq(Words), Emit(lines), last' = last
    PROVE  /\ wire' \in Seq(Words)
           /\ OnTheWay' \subseteq OnTheWay \cup {lines[i] : i \in 1..Len(lines)}
           /\ conn = "open" /\ lines # <<>> => LastLine' = lines[Len(lines)]
           /\ lines = <<>> => wire' = wire
<1>1. CASE conn = "open"
  <2>1. wire' = wire \o lines
    BY <1>1 DEF Emit
  <2>2. /\ wire' \in Seq(Words) /\ Len(wire') = Len(wire) + Len(lines)
        /\ \A i \in 1..Len(wire') :
             wire'[i] = IF i <= Len(wire) THEN wire[i] ELSE lines[i - Len(wire)]
    BY <2>1
  <2>3. Len(wire) \in Nat /\ Len(lines) \in Nat
    OBVIOUS
  <2>4. OnTheWay' \subseteq OnTheWay \cup {lines[i] : i \in 1..Len(lines)}
    <3> SUFFICES ASSUME NEW i \in 1..Len(wire')
                 PROVE  \/ \E j \in 1..Len(wire) : wire'[i] = wire[j]
                        \/ \E j \in 1..Len(lines) : wire'[i] = lines[j]
      BY DEF OnTheWay
    <3>1. CASE i <= Len(wire)
      BY <2>2, <2>3, <3>1
    <3>2. CASE i > Len(wire)
      <4>1. i - Len(wire) \in 1..Len(lines) /\ wire'[i] = lines[i - Len(wire)]
        BY <2>2, <2>3, <3>2
      <4> QED BY <4>1
    <3> QED BY <2>3, <3>1, <3>2
  <2>5. ASSUME lines # <<>>
        PROVE  LastLine' = lines[Len(lines)]
    <3>1. Len(lines) > 0
      BY <2>5
    <3>2. wire' # <<>> /\ Len(wire') \in 1..Len(wire')
      BY <2>2, <2>3, <3>1
    <3>3. wire'[Len(wire')] = lines[Len(lines)]
      BY <2>2, <2>3, <3>1, <3>2
    <3> QED BY <3>2, <3>3 DEF LastLine
  <2>6. lines = <<>> => wire' = wire
    BY <2>1
  <2> QED BY <2>2, <2>4, <2>5, <2>6
<1>2. CASE conn # "open"
  BY <1>2 DEF Emit, OnTheWay
<1> QED
  BY <1>1, <1>2

\* Reading a line takes nothing from what the stream will end with.
LEMMA Received ==
    ASSUME wire \in Seq(Words), last \in Words, wire # <<>>,
           last' = Head(wire), wire' = Tail(wire)
    PROVE  /\ wire' \in Seq(Words) /\ last' \in Words
           /\ OnTheWay' \subseteq OnTheWay
           /\ LastLine' = LastLine
<1>1. /\ Len(wire) \in Nat \ {0} /\ last' = wire[1] /\ wire[1] \in Words
      /\ wire' \in Seq(Words) /\ Len(wire') = Len(wire) - 1
      /\ \A i \in 1..Len(wire') : wire'[i] = wire[i + 1]
  OBVIOUS
<1>2. OnTheWay' \subseteq OnTheWay
  <2>1. \A i \in 1..Len(wire') : i + 1 \in 1..Len(wire)
    BY <1>1
  <2>2. 1 \in 1..Len(wire)
    BY <1>1
  <2> QED BY <1>1, <2>1, <2>2 DEF OnTheWay
<1>3. LastLine' = LastLine
  <2>1. CASE Len(wire) = 1
    BY <1>1, <2>1 DEF LastLine
  <2>2. CASE Len(wire) > 1
    <3>1. Len(wire') \in 1..Len(wire') /\ Len(wire') + 1 = Len(wire) /\ wire' # <<>>
      BY <1>1, <2>2
    <3>2. wire'[Len(wire')] = wire[Len(wire)]
      BY <1>1, <3>1
    <3> QED BY <3>1, <3>2 DEF LastLine
  <2> QED BY <1>1, <2>1, <2>2
<1> QED
  BY <1>1, <1>2, <1>3

\* The operation fails: its error is the last thing sent.
LEMMA FailKeepsInv ==
    ASSUME StreamInv, MachineInv, pc # "end",
           NEW lines \in Seq(Words), lines = ErrorLine \/ Len(lines) = 3, FailWith(lines),
           UNCHANGED <<request, message, connVars, clientVars>>
    PROVE  StreamInv'
<1> USE DEF StreamInv
<1>1. /\ pc' = "end" /\ result' = "failed" /\ Emit(lines) /\ UNCHANGED <<ended, booted, live>>
      /\ multiline' = (Len(lines) > 1)
  BY DEF FailWith
<1>2. UNCHANGED <<conn, cancelled, faulty, last, told>>
  BY DEF connVars, clientVars
<1>3. wire \in Seq(Words)
  BY DEF StreamTypeOK
<1>4. /\ wire' \in Seq(Words)
      /\ OnTheWay' \subseteq OnTheWay \cup {lines[i] : i \in 1..Len(lines)}
      /\ conn = "open" /\ lines # <<>> => LastLine' = lines[Len(lines)]
  BY <1>1, <1>2, <1>3, Sent
<1>5. StreamTypeOK'
  BY <1>1, <1>2, <1>4 DEF StreamTypeOK, Pcs
<1>6. result = "none" /\ ~multiline
  BY DEF Course
<1>7. ~multiline' => lines = ErrorLine
  <2>1. Len(lines) = 3 => Len(lines) > 1
    OBVIOUS
  <2>2. Len(lines) > 1 => multiline'
    BY <1>1, Zenon
  <2> QED BY <2>1, <2>2
<1>8. lines = ErrorLine =>
        /\ {lines[i] : i \in 1..Len(lines)} = {"error"}
        /\ lines # <<>> /\ lines[Len(lines)] = "error"
  BY DEF ErrorLine
<1>9. Course'
  BY <1>1, <1>2 DEF Course
<1>10. Outcome'
  <2>1. ~live' /\ ~multiline' => "ok" \notin OnTheWay'
    <3> SUFFICES ASSUME ~live', ~multiline' PROVE "ok" \notin OnTheWay'
      OBVIOUS
    <3>1. "ok" \notin OnTheWay
      BY <1>1, <1>6 DEF Outcome
    <3>2. OnTheWay' \subseteq OnTheWay \cup {"error"}
      BY <1>4, <1>7, <1>8
    <3> QED BY <3>1, <3>2
  <2>2. ~multiline' /\ Waiting' => LastLine' = "error"
    BY <1>2, <1>4, <1>7, <1>8 DEF Waiting
  <2> QED BY <1>1, <2>1, <2>2 DEF Outcome
<1>11. Verdicts'
  BY <1>1, <1>2, <1>6 DEF Verdicts
<1> QED
  BY <1>5, <1>9, <1>10, <1>11

\* The operation goes on, with or without a line of progress.
LEMMA AdvanceKeepsInv ==
    ASSUME StreamInv, pc # "end", pc' \in Pcs \ {"end", "tunnel"},
           pc' = "docker" <=> request.op = "build", pc' = "owner" => live,
           message' \in Seq(Words), message' = <<>> \/ Len(message') = 3,
           wire' = wire \/ Emit(<<"other">>),
           UNCHANGED <<request, conn, faulty, last, told, live, result, multiline>>
    PROVE  StreamInv'
<1> USE DEF StreamInv
<1>1. wire \in Seq(Words) /\ <<"other">> \in Seq(Words)
  BY DEF StreamTypeOK, Words
<1>2. wire' \in Seq(Words) /\ OnTheWay' \subseteq OnTheWay \cup {"other"}
  <2>1. CASE wire' = wire
    BY <1>1, <2>1 DEF OnTheWay
  <2>2. CASE Emit(<<"other">>)
    <3>1. wire' \in Seq(Words)
          /\ OnTheWay' \subseteq OnTheWay \cup {<<"other">>[i] : i \in 1..Len(<<"other">>)}
      BY <1>1, <2>2, Sent
    <3>2. {<<"other">>[i] : i \in 1..Len(<<"other">>)} = {"other"}
      OBVIOUS
    <3> QED BY <3>1, <3>2
  <2> QED BY <2>1, <2>2
<1>3. StreamTypeOK'
  BY <1>2 DEF StreamTypeOK
<1>4. result = "none"
  BY DEF Course
<1>5. Course'
  BY <1>4 DEF Course
<1>6. Outcome'
  BY <1>2, <1>4 DEF Outcome
<1>7. Verdicts'
  BY DEF Verdicts
<1> QED
  BY <1>3, <1>5, <1>6, <1>7

\* Steps of the machines and of the log leave the stream alone.
LEMMA StillKeepsInv ==
    ASSUME StreamInv,
           UNCHANGED <<pc, request, message, conn, wire, last, told, live, result, multiline, faulty>>
    PROVE  StreamInv'
  BY DEF StreamInv, StreamTypeOK, Course, Outcome, Verdicts, OnTheWay, LastLine, Waiting

LEMMA RequestKeepsInv ==
    ASSUME StreamInv, Request
    PROVE  StreamInv'
<1> USE DEF StreamInv
<1>1. PICK o \in Ops, c \in BOOLEAN :
         /\ request' = [op |-> o, command |-> c /\ o = "deploy"]
         /\ \/ pc' = [deploy |-> "rootfs", restart |-> "boot", build |-> "docker"][o]
               /\ UNCHANGED <<told, result>>
            \/ pc' = "end" /\ told' = "failure" /\ result' = "failed"
  BY DEF Request
<1>2. /\ pc = "idle"
      /\ UNCHANGED <<message, conn, cancelled, faulty, wire, last, live, multiline>>
  BY DEF Request, At, connVars
<1>3. /\ request'.op = o
      /\ request' \in [op : Ops, command : BOOLEAN]
  BY <1>1
<1>4. /\ result = "none" /\ ~multiline /\ request.op # "build"
      /\ conn = "open" => told = "none"
      /\ conn = "cut" => told # "none"
  BY <1>2 DEF Course
<1>5. "error" \notin OnTheWay /\ (~live => "ok" \notin OnTheWay) /\ OnTheWay' = OnTheWay
  BY <1>2, <1>4 DEF Outcome, OnTheWay
<1>6. CASE /\ pc' = [deploy |-> "rootfs", restart |-> "boot", build |-> "docker"][o]
           /\ UNCHANGED <<told, result>>
  <2>1. pc' \in {"rootfs", "boot", "docker"} /\ (pc' = "docker" <=> o = "build")
    BY <1>6 DEF Ops
  <2>2. StreamTypeOK'
    BY <1>2, <1>3, <1>6, <2>1 DEF StreamTypeOK, Pcs
  <2>3. Course'
    BY <1>2, <1>3, <1>4, <1>6, <2>1 DEF Course
  <2>4. Outcome'
    BY <1>2, <1>4, <1>5, <1>6, <2>1 DEF Outcome
  <2> QED BY <1>2, <1>6, <2>2, <2>3, <2>4 DEF Verdicts
<1>7. CASE pc' = "end" /\ told' = "failure" /\ result' = "failed"
  <2>1. StreamTypeOK'
    BY <1>2, <1>3, <1>7 DEF StreamTypeOK, Pcs
  <2>2. Course'
    BY <1>2, <1>4, <1>7 DEF Course
  <2>3. Outcome'
    BY <1>2, <1>4, <1>5, <1>7 DEF Outcome, Waiting
  <2> QED BY <1>7, <2>1, <2>2, <2>3 DEF Verdicts
<1> QED
  BY <1>1, <1>6, <1>7

LEMMA CutoverKeepsInv ==
    ASSUME StreamInv, MachineInv, Cutover
    PROVE  StreamInv'
<1> USE DEF StreamInv
<1>1. pc = "cutover" /\ UNCHANGED <<request, message, connVars, clientVars>>
  BY DEF Cutover, At
<1>2. CASE FailWith(ErrorLine)
  BY <1>1, <1>2, FailKeepsInv, ErrorTexts
<1>3. CASE /\ pc' = "tunnel" /\ Emit(<<"ok">>)
           /\ live' = TRUE /\ UNCHANGED <<ended, booted, result, multiline>>
  <2>1. UNCHANGED <<conn, cancelled, faulty, last, told>>
    BY <1>1 DEF connVars, clientVars
  <2>2. wire \in Seq(Words) /\ <<"ok">> \in Seq(Words) /\ <<"ok">> # <<>>
        /\ <<"ok">>[Len(<<"ok">>)] = "ok" /\ {<<"ok">>[i] : i \in 1..Len(<<"ok">>)} = {"ok"}
    BY DEF StreamTypeOK, Words
  <2>3. /\ wire' \in Seq(Words) /\ OnTheWay' \subseteq OnTheWay \cup {"ok"}
        /\ conn = "open" => LastLine' = "ok"
    BY <1>3, <2>1, <2>2, Sent
  <2>4. StreamTypeOK'
    BY <1>1, <1>3, <2>1, <2>3 DEF StreamTypeOK, Pcs
  <2>5. Course'
    BY <1>1, <1>3, <2>1 DEF Course
  <2>6. request.op # "build" /\ result = "none"
    BY <1>1 DEF Course
  <2>7. Outcome'
    BY <1>1, <1>3, <2>1, <2>3, <2>6 DEF Outcome, Waiting
  <2>8. Verdicts'
    BY <1>3, <2>1 DEF Verdicts
  <2> QED BY <2>4, <2>5, <2>7, <2>8
<1> QED
  BY <1>2, <1>3 DEF Cutover

\* The connection is cut while ok is the last line on it: the client that has
\* not lost it reports a success.
LEMMA TunnelKeepsInv ==
    ASSUME StreamInv, MachineInv, ApplyTunnel
    PROVE  StreamInv'
<1> USE DEF StreamInv
<1>1. pc = "tunnel" /\ UNCHANGED <<request, message>> /\ live /\ request.op # "build"
  BY DEF ApplyTunnel, At, Course
<1>2. CASE FailWith(ErrorLine) /\ UNCHANGED <<connVars, clientVars>>
  BY <1>1, <1>2, FailKeepsInv, ErrorTexts
<1>3. CASE /\ pc' = "owner" /\ UNCHANGED historyVars
           /\ \/ Emit(<<"other">>) /\ UNCHANGED <<connVars, clientVars>>
              \/ UNCHANGED <<wire, connVars, clientVars>>
  <2>1. UNCHANGED <<conn, faulty, last, told, live, result, multiline>>
    BY <1>3 DEF connVars, clientVars, historyVars
  <2>2. pc' \in Pcs \ {"end", "tunnel"} /\ pc' # "docker"
    BY <1>3 DEF Pcs
  <2>3. message' \in Seq(Words) /\ (message' = <<>> \/ Len(message') = 3)
    BY <1>1 DEF StreamTypeOK, Course
  <2> QED
    BY <1>1, <1>3, <2>1, <2>2, <2>3, AdvanceKeepsInv
<1>4. CASE pc' = "owner" /\ UNCHANGED historyVars /\ conn = "open" /\ Cut
  <2>1. /\ conn' = "cut" /\ wire' = <<>> /\ UNCHANGED <<live, result, multiline>>
    BY <1>4 DEF Cut, historyVars
  <2>2. told = "none" /\ LastLine = "ok"
    BY <1>1, <1>4 DEF Course, Outcome, Waiting
  <2>3. PICK n \in 0..Len(wire) :
          /\ faulty' = (faulty \/ n < Len(wire))
          /\ Return(IF n = 0 THEN last ELSE wire[n], TRUE)
    BY <1>4, <2>2 DEF Cut
  <2>4. /\ last' = "other" /\ told' \in {"success", "failure"}
        /\ told' = streamOutcome(IF n = 0 THEN last ELSE wire[n], TRUE)
    BY <1>1, <2>3 DEF Return, streamOutcome
  <2>5. told' = "success" \/ faulty'
    <3>1. wire \in Seq(Words) /\ Len(wire) \in Nat
      BY DEF StreamTypeOK
    <3>2. CASE n < Len(wire)
      BY <2>3, <3>2, Zenon
    <3>3. CASE n = Len(wire)
      <4>1. wire = <<>> <=> n = 0
        BY <3>1, <3>3
      <4>2. (IF n = 0 THEN last ELSE wire[n]) = "ok"
        BY <2>2, <3>3, <4>1 DEF LastLine
      <4> QED BY <2>4, <4>2 DEF streamOutcome
    <3> QED BY <3>1, <3>2, <3>3
  <2>6. faulty' \in BOOLEAN
    BY <2>3, Zenon
  <2>7. OnTheWay' = {"other"}
    BY <2>1, <2>4 DEF OnTheWay
  <2>8. StreamTypeOK'
    <3>1. wire' \in Seq(Words) /\ last' \in Words
      BY <2>1, <2>4, Vocabulary
    <3> QED
      BY <1>1, <1>4, <2>1, <2>4, <2>6, <3>1 DEF StreamTypeOK, Pcs
  <2>9. Course'
    BY <1>1, <1>4, <2>1, <2>4 DEF Course
  <2>10. Outcome'
    BY <1>1, <1>4, <2>1, <2>4, <2>7 DEF Outcome, Waiting
  <2>11. Verdicts'
    BY <1>1, <2>1, <2>4, <2>5 DEF Verdicts
  <2> QED BY <2>8, <2>9, <2>10, <2>11
<1> QED
  BY <1>2, <1>3, <1>4 DEF ApplyTunnel, Severed

LEMMA OwnerKeepsInv ==
    ASSUME StreamInv, RecordOwner
    PROVE  StreamInv'
<1> USE DEF StreamInv
<1>1. /\ pc = "owner" /\ pc' = "end" /\ result' = "ok"
      /\ UNCHANGED <<request, message, conn, cancelled, faulty, last, told, live, multiline>>
  BY DEF RecordOwner, At, connVars, clientVars
<1>2. wire \in Seq(Words) /\ <<>> \in Seq(Words) /\ <<"other">> \in Seq(Words)
      /\ {<<"other">>[i] : i \in 1..Len(<<"other">>)} = {"other"}
  BY DEF StreamTypeOK, Words
<1>3. wire' \in Seq(Words) /\ OnTheWay' \subseteq OnTheWay \cup {"other"}
  <2>1. CASE Emit(<<>>)
    <3>1. wire' \in Seq(Words) /\ wire' = wire
      BY <1>1, <1>2, <2>1, Sent
    <3> QED BY <1>1, <3>1 DEF OnTheWay
  <2>2. CASE Emit(<<"other">>)
    BY <1>1, <1>2, <2>2, Sent
  <2> QED BY <2>1, <2>2 DEF RecordOwner
<1>4. live /\ request.op # "build" /\ ~multiline /\ result = "none"
  BY <1>1 DEF Course
<1>5. StreamTypeOK'
  BY <1>1, <1>3 DEF StreamTypeOK, Pcs
<1>6. Course'
  BY <1>1, <1>4 DEF Course
<1>7. Outcome'
  BY <1>1, <1>3, <1>4 DEF Outcome
<1>8. Verdicts'
  BY <1>1, <1>4 DEF Verdicts
<1> QED
  BY <1>5, <1>6, <1>7, <1>8

LEMMA DockerKeepsInv ==
    ASSUME StreamInv, MachineInv, DockerPrints \/ DockerEnds
    PROVE  StreamInv'
<1> USE DEF StreamInv
<1>1. /\ pc = "docker"
      /\ UNCHANGED <<request, message, conn, cancelled, faulty, last, told>>
  BY DEF DockerPrints, DockerEnds, At, connVars, clientVars
<1>2. request.op = "build" /\ result = "none" /\ ~multiline
  BY <1>1 DEF Course
<1>3. wire \in Seq(Words)
      /\ \A w \in {"ok", "error", "image", "other"} :
           /\ <<w>> \in Seq(Words) /\ <<w>> # <<>> /\ <<w>>[Len(<<w>>)] = w
           /\ {<<w>>[i] : i \in 1..Len(<<w>>)} = {w}
  BY Vocabulary DEF StreamTypeOK
<1>4. ASSUME NEW w \in {"error", "image", "other"}, Emit(<<w>>)
      PROVE  /\ wire' \in Seq(Words) /\ OnTheWay' \subseteq OnTheWay \cup {w}
             /\ conn = "open" => LastLine' = w
  BY <1>1, <1>3, <1>4, Sent
<1>5. CASE DockerPrints
  <2>1. PICK w \in {"other", "error", "image"} : Emit(<<w>>)
    BY <1>5 DEF DockerPrints
  <2>2. pc' = pc /\ UNCHANGED <<live, result, multiline>>
    BY <1>5 DEF DockerPrints, historyVars
  <2>3. wire' \in Seq(Words) /\ OnTheWay' \subseteq OnTheWay \cup {w}
    BY <1>4, <2>1
  <2>4. StreamTypeOK'
    BY <1>1, <2>2, <2>3 DEF StreamTypeOK
  <2>5. Course' /\ Verdicts'
    BY <1>1, <2>2 DEF Course, Verdicts
  <2>6. Outcome'
    BY <1>1, <1>2, <2>2, <2>3 DEF Outcome
  <2> QED BY <2>4, <2>5, <2>6
<1>6. CASE DockerEnds
  <2>1. CASE FailWith(ErrorLine)
    BY <1>1, <2>1, FailKeepsInv, ErrorTexts DEF connVars, clientVars
  <2>2. CASE /\ pc' = "end" /\ Emit(<<"image">>)
             /\ live' = TRUE /\ result' = "ok" /\ UNCHANGED <<ended, booted, multiline>>
    <3>1. /\ wire' \in Seq(Words) /\ OnTheWay' \subseteq OnTheWay \cup {"image"}
          /\ conn = "open" => LastLine' = "image"
      BY <1>4, <2>2
    <3>2. StreamTypeOK'
      BY <1>1, <2>2, <3>1 DEF StreamTypeOK, Pcs
    <3>3. Course'
      BY <1>1, <1>2, <2>2 DEF Course
    <3>4. Verdicts'
      BY <1>1, <1>2, <2>2 DEF Verdicts
    <3>5. Outcome'
      BY <1>1, <1>2, <2>2, <3>1 DEF Outcome, Waiting
    <3> QED BY <3>2, <3>3, <3>4, <3>5
  <2> QED BY <1>6, <2>1, <2>2 DEF DockerEnds
<1> QED
  BY <1>5, <1>6

LEMMA ReadLineKeepsInv ==
    ASSUME StreamInv, ReadLine
    PROVE  StreamInv'
<1> USE DEF StreamInv
<1>1. /\ wire # <<>> /\ last' = Head(wire) /\ wire' = Tail(wire)
      /\ UNCHANGED <<pc, request, message, conn, cancelled, faulty, told, live, result, multiline>>
  BY DEF ReadLine, connVars, historyVars
<1>2. wire \in Seq(Words) /\ last \in Words
  BY DEF StreamTypeOK
<1>3. /\ wire' \in Seq(Words) /\ last' \in Words
      /\ OnTheWay' \subseteq OnTheWay /\ LastLine' = LastLine
  BY <1>1, <1>2, Received
<1>4. StreamTypeOK'
  BY <1>1, <1>3 DEF StreamTypeOK
<1>5. Course' /\ Verdicts'
  BY <1>1 DEF Course, Verdicts
<1>6. Outcome'
  BY <1>1, <1>3 DEF Outcome, Waiting
<1> QED
  BY <1>4, <1>5, <1>6

\* The stream ends properly, at LastLine.
LEMMA ReadEndKeepsInv ==
    ASSUME StreamInv, ReadEnd
    PROVE  StreamInv'
<1> USE DEF StreamInv
<1>1. /\ told = "none" /\ wire = <<>> /\ conn = "open" /\ pc = "end" /\ last' = "other"
      /\ UNCHANGED <<pc, request, message, conn, cancelled, faulty, wire, live, result, multiline>>
      /\ told' = IF request.op = "build" THEN buildOutcome(last, FALSE)
                                         ELSE streamOutcome(last, FALSE)
  BY DEF ReadEnd, At, Return, connVars, historyVars
<1>2. told' \in {"success", "failure"}
  BY <1>1 DEF buildOutcome, streamOutcome
<1>3. LastLine = last /\ last \in OnTheWay /\ Waiting
  BY <1>1 DEF LastLine, OnTheWay, Waiting
<1>4. result \in {"ok", "failed"}
  BY <1>1 DEF Course, StreamTypeOK
<1>5. result = "ok" => told' = "success" /\ live
  BY <1>1, <1>3 DEF Outcome, Course, buildOutcome, streamOutcome
<1>6. result = "failed" /\ ~multiline => told' = "failure"
  BY <1>1, <1>3 DEF Outcome, buildOutcome, streamOutcome
<1>7. StreamTypeOK'
  BY <1>1, <1>2, Vocabulary DEF StreamTypeOK
<1>8. Course'
  BY <1>1, <1>2 DEF Course
<1>9. Outcome'
  BY <1>1, <1>2 DEF Outcome, OnTheWay, Waiting
<1>10. Verdicts'
  BY <1>1, <1>4, <1>5, <1>6 DEF Verdicts
<1> QED
  BY <1>7, <1>8, <1>9, <1>10

\* The stream breaks, at any line.
LEMMA NetworkKeepsInv ==
    ASSUME StreamInv, NetworkFails
    PROVE  StreamInv'
<1> USE DEF StreamInv
<1>1. /\ conn' = "cut" /\ faulty' = TRUE /\ wire' = <<>>
      /\ UNCHANGED <<pc, request, message, live, result, multiline>>
  BY DEF NetworkFails, historyVars
<1>2. PICK line \in {last} \cup {wire[i] : i \in DOMAIN wire} : Return(line, TRUE)
  BY DEF NetworkFails
<1>3. line \in OnTheWay
  BY DEF OnTheWay, StreamTypeOK
<1>4. /\ last' = "other" /\ told' \in {"success", "failure"}
      /\ told' = "success" => line = "ok"
  BY <1>2 DEF Return, buildOutcome, streamOutcome
<1>5. StreamTypeOK'
  <2>1. wire' \in Seq(Words) /\ last' \in Words
    BY <1>1, <1>4, Vocabulary
  <2> QED BY <1>1, <1>4, <2>1 DEF StreamTypeOK
<1>6. Course'
  BY <1>1, <1>4 DEF Course
<1>7. Outcome'
  <2>1. OnTheWay' = {"other"}
    BY <1>1, <1>4 DEF OnTheWay
  <2> QED BY <1>1, <2>1 DEF Outcome, Waiting
<1>8. Verdicts'
  BY <1>1, <1>3, <1>4 DEF Verdicts, Outcome
<1> QED
  BY <1>5, <1>6, <1>7, <1>8

\* The handler up to the cutover.
LEMMA HandlerKeepsInv ==
    ASSUME StreamInv, MachineInv,
           \/ BuildRootfs \/ StartCommand \/ WaitCommand \/ PollLog \/ StartApp
           \/ AwaitHealthy \/ Heartbeat \/ StopMachine \/ Stopped \/ MarkRunning
    PROVE  StreamInv'
<1> DEFINE Before == {"rootfs", "command", "waiting", "poll", "boot", "health", "stop",
                      "stopping", "mark"}
           After == Before \cup {"cutover"}
<1>1. pc \in Before /\ UNCHANGED <<request, connVars, clientVars>>
  BY DEF At, BuildRootfs, StartCommand, WaitCommand, PollLog, StartApp, AwaitHealthy,
         Heartbeat, StopMachine, Stopped, MarkRunning
<1>2. message \in Seq(Words) /\ (message = <<>> \/ Len(message) = 3) /\ request.op # "build"
  BY <1>1 DEF StreamInv, StreamTypeOK, Course
<1>3. ASSUME NEW lines \in Seq(Words), lines = ErrorLine \/ Len(lines) = 3,
             FailWith(lines), UNCHANGED message
      PROVE  StreamInv'
  BY <1>1, <1>3, FailKeepsInv
<1>4. CASE /\ pc' \in After /\ message' \in {message, ErrorWithTail}
           /\ wire' = wire \/ Emit(<<"other">>)
           /\ UNCHANGED <<live, result, multiline>>
  <2>1. UNCHANGED <<conn, faulty, last, told>>
    BY <1>1 DEF connVars, clientVars
  <2>2. pc' \in Pcs \ {"end", "tunnel"} /\ pc' # "docker" /\ pc' # "owner" /\ pc # "end"
    BY <1>1, <1>4 DEF Pcs
  <2>3. message' \in Seq(Words) /\ (message' = <<>> \/ Len(message') = 3)
    BY <1>2, <1>4, ErrorTexts
  <2> QED
    BY <1>1, <1>2, <1>4, <2>1, <2>2, <2>3, AdvanceKeepsInv
<1>5. CASE BuildRootfs \/ StartCommand \/ PollLog \/ StartApp
  <2>1. UNCHANGED message
    BY <1>5 DEF BuildRootfs, StartCommand, PollLog, StartApp
  <2>2. \/ FailWith(ErrorLine) \/ FailWith(ErrorWithTail) \/ FailWith(ErrorWithOutput)
        \/ pc' \in After /\ Emit(<<"other">>) /\ UNCHANGED <<live, result, multiline>>
    BY <1>5 DEF BuildRootfs, StartCommand, PollLog, StartApp, historyVars
  <2> QED BY <1>3, <1>4, <2>1, <2>2, ErrorTexts
<1>6. CASE WaitCommand \/ AwaitHealthy \/ Heartbeat \/ StopMachine
  <2>1. /\ pc' \in After /\ message' \in {message, ErrorWithTail}
        /\ wire' = wire \/ Emit(<<"other">>)
        /\ UNCHANGED <<live, result, multiline>>
    BY <1>1, <1>6 DEF WaitCommand, AwaitHealthy, Heartbeat, StopMachine, historyVars
  <2> QED BY <1>4, <2>1
<1>7. CASE Stopped
  <2>1. CASE message = <<>>
    <3>1. FailWith(ErrorWithTail) /\ UNCHANGED message
      BY <1>7, <2>1 DEF Stopped
    <3> QED BY <1>3, <3>1, ErrorTexts
  <2>2. CASE message # <<>>
    <3>1. FailWith(message) /\ UNCHANGED message
      BY <1>7, <2>2 DEF Stopped
    <3> QED BY <1>2, <1>3, <2>2, <3>1
  <2> QED BY <2>1, <2>2
<1>8. CASE MarkRunning
  <2>1. CASE FailWith(ErrorLine)
    <3>1. UNCHANGED message
      BY <1>8 DEF MarkRunning
    <3> QED BY <1>3, <2>1, <3>1, ErrorTexts
  <2>2. CASE pc' = "cutover" /\ UNCHANGED <<wire, historyVars>>
    <3>1. UNCHANGED <<message, live, result, multiline>>
      BY <1>8, <2>2 DEF MarkRunning, historyVars
    <3> QED BY <1>4, <2>2, <3>1
  <2> QED BY <1>8, <2>1, <2>2 DEF MarkRunning
<1> QED
  BY <1>5, <1>6, <1>7, <1>8

LEMMA StreamStep ==
    ASSUME StreamInv, MachineInv, [StreamNext]_vars
    PROVE  StreamInv'
<1>1. CASE KillMachine \/ Flush \/ GuestRuns \/ StopLater \/ UNCHANGED vars
  BY <1>1, StillKeepsInv
  DEF KillMachine, Flush, GuestRuns, StopLater, vars, connVars, clientVars, historyVars
<1> QED
  BY <1>1, RequestKeepsInv, HandlerKeepsInv, CutoverKeepsInv, TunnelKeepsInv, OwnerKeepsInv,
     DockerKeepsInv, ReadLineKeepsInv, ReadEndKeepsInv, NetworkKeepsInv
  DEF StreamNext, HandlerStep, ClientStep

LEMMA StreamStart ==
    ASSUME StreamInit
    PROVE  StreamInv
<1>1. StreamTypeOK
  <2>1. last \in Words /\ wire \in Seq(Words) /\ message \in Seq(Words)
    BY Vocabulary DEF StreamInit
  <2>2. request \in [op : Ops, command : BOOLEAN]
    BY DEF StreamInit, Ops
  <2> QED BY <2>1, <2>2 DEF StreamInit, StreamTypeOK, Pcs
<1>2. Course
  BY DEF StreamInit, Course
<1>3. Outcome /\ Verdicts
  BY DEF StreamInit, Outcome, OnTheWay, Waiting, Verdicts
<1> QED
  BY <1>1, <1>2, <1>3 DEF StreamInv

\* Which lines are on their way to the client and which one will be the last.
THEOREM StreamKeepsItsInvariant == StreamSpec => []StreamInv
<1>1. StreamInit => StreamInv
  BY StreamStart
<1>2. StreamInv /\ MachineInv /\ [StreamNext]_vars => StreamInv'
  BY StreamStep
<1> QED
  BY <1>1, <1>2, MachinesKeepTheirInvariant, PTL DEF StreamSpec

\* A request that succeeded is reported as failed only after a failure of the
\* network: cloudflared's restart under it is not enough, wherever it catches
\* the lines before ok.
THEOREM RestartsAreNotFailures == StreamSpec => []RestartIsNotFailure
<1>1. StreamInv => RestartIsNotFailure
  BY DEF StreamInv, Verdicts, RestartIsNotFailure
<1> QED
  BY <1>1, StreamKeepsItsInvariant, PTL

\* A failed request is reported as a success only if its error ran over several
\* lines, as those with the end of a log or with mkfs's output do.
THEOREM FailuresAreTold == StreamSpec => []OnlyLongErrorsHideFailure
<1>1. StreamInv => OnlyLongErrorsHideFailure
  BY DEF StreamInv, Verdicts, OnlyLongErrorsHideFailure
<1> QED
  BY <1>1, StreamKeepsItsInvariant, PTL

-----------------------------------------------------------------------------
(* The release gate.                                                       *)

\* A machine that is off does nothing.
LEMMA NoStepWithoutMachine ==
    ASSUME GuestInv, GuestStep
    PROVE  stage \notin {"off", "down"}
<1>1. SUFFICES ASSUME stage \in {"off", "down"} PROVE FALSE
  OBVIOUS
<1>2. \A p \in Procs : proc[p] = "none"
  BY <1>1 DEF GuestInv, NobodyHome
<1>3. ~InitStep /\ ~Crash
  BY <1>1 DEF InitStep, MountAll, EnsureFallbackAddr, FetchGuest, ConfigureAddr, MountVolumes,
              StartChild, NotifySignals, Reap, KillAll, ReapAll, UnmountVolumes, ReportStatus,
              RebootGuest, Proceed, Crash, Powered, Booting, Ending
<1> QED
  BY <1>1, <1>2, <1>3
  DEF GuestStep, AcceptSession, PrintLine, ExitProc, DieKilled, Fork, Ending

\* What a step of the guest can mean for the child and its status.
ChildStarts == stage = "start" /\ stage' = "notify" /\ proc'[Child] = "alive" /\ console' = console

ChildExits ==
    /\ proc[Child] = "alive" /\ proc'[Child] = "zombie" /\ ExitCode(Child)' \in ExitCodes
    /\ UNCHANGED <<stage, console>>

ChildReaped ==
    /\ proc[Child] = "zombie" /\ proc'[Child] = "none" /\ stage' = "kill"
    /\ code' = ExitCode(Child) /\ console' = console

StatusReported ==
    /\ stage = "report" /\ stage' = "reboot" /\ UNCHANGED <<proc, code>>
    /\ console' = Append(console, Line("other", code))

GoesDown ==
    /\ stage' = "down" /\ proc'[Child] = "none"
    /\ console' \in {console, Append(console, Line("other", NoMarker))}

GoesOn ==
    /\ proc'[Child] = proc[Child] /\ ends'[Child] = ends[Child] /\ code' = code
    /\ \/ stage' = stage
       \/ stage \in Booting \ {"notify"} /\ stage' \in Booting \ {"notify"}
       \/ stage = "notify" /\ stage' = "wait"
       \/ stage \in Ending /\ stage' \in Ending
    /\ console' = console \/ \E l \in Prints : console' = Append(console, l)

LEMMA PidOneAndTheChild ==
    ASSUME GuestInv, InitStep
    PROVE  \/ ChildStarts \/ ChildReaped \/ StatusReported \/ GoesDown \/ GoesOn
<1> USE GuestAssumption DEF Booting, Ending
<1>1. Fatal => GoesDown
  BY DEF Fatal, PowerOff, GoesDown
<1>2. CASE MountAll \/ EnsureFallbackAddr \/ FetchGuest \/ ConfigureAddr \/ MountVolumes
             \/ NotifySignals
  BY <1>1, <1>2 DEF MountAll, EnsureFallbackAddr, FetchGuest, ConfigureAddr, MountVolumes,
                    NotifySignals, Proceed, GoesOn
<1>3. CASE StartChild
  BY <1>1, <1>3 DEF StartChild, Proceed, ChildStarts, GuestInv, GuestTypeOK
<1>4. CASE Reap
  <2>1. PICK p \in Children :
          /\ stage = "wait" /\ proc[p] = "zombie"
          /\ proc' = [proc EXCEPT ![p] = "none"]
          /\ stage' = IF p = Child THEN "kill" ELSE "wait"
          /\ code' = IF p = Child THEN ExitCode(p) ELSE code
          /\ ends' = [ends EXCEPT ![p] = NotEnded]
          /\ UNCHANGED <<guest, eth0, attempts, mounted, parent, console, how, late>>
    BY <1>4 DEF Reap
  <2>2. CASE p = Child
    BY <2>1, <2>2 DEF ChildReaped, GuestInv, GuestTypeOK
  <2>3. CASE p # Child
    BY <2>1, <2>3 DEF GoesOn, GuestInv, GuestTypeOK
  <2> QED BY <2>2, <2>3
<1>5. CASE KillAll
  <2>1. proc[Child] \in {"none", "zombie"}
    BY <1>5 DEF KillAll, Proceed, GuestInv, GuestTypeOK, ChildRuns
  <2> QED BY <1>5, <2>1 DEF KillAll, Proceed, GoesOn
<1>6. CASE ReapAll
  <2>1. proc[Child] = "none" /\ stage = "reap" /\ stage' \in {"reap", "unmount"}
    BY <1>6 DEF ReapAll, Proceed, GuestInv, GuestTypeOK, ChildRuns
  <2>2. /\ proc'[Child] = proc[Child] /\ ends'[Child] = ends[Child]
        /\ code' = code /\ console' = console
    BY <1>6, <2>1 DEF ReapAll, GuestInv, GuestTypeOK
  <2> QED BY <2>1, <2>2 DEF GoesOn
<1>7. CASE UnmountVolumes
  BY <1>7 DEF UnmountVolumes, Proceed, GoesOn
<1>8. CASE ReportStatus
  BY <1>8 DEF ReportStatus, Proceed, StatusReported
<1>9. CASE RebootGuest
  BY <1>9 DEF RebootGuest, PowerOff, GoesDown
<1> QED
  BY <1>2, <1>3, <1>4, <1>5, <1>6, <1>7, <1>8, <1>9 DEF InitStep

LEMMA OthersAndTheChild ==
    ASSUME GuestInv, NEW p \in Procs,
           AcceptSession(p) \/ PrintLine(p) \/ ExitProc(p) \/ DieKilled(p)
               \/ \E q \in Procs : Fork(p, q)
    PROVE  ChildExits \/ GoesOn
<1> USE GuestAssumption
<1>1. CASE AcceptSession(p) \/ PrintLine(p) \/ \E q \in Procs : Fork(p, q)
  BY <1>1 DEF AcceptSession, PrintLine, Fork, GoesOn, GuestInv, GuestTypeOK
<1>2. CASE ExitProc(p) \/ DieKilled(p)
  <2>1. /\ proc' = [proc EXCEPT ![p] = "zombie"]
        /\ UNCHANGED <<stage, code, console>>
        /\ \E end \in Ends : ends' = [ends EXCEPT ![p] = end]
             /\ \/ end.signal = 0 /\ end.status \in Statuses
                \/ end.signal = SIGKILL
    <3>1. ASSUME NEW s \in Statuses
          PROVE  [status |-> s, signal |-> 0] \in Ends
      BY DEF Ends
    <3>2. [status |-> 0, signal |-> SIGKILL] \in Ends
      BY DEF Ends, SIGKILL
    <3> QED BY <1>2, <3>1, <3>2 DEF ExitProc, DieKilled, Die
  <2>2. CASE p # Child
    BY <2>1, <2>2 DEF GoesOn, GuestInv, GuestTypeOK
  <2>3. CASE p = Child
    <3>1. proc[Child] = "alive"
      BY <1>2, <2>3 DEF ExitProc, DieKilled, GuestInv, ChildSpared
    <3>2. proc'[Child] = "zombie"
      BY <2>1, <2>3 DEF GuestInv, GuestTypeOK
    <3>3. \/ ends'[Child].signal = 0 /\ ends'[Child].status \in Statuses
          \/ ends'[Child].signal = SIGKILL
      BY <2>1, <2>3 DEF GuestInv, GuestTypeOK
    <3>4. ExitCode(Child)' \in ExitCodes
      BY <3>3 DEF ExitCode, ExitCodes, SIGKILL
    <3> QED BY <2>1, <3>1, <3>2, <3>4 DEF ChildExits
  <2> QED BY <2>2, <2>3
<1> QED
  BY <1>1, <1>2

LEMMA StepsOfTheChild ==
    ASSUME GuestInv, GuestStep
    PROVE  \/ ChildStarts \/ ChildExits \/ ChildReaped \/ StatusReported \/ GoesDown \/ GoesOn
<1>1. Crash => GoesDown
  BY GuestAssumption DEF Crash, PowerOff, GoesDown
<1>2. CASE InitStep
  BY <1>2, PidOneAndTheChild
<1>3. CASE \E p, q \in Procs : Fork(p, q)
  BY <1>3, OthersAndTheChild
<1> QED
  BY <1>1, <1>2, <1>3, OthersAndTheChild DEF GuestStep

LEMMA OneMoreLine ==
    ASSUME MachineInv, NEW l, console' = Append(console, l), NEW M,
           \A i \in 1..Len(console) : console[i].marker \in M, l.marker \in M
    PROVE  \A i \in 1..Len(console') : console'[i].marker \in M
<1>1. console \in Seq(Lines) /\ Len(console) \in Nat
  BY DEF MachineInv, GuestInv, GuestTypeOK
<1>2. /\ Len(console') = Len(console) + 1
      /\ \A i \in 1..Len(console') :
           console'[i] = IF i = Len(console) + 1 THEN l ELSE console[i]
  BY <1>1
<1> SUFFICES ASSUME NEW i \in 1..Len(console') PROVE console'[i].marker \in M
  OBVIOUS
<1>3. CASE i = Len(console) + 1
  BY <1>2, <1>3
<1>4. CASE i # Len(console) + 1
  <2>1. i \in 1..Len(console)
    BY <1>1, <1>2, <1>4
  <2> QED BY <1>2, <1>4, <2>1
<1> QED
  BY <1>3, <1>4

\* While runReleaseCommand waits the guest carries the status one step further.
LEMMA GuestCarriesStatus ==
    ASSUME NoForgery, MachineInv, Verdict, GuestRuns, pc = "waiting"
    PROVE  /\ Verdict'
           /\ ended' = ended \/ (ended = NotRun /\ ended' \in ExitCodes)
<1>1. /\ GuestStep /\ pc' = pc /\ UNCHANGED <<booted, request>>
      /\ ended' = IF proc[Child] # "zombie" /\ proc'[Child] = "zombie"
                  THEN ExitCode(Child)' ELSE ended
  BY DEF GuestRuns, At
<1>2. \/ ChildStarts \/ ChildExits \/ ChildReaped \/ StatusReported \/ GoesDown \/ GoesOn
  BY <1>1, StepsOfTheChild DEF MachineInv
<1> DEFINE Markers == \A i \in 1..Len(console) : console[i].marker \in {NoMarker, ended}
           Carried ==
             /\ stage \in Booting \ {"notify"} => ended = NotRun
             /\ proc[Child] = "alive" => ended = NotRun
             /\ proc[Child] = "zombie" => ended = ExitCode(Child)
             /\ stage \in Ending => ended = code
<1>3. Markers /\ Carried
  BY DEF Verdict
<1>4. \A s \in {"notify", "wait"} : s \notin Ending /\ s \notin Booting \ {"notify"}
  BY DEF Ending, Booting
<1>5. SUFFICES /\ Markers' /\ Carried'
               /\ ended' = ended \/ (ended = NotRun /\ ended' \in ExitCodes)
  BY <1>1 DEF Verdict
<1>6. Line("other", NoMarker).marker = NoMarker /\ Line("other", code).marker = code
  BY DEF Line
<1>7. CASE ChildStarts
  <2>1. ended = NotRun /\ ended' = ended
    BY <1>1, <1>3, <1>7 DEF ChildStarts, Booting
  <2>2. Carried'
    BY <1>4, <1>7, <2>1 DEF ChildStarts
  <2> QED BY <1>3, <1>7, <2>1, <2>2 DEF ChildStarts
<1>8. CASE ChildExits
  <2>1. ended = NotRun /\ ended' = ExitCode(Child)'
    BY <1>1, <1>3, <1>8 DEF ChildExits
  <2>2. stage' \in {"notify", "wait"}
    BY <1>8 DEF ChildExits, MachineInv, GuestInv, ChildRuns
  <2>3. Carried'
    BY <1>4, <1>8, <2>1, <2>2 DEF ChildExits
  <2>4. Markers'
    BY <1>3, <1>8, <2>1 DEF ChildExits, NotRun, NoMarker
  <2> QED BY <1>8, <2>1, <2>3, <2>4 DEF ChildExits
<1>9. CASE ChildReaped
  <2>1. ended' = ended /\ ended = code'
    BY <1>1, <1>3, <1>9 DEF ChildReaped
  <2>2. Carried'
    BY <1>9, <2>1 DEF ChildReaped, Booting, Ending
  <2> QED BY <1>3, <1>9, <2>1, <2>2 DEF ChildReaped
<1>10. CASE StatusReported
  <2>1. ended' = ended /\ ended = code
    BY <1>1, <1>3, <1>10 DEF StatusReported, Ending
  <2>2. Carried'
    <3>1. proc'[Child] \notin {"alive", "killed", "zombie"}
      BY <1>10 DEF StatusReported, MachineInv, GuestInv, ChildRuns
    <3> QED BY <1>10, <2>1, <3>1 DEF StatusReported, Booting, Ending
  <2>3. Markers'
    BY <1>3, <1>6, <1>10, <2>1, OneMoreLine DEF StatusReported
  <2> QED BY <2>1, <2>2, <2>3
<1>11. CASE GoesDown
  <2>1. ended' = ended
    BY <1>1, <1>11 DEF GoesDown
  <2>2. Carried'
    BY <1>11 DEF GoesDown, Booting, Ending
  <2>3. Markers'
    <3>1. CASE console' = console
      BY <1>3, <2>1, <3>1
    <3>2. CASE console' = Append(console, Line("other", NoMarker))
      BY <1>3, <1>6, <2>1, <3>2, OneMoreLine
    <3> QED BY <1>11, <3>1, <3>2 DEF GoesDown
  <2> QED BY <2>1, <2>2, <2>3
<1>12. CASE GoesOn
  <2>1. ended' = ended /\ ExitCode(Child)' = ExitCode(Child)
    BY <1>1, <1>12 DEF GoesOn, ExitCode
  <2>2. Carried'
    BY <1>3, <1>12, <2>1 DEF GoesOn, Booting, Ending
  <2>3. Markers'
    <3>1. CASE console' = console
      BY <1>3, <2>1, <3>1
    <3>2. ASSUME NEW l \in Prints, console' = Append(console, l)
          PROVE  Markers'
      <4>1. l.marker \in {NoMarker, ended}
        BY DEF NoForgery
      <4> QED BY <1>3, <2>1, <3>2, <4>1, OneMoreLine
    <3> QED BY <1>12, <3>1, <3>2 DEF GoesOn
  <2> QED BY <2>1, <2>2, <2>3
<1> QED
  BY <1>2, <1>7, <1>8, <1>9, <1>10, <1>11, <1>12

\* The poll finds 0 only if the command ended with it.
LEMMA PollFindsStatus ==
    ASSUME MachineInv, Verdict, pc = "poll", lastChildExitStatus = 0
    PROVE  ended = 0
<1>1. flushed \in Nat /\ \A i \in 1..flushed : i \in 1..Len(console)
  BY DEF MachineInv, Logged, GuestInv, GuestTypeOK
<1>2. Marked # {}
  BY DEF lastChildExitStatus, NoMarker
<1>3. Marked \in SUBSET (0..flushed)
  BY <1>1 DEF Marked
<1>4. \E i \in Marked : \A j \in Marked : j <= i
  BY <1>1, <1>2, <1>3, GreatestExists
<1> DEFINE i == CHOOSE k \in Marked : \A j \in Marked : j <= k
<1>5. i \in Marked
  BY <1>4
<1>6. console[i].marker = 0
  BY <1>2 DEF lastChildExitStatus
<1>7. i \in 1..Len(console)
  BY <1>1, <1>5 DEF Marked
<1> HIDE DEF i
<1> QED
  BY <1>6, <1>7 DEF Verdict, NoMarker

\* A step as the gate sees it.
GateStep == [Gate!GateNext]_(Gate!gateVars)

LEMMA StepOfTheGate ==
    ASSUME NoForgery, MachineInv, Verdict, [StreamNext]_vars
    PROVE  Verdict' /\ GateStep
<1> USE DEF At, NotRun
<1>1. ASSUME UNCHANGED <<ended, booted, request>>
      PROVE  GateStep
  BY <1>1 DEF GateStep, Gate!gateVars
<1>2. CASE UNCHANGED <<pc, guestVars, ended, booted, request>>
  BY <1>1, <1>2 DEF Verdict, guestVars, ExitCode
<1>3. CASE /\ pc' \in Pcs \ {"idle", "rootfs", "command", "waiting", "poll", "boot"}
           /\ UNCHANGED <<ended, booted, request>>
  BY <1>1, <1>3 DEF Verdict
<1>4. CASE Request
  <2>1. PICK o \in Ops, c \in BOOLEAN :
         /\ request' = [op |-> o, command |-> c /\ o = "deploy"]
         /\ pc' \in {[deploy |-> "rootfs", restart |-> "boot", build |-> "docker"][o], "end"}
    BY <1>4 DEF Request
  <2>2. /\ pc = "idle" /\ UNCHANGED <<ended, booted>>
        /\ ended = NotRun /\ booted = FALSE
    BY <1>4 DEF Request, Verdict
  <2>3. pc' = "boot" => o # "deploy"
    BY <2>1 DEF Ops
  <2>4. /\ request'.command = (c /\ o = "deploy")
        /\ pc' \in {"rootfs", "boot", "docker", "end"}
    BY <2>1 DEF Ops
  <2>5. Verdict'
    BY <2>2, <2>3, <2>4 DEF Verdict
  <2>6. (c /\ o = "deploy") \in BOOLEAN
    OBVIOUS
  <2>7. Gate!Ask(request'.command)
    BY <2>2 DEF Gate!Ask, Gate!NotRun
  <2> QED BY <2>4, <2>5, <2>6, <2>7 DEF GateStep, Gate!GateNext
<1>5. ASSUME NEW lines, FailWith(lines), UNCHANGED request
      PROVE  Verdict' /\ GateStep
  BY <1>3, <1>5 DEF FailWith, Pcs
<1>6. CASE BuildRootfs
  <2>1. CASE /\ pc' = (IF request.command THEN "command" ELSE "boot")
             /\ UNCHANGED historyVars
    BY <1>1, <1>6, <2>1 DEF BuildRootfs, historyVars, Verdict
  <2> QED BY <1>5, <1>6, <2>1 DEF BuildRootfs
<1>7. CASE StartCommand
  <2>1. CASE pc' = "waiting" /\ PowerOn({}) /\ UNCHANGED historyVars
    <3>1. /\ stage' = "mounts" /\ proc'[Child] = "none" /\ console' = <<>>
          /\ ended' = NotRun /\ UNCHANGED <<ended, booted, request>>
      BY <1>7, <2>1, GuestAssumption DEF StartCommand, PowerOn, historyVars, Verdict
    <3>2. Verdict'
      BY <2>1, <3>1 DEF Verdict, Ending
    <3> QED BY <1>1, <3>1, <3>2
  <2> QED BY <1>5, <1>7, <2>1 DEF StartCommand
<1>8. CASE WaitCommand
  <2>1. UNCHANGED <<guestVars, ended, booted, request>>
    BY <1>8 DEF WaitCommand, historyVars
  <2>2. CASE stage = "down" /\ pc' = "poll"
    BY <1>1, <1>8, <2>1, <2>2 DEF WaitCommand, Verdict, guestVars
  <2>3. CASE pc' = "stop"
    BY <1>3, <2>1, <2>3 DEF Pcs
  <2> QED BY <1>8, <2>2, <2>3 DEF WaitCommand
<1>9. CASE PollLog
  <2>1. CASE lastChildExitStatus = 0 /\ pc' = "boot" /\ UNCHANGED historyVars
    <3>1. ended = 0 /\ UNCHANGED <<ended, booted, request>>
      BY <1>9, <2>1, PollFindsStatus DEF PollLog, historyVars
    <3> QED BY <1>1, <2>1, <3>1 DEF Verdict
  <2> QED BY <1>5, <1>9, <2>1 DEF PollLog
<1>10. CASE StartApp
  <2>1. CASE pc' \in {"health", "mark"} /\ booted' = TRUE /\ UNCHANGED <<ended, live, result, multiline>>
    <3>1. request' = request /\ (request.command => ended = 0)
      BY <1>10 DEF StartApp, Verdict
    <3>2. Gate!BootApp
      BY <2>1, <3>1 DEF Gate!BootApp
    <3> QED BY <2>1, <3>2 DEF Verdict, GateStep, Gate!GateNext
  <2> QED BY <1>5, <1>10, <2>1 DEF StartApp
<1>11. CASE GuestRuns
  <2>1. CASE pc = "waiting"
    <3>1. Verdict' /\ (ended' = ended \/ (ended = NotRun /\ ended' \in ExitCodes))
      BY <1>11, <2>1, GuestCarriesStatus
    <3>2. UNCHANGED <<booted, request>>
      BY <1>11 DEF GuestRuns
    <3>3. ended' # ended => Gate!CommandExits(ended') /\ ended' \in ExitCodes
      BY <3>1, <3>2 DEF Gate!CommandExits, Gate!NotRun
    <3> QED BY <1>1, <3>1, <3>2, <3>3 DEF GateStep, Gate!GateNext
  <2>2. CASE pc # "waiting"
    <3>1. pc' = pc /\ UNCHANGED <<ended, booted, request>>
      BY <1>11, <2>2 DEF GuestRuns
    <3>2. pc # "poll"
      BY <1>11, NoStepWithoutMachine DEF GuestRuns, MachineInv, Verdict
    <3> QED BY <1>1, <2>2, <3>1, <3>2 DEF Verdict
  <2> QED BY <2>1, <2>2
<1>12. CASE Flush \/ NetworkFails \/ ClientStep \/ Heartbeat \/ DockerPrints \/ UNCHANGED vars
  BY <1>2, <1>12
  DEF Flush, NetworkFails, ClientStep, ReadLine, ReadEnd, Heartbeat, DockerPrints, vars,
      historyVars
<1>13. CASE \/ AwaitHealthy \/ StopMachine \/ KillMachine \/ Stopped \/ MarkRunning
            \/ Cutover \/ ApplyTunnel \/ RecordOwner \/ DockerEnds \/ StopLater
  <2>1. /\ pc' \in {"mark", "stop", "stopping", "end", "cutover", "tunnel", "owner"}
        /\ UNCHANGED <<ended, booted, request>>
    BY <1>13
    DEF AwaitHealthy, StopMachine, KillMachine, Stopped, MarkRunning, Cutover, ApplyTunnel,
        RecordOwner, DockerEnds, StopLater, FailWith, historyVars
  <2> QED BY <1>3, <2>1 DEF Pcs
<1> QED
  BY <1>4, <1>6, <1>7, <1>8, <1>9, <1>10, <1>11, <1>12, <1>13 DEF StreamNext, HandlerStep

\* If no process of a release command's machine prints oak-init's marker, a
\* deploy implements ReleaseGate, whatever else they print, fork, kill or leave
\* behind, and however late or incomplete the log is when it is polled.
THEOREM DeployImplementsGate == NoForgery /\ StreamSpec => ImplementsGate
<1> SUFFICES ASSUME NoForgery PROVE StreamSpec => ImplementsGate
  OBVIOUS
<1>1. StreamInit => Verdict /\ Gate!GateInit
  <2> SUFFICES ASSUME StreamInit PROVE Verdict /\ Gate!GateInit
    OBVIOUS
  <2>1. Verdict
    BY DEF StreamInit, Verdict
  <2>2. Gate!GateInit
    BY DEF StreamInit, Gate!GateInit, Gate!NotRun, NotRun
  <2> QED BY <2>1, <2>2
<1>2. Verdict /\ MachineInv /\ [StreamNext]_vars
        => Verdict' /\ [Gate!GateNext]_(Gate!gateVars)
  BY StepOfTheGate DEF GateStep
<1> QED
  BY <1>1, <1>2, MachinesKeepTheirInvariant, PTL
  DEF StreamSpec, ImplementsGate, Gate!GateSpec

=============================================================================
