---------------------------- MODULE DeployStream ----------------------------
(***************************************************************************)
(* One request whose progress is streamed, end to end: the handler of      *)
(* internal/daemon/api.go, the release command's machine and the app's     *)
(* machine it boots (deploy.go), each running oak-init (OakInit), the      *)
(* console log through which the command's status comes back, the          *)
(* connection, and the client of internal/cli/client.go that must turn     *)
(* what it reads into the exit status of `oak`.                            *)
(*                                                                         *)
(* Only one of the machines is up at a time, so both are OakInit's guest.  *)
(* Rows, addresses and other requests are Deployer's subject.  A line on   *)
(* the wire is how it begins: "ok", "error", "image" or "other".           *)
(***************************************************************************)
EXTENDS OakInit

VARIABLES
    pc,         \* where the handler is
    request,    \* [op, command]: what was asked for, and whether it has a release command
    message,    \* the error text held while a machine is being stopped
    conn,       \* "open", or "cut": the client's reads end in an error
    cancelled,  \* r.Context() is done
    wire,       \* lines sent and not yet read
    last,       \* the client's lastLine
    told,       \* what the client's call has returned
    flushed,    \* how many lines of the console are in the log file
    ended,      \* history: the status the release command ended with
    booted,     \* history: the app's machine has been started
    live,       \* history: ok, or image, has been sent
    result,     \* history: what the handler's operation returned
    multiline,  \* history: the error ran over several lines
    faulty      \* history: the network failed, or lost lines when it was cut

clientVars == <<last, told>>
connVars == <<conn, cancelled, faulty>>
historyVars == <<ended, booted, live, result, multiline>>

vars == <<guestVars, pc, request, message, conn, cancelled, wire, last, told, flushed,
          ended, booted, live, result, multiline, faulty>>

NotRun == -1

Ops == {"deploy", "restart", "build"}

StreamInit ==
    /\ NoGuest
    /\ pc = "idle"
    /\ request = [op |-> "deploy", command |-> FALSE]
    /\ message = <<>> /\ conn = "open" /\ cancelled = FALSE /\ faulty = FALSE
    /\ wire = <<>> /\ last = "other" /\ told = "none" /\ flushed = 0
    /\ ended = NotRun /\ booted = FALSE /\ live = FALSE /\ result = "none" /\ multiline = FALSE

At(p) == pc = p

\* Fprint and Flush: nothing reaches a client whose connection is gone.
Emit(lines) == wire' = IF conn = "open" THEN wire \o lines ELSE wire

-----------------------------------------------------------------------------
(* The console log.                                                        *)

\* Firecracker writes the console to the log file at its own pace, and may
\* still be writing when Wait has returned.
Flush ==
    /\ flushed < Len(console)
    /\ flushed' = flushed + 1
    /\ UNCHANGED <<guestVars, pc, request, message, connVars, wire, clientVars, historyVars>>

Marked == {i \in 1..flushed : console[i].marker # NoMarker}

\* The last marker in the log; NoMarker when there is none.
lastChildExitStatus ==
    IF Marked = {} THEN NoMarker
    ELSE console[CHOOSE i \in Marked : \A j \in Marked : j <= i].marker

\* How the last of readLastLines begins: an empty or unreadable log is no
\* outcome line either.
readLastLines == IF flushed = 0 THEN "other" ELSE console[flushed].prefix

-----------------------------------------------------------------------------
(* The handlers and the part of Deploy and bootFromRelease that is seen    *)
(* from outside.                                                           *)

\* A bad name, body or config, or an app without a stored config, is refused
\* with a status of its own; after that the response is always 200.  restart
\* stands for scale too.
Request ==
    /\ At("idle")
    /\ \E o \in Ops, c \in BOOLEAN :
         /\ request' = [op |-> o, command |-> c /\ o = "deploy"]
         /\ \/ pc' = [deploy |-> "rootfs", restart |-> "boot", build |-> "docker"][o]
               /\ UNCHANGED <<told, result>>
            \/ pc' = "end" /\ told' = "failure" /\ result' = "failed"
    /\ UNCHANGED <<guestVars, message, connVars, wire, last, flushed, ended, booted, live, multiline>>

\* `error: <message>`, on one line or with more below it: the end of a log, or
\* what mkfs.ext4 printed.
ErrorLine == <<"error">>
ErrorWithOutput == <<"error", "other", "other">>
ErrorWithTail == <<"error", "other", readLastLines>>

\* The operation returns an error, and the handler sends it.
FailWith(lines) ==
    /\ pc' = "end" /\ Emit(lines) /\ result' = "failed"
    /\ multiline' = (Len(lines) > 1)
    /\ UNCHANGED <<ended, booted, live>>

\* UpsertApp, BuildRootfs, InsertRelease.  The pull of the image has no deadline,
\* and the error of a failed mkfs has its output in it.
BuildRootfs ==
    /\ At("rootfs")
    /\ \/ pc' = (IF request.command THEN "command" ELSE "boot") /\ Emit(<<"other">>)
          /\ UNCHANGED historyVars
       \/ \E lines \in {ErrorLine, ErrorWithOutput} : FailWith(lines)
    /\ UNCHANGED <<guestVars, request, message, connVars, clientVars, flushed>>

\* runReleaseCommand up to Start: a machine without volumes.
StartCommand ==
    /\ At("command")
    /\ \/ pc' = "waiting" /\ PowerOn({}) /\ flushed' = 0 /\ Emit(<<"other">>)
          /\ UNCHANGED historyVars
       \/ FailWith(ErrorLine) /\ UNCHANGED <<guestVars, flushed>>
    /\ UNCHANGED <<request, message, connVars, clientVars>>

\* handle.Wait(ctx), with no deadline of its own; an error is that the context
\* is done or that the VMM itself failed.
WaitCommand ==
    /\ At("waiting")
    /\ \/ stage = "down" /\ pc' = "poll" /\ UNCHANGED message
       \/ /\ cancelled \/ (stage = "down" /\ how = "panic")
          /\ pc' = "stop" /\ message' = ErrorWithTail
    /\ UNCHANGED <<guestVars, request, connVars, wire, clientVars, flushed, historyVars>>

\* Mutant: the log is polled until the marker is there.
PollLog_NoDeadline ==
    /\ At("poll")
    /\ \/ lastChildExitStatus = 0 /\ pc' = "boot" /\ Emit(<<"other">>)
          /\ UNCHANGED historyVars
       \/ lastChildExitStatus \notin {0, NoMarker} /\ FailWith(ErrorWithTail)
    /\ UNCHANGED <<guestVars, request, message, connVars, clientVars, flushed>>

\* The marker is looked for until it is there or five seconds are over.
PollLog ==
    /\ At("poll")
    /\ \/ lastChildExitStatus = 0 /\ pc' = "boot" /\ Emit(<<"other">>)
          /\ UNCHANGED historyVars
       \/ lastChildExitStatus # 0 /\ FailWith(ErrorWithTail)
    /\ UNCHANGED <<guestVars, request, message, connVars, clientVars, flushed>>

\* bootFromRelease up to Start; without services there is nothing to wait for.
StartApp ==
    /\ At("boot")
    /\ \/ pc' \in {"health", "mark"} /\ PowerOn(Volumes) /\ flushed' = 0 /\ Emit(<<"other">>)
          /\ booted' = TRUE /\ UNCHANGED <<ended, live, result, multiline>>
       \/ FailWith(ErrorLine) /\ UNCHANGED <<guestVars, flushed>>
    /\ UNCHANGED <<request, message, connVars, clientVars>>

\* awaitHealthy: passes when the app answers; gives up when a check has failed
\* and the budget is spent, or the client has gone.  The check itself has no
\* time limit: see Busy.
AwaitHealthy ==
    /\ At("health")
    /\ \/ pc' = "mark" /\ stage = "wait" /\ proc[Child] = "alive"
       \/ pc' = "stop"
    /\ UNCHANGED <<guestVars, request, message, connVars, wire, clientVars, flushed, historyVars>>

\* A line every healthHeartbeat.  Bound: one at a time is on the wire.
Heartbeat ==
    /\ At("health") /\ wire = <<>> /\ conn = "open"
    /\ Emit(<<"other">>)
    /\ UNCHANGED <<guestVars, pc, request, message, connVars, clientVars, flushed, historyVars>>

\* handle.Stop: Ctrl-Alt-Del (not sent for the app's machine once the context
\* is done), and after ten seconds the VMM is killed.
StopMachine ==
    /\ At("stop")
    /\ pc' = "stopping"
    /\ \/ Powered /\ ~(cancelled /\ message = <<>>) /\ CtrlAltDel
       \/ ~Powered /\ UNCHANGED guestVars
       \/ cancelled /\ message = <<>> /\ UNCHANGED guestVars
    /\ UNCHANGED <<request, message, connVars, wire, clientVars, flushed, historyVars>>

KillMachine ==
    /\ At("stopping") /\ Powered
    /\ PowerOff("killed") /\ UNCHANGED console
    /\ UNCHANGED <<pc, request, message, connVars, wire, clientVars, flushed, historyVars>>

\* The log of an unhealthy machine is read only now.
Stopped ==
    /\ At("stopping") /\ ~Powered
    /\ FailWith(IF message = <<>> THEN ErrorWithTail ELSE message)
    /\ UNCHANGED <<guestVars, request, message, connVars, clientVars, flushed>>

\* SetMachineState: from now on the machine is one that handleSSH finds.
MarkRunning ==
    /\ At("mark")
    /\ \/ /\ pc' = "cutover" /\ guest' = [guest EXCEPT !.reachable = TRUE]
          /\ UNCHANGED <<wire, historyVars>>
       \/ FailWith(ErrorLine) /\ UNCHANGED guest
    /\ UNCHANGED <<stage, eth0, attempts, mounted, proc, parent, ends, code, console, how,
                   late, request, message, connVars, clientVars, flushed>>

\* stopOldMachines, and ok before applyTunnel.
Cutover ==
    /\ At("cutover")
    /\ \/ /\ pc' = "tunnel" /\ Emit(<<"ok">>)
          /\ live' = TRUE /\ UNCHANGED <<ended, booted, result, multiline>>
       \/ FailWith(ErrorLine)
    /\ UNCHANGED <<guestVars, request, message, connVars, clientVars, flushed>>

-----------------------------------------------------------------------------
(* The client.                                                             *)

\* Mutants: the read error comes first; it is not looked at.
streamOutcome_ErrorFirst(line, broken) ==
    IF broken \/ line = "error" THEN "failure" ELSE "success"

streamOutcome_NoReadError(line, broken) ==
    IF line = "error" THEN "failure" ELSE "success"

\* Deploy, Restart and Scale.
streamOutcome(line, broken) ==
    IF line # "ok" /\ (broken \/ line = "error") THEN "failure" ELSE "success"

\* BuildRemote: nothing but an image line at a proper end will do.
buildOutcome(line, broken) ==
    IF ~broken /\ line = "image" THEN "success" ELSE "failure"

\* The client's call returns, after the line it read last.
Return(line, broken) ==
    /\ told' = IF request.op = "build" THEN buildOutcome(line, broken)
                                       ELSE streamOutcome(line, broken)
    /\ last' = "other"

ReadLine ==
    /\ told = "none" /\ wire # <<>>
    /\ last' = Head(wire) /\ wire' = Tail(wire)
    /\ UNCHANGED <<guestVars, pc, request, message, connVars, told, flushed, historyVars>>

ReadEnd ==
    /\ told = "none" /\ wire = <<>> /\ conn = "open" /\ At("end")
    /\ Return(last, FALSE)
    /\ UNCHANGED <<guestVars, pc, request, message, connVars, wire, flushed, historyVars>>

-----------------------------------------------------------------------------
(* The connection.                                                         *)

\* The client reads what still reaches it of the lines on their way, and then
\* the error.
Cut ==
    /\ conn' = "cut" /\ cancelled' \in BOOLEAN
    /\ wire' = <<>>
    /\ \E n \in 0..Len(wire) :
          /\ faulty' = (faulty \/ n < Len(wire))
          /\ IF told = "none" THEN Return(IF n = 0 THEN last ELSE wire[n], TRUE)
                              ELSE UNCHANGED clientVars

\* Applying the ingress restarts cloudflared, which drops the connection of a
\* client that comes in through it.
Severed ==
    \/ conn = "open" /\ Cut
    \/ UNCHANGED <<wire, connVars, clientVars>>

\* applyTunnel: written and reloaded; written and not reloaded, which is a
\* warning; or failed before that.
ApplyTunnel ==
    /\ At("tunnel")
    /\ \/ /\ pc' = "owner" /\ UNCHANGED historyVars
          /\ \/ Severed
             \/ Emit(<<"other">>) /\ UNCHANGED <<connVars, clientVars>>
       \/ FailWith(ErrorLine) /\ UNCHANGED <<connVars, clientVars>>
    /\ UNCHANGED <<guestVars, request, message, flushed>>

\* SetAppOwner, for a deploy; the request is over.
RecordOwner ==
    /\ At("owner")
    /\ \/ Emit(<<>>)
       \/ request.op = "deploy" /\ Emit(<<"other">>)
    /\ pc' = "end" /\ result' = "ok"
    /\ UNCHANGED <<guestVars, request, message, connVars, clientVars, flushed, ended,
                   booted, live, multiline>>

\* handleBuild: docker's own output, in which any line may come.
DockerPrints ==
    /\ At("docker") /\ wire = <<>> /\ conn = "open"
    /\ \E l \in {"other", "error", "image"} : Emit(<<l>>)
    /\ UNCHANGED <<guestVars, pc, request, message, connVars, clientVars, flushed, historyVars>>

\* Build and push; either may fail.
DockerEnds ==
    /\ At("docker")
    /\ \/ /\ pc' = "end" /\ Emit(<<"image">>)
          /\ live' = TRUE /\ result' = "ok" /\ UNCHANGED <<ended, booted, multiline>>
       \/ FailWith(ErrorLine)
    /\ UNCHANGED <<guestVars, request, message, connVars, clientVars, flushed>>

\* A proxy, the network or the client itself ends the connection.
NetworkFails ==
    /\ conn = "open" /\ pc # "idle" /\ told = "none"
    /\ conn' = "cut" /\ faulty' = TRUE /\ cancelled' \in BOOLEAN
    /\ wire' = <<>>
    /\ \E line \in {last} \cup {wire[i] : i \in DOMAIN wire} : Return(line, TRUE)
    /\ UNCHANGED <<guestVars, pc, request, message, flushed, historyVars>>

-----------------------------------------------------------------------------
(* The whole.                                                              *)

\* The release command ends when its process does.
GuestRuns ==
    /\ GuestStep
    /\ ended' = IF At("waiting") /\ proc[Child] # "zombie" /\ proc'[Child] = "zombie"
                THEN ExitCode(Child)' ELSE ended
    /\ UNCHANGED <<pc, request, message, connVars, wire, clientVars, flushed, booted, live,
                   result, multiline>>

\* A later request, or the daemon's shutdown, stops the machine that serves.
StopLater ==
    /\ At("end") /\ Powered
    /\ CtrlAltDel \/ (PowerOff("killed") /\ UNCHANGED console)
    /\ UNCHANGED <<pc, request, message, connVars, wire, clientVars, flushed, historyVars>>

HandlerStep ==
    \/ BuildRootfs \/ StartCommand \/ WaitCommand \/ PollLog \/ StartApp \/ AwaitHealthy
    \/ StopMachine \/ KillMachine \/ Stopped \/ MarkRunning \/ Cutover \/ ApplyTunnel
    \/ RecordOwner

ClientStep == ReadLine \/ ReadEnd

StreamNext ==
    \/ Request \/ HandlerStep \/ Heartbeat \/ DockerPrints \/ DockerEnds
    \/ NetworkFails \/ ClientStep \/ Flush \/ GuestRuns \/ StopLater

StreamSpec == StreamInit /\ [][StreamNext]_vars

\* What takes as long as it likes: docker, the pull of an image, a release
\* command, and a health check while a process of the guest may have accepted it.
Busy ==
    \/ At("docker") \/ At("rootfs")
    \/ At("waiting") /\ proc[Child] = "alive"
    \/ At("health") /\ \E p \in Procs : proc[p] = "alive"

FairStreamSpec ==
    /\ StreamSpec
    /\ WF_vars(~Busy /\ HandlerStep) /\ WF_vars(ClientStep)
    /\ WF_vars(InitStep /\ GuestRuns)
    /\ \A p \in Procs : WF_vars(DieKilled(p) /\ GuestRuns)

-----------------------------------------------------------------------------
ExitCodes == Statuses \cup {128 + SIGKILL, 128 + SIGTERM}

Gate == INSTANCE ReleaseGate
        WITH Statuses <- ExitCodes, gated <- request.command, result <- ended

\* The deploy implements ReleaseGate: the app's machine is booted only after
\* the release command has itself exited with 0, although all that comes back
\* is a line in a log that is written late, that other processes write to and
\* that is polled against a deadline (runReleaseCommand, lastChildExitStatus,
\* oak-init's run and reap).
ImplementsGate == Gate!GateSpec

\* A request that succeeded is not reported as failed because cloudflared was
\* restarted under it: the client has ok by then and takes the reset for what
\* it is (bootFromRelease, streamOutcome).  Only lines that were lost, or
\* another failure of the network, can make it look so.
RestartIsNotFailure == told = "failure" /\ result = "ok" => faulty

\* A failed request is reported as a success only if its error ran over several
\* lines: refusals, errors of one line, broken streams and builds are told apart
\* from successes whatever was printed before.
OnlyLongErrorsHideFailure == told = "success" /\ ~live => multiline

\* Success means success: what the client promises of Deploy's outcome.
NoFalseSuccess == told = "success" => live

\* Whoever asks is answered, but for what takes as long as it likes: once the
\* command has ended, and with it its machine, no lost marker, dead guest, health
\* check of a guest nobody listens in or machine that ignores Ctrl-Alt-Del keeps
\* the client waiting.
Answered == (pc # "idle" /\ ~Busy) ~> (told # "none" \/ Busy)

=============================================================================
