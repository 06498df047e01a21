---------------------------- MODULE ReleaseGate ----------------------------
(***************************************************************************)
(* What Deploy promises of a release command, without VMs, consoles, logs  *)
(* or polls: no machine of the new release is booted before the command    *)
(* has run to its end and exited with 0.                                   *)
(***************************************************************************)
EXTENDS Integers

CONSTANT Statuses   \* what a command may exit with

NotRun == -1

VARIABLES
    gated,    \* the deploy has a release command
    result,   \* what the command exited with
    booted    \* the app's machine has been started

gateVars == <<gated, result, booted>>

GateInit == gated = FALSE /\ result = NotRun /\ booted = FALSE

Ask(c) == gated' = c /\ result' = NotRun /\ booted' = FALSE

CommandExits(s) == result = NotRun /\ result' = s /\ UNCHANGED <<gated, booted>>

BootApp == (gated => result = 0) /\ booted' = TRUE /\ UNCHANGED <<gated, result>>

GateNext ==
    \/ \E c \in BOOLEAN : Ask(c)
    \/ \E s \in Statuses : CommandExits(s)
    \/ BootApp

GateSpec == GateInit /\ [][GateNext]_gateVars

=============================================================================
