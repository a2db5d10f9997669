------------------------------ MODULE RunCycle ------------------------------
(***************************************************************************)
(* What the supervisor promises the rest of the system about the shared    *)
(* pipeline: runs follow each other, each is drained of old restart        *)
(* requests before it starts, ends for good before the coordinator is      *)
(* reset, and the next one waits for the end of that reset.  The           *)
(* supervisor's part of module Coordinator is written against these steps; *)
(* module Supervisor implements them.                                      *)
(***************************************************************************)
EXTENDS Naturals

VARIABLES
    phase,      \* of the current run
    run,        \* how many runs were begun
    restart     \* the one-slot restart channel

vars == <<phase, run, restart>>

Init == phase = "none" /\ run = 0 /\ restart = FALSE

\* The watchdog asks for a restart; a request that is pending absorbs it.
Trip == restart' = TRUE /\ UNCHANGED <<phase, run>>

Begin ==
    /\ phase = "none"
    /\ phase' = "init"
    /\ run' = run + 1
    /\ restart' = FALSE

Move(from, to) == phase \in from /\ phase' = to /\ UNCHANGED <<run, restart>>

InitFails == Move({"init"}, "stopped")
Start == Move({"init"}, "up")

TakeRestart ==
    /\ phase = "up" /\ restart
    /\ phase' = "quitting"
    /\ restart' = FALSE
    /\ UNCHANGED run

Stop == Move({"up", "quitting"}, "stopped")
ResetEnds == Move({"stopped"}, "none")

Next == Trip \/ Begin \/ InitFails \/ Start \/ TakeRestart \/ Stop \/ ResetEnds

Spec == Init /\ [][Next]_vars
=============================================================================
