---------------------------- MODULE BranchCycle ----------------------------
(***************************************************************************)
(* What the signaling actor and the stream plane rely on of each other     *)
(* about one viewer's branch (the BranchControl trait): an attach that     *)
(* returns Ok has built it, one that fails is undone before the call       *)
(* returns, a detach that returns Ok has taken all of it away, and nothing *)
(* of it goes by itself, but for a teardown that was reported failed and   *)
(* the end of the run.  Module Stream keeps to it with its threads and     *)
(* closures; what module Coordinator takes the pipeline to do is it.       *)
(***************************************************************************)
VARIABLES
    up,         \* whether there is a pipeline that branches can be in
    doing,      \* the call that is under way for this viewer
    there,      \* whether anything of the branch is in the pipeline, or all of it
                \* was a sink without media, which may leave by itself
    known,      \* the actor was told of an attach, and of no detach since
    suspect     \* a teardown was reported failed in this run

vars == <<up, doing, there, known, suspect>>

Init == ~up /\ doing = "nothing" /\ ~there /\ ~known /\ ~suspect

\* The run of the pipeline.  Its lock keeps it from ending within an attach.
Up == ~up /\ ~there /\ up' /\ UNCHANGED <<doing, there, known, suspect>>
Down == up /\ doing # "building" /\ ~up' /\ ~there' /\ UNCHANGED <<doing, known, suspect>>
Forget == ~up /\ suspect' = FALSE /\ UNCHANGED <<up, doing, there, known>>

\* The actor lets go of a connection without a word to the pipeline.
Dropped == known' = FALSE /\ UNCHANGED <<up, doing, there, suspect>>

\* An attach that fails at once leaves everything as it is...
Ask == doing = "nothing" /\ ~known /\ doing' = "asked" /\ UNCHANGED <<up, there, known, suspect>>
Refused == doing = "asked" /\ doing' = "nothing" /\ UNCHANGED <<up, there, known, suspect>>

\* ...it builds where nothing is left of an earlier branch...
Builds ==
    /\ up /\ doing = "asked" /\ ~there
    /\ doing' = "building" /\ there'
    /\ UNCHANGED <<up, known, suspect>>

Added ==
    /\ up
    /\ doing \in {"asked", "building"} /\ there = (doing = "building")
    /\ doing' = "nothing" /\ there' /\ known'
    /\ UNCHANGED <<up, suspect>>

\* ...and is undone when it fails half-way.
AttachFails ==
    /\ up /\ doing \in {"asked", "building"}
    /\ doing' = "undoing" /\ there' \in {there, TRUE}
    /\ UNCHANGED <<up, known, suspect>>

\* A DELETE keeps the connection for as long as it is not decided.
Detaches ==
    /\ doing = "nothing" /\ known
    /\ doing' = "detaching" /\ known' \in {known, FALSE} /\ there' \in {there, FALSE}
    /\ UNCHANGED <<up, suspect>>

\* The elements may be gone before the detach ends, and after it was given up.
Removes ==
    /\ (doing \in {"undoing", "detaching"}) \/ suspect
    /\ ~there'
    /\ UNCHANGED <<up, doing, known, suspect>>

Detached ==
    /\ doing \in {"undoing", "detaching"}
    /\ doing' = "nothing" /\ ~there' /\ known' = FALSE
    /\ UNCHANGED <<up, suspect>>

DetachFails ==
    /\ doing \in {"undoing", "detaching"}
    /\ doing' = "nothing" /\ suspect' /\ there' \in {there, FALSE}
    /\ UNCHANGED <<up, known>>

\* A detach that fails before it began.
DetachRefused ==
    /\ doing = "nothing" /\ known
    /\ suspect' /\ known' \in {known, FALSE} /\ there' \in {there, FALSE}
    /\ UNCHANGED <<up, doing>>

Next ==
    \/ Up \/ Down \/ Forget \/ Dropped
    \/ Ask \/ Refused \/ Builds \/ Added \/ AttachFails
    \/ Detaches \/ Removes \/ Detached \/ DetachFails \/ DetachRefused

Spec == Init /\ [][Next]_vars
=============================================================================
