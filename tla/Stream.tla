------------------------------- MODULE Stream -------------------------------
(***************************************************************************)
(* The stream plane of one pipeline run: what the demuxer's callbacks      *)
(* build (src/stream/gst_pipeline.rs, egress.rs), the branches that are    *)
(* attached to and detached from it (branch.rs), and the bus watch         *)
(* (bus.rs, module Naming).                                                *)
(*                                                                         *)
(* Three kinds of threads share the pipeline and no lock between them: the *)
(* actor, which runs one attach or detach at a time and may give up on     *)
(* one; the streaming thread with the demuxer's callbacks; and the threads *)
(* of call_async, whose closures run on when the detach that waited for    *)
(* them was dropped.                                                       *)
(***************************************************************************)
EXTENDS Naming, FiniteSets, FiniteSetsExt

CONSTANTS
    DecodeVideo,    \* --decode-video
    Faults,         \* bound: "none" if pads may come without caps, "gone" if
                    \* the demuxer may remove them
    MaxPads,        \* bound: pads the demuxer adds
    MaxDetaches     \* bound: detaches, of all viewers, after which only the
                    \* DELETE of a sink asks for another

ASSUME StreamAssumption ==
    /\ DecodeVideo \in BOOLEAN
    /\ Faults \subseteq {"none", "gone"}
    /\ MaxPads \in Nat
    /\ MaxDetaches \in Nat

VARIABLES
    pads,       \* the demuxer's source pads, in the order they were added
    feed,       \* which of them each ingest queue is linked to, 0 for none
    walk,       \* the pad the no-more-pads callback is at, 0 outside of it
    tees,       \* the output tees that are in the pipeline
    paused,     \* those a detach has paused
    handle,     \* the pipeline in the shared state: not yet, set, about to be
                \* taken out because the main loop was quit, taken
    parts,      \* the elements of each viewer's branch in the pipeline
    teePads,    \* its queues that have a pad on their tee
    work,       \* the attach or detach the actor is in
    closures,   \* call_async closures that have not finished
    detaches,   \* detaches of each viewer so far
    entry,      \* what has become of each viewer, see Entries
    echo        \* the DELETE its whip sink sends when it is stopped

input == <<pads, feed, walk, tees>>
branches == <<parts, teePads, paused, closures>>
actor == <<work, detaches, entry>>
vars == <<input, handle, branches, actor, echo>>

Kinds == {"video", "audio"}
\* What the caps of a pad can say: the demuxer names a pad, and types its
\* caps, by kind.  "mpeg2" stands for video the codec table has no parser for,
\* "other" for what is neither audio nor video.
Media == [video |-> {"h264", "mpeg2"}, audio |-> {"aac"}, other |-> {"subtitle"}]
\* The codec table of build_egress_chain.  A pad without caps is in none.
Egress(m) == CASE m = "h264" -> "video" [] m = "aac" -> "audio" [] OTHER -> "none"

\* The pads the demuxer still has, and those input_ready and attach look for.
There == {i \in 1..Len(pads) : pads[i].caps # "gone"}
MediaPads == {i \in There : pads[i].kind \in Kinds}
KindsOf(is) == {pads[i].kind : i \in is}
PadKinds == KindsOf(MediaPads)

Queue == [video |-> "vqueue", audio |-> "aqueue"]
Queues == {"vqueue", "aqueue"}
TeeOf == [vqueue |-> "video", aqueue |-> "audio"]

-----------------------------------------------------------------------------
(***************************************************************************)
(* The streaming thread.                                                   *)
(***************************************************************************)

\* pad-added: a pad that has its caps is linked to its ingest queue, unless
\* another one is.
PadAdded(kind, caps) ==
    /\ walk = 0 /\ handle # "taken"
    /\ caps \in Media[kind] \cup (Faults \cap {"none"})
    /\ Len(pads) < MaxPads
    /\ pads' = Append(pads, [kind |-> kind, caps |-> caps])
    /\ feed' = [k \in Kinds |-> IF k = kind /\ caps # "none" /\ feed[k] = 0
                                THEN Len(pads) + 1 ELSE feed[k]]
    /\ UNCHANGED <<walk, tees, handle, branches, actor, echo>>

\* The demuxer comes to know what a pad carries.  No callback of ours sees it.
CapsSet(i) ==
    /\ walk = 0 /\ handle # "taken"
    /\ pads[i].caps = "none"
    /\ \E m \in Media[pads[i].kind] : pads' = [pads EXCEPT ![i].caps = m]
    /\ UNCHANGED <<feed, walk, tees, handle, branches, actor, echo>>

\* The demuxer drops a pad, when the program changes; that undoes its link.
PadRemoved(i) ==
    /\ walk = 0 /\ handle # "taken"
    /\ "gone" \in Faults /\ i \in There
    /\ pads' = [pads EXCEPT ![i].caps = "gone"]
    /\ feed' = [k \in Kinds |-> IF feed[k] = i THEN 0 ELSE feed[k]]
    /\ UNCHANGED <<walk, tees, handle, branches, actor, echo>>

\* no-more-pads, which a demuxer that joins mid-stream emits more than once.
NoMorePads ==
    /\ walk = 0 /\ handle # "taken"
    /\ Len(pads) > 0
    /\ walk' = 1
    /\ UNCHANGED <<pads, feed, tees, handle, branches, actor, echo>>

\* Mutants: a tee that is there already is taken for built; the codec table
\* has an answer for everything.
Mutant_ReuseTee(k) == k # "none"
Mutant_BuildAnything(k) == k \notin tees
\* Whether build_egress_chain can build the chain of k: a second tee of the
\* same name cannot be added.
Builds(k) == k # "none" /\ k \notin tees

\* Where the walk goes from here.
NextPad == IF walk < Len(pads) THEN walk + 1 ELSE 0

\* A mutant: the walk goes on after a pad that cannot be linked.
Mutant_LinkEveryPad ==
    /\ walk > 0 /\ handle # "taken"
    /\ LET k == Egress(pads[walk].caps)
       IN  tees' = IF walk \in There /\ Builds(k) THEN tees \cup {k} ELSE tees
    /\ walk' = NextPad
    /\ UNCHANGED <<pads, feed, handle, branches, actor, echo>>

\* foreach_src_pad builds the chain of one pad after the other and stops at
\* the first that fails: one without caps, one whose chain is unknown, already
\* there, or has an element that cannot be made.  A chain that was added and
\* then cannot be linked or synced leaves its tee behind.
LinkPad ==
    /\ walk > 0 /\ handle # "taken"
    /\ LET k == Egress(pads[walk].caps)
       IN  \/ walk \notin There /\ walk' = NextPad /\ UNCHANGED tees
           \/ walk \in There /\ Builds(k) /\ tees' = tees \cup {k} /\ walk' \in {NextPad, 0}
           \/ walk \in There /\ walk' = 0 /\ UNCHANGED tees
    /\ UNCHANGED <<pads, feed, handle, branches, actor, echo>>

-----------------------------------------------------------------------------
(***************************************************************************)
(* add_branch.  It runs under the state lock, which neither the streaming  *)
(* thread nor a closure takes.                                             *)
(***************************************************************************)

\* The actor between operations.
Idle == [pc |-> "idle", id |-> NoId, cause |-> "none", seen |-> {}, wait |-> "no", error |-> "none"]

Stored == handle \in {"set", "quitting"}
Attaching == work.pc \in {"pads", "tees", "attachSink", "video", "audio", "sync"}
Detaching == work.pc \in Parts

\* add_branch returns before it has attached anything.
Refuse(id, error) ==
    /\ work' = Idle
    /\ entry' = [entry EXCEPT ![id] = error]
    /\ UNCHANGED detaches

AddBranch(id) ==
    /\ work = Idle /\ entry[id] = "new"
    /\ \/ ~Stored /\ Refuse(id, "NotReady")
       \/ Refuse(id, "Transient")
       \/ /\ Stored
          /\ work' = [Idle EXCEPT !.pc = "pads", !.id = id]
          /\ UNCHANGED <<detaches, entry>>
    /\ UNCHANGED <<input, handle, branches, echo>>

\* A mutant: an input without media counts as ready.
Mutant_ReadPads ==
    /\ work.pc = "pads"
    /\ work' = [work EXCEPT !.pc = "tees", !.seen = MediaPads]
    /\ UNCHANGED <<detaches, entry, input, handle, branches, echo>>

\* input_ready looks at the pads...
ReadPads ==
    /\ work.pc = "pads"
    /\ \/ PadKinds = {} /\ Refuse(work.id, "NotReady")
       \/ /\ PadKinds # {}
          /\ work' = [work EXCEPT !.pc = "tees", !.seen = MediaPads]
          /\ UNCHANGED <<detaches, entry>>
    /\ UNCHANGED <<input, handle, branches, echo>>

\* A mutant: the tees are not asked for.
Mutant_CheckTees ==
    /\ work.pc = "tees"
    /\ work' = [work EXCEPT !.pc = "attachSink"]
    /\ UNCHANGED <<detaches, entry, input, handle, branches, echo>>

\* ...and then for their tees.
CheckTees ==
    /\ work.pc = "tees"
    /\ \/ ~(KindsOf(work.seen) \subseteq tees) /\ Refuse(work.id, "NotReady")
       \/ /\ KindsOf(work.seen) \subseteq tees
          /\ work' = [work EXCEPT !.pc = "attachSink"]
          /\ UNCHANGED <<detaches, entry>>
    /\ UNCHANGED <<input, handle, branches, echo>>

\* The attach gives up and leaves what it built to the detach that follows.
AttachFails(error) ==
    /\ work' = [work EXCEPT !.pc = "vqueue", !.cause = "undo", !.error = error]
    /\ detaches' = [detaches EXCEPT ![work.id] = @ + 1]
    /\ UNCHANGED entry

AttachSink ==
    /\ work.pc = "attachSink"
    /\ \/ AttachFails("element") /\ UNCHANGED parts
       \/ /\ parts' = [parts EXCEPT ![work.id] = @ \cup {"sink"}]
          /\ work' = [work EXCEPT !.pc = "video"]
          /\ UNCHANGED <<detaches, entry>>
    /\ UNCHANGED <<input, handle, teePads, paused, closures, echo>>

\* The elements a kind of media needs, in the order they are added.
Elements(k) == IF k = "video" /\ DecodeVideo THEN <<"vqueue", "decoder">> ELSE <<Queue[k]>>

\* attach's block for one kind: the pads are read again, the tee looked up
\* again; the elements are added one by one, linked, and synced.
AttachMedia(k) ==
    /\ work.pc = k
    /\ \/ k \notin PadKinds
          /\ work' = [work EXCEPT !.pc = IF k = "video" THEN "audio" ELSE "sync"]
          /\ UNCHANGED <<detaches, entry, parts, teePads, paused>>
       \/ k \in PadKinds \ tees /\ AttachFails("tee") /\ UNCHANGED <<parts, teePads, paused>>
       \/ /\ k \in PadKinds \cap tees
          /\ \E n \in 0..Len(Elements(k)), linked \in BOOLEAN :
                /\ linked => n = Len(Elements(k))
                /\ parts' = [parts EXCEPT ![work.id] = @ \cup {Elements(k)[i] : i \in 1..n}]
                /\ teePads' = [teePads EXCEPT ![work.id] = IF linked THEN @ \cup {Queue[k]} ELSE @]
                /\ \/ AttachFails("element") /\ UNCHANGED paused
                   \/ /\ linked
                      /\ paused' = paused \ {k}
                      /\ work' = [work EXCEPT !.pc = IF k = "video" THEN "audio" ELSE "sync"]
                      /\ UNCHANGED <<detaches, entry>>
    /\ UNCHANGED <<input, handle, closures, echo>>

\* The sink is synced; only now does it start towards its offer.
AttachSync ==
    /\ work.pc = "sync"
    /\ \/ AttachFails("element")
       \/ /\ entry' = [entry EXCEPT ![work.id] = "mapped"]
          /\ work' = Idle
          /\ UNCHANGED detaches
    /\ UNCHANGED <<input, handle, branches, echo>>

-----------------------------------------------------------------------------
(***************************************************************************)
(* Detach, one part after the other.                                       *)
(***************************************************************************)

\* remove_branch: a DELETE by the viewer ("required") or by its sink ("echo")
\* keeps the entry until it has worked, anything else ("dropped") does not.
RemoveBranch(id, cause) ==
    /\ work = Idle /\ entry[id] = "mapped"
    /\ MapThenSumSet(LAMBDA viewer : detaches[viewer], Ids) < MaxDetaches \/ cause = "echo"
    /\ detaches' = [detaches EXCEPT ![id] = @ + 1]
    /\ entry' = IF cause = "dropped" THEN [entry EXCEPT ![id] = "dropped"] ELSE entry
    /\ \/ /\ Stored
          /\ work' = [Idle EXCEPT !.pc = "vqueue", !.id = id, !.cause = cause]
          /\ UNCHANGED echo
       \/ /\ echo' = IF cause = "echo" THEN [echo EXCEPT ![id] = "answered"] ELSE echo
          /\ UNCHANGED work
    /\ UNCHANGED <<input, handle, branches>>

\* The sink's own DELETE reaches the actor when it is done with the rest; one
\* for a viewer that is not in the map any more is answered at once.
ServeEcho(id) ==
    /\ echo[id] = "waiting"
    /\ \/ RemoveBranch(id, "echo")
       \/ /\ work = Idle /\ entry[id] # "mapped"
          /\ echo' = [echo EXCEPT ![id] = "answered"]
          /\ UNCHANGED <<input, handle, branches, actor>>

\* The detach of work.id returns, or is dropped, with this result.
DetachReturns(result) ==
    LET id == work.id
        undo == work.cause = "undo"
    IN  /\ work' = Idle
        /\ entry' = IF undo
                    THEN [entry EXCEPT ![id] = IF result = "Transient" THEN result ELSE "Fatal"]
                    ELSE IF result = "Ok" THEN [entry EXCEPT ![id] = "removed"] ELSE entry
        /\ echo' = IF work.cause = "echo" THEN [echo EXCEPT ![id] = "answered"] ELSE echo
        /\ UNCHANGED detaches

\* A mutant: the decoder is forgotten.
Mutant_Advance ==
    IF work.pc = "sink" THEN DetachReturns("Ok")
    ELSE /\ work' = [work EXCEPT !.wait = "no", !.pc = IF @ = "vqueue" THEN "aqueue" ELSE "sink"]
         /\ UNCHANGED <<detaches, entry, echo>>

\* On to the next part.
Advance ==
    IF work.pc = "sink" THEN DetachReturns("Ok")
    ELSE /\ work' = [work EXCEPT !.wait = "no",
                                 !.pc = CASE @ = "vqueue" -> "aqueue" [] @ = "aqueue" -> "decoder"
                                          [] @ = "decoder" -> "sink"]
         /\ UNCHANGED <<detaches, entry, echo>>

\* A closure is handed to call_async, and the detach awaits it.
Await(job) ==
    /\ closures' = closures \cup
           {[id |-> work.id, part |-> work.pc, job |-> job, detach |-> detaches[work.id],
             step |-> IF job = "tee" THEN "pause" ELSE "stop"]}
    /\ work' = [work EXCEPT !.wait = job]
    /\ UNCHANGED <<detaches, entry, echo>>

Awaited == {c \in closures : c.id = work.id /\ c.detach = detaches[work.id]}

\* A mutant: a queue is taken out while it hangs on its tee.
Mutant_FindPart ==
    /\ Detaching /\ work.wait = "no"
    /\ \/ work.pc \notin parts[work.id] /\ Advance /\ UNCHANGED closures
       \/ work.pc \in parts[work.id] /\ Await("element")
    /\ UNCHANGED <<input, handle, parts, teePads, paused>>

\* A mutant: every queue is taken to be linked.
Mutant_FindPartLinked ==
    /\ Detaching /\ work.wait = "no"
    /\ \/ work.pc \notin parts[work.id] /\ Advance /\ UNCHANGED closures
       \/ /\ work.pc \in parts[work.id] \ Queues
          /\ Await("element")
       \/ /\ work.pc \in parts[work.id] \cap Queues
          /\ work' = [work EXCEPT !.wait = "peer"]
          /\ UNCHANGED <<closures, detaches, entry, echo>>
    /\ UNCHANGED <<input, handle, parts, teePads, paused>>

\* The part is looked up by name; a queue that is linked has a pad to release first.
FindPart ==
    /\ Detaching /\ work.wait = "no"
    /\ \/ work.pc \notin parts[work.id] /\ Advance /\ UNCHANGED closures
       \/ /\ work.pc \in parts[work.id] \ teePads[work.id]
          /\ Await("element")
       \/ /\ work.pc \in parts[work.id] \cap teePads[work.id]
          /\ work' = [work EXCEPT !.wait = "peer"]
          /\ UNCHANGED <<closures, detaches, entry, echo>>
    /\ UNCHANGED <<input, handle, parts, teePads, paused>>

\* Its peer and the tee are looked up, and may be gone by then.
FindTee ==
    /\ Detaching /\ work.wait = "peer"
    /\ \/ work.pc \in teePads[work.id] /\ Await("tee")
       \/ work.pc \notin teePads[work.id] /\ DetachReturns("Fatal") /\ UNCHANGED closures
    /\ UNCHANGED <<input, handle, parts, teePads, paused>>

\* What the detach awaited has run.
Awoken ==
    /\ Detaching /\ work.wait \in {"tee", "element"} /\ Awaited = {}
    /\ \/ work.wait = "tee" /\ Await("element")
       \/ work.wait = "element" /\ Advance /\ UNCHANGED closures
    /\ UNCHANGED <<input, handle, parts, teePads, paused>>

\* A mutant: the detach is awaited without a bound once it got to the sink.
Mutant_CutOff ==
    /\ Detaching /\ work.pc # "sink" /\ work.wait \in {"tee", "element"}
    /\ DetachReturns("Transient")
    /\ UNCHANGED <<input, handle, branches>>

\* teardown_timeout drops the future; its closure runs on.
CutOff ==
    /\ Detaching /\ work.wait \in {"tee", "element"}
    /\ DetachReturns("Transient")
    /\ UNCHANGED <<input, handle, branches>>

-----------------------------------------------------------------------------
(***************************************************************************)
(* The call_async closures, and what the elements do by themselves.        *)
(***************************************************************************)

Step(c, step) == closures' = (closures \ {c}) \cup {[c EXCEPT !.step = step]}

TeePauses(c) ==
    /\ c.step = "pause"
    /\ paused' = paused \cup {TeeOf[c.part]}
    /\ Step(c, "release")
    /\ UNCHANGED <<parts, teePads, echo>>

\* remove_pad, which does nothing where another closure was first.
PadReleased(c) ==
    /\ c.step = "release"
    /\ teePads' = [teePads EXCEPT ![c.id] = @ \ {c.part}]
    /\ Step(c, "resume")
    /\ UNCHANGED <<parts, paused, echo>>

\* A mutant: a tee is not resumed.
Mutant_TeeResumes(c) ==
    /\ c.step = "resume"
    /\ closures' = closures \ {c}
    /\ UNCHANGED <<parts, teePads, paused, echo>>

TeeResumes(c) ==
    /\ c.step = "resume"
    /\ paused' = paused \ {TeeOf[c.part]}
    /\ closures' = closures \ {c}
    /\ UNCHANGED <<parts, teePads, echo>>

\* set_state(Null).  A sink that got as far as its WHIP session deletes it at
\* our own endpoint; an element has one state change at a time.
ElementStops(c) ==
    /\ c.step = "stop"
    /\ \A d \in closures : d.id = c.id /\ d.part = c.part => d.step # "stopping"
    /\ Step(c, "stopping")
    /\ \/ UNCHANGED echo
       \/ /\ c.part = "sink" /\ echo[c.id] = "none" /\ entry[c.id] \in {"mapped", "dropped"}
          /\ echo' = [echo EXCEPT ![c.id] = "waiting"]
    /\ UNCHANGED <<parts, teePads, paused>>

\* The state change is through; whether a sink waits for the answer to its
\* DELETE first is up to the plugin.
ElementStopped(c) ==
    /\ c.step = "stopping"
    /\ Step(c, "remove")
    /\ UNCHANGED <<parts, teePads, paused, echo>>

ElementRemoved(c) ==
    /\ c.step = "remove"
    /\ parts' = [parts EXCEPT ![c.id] = @ \ {c.part}]
    /\ closures' = closures \ {c}
    /\ UNCHANGED <<teePads, paused, echo>>

Closure(c) ==
    /\ \/ TeePauses(c) \/ PadReleased(c) \/ TeeResumes(c)
       \/ ElementStops(c) \/ ElementStopped(c) \/ ElementRemoved(c)
    /\ UNCHANGED <<input, handle, actor>>

\* A sink that cannot send its offer takes itself out of the pipeline.
SinkLeaves(id) ==
    /\ entry[id] = "mapped" /\ "sink" \in parts[id]
    /\ parts' = [parts EXCEPT ![id] = @ \ {"sink"}]
    /\ UNCHANGED <<input, handle, teePads, paused, closures, actor, echo>>

-----------------------------------------------------------------------------
(***************************************************************************)
(* The bus, and the life of the pipeline handle.                           *)
(***************************************************************************)

\* Where errors come from: a core element, a part of a branch, or an element
\* inside its whip sink, whose name says nothing.
Sources == [part : CoreStems, id : {NoId}] \cup [part : Parts \cup {"inner"}, id : Ids]

\* The sink and its inner elements stay together while someone holds the sink.
SinkHeld(id) ==
    \/ "sink" \in parts[id]
    \/ \E c \in closures : c.id = id /\ c.part = "sink"
    \/ work.id = id /\ work.pc = "sink"

\* The names of a source and its ancestors, at the time they are asked.
Ancestry(s) ==
    CASE s.part \in CoreStems -> <<CoreName(s.part), CoreName("pipeline")>>
      [] s.part = "inner" -> IF SinkHeld(s.id)
                             THEN <<CoreName("inner"), BranchName("sink", s.id), CoreName("pipeline")>>
                             ELSE <<CoreName("inner")>>
      [] OTHER -> <<BranchName(s.part, s.id), CoreName("pipeline")>>

\* Errors the bus watch may come to read, some of them posted long before.
Heard(s) == handle = "set" /\ (s.id \in Ids => parts[s.id] # {} \/ detaches[s.id] > 0)

\* One that quits the main loop.  What a report of a viewer leads to is a
\* RemoveBranch like any other, see module Coordinator.
ReadError(s) ==
    /\ Heard(s)
    /\ Classify(Ancestry(s)) = Quit
    /\ handle' = "quitting"
    /\ UNCHANGED <<input, branches, actor, echo>>

\* init keeps the pipeline, which has been playing since a moment ago.
PipelineStored ==
    /\ handle = "none"
    /\ handle' = "set"
    /\ UNCHANGED <<input, branches, actor, echo>>

\* clean_up takes it out after the main loop ended; the lock keeps an attach whole.
CleanUp ==
    /\ handle = "quitting" /\ ~Attaching
    /\ handle' = "taken"
    /\ UNCHANGED <<input, branches, actor, echo>>

-----------------------------------------------------------------------------
Init ==
    /\ pads = << >> /\ feed = [k \in Kinds |-> 0]
    /\ walk = 0 /\ tees = {} /\ paused = {}
    /\ handle = "none"
    /\ parts = [id \in Ids |-> {}] /\ teePads = [id \in Ids |-> {}]
    /\ work = Idle /\ closures = {}
    /\ detaches = [id \in Ids |-> 0]
    /\ entry = [id \in Ids |-> "new"]
    /\ echo = [id \in Ids |-> "none"]

Demuxer ==
    \/ \E kind \in DOMAIN Media : \E caps \in Media[kind] \cup {"none"} : PadAdded(kind, caps)
    \/ \E i \in 1..Len(pads) : CapsSet(i) \/ PadRemoved(i)
    \/ NoMorePads \/ LinkPad

Attach == ReadPads \/ CheckTees \/ AttachSink \/ (\E k \in Kinds : AttachMedia(k)) \/ AttachSync

Detach == FindPart \/ FindTee \/ Awoken \/ CutOff

Actor ==
    \/ Attach \/ Detach
    \/ \E id \in Ids : \/ AddBranch(id) \/ ServeEcho(id)
                       \/ \E cause \in {"required", "dropped"} : RemoveBranch(id, cause)

Bus == \E s \in Sources : ReadError(s)

Next ==
    \/ Demuxer \/ Actor \/ Bus \/ PipelineStored \/ CleanUp
    \/ \E c \in closures : Closure(c)
    \/ \E id \in Ids : SinkLeaves(id)

Spec == Init /\ [][Next]_vars

(***************************************************************************)
(* Fairness.  The actor goes on with what it does, serves what waits for   *)
(* it, and teardown_timeout fires; closures run; a stopping sink owes its  *)
(* state change only once its DELETE was answered.                         *)
(***************************************************************************)
Fairness ==
    /\ WF_vars(Attach) /\ WF_vars(FindPart \/ FindTee) /\ WF_vars(Awoken) /\ WF_vars(CutOff)
    /\ \A id \in Ids : SF_vars(ServeEcho(id))
    /\ WF_vars(\E c \in closures :
                  Closure(c) /\ (c.step = "stopping" => echo[c.id] # "waiting"))

FairSpec == Spec /\ Fairness

-----------------------------------------------------------------------------
(***************************************************************************)
(* Properties.                                                             *)
(***************************************************************************)

\* What has become of a viewer: an add_branch not begun, answered with an
\* error, or answered Ok ("mapped"); then in the hands of a teardown that the
\* map does not wait for, or gone with a detach that returned Ok.
Entries == {"new", "NotReady", "Transient", "Fatal", "mapped", "dropped", "removed"}

Closures ==
    [id : Ids, part : Parts, job : {"tee", "element"}, detach : Nat,
     step : {"pause", "release", "resume", "stop", "stopping", "remove"}]

Pads == [kind : DOMAIN Media, caps : {"h264", "mpeg2", "aac", "subtitle", "none", "gone"}]

Works ==
    [pc : {"idle", "pads", "tees", "attachSink", "video", "audio", "sync"} \cup Parts,
     id : Ids \cup {NoId}, cause : {"none", "undo", "required", "dropped", "echo"},
     seen : SUBSET (1..MaxPads), wait : {"no", "peer", "tee", "element"},
     error : {"none", "tee", "element"}]

TypeOK ==
    /\ pads \in Seq(Pads) /\ Len(pads) <= MaxPads
    /\ \A i \in 1..Len(pads) : pads[i].caps \in Media[pads[i].kind] \cup {"none", "gone"}
    /\ feed \in [Kinds -> 0..Len(pads)]
    /\ walk \in 0..Len(pads)
    /\ tees \subseteq Kinds /\ paused \subseteq tees
    /\ handle \in {"none", "set", "quitting", "taken"}
    /\ parts \in [Ids -> SUBSET Parts] /\ teePads \in [Ids -> SUBSET Queues]
    /\ work \in Works
    /\ closures \subseteq Closures
    /\ detaches \in [Ids -> Nat] /\ entry \in [Ids -> Entries]
    /\ echo \in [Ids -> {"none", "waiting", "answered"}]

(***************************************************************************)
(* A tee hands out what it was built for: pad-added feeds its queue from   *)
(* the first pad of its kind, no-more-pads ends the first chain of its     *)
(* kind in it, and only the walk's stop at the first pad it cannot link    *)
(* keeps these from being different pads                                   *)
(* (src/stream/gst_pipeline.rs:281-301).  It takes a pad that had its caps *)
(* when it was added, and is still there: behind one that had not, or has  *)
(* gone, another pad feeds the queue, of whichever codec.                  *)
(***************************************************************************)
TeesCarryTheirMedia ==
    \A k \in tees : feed[k] # 0 /\ (\A i \in 1..feed[k] - 1 : pads[i].kind # k) =>
        Egress(pads[feed[k]].caps) = k

(***************************************************************************)
(* What a detach that returned Ok, or an attach that failed for good, has  *)
(* left of a branch: nothing, neither elements nor pads on the tees, from  *)
(* whichever stage the attach got to, and whatever an abandoned detach or  *)
(* the sink itself does meanwhile (src/stream/branch.rs:178-181).          *)
(***************************************************************************)
DetachedBranchesAreGone ==
    \A id \in Ids : entry[id] \in {"removed", "Fatal"} => parts[id] = {} /\ teePads[id] = {}

(***************************************************************************)
(* No element leaves the pipeline while its tee still has a pad for it: a  *)
(* pad without its queue could be found, and released, by nobody.          *)
(***************************************************************************)
NoPadIsOrphaned == \A id \in Ids : teePads[id] \subseteq parts[id]

(***************************************************************************)
(* A viewer that is told to wait for an offer gets every medium that       *)
(* add_branch saw when it checked the input, and there was one: attach     *)
(* reads the pads again, and takes a medium that it does not find for one  *)
(* that it need not link (src/stream/branch.rs:111-169).  Only a pad that  *)
(* the demuxer removed in between is missed.                               *)
(***************************************************************************)
Maps(id) == entry[id] = "new" /\ entry'[id] = "mapped"
MappedBranchesHangOnTees ==
    [][\A id \in Ids : Maps(id) =>
          /\ work.seen # {}
          /\ \A i \in work.seen \cap There : Queue[pads[i].kind] \in teePads[id]]_vars

(***************************************************************************)
(* A tee is paused only while a closure is at work on it: overlapping      *)
(* detaches, abandoned ones among them, leave no tee paused for the rest   *)
(* of the viewers.                                                         *)
(***************************************************************************)
PausedTeesAreBeingWorkedOn ==
    \A k \in paused : \E c \in closures : c.step \in {"release", "resume"} /\ TeeOf[c.part] = k

(***************************************************************************)
(* An attach fails for want of a tee, and so for good rather than as       *)
(* NotReady (src/stream/errors.rs:10-13), only because of a pad that came  *)
(* between add_branch's check and the attach, of a medium the check had    *)
(* not seen: the check and the attach read the pads and the tees at four   *)
(* different times (src/stream/gst_pipeline.rs:65-76, branch.rs:111-151).  *)
(***************************************************************************)
OnlyNewPadsLackTees ==
    [][work'.error = "tee" /\ work.error # "tee" =>
          \E i \in MediaPads \ work.seen : pads[i].kind \notin KindsOf(work.seen) \cup tees]_vars

(***************************************************************************)
(* docs/known_limitations.md:30-32: once a no-more-pads has built a tee    *)
(* and left another medium without one, or a pad comes after it, the input *)
(* stays not ready, however often no-more-pads is emitted; unless the      *)
(* demuxer removes a pad.                                                  *)
(***************************************************************************)
InputReady == PadKinds # {} /\ PadKinds \subseteq tees
PadLost == There # 1..Len(pads)
HalfLinkedStaysHalfLinked ==
    [](walk = 0 /\ tees # {} /\ ~InputReady => [](~InputReady \/ PadLost))

\* What the actor is told of a viewer's branch, and what is in the pipeline of it.
DoingFor(id) ==
    IF work.id # id THEN "nothing"
    ELSE IF work.pc \in {"pads", "tees", "attachSink"} THEN "asked"
    ELSE IF Attaching THEN "building"
    ELSE IF work.cause = "undo" THEN "undoing" ELSE "detaching"

\* A detach has failed: all but the first, for there is no second after an Ok,
\* and the first once it is over, unless nothing is left.
TeardownFailed(id) ==
    \/ detaches[id] > 1
    \/ detaches[id] = 1 /\ work.id # id /\ entry[id] \notin {"removed", "Fatal"}

\* A branch that was answered Ok, though its pads had gone before they were
\* linked, is a sink and no more.  It may take itself out; the actor does not
\* see that, and the branch counts until it is detached.
Hollow(id) == entry[id] = "mapped" /\ detaches[id] = 0 /\ teePads[id] = {}

Branch(id) == INSTANCE BranchCycle WITH
                 up <- Stored, doing <- DoingFor(id),
                 there <- Stored /\ (parts[id] # {} \/ Hollow(id)),
                 known <- entry[id] = "mapped", suspect <- TeardownFailed(id)

(***************************************************************************)
(* Each branch goes the way the actor may rely on, under every interleaving*)
(* of attach, detach, their abandoned closures, sinks that leave, and the  *)
(* end of the run: Ok means built or gone, and nothing goes by itself.     *)
(***************************************************************************)
BranchesKeepTheCycle ==
    /\ \A id \in Ids : Branch(id)!Init
    /\ [][\A id \in Ids : Branch(id)!Next \/ UNCHANGED Branch(id)!vars]_vars

(***************************************************************************)
(* The first detach of a branch never fails for good: that takes an        *)
(* earlier one that was cut off and is still releasing the pad.            *)
(***************************************************************************)
OnlyRetriesFailForGood ==
    [][work.wait = "peer" /\ work' = Idle => detaches[work.id] > 1]_work

(***************************************************************************)
(* src/stream/bus.rs:6-15: an error of anything in a branch is reported    *)
(* for its viewer and no other, and never quits the main loop; an error of *)
(* a core element does.  The one way out is an element inside a whip sink  *)
(* that has been taken apart before its message is read.                   *)
(***************************************************************************)
ErrorsAreContained ==
    \A s \in Sources : Heard(s) =>
        \/ Classify(Ancestry(s)) = IF s.part \in CoreStems THEN Quit ELSE ReapBranch(s.id)
        \/ s.part = "inner" /\ ~SinkHeld(s.id)

(***************************************************************************)
(* Neither a wedged teardown nor a sink that waits for the actor while the *)
(* actor waits for the sink keeps the actor for good...                    *)
(***************************************************************************)
ActorComesBack == work # Idle ~> work = Idle

(***************************************************************************)
(* ...and the sink's DELETE is answered, so that its teardown goes on.     *)
(***************************************************************************)
EchoesAreAnswered == \A id \in Ids : echo[id] = "waiting" ~> echo[id] = "answered"
=============================================================================
