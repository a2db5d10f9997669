------------------------- MODULE StreamBranchProofs -------------------------
(***************************************************************************)
(* Proofs about the branches of module Stream: what attaches that fail     *)
(* half-way and detaches that are cut off, begun again and overlap leave   *)
(* behind, for any number of viewers, pads and detaches; that each branch  *)
(* keeps the BranchCycle the actor relies on; and how far an operation is  *)
(* from its end.                                                           *)
(***************************************************************************)
EXTENDS StreamProofs

(***************************************************************************)
(* The branches' side.  While a branch is built, no detach of it has       *)
(* begun; the closures belong to the detaches so far; ...                  *)
(***************************************************************************)
StagesOK ==
    /\ \A id \in Ids : entry[id] = "new" /\ ~(work.id = id /\ work.cause = "undo") => detaches[id] = 0
    /\ Attaching => work.cause = "none" /\ entry[work.id] = "new"
    /\ Detaching => work.cause # "none" /\ detaches[work.id] > 0
    /\ work.cause = "undo" => entry[work.id] = "new" /\ detaches[work.id] = 1
    /\ work.cause \in {"required", "dropped", "echo"} => entry[work.id] \in {"mapped", "dropped"}
    /\ \A c \in closures : c.detach \in 1..detaches[c.id]

\* ...a detach that waits for a closure has one running for what is still to
\* be released or removed, and one that waits for none has none running; ...
AwaitOK ==
    /\ work.wait \in {"no", "peer"} /\ Detaching => Awaited = {}
    /\ work.wait = "peer" => work.pc \in teePads[work.id] \/ detaches[work.id] > 1
    /\ work.wait = "tee" /\ work.pc \in teePads[work.id] =>
          \E c \in Awaited : c.part = work.pc /\ c.step \in {"pause", "release"}
    /\ work.wait = "element" /\ work.pc \in parts[work.id] =>
          \E c \in Awaited : c.part = work.pc /\ c.step \in {"stop", "stopping", "remove"}

\* ...nothing is taken out that has a pad, and what a detach is done with is gone.
Before(pc) == CASE pc = "vqueue" -> {} [] pc = "aqueue" -> {"vqueue"}
                [] pc = "decoder" -> Queues [] pc = "sink" -> Queues \cup {"decoder"}

PartsOK ==
    /\ \A c \in closures : c.step \in {"stop", "stopping", "remove"} => c.part \notin teePads[c.id]
    /\ Detaching => Before(work.pc) \cap parts[work.id] = {}

BranchInv ==
    TypeInv /\ StagesOK /\ AwaitOK /\ PartsOK /\ NoPadIsOrphaned /\ DetachedBranchesAreGone

\* The initial state has all of this.
LEMMA InitBranch == Init => BranchInv
<1> SUFFICES ASSUME Init PROVE BranchInv
  OBVIOUS
<1>1. ~Attaching /\ ~Detaching /\ work.cause = "none" /\ work.wait = "no" /\ closures = {}
  BY DEF Init, Attaching, Detaching, Idle, Parts
<1> QED
  BY <1>1, InitType
  DEF Init, BranchInv, StagesOK, AwaitOK, PartsOK, NoPadIsOrphaned, DetachedBranchesAreGone

\* What an attach does to its branch, and that it leaves the others alone.
LEMMA AttachEffect ==
    ASSUME BranchInv, Attach
    PROVE  /\ Attaching /\ work.id \in Ids /\ closures' = closures
           /\ entry[work.id] = "new" /\ detaches[work.id] = 0
           /\ \A c \in closures : c.id # work.id
           /\ \A id \in Ids \ {work.id} : /\ parts'[id] = parts[id] /\ teePads'[id] = teePads[id]
                                          /\ entry'[id] = entry[id] /\ detaches'[id] = detaches[id]
           /\ teePads'[work.id] \subseteq parts'[work.id]
           /\ \/ /\ work' = Idle /\ detaches'[work.id] = 0
                 /\ entry'[work.id] \in {"NotReady", "Transient", "mapped"}
              \/ /\ work'.pc \in {"tees", "attachSink", "video", "audio", "sync"}
                 /\ work'.id = work.id /\ work'.cause = "none" /\ work'.wait = "no"
                 /\ entry'[work.id] = "new" /\ detaches'[work.id] = 0
              \/ /\ work'.pc = "vqueue"
                 /\ work'.id = work.id /\ work'.cause = "undo" /\ work'.wait = "no"
                 /\ entry'[work.id] = "new" /\ detaches'[work.id] = 1
<1>1. Attaching /\ work.pc # "idle" /\ closures' = closures
  BY DEF Attach, ReadPads, CheckTees, AttachSink, AttachMedia, AttachSync, Attaching, Kinds, branches
<1>2. /\ work \in Works /\ work.id \in Ids /\ work.wait = "no" /\ work.cause = "none"
      /\ entry[work.id] = "new" /\ detaches[work.id] = 0
      /\ entry \in [Ids -> Entries] /\ detaches \in [Ids -> Nat]
      /\ parts \in [Ids -> SUBSET Parts] /\ teePads \in [Ids -> SUBSET Queues]
  BY <1>1 DEF BranchInv, TypeInv, TypeOK, ActorOK, StagesOK, Attaching, Detaching, Parts
<1>3. \A c \in closures : c.id # work.id
  BY <1>2 DEF BranchInv, StagesOK
<1>4. ASSUME NEW error \in {"NotReady", "Transient"}, Refuse(work.id, error)
      PROVE  /\ work' = Idle /\ detaches' = detaches
             /\ entry' = [entry EXCEPT ![work.id] = error]
  BY <1>4 DEF Refuse
<1>5. ASSUME NEW error, AttachFails(error)
      PROVE  /\ work'.pc = "vqueue" /\ work'.id = work.id /\ work'.cause = "undo" /\ work'.wait = "no"
             /\ entry' = entry /\ detaches' = [detaches EXCEPT ![work.id] = 1]
  BY <1>2, <1>5 DEF AttachFails, Works
<1>6. ASSUME NEW pc,
             work' = [work EXCEPT !.pc = pc] \/ work' = [work EXCEPT !.pc = pc, !.seen = MediaPads]
      PROVE  work'.pc = pc /\ work'.id = work.id /\ work'.cause = "none" /\ work'.wait = "no"
  BY <1>2, <1>6 DEF Works
<1> DEFINE Outcome ==
      \/ /\ work' = Idle /\ detaches' = detaches
         /\ \E e \in {"NotReady", "Transient", "mapped"} : entry' = [entry EXCEPT ![work.id] = e]
      \/ /\ work'.pc \in {"tees", "attachSink", "video", "audio", "sync"}
         /\ work'.id = work.id /\ work'.cause = "none" /\ work'.wait = "no"
         /\ entry' = entry /\ detaches' = detaches
      \/ /\ work'.pc = "vqueue"
         /\ work'.id = work.id /\ work'.cause = "undo" /\ work'.wait = "no"
         /\ entry' = entry /\ detaches' = [detaches EXCEPT ![work.id] = 1]
<1>7. Outcome
  <2>1. CASE ReadPads
    BY <1>4, <1>6, <2>1 DEF ReadPads
  <2>2. CASE CheckTees
    BY <1>4, <1>6, <2>2 DEF CheckTees
  <2>3. CASE AttachSink
    BY <1>5, <1>6, <2>3 DEF AttachSink
  <2>4. ASSUME NEW k \in Kinds, AttachMedia(k) PROVE Outcome
    <3>1. AttachFails("tee") \/ AttachFails("element") \/
          (/\ work' = [work EXCEPT !.pc = IF k = "video" THEN "audio" ELSE "sync"]
           /\ UNCHANGED <<detaches, entry>>)
      BY <2>4 DEF AttachMedia
    <3> QED
      BY <1>5, <1>6, <3>1
  <2>5. CASE AttachSync
    BY <1>5, <2>5 DEF AttachSync
  <2> QED
    BY <2>1, <2>2, <2>3, <2>4, <2>5 DEF Attach
<1>8. teePads[work.id] \subseteq parts[work.id]
  BY <1>2 DEF BranchInv, NoPadIsOrphaned
<1> DEFINE Grown ==
      /\ \A id \in Ids \ {work.id} : parts'[id] = parts[id] /\ teePads'[id] = teePads[id]
      /\ teePads'[work.id] \subseteq parts'[work.id]
<1>9. Grown
  <2>1. CASE UNCHANGED <<parts, teePads>>
    BY <1>2, <1>8, <2>1
  <2>2. CASE AttachSink
    BY <1>2, <1>8, <2>2 DEF AttachSink
  <2>3. ASSUME NEW k \in Kinds, AttachMedia(k), k \in PadKinds \cap tees PROVE Grown
    <3>1. PICK n \in 0..Len(Elements(k)), linked \in BOOLEAN :
            /\ linked => n = Len(Elements(k))
            /\ parts' = [parts EXCEPT ![work.id] = @ \cup {Elements(k)[i] : i \in 1..n}]
            /\ teePads' = [teePads EXCEPT ![work.id] = IF linked THEN @ \cup {Queue[k]} ELSE @]
      BY <2>3 DEF AttachMedia
    <3>2. Len(Elements(k)) \in {1, 2} /\ Elements(k)[1] = Queue[k]
      BY DEF Elements, Queue, Kinds
    <3>3. linked => Queue[k] \in {Elements(k)[i] : i \in 1..n}
      BY <3>1, <3>2
    <3>4. /\ teePads'[work.id] = IF linked THEN teePads[work.id] \cup {Queue[k]} ELSE teePads[work.id]
          /\ parts'[work.id] = parts[work.id] \cup {Elements(k)[i] : i \in 1..n}
      BY <1>2, <3>1
    <3>5. teePads'[work.id] \subseteq parts'[work.id]
      BY <1>8, <3>3, <3>4
    <3> QED
      BY <1>2, <3>1, <3>5
  <2> QED
    BY <2>1, <2>2, <2>3 DEF Attach, ReadPads, CheckTees, AttachMedia, AttachSync, branches
<1>10. \A id \in Ids \ {work.id} : entry'[id] = entry[id] /\ detaches'[id] = detaches[id]
  BY <1>2, <1>7
<1> QED
  BY <1>1, <1>2, <1>3, <1>7, <1>9, <1>10

\* An attach keeps the branches in order.
LEMMA AttachBranch == BranchInv /\ Attach => BranchInv'
<1> SUFFICES ASSUME BranchInv, Attach PROVE BranchInv'
  OBVIOUS
<1> USE AttachEffect
<1>1. StagesOK'
  BY DEF BranchInv, TypeInv, TypeOK, StagesOK, Attaching, Detaching, Parts, Idle, Closures
<1>2. AwaitOK'
  <2>1. Awaited' = {} \/ ~Detaching'
    <3>1. CASE work' = Idle
      BY <3>1 DEF Detaching, Parts, Idle
    <3>2. CASE work'.id = work.id
      BY <3>2 DEF Awaited
    <3> QED
      BY <3>1, <3>2
  <2>2. work'.wait = "no"
    BY DEF Idle
  <2> QED
    BY <2>1, <2>2 DEF AwaitOK
<1>3. PartsOK'
  BY DEF BranchInv, TypeInv, TypeOK, PartsOK, Detaching, Parts, Idle, Before, Closures
<1>4. NoPadIsOrphaned'
  BY DEF BranchInv, NoPadIsOrphaned
<1>5. DetachedBranchesAreGone'
  BY DEF BranchInv, DetachedBranchesAreGone
<1> QED
  BY <1>1, <1>2, <1>3, <1>4, <1>5, AttachType DEF BranchInv

\* Handing out a closure: a pad is released, or an element without a pad stopped.
LEMMA AwaitBranch ==
    ASSUME BranchInv, Detaching, NEW job \in {"tee", "element"}, Await(job),
           job = "element" => work.pc \notin teePads[work.id],
           UNCHANGED <<parts, teePads>>
    PROVE  StagesOK' /\ AwaitOK' /\ PartsOK' /\ NoPadIsOrphaned' /\ DetachedBranchesAreGone'
<1> DEFINE c == [id |-> work.id, part |-> work.pc, job |-> job, detach |-> detaches[work.id],
                 step |-> IF job = "tee" THEN "pause" ELSE "stop"]
<1>1. closures' = closures \cup {c} /\ UNCHANGED <<detaches, entry>>
  BY DEF Await
<1>2. /\ work'.wait = job /\ work'.pc = work.pc /\ work'.id = work.id /\ work'.cause = work.cause
      /\ work.pc \in Parts
  BY DEF Await, BranchInv, TypeInv, TypeOK, Works, Detaching
<1>3. /\ work.id \in Ids /\ detaches[work.id] \in Nat /\ detaches[work.id] > 0
      /\ detaches \in [Ids -> Nat]
  BY <1>2 DEF BranchInv, TypeInv, TypeOK, ActorOK, StagesOK, Detaching, Parts
<1>4. c.id = work.id /\ c.part = work.pc /\ c.detach = detaches[work.id]
      /\ c.step = IF job = "tee" THEN "pause" ELSE "stop"
  OBVIOUS
<1> HIDE DEF c
<1>5. StagesOK'
  BY <1>1, <1>2, <1>3, <1>4 DEF BranchInv, StagesOK, Attaching, Detaching, Parts
<1>6. c \in Awaited'
  BY <1>1, <1>2, <1>4 DEF Awaited
<1>7. AwaitOK'
  BY <1>2, <1>4, <1>6 DEF AwaitOK
<1>8. PartsOK'
  BY <1>1, <1>2, <1>4 DEF BranchInv, PartsOK, Detaching
<1> QED
  BY <1>1, <1>5, <1>7, <1>8 DEF BranchInv, NoPadIsOrphaned, DetachedBranchesAreGone

\* The end of a detach: Ok only of one that has nothing left, and never Fatal
\* of one that undoes an attach.
LEMMA DetachReturnsBranch ==
    ASSUME BranchInv, Detaching, NEW result \in {"Ok", "Fatal", "Transient"}, DetachReturns(result),
           result = "Ok" => parts[work.id] = {},
           result = "Fatal" => work.cause # "undo",
           UNCHANGED <<parts, teePads, closures>>
    PROVE  StagesOK' /\ AwaitOK' /\ PartsOK' /\ NoPadIsOrphaned' /\ DetachedBranchesAreGone'
<1>1. work' = Idle /\ UNCHANGED detaches /\ work.id \in Ids /\ entry \in [Ids -> Entries]
  BY DEF DetachReturns, BranchInv, TypeInv, TypeOK, ActorOK, Detaching, Parts
<1>2. ~Attaching' /\ ~Detaching' /\ work'.cause = "none" /\ work'.wait = "no"
  BY <1>1 DEF Attaching, Detaching, Parts, Idle
<1>3. /\ \A id \in Ids \ {work.id} : entry'[id] = entry[id]
      /\ entry'[work.id] # "new"
      /\ entry'[work.id] \in {"removed", "Fatal"} => result = "Ok"
  <2>1. CASE work.cause = "undo"
    BY <1>1, <2>1 DEF DetachReturns
  <2>2. CASE work.cause # "undo"
    <3>1. entry[work.id] \in {"mapped", "dropped"}
      BY <2>2 DEF BranchInv, TypeInv, TypeOK, Works, StagesOK
    <3> QED
      BY <1>1, <2>2, <3>1 DEF DetachReturns
  <2> QED
    BY <2>1, <2>2
<1>4. StagesOK'
  BY <1>1, <1>2, <1>3 DEF BranchInv, StagesOK
<1>5. AwaitOK' /\ PartsOK' /\ NoPadIsOrphaned'
  BY <1>2 DEF BranchInv, AwaitOK, PartsOK, NoPadIsOrphaned
<1>6. \A id \in Ids : teePads[id] \subseteq parts[id]
  BY DEF BranchInv, NoPadIsOrphaned
<1>7. DetachedBranchesAreGone'
  BY <1>3, <1>6 DEF BranchInv, DetachedBranchesAreGone
<1> QED
  BY <1>4, <1>5, <1>7

\* On to the next part, when this one is gone and nothing is awaited.
LEMMA AdvanceBranch ==
    ASSUME BranchInv, Detaching, Advance, UNCHANGED <<parts, teePads, closures>>,
           work.pc \notin parts[work.id], Awaited = {}
    PROVE  StagesOK' /\ AwaitOK' /\ PartsOK' /\ NoPadIsOrphaned' /\ DetachedBranchesAreGone'
<1>0. /\ work \in Works /\ work.id \in Ids /\ parts[work.id] \subseteq Parts
      /\ Before(work.pc) \cap parts[work.id] = {}
  BY DEF BranchInv, TypeInv, TypeOK, ActorOK, PartsOK, Detaching, Parts
<1>1. CASE work.pc = "sink"
  <2>1. parts[work.id] = {}
    BY <1>0, <1>1 DEF Before, Queues, Parts
  <2>2. DetachReturns("Ok")
    BY <1>1 DEF Advance
  <2> QED
    BY <2>1, <2>2, DetachReturnsBranch
<1>2. CASE work.pc # "sink"
  <2> DEFINE next == CASE work.pc = "vqueue" -> "aqueue" [] work.pc = "aqueue" -> "decoder"
                       [] work.pc = "decoder" -> "sink"
  <2>1. work' = [work EXCEPT !.wait = "no", !.pc = next] /\ UNCHANGED <<detaches, entry>>
    BY <1>2 DEF Advance
  <2>2. work.pc \in {"vqueue", "aqueue", "decoder"}
    BY <1>2 DEF Detaching, Parts
  <2>3. next \in {"aqueue", "decoder", "sink"} /\ Before(next) = Before(work.pc) \cup {work.pc}
    BY <2>2 DEF Before, Queues
  <2> HIDE DEF next
  <2>4. work'.pc = next /\ work'.id = work.id /\ work'.cause = work.cause /\ work'.wait = "no"
    BY <1>0, <2>1 DEF Works
  <2>5. ~Attaching' /\ Detaching'
    BY <2>3, <2>4 DEF Attaching, Detaching, Parts
  <2>6. Awaited' = {}
    BY <2>1, <2>4 DEF Awaited
  <2>7. StagesOK'
    BY <2>1, <2>4, <2>5 DEF BranchInv, StagesOK
  <2>8. AwaitOK'
    BY <2>4, <2>6 DEF AwaitOK
  <2>9. PartsOK'
    BY <1>0, <2>3, <2>4 DEF BranchInv, PartsOK
  <2> QED
    BY <2>1, <2>7, <2>8, <2>9 DEF BranchInv, NoPadIsOrphaned, DetachedBranchesAreGone
<1> QED
  BY <1>1, <1>2

\* A detach keeps the branches in order.
LEMMA DetachBranch == BranchInv /\ Detach => BranchInv'
<1> SUFFICES ASSUME BranchInv, Detach
             PROVE  StagesOK' /\ AwaitOK' /\ PartsOK' /\ NoPadIsOrphaned' /\ DetachedBranchesAreGone'
  BY DetachType DEF BranchInv
<1>0. Detaching /\ UNCHANGED <<parts, teePads>>
  BY DEF Detach, FindPart, FindTee, Awoken, CutOff, branches
<1>1. AwaitOK
  BY DEF BranchInv
<1>2. CASE FindPart
  <2>1. Awaited = {}
    BY <1>0, <1>1, <1>2 DEF AwaitOK, FindPart
  <2>2. CASE work.pc \notin parts[work.id]
    BY <1>0, <1>2, <2>1, <2>2, AdvanceBranch DEF FindPart
  <2>3. CASE work.pc \in parts[work.id] \ teePads[work.id]
    BY <1>0, <1>2, <2>3, AwaitBranch DEF FindPart
  <2>4. CASE work.pc \in parts[work.id] \cap teePads[work.id]
    <3>1. work' = [work EXCEPT !.wait = "peer"] /\ UNCHANGED <<closures, detaches, entry>>
      BY <1>2, <2>4 DEF FindPart
    <3>2. /\ work'.wait = "peer" /\ work'.pc = work.pc /\ work'.id = work.id
          /\ work'.cause = work.cause
      BY <3>1 DEF BranchInv, TypeInv, TypeOK, Works
    <3>3. StagesOK' /\ PartsOK' /\ NoPadIsOrphaned' /\ DetachedBranchesAreGone'
      BY <1>0, <3>1, <3>2
      DEF BranchInv, StagesOK, PartsOK, NoPadIsOrphaned, DetachedBranchesAreGone, Attaching, Detaching
    <3>4. Awaited' = {}
      BY <2>1, <3>1, <3>2 DEF Awaited
    <3>5. AwaitOK'
      BY <1>0, <2>4, <3>2, <3>4 DEF AwaitOK
    <3> QED
      BY <3>3, <3>5
  <2> QED
    BY <2>2, <2>3, <2>4
<1>3. CASE FindTee
  <2>1. CASE work.pc \in teePads[work.id]
    BY <1>0, <1>3, <2>1, AwaitBranch DEF FindTee
  <2>2. CASE work.pc \notin teePads[work.id]
    <3>1. detaches[work.id] > 1
      BY <1>1, <1>3, <2>2 DEF AwaitOK, FindTee
    <3>2. work.cause # "undo"
      BY <3>1 DEF BranchInv, StagesOK
    <3> QED
      BY <1>0, <1>3, <2>2, <3>2, DetachReturnsBranch DEF FindTee
  <2> QED
    BY <2>1, <2>2
<1>4. CASE Awoken
  <2>1. CASE work.wait = "tee"
    <3>1. work.pc \notin teePads[work.id]
      BY <1>1, <1>4, <2>1 DEF AwaitOK, Awoken
    <3> QED
      BY <1>0, <1>4, <2>1, <3>1, AwaitBranch DEF Awoken
  <2>2. CASE work.wait = "element"
    <3>1. work.pc \notin parts[work.id] /\ Awaited = {}
      BY <1>1, <1>4, <2>2 DEF AwaitOK, Awoken
    <3> QED
      BY <1>0, <1>4, <2>2, <3>1, AdvanceBranch DEF Awoken
  <2> QED
    BY <1>4, <2>1, <2>2 DEF Awoken
<1>5. CASE CutOff
  BY <1>0, <1>5, DetachReturnsBranch DEF CutOff, branches
<1> QED
  BY <1>2, <1>3, <1>4, <1>5 DEF Detach

\* So does the beginning of either.
LEMMA CallBranch ==
    BranchInv /\ (\E id \in Ids : \/ AddBranch(id) \/ ServeEcho(id)
                                  \/ \E cause \in {"required", "dropped"} : RemoveBranch(id, cause))
    => BranchInv'
<1> SUFFICES ASSUME BranchInv, NEW id \in Ids,
                    \/ AddBranch(id) \/ ServeEcho(id)
                    \/ \E cause \in {"required", "dropped"} : RemoveBranch(id, cause)
             PROVE  StagesOK' /\ AwaitOK' /\ PartsOK' /\ NoPadIsOrphaned' /\ DetachedBranchesAreGone'
  BY CallType DEF BranchInv
<1>0. /\ entry \in [Ids -> Entries] /\ detaches \in [Ids -> Nat]
      /\ \A c \in closures : c.id \in Ids /\ c.detach \in 1..detaches[c.id]
  BY DEF BranchInv, TypeInv, TypeOK, StagesOK, Closures
<1>1. CASE AddBranch(id)
  <2>1. UNCHANGED <<parts, teePads, closures, detaches>> /\ work = Idle /\ entry[id] = "new"
    BY <1>1 DEF AddBranch, branches, Refuse
  <2>2. \/ /\ work' = Idle /\ \E e \in {"NotReady", "Transient"} : entry' = [entry EXCEPT ![id] = e]
        \/ /\ work'.pc = "pads" /\ work'.id = id /\ work'.cause = "none" /\ work'.wait = "no"
           /\ entry' = entry
    BY <1>1 DEF AddBranch, Refuse, Idle
  <2>3. work'.cause = "none" /\ work'.wait = "no" /\ ~Detaching'
    BY <2>2 DEF Idle, Detaching, Parts
  <2>4. Attaching' => work'.id = id /\ entry' = entry
    BY <2>2 DEF Idle, Attaching
  <2>5. \A i \in Ids : entry'[i] \in {"new", "removed", "Fatal"} => entry'[i] = entry[i]
    BY <1>0, <2>2
  <2>6. StagesOK'
    BY <1>0, <2>1, <2>3, <2>4, <2>5 DEF BranchInv, StagesOK, Idle
  <2> QED
    BY <2>1, <2>3, <2>5, <2>6
    DEF BranchInv, AwaitOK, PartsOK, NoPadIsOrphaned, DetachedBranchesAreGone
<1>2. ASSUME NEW cause \in {"required", "dropped", "echo"}, RemoveBranch(id, cause)
      PROVE  StagesOK' /\ AwaitOK' /\ PartsOK' /\ NoPadIsOrphaned' /\ DetachedBranchesAreGone'
  <2>1. /\ UNCHANGED <<parts, teePads, closures>> /\ work = Idle /\ entry[id] = "mapped"
        /\ detaches' = [detaches EXCEPT ![id] = @ + 1]
        /\ entry' = entry \/ entry' = [entry EXCEPT ![id] = "dropped"]
    BY <1>2 DEF RemoveBranch, branches
  <2>2. \/ work' = Idle
        \/ work'.pc = "vqueue" /\ work'.id = id /\ work'.cause = cause /\ work'.wait = "no"
    BY <1>2 DEF RemoveBranch, Idle
  <2>3. work'.wait = "no" /\ ~Attaching' /\ (Detaching' => work'.pc = "vqueue" /\ work'.id = id)
    BY <2>2 DEF Idle, Attaching, Detaching, Parts
  <2>4. work'.cause # "undo" /\ (work'.cause # "none" => work'.id = id)
        /\ (Detaching' => work'.cause # "none")
    BY <2>2 DEF Idle, Detaching, Parts
  <2>5. /\ entry'[id] \in {"mapped", "dropped"} /\ detaches'[id] = detaches[id] + 1
        /\ \A i \in Ids \ {id} : entry'[i] = entry[i] /\ detaches'[i] = detaches[i]
    BY <1>0, <2>1
  <2>6. \A c \in closures : c.detach \in 1..detaches'[c.id] /\ (c.id = id => c.detach < detaches'[id])
    BY <1>0, <2>5
  <2>7. StagesOK'
    <3>1. \A i \in Ids : entry'[i] = "new" => entry[i] = "new" /\ detaches'[i] = 0
      BY <2>1, <2>5 DEF BranchInv, StagesOK, Idle
    <3>2. Detaching' => detaches'[id] > 0
      BY <1>0, <2>5
    <3> QED
      BY <2>1, <2>3, <2>4, <2>5, <2>6, <3>1, <3>2 DEF StagesOK
  <2>8. Detaching' => Awaited' = {}
    BY <2>1, <2>3, <2>6 DEF Awaited
  <2>9. AwaitOK'
    BY <2>3, <2>8 DEF AwaitOK
  <2>10. PartsOK' /\ NoPadIsOrphaned'
    BY <2>1, <2>3 DEF BranchInv, PartsOK, NoPadIsOrphaned, Before
  <2>11. DetachedBranchesAreGone'
    BY <2>1, <2>5 DEF BranchInv, DetachedBranchesAreGone
  <2> QED
    BY <2>7, <2>9, <2>10, <2>11
<1>3. CASE ServeEcho(id) /\ ~RemoveBranch(id, "echo")
  BY <1>3
  DEF ServeEcho, actor, branches, BranchInv, StagesOK, AwaitOK, PartsOK, NoPadIsOrphaned,
      DetachedBranchesAreGone, Awaited, Attaching, Detaching
<1> QED
  BY <1>1, <1>2, <1>3

\* A closure moves on by itself: to a step of the same phase or out of the
\* set; it takes away what its phase is there to take away, and no more.
LEMMA ClosureEffect ==
    ASSUME BranchInv, NEW c \in closures, Closure(c)
    PROVE  /\ UNCHANGED <<work, detaches, entry>> /\ c.id \in Ids
           /\ \A e \in closures' : \E d \in closures :
                 /\ e.id = d.id /\ e.part = d.part /\ e.detach = d.detach
                 /\ e.step \in {"stop", "stopping", "remove"} => d.step \in {"stop", "stopping", "remove"}
           /\ \A d \in closures \ {c} : d \in closures'
           /\ \A id \in Ids : parts'[id] \subseteq parts[id] /\ teePads'[id] \subseteq teePads[id]
           /\ \A id \in Ids :
                 /\ \A q \in teePads[id] \ teePads'[id] : id = c.id /\ q = c.part
                 /\ \A p \in parts[id] \ parts'[id] : id = c.id /\ p = c.part /\ c.step = "remove"
           /\ c.step = "release" => c.part \notin teePads'[c.id]
           /\ c.step = "remove" => c.part \notin parts'[c.id]
           /\ c.step \notin {"resume", "remove"} =>
                 \E e \in closures' :
                    /\ e.id = c.id /\ e.part = c.part /\ e.detach = c.detach
                    /\ c.step = "pause" => e.step = "release"
                    /\ c.step \in {"stop", "stopping"} => e.step \in {"stopping", "remove"}
<1>1. /\ UNCHANGED <<work, detaches, entry>> /\ c.id \in Ids
      /\ parts \in [Ids -> SUBSET Parts] /\ teePads \in [Ids -> SUBSET Queues]
      /\ c \in Closures
  BY DEF Closure, actor, BranchInv, TypeInv, TypeOK, Closures
<1>2. ASSUME NEW step, Step(c, step)
      PROVE  \E d : /\ closures' = (closures \ {c}) \cup {d}
                    /\ d.id = c.id /\ d.part = c.part /\ d.detach = c.detach /\ d.step = step
  <2> DEFINE d == [c EXCEPT !.step = step]
  <2>1. d.id = c.id /\ d.part = c.part /\ d.detach = c.detach /\ d.step = step
    BY <1>1 DEF Closures
  <2> HIDE DEF d
  <2>2. closures' = (closures \ {c}) \cup {d}
    BY <1>2 DEF Step, d
  <2> QED
    BY <2>1, <2>2
<1>3. CASE TeePauses(c)
  <2>1. c.step = "pause" /\ UNCHANGED <<parts, teePads>>
    BY <1>3 DEF TeePauses
  <2>2. PICK d : /\ closures' = (closures \ {c}) \cup {d}
                 /\ d.id = c.id /\ d.part = c.part /\ d.detach = c.detach /\ d.step = "release"
    BY <1>2, <1>3 DEF TeePauses
  <2> QED
    BY <1>1, <2>1, <2>2
<1>4. CASE PadReleased(c)
  <2>1. c.step = "release" /\ UNCHANGED parts /\ teePads' = [teePads EXCEPT ![c.id] = @ \ {c.part}]
    BY <1>4 DEF PadReleased
  <2>2. PICK d : /\ closures' = (closures \ {c}) \cup {d}
                 /\ d.id = c.id /\ d.part = c.part /\ d.detach = c.detach /\ d.step = "resume"
    BY <1>2, <1>4 DEF PadReleased
  <2>3. /\ teePads'[c.id] = teePads[c.id] \ {c.part}
        /\ \A id \in Ids \ {c.id} : teePads'[id] = teePads[id]
    BY <1>1, <2>1
  <2> QED
    BY <1>1, <2>1, <2>2, <2>3
<1>5. CASE TeeResumes(c)
  BY <1>1, <1>5 DEF TeeResumes
<1>6. CASE ElementStops(c)
  <2>1. c.step = "stop" /\ UNCHANGED <<parts, teePads>>
    BY <1>6 DEF ElementStops
  <2>2. PICK d : /\ closures' = (closures \ {c}) \cup {d}
                 /\ d.id = c.id /\ d.part = c.part /\ d.detach = c.detach /\ d.step = "stopping"
    BY <1>2, <1>6 DEF ElementStops
  <2> QED
    BY <1>1, <2>1, <2>2
<1>7. CASE ElementStopped(c)
  <2>1. c.step = "stopping" /\ UNCHANGED <<parts, teePads>>
    BY <1>7 DEF ElementStopped
  <2>2. PICK d : /\ closures' = (closures \ {c}) \cup {d}
                 /\ d.id = c.id /\ d.part = c.part /\ d.detach = c.detach /\ d.step = "remove"
    BY <1>2, <1>7 DEF ElementStopped
  <2> QED
    BY <1>1, <2>1, <2>2
<1>8. CASE ElementRemoved(c)
  <2>1. /\ c.step = "remove" /\ closures' = closures \ {c} /\ UNCHANGED teePads
        /\ parts' = [parts EXCEPT ![c.id] = @ \ {c.part}]
    BY <1>8 DEF ElementRemoved
  <2>2. /\ parts'[c.id] = parts[c.id] \ {c.part}
        /\ \A id \in Ids \ {c.id} : parts'[id] = parts[id]
    BY <1>1, <2>1
  <2> QED
    BY <1>1, <2>1, <2>2
<1> QED
  BY <1>3, <1>4, <1>5, <1>6, <1>7, <1>8 DEF Closure

\* The closures keep the branches in order, whatever detach they are of.
LEMMA ClosureBranch == ASSUME BranchInv, NEW c \in closures, Closure(c) PROVE BranchInv'
<1> USE ClosureEffect
<1>0. work' = work /\ detaches' = detaches /\ entry' = entry
  OBVIOUS
<1>1. /\ work.id \in Ids \/ ~(Detaching \/ Attaching)
      /\ \A d \in closures : d.id \in Ids /\ d.step \in {"pause", "release", "resume", "stop", "stopping", "remove"}
      /\ \A d \in closures : d.detach \in 1..detaches[d.id]
      /\ detaches \in [Ids -> Nat]
  BY DEF BranchInv, TypeInv, TypeOK, ActorOK, StagesOK, Detaching, Attaching, Parts, Closures
<1>2. StagesOK'
  BY <1>0 DEF BranchInv, StagesOK, Attaching, Detaching
<1>3. AwaitOK'
  <2>1. Awaited = {} => Awaited' = {}
    BY <1>0 DEF Awaited
  <2>2. work.wait = "peer" => work.pc \in teePads'[work.id] \/ detaches[work.id] > 1
    <3>1. SUFFICES ASSUME work.wait = "peer", work.pc \in teePads[work.id] \ teePads'[work.id]
                   PROVE  detaches[work.id] > 1
      BY DEF BranchInv, AwaitOK
    <3>2. Detaching /\ Awaited = {} /\ work.id \in Ids
      BY <1>1, <3>1 DEF BranchInv, TypeInv, ActorOK, AwaitOK
    <3>3. c.id = work.id /\ c.detach # detaches[work.id]
      BY <3>1, <3>2 DEF Awaited
    <3> QED
      BY <1>1, <3>2, <3>3
  <2>3. ASSUME work.wait = "tee", work.pc \in teePads'[work.id]
        PROVE  \E e \in Awaited' : e.part = work.pc /\ e.step \in {"pause", "release"}
    <3>1. work.id \in Ids /\ work.pc \in teePads[work.id]
      BY <1>1, <2>3 DEF BranchInv, TypeInv, ActorOK
    <3>2. PICK d \in Awaited : d.part = work.pc /\ d.step \in {"pause", "release"}
      BY <2>3, <3>1 DEF BranchInv, AwaitOK
    <3>3. CASE d # c
      BY <1>0, <3>2, <3>3 DEF Awaited
    <3>4. CASE d = c
      BY <1>0, <2>3, <3>2, <3>4 DEF Awaited
    <3> QED
      BY <3>3, <3>4
  <2>4. ASSUME work.wait = "element", work.pc \in parts'[work.id]
        PROVE  \E e \in Awaited' : e.part = work.pc /\ e.step \in {"stop", "stopping", "remove"}
    <3>1. work.id \in Ids /\ work.pc \in parts[work.id]
      BY <1>1, <2>4 DEF BranchInv, TypeInv, ActorOK
    <3>2. PICK d \in Awaited : d.part = work.pc /\ d.step \in {"stop", "stopping", "remove"}
      BY <2>4, <3>1 DEF BranchInv, AwaitOK
    <3>3. CASE d # c
      BY <1>0, <3>2, <3>3 DEF Awaited
    <3>4. CASE d = c
      BY <1>0, <2>4, <3>2, <3>4 DEF Awaited
    <3> QED
      BY <3>3, <3>4
  <2> QED
    BY <1>0, <2>1, <2>2, <2>3, <2>4 DEF BranchInv, AwaitOK, Detaching
<1>4. PartsOK'
  BY <1>0, <1>1 DEF BranchInv, PartsOK, Detaching
<1>5. NoPadIsOrphaned'
  BY <1>1 DEF BranchInv, PartsOK, NoPadIsOrphaned
<1>6. DetachedBranchesAreGone'
  BY <1>0 DEF BranchInv, DetachedBranchesAreGone
<1> QED
  BY <1>2, <1>3, <1>4, <1>5, <1>6, ClosureType DEF BranchInv

\* Every step keeps the branches in order.
LEMMA NextBranch == BranchInv /\ [Next]_vars => BranchInv'
<1> SUFFICES ASSUME BranchInv, [Next]_vars PROVE BranchInv'
  OBVIOUS
<1>1. CASE Actor
  BY <1>1, AttachBranch, DetachBranch, CallBranch DEF Actor
<1>2. CASE \E c \in closures : Closure(c)
  BY <1>2, ClosureBranch
<1>3. ASSUME NEW id \in Ids, SinkLeaves(id) PROVE BranchInv'
  <2>1. /\ UNCHANGED <<teePads, closures, work, detaches, entry>>
        /\ parts' = [parts EXCEPT ![id] = @ \ {"sink"}]
    BY <1>3 DEF SinkLeaves, actor
  <2>2. /\ parts'[id] = parts[id] \ {"sink"} /\ \A i \in Ids \ {id} : parts'[i] = parts[i]
        /\ \A i \in Ids : "sink" \notin teePads[i]
        /\ work.id \in Ids \/ ~Detaching
        /\ work.wait # "no" => Detaching
    BY <2>1 DEF BranchInv, TypeInv, TypeOK, ActorOK, Detaching, Parts, Queues
  <2>3. StagesOK' /\ AwaitOK'
    BY <2>1, <2>2 DEF BranchInv, StagesOK, AwaitOK, Awaited, Attaching, Detaching
  <2>4. PartsOK' /\ NoPadIsOrphaned' /\ DetachedBranchesAreGone'
    BY <2>1, <2>2
    DEF BranchInv, PartsOK, NoPadIsOrphaned, DetachedBranchesAreGone, Detaching
  <2> QED
    BY <2>3, <2>4, NextType DEF BranchInv
<1>4. CASE Demuxer \/ Bus \/ PipelineStored \/ CleanUp \/ UNCHANGED vars
  <2>1. UNCHANGED <<parts, teePads, closures, work, detaches, entry>>
    BY <1>4 DEF Demuxer, PadAdded, CapsSet, PadRemoved, NoMorePads, LinkPad, Bus, ReadError,
                PipelineStored, CleanUp,
                vars, branches, actor
  <2>2. UNCHANGED <<Awaited, Attaching, Detaching>>
    BY <2>1 DEF Awaited, Attaching, Detaching
  <2> QED
    BY <2>1, <2>2, NextType
    DEF BranchInv, StagesOK, AwaitOK, PartsOK, NoPadIsOrphaned, DetachedBranchesAreGone
<1> QED
  BY <1>1, <1>2, <1>3, <1>4 DEF Next

(***************************************************************************)
(* No element leaves the pipeline while its tee has a pad for it, for any  *)
(* number of viewers whose detaches are cut off and begun again            *)
(* (src/stream/branch.rs:257-341).                                         *)
(***************************************************************************)
THEOREM NoPadOrphaned == Spec => []NoPadIsOrphaned
<1>1. BranchInv => NoPadIsOrphaned
  BY DEF BranchInv
<1> QED
  BY <1>1, InitBranch, NextBranch, PTL DEF Spec

(***************************************************************************)
(* A detach that returned Ok, and an attach that failed for good, leave    *)
(* neither an element nor a tee pad, from whichever stage the attach got   *)
(* to (src/stream/branch.rs:178-181).                                      *)
(***************************************************************************)
THEOREM DetachedGone == Spec => []DetachedBranchesAreGone
<1>1. BranchInv => DetachedBranchesAreGone
  BY DEF BranchInv
<1> QED
  BY <1>1, InitBranch, NextBranch, PTL DEF Spec

(***************************************************************************)
(* A detach fails for good only where an earlier one of the same viewer    *)
(* was cut off (src/stream/branch.rs:266-281).                             *)
(***************************************************************************)
THEOREM RetriesFail == Spec => OnlyRetriesFailForGood
<1>1. BranchInv /\ [Next]_vars => [work.wait = "peer" /\ work' = Idle => detaches[work.id] > 1]_work
  <2> SUFFICES ASSUME BranchInv, [Next]_vars, work.wait = "peer", work' = Idle, work' # work
               PROVE  detaches[work.id] > 1
    OBVIOUS
  <2>1. Detaching /\ work # Idle
    BY DEF BranchInv, TypeInv, ActorOK, Detaching, Parts, Idle
  <2>2. FindTee
    BY <2>1
    DEF Next, Actor, Attach, Detach, ReadPads, CheckTees, AttachSink, AttachMedia, AttachSync,
        FindPart, Awoken, CutOff, AddBranch, ServeEcho, RemoveBranch, Demuxer, PadAdded, CapsSet,
        PadRemoved, NoMorePads, LinkPad, Bus, ReadError, PipelineStored, CleanUp, Closure, SinkLeaves, vars, actor, Detaching,
        Parts, Kinds
  <2>3. work.pc \notin teePads[work.id]
    <3>1. CASE Await("tee")
      BY <3>1, <2>1 DEF Await, BranchInv, TypeInv, TypeOK, Works, Idle
    <3> QED
      BY <2>2, <3>1 DEF FindTee
  <2> QED
    BY <2>3 DEF BranchInv, AwaitOK
<1> QED
  BY <1>1, InitBranch, NextBranch, PTL DEF Spec, OnlyRetriesFailForGood

-----------------------------------------------------------------------------
(***************************************************************************)
(* What add_branch saw of the input keeps its tees while it attaches, and  *)
(* by the end of it the branch hangs on the tees of all that is left of it.*)
(***************************************************************************)
Hangs(k) == \A i \in work.seen \cap There : pads[i].kind = k => Queue[k] \in teePads[work.id]

SeenOK ==
    /\ Attaching /\ work.pc # "pads" =>
          work.seen # {} /\ work.seen \subseteq 1..Len(pads) /\ KindsOf(work.seen) \subseteq Kinds
    /\ Attaching /\ work.pc \notin {"pads", "tees"} => KindsOf(work.seen) \subseteq tees
    /\ work.pc \in {"audio", "sync"} => Hangs("video")
    /\ work.pc = "sync" => Hangs("audio")
    /\ Attaching => work.error = "none"

SeenInv == BranchInv /\ SeenOK

\* The demuxer adds to the pads that were seen and their tees, or removes pads.
LEMMA DemuxerSeen == SeenInv /\ Demuxer => SeenOK'
<1> SUFFICES ASSUME SeenInv, Demuxer PROVE SeenOK'
  OBVIOUS
<1>1. UNCHANGED <<work, teePads>>
  BY DEF Demuxer, PadAdded, CapsSet, PadRemoved, NoMorePads, LinkPad, branches, actor
<1>2. /\ Len(pads) \in Nat /\ Len(pads) <= Len(pads') /\ Len(pads') \in Nat /\ tees \subseteq tees'
      /\ \A i \in 1..Len(pads) : /\ i \in 1..Len(pads') /\ pads'[i].kind = pads[i].kind
                                 /\ i \in There' => i \in There
  BY PadsGrow, InputTypes DEF SeenInv, BranchInv
<1>3. UNCHANGED Attaching
  BY <1>1 DEF Attaching
<1>4. ASSUME Attaching, work.pc # "pads"
      PROVE  /\ work'.seen # {} /\ work'.seen \subseteq 1..Len(pads')
             /\ KindsOf(work.seen)' = KindsOf(work.seen)
             /\ \A k : Hangs(k) => Hangs(k)'
  <2>1. work.seen # {} /\ work.seen \subseteq 1..Len(pads)
    BY <1>4 DEF SeenInv, SeenOK
  <2>2. KindsOf(work.seen)' = KindsOf(work.seen)
    BY <1>1, <1>2, <2>1 DEF KindsOf
  <2>3. \A k : Hangs(k) => Hangs(k)'
    BY <1>1, <1>2, <2>1 DEF Hangs
  <2> QED
    BY <1>1, <1>2, <2>1, <2>2, <2>3
<1>5. work.pc \in {"audio", "sync"} => Attaching
  BY DEF Attaching
<1>6. SUFFICES ASSUME Attaching PROVE SeenOK'
  BY <1>1, <1>3, <1>5 DEF SeenOK
<1>7. CASE work.pc = "pads"
  BY <1>1, <1>3, <1>7 DEF SeenInv, SeenOK
<1>8. CASE work.pc # "pads"
  <2>1. KindsOf(work.seen) \subseteq Kinds /\ work.error = "none"
        /\ (work.pc # "tees" => KindsOf(work.seen) \subseteq tees)
        /\ (work.pc \in {"audio", "sync"} => Hangs("video")) /\ (work.pc = "sync" => Hangs("audio"))
    BY <1>6, <1>8 DEF SeenInv, SeenOK
  <2> HIDE DEF SeenInv, Attaching
  <2> QED
    BY <1>1, <1>2, <1>4, <1>6, <1>8, <2>1 DEF SeenOK
<1> QED
  BY <1>7, <1>8

\* An attach acts on what it saw.
LEMMA AttachSeen == SeenInv /\ Attach => SeenOK'
<1> SUFFICES ASSUME SeenInv, Attach PROVE SeenOK'
  OBVIOUS
<1>1. Attaching /\ work.id \in Ids /\ work \in Works /\ work.error = "none"
      /\ teePads \in [Ids -> SUBSET Queues]
  BY AttachEffect DEF SeenInv, SeenOK, BranchInv, TypeInv, TypeOK
<1>2. UNCHANGED <<pads, tees>>
  BY DEF Attach, ReadPads, CheckTees, AttachSink, AttachMedia, AttachSync, input
<1>3. There' = There
  BY <1>2 DEF There
<1>4. ASSUME NEW error, Refuse(work.id, error) PROVE SeenOK'
  BY <1>4 DEF Refuse, SeenOK, Attaching, Idle
<1>5. ASSUME NEW error, AttachFails(error) PROVE SeenOK'
  <2>1. work'.pc = "vqueue"
    BY <1>1, <1>5 DEF AttachFails, Works
  <2> QED
    BY <2>1 DEF SeenOK, Attaching
\* On to the next stage, with the pads that were seen.
<1>6. ASSUME NEW pc, work' = [work EXCEPT !.pc = pc]
      PROVE  /\ work'.pc = pc /\ work'.seen = work.seen /\ work'.error = "none" /\ work'.id = work.id
             /\ KindsOf(work.seen)' = KindsOf(work.seen)
  <2>1. work'.pc = pc /\ work'.seen = work.seen /\ work'.error = "none" /\ work'.id = work.id
    BY <1>1, <1>6 DEF Works
  <2> QED
    BY <1>2, <2>1 DEF KindsOf
<1>7. CASE ReadPads
  <2>1. CASE ~Refuse(work.id, "NotReady")
    <3>1. PadKinds # {} /\ work' = [work EXCEPT !.pc = "tees", !.seen = MediaPads]
      BY <1>7, <2>1 DEF ReadPads
    <3>2. work'.pc = "tees" /\ work'.seen = MediaPads /\ work'.error = "none"
      BY <1>1, <3>1 DEF Works
    <3>3. MediaPads # {} /\ MediaPads \subseteq 1..Len(pads) /\ KindsOf(MediaPads) \subseteq Kinds
      BY <3>1 DEF PadKinds, KindsOf, MediaPads, There
    <3>4. KindsOf(work.seen)' = KindsOf(MediaPads)
      BY <1>2, <3>2 DEF KindsOf
    <3> QED
      BY <1>2, <3>2, <3>3, <3>4 DEF SeenOK
  <2> QED
    BY <1>4, <2>1
<1>8. work.pc # "pads" =>
        work.seen # {} /\ work.seen \subseteq 1..Len(pads) /\ KindsOf(work.seen) \subseteq Kinds
  BY <1>1 DEF SeenInv, SeenOK
<1>9. work.pc \notin {"pads", "tees"} => KindsOf(work.seen) \subseteq tees
  BY <1>1 DEF SeenInv, SeenOK
<1>10. CASE CheckTees
  <2>1. CASE ~Refuse(work.id, "NotReady")
    <3>1. work.pc = "tees" /\ KindsOf(work.seen) \subseteq tees /\ work' = [work EXCEPT !.pc = "attachSink"]
      BY <1>10, <2>1 DEF CheckTees
    <3> QED
      BY <1>2, <1>6, <1>8, <3>1 DEF SeenOK
  <2> QED
    BY <1>4, <2>1
<1>11. CASE AttachSink
  <2>1. CASE ~AttachFails("element")
    <3>1. work.pc = "attachSink" /\ work' = [work EXCEPT !.pc = "video"]
      BY <1>11, <2>1 DEF AttachSink
    <3> QED
      BY <1>2, <1>6, <1>8, <1>9, <3>1 DEF SeenOK
  <2> QED
    BY <1>5, <2>1
<1>12. ASSUME NEW k \in Kinds, AttachMedia(k) PROVE SeenOK'
  <2>1. work.pc = k /\ k \in {"video", "audio"}
    BY <1>12 DEF AttachMedia, Kinds
  <2>2. CASE /\ work' = [work EXCEPT !.pc = IF k = "video" THEN "audio" ELSE "sync"]
             /\ k \in PadKinds => Queue[k] \in teePads'[work.id]
             /\ teePads[work.id] \subseteq teePads'[work.id]
    <3>1. Hangs(k)'
      <4>1. SUFFICES ASSUME NEW i \in work.seen \cap There, pads[i].kind = k
                     PROVE  Queue[k] \in teePads'[work.id]
        BY <1>2, <1>3, <1>6, <2>2 DEF Hangs
      <4>2. k \in PadKinds
        BY <2>1, <4>1 DEF PadKinds, KindsOf, MediaPads, Kinds
      <4> QED
        BY <2>2, <4>2
    <3>2. \A q : Hangs(q) => Hangs(q)'
      BY <1>2, <1>3, <1>6, <2>2 DEF Hangs
    <3>3. k = "audio" => Hangs("video")
      BY <2>1 DEF SeenInv, SeenOK
    <3> QED
      BY <1>2, <1>6, <1>8, <1>9, <2>1, <2>2, <3>1, <3>2, <3>3 DEF SeenOK
  <2>3. CASE k \notin PadKinds
    BY <1>12, <2>2, <2>3 DEF AttachMedia
  <2>4. CASE k \in PadKinds \ tees
    BY <1>5, <1>12, <2>4 DEF AttachMedia
  <2>5. CASE k \in PadKinds \cap tees /\ ~AttachFails("element")
    <3>1. PICK n \in 0..Len(Elements(k)), linked \in BOOLEAN :
            /\ linked
            /\ teePads' = [teePads EXCEPT ![work.id] = IF linked THEN @ \cup {Queue[k]} ELSE @]
            /\ work' = [work EXCEPT !.pc = IF k = "video" THEN "audio" ELSE "sync"]
      BY <1>12, <2>5 DEF AttachMedia
    <3>2. teePads'[work.id] = teePads[work.id] \cup {Queue[k]}
      BY <1>1, <3>1
    <3> QED
      BY <2>2, <3>1, <3>2
  <2> QED
    BY <1>5, <2>3, <2>4, <2>5
<1>13. CASE AttachSync
  <2>1. CASE ~AttachFails("element")
    BY <1>13, <2>1 DEF AttachSync, SeenOK, Attaching, Idle
  <2> QED
    BY <1>5, <2>1
<1> QED
  BY <1>7, <1>10, <1>11, <1>12, <1>13 DEF Attach

\* Every step keeps what was seen.
LEMMA NextSeen == SeenInv /\ [Next]_vars => SeenInv'
<1> SUFFICES ASSUME SeenInv, [Next]_vars PROVE SeenOK'
  BY NextBranch DEF SeenInv
<1>0. /\ work \in Works /\ TypeInv /\ entry \in [Ids -> Entries] /\ detaches \in [Ids -> Nat]
  BY DEF SeenInv, BranchInv, TypeInv, TypeOK
<1>1. ASSUME work'.pc \in Parts \cup {"idle", "pads"}, Attaching' => work'.error = "none" PROVE SeenOK'
  BY <1>1 DEF SeenOK, Attaching, Parts
<1>2. CASE Demuxer
  BY <1>2, DemuxerSeen
<1>3. CASE Attach
  BY <1>3, AttachSeen
<1>4. CASE Detach
  <2>1. Detaching
    BY <1>4
    DEF SeenInv, BranchInv, TypeInv, ActorOK, Detaching, Parts, Detach, FindPart, FindTee,
        Awoken, CutOff
  <2>2. ASSUME NEW job, Await(job) PROVE work'.pc = work.pc
    BY <1>0, <2>2 DEF Await, Works
  <2>3. ASSUME Advance PROVE work' = Idle \/ work'.pc \in Parts
    <3>1. work' = Idle \/ \E pc \in Parts : work' = [work EXCEPT !.wait = "no", !.pc = pc]
      BY <2>1, <2>3 DEF Advance, DetachReturns, Detaching, Parts
    <3> QED
      BY <1>0, <3>1 DEF Works
  <2>4. work' = [work EXCEPT !.wait = "peer"] => work'.pc = work.pc
    BY <1>0 DEF Works
  <2>5. work' = Idle \/ work'.pc \in Parts
    BY <1>4, <2>1, <2>2, <2>3, <2>4
    DEF Detach, FindPart, FindTee, Awoken, CutOff, DetachReturns, Detaching
  <2> QED
    BY <2>5 DEF SeenOK, Attaching, Parts, Idle
<1>5. ASSUME NEW id \in Ids, AddBranch(id) PROVE SeenOK'
  <2>1. work' = Idle \/ work' = [Idle EXCEPT !.pc = "pads", !.id = id]
    BY <1>5 DEF AddBranch, Refuse
  <2>2. work'.pc \in {"idle", "pads"} /\ work'.error = "none"
    <3>1. CASE work' = Idle
      BY <3>1 DEF Idle
    <3>2. CASE work' = [Idle EXCEPT !.pc = "pads", !.id = id]
      BY <3>2 DEF Idle
    <3> QED
      BY <2>1, <3>1, <3>2
  <2> QED
    BY <1>1, <2>2
<1>6. ASSUME NEW id \in Ids, NEW cause, RemoveBranch(id, cause) PROVE SeenOK'
  <2>1. work' = Idle \/ work' = [Idle EXCEPT !.pc = "vqueue", !.id = id, !.cause = cause]
    BY <1>6 DEF RemoveBranch
  <2>2. work'.pc \in {"idle", "vqueue"} /\ work'.error = "none"
    <3>1. CASE work' = Idle
      BY <3>1 DEF Idle
    <3>2. CASE work' = [Idle EXCEPT !.pc = "vqueue", !.id = id, !.cause = cause]
      BY <3>2 DEF Idle
    <3> QED
      BY <2>1, <3>1, <3>2
  <2> QED
    BY <1>1, <2>2 DEF Parts
<1>7. ASSUME UNCHANGED <<pads, tees, work>>, Attaching => teePads[work.id] \subseteq teePads'[work.id]
      PROVE  SeenOK'
  <2>1. There' = There /\ KindsOf(work.seen)' = KindsOf(work.seen) /\ Attaching' = Attaching
    BY <1>7 DEF There, KindsOf, Attaching
  <2>2. Attaching => \A k : Hangs(k) => Hangs(k)'
    BY <1>7, <2>1 DEF Hangs
  <2>3. work.pc \in {"audio", "sync"} => Attaching
    BY DEF Attaching
  <2> QED
    BY <1>7, <2>1, <2>2, <2>3 DEF SeenInv, SeenOK
<1>8. ASSUME NEW c \in closures, Closure(c) PROVE SeenOK'
  <2>1. /\ UNCHANGED <<pads, tees, work, detaches, entry>> /\ c.id \in Ids
        /\ \A id \in Ids : \A q \in teePads[id] \ teePads'[id] : id = c.id
    BY <1>8, ClosureEffect DEF SeenInv, Closure, input
  <2>2. detaches[c.id] # 0
    BY <1>0, <1>8, <2>1 DEF SeenInv, BranchInv, StagesOK
  <2>3. Attaching => c.id # work.id /\ work.id \in Ids
    BY <1>0, <2>2 DEF SeenInv, BranchInv, StagesOK, TypeInv, ActorOK, Attaching
  <2> QED
    BY <1>7, <2>1, <2>3
<1>9. CASE \/ Bus \/ PipelineStored \/ CleanUp \/ UNCHANGED vars
           \/ \E id \in Ids : SinkLeaves(id) \/ (ServeEcho(id) /\ ~RemoveBranch(id, "echo"))
  <2>1. UNCHANGED <<pads, tees, work, teePads>>
    BY <1>9 DEF Bus, ReadError, PipelineStored, CleanUp, vars, SinkLeaves, ServeEcho, input, branches,
                actor
  <2> QED
    BY <1>7, <2>1
<1> QED
  BY <1>2, <1>3, <1>4, <1>5, <1>6, <1>8, <1>9 DEF Next, Actor

\* In the initial state nothing has been seen.
LEMMA InitSeen == Init => SeenInv
  BY InitBranch DEF Init, SeenInv, SeenOK, Attaching, Idle

\* Only the actor changes what it is in.
LEMMA OthersLeaveActor == [Next]_vars /\ ~Actor => UNCHANGED actor
  BY DEF Next, Demuxer, PadAdded, CapsSet, PadRemoved, NoMorePads, LinkPad, Bus, ReadError,
         PipelineStored, CleanUp, Closure, SinkLeaves, vars

\* Only the end of an attach maps a viewer.
LEMMA MappedBySync ==
    ASSUME SeenInv, [Next]_vars, NEW id \in Ids, Maps(id)
    PROVE  work.pc = "sync" /\ work.id = id
<1>1. /\ entry \in [Ids -> Entries] /\ entry[id] = "new" /\ entry'[id] = "mapped" /\ entry' # entry
      /\ work.cause \in {"required", "dropped", "echo"} => entry[work.id] # "new"
      /\ work.cause # "none" \/ ~Detaching
  BY DEF Maps, SeenInv, BranchInv, TypeInv, TypeOK, StagesOK
<1>2. Actor
  BY <1>1, OthersLeaveActor DEF actor
<1>3. \A i \in Ids : ~AddBranch(i) /\ ~ServeEcho(i) /\ \A cause : ~RemoveBranch(i, cause)
  BY <1>1 DEF AddBranch, Refuse, ServeEcho, RemoveBranch, actor
<1>4. ~Detach
  BY <1>1 DEF Detach, FindPart, FindTee, Awoken, CutOff, Await, Advance, DetachReturns
<1>5. Attach
  BY <1>2, <1>3, <1>4 DEF Actor
<1>6. work.id = id
  BY <1>1, <1>5, AttachEffect DEF SeenInv
<1> QED
  BY <1>1, <1>5, <1>6
  DEF Attach, ReadPads, CheckTees, Refuse, AttachSink, AttachMedia, AttachFails, AttachSync

(***************************************************************************)
(* A viewer that is told to wait for an offer gets every medium that       *)
(* add_branch saw when it checked the input, but for pads that the demuxer *)
(* removed since; and it saw one: for any order of pads, walks and         *)
(* attaches (src/stream/branch.rs:111-169).                                *)
(***************************************************************************)
THEOREM MappedHang == Spec => MappedBranchesHangOnTees
<1>1. ASSUME SeenInv, [Next]_vars, NEW id \in Ids, Maps(id)
      PROVE  /\ work.seen # {}
             /\ \A i \in work.seen \cap There : Queue[pads[i].kind] \in teePads[id]
  <2>1. work.pc = "sync" /\ work.id = id
    BY <1>1, MappedBySync
  <2>2. work.seen # {} /\ KindsOf(work.seen) \subseteq Kinds /\ Hangs("video") /\ Hangs("audio")
    BY <1>1, <2>1 DEF SeenInv, SeenOK, Attaching
  <2>3. \A i \in work.seen : pads[i].kind \in {"video", "audio"}
    BY <2>2 DEF KindsOf, Kinds
  <2> QED
    BY <2>1, <2>2, <2>3 DEF Hangs
<1>2. SeenInv /\ [Next]_vars =>
        [\A id \in Ids : Maps(id) =>
            /\ work.seen # {}
            /\ \A i \in work.seen \cap There : Queue[pads[i].kind] \in teePads[id]]_vars
  BY <1>1
<1> QED
  BY <1>2, InitSeen, NextSeen, PTL DEF Spec, MappedBranchesHangOnTees

(***************************************************************************)
(* An attach fails for want of a tee only because of a pad that came       *)
(* between the check and the attach, of a medium the check had not seen    *)
(* (src/stream/gst_pipeline.rs:65-76, branch.rs:111-151).                  *)
(***************************************************************************)
THEOREM NewPadsLackTees == Spec => OnlyNewPadsLackTees
<1>1. ASSUME SeenInv, [Next]_vars, work'.error = "tee", work.error # "tee"
      PROVE  \E i \in MediaPads \ work.seen : pads[i].kind \notin KindsOf(work.seen) \cup tees
  <2>0. work \in Works /\ Idle.error = "none"
    BY <1>1 DEF SeenInv, BranchInv, TypeInv, TypeOK, Idle
  <2>1. work' # work /\ work' # Idle
    <3>1. CASE work' = Idle
      BY <1>1, <3>1 DEF Idle
    <3> QED
      BY <1>1, <3>1
  <2>2. Actor
    BY <1>1, <2>1, OthersLeaveActor DEF actor
  <2>3. \A id \in Ids : ~AddBranch(id) /\ ~ServeEcho(id) /\ \A cause : ~RemoveBranch(id, cause)
    <3>1. \A id : work' # [Idle EXCEPT !.pc = "pads", !.id = id]
      BY <1>1 DEF Idle
    <3>2. \A id, cause : work' # [Idle EXCEPT !.pc = "vqueue", !.id = id, !.cause = cause]
      BY <1>1 DEF Idle
    <3> QED
      BY <2>1, <3>1, <3>2 DEF AddBranch, Refuse, ServeEcho, RemoveBranch, actor
  <2>4. ~Detach
    <3>1. \A wait, pc : work' # [work EXCEPT !.wait = wait] /\ work' # [work EXCEPT !.wait = wait, !.pc = pc]
      BY <1>1, <2>0 DEF Works
    <3> QED
      BY <2>1, <3>1 DEF Detach, FindPart, FindTee, Awoken, CutOff, Await, Advance, DetachReturns
  <2>5. \A pc, seen : work' # [work EXCEPT !.pc = pc] /\ work' # [work EXCEPT !.pc = pc, !.seen = seen]
    BY <1>1, <2>0 DEF Works
  <2>6. ~AttachFails("element")
    BY <1>1, <2>0 DEF AttachFails, Works
  <2>7. PICK k \in Kinds : AttachMedia(k)
    BY <2>1, <2>2, <2>3, <2>4, <2>5, <2>6
    DEF Actor, Attach, ReadPads, CheckTees, Refuse, AttachSink, AttachSync
  <2>8. k \in PadKinds \ tees /\ work.pc = k
    BY <2>5, <2>6, <2>7 DEF AttachMedia
  <2>9. KindsOf(work.seen) \subseteq tees
    BY <1>1, <2>8 DEF SeenInv, SeenOK, Attaching, Kinds
  <2>10. PICK i \in MediaPads : pads[i].kind = k
    BY <2>8 DEF PadKinds, KindsOf
  <2>11. i \notin work.seen
    BY <2>8, <2>9, <2>10 DEF KindsOf
  <2> QED
    BY <2>8, <2>9, <2>10, <2>11
<1>2. SeenInv /\ [Next]_vars =>
        [work'.error = "tee" /\ work.error # "tee" =>
            \E i \in MediaPads \ work.seen : pads[i].kind \notin KindsOf(work.seen) \cup tees]_vars
  BY <1>1
<1> QED
  BY <1>2, InitSeen, NextSeen, PTL DEF Spec, OnlyNewPadsLackTees

-----------------------------------------------------------------------------
(***************************************************************************)
(* The refinement of BranchCycle, for each viewer.  It needs to know that  *)
(* an attach is within the run and starts from nothing, and that nothing   *)
(* is built, and no viewer answered Ok, before the pipeline is stored.     *)
(***************************************************************************)
BuiltOK ==
    /\ Attaching => Stored
    /\ handle = "none" => \A id \in Ids : parts[id] = {} /\ entry[id] # "mapped"
    /\ \A id \in Ids :
          entry[id] = "new" /\ (work.id = id => work.pc \in {"pads", "tees", "attachSink"}) => parts[id] = {}
    /\ work.pc \in {"video", "audio", "sync"} => parts[work.id] # {}

CycleInv == SeenInv /\ BuiltOK

BranchStep(id) == Branch(id)!Next \/ UNCHANGED Branch(id)!vars

\* Where the cycle stands, in truth values.
ThereFor(id) == Stored /\ (parts[id] # {} \/ Hollow(id))
KnownFor(id) == entry[id] = "mapped"

LEMMA CycleTypes ==
    \A id \in Ids : /\ Stored \in BOOLEAN /\ ThereFor(id) \in BOOLEAN
                    /\ KnownFor(id) \in BOOLEAN /\ TeardownFailed(id) \in BOOLEAN
  BY DEF Stored, ThereFor, Hollow, KnownFor, TeardownFailed

\* The cycle goes on when something in it changes, and in one of its steps.
LEMMA CycleStutters ==
    ASSUME NEW id \in Ids, Stored' = Stored, DoingFor(id)' = DoingFor(id),
           ThereFor(id)' = ThereFor(id), KnownFor(id)' = KnownFor(id),
           TeardownFailed(id)' = TeardownFailed(id)
    PROVE  BranchStep(id)
  BY DEF BranchStep, Branch!vars, ThereFor, KnownFor

\* What an attach builds, and where it goes on.
LEMMA AttachShape ==
    ASSUME BranchInv, BuiltOK, Attach
    PROVE  \/ /\ work.pc \in {"pads", "tees"} /\ parts' = parts
              /\ \/ work' = Idle /\ entry'[work.id] = "NotReady"
                 \/ work'.pc \in {"tees", "attachSink"}
           \/ /\ work.pc = "attachSink"
              /\ \/ work'.pc = "vqueue" /\ parts' = parts
                 \/ work'.pc = "video" /\ parts'[work.id] # {}
           \/ /\ work.pc \in {"video", "audio"} /\ parts[work.id] \subseteq parts'[work.id]
              /\ work'.pc \in {"audio", "sync", "vqueue"}
           \/ /\ work.pc = "sync" /\ parts' = parts
              /\ work'.pc = "vqueue" \/ (work' = Idle /\ entry'[work.id] = "mapped")
<1>1. /\ work \in Works /\ parts \in [Ids -> SUBSET Parts] /\ entry \in [Ids -> Entries]
      /\ work.id \in Ids
  BY AttachEffect DEF BranchInv, TypeInv, TypeOK
<1>2. ASSUME NEW error, AttachFails(error) PROVE work'.pc = "vqueue"
  BY <1>1, <1>2 DEF AttachFails, Works
<1>3. ASSUME NEW pc,
             work' = [work EXCEPT !.pc = pc] \/ work' = [work EXCEPT !.pc = pc, !.seen = MediaPads]
      PROVE  work'.pc = pc
  BY <1>1, <1>3 DEF Works
<1>4. CASE ReadPads \/ CheckTees
  <2>1. work.pc \in {"pads", "tees"} /\ parts' = parts
    BY <1>4 DEF ReadPads, CheckTees, branches
  <2>2. \/ Refuse(work.id, "NotReady")
        \/ work' = [work EXCEPT !.pc = "tees", !.seen = MediaPads]
        \/ work' = [work EXCEPT !.pc = "attachSink"]
    BY <1>4 DEF ReadPads, CheckTees
  <2>3. Refuse(work.id, "NotReady") => work' = Idle /\ entry'[work.id] = "NotReady"
    BY <1>1 DEF Refuse
  <2> QED
    BY <1>3, <2>1, <2>2, <2>3
<1>5. CASE AttachSink
  <2>1. CASE AttachFails("element") /\ UNCHANGED parts
    BY <1>2, <1>5, <2>1 DEF AttachSink
  <2>2. CASE /\ parts' = [parts EXCEPT ![work.id] = @ \cup {"sink"}]
             /\ work' = [work EXCEPT !.pc = "video"]
    <3>1. work'.pc = "video"
      BY <1>3, <2>2
    <3>2. "sink" \in parts'[work.id]
      BY <1>1, <2>2
    <3> QED
      BY <1>5, <3>1, <3>2 DEF AttachSink
  <2> QED
    BY <1>5, <2>1, <2>2 DEF AttachSink
<1>6. ASSUME NEW k \in Kinds, AttachMedia(k)
      PROVE  /\ work.pc \in {"video", "audio"} /\ parts[work.id] \subseteq parts'[work.id]
             /\ work'.pc \in {"audio", "sync", "vqueue"}
  <2>1. work.pc = k /\ work.pc \in {"video", "audio"}
    BY <1>6 DEF AttachMedia, Kinds
  <2>2. parts[work.id] \subseteq parts'[work.id]
    BY <1>1, <1>6 DEF AttachMedia
  <2>3. \/ AttachFails("tee") \/ AttachFails("element")
        \/ work' = [work EXCEPT !.pc = IF k = "video" THEN "audio" ELSE "sync"]
    BY <1>6 DEF AttachMedia
  <2>4. work'.pc \in {"audio", "sync", "vqueue"}
    BY <1>2, <1>3, <2>3
  <2> QED
    BY <2>1, <2>2, <2>4
<1>7. CASE AttachSync
  BY <1>1, <1>2, <1>7 DEF AttachSync, branches
<1> QED
  BY <1>4, <1>5, <1>6, <1>7 DEF Attach

\* An attach takes its own viewer's branch round the cycle, and no other.
LEMMA AttachCycle ==
    ASSUME CycleInv, Attach
    PROVE  BuiltOK' /\ \A id \in Ids : BranchStep(id)
<1>0. BranchInv /\ BuiltOK /\ Attaching /\ work.id \in Ids
  BY AttachEffect DEF CycleInv, SeenInv
<1> PICK id \in Ids : id = work.id
  BY <1>0
<1>1. /\ Stored /\ Stored' /\ handle' = handle
      /\ entry[id] = "new" /\ detaches[id] = 0 /\ work.cause = "none"
      /\ work.pc \in {"pads", "tees", "attachSink"} => parts[id] = {}
      /\ work.pc \in {"video", "audio", "sync"} => parts[id] # {}
  <2>1. handle' = handle
    BY DEF Attach, ReadPads, CheckTees, AttachSink, AttachMedia, AttachSync
  <2> QED
    BY <1>0, <2>1, AttachEffect DEF BuiltOK, BranchInv, StagesOK, Stored
<1>2. \/ /\ work.pc \in {"pads", "tees"} /\ parts' = parts
         /\ \/ work' = Idle /\ entry'[id] = "NotReady"
            \/ work'.pc \in {"tees", "attachSink"}
      \/ /\ work.pc = "attachSink"
         /\ \/ work'.pc = "vqueue" /\ parts' = parts
            \/ work'.pc = "video" /\ parts'[id] # {}
      \/ /\ work.pc \in {"video", "audio"} /\ parts[id] \subseteq parts'[id]
         /\ work'.pc \in {"audio", "sync", "vqueue"}
      \/ /\ work.pc = "sync" /\ parts' = parts
         /\ work'.pc = "vqueue" \/ (work' = Idle /\ entry'[id] = "mapped")
  BY <1>0, AttachShape
<1>3. \/ /\ work' = Idle /\ detaches'[id] = 0
      \/ /\ work'.pc \in {"tees", "attachSink", "video", "audio", "sync"}
         /\ work'.id = id /\ work'.cause = "none" /\ entry'[id] = "new" /\ detaches'[id] = 0
      \/ /\ work'.pc = "vqueue"
         /\ work'.id = id /\ work'.cause = "undo" /\ entry'[id] = "new" /\ detaches'[id] = 1
  BY <1>0, AttachEffect
<1>4. /\ Idle.pc = "idle" /\ Idle.id = NoId /\ NoId \notin Ids
  BY IdAssumption DEF Idle
<1>5. \A j \in Ids \ {id} : /\ parts'[j] = parts[j] /\ entry'[j] = entry[j] /\ detaches'[j] = detaches[j]
                            /\ teePads'[j] = teePads[j] /\ work.id # j /\ work'.id # j
  BY <1>0, <1>3, <1>4, AttachEffect
<1>6. BuiltOK'
  <2>1. \A j \in Ids : entry'[j] = "new" /\ (work'.id = j => work'.pc \in {"pads", "tees", "attachSink"})
           => parts'[j] = {}
    <3>1. ASSUME NEW j \in Ids \ {id}, entry'[j] = "new" PROVE parts'[j] = {}
      BY <1>0, <1>5, <3>1 DEF BuiltOK
    <3>2. ASSUME entry'[id] = "new", work'.id = id => work'.pc \in {"pads", "tees", "attachSink"}
          PROVE  parts'[id] = {}
      BY <1>1, <1>2, <1>3, <1>4, <3>2
    <3> QED
      BY <3>1, <3>2
  <2>2. work'.pc \in {"video", "audio", "sync"} => work'.id = id /\ parts'[id] # {}
    BY <1>1, <1>2, <1>3, <1>4
  <2> QED
    BY <1>1, <2>1, <2>2 DEF BuiltOK, Stored
<1>7. ASSUME NEW j \in Ids \ {id} PROVE BranchStep(j)
  <2>1. DoingFor(j) = "nothing" /\ DoingFor(j)' = "nothing"
    BY <1>5 DEF DoingFor
  <2>2. TeardownFailed(j)' = TeardownFailed(j)
    BY <1>5 DEF TeardownFailed
  <2>3. Stored' = Stored /\ ThereFor(j)' = ThereFor(j) /\ KnownFor(j)' = KnownFor(j)
    BY <1>1, <1>5 DEF Stored, ThereFor, Hollow, KnownFor
  <2> QED
    BY <2>1, <2>2, <2>3, CycleStutters
<1>8. BranchStep(id)
  <2>1. TeardownFailed(id)' = TeardownFailed(id)
    BY <1>1, <1>2, <1>3, <1>4 DEF TeardownFailed
  <2>2. /\ Stored = TRUE /\ Stored' = TRUE
        /\ ThereFor(id) = (work.pc \in {"video", "audio", "sync"})
        /\ parts' = parts /\ entry'[id] # "mapped" => ThereFor(id)' = ThereFor(id)
        /\ parts'[id] # {} => ThereFor(id)' = TRUE
        /\ KnownFor(id) = FALSE
        /\ entry'[id] # "mapped" => KnownFor(id)' = FALSE
        /\ entry'[id] = "mapped" => KnownFor(id)' = TRUE
    BY <1>0, <1>1 DEF Stored, ThereFor, Hollow, KnownFor, Attaching
  <2> USE DEF ThereFor, KnownFor
  <2>3. CASE work.pc \in {"pads", "tees"} /\ parts' = parts
    <3>1. CASE work' = Idle /\ entry'[id] = "NotReady"
      <4>1. DoingFor(id) = "asked" /\ DoingFor(id)' = "nothing"
        BY <1>4, <2>3, <3>1 DEF DoingFor
      <4>2. Branch(id)!Refused
        BY <2>1, <2>2, <2>3, <3>1, <4>1 DEF Branch!Refused
      <4> QED
        BY <4>2 DEF BranchStep, Branch!Next
    <3>2. CASE work'.pc \in {"tees", "attachSink"}
      <4>1. DoingFor(id) = "asked" /\ DoingFor(id)' = "asked" /\ entry'[id] = "new"
        BY <1>3, <1>4, <2>3, <3>2 DEF DoingFor
      <4> QED
        BY <2>1, <2>2, <2>3, <4>1, CycleStutters
    <3> QED
      BY <1>2, <2>3, <3>1, <3>2
  <2>4. CASE work'.pc = "vqueue"
    <3>1. DoingFor(id) \in {"asked", "building"} /\ DoingFor(id)' = "undoing" /\ entry'[id] = "new"
      BY <1>0, <1>3, <1>4, <2>4 DEF DoingFor, Attaching
    <3>2. ThereFor(id)' \in {ThereFor(id), TRUE}
      BY <1>1, <1>2, <2>2, <2>4, <3>1
    <3>3. Branch(id)!AttachFails
      BY <2>1, <2>2, <3>1, <3>2 DEF Branch!AttachFails
    <3> QED
      BY <3>3 DEF BranchStep, Branch!Next
  <2>5. CASE work.pc = "attachSink" /\ work'.pc = "video" /\ parts'[id] # {}
    <3>1. DoingFor(id) = "asked" /\ DoingFor(id)' = "building" /\ entry'[id] = "new"
      BY <1>3, <1>4, <2>5 DEF DoingFor, Attaching
    <3>2. Branch(id)!Builds
      BY <2>1, <2>2, <2>5, <3>1 DEF Branch!Builds
    <3> QED
      BY <3>2 DEF BranchStep, Branch!Next
  <2>6. CASE work.pc \in {"video", "audio"} /\ work'.pc \in {"audio", "sync"}
    <3>1. DoingFor(id) = "building" /\ DoingFor(id)' = "building" /\ entry'[id] = "new"
      BY <1>3, <1>4, <2>6 DEF DoingFor, Attaching
    <3>2. parts'[id] # {}
      BY <1>1, <1>2, <2>6
    <3> QED
      BY <2>1, <2>2, <2>6, <3>1, <3>2, CycleStutters
  <2>7. CASE work.pc = "sync" /\ parts' = parts /\ work' = Idle /\ entry'[id] = "mapped"
    <3>1. DoingFor(id) = "building" /\ DoingFor(id)' = "nothing"
      BY <1>4, <2>7 DEF DoingFor, Attaching
    <3>2. ThereFor(id) = TRUE /\ ThereFor(id)' = TRUE
      BY <1>1, <2>2, <2>7
    <3>3. Branch(id)!Added
      BY <2>1, <2>2, <2>7, <3>1, <3>2 DEF Branch!Added
    <3> QED
      BY <3>3 DEF BranchStep, Branch!Next
  <2> QED
    BY <1>2, <2>3, <2>4, <2>5, <2>6, <2>7
<1> QED
  BY <1>6, <1>7, <1>8

\* A detach goes on with its viewer or returns, and fails for good only as a retry.
LEMMA DetachShape ==
    ASSUME BranchInv, Detach
    PROVE  /\ Detaching /\ work.id \in Ids /\ detaches[work.id] > 0
           /\ UNCHANGED <<handle, parts, teePads, detaches>>
           /\ \/ /\ work'.pc \in Parts /\ work'.id = work.id /\ work'.cause = work.cause
                 /\ UNCHANGED entry
              \/ \E result \in {"Ok", "Fatal", "Transient"} :
                    DetachReturns(result) /\ (result = "Fatal" => detaches[work.id] > 1)
<1>1. /\ Detaching /\ work.id \in Ids /\ work \in Works /\ detaches[work.id] > 0
      /\ UNCHANGED <<handle, parts, teePads, detaches>>
  BY DEF BranchInv, TypeInv, TypeOK, ActorOK, StagesOK, Detaching, Parts, Detach, FindPart, FindTee,
         Awoken, CutOff, branches, Await, Advance, DetachReturns
<1> DEFINE GoesOn == /\ work'.pc \in Parts /\ work'.id = work.id /\ work'.cause = work.cause
                     /\ UNCHANGED entry
<1>2. ASSUME NEW job, Await(job) PROVE GoesOn
  BY <1>1, <1>2 DEF Await, Works, Detaching
<1>3. ASSUME Advance PROVE GoesOn \/ DetachReturns("Ok")
  <2>1. \/ DetachReturns("Ok")
        \/ (\E pc \in Parts : work' = [work EXCEPT !.wait = "no", !.pc = pc]) /\ UNCHANGED entry
    BY <1>1, <1>3 DEF Advance, Detaching, Parts
  <2> QED
    BY <1>1, <2>1 DEF Works
<1>4. ASSUME work' = [work EXCEPT !.wait = "peer"], UNCHANGED entry PROVE GoesOn
  BY <1>1, <1>4 DEF Works, Detaching
<1>5. CASE FindPart
  BY <1>1, <1>2, <1>3, <1>4, <1>5 DEF FindPart
<1>6. CASE FindTee
  BY <1>1, <1>2, <1>6 DEF FindTee, BranchInv, AwaitOK
<1>7. CASE Awoken
  BY <1>1, <1>2, <1>3, <1>7 DEF Awoken
<1>8. CASE CutOff
  BY <1>1, <1>8 DEF CutOff
<1> QED
  BY <1>1, <1>5, <1>6, <1>7, <1>8 DEF Detach

\* So does a detach.  That Ok means gone is DetachedBranchesAreGone.
LEMMA DetachCycle ==
    ASSUME CycleInv, SeenInv', Detach
    PROVE  BuiltOK' /\ \A id \in Ids : BranchStep(id)
<1>0. BranchInv /\ BuiltOK /\ Detaching /\ work.id \in Ids
  BY DetachShape DEF CycleInv, SeenInv
<1> PICK id \in Ids : id = work.id
  BY <1>0
<1>1. /\ UNCHANGED <<handle, parts, teePads, detaches>> /\ detaches[id] \in Nat \ {0}
      /\ entry \in [Ids -> Entries] /\ entry' \in [Ids -> Entries]
      /\ \/ /\ work'.pc \in Parts /\ work'.id = id /\ work'.cause = work.cause /\ entry' = entry
         \/ \E result \in {"Ok", "Fatal", "Transient"} :
               DetachReturns(result) /\ (result = "Fatal" => detaches[id] > 1)
  BY <1>0, DetachShape DEF SeenInv, BranchInv, TypeInv, TypeOK
<1>2. DoingFor(id) = IF work.cause = "undo" THEN "undoing" ELSE "detaching"
  BY <1>0 DEF DoingFor, Attaching, Detaching, Parts
<1>3. Stored' = Stored /\ (TeardownFailed(id) <=> detaches[id] > 1)
  <2>1. Stored' = Stored
    BY <1>1 DEF Stored
  <2>2. ~(detaches[id] = 1 /\ work.id # id)
    OBVIOUS
  <2>3. TeardownFailed(id) <=> detaches[id] > 1
    BY <2>2 DEF TeardownFailed
  <2> QED
    BY <2>1, <2>3
<1>4. ASSUME NEW result \in {"Ok", "Fatal", "Transient"}, DetachReturns(result)
      PROVE  /\ work' = Idle /\ \A j \in Ids \ {id} : entry'[j] = entry[j]
             /\ entry'[id] = IF work.cause = "undo"
                             THEN IF result = "Transient" THEN result ELSE "Fatal"
                             ELSE IF result = "Ok" THEN "removed" ELSE entry[id]
             /\ IF work.cause = "undo" THEN entry[id] = "new" ELSE entry[id] \in {"mapped", "dropped"}
  <2>1. /\ work.cause = "undo" => entry[id] = "new"
        /\ work.cause # "undo" => entry[id] \in {"mapped", "dropped"}
    BY <1>0 DEF BranchInv, TypeInv, TypeOK, Works, StagesOK
  <2> QED
    BY <1>1, <1>4, <2>1 DEF DetachReturns
<1>5. /\ Idle.pc = "idle" /\ Idle.id = NoId /\ NoId \notin Ids
  BY IdAssumption DEF Idle
<1>6. /\ \A j \in Ids \ {id} : entry'[j] = entry[j] /\ work.id # j /\ work'.id # j
      /\ work' = Idle \/ work'.pc \in Parts
      /\ \A j \in Ids : entry'[j] \in {"new", "mapped"} => entry[j] = entry'[j]
  <2>1. CASE work'.id = id /\ entry' = entry /\ work'.pc \in Parts
    BY <2>1
  <2>2. ASSUME NEW result \in {"Ok", "Fatal", "Transient"}, DetachReturns(result)
        PROVE  <1>6!1 /\ work' = Idle /\ <1>6!3
    BY <1>4, <1>5, <2>2
  <2> QED
    BY <1>1, <2>1, <2>2
<1>7. \A j \in Ids : ThereFor(j)' = ThereFor(j)
  BY <1>1, <1>3, <1>6 DEF ThereFor, Hollow
<1>8. BuiltOK'
  <2>1. ~Attaching'
    BY <1>5, <1>6 DEF Attaching, Parts
  <2>2. ASSUME NEW j \in Ids, entry'[j] = "new",
               work'.id = j => work'.pc \in {"pads", "tees", "attachSink"}
        PROVE  parts'[j] = {}
    <3>1. work'.id # j
      BY <1>5, <1>6, <2>2 DEF Parts
    <3>2. j # id
      <4>1. CASE work'.id = id
        BY <3>1, <4>1
      <4>2. ASSUME NEW result \in {"Ok", "Fatal", "Transient"}, DetachReturns(result) PROVE j # id
        BY <1>4, <2>2, <4>2
      <4> QED
        BY <1>1, <4>1, <4>2
    <3> QED
      BY <1>0, <1>1, <1>6, <2>2, <3>2 DEF BuiltOK
  <2>3. handle = "none" => \A j \in Ids : parts'[j] = {} /\ entry'[j] # "mapped"
    BY <1>0, <1>1, <1>6 DEF BuiltOK
  <2> QED
    BY <1>0, <1>1, <2>1, <2>2, <2>3 DEF BuiltOK, Attaching
<1>9. ASSUME NEW j \in Ids \ {id} PROVE BranchStep(j)
  <2>1. DoingFor(j) = "nothing" /\ DoingFor(j)' = "nothing"
    BY <1>6 DEF DoingFor
  <2>2. TeardownFailed(j)' = TeardownFailed(j) /\ KnownFor(j)' = KnownFor(j)
    BY <1>1, <1>6 DEF TeardownFailed, KnownFor
  <2> QED
    BY <1>3, <1>7, <2>1, <2>2, CycleStutters
<1>10. BranchStep(id)
  <2>1. CASE work'.pc \in Parts /\ work'.id = id /\ work'.cause = work.cause /\ entry' = entry
    <3>1. DoingFor(id)' = DoingFor(id)
      BY <1>2, <2>1 DEF DoingFor, Attaching, Parts
    <3>2. TeardownFailed(id)' = TeardownFailed(id) /\ KnownFor(id)' = KnownFor(id)
      BY <1>1, <1>3, <2>1 DEF TeardownFailed, KnownFor
    <3> QED
      BY <1>3, <1>7, <3>1, <3>2, CycleStutters
  <2>2. ASSUME NEW result \in {"Ok", "Fatal", "Transient"}, DetachReturns(result),
               result = "Fatal" => detaches[id] > 1
        PROVE  BranchStep(id)
    <3>1. DoingFor(id) \in {"undoing", "detaching"} /\ DoingFor(id)' = "nothing"
      BY <1>2, <1>4, <1>5, <2>2 DEF DoingFor
    <3>2. TeardownFailed(id)' <=>
             detaches[id] > 1 \/ (detaches[id] = 1 /\ entry'[id] \notin {"removed", "Fatal"})
      BY <1>1, <1>4, <1>5, <2>2 DEF TeardownFailed
    <3> USE DEF ThereFor, KnownFor
    <3>3. CASE result = "Ok"
      <4>1. entry'[id] \in {"removed", "Fatal"}
        BY <1>4, <2>2, <3>3
      <4>2. TeardownFailed(id)' = TeardownFailed(id)
        BY <1>3, <3>2, <4>1 DEF TeardownFailed
      <4>3. parts'[id] = {}
        BY <4>1 DEF SeenInv, BranchInv, DetachedBranchesAreGone
      <4>4. Branch(id)!Detached
        BY <1>3, <3>1, <4>1, <4>2, <4>3 DEF Branch!Detached, Hollow
      <4> QED
        BY <4>4 DEF BranchStep, Branch!Next
    <3>4. CASE result # "Ok"
      <4>1. TeardownFailed(id)'
        <5>1. CASE result = "Fatal"
          BY <2>2, <3>2, <5>1
        <5>2. CASE result = "Transient"
          <6>1. entry'[id] \in {"Transient", "mapped", "dropped"}
            BY <1>4, <2>2, <5>2
          <6> QED
            BY <1>1, <3>2, <6>1
        <5> QED
          BY <3>4, <5>1, <5>2
      <4>2. KnownFor(id)' = KnownFor(id)
        <5>1. CASE work.cause = "undo"
          BY <1>4, <2>2, <5>1
        <5>2. CASE work.cause # "undo"
          BY <1>4, <2>2, <3>4, <5>2
        <5> QED
          BY <5>1, <5>2
      <4>3. ThereFor(id)' = ThereFor(id)
        BY <1>7
      <4>4. Branch(id)!DetachFails
        BY <1>3, <3>1, <4>1, <4>2, <4>3 DEF Branch!DetachFails
      <4> QED
        BY <4>4 DEF BranchStep, Branch!Next
    <3> QED
      BY <3>3, <3>4
  <2> QED
    BY <1>1, <2>1, <2>2
<1> QED
  BY <1>8, <1>9, <1>10

\* A viewer that no operation is for stays where it is in the cycle.
LEMMA OthersCycle ==
    ASSUME NEW id \in Ids, work.id # id, work'.id # id, handle' = handle, parts' = parts,
           teePads' = teePads, entry'[id] = entry[id], detaches'[id] = detaches[id]
    PROVE  BranchStep(id)
<1>1. DoingFor(id)' = DoingFor(id) /\ TeardownFailed(id)' = TeardownFailed(id)
  BY DEF DoingFor, TeardownFailed
<1>2. Stored' = Stored /\ ThereFor(id)' = ThereFor(id) /\ KnownFor(id)' = KnownFor(id)
  BY DEF Stored, ThereFor, Hollow, KnownFor
<1> QED
  BY <1>1, <1>2, CycleStutters

\* The beginning of an attach.
LEMMA AddCycle ==
    ASSUME CycleInv, NEW id \in Ids, AddBranch(id)
    PROVE  BuiltOK' /\ \A j \in Ids : BranchStep(j)
<1>1. /\ work = Idle /\ entry[id] = "new" /\ entry \in [Ids -> Entries]
      /\ UNCHANGED <<handle, parts, teePads, detaches>>
      /\ \/ work' = Idle /\ \E e \in {"NotReady", "Transient"} : entry' = [entry EXCEPT ![id] = e]
         \/ Stored /\ work'.pc = "pads" /\ work'.id = id /\ entry' = entry
  BY DEF AddBranch, Refuse, Idle, branches, CycleInv, SeenInv, BranchInv, TypeInv, TypeOK
<1>2. /\ Idle.pc = "idle" /\ Idle.id = NoId /\ NoId \notin Ids
  BY IdAssumption DEF Idle
<1>3. /\ parts[id] = {}
      /\ \A j \in Ids \ {id} : entry'[j] = entry[j] /\ work.id # j /\ work'.id # j
      /\ KnownFor(id) = FALSE /\ KnownFor(id)' = FALSE
      /\ TeardownFailed(id) = FALSE /\ TeardownFailed(id)' = FALSE
  <2>1. parts[id] = {} /\ detaches[id] = 0
    BY <1>1, <1>2 DEF CycleInv, SeenInv, BranchInv, BuiltOK, StagesOK
  <2> QED
    BY <1>1, <1>2, <2>1 DEF KnownFor, TeardownFailed
<1>4. BuiltOK'
  <2>1. Attaching' => Stored
    BY <1>1, <1>2 DEF Attaching
  <2>2. work'.pc \notin {"video", "audio", "sync"}
    BY <1>1, <1>2
  <2>3. \A j \in Ids : /\ entry'[j] = "new" => parts'[j] = {}
                       /\ entry'[j] = "mapped" => entry[j] = "mapped"
    BY <1>1, <1>2 DEF CycleInv, BuiltOK
  <2> QED
    BY <1>1, <2>1, <2>2, <2>3 DEF CycleInv, BuiltOK, Stored
<1>5. ASSUME NEW j \in Ids \ {id} PROVE BranchStep(j)
  BY <1>1, <1>3, OthersCycle
<1>6. BranchStep(id)
  <2>1. Stored' = Stored /\ ThereFor(id)' = ThereFor(id) /\ DoingFor(id) = "nothing"
    BY <1>1, <1>2 DEF Stored, ThereFor, Hollow, DoingFor
  <2>2. CASE work' = Idle
    <3>1. DoingFor(id)' = "nothing"
      BY <1>2, <2>2 DEF DoingFor
    <3> QED
      BY <1>3, <2>1, <3>1, CycleStutters
  <2>3. CASE work'.pc = "pads" /\ work'.id = id
    <3>1. DoingFor(id)' = "asked"
      BY <2>3 DEF DoingFor
    <3>2. Branch(id)!Ask
      BY <1>3, <2>1, <3>1 DEF Branch!Ask, ThereFor, KnownFor
    <3> QED
      BY <3>2 DEF BranchStep, Branch!Next
  <2> QED
    BY <1>1, <2>2, <2>3
<1> QED
  BY <1>4, <1>5, <1>6

\* The beginning of a detach, which may be its end.
LEMMA RemoveCycle ==
    ASSUME CycleInv, NEW id \in Ids, NEW cause \in {"required", "dropped", "echo"},
           RemoveBranch(id, cause)
    PROVE  BuiltOK' /\ \A j \in Ids : BranchStep(j)
<1>1. /\ work = Idle /\ entry[id] = "mapped" /\ entry \in [Ids -> Entries]
      /\ detaches \in [Ids -> Nat] /\ UNCHANGED <<handle, parts, teePads>>
      /\ detaches' = [detaches EXCEPT ![id] = @ + 1]
      /\ entry' = entry \/ entry' = [entry EXCEPT ![id] = "dropped"]
      /\ work' = Idle \/ (work'.pc = "vqueue" /\ work'.id = id /\ work'.cause = cause)
  BY DEF RemoveBranch, Idle, branches, CycleInv, SeenInv, BranchInv, TypeInv, TypeOK
<1>2. /\ Idle.pc = "idle" /\ Idle.id = NoId /\ NoId \notin Ids
  BY IdAssumption DEF Idle
<1>3. /\ \A j \in Ids \ {id} : /\ entry'[j] = entry[j] /\ detaches'[j] = detaches[j]
                               /\ work.id # j /\ work'.id # j
      /\ detaches[id] \in Nat /\ detaches'[id] = detaches[id] + 1
      /\ entry'[id] \in {"mapped", "dropped"}
  BY <1>1, <1>2
<1>4. BuiltOK'
  <2>1. work'.pc \in {"idle", "vqueue"} /\ ~Attaching'
    BY <1>1, <1>2 DEF Attaching
  <2>2. \A j \in Ids : entry'[j] = "new" => parts'[j] = {}
    BY <1>1, <1>2, <1>3 DEF CycleInv, BuiltOK
  <2>3. handle # "none"
    BY <1>1 DEF CycleInv, BuiltOK
  <2> QED
    BY <1>1, <2>1, <2>2, <2>3 DEF CycleInv, BuiltOK
<1>5. ASSUME NEW j \in Ids \ {id} PROVE BranchStep(j)
  BY <1>1, <1>3, OthersCycle
<1>6. BranchStep(id)
  <2>1. /\ Stored' = Stored /\ ThereFor(id)' \in {ThereFor(id), FALSE} /\ DoingFor(id) = "nothing"
        /\ KnownFor(id) = TRUE /\ KnownFor(id)' \in {KnownFor(id), FALSE}
    <3>1. Hollow(id)' = FALSE
      BY <1>3 DEF Hollow
    <3>2. Stored' = Stored /\ ThereFor(id)' = (Stored /\ parts[id] # {})
      BY <1>1, <3>1 DEF Stored, ThereFor
    <3> QED
      BY <1>1, <1>2, <3>2 DEF ThereFor, DoingFor, KnownFor
  <2>2. TeardownFailed(id) <=> detaches[id] > 0
    BY <1>1, <1>2, <1>3 DEF TeardownFailed
  <2> USE DEF ThereFor, KnownFor
  <2>3. CASE work' = Idle
    <3>1. DoingFor(id)' = "nothing"
      BY <1>2, <2>3 DEF DoingFor
    <3>2. TeardownFailed(id)'
      BY <1>2, <1>3, <2>3 DEF TeardownFailed
    <3>3. Branch(id)!DetachRefused
      BY <2>1, <3>1, <3>2 DEF Branch!DetachRefused
    <3> QED
      BY <3>3 DEF BranchStep, Branch!Next
  <2>4. CASE work'.pc = "vqueue" /\ work'.id = id /\ work'.cause = cause
    <3>1. DoingFor(id)' = "detaching"
      BY <2>4 DEF DoingFor, Attaching
    <3>2. TeardownFailed(id)' <=> detaches[id] > 0
      BY <1>3, <2>4 DEF TeardownFailed
    <3>3. TeardownFailed(id)' = TeardownFailed(id)
      BY <2>2, <3>2 DEF TeardownFailed
    <3>4. Branch(id)!Detaches
      BY <2>1, <3>1, <3>3 DEF Branch!Detaches
    <3> QED
      BY <3>4 DEF BranchStep, Branch!Next
  <2> QED
    BY <1>1, <2>3, <2>4
<1> QED
  BY <1>4, <1>5, <1>6

\* Elements that go by themselves, by a closure or as a sink that leaves: what
\* is left of a branch only goes while it is taken apart or under suspicion,
\* or where it is hollow.
LEMMA ShrinkCycle ==
    ASSUME CycleInv, UNCHANGED <<handle, work, detaches, entry>>,
           \A id \in Ids : /\ parts'[id] \subseteq parts[id]
                           /\ parts'[id] = {} /\ parts[id] # {} => detaches[id] > 0 \/ Hollow(id)
                           /\ detaches[id] = 0 => teePads'[id] = teePads[id]
    PROVE  BuiltOK' /\ \A id \in Ids : BranchStep(id)
<1>1. BuiltOK'
  <2>1. Attaching => work.id \in Ids /\ detaches[work.id] = 0
    BY DEF CycleInv, SeenInv, BranchInv, TypeInv, ActorOK, StagesOK, Attaching
  <2>2. work.pc \in {"video", "audio", "sync"} => parts'[work.id] # {}
    <3>1. Attaching => ~Hollow(work.id)
      BY DEF CycleInv, SeenInv, BranchInv, StagesOK, Hollow
    <3> QED
      BY <2>1, <3>1 DEF CycleInv, BuiltOK, Attaching
  <2> QED
    BY <2>2 DEF CycleInv, BuiltOK, Attaching, Stored
<1>2. ASSUME NEW id \in Ids PROVE BranchStep(id)
  <2>1. /\ Stored' = Stored /\ DoingFor(id)' = DoingFor(id) /\ KnownFor(id)' = KnownFor(id)
        /\ TeardownFailed(id)' = TeardownFailed(id) /\ Hollow(id)' = Hollow(id)
    BY DEF Stored, DoingFor, KnownFor, TeardownFailed, Attaching, Hollow
  <2>2. CASE (parts'[id] = {} <=> parts[id] = {}) \/ Hollow(id)
    <3>1. ThereFor(id)' = ThereFor(id)
      <4>1. CASE Hollow(id)
        BY <2>1, <4>1 DEF ThereFor
      <4>2. CASE ~Hollow(id) /\ (parts'[id] = {} <=> parts[id] = {})
        <5>1. ~Hollow(id)'
          BY <2>1, <4>2
        <5> QED
          BY <2>1, <4>2, <5>1 DEF ThereFor
      <4> QED
        BY <2>2, <4>1, <4>2
    <3> QED
      BY <2>1, <3>1, CycleStutters
  <2>3. CASE parts'[id] = {} /\ parts[id] # {} /\ ~Hollow(id)
    <3>1. detaches[id] \in Nat \ {0}
      <4>1. detaches[id] > 0
        BY <2>3, Zenon
      <4>2. detaches[id] \in Nat
        BY DEF CycleInv, SeenInv, BranchInv, TypeInv, TypeOK
      <4> QED
        BY <4>1, <4>2
    <3>2. CASE work.id = id
      <4>1. ~Attaching
        BY <3>1, <3>2 DEF CycleInv, SeenInv, BranchInv, StagesOK
      <4>2. DoingFor(id) \in {"undoing", "detaching"}
        BY <3>2, <4>1 DEF DoingFor, Attaching
      <4>3. Branch(id)!Removes
        BY <2>1, <2>3, <4>2 DEF Branch!Removes, KnownFor
      <4> QED
        BY <4>3 DEF BranchStep, Branch!Next
    <3>3. CASE work.id # id
      <4>1. entry[id] \notin {"removed", "Fatal"}
        BY <2>3 DEF CycleInv, SeenInv, BranchInv, DetachedBranchesAreGone
      <4>2. TeardownFailed(id)
        BY <3>1, <3>3, <4>1 DEF TeardownFailed
      <4>3. Branch(id)!Removes
        BY <2>1, <2>3, <4>2 DEF Branch!Removes, KnownFor
      <4> QED
        BY <4>3 DEF BranchStep, Branch!Next
    <3> QED
      BY <3>2, <3>3
  <2> QED
    BY <2>2, <2>3
<1> QED
  BY <1>1, <1>2

\* The pipeline comes and goes, and the demuxer does not touch the branches.
LEMMA HandleCycle ==
    ASSUME CycleInv, Demuxer \/ Bus \/ PipelineStored \/ CleanUp \/ UNCHANGED vars
    PROVE  BuiltOK' /\ \A id \in Ids : BranchStep(id)
<1>1. UNCHANGED <<parts, teePads, work, detaches, entry>>
  BY DEF Demuxer, PadAdded, CapsSet, PadRemoved, NoMorePads, LinkPad, Bus, ReadError,
         PipelineStored, CleanUp, vars, branches, actor
<1>2. \/ Stored' = Stored /\ (handle' = "none" => handle = "none")
      \/ ~Stored /\ Stored' /\ handle = "none" /\ handle' # "none"
      \/ Stored /\ ~Stored' /\ ~Attaching /\ handle' # "none"
  <2>1. CASE Demuxer \/ UNCHANGED vars
    BY <2>1 DEF Demuxer, PadAdded, CapsSet, PadRemoved, NoMorePads, LinkPad, vars, Stored
  <2>2. CASE Bus
    BY <2>2 DEF Bus, ReadError, Heard, Stored
  <2>3. CASE PipelineStored \/ CleanUp
    BY <2>3 DEF PipelineStored, CleanUp, Stored
  <2> QED
    BY <2>1, <2>2, <2>3
<1>3. Attaching' = Attaching
  BY <1>1 DEF Attaching
<1>4. BuiltOK'
  BY <1>1, <1>2, <1>3 DEF CycleInv, BuiltOK
<1>5. ASSUME NEW id \in Ids PROVE BranchStep(id)
  <2>1. /\ DoingFor(id)' = DoingFor(id) /\ KnownFor(id)' = KnownFor(id)
        /\ TeardownFailed(id)' = TeardownFailed(id)
    BY <1>1, <1>3 DEF DoingFor, KnownFor, TeardownFailed
  <2> USE DEF KnownFor
  <2>2. CASE Stored' = Stored
    <3>1. ThereFor(id)' = ThereFor(id)
      BY <1>1, <2>2 DEF ThereFor, Hollow
    <3> QED
      BY <2>1, <2>2, <3>1, CycleStutters
  <2>3. CASE ~Stored /\ Stored' /\ handle = "none"
    <3>1. parts[id] = {} /\ ~Hollow(id)
      BY <2>3 DEF CycleInv, BuiltOK, Hollow
    <3>2. parts'[id] = {} /\ ~Hollow(id)'
      BY <1>1, <3>1 DEF Hollow
    <3>3. Branch(id)!Up
      BY <2>1, <2>3, <3>1, <3>2 DEF Branch!Up
    <3> QED
      BY <3>3 DEF BranchStep, Branch!Next
  <2>4. CASE Stored /\ ~Stored' /\ ~Attaching
    <3>1. DoingFor(id) # "building"
      BY <2>4 DEF DoingFor
    <3>2. Branch(id)!Down
      BY <2>1, <2>4, <3>1 DEF Branch!Down
    <3> QED
      BY <3>2 DEF BranchStep, Branch!Next
  <2> QED
    BY <1>2, <2>2, <2>3, <2>4
<1> QED
  BY <1>4, <1>5

\* Every step of the stream plane is one of the cycle, for every viewer.
LEMMA NextCycle ==
    ASSUME CycleInv, SeenInv', [Next]_vars
    PROVE  BuiltOK' /\ \A id \in Ids : BranchStep(id)
<1>1. CASE Attach
  BY <1>1, AttachCycle
<1>2. CASE Detach
  BY <1>2, DetachCycle
<1>3. ASSUME NEW id \in Ids, AddBranch(id) PROVE BuiltOK' /\ \A j \in Ids : BranchStep(j)
  BY <1>3, AddCycle
<1>4. ASSUME NEW id \in Ids, NEW cause \in {"required", "dropped", "echo"}, RemoveBranch(id, cause)
      PROVE  BuiltOK' /\ \A j \in Ids : BranchStep(j)
  BY <1>4, RemoveCycle
<1>5. ASSUME NEW c \in closures, Closure(c) PROVE BuiltOK' /\ \A j \in Ids : BranchStep(j)
  <2>1. /\ UNCHANGED <<work, detaches, entry>> /\ c.id \in Ids /\ c.detach \in 1..detaches[c.id]
        /\ \A id \in Ids : /\ parts'[id] \subseteq parts[id]
                           /\ \A p \in parts[id] \ parts'[id] : id = c.id
                           /\ teePads'[id] \subseteq teePads[id]
                           /\ \A q \in teePads[id] \ teePads'[id] : id = c.id
        /\ detaches \in [Ids -> Nat]
    BY <1>5, ClosureEffect DEF CycleInv, SeenInv, BranchInv, StagesOK, TypeInv, TypeOK
  <2>2. handle' = handle
    BY <1>5 DEF Closure
  <2>3. detaches[c.id] > 0
    BY <2>1
  <2>4. \A id \in Ids : /\ parts'[id] = {} /\ parts[id] # {} => detaches[id] > 0
                        /\ detaches[id] = 0 => teePads'[id] = teePads[id]
    <3>1. \A id \in Ids \ {c.id} : parts'[id] = parts[id] /\ teePads'[id] = teePads[id]
      BY <2>1
    <3> QED
      BY <2>3, <3>1
  <2> QED
    BY <2>1, <2>2, <2>4, ShrinkCycle
<1>6. ASSUME NEW id \in Ids, SinkLeaves(id) PROVE BuiltOK' /\ \A j \in Ids : BranchStep(j)
  <2>1. /\ UNCHANGED <<handle, work, teePads, detaches, entry>> /\ entry[id] = "mapped"
        /\ parts' = [parts EXCEPT ![id] = @ \ {"sink"}] /\ parts \in [Ids -> SUBSET Parts]
        /\ detaches \in [Ids -> Nat]
    BY <1>6 DEF SinkLeaves, actor, CycleInv, SeenInv, BranchInv, TypeInv, TypeOK
  <2>2. parts'[id] = {} => detaches[id] > 0 \/ Hollow(id)
    BY <2>1 DEF SeenInv, BranchInv, NoPadIsOrphaned, Hollow
  <2>3. \A j \in Ids : /\ parts'[j] \subseteq parts[j]
                       /\ parts'[j] = {} /\ parts[j] # {} => detaches[j] > 0 \/ Hollow(j)
    <3>1. \A j \in Ids \ {id} : parts'[j] = parts[j]
      BY <2>1
    <3>2. parts'[id] \subseteq parts[id]
      BY <2>1
    <3> QED
      BY <2>2, <3>1, <3>2
  <2> QED
    BY <2>1, <2>3, ShrinkCycle
<1>7. ASSUME NEW id \in Ids, ServeEcho(id), ~RemoveBranch(id, "echo")
      PROVE  BuiltOK' /\ \A j \in Ids : BranchStep(j)
  <2>1. UNCHANGED <<handle, parts, teePads, work, detaches, entry>>
    BY <1>7 DEF ServeEcho, branches, actor
  <2> QED
    BY <2>1, ShrinkCycle
<1>8. CASE Demuxer \/ Bus \/ PipelineStored \/ CleanUp \/ UNCHANGED vars
  BY <1>8, HandleCycle
<1> QED
  BY <1>1, <1>2, <1>3, <1>4, <1>5, <1>6, <1>7, <1>8 DEF Next, Actor

\* For the step of the theorem, which is under a prime and a box.
LEMMA CycleSteps ==
    CycleInv /\ [Next]_vars => CycleInv' /\ [\A id \in Ids : BranchStep(id)]_vars
  BY NextSeen, NextCycle DEF CycleInv

LEMMA InitCycle == Init => CycleInv /\ \A id \in Ids : Branch(id)!Init
<1> SUFFICES ASSUME Init PROVE CycleInv /\ \A id \in Ids : Branch(id)!Init
  OBVIOUS
<1>1. ~Attaching /\ ~Stored /\ Idle.pc = "idle" /\ Idle.id = NoId /\ NoId \notin Ids
  BY IdAssumption DEF Init, Attaching, Stored, Idle
<1>2. BuiltOK
  BY <1>1 DEF Init, BuiltOK
<1>3. ASSUME NEW id \in Ids PROVE Branch(id)!Init
  <2>1. DoingFor(id) = "nothing" /\ ~TeardownFailed(id) /\ entry[id] # "mapped"
    BY <1>1 DEF Init, DoingFor, TeardownFailed
  <2> QED
    BY <1>1, <2>1 DEF Branch!Init, Hollow
<1> QED
  BY <1>2, <1>3, InitSeen DEF CycleInv

(***************************************************************************)
(* The stream plane keeps its side of BranchCycle for every viewer: under  *)
(* any interleaving of attach, detach and what abandoned detaches leave    *)
(* running, an Ok of add_branch means built and an Ok of remove_branch     *)
(* means gone, a failed attach is undone first, and a branch goes by       *)
(* itself only with its run, after a teardown that was reported failed, or *)
(* as the sink of a branch whose pads had gone before they were linked     *)
(* (src/stream/gst_pipeline.rs:102-183, branch.rs:84-306).                 *)
(***************************************************************************)
THEOREM KeepsTheBranchCycle == Spec => BranchesKeepTheCycle
<1>1. Init => CycleInv /\ \A id \in Ids : Branch(id)!Init
  BY InitCycle
<1>2. CycleInv /\ [Next]_vars => CycleInv'
  BY CycleSteps
<1>3. CycleInv /\ [Next]_vars => [\A id \in Ids : Branch(id)!Next \/ UNCHANGED Branch(id)!vars]_vars
  BY CycleSteps DEF BranchStep
<1> QED
  BY <1>1, <1>2, <1>3, PTL DEF Spec, BranchesKeepTheCycle

-----------------------------------------------------------------------------
(***************************************************************************)
(* How far an attach or a detach is from its return: the parts and awaits  *)
(* of a detach count down from 16, and an attach comes before its undo.    *)
(***************************************************************************)
PartsLeft(w) ==
    CASE w.pc = "vqueue" -> 12
      [] w.pc = "aqueue" -> 8
      [] w.pc = "decoder" -> 4
      [] w.pc = "sink" -> 0

AwaitsLeft(w) ==
    CASE w.wait = "no" -> 4
      [] w.wait = "peer" -> 3
      [] w.wait = "tee" -> 2
      [] w.wait = "element" -> 1

StepsLeft(w) ==
    CASE w.pc = "idle" -> 0
      [] w.pc \in Parts -> PartsLeft(w) + AwaitsLeft(w)
      [] w.pc = "sync" -> 17
      [] w.pc = "audio" -> 18
      [] w.pc = "video" -> 19
      [] w.pc = "attachSink" -> 20
      [] w.pc = "tees" -> 21
      [] w.pc = "pads" -> 22

\* The count is one for every place an operation can be in.
LEMMA StepsCounted ==
    ASSUME NEW w \in Works
    PROVE  /\ StepsLeft(w) \in 0..22
           /\ w.pc = "idle" <=> StepsLeft(w) = 0
           /\ w.pc \in Parts =>
                /\ PartsLeft(w) \in {0, 4, 8, 12} /\ AwaitsLeft(w) \in 1..4
                /\ StepsLeft(w) = PartsLeft(w) + AwaitsLeft(w)
                /\ StepsLeft(w) \in 1..16
           /\ w.pc \notin Parts \cup {"idle"} => StepsLeft(w) \in 17..22
<1>1. CASE w.pc \in Parts
  <2>1. PartsLeft(w) \in {0, 4, 8, 12}
    BY <1>1 DEF PartsLeft, Parts
  <2>2. AwaitsLeft(w) \in 1..4
    BY DEF AwaitsLeft, Works
  <2>3. StepsLeft(w) = PartsLeft(w) + AwaitsLeft(w)
    BY <1>1 DEF StepsLeft, Parts
  <2>4. w.pc # "idle"
    BY <1>1 DEF Parts
  <2> QED
    BY <1>1, <2>1, <2>2, <2>3, <2>4
<1>2. CASE w.pc \notin Parts
  BY <1>2 DEF StepsLeft, Works, Parts
<1> QED
  BY <1>1, <1>2

\* Attaching goes forward or over to the undo.
LEMMA AttachEnds ==
    ASSUME TypeInv, TypeInv', Attach
    PROVE  StepsLeft(work') < StepsLeft(work)
<1>1. work \in Works /\ work' \in Works
  BY DEF TypeInv, TypeOK
<1>2. ASSUME work.pc \in {"pads", "tees", "attachSink", "video", "audio", "sync"},
             work' = Idle \/ work'.pc = "vqueue"
      PROVE  StepsLeft(work') < StepsLeft(work)
  <2>1. StepsLeft(work') \in 0..16 /\ StepsLeft(work) \in 17..22
    BY <1>1, <1>2, StepsCounted DEF Idle, Parts
  <2> QED
    BY <2>1
<1>3. ASSUME \/ work.pc = "pads" /\ work'.pc = "tees"
             \/ work.pc = "tees" /\ work'.pc = "attachSink"
             \/ work.pc = "attachSink" /\ work'.pc = "video"
             \/ work.pc = "video" /\ work'.pc = "audio"
             \/ work.pc = "audio" /\ work'.pc = "sync"
      PROVE  StepsLeft(work') < StepsLeft(work)
  BY <1>3 DEF StepsLeft, Parts
<1>4. CASE ReadPads \/ CheckTees \/ AttachSink
  <2>1. \/ work.pc \in {"pads", "tees", "attachSink"} /\ (work' = Idle \/ work'.pc = "vqueue")
        \/ work.pc = "pads" /\ work'.pc = "tees"
        \/ work.pc = "tees" /\ work'.pc = "attachSink"
        \/ work.pc = "attachSink" /\ work'.pc = "video"
    BY <1>1, <1>4 DEF ReadPads, CheckTees, AttachSink, Refuse, AttachFails, Works
  <2> QED
    BY <1>2, <1>3, <2>1
<1>5. ASSUME NEW k \in Kinds, AttachMedia(k)
      PROVE  StepsLeft(work') < StepsLeft(work)
  <2>1. work.pc = k /\ k \in {"video", "audio"}
    BY <1>5 DEF AttachMedia, Kinds
  <2>2. \/ work' = [work EXCEPT !.pc = IF k = "video" THEN "audio" ELSE "sync"]
        \/ \E error : AttachFails(error)
    BY <1>5 DEF AttachMedia
  <2>3. work'.pc = (IF k = "video" THEN "audio" ELSE "sync") \/ work'.pc = "vqueue"
    BY <1>1, <2>2 DEF AttachFails, Works
  <2> QED
    BY <1>2, <1>3, <2>1, <2>3
<1>6. CASE AttachSync
  <2>1. work.pc = "sync" /\ (work' = Idle \/ work'.pc = "vqueue")
    BY <1>1, <1>6 DEF AttachSync, AttachFails, Works
  <2> QED
    BY <1>2, <2>1
<1> QED
  BY <1>4, <1>5, <1>6 DEF Attach

\* Detaching goes on to the next await, to the next part, or returns.
LEMMA DetachEnds ==
    ASSUME TypeInv, TypeInv', Detach
    PROVE  StepsLeft(work') < StepsLeft(work)
<1>1. work \in Works /\ work' \in Works /\ work.pc \in Parts
  BY DEF TypeInv, TypeOK, Detach, FindPart, FindTee, Awoken, CutOff, Detaching
<1>2. ASSUME work' = Idle PROVE StepsLeft(work') < StepsLeft(work)
  <2>1. StepsLeft(work') = 0 /\ StepsLeft(work) \in 1..16
    BY <1>1, <1>2, StepsCounted DEF Idle
  <2> QED
    BY <2>1
<1>3. ASSUME NEW w \in {"peer", "tee", "element"},
             \/ work.wait = "no"
             \/ work.wait = "peer" /\ w # "peer"
             \/ work.wait = "tee" /\ w = "element",
             work' = [work EXCEPT !.wait = w]
      PROVE  StepsLeft(work') < StepsLeft(work)
  <2>1. work'.pc = work.pc /\ work'.wait = w
    BY <1>1, <1>3 DEF Works
  <2>2. PartsLeft(work') = PartsLeft(work)
    BY <2>1 DEF PartsLeft
  <2>3. AwaitsLeft(work') < AwaitsLeft(work)
    BY <1>3, <2>1 DEF AwaitsLeft
  <2>4. PartsLeft(work) \in {0, 4, 8, 12} /\ AwaitsLeft(work) \in 1..4 /\ AwaitsLeft(work') \in 1..4
    BY <1>1, <2>1, StepsCounted
  <2> QED
    BY <1>1, <2>1, <2>2, <2>3, <2>4, StepsCounted
<1>4. ASSUME Advance PROVE StepsLeft(work') < StepsLeft(work)
  <2>1. CASE work.pc = "sink"
    BY <1>2, <1>4, <2>1 DEF Advance, DetachReturns
  <2>2. CASE work.pc # "sink"
    <3>1. /\ work'.wait = "no"
          /\ \/ work.pc = "vqueue" /\ work'.pc = "aqueue"
             \/ work.pc = "aqueue" /\ work'.pc = "decoder"
             \/ work.pc = "decoder" /\ work'.pc = "sink"
      BY <1>1, <1>4, <2>2 DEF Advance, Works, Parts
    <3>2. PartsLeft(work') = PartsLeft(work) - 4 /\ AwaitsLeft(work') = 4
      BY <3>1 DEF PartsLeft, AwaitsLeft
    <3>3. work'.pc \in Parts
      BY <3>1 DEF Parts
    <3>4. /\ StepsLeft(work') = PartsLeft(work') + AwaitsLeft(work')
          /\ StepsLeft(work) = PartsLeft(work) + AwaitsLeft(work)
          /\ PartsLeft(work) \in {0, 4, 8, 12} /\ AwaitsLeft(work) \in 1..4
      BY <1>1, <3>3, StepsCounted
    <3> QED
      BY <3>2, <3>4
  <2> QED
    BY <2>1, <2>2
<1>5. CASE FindPart
  BY <1>3, <1>4, <1>5 DEF FindPart, Await
<1>6. CASE FindTee
  BY <1>2, <1>3, <1>6 DEF FindTee, Await, DetachReturns
<1>7. CASE Awoken
  BY <1>3, <1>4, <1>7 DEF Awoken, Await
<1>8. CASE CutOff
  BY <1>2, <1>8 DEF CutOff, DetachReturns
<1> QED
  BY <1>5, <1>6, <1>7, <1>8 DEF Detach

\* Nothing but its own steps moves an operation.
LEMMA OperationSteps ==
    TypeInv /\ [Next]_vars =>
        [work.pc # "idle" /\ work' # work => StepsLeft(work') < StepsLeft(work)]_vars
<1> SUFFICES ASSUME TypeInv, TypeInv', [Next]_vars, work.pc # "idle", work' # work
             PROVE  StepsLeft(work') < StepsLeft(work)
  BY NextType
<1>1. CASE Attach \/ Detach
  BY <1>1, AttachEnds, DetachEnds
<1>2. CASE ~Attach /\ ~Detach
  <2>1. Idle.pc = "idle"
    BY DEF Idle
  <2> QED
    BY <1>2, <2>1
       DEF Next, Actor, AddBranch, RemoveBranch, ServeEcho, Demuxer, PadAdded, CapsSet, PadRemoved,
           NoMorePads, LinkPad,
           Bus, ReadError, PipelineStored, CleanUp, Closure, SinkLeaves, vars, actor
<1> QED
  BY <1>1, <1>2

(***************************************************************************)
(* No attach and no detach goes round in circles: each takes at most 22    *)
(* steps, awaits included and a failed attach with its undo, whatever pads *)
(* and tees come meanwhile and whatever other detaches left behind.  What  *)
(* is left to ActorComesBack is that the steps are taken, and the bound of *)
(* remove_branch_bounded makes those that wait for a closure               *)
(* (src/stream/branch.rs:84-306, src/signal/coordinator.rs:642-661).       *)
(***************************************************************************)
THEOREM OperationsEnd ==
    Spec => /\ [](StepsLeft(work) \in 0..22)
            /\ [][work.pc # "idle" /\ work' # work => StepsLeft(work') < StepsLeft(work)]_vars
<1>1. TypeInv => StepsLeft(work) \in 0..22
  BY StepsCounted DEF TypeInv, TypeOK
<1> QED
  BY <1>1, InitType, NextType, OperationSteps, PTL DEF Spec
=============================================================================
