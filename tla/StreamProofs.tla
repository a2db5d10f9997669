---------------------------- MODULE StreamProofs ----------------------------
(***************************************************************************)
(* Proofs about module Stream, for any number of viewers, pads and         *)
(* detaches, with and without --decode-video: its types, what the tees     *)
(* carry and what becomes of an input that is half linked, whom errors are *)
(* reported for, and that no tee is left paused.                           *)
(***************************************************************************)
EXTENDS Stream, TLAPS

(***************************************************************************)
(* What the type invariant needs besides itself: the actor is at a viewer  *)
(* exactly while it works, it looks for a peer of queues only, and what    *)
(* hangs on a tee, or works on one, is a queue of a tee that is there.     *)
(***************************************************************************)
ActorOK ==
    /\ work.pc = "idle" => work = Idle
    /\ work.pc # "idle" => work.id \in Ids
    /\ work.wait # "no" => Detaching
    /\ work.wait \in {"peer", "tee"} => work.pc \in Queues

TeesOK ==
    /\ \A id \in Ids : \A q \in teePads[id] : TeeOf[q] \in tees
    /\ \A c \in closures : c.step \in {"pause", "release", "resume"} =>
          c.part \in Queues /\ TeeOf[c.part] \in tees

TypeInv == TypeOK /\ ActorOK /\ TeesOK

\* The initial state has the types.
LEMMA InitType == Init => TypeInv
  BY StreamAssumption, IdAssumption
  DEF Init, TypeInv, TypeOK, ActorOK, TeesOK, Idle, Works, Entries, Detaching, Parts

\* What a sequence is with one element more at its end.
LEMMA Appended ==
    ASSUME NEW S, NEW s \in Seq(S), NEW e \in S
    PROVE  /\ Append(s, e) \in Seq(S) /\ Len(Append(s, e)) = Len(s) + 1
           /\ Append(s, e)[Len(s) + 1] = e /\ \A i \in 1..Len(s) : Append(s, e)[i] = s[i]
  OBVIOUS

\* What pads can carry.
LEMMA KnownMedia ==
    /\ DOMAIN Media = {"video", "audio", "other"} /\ Media["video"] = {"h264", "mpeg2"}
    /\ Media["audio"] = {"aac"} /\ Media["other"] = {"subtitle"}
  BY DEF Media

\* What the codec table answers: a tee for what its kind of pad carries.
LEMMA Codecs ==
    /\ \A m : Egress(m) \in Kinds \cup {"none"}
    /\ \A kind \in DOMAIN Media : \A m \in Media[kind] : Egress(m) \in {kind, "none"}
    /\ Egress("none") = "none" /\ Egress("gone") = "none"
    /\ "none" \notin Kinds /\ Kinds \subseteq DOMAIN Media
    /\ \A kind \in DOMAIN Media : Media[kind] \cap {"none", "gone"} = {}
  BY KnownMedia DEF Kinds, Egress

\* The types of the demuxer's side, unfolded.
LEMMA InputTypes ==
    ASSUME TypeInv
    PROVE  /\ pads \in Seq(Pads) /\ Len(pads) \in Nat /\ tees \subseteq Kinds
           /\ walk \in 0..Len(pads) /\ feed \in [Kinds -> 0..Len(pads)]
           /\ \A i \in 1..Len(pads) :
                 /\ pads[i] \in Pads /\ pads[i].kind \in DOMAIN Media
                 /\ pads[i].caps \in Media[pads[i].kind] \cup {"none", "gone"}
                 /\ Egress(pads[i].caps) \in {pads[i].kind, "none"}
<1>1. pads \in Seq(Pads)
  BY DEF TypeInv, TypeOK
<1>2. ASSUME NEW i \in 1..Len(pads)
      PROVE  /\ pads[i] \in Pads /\ pads[i].kind \in DOMAIN Media
             /\ pads[i].caps \in Media[pads[i].kind] \cup {"none", "gone"}
             /\ Egress(pads[i].caps) \in {pads[i].kind, "none"}
  <2>0. pads[i] \in Pads
    BY <1>1, <1>2
  <2>1. pads[i] \in Pads /\ pads[i].kind \in DOMAIN Media
    BY <2>0 DEF Pads
  <2>2. pads[i].caps \in Media[pads[i].kind] \cup {"none", "gone"}
    BY <1>2 DEF TypeInv, TypeOK
  <2> QED
    BY <2>1, <2>2, Codecs
<1>3. /\ Len(pads) \in Nat /\ tees \subseteq Kinds
      /\ walk \in 0..Len(pads) /\ feed \in [Kinds -> 0..Len(pads)]
  BY <1>1 DEF TypeInv, TypeOK
<1> QED
  BY <1>1, <1>2, <1>3

\* A pad is added at the end.
LEMMA AddedPad ==
    ASSUME TypeInv, NEW kind \in DOMAIN Media, NEW caps, PadAdded(kind, caps)
    PROVE  /\ pads' \in Seq(Pads)
           /\ caps \in Media[kind] \cup {"none"} /\ caps # "gone"
           /\ Len(pads') = Len(pads) + 1 /\ pads'[Len(pads')] = [kind |-> kind, caps |-> caps]
           /\ \A i \in 1..Len(pads) : pads'[i] = pads[i]
<1>1. caps \in Media[kind] \cup {"none"}
  BY DEF PadAdded
<1>2. caps # "gone"
  BY <1>1, Codecs
<1> DEFINE pad == [kind |-> kind, caps |-> caps]
<1>3. pads' = Append(pads, pad) /\ pads \in Seq(Pads) /\ pad \in Pads
  <2>1. pad \in Pads
    BY <1>1, KnownMedia DEF Pads
  <2> QED
    BY <2>1, InputTypes DEF PadAdded
<1> HIDE DEF pad
<1>4. pads' \in Seq(Pads) /\ Len(pads') = Len(pads) + 1 /\ pads'[Len(pads')] = pad /\ \A i \in 1..Len(pads) : pads'[i] = pads[i]
  BY <1>3, Appended
<1> QED
  BY <1>1, <1>2, <1>4 DEF pad

\* A pad gets its caps, or goes; it stays the pad it was.
LEMMA ChangedPad ==
    ASSUME TypeInv, NEW i \in 1..Len(pads), CapsSet(i) \/ PadRemoved(i)
    PROVE  /\ pads' \in Seq(Pads)
           /\ pads'[i].caps \in Media[pads[i].kind] \cup {"gone"}
           /\ Len(pads') = Len(pads) /\ pads[i].caps # "gone" /\ pads'[i].kind = pads[i].kind
           /\ \A j \in 1..Len(pads) : pads'[j].kind = pads[j].kind /\ (j # i => pads'[j] = pads[j])
           /\ CapsSet(i) => pads[i].caps = "none" /\ pads'[i].caps # "gone"
           /\ PadRemoved(i) => pads'[i].caps = "gone"
<1>0. pads \in Seq(Pads) /\ pads[i] \in Pads /\ pads[i].kind \in DOMAIN Media
  BY InputTypes
<1>1. PICK caps \in Media[pads[i].kind] \cup {"gone"} :
        /\ pads' = [pads EXCEPT ![i].caps = caps]
        /\ CapsSet(i) => pads[i].caps = "none" /\ caps \in Media[pads[i].kind]
        /\ PadRemoved(i) => caps = "gone" /\ pads[i].caps # "gone"
  <2>1. CASE CapsSet(i)
    <3>1. PICK m \in Media[pads[i].kind] : pads' = [pads EXCEPT ![i].caps = m]
      BY <2>1 DEF CapsSet
    <3>2. m # "gone" /\ pads[i].caps = "none"
      BY <1>0, <2>1, <3>1, Codecs DEF CapsSet
    <3>3. ~PadRemoved(i)
      <4>1. pads'[i].caps = m
        BY <1>0, <3>1 DEF Pads
      <4>2. PadRemoved(i) => pads'[i].caps = "gone"
        BY <1>0 DEF PadRemoved, Pads
      <4> QED
        BY <3>2, <4>1, <4>2
    <3> QED
      BY <3>1, <3>2, <3>3
  <2>2. CASE ~CapsSet(i)
    BY <2>2 DEF PadRemoved, There
  <2> QED
    BY <2>1, <2>2
<1>2. /\ Len(pads') = Len(pads)
      /\ \A j \in 1..Len(pads) : pads'[j] = IF j = i THEN [pads[i] EXCEPT !.caps = caps] ELSE pads[j]
  BY <1>0, <1>1
<1>3. /\ pads'[i].kind = pads[i].kind /\ pads'[i].caps = caps
      /\ [pads[i] EXCEPT !.caps = caps] \in Pads
  BY <1>0, <1>1, <1>2, KnownMedia DEF Pads
<1>4. pads' \in Seq(Pads)
  BY <1>0, <1>1, <1>3
<1> QED
  BY <1>0, <1>1, <1>2, <1>3, <1>4, Codecs

\* What it takes to keep the types when only the demuxer's side changes.
LEMMA PadsType ==
    ASSUME TypeInv, UNCHANGED <<handle, branches, actor, echo>>,
           pads' \in Seq(Pads), Len(pads') <= MaxPads,
           \A i \in 1..Len(pads') : pads'[i].caps \in Media[pads'[i].kind] \cup {"none", "gone"},
           feed' \in [Kinds -> 0..Len(pads')], walk' \in 0..Len(pads'),
           tees \subseteq tees', tees' \subseteq Kinds
    PROVE  TypeInv'
  BY DEF TypeInv, TypeOK, ActorOK, TeesOK, Detaching, branches, actor

\* The demuxer, and the streaming thread's callbacks, keep the types.
LEMMA DemuxerType == TypeInv /\ Demuxer => TypeInv'
<1> SUFFICES ASSUME TypeInv, Demuxer PROVE TypeInv'
  OBVIOUS
<1>0. /\ pads \in Seq(Pads) /\ Len(pads) \in Nat /\ Len(pads) <= MaxPads /\ tees \subseteq Kinds
      /\ walk \in 0..Len(pads) /\ feed \in [Kinds -> 0..Len(pads)]
      /\ \A i \in 1..Len(pads) : pads[i].caps \in Media[pads[i].kind] \cup {"none", "gone"}
  BY InputTypes DEF TypeInv, TypeOK
<1>1. ASSUME NEW kind \in DOMAIN Media, NEW caps, PadAdded(kind, caps) PROVE TypeInv'
  <2>1. /\ pads' \in Seq(Pads) /\ caps \in Media[kind] \cup {"none"} /\ Len(pads') = Len(pads) + 1
        /\ pads'[Len(pads')] = [kind |-> kind, caps |-> caps]
        /\ \A i \in 1..Len(pads) : pads'[i] = pads[i]
    BY <1>1, AddedPad
  <2>2. \A i \in 1..Len(pads') : pads'[i].caps \in Media[pads'[i].kind] \cup {"none", "gone"}
    <3>1. ASSUME NEW i \in 1..Len(pads) PROVE pads'[i].caps \in Media[pads'[i].kind] \cup {"none", "gone"}
      BY <1>0, <2>1
    <3>2. pads'[Len(pads')].kind = kind /\ pads'[Len(pads')].caps = caps
      BY <2>1
    <3>3. 1..Len(pads') = 1..Len(pads) \cup {Len(pads')}
      BY <1>0, <2>1
    <3> QED
      BY <2>1, <3>1, <3>2, <3>3
  <2>3. Len(pads') <= MaxPads /\ walk' \in 0..Len(pads') /\ UNCHANGED <<tees, handle, branches, actor, echo>>
    <3>1. Len(pads) < MaxPads /\ walk' = walk /\ UNCHANGED <<tees, handle, branches, actor, echo>>
      BY <1>1 DEF PadAdded
    <3> QED
      BY <1>0, <2>1, <3>1, StreamAssumption
  <2>4. feed' \in [Kinds -> 0..Len(pads')]
    <3>1. \A k \in Kinds : feed[k] \in 0..Len(pads') /\ Len(pads) + 1 \in 0..Len(pads')
      BY <1>0, <2>1
    <3> QED
      BY <1>1, <3>1 DEF PadAdded
  <2> QED
    BY <1>0, <2>1, <2>2, <2>3, <2>4, PadsType
<1>2. CASE NoMorePads
  BY <1>0, <1>2, PadsType DEF NoMorePads
<1>3. CASE LinkPad
  <2>1. walk \in 1..Len(pads)
    BY <1>0, <1>3 DEF LinkPad
  <2>2. tees \subseteq tees' /\ tees' \subseteq Kinds
    BY <1>0, <1>3, <2>1, Codecs DEF LinkPad, Builds
  <2>3. walk' \in 0..Len(pads)
    BY <1>0, <1>3, <2>1 DEF LinkPad, NextPad
  <2>4. UNCHANGED <<pads, feed, handle, branches, actor, echo>>
    BY <1>3 DEF LinkPad
  <2> QED
    BY <1>0, <2>2, <2>3, <2>4, PadsType
<1>4. ASSUME NEW i \in 1..Len(pads), CapsSet(i) \/ PadRemoved(i) PROVE TypeInv'
  <2>1. /\ pads' \in Seq(Pads) /\ Len(pads') = Len(pads)
        /\ pads'[i].caps \in Media[pads[i].kind] \cup {"gone"}
        /\ \A j \in 1..Len(pads) : pads'[j].kind = pads[j].kind /\ (j # i => pads'[j] = pads[j])
    BY <1>4, ChangedPad
  <2>2. \A j \in 1..Len(pads') : pads'[j].caps \in Media[pads'[j].kind] \cup {"none", "gone"}
    BY <1>0, <2>1
  <2>3. walk' \in 0..Len(pads') /\ UNCHANGED <<tees, handle, branches, actor, echo>>
    BY <1>0, <1>4, <2>1 DEF CapsSet, PadRemoved
  <2>4. feed' \in [Kinds -> 0..Len(pads')]
    BY <1>0, <1>4, <2>1 DEF CapsSet, PadRemoved
  <2> QED
    BY <1>0, <2>1, <2>2, <2>3, <2>4, PadsType
<1> QED
  BY <1>1, <1>2, <1>3, <1>4 DEF Demuxer

\* The idle record is one.
LEMMA IdleWorks == Idle \in Works
  BY DEF Works, Idle

\* What it takes to keep the types when only the actor's own state changes.
LEMMA ActorType ==
    ASSUME TypeInv, UNCHANGED <<input, handle, branches, echo>>,
           work' \in Works, ActorOK', detaches' \in [Ids -> Nat], entry' \in [Ids -> Entries]
    PROVE  TypeInv'
  BY DEF TypeInv, TypeOK, TeesOK, input, branches

\* An attach that goes on, is refused, or fails keeps the actor's state in order.
LEMMA AttachActor ==
    ASSUME TypeInv, Attaching,
           \/ \E error \in {"NotReady", "Transient"} : Refuse(work.id, error)
           \/ \E error \in {"tee", "element"} : AttachFails(error)
           \/ \E pc \in {"tees", "attachSink", "video", "audio", "sync"} :
                 /\ work' = [work EXCEPT !.pc = pc] \/ work' = [work EXCEPT !.pc = pc, !.seen = MediaPads]
                 /\ UNCHANGED <<detaches, entry>>
    PROVE  work' \in Works /\ ActorOK' /\ detaches' \in [Ids -> Nat] /\ entry' \in [Ids -> Entries]
<1>1. work \in Works /\ work.id \in Ids /\ work.wait = "no" /\ MediaPads \in SUBSET (1..MaxPads)
  BY StreamAssumption DEF MediaPads, There, TypeInv, TypeOK, ActorOK, Detaching, Attaching, Parts
<1>2. detaches \in [Ids -> Nat] /\ entry \in [Ids -> Entries]
  BY DEF TypeInv, TypeOK
<1>3. ASSUME NEW error \in {"NotReady", "Transient"}, Refuse(work.id, error)
      PROVE  work' \in Works /\ ActorOK' /\ detaches' \in [Ids -> Nat] /\ entry' \in [Ids -> Entries]
  <2>1. entry' \in [Ids -> Entries]
    BY <1>1, <1>2, <1>3 DEF Refuse, Entries
  <2> QED
    BY <1>2, <1>3, <2>1, IdleWorks DEF Refuse, ActorOK, Idle
<1>4. ASSUME NEW error \in {"tee", "element"}, AttachFails(error)
      PROVE  work' \in Works /\ ActorOK' /\ detaches' \in [Ids -> Nat] /\ entry' \in [Ids -> Entries]
  <2>1. work' = [work EXCEPT !.pc = "vqueue", !.cause = "undo", !.error = error]
    BY <1>4 DEF AttachFails
  <2>2. work' \in Works
    BY <1>1, <2>1, <1>4 DEF Works, Parts
  <2>3. work'.pc = "vqueue" /\ work'.id = work.id /\ work'.wait = "no"
    BY <1>1, <2>1 DEF Works
  <2>4. detaches' \in [Ids -> Nat]
    BY <1>1, <1>2, <1>4 DEF AttachFails
  <2> QED
    BY <1>1, <1>2, <1>4, <2>2, <2>3, <2>4 DEF AttachFails, ActorOK, Detaching, Parts
<1>5. ASSUME NEW pc \in {"tees", "attachSink", "video", "audio", "sync"},
             work' = [work EXCEPT !.pc = pc] \/ work' = [work EXCEPT !.pc = pc, !.seen = MediaPads]
      PROVE  work' \in Works /\ ActorOK'
  <2>1. work' \in Works
    BY <1>1, <1>5 DEF Works, Parts
  <2>2. work'.pc = pc /\ work'.id = work.id /\ work'.wait = "no"
    BY <1>1, <1>5 DEF Works
  <2> QED
    BY <1>1, <2>1, <2>2 DEF ActorOK
<1> QED
  BY <1>2, <1>3, <1>4, <1>5

\* What an attach does keeps the types.
LEMMA AttachType == TypeInv /\ Attach => TypeInv'
<1> SUFFICES ASSUME TypeInv, Attach PROVE TypeInv'
  OBVIOUS
<1>0. Attaching /\ work.id \in Ids
  BY DEF Attach, ReadPads, CheckTees, AttachSink, AttachMedia, AttachSync, Attaching, Kinds,
         TypeInv, ActorOK
<1>1. CASE ReadPads
  BY <1>0, <1>1, ActorType, AttachActor DEF ReadPads
<1>2. CASE CheckTees
  BY <1>0, <1>2, ActorType, AttachActor DEF CheckTees
<1>3. CASE AttachSink
  <2>1. work' \in Works /\ ActorOK' /\ detaches' \in [Ids -> Nat] /\ entry' \in [Ids -> Entries]
    BY <1>0, <1>3, AttachActor DEF AttachSink
  <2>2. parts' \in [Ids -> SUBSET Parts]
    <3>1. parts \in [Ids -> SUBSET Parts] /\ {"sink"} \subseteq Parts
      BY DEF TypeInv, TypeOK, Parts
    <3> QED
      BY <1>0, <1>3, <3>1 DEF AttachSink
  <2> QED
    BY <1>3, <2>1, <2>2 DEF AttachSink, TypeInv, TypeOK, TeesOK, input
<1>4. ASSUME NEW k \in Kinds, AttachMedia(k) PROVE TypeInv'
  <2> DEFINE next == IF k = "video" THEN "audio" ELSE "sync"
  <2>1. next \in {"tees", "attachSink", "video", "audio", "sync"} /\ next = IF k = "video" THEN "audio" ELSE "sync"
    OBVIOUS
  <2> HIDE DEF next
  <2>2. work' \in Works /\ ActorOK' /\ detaches' \in [Ids -> Nat] /\ entry' \in [Ids -> Entries]
    BY <1>0, <1>4, <2>1, AttachActor DEF AttachMedia
  <2>3. CASE k \notin PadKinds \cap tees
    BY <1>4, <2>2, <2>3, ActorType DEF AttachMedia, branches
  <2>4. CASE k \in PadKinds \cap tees
    <3>1. PICK n \in 0..Len(Elements(k)), linked \in BOOLEAN :
            /\ parts' = [parts EXCEPT ![work.id] = @ \cup {Elements(k)[i] : i \in 1..n}]
            /\ teePads' = [teePads EXCEPT ![work.id] = IF linked THEN @ \cup {Queue[k]} ELSE @]
            /\ paused' \subseteq paused
      BY <1>4, <2>4 DEF AttachMedia
    <3>2. {Elements(k)[i] : i \in 1..n} \subseteq Parts
      BY DEF Elements, Queue, Kinds, Parts
    <3>3. Queue[k] \in Queues /\ TeeOf[Queue[k]] = k
      BY DEF Queue, Queues, Kinds, TeeOf
    <3>4. /\ parts' \in [Ids -> SUBSET Parts] /\ teePads' \in [Ids -> SUBSET Queues]
          /\ \A id \in Ids : \A q \in teePads'[id] : TeeOf[q] \in tees
      BY <1>0, <2>4, <3>1, <3>2, <3>3 DEF TypeInv, TypeOK, TeesOK
    <3> QED
      BY <1>4, <2>2, <3>1, <3>4 DEF AttachMedia, TypeInv, TypeOK, TeesOK, input
  <2> QED
    BY <2>3, <2>4
<1>5. CASE AttachSync
  <2>1. CASE AttachFails("element")
    BY <1>0, <1>5, <2>1, ActorType, AttachActor DEF AttachSync
  <2>2. CASE ~AttachFails("element")
    <3>1. work' = Idle /\ UNCHANGED detaches /\ entry' = [entry EXCEPT ![work.id] = "mapped"]
      BY <1>5, <2>2 DEF AttachSync
    <3>2. detaches' \in [Ids -> Nat] /\ entry' \in [Ids -> Entries]
      BY <1>0, <3>1 DEF TypeInv, TypeOK, Entries
    <3>3. work' \in Works /\ ActorOK'
      BY <3>1, IdleWorks DEF ActorOK, Idle
    <3> QED
      BY <1>5, <3>2, <3>3, ActorType DEF AttachSync
  <2> QED
    BY <2>1, <2>2
<1> QED
  BY <1>1, <1>2, <1>3, <1>4, <1>5 DEF Attach

\* What a detach does keeps the types.
LEMMA DetachType == TypeInv /\ Detach => TypeInv'
<1> SUFFICES ASSUME TypeInv, Detach PROVE TypeInv'
  OBVIOUS
<1> USE DEF TypeInv, TypeOK, ActorOK, TeesOK, Detaching, Works, Entries, Parts, input, branches, Idle
<1>0. work.id \in Ids /\ UNCHANGED <<input, handle, parts, teePads, paused>> /\ Detaching
  BY DEF Detach, FindPart, FindTee, Awoken, CutOff
<1>1. ASSUME NEW job \in {"tee", "element"}, Await(job), job = "tee" => work.pc \in teePads[work.id]
      PROVE TypeInv'
  <2> DEFINE c == [id |-> work.id, part |-> work.pc, job |-> job, detach |-> detaches[work.id],
                   step |-> IF job = "tee" THEN "pause" ELSE "stop"]
  <2>1. c \in Closures /\ closures' = closures \cup {c}
    BY <1>0, <1>1 DEF Await, Closures
  <2>2. c.step \in {"pause", "release", "resume"} => c.part \in Queues /\ TeeOf[c.part] \in tees
    BY <1>0, <1>1
  <2> HIDE DEF c
  <2> QED
    BY <1>0, <1>1, <2>1, <2>2 DEF Await
<1>2. ASSUME NEW result \in {"Ok", "Fatal", "Transient"}, DetachReturns(result), UNCHANGED closures
      PROVE TypeInv'
  BY <1>0, <1>2 DEF DetachReturns
<1>3. ASSUME Advance, UNCHANGED closures PROVE TypeInv'
  <2>1. CASE work.pc = "sink"
    BY <1>2, <1>3, <2>1 DEF Advance
  <2>2. CASE work.pc # "sink"
    <3>0. PICK pc \in Parts : work' = [work EXCEPT !.wait = "no", !.pc = pc]
      BY <1>0, <1>3, <2>2 DEF Advance
    <3>1. work \in Works
      BY DEF TypeInv, TypeOK
    <3>2. work' \in Works /\ work'.id = work.id /\ work'.pc \in Parts /\ work'.wait = "no"
      BY <3>0, <3>1 DEF Works, Parts
    <3> QED
      BY <1>0, <1>3, <2>2, <3>2, ActorType DEF Advance
  <2> QED
    BY <2>1, <2>2
<1>4. CASE FindPart
  <2>1. CASE work.pc \notin parts[work.id]
    BY <1>3, <1>4, <2>1 DEF FindPart
  <2>2. CASE work.pc \in parts[work.id] \ teePads[work.id]
    BY <1>1, <1>4, <2>2 DEF FindPart
  <2>3. CASE work.pc \in parts[work.id] \cap teePads[work.id]
    BY <1>0, <1>4, <2>3 DEF FindPart
  <2> QED
    BY <2>1, <2>2, <2>3
<1>5. CASE FindTee
  BY <1>1, <1>2, <1>5 DEF FindTee
<1>6. CASE Awoken
  BY <1>1, <1>3, <1>6 DEF Awoken
<1>7. CASE CutOff
  BY <1>2, <1>7 DEF CutOff
<1> QED
  BY <1>4, <1>5, <1>6, <1>7 DEF Detach

\* So do the calls that begin either.
LEMMA CallType ==
    TypeInv /\ (\E id \in Ids : \/ AddBranch(id) \/ ServeEcho(id)
                                \/ \E cause \in {"required", "dropped"} : RemoveBranch(id, cause))
    => TypeInv'
<1> SUFFICES ASSUME TypeInv, NEW id \in Ids,
                    \/ AddBranch(id) \/ ServeEcho(id)
                    \/ \E cause \in {"required", "dropped"} : RemoveBranch(id, cause)
             PROVE TypeInv'
  OBVIOUS
<1>1. CASE AddBranch(id)
  <2>1. /\ work' \in Works /\ (work' = Idle \/ (work'.id = id /\ work'.pc = "pads" /\ work'.wait = "no"))
        /\ entry' \in [Ids -> Entries] /\ detaches' \in [Ids -> Nat]
    <3>1. entry' \in [Ids -> Entries] /\ detaches' \in [Ids -> Nat]
      BY <1>1 DEF AddBranch, Refuse, Entries, TypeInv, TypeOK
    <3>2. work' = Idle \/ work' = [Idle EXCEPT !.pc = "pads", !.id = id]
      BY <1>1 DEF AddBranch, Refuse
    <3>3. CASE work' = Idle
      BY <3>1, <3>3, IdleWorks
    <3>4. CASE work' # Idle
      BY <3>1, <3>2, <3>4 DEF Idle, Works, Parts
    <3> QED
      BY <3>3, <3>4
  <2> QED
    BY <1>1, <2>1, ActorType DEF AddBranch, ActorOK, Idle
<1>2. ASSUME NEW cause \in {"required", "dropped", "echo"}, RemoveBranch(id, cause) PROVE TypeInv'
  <2>1. /\ work' \in Works /\ (work' = Idle \/ (work'.id = id /\ work'.pc = "vqueue" /\ work'.wait = "no"))
        /\ entry' \in [Ids -> Entries] /\ detaches' \in [Ids -> Nat]
    <3>1. entry' \in [Ids -> Entries] /\ detaches' \in [Ids -> Nat]
      BY <1>2 DEF RemoveBranch, Entries, TypeInv, TypeOK
    <3>2. work' = Idle \/ work' = [Idle EXCEPT !.pc = "vqueue", !.id = id, !.cause = cause]
      BY <1>2 DEF RemoveBranch
    <3>3. CASE work' = Idle
      BY <3>1, <3>3, IdleWorks
    <3>4. CASE work' # Idle
      BY <3>1, <3>2, <3>4 DEF Idle, Works, Parts
    <3> QED
      BY <3>3, <3>4
  <2>2. echo' \in [Ids -> {"none", "waiting", "answered"}]
    BY <1>2 DEF RemoveBranch, TypeInv, TypeOK
  <2>3. ActorOK'
    BY <2>1 DEF ActorOK, Idle, Detaching, Parts
  <2> QED
    BY <1>2, <2>1, <2>2, <2>3 DEF RemoveBranch, TypeInv, TypeOK, TeesOK, input, branches
<1>3. CASE ServeEcho(id)
  <2>1. CASE RemoveBranch(id, "echo")
    BY <1>2, <2>1
  <2>2. CASE ~RemoveBranch(id, "echo")
    BY <1>3, <2>2
    DEF ServeEcho, TypeInv, TypeOK, ActorOK, TeesOK, Detaching, input, branches, actor
  <2> QED
    BY <2>1, <2>2
<1> QED
  BY <1>1, <1>2, <1>3

\* The closures keep the types.
LEMMA ClosureType == ASSUME TypeInv, NEW c \in closures, Closure(c) PROVE TypeInv'
<1> USE DEF TypeInv, TypeOK, ActorOK, TeesOK, Detaching, input, actor
<1>0. c \in Closures /\ UNCHANGED <<pads, feed, walk, tees, handle, work, detaches, entry>>
  BY DEF Closure
<1>1. ASSUME NEW step \in {"release", "resume", "stopping", "remove"}, Step(c, step),
             c.step \in {"pause", "release"} \/ step \in {"stopping", "remove"}
      PROVE closures' \subseteq Closures /\ TeesOK!2'
  <2> DEFINE d == [c EXCEPT !.step = step]
  <2>1. d \in Closures /\ d.part = c.part /\ d.step = step /\ closures' = (closures \ {c}) \cup {d}
    BY <1>0, <1>1 DEF Step, Closures
  <2> HIDE DEF d
  <2> QED
    BY <1>0, <1>1, <2>1
<1>2. CASE TeePauses(c)
  BY <1>0, <1>1, <1>2 DEF TeePauses
<1>3. CASE PadReleased(c)
  <2>1. c.id \in Ids
    BY <1>0 DEF Closures
  <2> QED
    BY <1>0, <1>1, <1>3, <2>1 DEF PadReleased
<1>4. CASE TeeResumes(c)
  BY <1>0, <1>4 DEF TeeResumes
<1>5. CASE ElementStops(c)
  <2>1. c.id \in Ids
    BY <1>0 DEF Closures
  <2> QED
    BY <1>0, <1>1, <1>5, <2>1 DEF ElementStops
<1>6. CASE ElementStopped(c)
  BY <1>0, <1>1, <1>6 DEF ElementStopped
<1>7. CASE ElementRemoved(c)
  BY <1>0, <1>7 DEF ElementRemoved
<1> QED
  BY <1>2, <1>3, <1>4, <1>5, <1>6, <1>7 DEF Closure

\* Every step keeps the types.
LEMMA NextType == TypeInv /\ [Next]_vars => TypeInv'
<1> SUFFICES ASSUME TypeInv, [Next]_vars PROVE TypeInv'
  OBVIOUS
<1>1. CASE Actor
  BY <1>1, AttachType, DetachType, CallType DEF Actor
<1>2. CASE Demuxer
  BY <1>2, DemuxerType
<1>3. CASE \E c \in closures : Closure(c)
  BY <1>3, ClosureType
<1> USE DEF TypeInv, TypeOK, ActorOK, TeesOK, Detaching, input, branches, actor
<1>4. CASE Bus \/ PipelineStored \/ CleanUp
  BY <1>4 DEF Bus, ReadError, PipelineStored, CleanUp
<1>5. ASSUME NEW id \in Ids, SinkLeaves(id) PROVE TypeInv'
  BY <1>5 DEF SinkLeaves
<1>6. CASE UNCHANGED vars
  BY <1>6 DEF vars
<1> QED
  BY <1>1, <1>2, <1>3, <1>4, <1>5, <1>6 DEF Next

(***************************************************************************)
(* Every variable keeps its type, and only tees that are in the pipeline   *)
(* are ever paused (src/stream/branch.rs:266-300).                         *)
(***************************************************************************)
THEOREM TypeCorrect == Spec => []TypeOK
<1>1. TypeInv => TypeOK
  BY DEF TypeInv
<1> QED
  BY <1>1, InitType, NextType, PTL DEF Spec

-----------------------------------------------------------------------------
(***************************************************************************)
(* The demuxer's side.  An ingest queue is fed by a pad of its kind that   *)
(* has its caps; a walk has built a tee for every pad it has passed and    *)
(* that is still there; and while no pad has gone, the first pad is one    *)
(* that a walk after the first tee does not get past.                      *)
(***************************************************************************)
FeedOK ==
    \A k \in Kinds : feed[k] # 0 =>
        feed[k] \in There /\ pads[feed[k]].kind = k /\ pads[feed[k]].caps # "none"

WalkOK ==
    /\ \A i \in 1..(walk - 1) : i \in There => Egress(pads[i].caps) \in tees
    /\ \A k \in tees : \E i \in 1..Len(pads) : pads[i].kind = k
    /\ tees # {} /\ ~PadLost => Egress(pads[1].caps) \in tees

InputInv == TypeInv /\ FeedOK /\ WalkOK /\ TeesCarryTheirMedia

\* An input that is not ready though it has a tee: no walk changes it any more.
Stuck ==
    \/ PadLost
    \/ tees # {} /\ walk \in {0, 1} /\ ~InputReady

\* Only the demuxer and its callbacks touch its side.
LEMMA OthersLeaveInput == [Next]_vars /\ ~Demuxer => UNCHANGED input
  BY DEF Next, Actor, Attach, Detach, ReadPads, CheckTees, AttachSink, AttachMedia, AttachSync,
         FindPart, FindTee, Awoken, CutOff, AddBranch, ServeEcho, RemoveBranch, Bus, ReadError,
         PipelineStored, CleanUp, Closure, SinkLeaves, vars, input

\* No step takes a pad out of the list, or brings one back.
LEMMA PadsGrow ==
    ASSUME TypeInv, Demuxer
    PROVE  /\ Len(pads) <= Len(pads') /\ Len(pads') \in Nat
           /\ \A i \in 1..Len(pads) :
                 /\ i \in 1..Len(pads') /\ pads'[i].kind = pads[i].kind
                 /\ i \in There' => i \in There
           /\ tees \subseteq tees'
<1>0. Len(pads) \in Nat
  BY InputTypes
<1>1. ASSUME NEW kind \in DOMAIN Media, NEW caps, PadAdded(kind, caps)
      PROVE  /\ Len(pads) <= Len(pads') /\ Len(pads') \in Nat /\ tees' = tees
             /\ \A i \in 1..Len(pads) : pads'[i] = pads[i]
  BY <1>0, <1>1, AddedPad DEF PadAdded
<1>2. ASSUME NEW i \in 1..Len(pads), CapsSet(i) \/ PadRemoved(i)
      PROVE  /\ Len(pads) = Len(pads') /\ pads[i].caps # "gone" /\ tees' = tees
             /\ \A j \in 1..Len(pads) : pads'[j].kind = pads[j].kind /\ (j # i => pads'[j] = pads[j])
  BY <1>2, ChangedPad DEF CapsSet, PadRemoved
<1>3. CASE \E kind \in DOMAIN Media : \E caps : PadAdded(kind, caps)
  BY <1>0, <1>1, <1>3 DEF There
<1>4. CASE \E i \in 1..Len(pads) : CapsSet(i) \/ PadRemoved(i)
  BY <1>0, <1>2, <1>4 DEF There
<1>5. CASE NoMorePads \/ LinkPad
  BY <1>0, <1>5 DEF NoMorePads, LinkPad, There
<1> QED
  BY <1>3, <1>4, <1>5 DEF Demuxer

\* A new pad feeds its queue only where none does.
LEMMA PadAddedInput ==
    ASSUME InputInv, NEW kind \in DOMAIN Media, NEW caps, PadAdded(kind, caps)
    PROVE  FeedOK' /\ WalkOK' /\ TeesCarryTheirMedia'
<1>0. TypeInv /\ Len(pads) \in Nat /\ tees \subseteq Kinds /\ walk = 0 /\ UNCHANGED <<walk, tees>>
      /\ feed \in [Kinds -> 0..Len(pads)]
  BY InputTypes DEF InputInv, PadAdded
<1>1. /\ caps \in Media[kind] \cup {"none"} /\ caps # "gone"
      /\ Len(pads') = Len(pads) + 1 /\ pads'[Len(pads')] = [kind |-> kind, caps |-> caps]
      /\ \A i \in 1..Len(pads) : pads'[i] = pads[i]
  BY <1>0, AddedPad
<1>2. ASSUME NEW k \in Kinds
      PROVE  \/ feed'[k] = feed[k]
             \/ feed[k] = 0 /\ k = kind /\ caps # "none" /\ feed'[k] = Len(pads')
  BY <1>0, <1>1, <1>2 DEF PadAdded
<1>3. There \subseteq There' /\ Len(pads') \in There' /\ (PadLost => PadLost')
  BY <1>0, <1>1 DEF There, PadLost
<1>4. FeedOK'
  <2>1. ASSUME NEW k \in Kinds, feed'[k] # 0
        PROVE  feed'[k] \in There' /\ pads'[feed'[k]].kind = k /\ pads'[feed'[k]].caps # "none"
    <3>1. CASE feed'[k] = feed[k]
      BY <1>1, <1>3, <2>1, <3>1 DEF InputInv, FeedOK, There
    <3>2. CASE feed'[k] # feed[k]
      BY <1>1, <1>2, <1>3, <3>2
    <3> QED
      BY <3>1, <3>2
  <2> QED
    BY <2>1 DEF FeedOK
<1>5. WalkOK'
  <2>1. \A i \in 1..(walk' - 1) : FALSE
    BY <1>0
  <2>2. ASSUME NEW k \in tees PROVE \E i \in 1..Len(pads') : pads'[i].kind = k
    <3>1. PICK i \in 1..Len(pads) : pads[i].kind = k
      BY <2>2 DEF InputInv, WalkOK
    <3> QED
      BY <1>0, <1>1, <3>1
  <2>3. ASSUME tees # {}, ~PadLost' PROVE Egress(pads'[1].caps) \in tees
    <3>1. 1 \in 1..Len(pads)
      BY <1>0, <2>3 DEF InputInv, WalkOK
    <3> QED
      BY <1>1, <1>3, <2>3, <3>1 DEF InputInv, WalkOK
  <2> QED
    BY <1>0, <2>1, <2>2, <2>3 DEF WalkOK
<1>6. TeesCarryTheirMedia'
  <2>1. ASSUME NEW k \in tees, feed'[k] # 0, \A i \in 1..feed'[k] - 1 : pads'[i].kind # k
        PROVE  Egress(pads'[feed'[k]].caps) = k
    <3>0. k \in Kinds
      BY <1>0
    <3>1. CASE feed'[k] = feed[k]
      <4>1. feed[k] \in 1..Len(pads)
        BY <1>0, <2>1, <3>0, <3>1
      <4>2. \A i \in 1..feed[k] - 1 : pads[i].kind # k
        BY <1>0, <1>1, <2>1, <3>1, <4>1
      <4> QED
        BY <1>1, <2>1, <3>1, <4>1, <4>2 DEF InputInv, TeesCarryTheirMedia
    <3>2. CASE feed'[k] # feed[k]
      <4>1. feed'[k] - 1 = Len(pads)
        BY <1>0, <1>1, <1>2, <3>0, <3>2
      <4>2. \A i \in 1..Len(pads) : pads[i].kind # k
        BY <1>1, <2>1, <4>1
      <4> QED
        BY <4>2 DEF InputInv, WalkOK
    <3> QED
      BY <3>1, <3>2
  <2> QED
    BY <1>0, <2>1 DEF TeesCarryTheirMedia
<1> QED
  BY <1>4, <1>5, <1>6

\* A pad that gets its caps, or goes, feeds nothing any more or what it did.
LEMMA PadChangedInput ==
    ASSUME InputInv, NEW i \in 1..Len(pads), CapsSet(i) \/ PadRemoved(i)
    PROVE  FeedOK' /\ WalkOK' /\ TeesCarryTheirMedia'
<1>0. /\ TypeInv /\ Len(pads) \in Nat /\ tees \subseteq Kinds /\ walk = 0 /\ UNCHANGED <<walk, tees>>
      /\ feed \in [Kinds -> 0..Len(pads)]
  BY InputTypes DEF InputInv, CapsSet, PadRemoved
<1>1. /\ Len(pads') = Len(pads)
      /\ \A j \in 1..Len(pads) : pads'[j].kind = pads[j].kind /\ (j # i => pads'[j] = pads[j])
      /\ CapsSet(i) => pads[i].caps = "none" /\ pads'[i].caps # "gone"
      /\ PadRemoved(i) => pads'[i].caps = "gone"
  BY <1>0, ChangedPad
<1>2. ASSUME NEW k \in Kinds, feed'[k] # 0
      PROVE  feed'[k] = feed[k] /\ feed[k] # i /\ feed[k] \in 1..Len(pads) /\ pads'[feed[k]] = pads[feed[k]]
  <2>1. CASE CapsSet(i)
    BY <1>0, <1>1, <1>2, <2>1 DEF CapsSet, InputInv, FeedOK
  <2>2. CASE PadRemoved(i)
    BY <1>0, <1>1, <1>2, <2>2 DEF PadRemoved
  <2> QED
    BY <2>1, <2>2
<1>3. \A j \in There : j # i => j \in There'
  BY <1>1 DEF There
<1>4. FeedOK'
  BY <1>2, <1>3 DEF InputInv, FeedOK
<1>5. WalkOK'
  <2>1. \A j \in 1..(walk' - 1) : FALSE
    BY <1>0
  <2>2. \A k \in tees : \E j \in 1..Len(pads') : pads'[j].kind = k
    BY <1>1 DEF InputInv, WalkOK
  <2>3. ASSUME tees # {}, ~PadLost' PROVE Egress(pads'[1].caps) \in tees
    <3>1. 1 \in 1..Len(pads)
      BY <1>0, <2>3 DEF InputInv, WalkOK
    <3>2. CapsSet(i)
      BY <1>1, <2>3 DEF PadLost, There
    <3>3. ~PadLost
      BY <1>1, <2>3, <3>2 DEF PadLost, There
    <3>4. Egress(pads[1].caps) \in tees
      BY <2>3, <3>3 DEF InputInv, WalkOK
    <3>5. i # 1
      BY <1>0, <1>1, <3>2, <3>4, Codecs
    <3> QED
      BY <1>1, <3>1, <3>4, <3>5
  <2> QED
    BY <1>0, <2>1, <2>2, <2>3 DEF WalkOK
<1>6. TeesCarryTheirMedia'
  <2>1. ASSUME NEW k \in tees, feed'[k] # 0, \A j \in 1..feed'[k] - 1 : pads'[j].kind # k
        PROVE  Egress(pads'[feed'[k]].caps) = k
    <3>1. /\ feed'[k] = feed[k] /\ feed[k] \in 1..Len(pads) /\ pads'[feed[k]] = pads[feed[k]]
          /\ k \in Kinds
      BY <1>0, <1>2, <2>1
    <3>2. \A j \in 1..feed[k] - 1 : pads[j].kind # k
      BY <1>0, <1>1, <2>1, <3>1
    <3> QED
      BY <2>1, <3>1, <3>2 DEF InputInv, TeesCarryTheirMedia
  <2> QED
    BY <1>0, <2>1 DEF TeesCarryTheirMedia
<1> QED
  BY <1>4, <1>5, <1>6

\* A walk builds a tee only for the first pad of a kind that is still there.
LEMMA LinkPadInput == InputInv /\ LinkPad => FeedOK' /\ WalkOK' /\ TeesCarryTheirMedia'
<1> SUFFICES ASSUME InputInv, LinkPad PROVE FeedOK' /\ WalkOK' /\ TeesCarryTheirMedia'
  OBVIOUS
<1> DEFINE k == Egress(pads[walk].caps)
<1>0. /\ TypeInv /\ Len(pads) \in Nat /\ tees \subseteq Kinds /\ feed \in [Kinds -> 0..Len(pads)]
      /\ \A i \in 1..Len(pads) : /\ pads[i].caps \in Media[pads[i].kind] \cup {"none", "gone"}
                                 /\ Egress(pads[i].caps) \in {pads[i].kind, "none"}
  BY InputTypes DEF InputInv
<1>1. /\ UNCHANGED <<pads, feed, There, PadLost>> /\ walk \in 1..Len(pads)
      /\ \/ walk \notin There /\ walk' \in {0, walk + 1} /\ tees' = tees
         \/ walk \in There /\ Builds(k) /\ tees' = tees \cup {k} /\ walk' \in {0, walk + 1}
         \/ walk \in There /\ walk' = 0 /\ tees' = tees
  <2>1. walk \in 0..Len(pads)
    BY <1>0, InputTypes
  <2>2. UNCHANGED <<pads, feed>> /\ walk > 0
    BY DEF LinkPad
  <2>3. There' = There /\ PadLost' = PadLost
    BY <2>2 DEF There, PadLost
  <2> QED
    BY <2>1, <2>2, <2>3 DEF LinkPad, NextPad
<1>2. \A i \in 1..(walk - 1) : i \in 1..Len(pads) /\ (i \in There => Egress(pads[i].caps) \in tees)
  BY <1>0, <1>1 DEF InputInv, WalkOK
<1>3. FeedOK'
  BY <1>1 DEF InputInv, FeedOK
<1>4. ASSUME Builds(k), walk \in There PROVE k \in Kinds /\ k \notin tees /\ pads[walk].kind = k
  BY <1>0, <1>1, <1>4, Codecs DEF Builds
<1>5. WalkOK'
  <2>1. ASSUME NEW i \in 1..(walk' - 1), i \in There PROVE Egress(pads[i].caps) \in tees'
    <3>0. walk' = 0 => FALSE
      BY <2>1
    <3>1. i \in 1..(walk - 1) \/ i = walk
      BY <1>1, <2>1, <3>0
    <3> QED
      BY <1>1, <1>2, <2>1, <3>0, <3>1
  <2>2. ASSUME NEW t \in tees' PROVE \E i \in 1..Len(pads) : pads[i].kind = t
    BY <1>1, <1>4, <2>2 DEF InputInv, WalkOK
  <2>3. ASSUME tees' # {}, ~PadLost PROVE Egress(pads[1].caps) \in tees'
    <3>1. CASE tees # {}
      BY <1>1, <2>3, <3>1 DEF InputInv, WalkOK
    <3>2. CASE tees = {} /\ walk = 1
      BY <1>1, <2>3, <3>2
    <3>3. CASE tees = {} /\ walk # 1
      <4>1. 1 \in 1..(walk - 1) /\ 1 \in There
        BY <1>0, <1>1, <2>3, <3>3 DEF PadLost
      <4> QED
        BY <1>2, <3>3, <4>1
    <3> QED
      BY <3>1, <3>2, <3>3
  <2> QED
    BY <1>1, <2>1, <2>2, <2>3 DEF WalkOK
<1>6. ASSUME Builds(k), walk \in There, feed[k] # 0, \A i \in 1..feed[k] - 1 : pads[i].kind # k
      PROVE  Egress(pads[feed[k]].caps) = k
  <2>1. k \in Kinds /\ k \notin tees /\ pads[walk].kind = k
    BY <1>4, <1>6
  <2>2. /\ feed[k] \in 1..Len(pads) /\ feed[k] \in There
        /\ pads[feed[k]].kind = k /\ pads[feed[k]].caps # "none"
    BY <1>6, <2>1 DEF InputInv, FeedOK, There
  <2>3. feed[k] <= walk
    BY <1>0, <1>1, <1>6, <2>1, <2>2
  <2>4. CASE feed[k] = walk
    BY <2>4
  <2>5. CASE feed[k] # walk
    <3>1. feed[k] \in 1..(walk - 1)
      BY <1>1, <2>2, <2>3, <2>5
    <3>2. Egress(pads[feed[k]].caps) \in tees
      BY <1>2, <2>2, <3>1
    <3> QED
      BY <1>0, <2>2, <3>2, Codecs
  <2> QED
    BY <2>4, <2>5
<1>7. TeesCarryTheirMedia'
  <2>1. ASSUME NEW t \in tees', feed[t] # 0, \A i \in 1..feed[t] - 1 : pads[i].kind # t
        PROVE  Egress(pads[feed[t]].caps) = t
    <3>1. CASE t \in tees
      BY <2>1, <3>1 DEF InputInv, TeesCarryTheirMedia
    <3>2. CASE t \notin tees
      <4>1. t = k /\ Builds(k) /\ walk \in There
        BY <1>1, <2>1, <3>2
      <4> QED
        BY <1>6, <2>1, <4>1
    <3> QED
      BY <3>1, <3>2
  <2> QED
    BY <1>1, <2>1 DEF TeesCarryTheirMedia
<1> QED
  BY <1>3, <1>5, <1>7

\* Every step keeps the demuxer's side in order.
LEMMA NextInput == InputInv /\ [Next]_vars => InputInv'
<1> SUFFICES ASSUME InputInv, [Next]_vars PROVE FeedOK' /\ WalkOK' /\ TeesCarryTheirMedia'
  BY NextType DEF InputInv
<1>1. CASE \E kind \in DOMAIN Media : \E caps \in Media[kind] \cup {"none"} : PadAdded(kind, caps)
  BY <1>1, PadAddedInput
<1>2. CASE NoMorePads
  <2>1. walk' = 1 /\ UNCHANGED <<pads, feed, tees>>
    BY <1>2 DEF NoMorePads
  <2>2. (\A i \in 1..(walk' - 1) : FALSE) /\ UNCHANGED <<There, PadLost>>
    BY <2>1 DEF There, PadLost
  <2> QED
    BY <2>1, <2>2 DEF InputInv, FeedOK, WalkOK, TeesCarryTheirMedia
<1>3. CASE LinkPad
  BY <1>3, LinkPadInput
<1>4. CASE ~Demuxer
  BY <1>4, OthersLeaveInput DEF input, InputInv, FeedOK, WalkOK, TeesCarryTheirMedia, There, PadLost
<1>5. CASE \E i \in 1..Len(pads) : CapsSet(i) \/ PadRemoved(i)
  BY <1>5, PadChangedInput
<1> QED
  BY <1>1, <1>2, <1>3, <1>4, <1>5 DEF Demuxer

\* It is in order from the start.
LEMMA InitInput == Init => InputInv
<1> SUFFICES ASSUME Init PROVE InputInv
  OBVIOUS
<1>1. Len(pads) = 0 /\ walk = 0 /\ tees = {} /\ \A k \in Kinds : feed[k] = 0
  BY DEF Init
<1>2. FeedOK
  BY <1>1 DEF FeedOK
<1> QED
  BY <1>1, <1>2, InitType DEF InputInv, WalkOK, TeesCarryTheirMedia

(***************************************************************************)
(* A tee ends the chain of the very pad that feeds its ingest queue, where *)
(* that is the first pad of its kind: for any number of pads in any order, *)
(* with and without caps, chains that cannot be built among them, and      *)
(* whichever pads go (src/stream/gst_pipeline.rs:281-301).                 *)
(***************************************************************************)
THEOREM TeesCarry == Spec => []TeesCarryTheirMedia
<1>1. InputInv => TeesCarryTheirMedia
  BY DEF InputInv
<1> QED
  BY <1>1, InitInput, NextInput, PTL DEF Spec

\* A pad that has gone stays gone.
LEMMA LostStays == TypeInv /\ PadLost /\ [Next]_vars => PadLost'
<1> SUFFICES ASSUME TypeInv, PadLost, [Next]_vars PROVE PadLost'
  OBVIOUS
<1>1. PICK i \in 1..Len(pads) : i \notin There
  BY DEF PadLost, There
<1>2. CASE Demuxer
  BY <1>1, <1>2, PadsGrow DEF PadLost
<1>3. CASE ~Demuxer
  BY <1>3, OthersLeaveInput DEF input, PadLost, There
<1> QED
  BY <1>2, <1>3

\* An input that is stuck stays so.
LEMMA StuckStays == InputInv /\ Stuck /\ [Next]_vars => Stuck'
<1> SUFFICES ASSUME InputInv, Stuck, [Next]_vars, ~PadLost, ~PadLost' PROVE Stuck'
  BY LostStays DEF InputInv, Stuck
<1>0. TypeInv /\ Len(pads) \in Nat /\ tees \subseteq Kinds
  BY InputTypes DEF InputInv
<1>1. /\ There = 1..Len(pads) /\ There' = 1..Len(pads') /\ 1 \in There
      /\ Egress(pads[1].caps) \in tees /\ tees # {} /\ walk \in {0, 1} /\ ~InputReady
  BY <1>0 DEF PadLost, Stuck, InputInv, WalkOK
<1>2. PadKinds # {} /\ ~(PadKinds \subseteq tees)
  <2>1. pads[1].kind \in Kinds
    BY <1>0, <1>1, InputTypes, Codecs
  <2> QED
    BY <1>1, <2>1 DEF InputReady, PadKinds, KindsOf, MediaPads
<1>3. ASSUME tees' = tees, walk' \in {0, 1}, PadKinds \subseteq PadKinds' PROVE Stuck'
  BY <1>1, <1>2, <1>3 DEF Stuck, InputReady
<1>4. CASE \E kind \in DOMAIN Media : \E caps \in Media[kind] \cup {"none"} : PadAdded(kind, caps)
  <2>1. PICK kind \in DOMAIN Media : \E caps \in Media[kind] \cup {"none"} : PadAdded(kind, caps)
    BY <1>4
  <2>2. PICK caps \in Media[kind] \cup {"none"} : PadAdded(kind, caps)
    BY <2>1
  <2>3. /\ Len(pads') = Len(pads) + 1 /\ \A i \in 1..Len(pads) : pads'[i] = pads[i]
        /\ UNCHANGED <<walk, tees>>
    BY <1>0, <2>2, AddedPad DEF PadAdded
  <2>4. PadKinds \subseteq PadKinds'
    BY <1>0, <1>1, <2>3 DEF PadKinds, KindsOf, MediaPads
  <2> QED
    BY <1>1, <1>3, <2>3, <2>4
<1>5. CASE \E i \in 1..Len(pads) : CapsSet(i) \/ PadRemoved(i)
  <2>1. PICK i \in 1..Len(pads) : CapsSet(i) \/ PadRemoved(i)
    BY <1>5
  <2>2. /\ Len(pads') = Len(pads) /\ \A j \in 1..Len(pads) : pads'[j].kind = pads[j].kind
        /\ UNCHANGED <<walk, tees>>
    BY <1>0, <2>1, ChangedPad DEF CapsSet, PadRemoved
  <2>3. PadKinds \subseteq PadKinds'
    BY <1>0, <1>1, <2>2 DEF PadKinds, KindsOf, MediaPads
  <2> QED
    BY <1>1, <1>3, <2>2, <2>3
<1>6. CASE NoMorePads
  <2>1. walk' = 1 /\ UNCHANGED <<pads, tees>>
    BY <1>6 DEF NoMorePads
  <2> QED
    BY <1>3, <2>1 DEF PadKinds, KindsOf, MediaPads, There
<1>7. CASE LinkPad
  <2>1. walk = 1 /\ ~Builds(Egress(pads[walk].caps))
    BY <1>1, <1>7 DEF LinkPad, Builds
  <2>2. walk' = 0 /\ UNCHANGED <<pads, tees>>
    BY <1>1, <1>7, <2>1 DEF LinkPad
  <2> QED
    BY <1>3, <2>2 DEF PadKinds, KindsOf, MediaPads, There
<1>8. CASE ~Demuxer
  <2>1. UNCHANGED <<pads, tees, walk>>
    BY <1>8, OthersLeaveInput DEF input
  <2> QED
    BY <1>1, <1>3, <2>1 DEF PadKinds, KindsOf, MediaPads, There
<1> QED
  BY <1>4, <1>5, <1>6, <1>7, <1>8 DEF Demuxer

(***************************************************************************)
(* docs/known_limitations.md:30-32: an input that has a tee and is not     *)
(* ready after a no-more-pads stays so, whatever other no-more-pads and    *)
(* further pads come, and whether or not a pad gets its caps only then;    *)
(* until the demuxer removes a pad.                                        *)
(***************************************************************************)
THEOREM StaysHalfLinked == Spec => HalfLinkedStaysHalfLinked
<1>1. walk = 0 /\ tees # {} /\ ~InputReady => Stuck
  BY DEF Stuck
<1>2. Stuck => ~InputReady \/ PadLost
  BY DEF Stuck
<1> QED
  BY <1>1, <1>2, InitInput, NextInput, StuckStays, PTL DEF Spec, HalfLinkedStaysHalfLinked

-----------------------------------------------------------------------------
(***************************************************************************)
(* Names and errors.                                                       *)
(***************************************************************************)

\* A branch name gives its id back, and a core name none.
LEMMA NamesOfBranches ==
    /\ \A part \in Parts, id \in Ids : BranchIdFromName(BranchName(part, id)) = {id}
    /\ \A stem : BranchIdFromName(CoreName(stem)) = {}
<1>1. ASSUME NEW part \in Parts, NEW id \in Ids PROVE BranchIdFromName(BranchName(part, id)) = {id}
  <2>1. Stem[part] \in BranchStems
    BY DEF Stem, Parts, BranchStems
  <2> QED
    BY <2>1 DEF BranchIdFromName, BranchName
<1>2. ASSUME NEW stem PROVE BranchIdFromName(CoreName(stem)) = {}
  BY DEF BranchIdFromName, CoreName
<1> QED
  BY <1>1, <1>2

\* The walk from a source stops at the first branch name; without one it quits.
LEMMA ClassifyWalk ==
    ASSUME NEW chain, NEW n, n \in Nat, Len(chain) = n
    PROVE  /\ (\A i \in 1..n : BranchIdFromName(chain[i]) = {}) => Classify(chain) = Quit
           /\ \A k \in 1..n, id \in Ids :
                 /\ BranchIdFromName(chain[k]) = {id}
                 /\ \A j \in 1..(k - 1) : BranchIdFromName(chain[j]) = {}
                 => Classify(chain) = ReapBranch(id)
<1> DEFINE Named(i) == BranchIdFromName(chain[i]) # {}
           First(i) == i \in 1..n /\ Named(i) /\ \A j \in 1..(i - 1) : ~Named(j)
           first == CHOOSE i \in 1..n : Named(i) /\ \A j \in 1..(i - 1) : ~Named(j)
<1>1. Classify(chain) = IF \A i \in 1..n : ~Named(i) THEN Quit
                        ELSE ReapBranch(CHOOSE id \in BranchIdFromName(chain[first]) : TRUE)
  BY DEF Classify
<1>2. ASSUME NEW k \in 1..n, NEW id \in Ids, BranchIdFromName(chain[k]) = {id},
             \A j \in 1..(k - 1) : BranchIdFromName(chain[j]) = {}
      PROVE  Classify(chain) = ReapBranch(id)
  <2>1. First(k) /\ first = CHOOSE i : First(i)
    BY <1>2
  <2>2. First(first)
    BY <2>1
  <2>3. \A i : First(i) => i = k
    <3>1. SUFFICES ASSUME NEW i \in 1..n, First(i), i # k PROVE FALSE
      OBVIOUS
    <3>2. i \in 1..(k - 1) \/ k \in 1..(i - 1)
      BY <3>1
    <3> QED
      BY <1>2, <3>1, <3>2
  <2> HIDE DEF First
  <2>5. first = k
    BY <2>1, <2>2, <2>3
  <2>4. (CHOOSE i \in BranchIdFromName(chain[first]) : TRUE) = id
    BY <1>2, <2>5
  <2> HIDE DEF first
  <2>6. BranchIdFromName(chain[k]) # {} /\ ~\A i \in 1..n : ~Named(i)
    BY <1>2
  <2> QED
    BY <1>1, <2>4, <2>6
<1> QED
  BY <1>1, <1>2

(***************************************************************************)
(* An error of a branch's element reaps its viewer and no other, an error  *)
(* of a core element quits the main loop, for any set of ids and any state *)
(* of the branches (src/stream/bus.rs:60-95, naming.rs:80-93).             *)
(***************************************************************************)
THEOREM ErrorsContained == Spec => []ErrorsAreContained
<1>1. ASSUME NEW s \in Sources
      PROVE  \/ Classify(Ancestry(s)) = IF s.part \in CoreStems THEN Quit ELSE ReapBranch(s.id)
             \/ s.part = "inner" /\ ~SinkHeld(s.id)
  <2> DEFINE chain == Ancestry(s)
  <2>1. CASE s \in [part : CoreStems, id : {NoId}]
    <3>1. chain = <<CoreName(s.part), CoreName("pipeline")>> /\ Len(chain) = 2
      BY <2>1 DEF Ancestry, CoreStems, DEMUX, VIDEO_QUEUE, AUDIO_QUEUE, OUTPUT_TEE_VIDEO,
                  OUTPUT_TEE_AUDIO, SRT_SOURCE
    <3>2. \A i \in 1..2 : BranchIdFromName(chain[i]) = {}
      BY <3>1, NamesOfBranches
    <3> QED
      BY <2>1, <3>1, <3>2, ClassifyWalk
  <2>2. CASE s \in [part : Parts, id : Ids]
    <3>1. s.part \notin CoreStems /\ s.part # "inner"
      BY <2>2 DEF Parts, CoreStems, DEMUX, VIDEO_QUEUE, AUDIO_QUEUE, OUTPUT_TEE_VIDEO,
                  OUTPUT_TEE_AUDIO, SRT_SOURCE
    <3>2. chain = <<BranchName(s.part, s.id), CoreName("pipeline")>> /\ Len(chain) = 2
      BY <3>1 DEF Ancestry
    <3>3. BranchIdFromName(chain[1]) = {s.id} /\ \A j \in 1..(1 - 1) : FALSE
      BY <2>2, <3>2, NamesOfBranches
    <3> HIDE DEF chain
    <3>4. s.id \in Ids /\ 1 \in 1..2
      BY <2>2
    <3>5. Classify(chain) = ReapBranch(s.id)
      BY <3>2, <3>3, <3>4, ClassifyWalk
    <3> QED
      BY <3>1, <3>5 DEF chain
  <2>3. CASE s \in [part : {"inner"}, id : Ids] /\ SinkHeld(s.id)
    <3>1. s.part \notin CoreStems /\ s.part = "inner"
      BY <2>3 DEF CoreStems, DEMUX, VIDEO_QUEUE, AUDIO_QUEUE, OUTPUT_TEE_VIDEO,
                  OUTPUT_TEE_AUDIO, SRT_SOURCE
    <3>2. chain = <<CoreName("inner"), BranchName("sink", s.id), CoreName("pipeline")>> /\ Len(chain) = 3
      BY <2>3, <3>1 DEF Ancestry
    <3>3. /\ BranchIdFromName(chain[2]) = {s.id} /\ BranchIdFromName(chain[1]) = {}
          /\ \A j \in 1..(2 - 1) : j = 1
      BY <2>3, <3>2, NamesOfBranches DEF Parts
    <3> HIDE DEF chain
    <3>4. s.id \in Ids /\ 2 \in 1..3
      BY <2>3
    <3>5. Classify(chain) = ReapBranch(s.id)
      BY <3>2, <3>3, <3>4, ClassifyWalk
    <3> QED
      BY <3>1, <3>5 DEF chain
  <2> QED
    BY <2>1, <2>2, <2>3 DEF Sources
<1>2. ErrorsAreContained
  BY <1>1 DEF ErrorsAreContained
<1> QED
  BY <1>2, PTL

-----------------------------------------------------------------------------
\* A tee that is paused keeps a closure at work on it, step by step.
LEMMA NextPaused ==
    TypeInv /\ PausedTeesAreBeingWorkedOn /\ [Next]_vars => PausedTeesAreBeingWorkedOn'
<1> SUFFICES ASSUME TypeInv, PausedTeesAreBeingWorkedOn, [Next]_vars PROVE PausedTeesAreBeingWorkedOn'
  OBVIOUS
<1> USE DEF PausedTeesAreBeingWorkedOn
<1>1. CASE paused' \subseteq paused /\ closures \subseteq closures'
  BY <1>1
<1>2. ASSUME NEW c \in closures, Closure(c) PROVE PausedTeesAreBeingWorkedOn'
  <2>0. c \in Closures
    BY DEF TypeInv, TypeOK
  <2>1. ASSUME NEW step, Step(c, step), c.step = "pause" \/ paused' = paused,
               c.step \in {"pause", "release"} => step \in {"release", "resume"},
               c.step # "resume",
               paused' \subseteq paused \cup (IF c.step = "pause" THEN {TeeOf[c.part]} ELSE {})
        PROVE  PausedTeesAreBeingWorkedOn'
    <3> DEFINE d == [c EXCEPT !.step = step]
    <3>1. d.step = step /\ d.part = c.part
      BY <2>0 DEF Closures
    <3> HIDE DEF d
    <3>2. closures' = (closures \ {c}) \cup {d}
      BY <2>1 DEF Step, d
    <3> QED
      BY <2>1, <3>1, <3>2
  <2>2. CASE TeePauses(c)
    BY <2>1, <2>2 DEF TeePauses
  <2>3. CASE PadReleased(c)
    BY <2>1, <2>3 DEF PadReleased
  <2>4. CASE TeeResumes(c)
    BY <2>4 DEF TeeResumes
  <2>5. CASE ElementStops(c)
    BY <2>1, <2>5 DEF ElementStops
  <2>6. CASE ElementStopped(c)
    BY <2>1, <2>6 DEF ElementStopped
  <2>7. CASE ElementRemoved(c)
    BY <2>7 DEF ElementRemoved
  <2> QED
    BY <1>2, <2>2, <2>3, <2>4, <2>5, <2>6, <2>7 DEF Closure
<1>3. CASE ~\E c \in closures : Closure(c)
  <2>1. paused' \subseteq paused /\ closures \subseteq closures'
    BY <1>3
    DEF Next, Demuxer, PadAdded, CapsSet, PadRemoved, NoMorePads, LinkPad, Actor, Attach, ReadPads, CheckTees, AttachSink,
        AttachMedia, AttachSync, Detach, FindPart, FindTee, Awoken, CutOff, Await, AddBranch,
        RemoveBranch, ServeEcho, Bus, ReadError, PipelineStored, CleanUp, SinkLeaves, vars, branches
  <2> QED
    BY <1>1, <2>1
<1> QED
  BY <1>2, <1>3

(***************************************************************************)
(* No tee is left paused: whichever detaches overlap, a paused tee has a   *)
(* closure that is about to resume it (src/stream/branch.rs:282-297).      *)
(***************************************************************************)
THEOREM PausedWorkedOn == Spec => []PausedTeesAreBeingWorkedOn
<1>1. Init => PausedTeesAreBeingWorkedOn
  BY DEF Init, PausedTeesAreBeingWorkedOn
<1> QED
  BY <1>1, InitType, NextType, NextPaused, PTL DEF Spec
=============================================================================
