-------------------------- MODULE HandshakeProofs --------------------------
(***************************************************************************)
(* What a handshake comes to, for every number of viewers and calls: its   *)
(* SDPs belong together, so that no offer reaches two viewers and no       *)
(* answer the whipsink of another one; when it fails the watchdog counts   *)
(* it once; and its callers see it as if each call took effect at once.    *)
(***************************************************************************)
EXTENDS CoordinatorRunsProofs, Gateway, FiniteSetTheorems

(***************************************************************************)
(* What makes HandshakesPair inductive: a call is given an SDP together    *)
(* with its answer, so a parked one has none yet; and an SDP is passed on  *)
(* when its call leaves the mailbox, so a queued one went nowhere yet.     *)
(***************************************************************************)
SdpOK ==
    \A r \in Requests : sdp[r] # NoRequest =>
        reply[r] # "none" /\ sdp[r] \in sent /\ sdp[r] \notin Queued

\* The viewer of a connection has the offer that waits in it, or had one that
\* was answered.
PairedEntry(e) ==
    /\ e.state = "awaiting_answer" => sdp[e.whep] = e.waiter
    /\ e.state = "established" => sdp[e.whep] # NoRequest /\ sdp[sdp[e.whep]] # NoRequest

EntriesOK ==
    /\ \A id \in Ids : PairedEntry(conn[id])
    /\ act.pc = "deleting" => PairedEntry(act.entry)

OfferHasViewer ==
    \A o \in Requests : Kind[o] = "offer" /\ sdp[o] # NoRequest =>
        \E c \in Requests : Kind[c] = "create" /\ Target[c] = Target[o] /\ sdp[c] = o

SdpsDiffer == \A c, d \in Requests : sdp[c] = sdp[d] /\ sdp[c] # NoRequest => c = d

PairInv == SdpOK /\ EntriesOK /\ OfferHasViewer /\ SdpsDiffer

\* A call that was answered stays answered, and an answer is lost only on a
\* caller that has gone.
Replied(r) ==
    /\ reply[r] # "none" => reply'[r] # "none"
    /\ reply'[r] = "lost" => reply[r] = "lost" \/ r \in gone

LEMMA RepliesMove ==
    ASSUME TypeInv, [Next]_vars
    PROVE  \A r \in Requests : Replied(r)
  <1>1. ASSUME NEW f, \A r \in DOMAIN f : f[r] \notin {"none", "lost"}, reply' = Answered(f)
        PROVE  \A r \in Requests : Replied(r)
    BY <1>1 DEF Replied, Answered
  <1>2. ASSUME NEW rs, NEW outcome, outcome \notin {"none", "lost"}, reply' = Told(rs, outcome)
        PROVE  \A r \in Requests : Replied(r)
    BY <1>2 DEF Replied, Told, Answered
  <1>3. ASSUME NEW id, NEW reason \in Reasons, NEW req, NEW told, NEW rest,
               Terminate(id, reason, req, told, rest)
        PROVE  \A r \in Requests : Replied(r)
    <2>1. Policy(reason).notice \notin {"none", "lost"}
      BY DEF Policy, Reasons
    <2> QED BY <1>2, <1>3, <2>1 DEF Replied, Terminate
  <1>4. ASSUME NEW answers, \A r \in DOMAIN answers : answers[r] \notin {"none", "lost"}, ResetAll(answers)
        PROVE  \A r \in Requests : Replied(r)
    <2>1. Policy("Reset").notice \notin {"none", "lost"}
      BY DEF Policy
    <2> QED BY <1>4, <2>1 DEF Replied, ResetAll, Answered
  <1>5. {"PeerGone", "Deleted", "Reaped", "Expired"} \subseteq Reasons
    BY DEF Reasons
  <1>6. CASE \E r \in Requests : Handle(r)
    <2>1. PICK r \in Requests : Handle(r)
      BY <1>6
    <2>2. CASE CreateConnection(r)
      BY <1>2, <2>2 DEF Replied, CreateConnection, Refuse, replies
    <2>3. CASE OfferReceived(r)
      BY <1>2, <1>3, <1>5, <2>3 DEF OfferReceived, Refuse
    <2>4. CASE AnswerReceived(r)
      <3>1. \A w : \A q \in DOMAIN [x \in {w, r} |-> IF x = r THEN "ok" ELSE "sdp"] :
               [x \in {w, r} |-> IF x = r THEN "ok" ELSE "sdp"][q] \notin {"none", "lost"}
        OBVIOUS
      <3> QED BY <1>1, <1>2, <1>3, <1>5, <2>4, <3>1 DEF AnswerReceived, Refuse
    <2>5. CASE RemoveConnection(r)
      BY <1>2, <1>3, <1>5, <2>5 DEF Replied, RemoveConnection, Refuse
    <2>6. CASE Reset(r)
      BY <1>4, <2>6 DEF Reset
    <2> QED BY <2>1, <2>2, <2>3, <2>4, <2>5, <2>6 DEF Handle
  <1>7. CASE ReapBranch \/ Sweep \/ SweepNext
    BY <1>3, <1>5, <1>7 DEF Replied, ReapBranch, Sweep, SweepNext, replies
  <1>8. CASE Await
    <2>1. CASE BranchAdded \/ BranchRefused \/ AttachFails
      BY <1>2, <2>1 DEF Replied, BranchAdded, BranchRefused, AttachFails, replies
    <2>2. CASE AttachUndone \/ DeleteFailed
      BY <1>2, <2>2 DEF AttachUndone, DeleteFailed
    <2>3. CASE Deleted
      <3>1. act.reason \in Reasons
        BY DEF TypeInv, TypeOK, Acts
      <3>2. Policy(act.reason).notice \notin {"none", "lost"}
        BY <3>1 DEF Policy, Reasons
      <3> QED BY <1>1, <2>3, <3>2 DEF Deleted
    <2>4. CASE Detached
      BY <1>4, <2>4 DEF Replied, Detached, FeedWatchdog
    <2> QED BY <1>8, <2>1, <2>2, <2>3, <2>4 DEF Await
  <1>9. CASE Callers \/ Clock \/ Supervisor \/ UNCHANGED vars
    BY <1>9 DEF Replied, Callers, Call, Vanish, Clock, WindowPasses, DeadlinePasses, Supervisor,
           PipelineInits, InitFails, PipelineStarts, InputReady, PipelineMoves, TakeRestart,
           PipelineStops, SendReset, ResetTimesOut, BranchFails, vars, replies
  <1> QED BY <1>6, <1>7, <1>8, <1>9 DEF Next, Actor

LEMMA RepliesStay ==
    ASSUME TypeInv, [Next]_vars
    PROVE  \A r \in Requests : reply[r] # "none" => reply'[r] # "none"
  BY RepliesMove DEF Replied

\* Only calls that were never sent enter the mailbox, and sent ones stay sent.
LEMMA QueueGrows ==
    ASSUME KindsInv, [Next]_vars
    PROVE  sent \subseteq sent' /\ \A q \in Queued' : q \in Queued \/ q \notin sent
  <1>1. CASE \E r \in Requests : Handle(r)
    <2>1. PICK r \in Requests : Handle(r)
      BY <1>1
    <2>2. Receive(r) /\ sent' = sent
      BY <2>1 DEF Handle, CreateConnection, OfferReceived, AnswerReceived, RemoveConnection, Reset,
                  clients
    <2>3. Queued' = Queued \ {r}
      BY <2>2, ReceiveLeaves DEF KindsInv, CallsInv
    <2> QED BY <2>2, <2>3
  <1>2. CASE ReapBranch \/ Sweep \/ SweepNext \/ Await
    <2>1. UNCHANGED <<mailbox, sent>>
      BY <1>2, AwaitLeaves DEF clients
    <2> QED BY <2>1 DEF Queued
  <1>3. ASSUME NEW r \in Requests, Send(r)
        PROVE  sent \subseteq sent' /\ \A q \in Queued' : q \in Queued \/ q \notin sent
    <2>1. Queued' = Queued \cup {r} /\ r \notin sent /\ sent' = sent \cup {r}
      BY <1>3, SendEnters DEF KindsInv, Send
    <2> QED BY <2>1
  <1>4. CASE UNCHANGED <<mailbox, sent>>
    BY <1>4 DEF Queued
  <1> QED BY <1>1, <1>2, <1>3, <1>4
          DEF Next, Actor, Callers, Call, Vanish, Clock, WindowPasses, DeadlinePasses, Supervisor,
              PipelineInits, InitFails, PipelineStarts, InputReady, PipelineMoves, TakeRestart,
              PipelineStops, SendReset, ResetTimesOut, BranchFails, vars, clients

\* A step that passes no SDP on, if it leaves the entries in order.
LEMMA PairsKept ==
    ASSUME KindsInv, PairInv, [Next]_vars, sdp' = sdp, EntriesOK'
    PROVE  PairInv'
  <1>1. SdpOK'
    <2> SUFFICES ASSUME NEW r \in Requests, sdp[r] # NoRequest
                 PROVE  reply'[r] # "none" /\ sdp[r] \in sent' /\ sdp[r] \notin Queued'
      BY DEF SdpOK
    <2>1. reply[r] # "none" /\ sdp[r] \in sent /\ sdp[r] \notin Queued
      BY DEF PairInv, SdpOK
    <2> QED BY <2>1, RepliesStay, QueueGrows DEF KindsInv
  <1>2. OfferHasViewer' /\ SdpsDiffer'
    BY DEF PairInv, OfferHasViewer, SdpsDiffer
  <1> QED BY <1>1, <1>2 DEF PairInv

\* No entry waits for nothing.
LEMMA AbsentPaired == PairedEntry(Absent)
  BY AbsentEntry DEF PairedEntry

\* Entries stay, leave, go into the hands of a DELETE, or come back from them.
LEMMA EntriesKept ==
    ASSUME PairInv, sdp' = sdp,
           \A id \in Ids :
              \/ conn'[id].state \in {"absent", "awaiting_offer"}
              \/ /\ conn'[id].state = conn[id].state /\ conn'[id].whep = conn[id].whep
                 /\ conn'[id].waiter = conn[id].waiter
              \/ act.pc = "deleting" /\ conn'[id] = act.entry,
           act'.pc = "deleting" =>
              \/ act' = act
              \/ \E id \in Ids : act'.entry = conn[id]
    PROVE  EntriesOK'
  <1>1. \A id \in Ids : PairedEntry(conn[id])
    BY DEF PairInv, EntriesOK
  <1>2. act.pc = "deleting" => PairedEntry(act.entry)
    BY DEF PairInv, EntriesOK
  <1>3. ASSUME NEW id \in Ids
        PROVE  PairedEntry(conn[id])'
    BY <1>1, <1>2 DEF PairedEntry
  <1>4. act'.pc = "deleting" => PairedEntry(act.entry)'
    BY <1>1, <1>2 DEF PairedEntry
  <1> QED BY <1>3, <1>4 DEF EntriesOK

\* terminate() passes no SDP on.
LEMMA TerminateEntries ==
    ASSUME KindsInv, PairInv, NEW id \in Ids, NEW reason, NEW req, NEW told, NEW rest,
           Terminate(id, reason, req, told, rest), sdp' = sdp
    PROVE  EntriesOK'
  <1>1. \A i \in Ids : conn'[i] = IF i = id THEN Absent ELSE conn[i]
    BY DEF Terminate, KindsInv, TypeInv, TypeOK
  <1>2. act'.pc = "deleting" => act'.entry = conn[id]
    BY DEF Terminate
  <1> QED BY <1>1, <1>2, AbsentEntry, EntriesKept

(***************************************************************************)
(* One SDP is passed on: the call r, fresh from the mailbox, answers the   *)
(* call w that was parked.  What was passed on before stays as it is.      *)
(***************************************************************************)
LEMMA SdpPassed ==
    ASSUME KindsInv, PairInv, [Next]_vars, NEW w \in Requests, NEW r \in Requests,
           Receive(r), UNCHANGED clients, w \in Waiters(Ids),
           sdp' = [sdp EXCEPT ![w] = r], reply'[w] # "none"
    PROVE  /\ SdpOK' /\ SdpsDiffer'
           /\ sdp[w] = NoRequest /\ sdp'[w] = r
           /\ \A q \in Requests : q # w => sdp'[q] = sdp[q]
  <1>1. Queued' = Queued \ {r} /\ r \in Queued
    BY ReceiveLeaves DEF KindsInv, CallsInv
  <1>2. w \in Unanswered /\ r \in Unanswered
    BY <1>1 DEF KindsInv, CallsInv, EachCallIsHeldOnce
  <1>3. sdp[w] = NoRequest /\ sdp \in [Requests -> Requests \cup {NoRequest}]
    BY <1>2 DEF Unanswered, PairInv, SdpOK, KindsInv, TypeInv, TypeOK
  <1>4. sdp'[w] = r /\ \A q \in Requests : q # w => sdp'[q] = sdp[q]
    BY <1>3
  <1>5. SdpOK'
    <2> SUFFICES ASSUME NEW q \in Requests, sdp'[q] # NoRequest
                 PROVE  reply'[q] # "none" /\ sdp'[q] \in sent' /\ sdp'[q] \notin Queued'
      BY DEF SdpOK
    <2>1. sent' = sent
      BY DEF clients
    <2>2. CASE q = w
      BY <1>1, <1>2, <1>4, <2>1, <2>2 DEF Unanswered
    <2>3. CASE q # w
      <3>1. reply[q] # "none" /\ sdp[q] \in sent /\ sdp[q] \notin Queued
        BY <1>4, <2>3 DEF PairInv, SdpOK
      <3> QED BY <1>1, <1>4, <2>1, <2>3, <3>1, RepliesStay DEF KindsInv
    <2> QED BY <2>2, <2>3
  <1>6. \A q \in Requests : sdp[q] # r
    BY <1>1, RequestAssumption DEF PairInv, SdpOK
  <1>7. SdpsDiffer'
    BY <1>3, <1>4, <1>6 DEF PairInv, SdpsDiffer
  <1> QED BY <1>3, <1>4, <1>5, <1>7

\* A mapped connection has its create.
LEMMA MappedEntry ==
    ASSUME KindsInv, NEW id \in Ids, Mapped(id)
    PROVE  /\ conn[id] \in Entries /\ conn[id].whep \in Requests
           /\ Kind[conn[id].whep] = "create" /\ Target[conn[id].whep] = id
           /\ conn[id].state = "awaiting_offer" => conn[id].waiter = conn[id].whep
           /\ conn[id].state = "awaiting_answer" =>
                 /\ conn[id].waiter \in Requests /\ Kind[conn[id].waiter] = "offer"
                 /\ Target[conn[id].waiter] = id
           /\ conn[id].waiter # NoRequest => conn[id].waiter \in Waiters(Ids)
  <1>1. conn[id] \in Entries /\ conn[id].whep \in Requests /\ ParkedOK(conn[id], id)
    BY DEF KindsInv, KindsOK, TypeInv, TypeOK, ActorOK
  <1>2. conn[id].waiter # NoRequest => conn[id].waiter \in Waiters(Ids)
    BY DEF Waiters
  <1> QED BY <1>1, <1>2 DEF ParkedOK, Mapped

\* Entries other than the one that passes the SDP on do not notice.
LEMMA OthersPaired ==
    ASSUME KindsInv, PairInv, NEW w \in Requests, sdp[w] = NoRequest,
           \A q \in Requests : q # w => sdp'[q] = sdp[q],
           NEW i \in Ids, conn'[i] = conn[i]
    PROVE  PairedEntry(conn[i])'
  <1>1. PairedEntry(conn[i])
    BY DEF PairInv, EntriesOK
  <1>2. sdp \in [Requests -> Requests \cup {NoRequest}] /\ NoRequest \notin Requests
    BY RequestAssumption DEF KindsInv, TypeInv, TypeOK
  <1>3. CASE conn[i].state = "awaiting_answer"
    <2>1. conn[i].whep \in Requests /\ conn[i].waiter \in Requests
      BY <1>3, MappedEntry DEF Mapped
    <2> QED BY <1>1, <1>2, <1>3, <2>1 DEF PairedEntry
  <1>4. CASE conn[i].state = "established"
    <2>1. conn[i].whep \in Requests
      BY <1>4, MappedEntry DEF Mapped
    <2> QED BY <1>1, <1>2, <1>4, <2>1 DEF PairedEntry
  <1>5. CASE conn[i].state \notin {"awaiting_answer", "established"}
    BY <1>5 DEF PairedEntry
  <1> QED BY <1>3, <1>4, <1>5

\* An offer is given to the viewer of its connection.
LEMMA OfferPairs ==
    ASSUME KindsInv, PairInv, [Next]_vars, NEW r \in Requests, OfferReceived(r)
    PROVE  PairInv'
  <1> DEFINE id == Target[r]
  <1> DEFINE e == conn[id]
  <1>1. id \in Ids /\ Kind[r] = "offer" /\ Receive(r) /\ UNCHANGED clients /\ act.pc = "select"
    BY RequestAssumption DEF OfferReceived, Receive
  <1>2. CASE Refuse(r, "NotFound") \/ Refuse(r, "WrongState")
    <2>1. sdp' = sdp /\ act' = act /\ conn' = conn
      BY <1>2 DEF Refuse
    <2> QED BY <1>1, <2>1, EntriesKept, PairsKept
  <1>3. CASE Terminate(id, "PeerGone", NoRequest, {r}, {}) /\ sdp' = sdp
    BY <1>1, <1>3, TerminateEntries, PairsKept
  <1>4. CASE /\ TakesOffer(e) /\ e.waiter \notin gone /\ reply' = Told({e.waiter}, "sdp")
             /\ sdp' = [sdp EXCEPT ![e.waiter] = r]
             /\ conn' = [conn EXCEPT ![id] = AwaitingAnswer(e, r)] /\ act' = act
    <2>1. /\ e \in Entries /\ e.whep \in Requests /\ e.waiter = e.whep
          /\ Kind[e.whep] = "create" /\ Target[e.whep] = id /\ e.waiter \in Waiters(Ids)
      BY <1>1, <1>4, MappedEntry, RequestAssumption DEF TakesOffer, Mapped
    <2>2. reply'[e.waiter] # "none"
      BY <1>4, <2>1 DEF Told, Answered
    <2>3. /\ SdpOK' /\ SdpsDiffer' /\ sdp[e.whep] = NoRequest /\ sdp'[e.whep] = r
          /\ \A q \in Requests : q # e.whep => sdp'[q] = sdp[q]
      BY <1>1, <1>4, <2>1, <2>2, SdpPassed
    <2>4. /\ AwaitingAnswer(e, r).whep = e.whep /\ AwaitingAnswer(e, r).waiter = r
          /\ AwaitingAnswer(e, r).state = "awaiting_answer"
      BY <2>1 DEF AwaitingAnswer, Entries
    <2>5. \A i \in Ids : conn'[i] = IF i = id THEN AwaitingAnswer(e, r) ELSE conn[i]
      BY <1>4 DEF KindsInv, TypeInv, TypeOK
    <2>6. PairedEntry(conn[id])'
      BY <1>1, <2>3, <2>4, <2>5 DEF PairedEntry
    <2>7. \A i \in Ids : i # id => PairedEntry(conn[i])'
      BY <2>1, <2>3, <2>5, OthersPaired
    <2>8. EntriesOK'
      BY <1>1, <1>4, <2>6, <2>7 DEF EntriesOK
    <2>9. OfferHasViewer'
      <3> SUFFICES ASSUME NEW o \in Requests, Kind[o] = "offer", sdp'[o] # NoRequest
                   PROVE  \E c \in Requests : Kind[c] = "create" /\ Target[c] = Target[o]
                                             /\ sdp'[c] = o
        BY DEF OfferHasViewer
      <3>1. sdp[o] # NoRequest
        BY <2>1, <2>3
      <3>2. PICK c \in Requests : Kind[c] = "create" /\ Target[c] = Target[o] /\ sdp[c] = o
        BY <3>1 DEF PairInv, OfferHasViewer
      <3>3. c # e.whep
        BY <2>3, <3>2, RequestAssumption
      <3> QED BY <2>3, <3>2, <3>3
    <2> QED BY <2>3, <2>8, <2>9 DEF PairInv
  <1> QED BY <1>2, <1>3, <1>4 DEF OfferReceived

\* An answer goes to the whipsink whose offer its viewer was given.
LEMMA AnswerPairs ==
    ASSUME KindsInv, PairInv, [Next]_vars, NEW r \in Requests, AnswerReceived(r)
    PROVE  PairInv'
  <1> DEFINE id == Target[r]
  <1> DEFINE e == conn[id]
  <1>1. id \in Ids /\ Receive(r) /\ UNCHANGED clients /\ act.pc = "select"
    BY RequestAssumption DEF AnswerReceived, Receive
  <1>2. CASE Refuse(r, "NotFound") \/ Refuse(r, "WrongState")
    <2>1. sdp' = sdp /\ act' = act /\ conn' = conn
      BY <1>2 DEF Refuse
    <2> QED BY <1>1, <2>1, EntriesKept, PairsKept
  <1>3. CASE Terminate(id, "PeerGone", NoRequest, {r}, {}) /\ sdp' = sdp
    BY <1>1, <1>3, TerminateEntries, PairsKept
  <1>4. CASE /\ e.state = "awaiting_answer"
             /\ reply' = Answered([q \in {e.waiter, r} |-> IF q = r THEN "ok" ELSE "sdp"])
             /\ sdp' = [sdp EXCEPT ![e.waiter] = r]
             /\ conn' = [conn EXCEPT ![id] = Established(e)] /\ act' = act
    <2>1. /\ e \in Entries /\ e.whep \in Requests /\ e.waiter \in Requests
          /\ Kind[e.whep] = "create" /\ Target[e.whep] = id
          /\ Kind[e.waiter] = "offer" /\ Target[e.waiter] = id /\ e.waiter \in Waiters(Ids)
      BY <1>1, <1>4, MappedEntry, RequestAssumption DEF Mapped
    <2>2. reply'[e.waiter] # "none"
      BY <1>4, <2>1 DEF Answered
    <2>3. /\ SdpOK' /\ SdpsDiffer' /\ sdp[e.waiter] = NoRequest /\ sdp'[e.waiter] = r
          /\ \A q \in Requests : q # e.waiter => sdp'[q] = sdp[q]
      BY <1>1, <1>4, <2>1, <2>2, SdpPassed
    <2>4. sdp[e.whep] = e.waiter
      BY <1>1, <1>4 DEF PairInv, EntriesOK, PairedEntry
    <2>5. sdp'[e.whep] = e.waiter
      BY <2>1, <2>3, <2>4
    <2>6. Established(e).whep = e.whep /\ Established(e).state = "established"
      BY <2>1 DEF Established, Entries
    <2>7. \A i \in Ids : conn'[i] = IF i = id THEN Established(e) ELSE conn[i]
      BY <1>4 DEF KindsInv, TypeInv, TypeOK
    <2>8. PairedEntry(conn[id])'
      BY <1>1, <2>1, <2>3, <2>5, <2>6, <2>7, RequestAssumption DEF PairedEntry
    <2>9. \A i \in Ids : i # id => PairedEntry(conn[i])'
      BY <2>1, <2>3, <2>7, OthersPaired
    <2>10. EntriesOK'
      BY <1>1, <1>4, <2>8, <2>9 DEF EntriesOK
    <2>11. OfferHasViewer'
      <3> SUFFICES ASSUME NEW o \in Requests, Kind[o] = "offer", sdp'[o] # NoRequest
                   PROVE  \E c \in Requests : Kind[c] = "create" /\ Target[c] = Target[o]
                                             /\ sdp'[c] = o
        BY DEF OfferHasViewer
      <3>1. CASE o = e.waiter
        BY <2>1, <2>5, <3>1
      <3>2. CASE o # e.waiter
        <4>1. PICK c \in Requests : Kind[c] = "create" /\ Target[c] = Target[o] /\ sdp[c] = o
          BY <2>3, <3>2 DEF PairInv, OfferHasViewer
        <4> QED BY <2>1, <2>3, <4>1
      <3> QED BY <3>1, <3>2
    <2> QED BY <2>3, <2>10, <2>11 DEF PairInv
  <1> QED BY <1>2, <1>3, <1>4 DEF AnswerReceived

\* No other step passes an SDP on.
LEMMA NextPairs ==
    ASSUME KindsInv, PairInv, [Next]_vars
    PROVE  PairInv'
  <1>1. ASSUME sdp' = sdp, EntriesOK' PROVE PairInv'
    BY <1>1, PairsKept
  <1>2. CASE conn' = conn /\ sdp' = sdp /\ (act' = act \/ act'.pc # "deleting")
    <2>1. EntriesOK'
      BY <1>2, EntriesKept
    <2> QED BY <1>1, <1>2, <2>1
  <1>3. ASSUME NEW id \in Ids, NEW reason, NEW req, NEW told, NEW rest,
               Terminate(id, reason, req, told, rest), sdp' = sdp
        PROVE  PairInv'
    BY <1>1, <1>3, TerminateEntries
  <1>4. CASE sdp' = sdp /\ act'.pc # "deleting" /\ \A i \in Ids : conn'[i] = Absent
    <2>1. EntriesOK'
      BY <1>4, EntriesKept, AbsentEntry
    <2> QED BY <1>1, <1>4, <2>1
  <1>5. ASSUME NEW r \in Requests, Handle(r)
        PROVE  PairInv'
    <2>1. CASE CreateConnection(r)
      <3>1. sdp' = sdp /\ conn' = conn /\ (act' = act \/ act'.pc = "adding")
        BY <2>1 DEF CreateConnection, Refuse, replies, Idle
      <3> QED BY <1>2, <3>1
    <2>2. CASE RemoveConnection(r)
      <3>1. Target[r] \in Ids
        BY RequestAssumption
      <3> QED BY <1>2, <1>3, <2>2, <3>1 DEF RemoveConnection, Refuse
    <2>3. CASE Reset(r)
      BY <1>4, <2>3 DEF Reset, ResetAll, Receive
    <2> QED BY <1>5, <2>1, <2>2, <2>3, OfferPairs, AnswerPairs DEF Handle
  <1>6. CASE ReapBranch
    <2>1. Head(reports) \in Ids
      BY <1>6, QueueType DEF ReapBranch, KindsInv, TypeInv, TypeOK
    <2> QED BY <1>2, <1>3, <1>6, <2>1 DEF ReapBranch, replies
  <1>7. CASE Sweep
    BY <1>2, <1>7 DEF Sweep, Idle, replies
  <1>8. CASE SweepNext
    <2>1. PICK id \in act.rest :
            \/ Terminate(id, "Expired", NoRequest, {}, act.rest \ {id})
            \/ act' = Resume(act.rest \ {id}) /\ conn' = conn
      BY <1>8 DEF SweepNext
    <2>2. id \in Ids /\ sdp' = sdp
      BY <1>8 DEF SweepNext, KindsInv, TypeInv, TypeOK, Acts
    <2> QED BY <1>2, <1>3, <2>1, <2>2, AbsentEntry
  <1>9. CASE BranchAdded
    <2>1. /\ sdp' = sdp /\ act'.pc = "select"
          /\ conn' = [conn EXCEPT ![act.id] = AwaitingOffer(act.req)]
      BY <1>9, AbsentEntry DEF BranchAdded, replies
    <2>2. AwaitingOffer(act.req).state = "awaiting_offer"
      BY DEF AwaitingOffer
    <2>3. \A i \in Ids : conn'[i] = conn[i] \/ conn'[i].state = "awaiting_offer"
      BY <2>1, <2>2 DEF KindsInv, TypeInv, TypeOK
    <2>4. EntriesOK'
      BY <2>1, <2>3, EntriesKept
    <2> QED BY <1>1, <2>1, <2>4
  <1>10. CASE AttachFails
    <2>1. sdp' = sdp /\ conn' = conn /\ act'.pc = "undoing"
      BY <1>10 DEF AttachFails, replies, KindsInv, TypeInv, TypeOK, Acts
    <2> QED BY <1>2, <2>1
  <1>11. CASE BranchRefused \/ AttachUndone \/ Deleted
    <2>1. sdp' = sdp /\ conn' = conn /\ act' = Idle
      BY <1>11 DEF BranchRefused, AttachUndone, Deleted
    <2> QED BY <1>2, <2>1, AbsentEntry
  <1>12. CASE DeleteFailed
    <2>1. /\ sdp' = sdp /\ act' = Idle /\ act.pc = "deleting"
          /\ conn' = [conn EXCEPT ![act.id] = act.entry]
      BY <1>12 DEF DeleteFailed
    <2>2. \A i \in Ids : conn'[i] = conn[i] \/ conn'[i] = act.entry
      BY <2>1 DEF KindsInv, TypeInv, TypeOK
    <2>3. EntriesOK'
      BY <2>1, <2>2, EntriesKept, AbsentEntry
    <2> QED BY <1>1, <2>1, <2>3
  <1>13. CASE Detached
    <2>1. sdp' = sdp /\ act' = Resume(act.rest) /\ FeedWatchdog(act.reason)
      BY <1>13 DEF Detached
    <2> QED BY <1>2, <1>4, <2>1, AbsentEntry DEF FeedWatchdog, ResetAll
  <1>14. CASE Callers \/ Supervisor \/ WindowPasses \/ UNCHANGED vars
    <2>1. sdp' = sdp /\ conn' = conn /\ act' = act
      BY <1>14 DEF Callers, Call, Vanish, WindowPasses, Supervisor, PipelineInits, InitFails,
             PipelineStarts, InputReady, PipelineMoves, TakeRestart, PipelineStops, SendReset,
             ResetTimesOut, BranchFails, vars, replies
    <2> QED BY <1>2, <2>1
  <1>15. ASSUME NEW id \in Ids, DeadlinePasses(id)
         PROVE  PairInv'
    <2>1. sdp' = sdp /\ act' = act
      BY <1>15 DEF DeadlinePasses, replies
    <2>2. \A i \in Ids : /\ conn'[i].state = conn[i].state /\ conn'[i].whep = conn[i].whep
                         /\ conn'[i].waiter = conn[i].waiter
      BY <1>15 DEF DeadlinePasses, KindsInv, TypeInv, TypeOK, Entries
    <2>3. EntriesOK'
      BY <2>1, <2>2, EntriesKept
    <2> QED BY <1>1, <2>1, <2>3
  <1> QED BY <1>5, <1>6, <1>7, <1>8, <1>9, <1>10, <1>11, <1>12, <1>13, <1>14, <1>15
          DEF Next, Actor, Await, Clock

\* No SDP has been passed on at first.
LEMMA InitPairs == Init => PairInv
  <1> SUFFICES ASSUME Init PROVE PairInv
    OBVIOUS
  <1>1. \A r \in Requests : sdp[r] = NoRequest
    BY DEF Init
  <1>2. (\A id \in Ids : conn[id] = Absent) /\ act.pc = "select"
    BY AbsentEntry DEF Init
  <1> QED BY <1>1, <1>2, AbsentPaired
          DEF PairInv, SdpOK, EntriesOK, OfferHasViewer, SdpsDiffer

(***************************************************************************)
(* The viewer whose answer reached a whipsink is the one that was given    *)
(* that whipsink's offer, and an offer goes to one viewer only, for every  *)
(* number of calls, however they are repeated, delayed, or abandoned.      *)
(***************************************************************************)
THEOREM SdpsPair == Spec => []HandshakesPair
  <1>1. Init => KindsInv /\ PairInv
    BY InitKinds, InitPairs
  <1>2. KindsInv /\ [Next]_vars => KindsInv'
    BY NextKinds
  <1>3. KindsInv /\ PairInv /\ [Next]_vars => PairInv'
    BY NextPairs
  <1>4. PairInv => HandshakesPair
    BY DEF PairInv, EntriesOK, PairedEntry, OfferHasViewer, SdpsDiffer, HandshakesPair
  <1> QED BY <1>1, <1>2, <1>3, <1>4, PTL DEF Spec

-----------------------------------------------------------------------------
(***************************************************************************)
(* Failed handshakes.                                                      *)
(***************************************************************************)

(***************************************************************************)
(* A handshake is known by its create.  One that was counted has been      *)
(* answered, and is neither in the map any more nor in the hands of a      *)
(* teardown, so that it cannot fail a second time.                         *)
(***************************************************************************)
CountOK ==
    /\ IsFiniteSet(failed) /\ dog.failures = Cardinality(failed)
    /\ \A r \in failed : reply[r] # "none"
    /\ \A id \in Ids : Mapped(id) => conn[id].whep \notin failed

HeldOK ==
    act.pc \in {"deleting", "detaching"} =>
        /\ act.entry.whep \notin failed /\ Target[act.entry.whep] = act.id
        /\ ~Mapped(act.id)
        /\ act.pc = "detaching" => reply[act.entry.whep] # "none"

CountInv == CountOK /\ HeldOK

\* The watchdog counts nothing and forgets nothing; entries stay, leave, come
\* back from the hands of a DELETE, or are new.
LEMMA CountKept ==
    ASSUME TypeInv, [Next]_vars, CountInv, failed' = failed, dog'.failures = dog.failures,
           \A id \in Ids : Mapped(id)' =>
              \/ Mapped(id) /\ conn'[id].whep = conn[id].whep
              \/ conn'[id].whep \notin failed
    PROVE  CountOK'
  <1>1. \A r \in failed : reply'[r] # "none"
    BY RepliesStay DEF CountInv, CountOK, TypeInv, TypeOK
  <1> QED BY <1>1 DEF CountInv, CountOK

\* The actor is not in a teardown, or still in the same one.
LEMMA HeldKept ==
    ASSUME TypeInv, [Next]_vars, CountInv,
           \/ act'.pc \notin {"deleting", "detaching"}
           \/ act' = act /\ failed' = failed /\ (act.id \in Ids => Mapped(act.id)' = Mapped(act.id))
    PROVE  HeldOK'
  <1>1. CASE act'.pc \notin {"deleting", "detaching"}
    BY <1>1 DEF HeldOK
  <1>2. CASE act' = act /\ failed' = failed /\ act.pc \in {"deleting", "detaching"}
             /\ Mapped(act.id)' = Mapped(act.id)
    <2>1. act.entry.whep \in Requests
      BY <1>2 DEF TypeInv, ActorOK
    <2> QED BY <1>2, <2>1, RepliesStay DEF CountInv, HeldOK
  <1>3. act.pc \in {"deleting", "detaching"} => act.id \in Ids
    BY DEF TypeInv, ActorOK
  <1> QED BY <1>1, <1>2, <1>3

\* What the map and the hands hold is as it was.
LEMMA CountFrame ==
    ASSUME TypeInv, [Next]_vars, CountInv, failed' = failed, dog'.failures = dog.failures,
           act' = act \/ act'.pc \notin {"deleting", "detaching"},
           \A i \in Ids : conn'[i].state = conn[i].state /\ conn'[i].whep = conn[i].whep
    PROVE  CountInv'
  <1>1. \A i \in Ids : Mapped(i)' = Mapped(i)
    BY DEF Mapped
  <1> QED BY <1>1, CountKept, HeldKept DEF CountInv

\* terminate() answers the create of the handshake it ends, if nobody did before.
LEMMA TerminateCount ==
    ASSUME KindsInv, PairInv, CountInv, [Next]_vars, NEW id \in Ids, Mapped(id),
           NEW reason \in Reasons, NEW req, NEW told, NEW rest,
           Terminate(id, reason, req, told, rest), failed' = failed, dog' = dog
    PROVE  CountInv'
  <1> DEFINE e == conn[id]
  <1>1. \A i \in Ids : conn'[i] = IF i = id THEN Absent ELSE conn[i]
    BY DEF Terminate, KindsInv, TypeInv, TypeOK
  <1>2. ~Mapped(id)' /\ \A i \in Ids : Mapped(i)' => Mapped(i) /\ conn'[i] = conn[i]
    BY <1>1, AbsentEntry DEF Mapped
  <1>3. CountOK'
    BY <1>2, CountKept DEF KindsInv
  <1>4. /\ e \in Entries /\ e.whep \in Requests /\ Target[e.whep] = id /\ e.whep \notin failed
        /\ e.state = "awaiting_offer" => e.waiter = e.whep
    BY MappedEntry DEF CountInv, CountOK
  <1>5. /\ act'.id = id /\ act'.entry.whep = e.whep
        /\ act'.pc = "detaching" => reply' = Told(Waiters({id}) \cup told, Policy(reason).notice)
    BY <1>4 DEF Terminate, Entries
  <1>6. ASSUME act'.pc = "detaching"
        PROVE  reply'[e.whep] # "none"
    <2>1. CASE e.state = "awaiting_offer"
      <3>1. e.whep \in Waiters({id})
        BY <1>4, <2>1, RequestAssumption DEF Waiters
      <3>2. Policy(reason).notice # "none"
        BY DEF Policy, Reasons
      <3> QED BY <1>4, <1>5, <1>6, <3>1, <3>2 DEF Told, Answered
    <2>2. CASE e.state \in {"awaiting_answer", "established"}
      <3>1. sdp[e.whep] # NoRequest
        <4>1. PairedEntry(e)
          BY DEF PairInv, EntriesOK
        <4>2. e.state = "awaiting_answer" => e.waiter \in Requests
          BY MappedEntry
        <4> QED BY <2>2, <4>1, <4>2, RequestAssumption DEF PairedEntry
      <3>2. reply[e.whep] # "none"
        BY <1>4, <3>1 DEF PairInv, SdpOK
      <3> QED BY <1>4, <3>2, RepliesStay DEF KindsInv
    <2> QED BY <1>4, <2>1, <2>2 DEF Mapped, Entries, States
  <1>7. HeldOK'
    BY <1>2, <1>4, <1>5, <1>6 DEF HeldOK
  <1> QED BY <1>3, <1>7 DEF CountInv

\* The watchdog starts over.
LEMMA CountCleared ==
    ASSUME act'.pc \notin {"deleting", "detaching"}, failed' = {}, dog' = Clean
    PROVE  CountInv'
  <1>1. IsFiniteSet(failed') /\ Cardinality(failed') = 0 /\ dog'.failures = 0
    BY FS_EmptySet DEF Clean
  <1> QED BY <1>1 DEF CountInv, CountOK, HeldOK

\* A teardown ends: the watchdog is fed with the handshake it was for.
LEMMA DetachedCount ==
    ASSUME KindsInv, CountInv, [Next]_vars, Detached
    PROVE  CountInv'
  <1>1. /\ act.pc = "detaching" /\ act' = Resume(act.rest) /\ FeedWatchdog(act.reason)
        /\ act.id \in Ids /\ act.entry.whep \in Requests /\ act.reason \in Reasons
    BY DEF Detached, KindsInv, TypeInv, TypeOK, ActorOK, Acts
  <1>2. act'.pc \notin {"deleting", "detaching"}
    BY <1>1, AbsentEntry
  <1>3. Policy(act.reason).feeds_watchdog <=> act.reason \in {"Expired", "PeerGone"}
    BY <1>1 DEF Policy, Reasons
  <1>4. CASE act.reason \notin {"Expired", "PeerGone"}
    <2>1. UNCHANGED <<conn, dog, failed>>
      BY <1>1, <1>3, <1>4 DEF Detached, FeedWatchdog
    <2> QED BY <1>2, <2>1, CountFrame DEF KindsInv
  <1>5. CASE act.reason \in {"Expired", "PeerGone"} /\ Trips(dog)
    <2>1. dog' = Clean /\ failed' = {}
      BY <1>1, <1>3, <1>5 DEF Detached, FeedWatchdog, Failed
    <2> QED BY <1>2, <2>1, CountCleared
  <1>6. CASE act.reason \in {"Expired", "PeerGone"} /\ ~Trips(dog)
    <2> DEFINE kept == IF dog.fresh THEN failed ELSE {}
    <2> DEFINE w == act.entry.whep
    <2>1. /\ dog' = [failures |-> Counted(dog), fresh |-> TRUE] /\ UNCHANGED <<conn, reply>>
          /\ failed' = kept \cup {w}
      BY <1>1, <1>3, <1>6 DEF Detached, FeedWatchdog, Failed
    <2>2. /\ w \notin failed /\ Target[w] = act.id /\ ~Mapped(act.id) /\ reply[w] # "none"
      BY <1>1 DEF CountInv, HeldOK
    <2>3. IsFiniteSet(failed) /\ dog.failures = Cardinality(failed) /\ dog \in Counts
      BY DEF CountInv, CountOK, KindsInv, TypeInv, TypeOK
    <2>4. /\ IsFiniteSet(kept) /\ w \notin kept /\ kept \subseteq failed
          /\ Cardinality(kept) = IF dog.fresh THEN dog.failures ELSE 0
      BY <2>2, <2>3, FS_EmptySet
    <2>5. IsFiniteSet(failed') /\ Cardinality(failed') = Cardinality(kept) + 1
      <3> HIDE DEF kept
      <3> QED BY <2>1, <2>4, FS_AddElement
    <2>6. dog'.failures = Cardinality(failed')
      <3>1. (IF dog.fresh THEN dog.failures ELSE 0) \in Nat
        BY <2>3 DEF Counts
      <3> QED BY <2>1, <2>4, <2>5, <3>1 DEF Counted
    <2>7. \A r \in failed' : reply'[r] # "none"
      BY <2>1, <2>2, <2>4 DEF CountInv, CountOK
    <2>8. \A i \in Ids : Mapped(i)' => conn'[i].whep \notin failed'
      <3> SUFFICES ASSUME NEW i \in Ids, Mapped(i) PROVE conn[i].whep \notin failed'
        BY <2>1 DEF Mapped
      <3>1. conn[i].whep \notin failed /\ Target[conn[i].whep] = i /\ i # act.id
        BY <2>2, MappedEntry DEF CountInv, CountOK
      <3> QED BY <2>1, <2>2, <2>4, <3>1
    <2> QED BY <1>2, <2>5, <2>6, <2>7, <2>8 DEF CountInv, CountOK, HeldOK
  <1> QED BY <1>4, <1>5, <1>6

\* The handlers.
LEMMA HandleCount ==
    ASSUME KindsInv, PairInv, CountInv, [Next]_vars, NEW r \in Requests, Handle(r)
    PROVE  CountInv'
  <1> DEFINE id == Target[r]
  <1>1. id \in Ids /\ conn[id] \in Entries /\ TypeInv
    BY RequestAssumption DEF KindsInv, TypeInv, TypeOK
  <1>2. act.pc = "select"
    BY DEF Handle, CreateConnection, OfferReceived, AnswerReceived, RemoveConnection, Reset, Receive
  <1>3. ASSUME NEW error, Refuse(r, error) PROVE CountInv'
    BY <1>1, <1>3, CountFrame DEF Refuse, watch
  <1>4. ASSUME NEW reason \in {"PeerGone", "Deleted"}, NEW q, NEW told, Mapped(id),
               Terminate(id, reason, q, told, {}), UNCHANGED watch
        PROVE  CountInv'
    <2>1. reason \in Reasons
      BY DEF Reasons
    <2> QED BY <1>1, <1>4, <2>1, TerminateCount DEF watch
  <1>5. CASE CreateConnection(r)
    <2>1. CASE /\ act' = [Idle EXCEPT !.pc = "adding", !.req = r, !.id = id]
               /\ conn' = conn /\ UNCHANGED watch
      <3>1. act'.pc = "adding"
        BY <2>1 DEF Idle
      <3> QED BY <1>1, <2>1, <3>1, CountFrame DEF watch
    <2> QED BY <1>3, <1>5, <2>1 DEF CreateConnection
  <1>6. CASE OfferReceived(r)
    <2>1. CASE /\ TakesOffer(conn[id]) /\ conn' = [conn EXCEPT ![id] = AwaitingAnswer(conn[id], r)]
               /\ act' = act /\ UNCHANGED watch
      <3>1. AwaitingAnswer(conn[id], r).whep = conn[id].whep /\ Mapped(id)
        BY <1>1, <2>1 DEF AwaitingAnswer, Entries, TakesOffer, Mapped
      <3>2. \A i \in Ids : conn'[i] = IF i = id THEN AwaitingAnswer(conn[id], r) ELSE conn[i]
        BY <1>1, <2>1 DEF TypeInv, TypeOK
      <3>3. \A i \in Ids : Mapped(i)' => Mapped(i) /\ conn'[i].whep = conn[i].whep
        BY <3>1, <3>2 DEF Mapped
      <3>4. CountOK'
        BY <1>1, <2>1, <3>3, CountKept DEF watch
      <3>5. HeldOK'
        BY <1>2, <2>1 DEF HeldOK
      <3> QED BY <3>4, <3>5 DEF CountInv
    <2>2. TakesOffer(conn[id]) => Mapped(id)
      BY DEF TakesOffer, Mapped
    <2> QED BY <1>3, <1>4, <1>6, <2>1, <2>2 DEF OfferReceived
  <1>7. CASE AnswerReceived(r)
    <2>1. CASE dog' = Clean /\ failed' = {} /\ act' = act
      BY <1>2, <2>1, CountCleared
    <2>2. conn[id].state = "awaiting_answer" => Mapped(id)
      BY DEF Mapped
    <2> QED BY <1>3, <1>4, <1>7, <2>1, <2>2 DEF AnswerReceived
  <1>8. CASE RemoveConnection(r)
    BY <1>3, <1>4, <1>8 DEF RemoveConnection
  <1>9. CASE Reset(r)
    BY <1>2, <1>9, CountCleared DEF Reset
  <1> QED BY <1>5, <1>6, <1>7, <1>8, <1>9 DEF Handle

\* Every step keeps the count the number of failed handshakes.
LEMMA NextCount ==
    ASSUME KindsInv, PairInv, CountInv, [Next]_vars
    PROVE  CountInv'
  <1>1. TypeInv
    BY DEF KindsInv
  <1>2. CASE conn' = conn /\ UNCHANGED <<dog, failed>>
             /\ (act' = act \/ act'.pc \notin {"deleting", "detaching"})
    BY <1>1, <1>2, CountFrame
  <1>3. ASSUME NEW id \in Ids, NEW reason \in {"Reaped", "Expired"}, NEW rest, Mapped(id),
               Terminate(id, reason, NoRequest, {}, rest), UNCHANGED watch
        PROVE  CountInv'
    <2>1. reason \in Reasons
      BY DEF Reasons
    <2> QED BY <1>1, <1>3, <2>1, TerminateCount DEF watch
  <1>4. CASE ReapBranch
    <2>1. Head(reports) \in Ids
      BY <1>1, <1>4, QueueType DEF ReapBranch, TypeInv, TypeOK
    <2> QED BY <1>2, <1>3, <1>4, <2>1 DEF ReapBranch, watch
  <1>5. CASE Sweep
    <2>1. act'.pc = "sweeping"
      BY <1>5 DEF Sweep, Idle
    <2> QED BY <1>2, <1>5, <2>1 DEF Sweep, watch
  <1>6. CASE SweepNext
    <2>1. PICK id \in act.rest :
            \/ Mapped(id) /\ Terminate(id, "Expired", NoRequest, {}, act.rest \ {id})
            \/ act' = Resume(act.rest \ {id}) /\ conn' = conn
      BY <1>6 DEF SweepNext
    <2>2. id \in Ids /\ UNCHANGED watch
      BY <1>1, <1>6 DEF SweepNext, TypeInv, TypeOK, Acts
    <2> QED BY <1>2, <1>3, <2>1, <2>2, AbsentEntry DEF watch
  <1>7. CASE BranchAdded
    <2>1. /\ UNCHANGED <<dog, failed>> /\ act'.pc = "select" /\ act.pc = "adding"
          /\ conn' = [conn EXCEPT ![act.id] = AwaitingOffer(act.req)]
      BY <1>7, AbsentEntry DEF BranchAdded, watch
    <2>2. AwaitingOffer(act.req).whep = act.req /\ act.req \notin failed
      <3>1. act.req \in InHand
        BY <1>1, <2>1, RequestAssumption DEF InHand, TypeInv, ActorOK
      <3>2. reply[act.req] = "none"
        BY <3>1 DEF KindsInv, CallsInv, EachCallIsHeldOnce, Unanswered
      <3> QED BY <3>2 DEF AwaitingOffer, CountInv, CountOK
    <2>3. \A i \in Ids : conn'[i] = IF i = act.id THEN AwaitingOffer(act.req) ELSE conn[i]
      BY <1>1, <2>1 DEF TypeInv, TypeOK
    <2>4. \A i \in Ids : Mapped(i)' => \/ Mapped(i) /\ conn'[i].whep = conn[i].whep
                                       \/ conn'[i].whep \notin failed
      BY <2>2, <2>3 DEF Mapped
    <2> QED BY <1>1, <2>1, <2>4, CountKept, HeldKept DEF CountInv
  <1>8. CASE AttachFails
    <2>1. conn' = conn /\ UNCHANGED <<dog, failed>> /\ act'.pc = "undoing"
      BY <1>1, <1>8 DEF AttachFails, watch, TypeInv, TypeOK, Acts
    <2> QED BY <1>2, <2>1
  <1>9. CASE BranchRefused \/ AttachUndone \/ Deleted
    <2>1. conn' = conn /\ act' = Idle /\ UNCHANGED <<dog, failed>>
      BY <1>9 DEF BranchRefused, AttachUndone, Deleted, watch
    <2> QED BY <1>2, <2>1, AbsentEntry
  <1>10. CASE DeleteFailed
    <2>1. /\ UNCHANGED <<dog, failed>> /\ act'.pc = "select" /\ act.pc = "deleting"
          /\ conn' = [conn EXCEPT ![act.id] = act.entry]
      BY <1>10, AbsentEntry DEF DeleteFailed, watch
    <2>2. act.entry.whep \notin failed
      BY <2>1 DEF CountInv, HeldOK
    <2>3. \A i \in Ids : conn'[i] = IF i = act.id THEN act.entry ELSE conn[i]
      BY <1>1, <2>1 DEF TypeInv, TypeOK
    <2>4. \A i \in Ids : Mapped(i)' => \/ Mapped(i) /\ conn'[i].whep = conn[i].whep
                                       \/ conn'[i].whep \notin failed
      BY <2>2, <2>3 DEF Mapped
    <2> QED BY <1>1, <2>1, <2>4, CountKept, HeldKept DEF CountInv
  <1>11. CASE Callers \/ Supervisor \/ UNCHANGED vars
    <2>1. conn' = conn /\ act' = act /\ UNCHANGED <<dog, failed>>
      BY <1>11 DEF Callers, Call, Vanish, Supervisor, PipelineInits, InitFails, PipelineStarts,
             InputReady, PipelineMoves, TakeRestart, PipelineStops, SendReset, ResetTimesOut,
             BranchFails, vars, watch
    <2> QED BY <1>2, <2>1
  <1>12. CASE WindowPasses
    <2>1. dog'.failures = dog.failures
      BY <1>1, <1>12 DEF WindowPasses, Aged, TypeInv, TypeOK, Counts
    <2> QED BY <1>1, <1>12, <2>1, CountFrame DEF WindowPasses
  <1>13. ASSUME NEW id \in Ids, DeadlinePasses(id)
         PROVE  CountInv'
    <2>1. \A i \in Ids : conn'[i].state = conn[i].state /\ conn'[i].whep = conn[i].whep
      BY <1>1, <1>13 DEF DeadlinePasses, TypeInv, TypeOK, Entries
    <2> QED BY <1>1, <1>13, <2>1, CountFrame DEF DeadlinePasses, watch
  <1> QED BY <1>4, <1>5, <1>6, <1>7, <1>8, <1>9, <1>10, <1>11, <1>12, <1>13,
             HandleCount, DetachedCount DEF Next, Actor, Await, Clock

\* Nothing is counted at first.
LEMMA InitCount == Init => CountInv
  <1> SUFFICES ASSUME Init PROVE CountInv
    OBVIOUS
  <1>1. failed = {} /\ dog.failures = 0 /\ act.pc = "select"
    BY AbsentEntry DEF Init, Clean
  <1> QED BY <1>1, FS_EmptySet DEF CountInv, CountOK, HeldOK

(***************************************************************************)
(* The watchdog's count is the number of handshakes that failed since it   *)
(* was last cleared: none is counted twice, a delete, a reap or a reset is *)
(* not counted at all, and none from before a success or a trip remains.   *)
(***************************************************************************)
THEOREM FailuresCountOnce == Spec => []WatchdogCountsHandshakesOnce
  <1>1. Init => KindsInv /\ PairInv
    BY InitKinds, InitPairs
  <1>2. Init => CountInv
    BY InitCount
  <1>3. KindsInv /\ PairInv /\ [Next]_vars => (KindsInv /\ PairInv)'
    BY NextKinds, NextPairs
  <1>4. KindsInv /\ PairInv /\ CountInv /\ [Next]_vars => CountInv'
    BY NextCount
  <1>5. CountInv => WatchdogCountsHandshakesOnce
    BY DEF CountInv, CountOK, WatchdogCountsHandshakesOnce
  <1> QED BY <1>1, <1>2, <1>3, <1>4, <1>5, PTL DEF Spec

\* A restart is asked for by nothing but a trip.
LEMMA RestartSteps ==
    KindsInv /\ CountInv /\ [Next]_vars =>
        [~restart /\ restart' =>
            /\ tripRun' = run /\ Cardinality(failed) + 1 >= WatchdogThreshold
            /\ act.pc = "detaching" /\ act.entry.whep \notin failed]_vars
  <1> SUFFICES ASSUME KindsInv, CountInv, [Next]_vars, ~restart, restart'
               PROVE  /\ tripRun' = run /\ Cardinality(failed) + 1 >= WatchdogThreshold
                      /\ act.pc = "detaching" /\ act.entry.whep \notin failed
    OBVIOUS
  <1>1. Detached
    <2>1. ~\E r \in Requests : Handle(r)
      BY HandleLeaves
    <2>2. ~(ReapBranch \/ Sweep \/ SweepNext)
      BY DEF ReapBranch, Sweep, SweepNext, watch
    <2>3. Await => Detached
      BY DEF Await, BranchAdded, BranchRefused, AttachFails, AttachUndone, Deleted, DeleteFailed, watch
    <2>4. ~(Callers \/ Clock \/ Supervisor \/ UNCHANGED vars)
      BY DEF Callers, Call, Vanish, Clock, WindowPasses, DeadlinePasses, Supervisor, PipelineInits,
         InitFails, PipelineStarts, InputReady, PipelineMoves, TakeRestart, PipelineStops,
         SendReset, ResetTimesOut, BranchFails, watch, vars
    <2> QED BY <2>1, <2>2, <2>3, <2>4 DEF Next, Actor
  <1>2. act.pc = "detaching" /\ Trips(dog) /\ tripRun' = run
    BY <1>1 DEF Detached, FeedWatchdog
  <1>3. dog \in Counts /\ dog.failures = Cardinality(failed)
    BY DEF KindsInv, TypeInv, TypeOK, CountInv, CountOK
  <1>4. Cardinality(failed) + 1 >= WatchdogThreshold
    BY <1>2, <1>3, ThresholdAssumption DEF Trips, Counted, Counts
  <1>5. act.entry.whep \notin failed
    BY <1>2 DEF CountInv, HeldOK
  <1> QED BY <1>2, <1>4, <1>5

(***************************************************************************)
(* A restart of the pipeline is earned: it is asked for when one more      *)
(* handshake has failed than those counted, which makes a threshold of     *)
(* different ones, with no success, reset or trip in between, and it is    *)
(* marked for the run that goes on just then                               *)
(* (src/signal/coordinator.rs:615-624, src/signal/watchdog.rs:31-49).      *)
(***************************************************************************)
THEOREM RestartsAreEarned ==
    Spec => [][~restart /\ restart' =>
                  /\ tripRun' = run /\ Cardinality(failed) + 1 >= WatchdogThreshold
                  /\ act.pc = "detaching" /\ act.entry.whep \notin failed]_vars
  <1>1. Init => KindsInv /\ PairInv /\ CountInv
    BY InitKinds, InitPairs, InitCount
  <1>2. KindsInv /\ PairInv /\ [Next]_vars => (KindsInv /\ PairInv)'
    BY NextKinds, NextPairs
  <1>3. KindsInv /\ PairInv /\ CountInv /\ [Next]_vars => CountInv'
    BY NextCount
  <1> QED BY <1>1, <1>2, <1>3, RestartSteps, PTL DEF Spec

-----------------------------------------------------------------------------
(***************************************************************************)
(* Sessions.                                                               *)
(***************************************************************************)

\* What the callers of one connection see of a step.
SessionStep(id) == S(id)!Next \/ UNCHANGED S(id)!vars

\* Replies sent, one by one.
LEMMA RepliesGiven ==
    ASSUME TypeInv, NEW f, reply' = Answered(f)
    PROVE  \A r \in Requests : IF r \in DOMAIN f THEN reply'[r] \in {f[r], "lost"}
                               ELSE reply'[r] = reply[r]
  BY DEF Answered, TypeInv, TypeOK

\* The same for callers that are all told the one thing.
LEMMA RepliesTold ==
    ASSUME TypeInv, NEW C, NEW cause, reply' = Told(C, cause)
    PROVE  \A r \in Requests : IF r \in C THEN reply'[r] \in {cause, "lost"}
                               ELSE reply'[r] = reply[r]
  <1> DEFINE f == [r \in C |-> cause]
  <1>1. reply' = Answered(f)
    BY DEF Told
  <1>2. DOMAIN f = C /\ \A r \in C : f[r] = cause
    OBVIOUS
  <1> HIDE DEF f
  <1>3. \A r \in Requests : IF r \in DOMAIN f THEN reply'[r] \in {f[r], "lost"}
                             ELSE reply'[r] = reply[r]
    BY <1>1, RepliesGiven
  <1> QED BY <1>2, <1>3

\* A step that a session does not notice.
LEMMA SessionStutters ==
    ASSUME NEW id \in Ids,
           Seen(id)'.state = Seen(id).state, Seen(id)'.waiter = Seen(id).waiter,
           \A r \in CallsOf(id) : reply'[r] = reply[r]
    PROVE  SessionStep(id)
  BY DEF SessionStep, S!vars

\* Whom a connection keeps waiting.
LEMMA SeenWaits ==
    ASSUME KindsInv, NEW id \in Ids
    PROVE  /\ Seen(id).state = "absent" => Seen(id).waiter = NoRequest
           /\ Seen(id).waiter # NoRequest =>
                 Seen(id).waiter \in CallsOf(id) /\ reply[Seen(id).waiter] = "none"
  <1>1. CASE act.pc = "deleting" /\ act.id = id
    <2>1. /\ Seen(id) = act.entry /\ ParkedOK(act.entry, id) /\ act.entry.state # "absent"
          /\ act.entry \in Entries /\ act.entry.whep \in Requests
      BY <1>1 DEF Seen, KindsInv, KindsOK, CallsInv, HandsOK, TypeInv, TypeOK, ActorOK, Acts
    <2>2. ASSUME act.entry.waiter # NoRequest
          PROVE  act.entry.waiter \in CallsOf(id) /\ reply[act.entry.waiter] = "none"
      <3>1. act.entry.waiter \in Unanswered
        BY <2>2 DEF InHand, KindsInv, CallsInv, EachCallIsHeldOnce
      <3>2. /\ act.entry.waiter \in Requests /\ Target[act.entry.waiter] = id
            /\ Kind[act.entry.waiter] \in {"create", "offer"}
        BY <2>1, <2>2 DEF ParkedOK, Entries, States
      <3> QED BY <3>1, <3>2 DEF Unanswered, CallsOf
    <2> QED BY <2>1, <2>2
  <1>2. CASE ~(act.pc = "deleting" /\ act.id = id)
    <2>1. /\ Seen(id) = conn[id] /\ ParkedOK(conn[id], id) /\ conn[id] \in Entries
      BY <1>2 DEF Seen, KindsInv, KindsOK, TypeInv, TypeOK
    <2>2. ASSUME conn[id].waiter # NoRequest
          PROVE  conn[id].waiter \in CallsOf(id) /\ reply[conn[id].waiter] = "none"
      <3>1. conn[id].waiter \in Unanswered
        BY <2>2 DEF Waiters, KindsInv, CallsInv, EachCallIsHeldOnce
      <3>2. /\ conn[id].waiter \in Requests /\ Target[conn[id].waiter] = id
            /\ Kind[conn[id].waiter] \in {"create", "offer"}
        <4>1. conn[id].state # "absent" => conn[id].whep \in Requests
          BY DEF KindsInv, TypeInv, ActorOK, Mapped
        <4> QED BY <2>1, <2>2, <4>1 DEF ParkedOK, Entries, States
      <3> QED BY <3>1, <3>2 DEF Unanswered, CallsOf
    <2>3. conn[id].state = "absent" => conn[id].waiter = NoRequest
      BY <2>1 DEF ParkedOK
    <2> QED BY <2>1, <2>2, <2>3
  <1> QED BY <1>1, <1>2

\* A connection ends, and its one waiter learns of the cause.
LEMMA SessionEnds ==
    ASSUME KindsInv, NEW id \in Ids, NEW cause \in {"Gone", "Timeout", "Unavailable"},
           Seen(id).state # "absent",
           Seen(id)'.state = "absent", Seen(id)'.waiter = NoRequest,
           \A r \in CallsOf(id) : IF r = Seen(id).waiter THEN reply'[r] \in {cause, "lost"}
                                  ELSE reply'[r] = reply[r]
    PROVE  SessionStep(id)
  <1>1. NoRequest \notin CallsOf(id)
    BY RequestAssumption DEF CallsOf
  <1>2. \A r \in CallsOf(id) :
           IF r \in {Seen(id).waiter} \ {NoRequest}
           THEN reply[r] = "none" /\ reply'[r] \in {cause, "lost"}
           ELSE reply'[r] = reply[r]
    BY <1>1, SeenWaits
  <1>3. S(id)!Ends
    BY <1>2 DEF S!Ends, S!Answer, S!Waiting
  <1> QED BY <1>3 DEF SessionStep, S!Next

\* A connection ends through the call r that found its peer gone.
LEMMA SessionBreaks ==
    ASSUME KindsInv, NEW id \in Ids, NEW r \in CallsOf(id), Kind[r] \in {"offer", "answer"},
           Seen(id).state # "absent", r # Seen(id).waiter, reply[r] = "none",
           Seen(id)'.state = "absent", Seen(id)'.waiter = NoRequest,
           \A q \in CallsOf(id) : IF q \in {Seen(id).waiter, r} THEN reply'[q] \in {"Gone", "lost"}
                                  ELSE reply'[q] = reply[q]
    PROVE  SessionStep(id)
  <1>1. NoRequest \notin CallsOf(id)
    BY RequestAssumption DEF CallsOf
  <1>2. \A q \in CallsOf(id) :
           IF q \in ({Seen(id).waiter} \ {NoRequest}) \cup {r}
           THEN reply[q] = "none" /\ reply'[q] \in {"Gone", "lost"}
           ELSE reply'[q] = reply[q]
    BY <1>1, SeenWaits
  <1>3. r \in CallsOf(id) \ ({Seen(id).waiter} \ {NoRequest})
    OBVIOUS
  <1>4. S(id)!Ends
    BY <1>2, <1>3 DEF S!Ends, S!Answer, S!Waiting
  <1> QED BY <1>4 DEF SessionStep, S!Next

\* A connection ends through the DELETE r.
LEMMA SessionDeleted ==
    ASSUME KindsInv, NEW id \in Ids, NEW r \in CallsOf(id), Kind[r] = "remove",
           Seen(id).state # "absent", r # Seen(id).waiter, reply[r] = "none",
           Seen(id)'.state = "absent", Seen(id)'.waiter = NoRequest,
           \A q \in CallsOf(id) :
              IF q = r THEN reply'[q] \in {"ok", "lost"}
              ELSE IF q = Seen(id).waiter THEN reply'[q] \in {"Gone", "lost"}
              ELSE reply'[q] = reply[q]
    PROVE  SessionStep(id)
  <1>1. NoRequest \notin CallsOf(id)
    BY RequestAssumption DEF CallsOf
  <1>2. \A q \in CallsOf(id) :
           IF q \in ({Seen(id).waiter} \ {NoRequest}) \cup {r}
           THEN reply[q] = "none" /\ reply'[q] \in {IF q = r THEN "ok" ELSE "Gone", "lost"}
           ELSE reply'[q] = reply[q]
    BY <1>1, SeenWaits
  <1>3. r \in CallsOf(id) \ ({Seen(id).waiter} \ {NoRequest})
    OBVIOUS
  <1>4. S(id)!Ends
    BY <1>2, <1>3 DEF S!Ends, S!Answer, S!Waiting
  <1> QED BY <1>4 DEF SessionStep, S!Next

\* A call comes to nothing.
LEMMA SessionRefuses ==
    ASSUME KindsInv, NEW id \in Ids, NEW r \in CallsOf(id), NEW error,
           r # Seen(id).waiter, reply[r] = "none",
           \/ /\ Seen(id).state = "absent"
              /\ IF Kind[r] = "create" THEN error \in {"NotReady", "PipelineBusy", "Pipeline"}
                 ELSE error = "NotFound"
           \/ /\ Seen(id).state # "absent"
              /\ IF Kind[r] = "remove" THEN error \in {"PipelineBusy", "Pipeline"}
                 ELSE error = "WrongState",
           Seen(id)'.state = Seen(id).state, Seen(id)'.waiter = Seen(id).waiter,
           \A q \in CallsOf(id) : IF q = r THEN reply'[q] \in {error, "lost"}
                                  ELSE reply'[q] = reply[q]
    PROVE  SessionStep(id)
  <1>1. error \in S(id)!Refusals(r)
    BY DEF S!Refusals
  <1>2. S(id)!Refuses(r)
    BY <1>1 DEF S!Refuses, S!Answer
  <1> QED BY <1>2 DEF SessionStep, S!Next

\* What the callers of the other connections see of a step for id.
LEMMA OthersStutter ==
    ASSUME TypeInv, NEW id \in Ids, NEW j \in Ids \ {id},
           Seen(j)'.state = Seen(j).state, Seen(j)'.waiter = Seen(j).waiter,
           \A q \in Requests : Target[q] # id \/ Kind[q] = "reset" => reply'[q] = reply[q]
    PROVE  SessionStep(j)
  <1>1. \A q \in CallsOf(j) : reply'[q] = reply[q]
    BY DEF CallsOf
  <1> QED BY <1>1, SessionStutters

\* A call in the mailbox is answered by nobody, and nobody keeps it.
LEMMA QueuedWaits ==
    ASSUME KindsInv, NEW r \in Queued
    PROVE  r \in Requests /\ reply[r] = "none" /\ r \notin Waiters(Ids) /\ r \notin InHand
  <1>1. r \in Unanswered
    BY DEF KindsInv, CallsInv, EachCallIsHeldOnce
  <1>2. r \notin Waiters(Ids) /\ r \notin InHand
    BY DEF KindsInv, CallsInv, EachCallIsHeldOnce
  <1>3. r \in Requests /\ reply[r] = "none"
    BY <1>1 DEF Unanswered, KindsInv, TypeInv, TypeOK
  <1> QED BY <1>2, <1>3

\* terminate(), as the callers of id see it: nothing yet, if it is a DELETE,
\* and otherwise the end of their connection.
LEMMA TerminateSession ==
    ASSUME KindsInv, act.pc \in {"select", "sweeping"}, NEW id \in Ids, Mapped(id),
           NEW reason \in {"Deleted", "Expired", "PeerGone", "Reaped"},
           NEW req, NEW told, NEW rest, Terminate(id, reason, req, told, rest),
           \/ told = {}
           \/ /\ reason = "PeerGone"
              /\ \E r \in Queued : /\ told = {r} /\ Target[r] = id
                                   /\ Kind[r] \in {"offer", "answer"}
    PROVE  \A j \in Ids : SessionStep(j)
  <1> DEFINE w == conn[id].waiter
  <1>1. /\ TypeInv /\ \A j \in Ids : Seen(j) = conn[j]
        /\ \A j \in Ids : conn'[j] = IF j = id THEN Absent ELSE conn[j]
    BY DEF Terminate, KindsInv, TypeInv, TypeOK, Seen
  <1>2. w # NoRequest => Target[w] = id /\ Kind[w] # "reset" /\ w \in Waiters(Ids)
    BY <1>1, SeenWaits DEF CallsOf, Waiters
  <1>3. CASE reason = "Deleted"
    <2>1. /\ act'.pc = "deleting" /\ act'.id = id /\ act'.entry = conn[id] /\ reply' = reply
      BY <1>3 DEF Terminate, Policy
    <2>2. \A j \in Ids : Seen(j)' = Seen(j)
      BY <1>1, <2>1 DEF Seen
    <2> QED BY <2>1, <2>2, SessionStutters
  <1>4. CASE reason # "Deleted"
    <2> DEFINE cause == IF reason = "Expired" THEN "Timeout" ELSE "Gone"
    <2>1. act'.pc = "detaching" /\ reply' = Told(Waiters({id}) \cup told, cause)
      BY <1>4 DEF Terminate, Policy
    <2>2. \A j \in Ids : Seen(j)' = conn'[j]
      BY <2>1 DEF Seen
    <2>3. \A q \in Requests : IF q \in Waiters({id}) \cup told THEN reply'[q] \in {cause, "lost"}
                              ELSE reply'[q] = reply[q]
      <3> DEFINE C == Waiters({id}) \cup told
      <3>1. TypeInv /\ reply' = Told(C, cause)
        BY <1>1, <2>1
      <3> HIDE DEF C, cause
      <3>2. \A q \in Requests : IF q \in C THEN reply'[q] \in {cause, "lost"}
                                ELSE reply'[q] = reply[q]
        BY <3>1, RepliesTold
      <3> QED BY <3>2 DEF C
    <2>4. Waiters({id}) = {w} \ {NoRequest}
      BY DEF Waiters
    <2>5. \A j \in Ids \ {id} : SessionStep(j)
      <3>1. \A q \in Requests : Target[q] # id \/ Kind[q] = "reset" => reply'[q] = reply[q]
        BY <1>2, <2>3, <2>4
      <3> QED BY <1>1, <2>2, <3>1, OthersStutter
    <2>6. /\ Seen(id).state # "absent" /\ Seen(id).waiter = w
          /\ Seen(id)'.state = "absent" /\ Seen(id)'.waiter = NoRequest
      BY <1>1, <2>2, AbsentEntry DEF Mapped
    <2>7. CASE told = {}
      <3>1. \A q \in CallsOf(id) : IF q = Seen(id).waiter THEN reply'[q] \in {cause, "lost"}
                                   ELSE reply'[q] = reply[q]
        BY <2>3, <2>4, <2>6, <2>7, RequestAssumption DEF CallsOf
      <3> QED BY <2>5, <2>6, <3>1, SessionEnds
    <2>8. CASE told # {}
      <3>1. PICK r \in Queued : /\ told = {r} /\ Target[r] = id
                                /\ Kind[r] \in {"offer", "answer"} /\ reason = "PeerGone"
        BY <2>8
      <3>2. r \in CallsOf(id) /\ reply[r] = "none" /\ r # w
        <4>1. r \in Requests /\ reply[r] = "none" /\ r \notin Waiters(Ids)
          BY <3>1, QueuedWaits
        <4>2. r # NoRequest
          BY <4>1, RequestAssumption
        <4>3. r # w
          BY <1>2, <4>1, <4>2
        <4> QED BY <3>1, <4>1, <4>3 DEF CallsOf
      <3>3. \A q \in CallsOf(id) : IF q \in {Seen(id).waiter, r} THEN reply'[q] \in {"Gone", "lost"}
                                   ELSE reply'[q] = reply[q]
        BY <2>3, <2>4, <2>6, <3>1, RequestAssumption DEF CallsOf
      <3>4. SessionStep(id)
        BY <2>6, <3>1, <3>2, <3>3, SessionBreaks
      <3> QED BY <2>5, <3>4
    <2> QED BY <2>7, <2>8
  <1> QED BY <1>3, <1>4

\* The Reset row, as the callers see it: the end of every connection.
LEMMA ResetSession ==
    ASSUME KindsInv, act.pc # "deleting", act'.pc # "deleting", NEW answers,
           \A r \in DOMAIN answers : Kind[r] = "reset", ResetAll(answers)
    PROVE  \A j \in Ids : SessionStep(j)
  <1>1. /\ TypeInv /\ \A j \in Ids : Seen(j) = conn[j] /\ Seen(j)' = Absent
        /\ \A i \in Ids : conn[i].waiter # NoRequest => Target[conn[i].waiter] = i
      BY DEF ResetAll, Seen, KindsInv, CallsInv, EachCallIsHeldOnce
  <1>2. \A q \in Requests : IF q \in Waiters(Ids) THEN reply'[q] \in {"Unavailable", "lost"}
                            ELSE q \notin DOMAIN answers => reply'[q] = reply[q]
    <2> DEFINE f == [r \in Waiters(Ids) \cup DOMAIN answers |->
                        IF r \in Waiters(Ids) THEN Policy("Reset").notice ELSE answers[r]]
    <2>1. reply' = Answered(f) /\ \A q \in Waiters(Ids) : f[q] = "Unavailable"
      BY DEF ResetAll, Policy
    <2>2. \A q \in Requests : IF q \in DOMAIN f THEN reply'[q] \in {f[q], "lost"}
                              ELSE reply'[q] = reply[q]
      <3> HIDE DEF f
      <3> QED BY <1>1, <2>1, RepliesGiven
    <2> QED BY <2>1, <2>2
  <1> SUFFICES ASSUME NEW j \in Ids PROVE SessionStep(j)
    OBVIOUS
  <1>3. \A q \in CallsOf(j) : IF q = conn[j].waiter THEN reply'[q] \in {"Unavailable", "lost"}
                              ELSE reply'[q] = reply[q]
    <2>1. \A q \in CallsOf(j) : q \in Requests /\ Target[q] = j /\ q \notin DOMAIN answers
      BY DEF CallsOf
    <2>2. \A q \in CallsOf(j) : q \in Waiters(Ids) <=> q = conn[j].waiter
      BY <1>1, <2>1, RequestAssumption DEF Waiters
    <2> QED BY <1>2, <2>1, <2>2
  <1>4. CASE Mapped(j)
    BY <1>1, <1>3, <1>4, AbsentEntry, SessionEnds DEF Mapped
  <1>5. CASE ~Mapped(j)
    <2>1. conn[j].state = "absent" /\ conn[j].waiter = NoRequest
      BY <1>5 DEF Mapped, KindsInv, CallsInv, HandsOK
    <2>2. NoRequest \notin CallsOf(j)
      BY RequestAssumption DEF CallsOf
    <2> QED BY <1>1, <1>3, <2>1, <2>2, AbsentEntry, SessionStutters
  <1> QED BY <1>4, <1>5

\* A step in which the call r of id comes to nothing.
LEMMA RefusedSession ==
    ASSUME KindsInv, NEW r \in Requests, Kind[r] # "reset", NEW error,
           r # Seen(Target[r]).waiter, reply[r] = "none", reply' = Told({r}, error),
           \A j \in Ids : Seen(j)'.state = Seen(j).state /\ Seen(j)'.waiter = Seen(j).waiter,
           \/ /\ Seen(Target[r]).state = "absent"
              /\ IF Kind[r] = "create" THEN error \in {"NotReady", "PipelineBusy", "Pipeline"}
                 ELSE error = "NotFound"
           \/ /\ Seen(Target[r]).state # "absent"
              /\ IF Kind[r] = "remove" THEN error \in {"PipelineBusy", "Pipeline"}
                 ELSE error = "WrongState"
    PROVE  \A j \in Ids : SessionStep(j)
  <1>1. TypeInv /\ Target[r] \in Ids /\ r \in CallsOf(Target[r])
    BY RequestAssumption DEF KindsInv, CallsOf
  <1>2. \A q \in Requests : IF q = r THEN reply'[q] \in {error, "lost"} ELSE reply'[q] = reply[q]
    <2>1. \A q \in Requests : IF q \in {r} THEN reply'[q] \in {error, "lost"} ELSE reply'[q] = reply[q]
      BY <1>1, RepliesTold
    <2> QED BY <2>1
  <1>3. SessionStep(Target[r])
    <2>1. \A q \in CallsOf(Target[r]) : IF q = r THEN reply'[q] \in {error, "lost"}
                                        ELSE reply'[q] = reply[q]
      BY <1>2 DEF CallsOf
    <2> QED BY <1>1, <2>1, SessionRefuses
  <1>4. ASSUME NEW j \in Ids \ {Target[r]} PROVE SessionStep(j)
    <2>1. \A q \in Requests : Target[q] # Target[r] \/ Kind[q] = "reset" => reply'[q] = reply[q]
      BY <1>2
    <2> QED BY <1>1, <2>1, OthersStutter
  <1> QED BY <1>3, <1>4

\* A handler that refuses a call which it took from the mailbox.
LEMMA RefuseSession ==
    ASSUME KindsInv, NEW r \in Requests, Receive(r), Kind[r] # "reset", NEW error,
           Refuse(r, error),
           \/ ~Mapped(Target[r]) /\ Kind[r] # "create" /\ error = "NotFound"
           \/ Mapped(Target[r]) /\ Kind[r] # "remove" /\ error = "WrongState"
    PROVE  \A j \in Ids : SessionStep(j)
  <1>1. act.pc = "select" /\ r \in Queued /\ Target[r] \in Ids
    BY ReceiveLeaves, RequestAssumption DEF KindsInv, CallsInv
  <1>2. /\ reply' = Told({r}, error)
        /\ \A j \in Ids : Seen(j) = conn[j] /\ Seen(j)' = conn[j]
    BY <1>1 DEF Refuse, Seen
  <1>3. reply[r] = "none" /\ r # conn[Target[r]].waiter
    BY <1>1, QueuedWaits, RequestAssumption DEF Waiters
  <1> QED BY <1>1, <1>2, <1>3, RefusedSession DEF Mapped

\* An offer that reaches its viewer.
LEMMA OfferSession ==
    ASSUME KindsInv, NEW r \in Requests, OfferReceived(r),
           TakesOffer(conn[Target[r]]), conn[Target[r]].waiter \notin gone
    PROVE  \A j \in Ids : SessionStep(j)
  <1> DEFINE id == Target[r]
             e == conn[id]
  <1>1. /\ Kind[r] = "offer" /\ act.pc = "select" /\ r \in Queued /\ id \in Ids /\ TypeInv
        /\ e \in Entries /\ e.state = "awaiting_offer"
    BY ReceiveLeaves, RequestAssumption DEF OfferReceived, TakesOffer, KindsInv, CallsInv, TypeInv, TypeOK
  <1>2. e.waiter # NoRequest
    BY <1>1, RequestAssumption DEF KindsInv, KindsOK, ParkedOK, TypeInv, ActorOK, Mapped
  <1>3. /\ reply' = Told({e.waiter}, "sdp") /\ act' = act
        /\ conn' = [conn EXCEPT ![id] = AwaitingAnswer(e, r)]
    BY <1>1 DEF OfferReceived, Terminate, TakesOffer, Mapped, Refuse
  <1>4. \A j \in Ids : Seen(j) = conn[j] /\ Seen(j)' = conn'[j]
    BY <1>1, <1>3 DEF Seen
  <1>5. /\ conn'[id].state = "awaiting_answer" /\ conn'[id].waiter = r
        /\ \A j \in Ids \ {id} : conn'[j] = conn[j]
    BY <1>1, <1>3 DEF AwaitingAnswer, Entries, TypeInv, TypeOK
  <1>6. e.waiter \in CallsOf(id) /\ reply[e.waiter] = "none" /\ r \in CallsOf(id) /\ reply[r] = "none"
    BY <1>1, <1>2, <1>4, SeenWaits, QueuedWaits DEF CallsOf
  <1>7. \A q \in Requests : IF q = e.waiter THEN reply'[q] = "sdp" ELSE reply'[q] = reply[q]
    BY <1>3 DEF Told, Answered
  <1>8. SessionStep(id)
    <2>1. \A q \in CallsOf(id) : IF q \in {Seen(id).waiter} \ {NoRequest}
                                 THEN reply[q] = "none" /\ reply'[q] \in {"sdp", "lost"}
                                 ELSE reply'[q] = reply[q]
      BY <1>1, <1>2, <1>4, <1>6, <1>7 DEF CallsOf
    <2>2. reply'[e.waiter] = "sdp"
      BY <1>6, <1>7 DEF CallsOf
    <2>3. S(id)!Offers(r)
      BY <1>1, <1>2, <1>4, <1>5, <1>6, <2>1, <2>2 DEF S!Offers, S!Answer, S!Waiting
    <2> QED BY <1>6, <2>3 DEF SessionStep, S!Next
  <1>9. ASSUME NEW j \in Ids \ {id} PROVE SessionStep(j)
    <2>1. \A q \in Requests : Target[q] # id \/ Kind[q] = "reset" => reply'[q] = reply[q]
      BY <1>6, <1>7 DEF CallsOf
    <2> QED BY <1>1, <1>4, <1>5, <2>1, OthersStutter
  <1> QED BY <1>8, <1>9

\* An answer that reaches its whipsink.
LEMMA AnswerSession ==
    ASSUME KindsInv, NEW r \in Requests, AnswerReceived(r),
           conn[Target[r]].state = "awaiting_answer", conn[Target[r]].waiter \notin gone
    PROVE  \A j \in Ids : SessionStep(j)
  <1> DEFINE id == Target[r]
             e == conn[id]
  <1>1. /\ Kind[r] = "answer" /\ act.pc = "select" /\ r \in Queued /\ id \in Ids /\ TypeInv
        /\ e \in Entries
    BY ReceiveLeaves, RequestAssumption DEF AnswerReceived, KindsInv, CallsInv, TypeInv, TypeOK
  <1>2. e.waiter # NoRequest
    BY <1>1, RequestAssumption DEF KindsInv, KindsOK, ParkedOK
  <1>3. /\ reply' = Answered([q \in {e.waiter, r} |-> IF q = r THEN "ok" ELSE "sdp"])
        /\ act' = act /\ conn' = [conn EXCEPT ![id] = Established(e)]
    BY <1>1 DEF AnswerReceived, Terminate, Mapped, Refuse
  <1>4. \A j \in Ids : Seen(j) = conn[j] /\ Seen(j)' = conn'[j]
    BY <1>1, <1>3 DEF Seen
  <1>5. /\ conn'[id].state = "established" /\ conn'[id].waiter = NoRequest
        /\ \A j \in Ids \ {id} : conn'[j] = conn[j]
    BY <1>1, <1>3 DEF Established, Entries, TypeInv, TypeOK
  <1>6. e.waiter \in CallsOf(id) /\ reply[e.waiter] = "none" /\ r \in CallsOf(id) /\ reply[r] = "none"
    BY <1>1, <1>2, <1>4, SeenWaits, QueuedWaits DEF CallsOf
  <1>7. r # e.waiter
    BY <1>1, <1>2, QueuedWaits DEF Waiters
  <1>8. \A q \in Requests : IF q = r THEN reply'[q] \in {"ok", "lost"}
                            ELSE IF q = e.waiter THEN reply'[q] = "sdp" ELSE reply'[q] = reply[q]
    BY <1>3, <1>7 DEF Answered
  <1>9. SessionStep(id)
    <2>1. \A q \in CallsOf(id) : IF q \in ({Seen(id).waiter} \ {NoRequest}) \cup {r}
                                 THEN /\ reply[q] = "none"
                                      /\ reply'[q] \in {IF q = r THEN "ok" ELSE "sdp", "lost"}
                                 ELSE reply'[q] = reply[q]
      BY <1>1, <1>2, <1>4, <1>6, <1>7, <1>8 DEF CallsOf
    <2>2. reply'[e.waiter] = "sdp"
      BY <1>6, <1>7, <1>8 DEF CallsOf
    <2>3. S(id)!Answers(r)
      BY <1>1, <1>2, <1>4, <1>5, <1>6, <2>1, <2>2 DEF S!Answers, S!Answer, S!Waiting
    <2> QED BY <1>6, <2>3 DEF SessionStep, S!Next
  <1>10. ASSUME NEW j \in Ids \ {id} PROVE SessionStep(j)
    <2>1. \A q \in Requests : Target[q] # id \/ Kind[q] = "reset" => reply'[q] = reply[q]
      BY <1>6, <1>8 DEF CallsOf
    <2> QED BY <1>1, <1>4, <1>5, <2>1, OthersStutter
  <1> QED BY <1>9, <1>10

LEMMA HandleSession ==
    ASSUME KindsInv, NEW r \in Requests, Handle(r)
    PROVE  \A j \in Ids : SessionStep(j)
  <1> DEFINE id == Target[r]
  <1>1. TypeInv /\ id \in Ids /\ Kind[r] \in Kinds
    BY RequestAssumption DEF KindsInv
  <1>2. Receive(r)
    BY DEF Handle, CreateConnection, OfferReceived, AnswerReceived, RemoveConnection, Reset
  <1>3. act.pc = "select" /\ r \in Queued
    BY <1>2, ReceiveLeaves DEF KindsInv, CallsInv
  <1>4. CASE CreateConnection(r)
    <2>1. CASE Mapped(id) /\ Refuse(r, "WrongState")
      BY <1>2, <1>4, <2>1, RefuseSession DEF CreateConnection
    <2>2. CASE ~Mapped(id) /\ act' = [Idle EXCEPT !.pc = "adding", !.req = r, !.id = id]
               /\ UNCHANGED <<conn, replies, watch>>
      <3>1. \A j \in Ids : Seen(j) = conn[j] /\ Seen(j)' = conn[j]
        BY <1>3, <2>2 DEF Seen, Idle
      <3> QED BY <2>2, <3>1, SessionStutters DEF replies
    <2> QED BY <1>4, <2>1, <2>2 DEF CreateConnection
  <1>5. CASE OfferReceived(r)
    <2>1. CASE ~Mapped(id) /\ Refuse(r, "NotFound")
      BY <1>2, <1>5, <2>1, RefuseSession DEF OfferReceived
    <2>2. CASE Mapped(id) /\ Refuse(r, "WrongState")
      BY <1>2, <1>5, <2>2, RefuseSession DEF OfferReceived
    <2>3. CASE TakesOffer(conn[id]) /\ conn[id].waiter \notin gone
      BY <1>5, <2>3, OfferSession
    <2>4. CASE TakesOffer(conn[id]) /\ Terminate(id, "PeerGone", NoRequest, {r}, {})
      <3>1. Mapped(id) /\ Kind[r] = "offer"
        BY <1>5, <2>4 DEF TakesOffer, Mapped, OfferReceived
      <3> QED BY <1>1, <1>3, <2>4, <3>1, TerminateSession
    <2> QED BY <1>5, <2>1, <2>2, <2>3, <2>4 DEF OfferReceived
  <1>6. CASE AnswerReceived(r)
    <2>1. CASE ~Mapped(id) /\ Refuse(r, "NotFound")
      BY <1>2, <1>6, <2>1, RefuseSession DEF AnswerReceived
    <2>2. CASE conn[id].state \in {"awaiting_offer", "established"} /\ Refuse(r, "WrongState")
      BY <1>2, <1>6, <2>2, RefuseSession DEF AnswerReceived, Mapped
    <2>3. CASE conn[id].state = "awaiting_answer" /\ conn[id].waiter \notin gone
      BY <1>6, <2>3, AnswerSession
    <2>4. CASE conn[id].state = "awaiting_answer" /\ Terminate(id, "PeerGone", NoRequest, {r}, {})
      <3>1. Mapped(id) /\ Kind[r] = "answer"
        BY <1>6, <2>4 DEF Mapped, AnswerReceived
      <3> QED BY <1>1, <1>3, <2>4, <3>1, TerminateSession
    <2> QED BY <1>6, <2>1, <2>2, <2>3, <2>4 DEF AnswerReceived
  <1>7. CASE RemoveConnection(r)
    <2>1. CASE ~Mapped(id) /\ Refuse(r, "NotFound")
      BY <1>2, <1>7, <2>1, RefuseSession DEF RemoveConnection
    <2>2. CASE Mapped(id) /\ Terminate(id, "Deleted", r, {}, {})
      BY <1>1, <1>3, <2>2, TerminateSession
    <2> QED BY <1>7, <2>1, <2>2 DEF RemoveConnection
  <1>8. CASE Reset(r)
    <2>1. act' = act /\ ResetAll([q \in {r} |-> "ok"]) /\ Kind[r] = "reset"
      BY <1>8 DEF Reset
    <2> QED BY <1>3, <2>1, ResetSession
  <1> QED BY <1>4, <1>5, <1>6, <1>7, <1>8 DEF Handle

\* A connection that is out of the map was taken by a DELETE that names it.
DeleteNames == act.pc = "deleting" => act.reason = "Deleted" /\ Target[act.req] = act.id

LEMMA NextDeleteNames ==
    ASSUME KindsInv, DeleteNames, [Next]_vars
    PROVE  DeleteNames'
  <1>1. CASE act' = act
    BY <1>1 DEF DeleteNames
  <1>2. CASE act'.pc # "deleting"
    BY <1>2 DEF DeleteNames
  <1>3. \A id, reason, req, told, rest :
            Terminate(id, reason, req, told, rest) /\ reason # "Deleted" /\ reason \in Reasons =>
                act'.pc # "deleting"
    BY DEF Terminate, Policy, Reasons
  <1>4. {"PeerGone", "Reaped", "Expired"} \subseteq Reasons \ {"Deleted"}
    BY DEF Reasons
  <1>5. CASE Next
    <2>1. CASE \E r \in Requests : RemoveConnection(r)
      <3>1. PICK r \in Requests : RemoveConnection(r)
        BY <2>1
      <3>2. CASE Terminate(Target[r], "Deleted", r, {}, {})
        BY <3>2 DEF Terminate, DeleteNames
      <3> QED BY <1>1, <3>1, <3>2 DEF RemoveConnection, Refuse
    <2>2. CASE \E r \in Requests : CreateConnection(r) \/ OfferReceived(r) \/ AnswerReceived(r) \/ Reset(r)
      <3>1. PICK r \in Requests : CreateConnection(r) \/ OfferReceived(r) \/ AnswerReceived(r) \/ Reset(r)
        BY <2>2
      <3> QED BY <1>1, <1>2, <1>3, <1>4, <3>1
              DEF CreateConnection, OfferReceived, AnswerReceived, Reset, Refuse, Idle
    <2>3. CASE ReapBranch
      BY <1>1, <1>2, <1>3, <1>4, <2>3 DEF ReapBranch
    <2>4. CASE Sweep \/ SweepNext
      BY <1>2, <1>3, <1>4, <2>4, AbsentEntry DEF Sweep, SweepNext, Idle
    <2>5. CASE Await
      <3>1. CASE AttachFails
        BY <1>2, <3>1 DEF AttachFails, KindsInv, TypeInv, TypeOK, Acts
      <3>2. CASE BranchAdded \/ BranchRefused \/ AttachUndone \/ Deleted \/ DeleteFailed
        BY <1>2, <3>2, AbsentEntry DEF BranchAdded, BranchRefused, AttachUndone, Deleted, DeleteFailed
      <3>3. CASE Detached
        BY <1>2, <3>3, AbsentEntry DEF Detached
      <3> QED BY <2>5, <3>1, <3>2, <3>3 DEF Await
    <2>6. CASE Callers \/ Clock \/ Supervisor
      BY <1>1, <2>6 DEF Callers, Call, Vanish, Clock, DeadlinePasses, WindowPasses, Supervisor,
         PipelineInits, InitFails, PipelineStarts, InputReady, PipelineMoves, TakeRestart,
         PipelineStops, SendReset, ResetTimesOut, BranchFails
    <2> QED BY <1>5, <2>1, <2>2, <2>3, <2>4, <2>5, <2>6 DEF Next, Actor, Handle
  <1> QED BY <1>1, <1>5 DEF vars

\* The end of a DELETE's teardown: only now is it decided, for everyone.
LEMMA DeleteSession ==
    ASSUME KindsInv, DeleteNames, Deleted \/ DeleteFailed
    PROVE  \A j \in Ids : SessionStep(j)
  <1> DEFINE e == act.entry
  <1>0. act.pc = "deleting" /\ act.id \in Ids /\ act.req \in Requests
    BY DEF Deleted, DeleteFailed, KindsInv, TypeInv, ActorOK
  <1> PICK id \in Ids, r \in Requests : id = act.id /\ r = act.req
    BY <1>0
  <1>1. /\ TypeInv /\ act.pc = "deleting" /\ act'.pc = "select"
        /\ Kind[r] = "remove" /\ Target[r] = id
        /\ ~Mapped(id) /\ conn[id].waiter = NoRequest /\ e.state # "absent"
    BY AbsentEntry DEF Deleted, DeleteFailed, KindsInv, KindsOK, CallsInv, HandsOK, TypeInv, ActorOK,
       DeleteNames
  <1>2. /\ Seen(id) = e /\ \A j \in Ids \ {id} : Seen(j) = conn[j]
        /\ \A j \in Ids : Seen(j)' = conn'[j]
    BY <1>1 DEF Seen
  <1>3. r # e.waiter /\ r \in CallsOf(id) /\ reply[r] = "none"
    <2>1. r # NoRequest /\ r \in InHand
      BY <1>1, RequestAssumption DEF InHand
    <2> QED BY <1>1, <2>1 DEF KindsInv, CallsInv, EachCallIsHeldOnce, Unanswered, CallsOf
  <1>4. CASE Deleted
    <2> DEFINE w == {e.waiter} \ {NoRequest}
               f == [q \in w \cup {r} |-> IF q \in w THEN Policy(act.reason).notice ELSE "ok"]
    <2>1. reply' = Answered(f) /\ conn' = conn
      BY <1>4 DEF Deleted
    <2>2. Policy(act.reason).notice = "Gone"
      BY <1>1 DEF DeleteNames, Policy
    <2>3. \A q \in Requests : IF q \in DOMAIN f THEN reply'[q] \in {f[q], "lost"}
                              ELSE reply'[q] = reply[q]
      <3> HIDE DEF f
      <3> QED BY <1>1, <2>1, RepliesGiven
    <2>4. \A q \in Requests : IF q = r THEN reply'[q] \in {"ok", "lost"}
                              ELSE IF q = e.waiter THEN reply'[q] \in {"Gone", "lost"}
                              ELSE reply'[q] = reply[q]
      BY <1>3, <2>2, <2>3, RequestAssumption
    <2>5. SessionStep(id)
      <3>1. conn[id].state = "absent"
        BY <1>1 DEF Mapped
      <3>2. \A q \in CallsOf(id) : q \in Requests
        BY DEF CallsOf
      <3>3. Seen(id)'.state = "absent" /\ Seen(id)'.waiter = NoRequest
        BY <1>1, <1>2, <2>1, <3>1
      <3>4. Seen(id).state # "absent" /\ r # Seen(id).waiter /\ Kind[r] = "remove"
        BY <1>1, <1>2, <1>3
      <3>5. \A q \in CallsOf(id) : IF q = r THEN reply'[q] \in {"ok", "lost"}
                                   ELSE IF q = Seen(id).waiter THEN reply'[q] \in {"Gone", "lost"}
                                   ELSE reply'[q] = reply[q]
        BY <1>2, <2>4, <3>2
      <3> QED BY <1>3, <3>3, <3>4, <3>5, SessionDeleted
    <2>6. ASSUME NEW j \in Ids \ {id} PROVE SessionStep(j)
      <3>1. e.waiter \in Requests => Target[e.waiter] = id /\ Kind[e.waiter] # "reset"
        BY <1>1, <1>2, SeenWaits, RequestAssumption DEF CallsOf
      <3>2. \A q \in Requests : Target[q] # id \/ Kind[q] = "reset" => reply'[q] = reply[q]
        BY <1>1, <2>4, <3>1
      <3> QED BY <1>1, <1>2, <2>1, <3>2, OthersStutter
    <2> QED BY <2>5, <2>6
  <1>5. CASE DeleteFailed
    <2>1. PICK error \in {"PipelineBusy", "Pipeline"} : reply' = Told({r}, error)
      BY <1>5 DEF DeleteFailed
    <2>2. \A j \in Ids : Seen(j)' = Seen(j)
      BY <1>1, <1>2, <1>5 DEF DeleteFailed, TypeInv, TypeOK
    <2>3. Kind[r] # "reset" /\ r # Seen(Target[r]).waiter /\ Seen(Target[r]).state # "absent"
      BY <1>1, <1>2, <1>3
    <2> QED BY <1>1, <1>3, <2>1, <2>2, <2>3, RefusedSession
  <1> QED BY <1>4, <1>5

\* A branch that is there at last, or not.
LEMMA AddSession ==
    ASSUME KindsInv, BranchAdded \/ BranchRefused \/ AttachFails \/ AttachUndone
    PROVE  \A j \in Ids : SessionStep(j)
  <1>0. act.id \in Ids /\ act.req \in Requests
    BY DEF BranchAdded, BranchRefused, AttachFails, AttachUndone, KindsInv, TypeInv, ActorOK
  <1> PICK id \in Ids, r \in Requests : id = act.id /\ r = act.req
    BY <1>0
  <1>1. /\ TypeInv /\ act.pc \in {"adding", "undoing"} /\ Kind[r] = "create" /\ Target[r] = id
        /\ conn[id].state = "absent" /\ conn[id].waiter = NoRequest
    BY DEF BranchAdded, BranchRefused, AttachFails, AttachUndone, KindsInv, KindsOK, CallsInv, HandsOK,
       TypeInv, ActorOK, Mapped
  <1>2. \A j \in Ids : Seen(j) = conn[j]
    BY <1>1 DEF Seen
  <1>3. r \in CallsOf(id) /\ reply[r] = "none" /\ r # NoRequest
    <2>1. r # NoRequest /\ r \in InHand
      BY <1>1, RequestAssumption DEF InHand
    <2> QED BY <1>1, <2>1 DEF KindsInv, CallsInv, EachCallIsHeldOnce, Unanswered, CallsOf
  <1>4. CASE BranchAdded
    <2>1. reply' = reply /\ act'.pc = "select" /\ conn' = [conn EXCEPT ![id] = AwaitingOffer(r)]
      BY <1>4, AbsentEntry DEF BranchAdded, replies
    <2>2. \A j \in Ids : Seen(j)' = conn'[j]
      BY <2>1 DEF Seen
    <2>3. /\ conn'[id].state = "awaiting_offer" /\ conn'[id].waiter = r
          /\ \A j \in Ids \ {id} : conn'[j] = conn[j]
      BY <1>1, <2>1 DEF AwaitingOffer, TypeInv, TypeOK
    <2>4. S(id)!Opens(r)
      BY <1>1, <1>2, <1>3, <2>1, <2>2, <2>3 DEF S!Opens
    <2>5. SessionStep(id)
      BY <1>3, <2>4 DEF SessionStep, S!Next
    <2>6. ASSUME NEW j \in Ids \ {id} PROVE SessionStep(j)
      BY <1>2, <2>1, <2>2, <2>3, SessionStutters
    <2> QED BY <2>5, <2>6
  <1>5. CASE AttachFails
    <2>1. \A j \in Ids : Seen(j)' = conn[j]
      BY <1>1, <1>5 DEF AttachFails, Seen, TypeInv, TypeOK, Acts
    <2> QED BY <1>2, <1>5, <2>1, SessionStutters DEF AttachFails, replies
  <1>6. CASE BranchRefused \/ AttachUndone
    <2>1. PICK error \in {"NotReady", "PipelineBusy", "Pipeline"} : reply' = Told({r}, error)
      BY <1>6 DEF BranchRefused, AttachUndone
    <2>2. \A j \in Ids : Seen(j)' = conn[j]
      BY <1>6, AbsentEntry DEF BranchRefused, AttachUndone, Seen
    <2>3. Kind[r] # "reset" /\ r # Seen(Target[r]).waiter /\ Seen(Target[r]).state = "absent"
      BY <1>1, <1>2, <1>3
    <2> QED BY <1>1, <1>2, <1>3, <2>1, <2>2, <2>3, RefusedSession
  <1> QED BY <1>4, <1>5, <1>6

LEMMA NextSession ==
    ASSUME KindsInv, DeleteNames, [Next]_vars
    PROVE  \A j \in Ids : SessionStep(j)
  <1>1. CASE \E r \in Requests : Handle(r)
    BY <1>1, HandleSession
  <1>2. CASE ReapBranch
    <2> DEFINE id == Head(reports)
    <2>1. act.pc = "select" /\ id \in Ids
      BY <1>2 DEF ReapBranch, KindsInv, TypeInv, TypeOK
    <2>2. CASE UNCHANGED <<conn, act, replies, watch>>
      BY <2>2, SessionStutters DEF Seen, replies
    <2>3. CASE Mapped(id) /\ Terminate(id, "Reaped", NoRequest, {}, {})
      BY <2>1, <2>3, TerminateSession
    <2> QED BY <1>2, <2>2, <2>3 DEF ReapBranch
  <1>3. CASE Sweep
    <2>1. \A j \in Ids : Seen(j) = conn[j] /\ Seen(j)' = conn[j]
      BY <1>3 DEF Sweep, Seen, Idle
    <2> QED BY <1>3, <2>1, SessionStutters DEF Sweep, replies
  <1>4. CASE SweepNext
    <2>1. PICK id \in act.rest :
             \/ Mapped(id) /\ Terminate(id, "Expired", NoRequest, {}, act.rest \ {id})
             \/ act' = Resume(act.rest \ {id}) /\ UNCHANGED <<conn, reply, watch>>
      BY <1>4 DEF SweepNext
    <2>2. act.pc = "sweeping" /\ id \in Ids
      BY <1>4, <2>1 DEF SweepNext, KindsInv, TypeInv, TypeOK, Acts
    <2>3. CASE Mapped(id) /\ Terminate(id, "Expired", NoRequest, {}, act.rest \ {id})
      BY <2>2, <2>3, TerminateSession
    <2>4. CASE act' = Resume(act.rest \ {id}) /\ UNCHANGED <<conn, reply, watch>>
      <3>1. \A j \in Ids : Seen(j) = conn[j] /\ Seen(j)' = conn[j]
        BY <2>2, <2>4, AbsentEntry DEF Seen
      <3> QED BY <2>4, <3>1, SessionStutters
    <2> QED BY <2>1, <2>3, <2>4
  <1>5. CASE BranchAdded \/ BranchRefused \/ AttachFails \/ AttachUndone
    BY <1>5, AddSession
  <1>6. CASE Deleted \/ DeleteFailed
    BY <1>6, DeleteSession
  <1>7. CASE Detached
    <2>1. act.pc # "deleting" /\ act'.pc # "deleting"
      BY <1>7, AbsentEntry DEF Detached
    <2>2. CASE UNCHANGED <<conn, reply>>
      <3>1. \A j \in Ids : Seen(j) = conn[j] /\ Seen(j)' = conn[j]
        BY <2>1, <2>2 DEF Seen
      <3> QED BY <2>2, <3>1, SessionStutters
    <2>3. CASE ResetAll(<< >>)
      <3>1. DOMAIN << >> = {}
        OBVIOUS
      <3> QED BY <2>1, <2>3, <3>1, ResetSession
    <2> QED BY <1>7, <2>2, <2>3 DEF Detached, FeedWatchdog
  <1>8. CASE Callers \/ Supervisor \/ WindowPasses \/ UNCHANGED vars
    <2>1. conn' = conn /\ act' = act /\ reply' = reply
      BY <1>8 DEF Callers, Call, Vanish, Supervisor, PipelineInits, InitFails, PipelineStarts,
         InputReady, PipelineMoves, TakeRestart, PipelineStops, SendReset, ResetTimesOut,
         BranchFails, WindowPasses, vars, replies
    <2> QED BY <2>1, SessionStutters DEF Seen
  <1>9. ASSUME NEW id \in Ids, DeadlinePasses(id)
        PROVE  \A j \in Ids : SessionStep(j)
    <2>1. act' = act /\ reply' = reply
      BY <1>9 DEF DeadlinePasses, replies
    <2>2. \A j \in Ids : conn'[j].state = conn[j].state /\ conn'[j].waiter = conn[j].waiter
      BY <1>9 DEF DeadlinePasses, KindsInv, TypeInv, TypeOK, Entries
    <2>3. \A j \in Ids : Seen(j)'.state = Seen(j).state /\ Seen(j)'.waiter = Seen(j).waiter
      BY <2>1, <2>2 DEF Seen
    <2> QED BY <2>1, <2>3, SessionStutters
  <1> QED BY <1>1, <1>2, <1>3, <1>4, <1>5, <1>6, <1>7, <1>8, <1>9
          DEF Next, Actor, Await, Clock

\* For the step of the theorem, which is under a prime and a box.
LEMMA SessionSteps == KindsInv /\ DeleteNames /\ [Next]_vars => [\A j \in Ids : SessionStep(j)]_vars
  BY NextSession

(***************************************************************************)
(* Each viewer's calls behave as Session says: whatever the handlers, the  *)
(* sweep, the deletes and the resets do in between, every call takes       *)
(* effect at once for those who make them, a connection ends as a whole    *)
(* and the caller it keeps waiting learns why.                             *)
(***************************************************************************)
THEOREM SessionsAtomic == Spec => SessionsAreAtomic
  <1>1. Init => KindsInv /\ DeleteNames
    BY InitKinds, AbsentEntry DEF Init, DeleteNames
  <1>2. KindsInv /\ DeleteNames /\ [Next]_vars => (KindsInv /\ DeleteNames)'
    BY NextKinds, NextDeleteNames
  <1>3. Init => \A id \in Ids : S(id)!Init
    BY AbsentEntry DEF Init, S!Init, Seen, CallsOf
  <1>4. KindsInv /\ DeleteNames /\ [Next]_vars =>
            [\A id \in Ids : S(id)!Next \/ UNCHANGED S(id)!vars]_vars
    BY SessionSteps DEF SessionStep
  <1> QED BY <1>1, <1>2, <1>3, <1>4, PTL DEF Spec, SessionsAreAtomic

-----------------------------------------------------------------------------
(***************************************************************************)
(* What a DELETE tells its caller.                                         *)
(***************************************************************************)

\* The callers that may go are those that park; a DELETE is always answered.
DeletesListen == \A r \in Requests : Kind[r] = "remove" => r \notin gone /\ reply[r] # "lost"

LEMMA NextListens ==
    ASSUME KindsInv, DeletesListen, [Next]_vars
    PROVE  DeletesListen'
  <1> SUFFICES ASSUME NEW r \in Requests, Kind[r] = "remove"
               PROVE  r \notin gone' /\ reply'[r] # "lost"
    BY DEF DeletesListen
  <1>1. r \notin gone /\ reply[r] # "lost"
    BY DEF DeletesListen
  <1>2. reply'[r] # "lost"
    BY <1>1, RepliesMove DEF Replied, KindsInv
  <1>3. gone' = gone \/ \E q \in Requests : gone' = gone \cup {q} /\ Kind[q] # "remove"
    <2>1. CASE \E q \in Requests : Handle(q)
      BY <2>1 DEF Handle, CreateConnection, OfferReceived, AnswerReceived, RemoveConnection, Reset,
         clients
    <2>2. CASE ReapBranch \/ Sweep \/ SweepNext \/ Await
      BY <2>2, AwaitLeaves DEF clients
    <2>3. CASE Callers
      BY <2>3 DEF Callers, Call, Vanish
    <2>4. CASE Clock \/ UNCHANGED vars
      BY <2>4 DEF Clock, DeadlinePasses, WindowPasses, vars, clients
    <2>5. CASE Supervisor
      <3>1. CASE ResetTimesOut
        BY <3>1 DEF ResetTimesOut, Unanswered, KindsInv, TypeInv, TypeOK
      <3> QED BY <2>5, <3>1 DEF Supervisor, PipelineInits, InitFails, PipelineStarts, InputReady,
              PipelineMoves, TakeRestart, PipelineStops, SendReset, BranchFails, clients
    <2> QED BY <2>1, <2>2, <2>3, <2>4, <2>5 DEF Next, Actor
  <1> QED BY <1>1, <1>2, <1>3

\* No call is answered on the way into a DELETE's teardown, or during it.
LEMMA DeletingAnswersNobody ==
    ASSUME KindsInv, [Next]_vars, act'.pc = "deleting"
    PROVE  reply' = reply
  <1>1. CASE \E r \in Requests : Handle(r)
    <2>1. PICK r \in Requests : Handle(r)
      BY <1>1
    <2>2. act.pc = "select"
      BY <2>1 DEF Handle, CreateConnection, OfferReceived, AnswerReceived, RemoveConnection, Reset,
         Receive
    <2>3. act' # act
      BY <2>2
    <2>4. CASE RemoveConnection(r)
      BY <2>3, <2>4 DEF RemoveConnection, Refuse, Terminate
    <2>5. CASE CreateConnection(r) \/ Reset(r)
      BY <2>3, <2>5 DEF CreateConnection, Reset, Refuse, replies
    <2>6. CASE OfferReceived(r) \/ AnswerReceived(r)
      BY <2>3, <2>6 DEF OfferReceived, AnswerReceived, Refuse, Terminate, Policy
    <2> QED BY <2>1, <2>4, <2>5, <2>6 DEF Handle
  <1>2. CASE ReapBranch \/ Sweep \/ SweepNext
    <2>1. act.pc # "deleting" /\ \A rest : Resume(rest).pc # "deleting"
      BY <1>2, AbsentEntry DEF ReapBranch, Sweep, SweepNext
    <2>2. ASSUME NEW id, NEW reason \in {"Reaped", "Expired"}, NEW rest,
                 Terminate(id, reason, NoRequest, {}, rest)
          PROVE  FALSE
      BY <2>2 DEF Terminate, Policy
    <2>3. CASE ReapBranch
      BY <2>1, <2>2, <2>3 DEF ReapBranch, replies
    <2>4. CASE Sweep
      BY <2>4 DEF Sweep, replies
    <2>5. CASE SweepNext
      BY <2>1, <2>2, <2>5 DEF SweepNext
    <2> QED BY <1>2, <2>3, <2>4, <2>5
  <1>3. CASE Await
    <2>1. CASE AttachFails
      BY <2>1 DEF AttachFails, replies
    <2>2. CASE BranchAdded \/ BranchRefused \/ AttachUndone \/ Deleted \/ DeleteFailed \/ Detached
      BY <2>2, AbsentEntry DEF BranchAdded, BranchRefused, AttachUndone, Deleted, DeleteFailed,
         Detached
    <2> QED BY <1>3, <2>1, <2>2 DEF Await
  <1>4. CASE Callers \/ Clock \/ Supervisor \/ UNCHANGED vars
    BY <1>4 DEF Callers, Call, Vanish, Clock, WindowPasses, DeadlinePasses, Supervisor,
       PipelineInits, InitFails, PipelineStarts, InputReady, PipelineMoves, TakeRestart,
       PipelineStops, SendReset, ResetTimesOut, BranchFails, vars, replies
  <1> QED BY <1>1, <1>2, <1>3, <1>4 DEF Next, Actor

\* The session of a DELETE that is answered decides what it is answered.
LEMMA DeleteDecides ==
    ASSUME KindsInv, DeleteNames, DeletesListen, [Next]_vars, NEW r \in Requests,
           Kind[r] = "remove", reply[r] = "none", reply'[r] # "none"
    PROVE  Succeeds(ResponseTo(r)') <=> ~Mapped(Target[r])'
  <1> DEFINE id == Target[r]
  <1>1. id \in Ids /\ r \in CallsOf(id) /\ SessionStep(id)
    BY NextSession, RequestAssumption DEF CallsOf
  <1>2. reply'[r] # "lost"
    BY NextListens DEF DeletesListen
  <1>3. Seen(id)' = conn'[id]
    BY DeletingAnswersNobody DEF Seen
  <1>4. r # Seen(id).waiter
    <2>1. ParkedOK(Seen(id), id) /\ (Seen(id).state # "absent" => Seen(id).whep \in Requests)
      BY <1>1 DEF Seen, KindsInv, KindsOK, TypeInv, ActorOK, Mapped
    <2>2. Seen(id).state \in States
      BY <1>1 DEF Seen, KindsInv, TypeInv, TypeOK, Acts, Entries
    <2> QED BY <2>1, <2>2, RequestAssumption DEF ParkedOK, States
  <1>5. \/ reply'[r] = "ok" /\ Seen(id)'.state = "absent"
        \/ reply'[r] = "NotFound" /\ Seen(id)'.state = "absent"
        \/ reply'[r] \in {"PipelineBusy", "Pipeline"} /\ Seen(id)'.state # "absent"
    <2>1. CASE S(id)!Ends
      BY <1>1, <1>2, <1>4, <2>1 DEF S!Ends, S!Answer, S!Waiting
    <2>2. ASSUME NEW q \in CallsOf(id), S(id)!Refuses(q)
          PROVE  \/ reply'[r] = "NotFound" /\ Seen(id)'.state = "absent"
                 \/ reply'[r] \in {"PipelineBusy", "Pipeline"} /\ Seen(id)'.state # "absent"
      BY <1>1, <1>2, <2>2 DEF S!Refuses, S!Refusals, S!Answer
    <2>3. ASSUME NEW q \in CallsOf(id), S(id)!Opens(q) \/ S(id)!Offers(q) \/ S(id)!Answers(q)
          PROVE  FALSE
      BY <1>1, <1>4, <2>3 DEF S!Opens, S!Offers, S!Answers, S!Answer, S!Waiting
    <2> QED BY <1>1, <2>1, <2>2, <2>3 DEF SessionStep, S!Next, S!vars
  <1>6. ResponseTo(r)' = DeleteStatus(reply'[r])
    BY DEF ResponseTo, Response
  <1>7. /\ Succeeds(DeleteStatus("ok")) /\ Succeeds(DeleteStatus("NotFound"))
        /\ ~Succeeds(DeleteStatus("PipelineBusy")) /\ ~Succeeds(DeleteStatus("Pipeline"))
    BY DEF Succeeds, DeleteStatus, HttpContract
  <1> QED BY <1>3, <1>5, <1>6, <1>7 DEF Mapped

LEMMA DeleteSteps ==
    KindsInv /\ DeleteNames /\ DeletesListen /\ [Next]_vars =>
        [\A r \in Requests : Kind[r] = "remove" /\ reply[r] = "none" /\ reply'[r] # "none" =>
            (Succeeds(ResponseTo(r)') <=> ~Mapped(Target[r])')]_vars
  BY DeleteDecides

(***************************************************************************)
(* A DELETE is answered with success exactly when it leaves no session     *)
(* behind; after an error the session is there to be deleted again.        *)
(***************************************************************************)
THEOREM DeletesDecide == Spec => DeleteSucceedsIffGone
  <1>1. Init => KindsInv /\ DeleteNames /\ DeletesListen
    BY InitKinds, AbsentEntry DEF Init, DeleteNames, DeletesListen
  <1>2. KindsInv /\ DeleteNames /\ DeletesListen /\ [Next]_vars =>
            (KindsInv /\ DeleteNames /\ DeletesListen)'
    BY NextKinds, NextDeleteNames, NextListens
  <1> QED BY <1>1, <1>2, DeleteSteps, PTL DEF Spec, DeleteSucceedsIffGone

-----------------------------------------------------------------------------
(***************************************************************************)
(* Which way an SDP goes.  The routes let an offer through to /whip only,  *)
(* and an answer to /whep only; the actor gives a create the body of an    *)
(* offer, and an offer that of an answer.                                  *)
(***************************************************************************)
LegsOK ==
    \A r \in Requests : sdp[r] # NoRequest =>
        /\ sdp[r] \in sent
        /\ IF Kind[r] = "create" THEN Kind[sdp[r]] = "offer" ELSE Kind[sdp[r]] = "answer"

BodiesOK == \A r \in sent : Accepts(Kind[r], Body[r])

\* The SDP of r goes to w, which is answered with it.
Passes(r, w) ==
    /\ sdp' = [sdp EXCEPT ![w] = r] /\ reply'[w] = "sdp"
    /\ \/ Kind[w] = "create" /\ Kind[r] = "offer"
       \/ Kind[w] = "offer" /\ Kind[r] = "answer"

LEMMA SdpMoves ==
    ASSUME KindsInv, [Next]_vars
    PROVE  sdp' = sdp \/ \E r \in Queued, w \in Requests : Passes(r, w)
  <1>1. ASSUME NEW r \in Requests, Handle(r), sdp' # sdp
        PROVE  \E w \in Requests : r \in Queued /\ Passes(r, w)
    <2> DEFINE e == conn[Target[r]]
    <2>1. Receive(r)
      BY <1>1 DEF Handle, CreateConnection, OfferReceived, AnswerReceived, RemoveConnection, Reset
    <2>2. r \in Queued /\ Target[r] \in Ids
      BY <2>1, ReceiveLeaves, RequestAssumption DEF KindsInv, CallsInv
    <2>3. CASE /\ Kind[r] = "offer" /\ TakesOffer(e) /\ e.waiter \notin gone
               /\ sdp' = [sdp EXCEPT ![e.waiter] = r] /\ reply' = Told({e.waiter}, "sdp")
      <3>1. e.waiter \in Requests /\ Kind[e.waiter] = "create"
        BY <2>2, <2>3, MappedEntry DEF TakesOffer, Mapped
      <3>2. reply'[e.waiter] = "sdp"
        BY <2>3, <3>1 DEF Told, Answered
      <3> QED BY <2>2, <2>3, <3>1, <3>2 DEF Passes
    <2>4. CASE /\ Kind[r] = "answer" /\ e.state = "awaiting_answer" /\ e.waiter \notin gone
               /\ sdp' = [sdp EXCEPT ![e.waiter] = r]
               /\ reply' = Answered([q \in {e.waiter, r} |-> IF q = r THEN "ok" ELSE "sdp"])
      <3>1. e.waiter \in Requests /\ Kind[e.waiter] = "offer"
        BY <2>2, <2>4, MappedEntry DEF Mapped
      <3>2. reply'[e.waiter] = "sdp"
        BY <2>4, <3>1 DEF Answered
      <3> QED BY <2>2, <2>4, <3>1, <3>2 DEF Passes
    <2> QED BY <1>1, <2>3, <2>4 DEF Handle, CreateConnection, OfferReceived, AnswerReceived,
            RemoveConnection, Reset, Refuse, replies
  <1>2. CASE ReapBranch \/ Sweep \/ SweepNext \/ Await
    BY <1>2 DEF ReapBranch, Sweep, SweepNext, Await, BranchAdded, BranchRefused, AttachFails,
       AttachUndone, Deleted, DeleteFailed, Detached, replies
  <1>3. CASE Callers \/ Clock \/ Supervisor \/ UNCHANGED vars
    BY <1>3 DEF Callers, Call, Vanish, Clock, WindowPasses, DeadlinePasses, Supervisor,
       PipelineInits, InitFails, PipelineStarts, InputReady, PipelineMoves, TakeRestart,
       PipelineStops, SendReset, ResetTimesOut, BranchFails, vars, replies
  <1> QED BY <1>1, <1>2, <1>3 DEF Next, Actor

LEMMA NextLegs ==
    ASSUME KindsInv, LegsOK, [Next]_vars
    PROVE  LegsOK'
  <1>1. sent \subseteq sent'
    BY QueueGrows
  <1>2. CASE sdp' = sdp
    BY <1>1, <1>2 DEF LegsOK
  <1>3. ASSUME NEW r \in Queued, NEW w \in Requests, Passes(r, w)
        PROVE  LegsOK'
    <2>1. r \in sent'
      BY <1>1 DEF KindsInv, CallsInv, EachCallIsHeldOnce, Unanswered
    <2> QED BY <1>1, <1>3, <2>1 DEF Passes, LegsOK, KindsInv, TypeInv, TypeOK
  <1> QED BY <1>2, <1>3, SdpMoves

\* For the step of the theorem, which is under a box.
LEMMA BodiesStay == BodiesOK /\ [Next /\ LetThrough]_vars => BodiesOK'
  BY DEF BodiesOK, LetThrough, vars, clients

(***************************************************************************)
(* What a viewer is sent is a sendonly SDP and what its whipsink is sent   *)
(* is not, for every mixture of calls and bodies.                          *)
(***************************************************************************)
THEOREM SdpsRightWay == HttpSpec => []SdpsGoTheRightWay
  <1>1. Init => KindsInv /\ LegsOK /\ BodiesOK
    BY InitKinds DEF Init, LegsOK, BodiesOK
  <1>2. KindsInv /\ LegsOK /\ [Next /\ LetThrough]_vars => (KindsInv /\ LegsOK)'
    BY NextKinds, NextLegs
  <1>3. KindsInv /\ LegsOK /\ BodiesOK => SdpsGoTheRightWay
    <2> SUFFICES ASSUME LegsOK, BodiesOK, NEW r \in Requests, sdp[r] # NoRequest
                 PROVE  IF Kind[r] = "create" THEN IsSendonly(Body[sdp[r]])
                        ELSE ~IsSendonly(Body[sdp[r]])
      BY DEF SdpsGoTheRightWay
    <2>1. Accepts(Kind[sdp[r]], Body[sdp[r]])
      BY DEF LegsOK, BodiesOK
    <2> QED BY <2>1 DEF LegsOK, Accepts, IsOffer, IsAnswer
  <1> QED BY <1>1, <1>2, <1>3, BodiesStay, PTL DEF HttpSpec

-----------------------------------------------------------------------------
(***************************************************************************)
(* What an answer is worth.                                                *)
(***************************************************************************)

\* What a call was answered it stays answered, because a session answers only
\* those who wait.
LEMMA AnswersStay ==
    ASSUME KindsInv, DeleteNames, [Next]_vars,
           NEW r \in Requests, Kind[r] # "reset", reply[r] # "none"
    PROVE  reply'[r] = reply[r]
  <1> DEFINE id == Target[r]
  <1>1. id \in Ids /\ r \in CallsOf(id) /\ SessionStep(id)
    BY NextSession, RequestAssumption DEF CallsOf
  <1>2. CASE S(id)!Ends
    BY <1>1, <1>2 DEF S!Ends, S!Answer
  <1>3. ASSUME NEW q \in CallsOf(id),
               S(id)!Opens(q) \/ S(id)!Offers(q) \/ S(id)!Answers(q) \/ S(id)!Refuses(q)
        PROVE  reply'[r] = reply[r]
    BY <1>1, <1>3 DEF S!Opens, S!Offers, S!Answers, S!Refuses, S!Answer
  <1> QED BY <1>1, <1>2, <1>3 DEF SessionStep, S!Next, S!vars

\* Whoever was given an SDP was answered with it.
GivenOK == \A r \in Requests : sdp[r] # NoRequest => Kind[r] # "reset" /\ reply[r] = "sdp"

LEMMA NextGiven ==
    ASSUME KindsInv, DeleteNames, GivenOK, [Next]_vars
    PROVE  GivenOK'
  <1>1. ASSUME NEW r \in Requests, sdp'[r] = sdp[r], sdp[r] # NoRequest
        PROVE  Kind[r] # "reset" /\ reply'[r] = "sdp"
    BY <1>1, AnswersStay DEF GivenOK
  <1>2. CASE sdp' = sdp
    BY <1>1, <1>2 DEF GivenOK
  <1>3. ASSUME NEW q \in Queued, NEW w \in Requests, Passes(q, w)
        PROVE  GivenOK'
    <2>1. Kind[w] # "reset" /\ reply'[w] = "sdp"
      BY <1>3 DEF Passes
    <2>2. \A r \in Requests \ {w} : sdp'[r] = sdp[r]
      BY <1>3 DEF Passes, KindsInv, TypeInv, TypeOK
    <2> QED BY <1>1, <2>1, <2>2 DEF GivenOK
  <1> QED BY <1>2, <1>3, SdpMoves

(***************************************************************************)
(* A connection is never left in the name of a POST that was answered with *)
(* an error: as long as it waits for its offer the POST has no answer, and *)
(* from then on it has the offer.                                          *)
(***************************************************************************)
THEOREM ErrorsLeaveNoSession == Spec => []NoSessionBehindAnError
  <1>1. Init => KindsInv /\ PairInv /\ DeleteNames /\ GivenOK
    BY InitKinds, InitPairs, AbsentEntry DEF Init, DeleteNames, GivenOK
  <1>2. KindsInv /\ PairInv /\ DeleteNames /\ GivenOK /\ [Next]_vars =>
            (KindsInv /\ PairInv /\ DeleteNames /\ GivenOK)'
    BY NextKinds, NextPairs, NextDeleteNames, NextGiven
  <1>3. KindsInv /\ PairInv /\ GivenOK => NoSessionBehindAnError
    <2> SUFFICES ASSUME KindsInv, PairInv, GivenOK, NEW id \in Ids, Mapped(id),
                        Responded(conn[id].whep)
                 PROVE  Succeeds(ResponseTo(conn[id].whep))
      BY DEF NoSessionBehindAnError
    <2> DEFINE c == conn[id].whep
    <2>1. /\ c \in Requests /\ Kind[c] = "create"
          /\ conn[id].state \in {"awaiting_offer", "awaiting_answer", "established"}
          /\ conn[id].state = "awaiting_offer" => conn[id].waiter = c
          /\ conn[id].state = "awaiting_answer" => conn[id].waiter \in Requests
      BY MappedEntry DEF Mapped, Entries, States
    <2>2. CASE conn[id].state = "awaiting_offer"
      <3>1. c \in Unanswered
        BY <2>1, <2>2, MappedEntry, RequestAssumption DEF KindsInv, CallsInv, EachCallIsHeldOnce
      <3> QED BY <3>1 DEF Unanswered, Responded
    <2>3. CASE conn[id].state \in {"awaiting_answer", "established"}
      <3>1. sdp[c] # NoRequest
        BY <2>1, <2>3, RequestAssumption DEF PairInv, EntriesOK, PairedEntry
      <3>2. ResponseTo(c) = [status |-> 201, retry |-> 0]
        BY <2>1, <3>1 DEF GivenOK, ResponseTo, Response
      <3> QED BY <3>2 DEF Succeeds
    <2> QED BY <2>1, <2>2, <2>3
  <1> QED BY <1>1, <1>2, <1>3, PTL DEF Spec

\* A step that answers r, and what the session of r makes of it.
LEMMA RetryPays ==
    ASSUME KindsInv, DeleteNames, DeletesListen, [Next]_vars, NEW r \in Requests,
           Kind[r] # "reset", reply[r] = "none", Responded(r)', ResponseTo(r)'.retry > 0
    PROVE  \/ Kind[r] = "create" /\ ~Mapped(Target[r])'
           \/ Kind[r] # "create" /\ Mapped(Target[r])'
           \/ Kind[r] = "offer" /\ reply'[r] = "Timeout"
  <1> DEFINE id == Target[r]
  <1>1. /\ id \in Ids /\ r \in CallsOf(id) /\ SessionStep(id)
        /\ reply'[r] \notin {"none", "lost"} /\ Kind[r] \in Kinds
    BY NextSession, RequestAssumption DEF CallsOf, Responded
  <1>2. Seen(id)' = conn'[id]
    BY <1>1, DeletingAnswersNobody DEF Seen
  <1>3. /\ reply'[r] \notin {"NotFound", "Gone", "WrongState", "Unavailable", "Pipeline"}
        /\ Kind[r] \in {"answer", "remove"} => reply'[r] # "ok"
        /\ Kind[r] \in {"create", "offer"} => reply'[r] # "sdp"
    <2>1. ResponseTo(r)' = Response(Kind[r], reply'[r])
      BY DEF ResponseTo
    <2>2. /\ Response("remove", reply'[r]) = DeleteStatus(reply'[r])
          /\ reply'[r] # "ok" => Response("answer", reply'[r]) = HttpContract(reply'[r])
          /\ Response("answer", "ok").retry = 0
          /\ \A kind \in {"create", "offer"} :
                /\ reply'[r] # "sdp" => Response(kind, reply'[r]) = HttpContract(reply'[r])
                /\ Response(kind, "sdp").retry = 0
      BY DEF Response
    <2>3. /\ DeleteStatus("ok").retry = 0 /\ DeleteStatus("NotFound").retry = 0
          /\ reply'[r] \notin {"ok", "NotFound"} => DeleteStatus(reply'[r]) = HttpContract(reply'[r])
      BY DEF DeleteStatus
    <2>4. \A error \in {"NotFound", "Gone", "WrongState", "Unavailable", "Pipeline"} :
             HttpContract(error).retry = 0
      BY DEF HttpContract
    <2> QED BY <1>1, <2>1, <2>2, <2>3, <2>4 DEF Kinds
  <1>4. CASE Kind[r] = "create"
    <2>1. CASE S(id)!Ends
      BY <1>1, <1>2, <1>4, <2>1 DEF S!Ends, Mapped
    <2>2. ASSUME NEW q \in CallsOf(id), S(id)!Refuses(q)
          PROVE  Seen(id)'.state = "absent"
      BY <1>1, <1>3, <1>4, <2>2 DEF S!Refuses, S!Refusals, S!Answer
    <2>3. ASSUME NEW q \in CallsOf(id), S(id)!Opens(q) \/ S(id)!Offers(q) \/ S(id)!Answers(q)
          PROVE  FALSE
      BY <1>1, <1>3, <1>4, <2>3 DEF S!Opens, S!Offers, S!Answers, S!Answer, S!Waiting
    <2> QED BY <1>1, <1>2, <1>4, <2>1, <2>2, <2>3 DEF SessionStep, S!Next, S!vars, Mapped
  <1>5. CASE Kind[r] \in {"answer", "remove"}
    <2>1. r # Seen(id).waiter
      <3>1. ParkedOK(Seen(id), id) /\ (Seen(id).state # "absent" => Seen(id).whep \in Requests)
        BY <1>1 DEF Seen, KindsInv, KindsOK, TypeInv, ActorOK, Mapped
      <3>2. Seen(id).state \in States
        BY <1>1 DEF Seen, KindsInv, TypeInv, TypeOK, Acts, Entries
      <3> QED BY <1>5, <3>1, <3>2, RequestAssumption DEF ParkedOK, States
    <2>2. ~S(id)!Ends
      BY <1>1, <1>3, <2>1 DEF S!Ends, S!Answer, S!Waiting
    <2>3. ASSUME NEW q \in CallsOf(id), S(id)!Opens(q) \/ S(id)!Offers(q) \/ S(id)!Answers(q)
          PROVE  FALSE
      BY <1>1, <1>3, <2>1, <2>3 DEF S!Opens, S!Offers, S!Answers, S!Answer, S!Waiting
    <2>4. ASSUME NEW q \in CallsOf(id), S(id)!Refuses(q)
          PROVE  Seen(id)'.state # "absent"
      BY <1>1, <1>3, <1>5, <2>4 DEF S!Refuses, S!Refusals, S!Answer
    <2> QED BY <1>1, <1>2, <1>5, <2>2, <2>3, <2>4 DEF SessionStep, S!Next, S!vars, Mapped
  <1>6. CASE Kind[r] = "offer"
    <2>1. CASE S(id)!Ends
      BY <1>1, <1>3, <1>6, <2>1 DEF S!Ends, S!Answer, S!Waiting
    <2>2. ASSUME NEW q \in CallsOf(id), S(id)!Refuses(q)
          PROVE  FALSE
      BY <1>1, <1>3, <1>6, <2>2 DEF S!Refuses, S!Refusals, S!Answer
    <2>3. ASSUME NEW q \in CallsOf(id), S(id)!Opens(q) \/ S(id)!Offers(q) \/ S(id)!Answers(q)
          PROVE  FALSE
      BY <1>1, <1>3, <1>6, <2>3 DEF S!Opens, S!Offers, S!Answers, S!Answer, S!Waiting
    <2> QED BY <1>1, <1>6, <2>1, <2>2, <2>3 DEF SessionStep, S!Next, S!vars
  <1> QED BY <1>1, <1>4, <1>5, <1>6 DEF Kinds

LEMMA RetrySteps ==
    KindsInv /\ DeleteNames /\ DeletesListen /\ [Next]_vars =>
        [\A r \in Requests :
            Kind[r] # "reset" /\ reply[r] = "none" /\ Responded(r)' /\ ResponseTo(r)'.retry > 0 =>
            \/ Kind[r] = "create" /\ ~Mapped(Target[r])'
            \/ Kind[r] # "create" /\ Mapped(Target[r])'
            \/ Kind[r] = "offer" /\ reply'[r] = "Timeout"]_vars
  BY RetryPays

(***************************************************************************)
(* A caller that is told to retry finds its connection, or is a POST that  *)
(* left none; the one exception is the offer that ran into its deadline.   *)
(***************************************************************************)
THEOREM RetriesPay == Spec => RetriesAreWorthwhile
  <1>1. Init => KindsInv /\ DeleteNames /\ DeletesListen
    BY InitKinds, AbsentEntry DEF Init, DeleteNames, DeletesListen
  <1>2. KindsInv /\ DeleteNames /\ DeletesListen /\ [Next]_vars =>
            (KindsInv /\ DeleteNames /\ DeletesListen)'
    BY NextKinds, NextDeleteNames, NextListens
  <1> QED BY <1>1, <1>2, RetrySteps, PTL DEF Spec, RetriesAreWorthwhile

-----------------------------------------------------------------------------
(***************************************************************************)
(* Why an established connection ends.                                     *)
(***************************************************************************)

\* A deadline is that of a handshake, in the map or in the hands of a DELETE;
\* and while a sweep goes through its list nothing on it is established.
DueOK(e) == e.due => e.state # "established"

DeadlinesOK ==
    /\ \A id \in Ids : DueOK(conn[id])
    /\ act.pc = "deleting" => DueOK(act.entry)
    /\ \A id \in act.rest : conn[id].state # "established"
    /\ act.pc \notin {"sweeping", "detaching"} => act.rest = {}

\* Connections stay as they are, go, or come from one that is in order.
LEMMA DeadlinesKept ==
    ASSUME KindsInv, DeadlinesOK,
           \A id \in Ids : \/ conn'[id] = conn[id]
                           \/ conn'[id].state # "established"
                           \/ act'.rest = {} /\ DueOK(conn'[id]),
           act'.pc = "deleting" => DueOK(act'.entry),
           act'.rest \subseteq act.rest,
           act'.pc \notin {"sweeping", "detaching"} => act'.rest = {}
    PROVE  DeadlinesOK'
  <1>1. \A id \in Ids : DueOK(conn'[id])
    BY DEF DeadlinesOK, DueOK
  <1>2. \A id \in act'.rest : conn'[id].state # "established"
    BY DEF DeadlinesOK, KindsInv, TypeInv, TypeOK, Acts
  <1> QED BY <1>1, <1>2 DEF DeadlinesOK, DueOK

LEMMA TerminateDeadlines ==
    ASSUME KindsInv, DeadlinesOK, NEW id \in Ids, NEW reason, NEW req, NEW told,
           NEW rest, rest \subseteq act.rest, reason = "Deleted" => rest = {},
           reason \in Reasons, Terminate(id, reason, req, told, rest)
    PROVE  DeadlinesOK'
  <1>1. \A i \in Ids : conn'[i] = conn[i] \/ conn'[i].state # "established"
    BY AbsentEntry DEF Terminate, KindsInv, TypeInv, TypeOK
  <1>2. /\ act'.rest = rest /\ act'.pc \in {"deleting", "detaching"}
        /\ act'.pc = "deleting" => reason = "Deleted" /\ act'.entry = conn[id]
    BY DEF Terminate, Policy, Reasons
  <1>3. act'.pc = "deleting" => DueOK(act'.entry)
    BY <1>2 DEF DeadlinesOK
  <1> QED BY <1>1, <1>2, <1>3, DeadlinesKept

LEMMA NextDeadlines ==
    ASSUME KindsInv, DeadlinesOK, [Next]_vars
    PROVE  DeadlinesOK'
  <1>1. TypeInv
    BY DEF KindsInv
  <1>2. CASE conn' = conn /\ act'.pc # "deleting" /\ act'.rest = {}
    BY <1>2, DeadlinesKept
  <1>3. CASE conn' = conn /\ act' = act
    BY <1>3 DEF DeadlinesOK
  <1>4. {"PeerGone", "Deleted", "Reaped", "Expired"} \subseteq Reasons
    BY DEF Reasons
  <1>5. Idle.rest = {} /\ \A rest : Resume(rest).rest = rest /\ (rest # {} => Resume(rest).pc = "sweeping")
    BY DEF Idle, Resume
  <1>6. ASSUME NEW r \in Requests, Handle(r)
        PROVE  DeadlinesOK'
    <2> DEFINE id == Target[r]
    <2>1. id \in Ids /\ conn[id] \in Entries /\ act.rest = {} /\ act.pc = "select"
      BY <1>1, <1>6, RequestAssumption DEF Handle, CreateConnection, OfferReceived, AnswerReceived,
         RemoveConnection, Reset, Receive, DeadlinesOK, TypeInv, TypeOK
    <2>2. ASSUME NEW reason \in {"PeerGone", "Deleted"}, NEW q, NEW told,
                 Terminate(id, reason, q, told, {})
          PROVE  DeadlinesOK'
      BY <1>4, <2>1, <2>2, TerminateDeadlines
    <2>3. ASSUME NEW e, e.due = FALSE, conn' = [conn EXCEPT ![id] = e], act' = act
          PROVE  DeadlinesOK'
      <3>1. \A i \in Ids : conn'[i] = conn[i] \/ (act'.rest = {} /\ DueOK(conn'[i]))
        BY <1>1, <2>1, <2>3 DEF DueOK, TypeInv, TypeOK
      <3> QED BY <2>1, <2>3, <3>1, DeadlinesKept
    <2>4. /\ AwaitingAnswer(conn[id], r).due = FALSE
          /\ Established(conn[id]).due = FALSE
      BY <2>1 DEF AwaitingAnswer, Established, Entries
    <2>5. CASE CreateConnection(r)
      <3>1. CASE act' = [Idle EXCEPT !.pc = "adding", !.req = r, !.id = id] /\ conn' = conn
        BY <1>2, <3>1 DEF Idle
      <3> QED BY <1>3, <2>5, <3>1 DEF CreateConnection, Refuse
    <2>6. CASE OfferReceived(r)
      BY <1>3, <2>2, <2>3, <2>4, <2>6 DEF OfferReceived, Refuse
    <2>7. CASE AnswerReceived(r)
      BY <1>3, <2>2, <2>3, <2>4, <2>7 DEF AnswerReceived, Refuse
    <2>8. CASE RemoveConnection(r)
      BY <1>3, <2>2, <2>8 DEF RemoveConnection, Refuse
    <2>9. CASE Reset(r)
      <3>1. act' = act /\ \A i \in Ids : conn'[i].state # "established"
        BY <2>9, AbsentEntry DEF Reset, ResetAll
      <3> QED BY <2>1, <3>1, DeadlinesKept
    <2> QED BY <1>6, <2>5, <2>6, <2>7, <2>8, <2>9 DEF Handle
  <1>7. CASE ReapBranch
    <2>1. Head(reports) \in Ids
      BY <1>1, <1>7, QueueType DEF ReapBranch, TypeInv, TypeOK
    <2> QED BY <1>3, <1>4, <1>7, <2>1, TerminateDeadlines DEF ReapBranch
  <1>8. CASE Sweep
    <2>1. conn' = conn /\ act'.pc = "sweeping" /\ act'.rest = Due
      BY <1>8 DEF Sweep, Idle
    <2> QED BY <2>1 DEF DeadlinesOK, DueOK, Due
  <1>9. CASE SweepNext
    <2>1. PICK id \in act.rest :
             \/ Terminate(id, "Expired", NoRequest, {}, act.rest \ {id})
             \/ act' = Resume(act.rest \ {id}) /\ conn' = conn
      BY <1>9 DEF SweepNext
    <2>2. id \in Ids
      BY <1>1 DEF TypeInv, TypeOK, Acts
    <2>3. CASE Terminate(id, "Expired", NoRequest, {}, act.rest \ {id})
      BY <1>4, <2>2, <2>3, TerminateDeadlines
    <2>4. CASE act' = Resume(act.rest \ {id}) /\ conn' = conn
      BY <1>5, <2>4, DeadlinesKept, AbsentEntry
    <2> QED BY <2>1, <2>3, <2>4
  <1>10. CASE BranchAdded
    <2>1. /\ act' = Idle /\ act.id \in Ids
          /\ conn' = [conn EXCEPT ![act.id] = AwaitingOffer(act.req)]
      BY <1>1, <1>10 DEF BranchAdded, TypeInv, ActorOK
    <2>2. \A i \in Ids : conn'[i] = conn[i] \/ conn'[i].state # "established"
      BY <1>1, <2>1 DEF AwaitingOffer, TypeInv, TypeOK
    <2> QED BY <1>5, <2>1, <2>2, DeadlinesKept, AbsentEntry
  <1>11. CASE AttachFails
    <2>1. conn' = conn /\ act'.pc = "undoing" /\ act'.rest = act.rest /\ act.rest = {}
      BY <1>1, <1>11 DEF AttachFails, TypeInv, TypeOK, Acts, DeadlinesOK
    <2> QED BY <1>2, <2>1
  <1>12. CASE BranchRefused \/ AttachUndone \/ Deleted
    BY <1>2, <1>5, <1>12, AbsentEntry DEF BranchRefused, AttachUndone, Deleted
  <1>13. CASE DeleteFailed
    <2>1. /\ act' = Idle /\ act.pc = "deleting"
          /\ conn' = [conn EXCEPT ![act.id] = act.entry]
      BY <1>13 DEF DeleteFailed
    <2>2. \A i \in Ids : conn'[i] = conn[i] \/ (act'.rest = {} /\ DueOK(conn'[i]))
      BY <1>1, <1>5, <2>1 DEF DeadlinesOK, TypeInv, TypeOK
    <2> QED BY <1>5, <2>1, <2>2, DeadlinesKept, AbsentEntry
  <1>14. CASE Detached
    <2>1. act' = Resume(act.rest) /\ FeedWatchdog(act.reason)
      BY <1>14 DEF Detached
    <2>2. \A i \in Ids : conn'[i] = conn[i] \/ conn'[i].state # "established"
      BY <2>1, AbsentEntry DEF FeedWatchdog, ResetAll
    <2> QED BY <1>5, <2>1, <2>2, DeadlinesKept, AbsentEntry
  <1>15. CASE Callers \/ Supervisor \/ WindowPasses \/ UNCHANGED vars
    <2>1. conn' = conn /\ act' = act
      BY <1>15 DEF Callers, Call, Vanish, WindowPasses, Supervisor, PipelineInits, InitFails,
             PipelineStarts, InputReady, PipelineMoves, TakeRestart, PipelineStops, SendReset,
             ResetTimesOut, BranchFails, vars
    <2> QED BY <1>3, <2>1
  <1>16. ASSUME NEW id \in Ids, DeadlinePasses(id)
         PROVE  DeadlinesOK'
    <2>1. act' = act /\ \A i \in Ids : conn'[i] = conn[i] \/ conn'[i].state # "established"
      BY <1>1, <1>16 DEF DeadlinePasses, TypeInv, TypeOK, Entries
    <2> QED BY <2>1, DeadlinesKept DEF DeadlinesOK
  <1> QED BY <1>6, <1>7, <1>8, <1>9, <1>10, <1>11, <1>12, <1>13, <1>14, <1>15, <1>16
          DEF Next, Actor, Await, Clock

\* The causes there are, in the step that ends the connection of id.
Cause(id) ==
    \/ act.pc = "deleting" /\ act.id = id /\ reply'[act.req] = "ok"
    \/ reports # << >> /\ id = Head(reports) /\ reports' = Tail(reports)
    \/ \E r \in Requests : Kind[r] = "reset" /\ reply[r] # reply'[r]
    \/ restart' /\ Cardinality(failed) + 1 >= WatchdogThreshold

\* terminate() takes an established connection only for a DELETE, which then
\* has it in hand, or for a report.
LEMMA TerminateEstablished ==
    ASSUME TypeInv, NEW id \in Ids, NEW reason, NEW req, NEW told, NEW rest,
           Terminate(id, reason, req, told, rest), act.pc # "deleting",
           reason = "Deleted" \/ conn[id].state # "established"
    PROVE  \A i \in Ids : IsEstablished(i) => IsEstablished(i)'
  <1>1. \A i \in Ids : IsEstablished(i) <=> conn[i].state = "established"
    BY DEF IsEstablished
  <1>2. \A i \in Ids \ {id} : conn'[i] = conn[i]
    BY DEF Terminate, TypeInv, TypeOK
  <1>3. reason = "Deleted" => act'.pc = "deleting" /\ act'.id = id /\ act'.entry = conn[id]
    BY DEF Terminate, Policy
  <1> QED BY <1>1, <1>2, <1>3 DEF IsEstablished

LEMMA EndsForCause ==
    ASSUME KindsInv, DeletesListen, CountInv, DeadlinesOK, [Next]_vars,
           NEW id \in Ids, IsEstablished(id), ~IsEstablished(id)'
    PROVE  Cause(id)
  <1>1. TypeInv
    BY DEF KindsInv
  <1>2. conn' = conn => act' # act
    BY DEF IsEstablished
  <1>3. act.pc # "deleting" => /\ conn[id].state = "established"
                               /\ conn'[id] # conn[id]
    BY DEF IsEstablished
  <1>4. ASSUME NEW r \in Requests, Handle(r)
        PROVE  Cause(id)
    <2>1. /\ act.pc = "select" /\ Target[r] \in Ids /\ conn[Target[r]] \in Entries
          /\ Receive(r)
      BY <1>1, <1>4, RequestAssumption DEF Handle, CreateConnection, OfferReceived, AnswerReceived,
         RemoveConnection, Reset, Receive, TypeInv, TypeOK
    <2>2. conn' # conn
      BY <1>3, <2>1
    <2>3. CASE CreateConnection(r)
      BY <2>2, <2>3 DEF CreateConnection, Refuse
    <2>4. CASE OfferReceived(r)
      <3>1. conn[Target[r]].state = "awaiting_offer"
        BY <2>2, <2>4 DEF OfferReceived, Refuse, TakesOffer
      <3>2. ~Terminate(Target[r], "PeerGone", NoRequest, {r}, {})
        BY <1>1, <2>1, <3>1, TerminateEstablished
      <3>3. conn' = [conn EXCEPT ![Target[r]] = AwaitingAnswer(conn[Target[r]], r)]
        BY <2>2, <2>4, <3>2 DEF OfferReceived, Refuse
      <3>4. id # Target[r]
        BY <1>3, <2>1, <3>1
      <3> QED BY <1>1, <1>3, <2>1, <3>3, <3>4 DEF TypeInv, TypeOK
    <2>5. CASE AnswerReceived(r)
      <3>1. conn[Target[r]].state = "awaiting_answer"
        BY <2>2, <2>5 DEF AnswerReceived, Refuse
      <3>2. ~Terminate(Target[r], "PeerGone", NoRequest, {r}, {})
        BY <1>1, <2>1, <3>1, TerminateEstablished
      <3>3. conn' = [conn EXCEPT ![Target[r]] = Established(conn[Target[r]])]
        BY <2>2, <2>5, <3>2 DEF AnswerReceived, Refuse
      <3>4. id # Target[r]
        BY <1>3, <2>1, <3>1
      <3> QED BY <1>1, <1>3, <2>1, <3>3, <3>4 DEF TypeInv, TypeOK
    <2>6. CASE RemoveConnection(r)
      BY <1>1, <2>1, <2>2, <2>6, TerminateEstablished DEF RemoveConnection, Refuse
    <2>7. CASE Reset(r)
      <3>1. r \in Queued /\ Kind[r] = "reset"
        BY <2>1, <2>7, ReceiveLeaves DEF KindsInv, CallsInv, Reset
      <3>2. reply[r] = "none"
        BY <3>1, QueuedWaits
      <3>3. reply'[r] # "none"
        <4> DEFINE f == [q \in Waiters(Ids) \cup {r} |->
                            IF q \in Waiters(Ids) THEN Policy("Reset").notice
                            ELSE [x \in {r} |-> "ok"][q]]
        <4>1. reply' = Answered(f)
          BY <2>7 DEF Reset, ResetAll
        <4>2. f[r] # "none" /\ r \in DOMAIN f
          BY DEF Policy
        <4> HIDE DEF f
        <4> QED BY <4>1, <4>2 DEF Answered
      <3> QED BY <3>1, <3>2, <3>3 DEF Cause
    <2> QED BY <1>4, <2>3, <2>4, <2>5, <2>6, <2>7 DEF Handle
  <1>5. CASE ReapBranch
    <2>1. Head(reports) \in Ids /\ act.pc = "select"
      BY <1>1, <1>5, QueueType DEF ReapBranch, TypeInv, TypeOK
    <2>2. conn' = [conn EXCEPT ![Head(reports)] = Absent]
      BY <1>3, <1>5, <2>1 DEF ReapBranch, Terminate
    <2>3. id = Head(reports)
      BY <1>1, <1>3, <2>1, <2>2 DEF TypeInv, TypeOK
    <2> QED BY <1>5, <2>3 DEF ReapBranch, Cause
  <1>6. CASE Sweep
    BY <1>3, <1>6 DEF Sweep
  <1>7. CASE SweepNext
    <2>1. act.pc = "sweeping"
      BY <1>7 DEF SweepNext
    <2>2. PICK i \in act.rest : conn' = [conn EXCEPT ![i] = Absent] \/ conn' = conn
      BY <1>7 DEF SweepNext, Terminate
    <2>3. i # id
      BY <1>3, <2>1, <2>2 DEF DeadlinesOK
    <2> QED BY <1>1, <1>3, <2>1, <2>2, <2>3 DEF TypeInv, TypeOK
  <1>8. CASE BranchAdded
    <2>1. /\ act.pc = "adding" /\ conn' = [conn EXCEPT ![act.id] = AwaitingOffer(act.req)]
          /\ conn[act.id].state = "absent"
      BY <1>8 DEF BranchAdded, KindsInv, CallsInv, HandsOK, Mapped
    <2>2. id # act.id
      BY <1>3, <2>1
    <2> QED BY <1>1, <1>3, <2>1, <2>2 DEF TypeInv, TypeOK
  <1>9. CASE BranchRefused \/ AttachFails \/ AttachUndone
    BY <1>3, <1>9 DEF BranchRefused, AttachFails, AttachUndone
  <1>10. CASE Deleted
    <2>1. act.pc = "deleting" /\ conn' = conn
      BY <1>10 DEF Deleted
    <2>2. act.id = id
      BY <2>1 DEF IsEstablished
    <2>3. act.req \in Requests /\ Kind[act.req] = "remove" /\ act.req \notin gone
      BY <2>1 DEF KindsInv, KindsOK, TypeInv, ActorOK, DeletesListen
    <2>4. act.req # act.entry.waiter
      BY <2>3, RequestAssumption DEF KindsInv, CallsInv, EachCallIsHeldOnce
    <2>5. reply'[act.req] = "ok"
      BY <1>10, <2>3, <2>4 DEF Deleted, Answered
    <2> QED BY <2>1, <2>2, <2>5 DEF Cause
  <1>11. CASE DeleteFailed
    <2>1. /\ act.pc = "deleting" /\ act.id \in Ids
          /\ conn' = [conn EXCEPT ![act.id] = act.entry]
      BY <1>1, <1>11 DEF DeleteFailed, TypeInv, ActorOK
    <2>2. /\ conn'[act.id] = act.entry
          /\ id # act.id => conn'[id] = conn[id]
      BY <1>1, <2>1 DEF TypeInv, TypeOK
    <2>3. PICK i \in Ids : act.id = i
      BY <2>1
    <2>4. conn[i].state = "absent"
      BY <2>1, <2>3 DEF KindsInv, CallsInv, HandsOK, Mapped
    <2>5. conn'[id].state # "established"
      BY DEF IsEstablished
    <2>6. conn'[i] = act.entry /\ (id # i => conn'[id] = conn[id])
      BY <2>2, <2>3
    <2>7. CASE id = i
      <3>1. act.entry.state = "established"
        BY <2>4, <2>7 DEF IsEstablished
      <3> QED BY <2>5, <2>6, <2>7, <3>1
    <2>8. CASE id # i
      <3>1. conn[id].state = "established"
        BY <2>3, <2>8 DEF IsEstablished
      <3> QED BY <2>5, <2>6, <2>8, <3>1
    <2> QED BY <2>7, <2>8
  <1>12. CASE Detached
    <2>1. act.pc = "detaching" /\ FeedWatchdog(act.reason)
      BY <1>12 DEF Detached
    <2>2. Trips(dog) /\ restart' = TRUE
      BY <1>3, <2>1 DEF FeedWatchdog
    <2>3. dog.failures = Cardinality(failed) /\ dog.failures \in Nat
      BY <1>1 DEF CountInv, CountOK, TypeInv, TypeOK, Counts
    <2>4. Cardinality(failed) + 1 >= WatchdogThreshold
      BY <2>2, <2>3, ThresholdAssumption DEF Trips, Counted
    <2> QED BY <2>2, <2>4 DEF Cause
  <1>13. CASE Callers \/ Supervisor \/ WindowPasses \/ UNCHANGED vars
    <2>1. conn' = conn /\ act' = act
      BY <1>13 DEF Callers, Call, Vanish, WindowPasses, Supervisor, PipelineInits, InitFails,
             PipelineStarts, InputReady, PipelineMoves, TakeRestart, PipelineStops, SendReset,
             ResetTimesOut, BranchFails, vars
    <2> QED BY <1>2, <2>1
  <1>14. ASSUME NEW i \in Ids, DeadlinePasses(i)
         PROVE  FALSE
    <2>1. act' = act /\ \A j \in Ids : conn'[j].state = conn[j].state
      BY <1>1, <1>14 DEF DeadlinePasses, TypeInv, TypeOK, Entries
    <2> QED BY <2>1 DEF IsEstablished
  <1> QED BY <1>4, <1>5, <1>6, <1>7, <1>8, <1>9, <1>10, <1>11, <1>12, <1>13, <1>14
          DEF Next, Actor, Await, Clock

LEMMA CauseSteps ==
    KindsInv /\ DeletesListen /\ CountInv /\ DeadlinesOK /\ [Next]_vars =>
        [\A id \in Ids : IsEstablished(id) /\ ~IsEstablished(id)' =>
            \/ act.pc = "deleting" /\ act.id = id /\ reply'[act.req] = "ok"
            \/ reports # << >> /\ id = Head(reports) /\ reports' = Tail(reports)
            \/ \E r \in Requests : Kind[r] = "reset" /\ reply[r] # reply'[r]
            \/ restart' /\ Cardinality(failed) + 1 >= WatchdogThreshold]_vars
  BY EndsForCause DEF Cause

(***************************************************************************)
(* An established connection ends through its own successful DELETE, its   *)
(* own report, a reset or a trip, and through nothing else.                *)
(***************************************************************************)
THEOREM EstablishedLasts == Spec => EstablishedEndsForCause
  <1>1. Init => KindsInv /\ PairInv /\ DeletesListen /\ CountInv /\ DeadlinesOK
    <2>1. ASSUME Init PROVE DeletesListen /\ CountInv /\ DeadlinesOK
      <3>1. /\ failed = {} /\ dog.failures = 0 /\ act.pc = "select" /\ act.rest = {} /\ gone = {}
            /\ \A r \in Requests : reply[r] = "none"
            /\ \A id \in Ids : conn[id].due = FALSE
        BY <2>1, AbsentEntry DEF Init, Clean, Idle, Absent
      <3> QED BY <3>1, FS_EmptySet DEF DeletesListen, CountInv, CountOK, HeldOK, DeadlinesOK, DueOK
    <2> QED BY <2>1, InitKinds, InitPairs
  <1>2. KindsInv /\ PairInv /\ [Next]_vars => (KindsInv /\ PairInv)'
    BY NextKinds, NextPairs
  <1>3. KindsInv /\ PairInv /\ DeletesListen /\ CountInv /\ DeadlinesOK /\ [Next]_vars =>
            (DeletesListen /\ CountInv /\ DeadlinesOK)'
    BY NextListens, NextCount, NextDeadlines
  <1> QED BY <1>1, <1>2, <1>3, CauseSteps, PTL DEF Spec, EstablishedEndsForCause
=============================================================================
