----------------------- MODULE CoordinatorRunsProofs -----------------------
(***************************************************************************)
(* What lies between two runs of the pipeline, for every number of viewers *)
(* and calls: a restart request ends only the run that asked for it, the   *)
(* actor sees the supervisor go round the run cycle, and, as long as no    *)
(* reset is cut short, no connection survives the run it was made in.  At  *)
(* the end, what the actor and the stream plane rely on of each other, and *)
(* that no handler and no call is stuck for a reason of the actor's own.   *)
(***************************************************************************)
EXTENDS CoordinatorCallsProofs

(***************************************************************************)
(* Which calls the actor parks: a connection keeps its create until the    *)
(* offer, then the offer until the answer, then none.  A reset is never    *)
(* parked, so that only its own handler answers it.                        *)
(***************************************************************************)
ParkedOK(e, id) ==
    /\ e.state # "absent" => Kind[e.whep] = "create" /\ Target[e.whep] = id
    /\ e.state = "awaiting_offer" => e.waiter = e.whep
    /\ e.state = "awaiting_answer" =>
          e.waiter \in Requests /\ Kind[e.waiter] = "offer" /\ Target[e.waiter] = id
    /\ e.state \in {"absent", "established"} => e.waiter = NoRequest

KindsOK ==
    /\ \A id \in Ids : ParkedOK(conn[id], id)
    /\ act.pc = "deleting" => ParkedOK(act.entry, act.id) /\ Kind[act.req] = "remove"
    /\ act.pc \in {"adding", "undoing"} => Kind[act.req] = "create"

KindsInv == TypeInv /\ CallsInv /\ KindsOK

\* No entry parks nothing.
LEMMA AbsentParked == \A id : ParkedOK(Absent, id)
  BY AbsentEntry DEF ParkedOK

\* The entries change as they may, and the actor takes up no new call.
LEMMA KindsKept ==
    ASSUME KindsOK, \A id \in Ids : ParkedOK(conn'[id], id),
           act' = act \/ act'.pc \notin {"adding", "undoing", "deleting"}
    PROVE  KindsOK'
  <1>1. CASE act' = act
    BY <1>1 DEF KindsOK, ParkedOK
  <1>2. CASE act'.pc \notin {"adding", "undoing", "deleting"}
    BY <1>2 DEF KindsOK, ParkedOK
  <1> QED BY <1>1, <1>2

\* One entry of the map changes.
LEMMA KindsEntry ==
    ASSUME KindsInv, NEW id \in Ids, NEW e, ParkedOK(e, id),
           conn' = [conn EXCEPT ![id] = e]
    PROVE  \A i \in Ids : ParkedOK(conn'[i], i)
  <1>1. \A i \in Ids : conn'[i] = IF i = id THEN e ELSE conn[i]
    BY DEF KindsInv, TypeInv, TypeOK
  <1>2. \A i \in Ids : ParkedOK(conn[i], i)
    BY DEF KindsInv, KindsOK
  <1> QED BY <1>1, <1>2

\* What the handlers write.
LEMMA KindsWritten ==
    ASSUME NEW e \in Entries, NEW id \in Ids, NEW r \in Requests, Target[r] = id
    PROVE  /\ Kind[r] = "create" => ParkedOK(AwaitingOffer(r), id)
           /\ e.state # "absent" /\ ParkedOK(e, id) /\ Kind[r] = "offer" =>
                ParkedOK(AwaitingAnswer(e, r), id)
           /\ e.state # "absent" /\ ParkedOK(e, id) => ParkedOK(Established(e), id)
  <1>1. Kind[r] = "create" => ParkedOK(AwaitingOffer(r), id)
    BY DEF ParkedOK, AwaitingOffer
  <1>2. /\ AwaitingAnswer(e, r).whep = e.whep /\ AwaitingAnswer(e, r).waiter = r
        /\ AwaitingAnswer(e, r).state = "awaiting_answer"
    BY DEF AwaitingAnswer, Entries
  <1>3. /\ Established(e).whep = e.whep /\ Established(e).waiter = NoRequest
        /\ Established(e).state = "established"
    BY DEF Established, Entries
  <1> QED BY <1>1, <1>2, <1>3 DEF ParkedOK

\* terminate() takes the entry out as it is.
LEMMA KindsTerminate ==
    ASSUME KindsInv, NEW id \in Ids, NEW reason \in Reasons, NEW req, NEW told, NEW rest,
           Policy(reason).teardown = "Required" => Kind[req] = "remove",
           Terminate(id, reason, req, told, rest)
    PROVE  KindsOK'
  <1>1. \A i \in Ids : ParkedOK(conn'[i], i)
    BY KindsEntry, AbsentParked DEF Terminate
  <1>2. CASE Policy(reason).teardown = "Required"
    <2>1. act'.pc = "deleting" /\ act'.entry = conn[id] /\ act'.id = id /\ act'.req = req
      BY <1>2 DEF Terminate
    <2>2. ParkedOK(act'.entry, act'.id)
      BY <2>1 DEF KindsInv, KindsOK
    <2> QED BY <1>1, <1>2, <2>1, <2>2 DEF KindsOK, ParkedOK
  <1>3. CASE Policy(reason).teardown # "Required"
    <2>1. act'.pc = "detaching"
      BY <1>3 DEF Terminate
    <2> QED BY <1>1, <2>1, KindsKept DEF KindsInv
  <1> QED BY <1>2, <1>3

\* What a handler does to the parked calls.
LEMMA HandleKinds ==
    ASSUME KindsInv, NEW r \in Requests, Handle(r)
    PROVE  KindsOK'
  <1> DEFINE id == Target[r]
  <1>1. id \in Ids /\ conn[id] \in Entries /\ ParkedOK(conn[id], id)
        /\ \A i \in Ids : ParkedOK(conn[i], i)
    BY RequestAssumption DEF KindsInv, KindsOK, TypeInv, TypeOK
  <1>2. CASE UNCHANGED <<conn, act>>
    BY <1>1, <1>2, KindsKept DEF KindsInv
  <1>3. ASSUME NEW reason \in {"PeerGone", "Deleted"}, NEW q, NEW told,
               reason = "Deleted" => Kind[q] = "remove",
               Terminate(id, reason, q, told, {})
        PROVE  KindsOK'
    <2>1. reason \in Reasons
      BY DEF Reasons
    <2>2. Policy(reason).teardown = "Required" => Kind[q] = "remove"
      BY <1>3 DEF Policy
    <2> QED BY <1>1, <1>3, <2>1, <2>2, KindsTerminate
  <1>4. CASE CreateConnection(r)
    <2>1. CASE ~Mapped(id) /\ act' = [Idle EXCEPT !.pc = "adding", !.req = r, !.id = id]
               /\ conn' = conn
      <3>1. act'.pc = "adding" /\ act'.req = r /\ Kind[r] = "create"
        BY <1>4, <2>1 DEF Idle, CreateConnection
      <3> QED BY <1>1, <2>1, <3>1 DEF KindsOK, ParkedOK
    <2> QED BY <1>2, <1>4, <2>1 DEF CreateConnection, Refuse
  <1>5. CASE OfferReceived(r)
    <2>1. CASE /\ TakesOffer(conn[id]) /\ conn' = [conn EXCEPT ![id] = AwaitingAnswer(conn[id], r)]
               /\ act' = act
      <3>1. ParkedOK(AwaitingAnswer(conn[id], r), id)
        BY <1>1, <1>5, <2>1, KindsWritten DEF OfferReceived, TakesOffer
      <3>2. \A i \in Ids : ParkedOK(conn'[i], i)
        BY <1>1, <2>1, <3>1, KindsEntry
      <3> QED BY <2>1, <3>2, KindsKept DEF KindsInv
    <2> QED BY <1>2, <1>3, <1>5, <2>1 DEF OfferReceived, Refuse
  <1>6. CASE AnswerReceived(r)
    <2>1. CASE /\ conn[id].state = "awaiting_answer"
               /\ conn' = [conn EXCEPT ![id] = Established(conn[id])] /\ act' = act
      <3>1. ParkedOK(Established(conn[id]), id)
        BY <1>1, <2>1, KindsWritten
      <3>2. \A i \in Ids : ParkedOK(conn'[i], i)
        BY <1>1, <2>1, <3>1, KindsEntry
      <3> QED BY <2>1, <3>2, KindsKept DEF KindsInv
    <2> QED BY <1>2, <1>3, <1>6, <2>1 DEF AnswerReceived, Refuse
  <1>7. CASE RemoveConnection(r)
    BY <1>2, <1>3, <1>7 DEF RemoveConnection, Refuse
  <1>8. CASE Reset(r)
    <2>1. \A i \in Ids : conn'[i] = Absent
      BY <1>8 DEF Reset, ResetAll
    <2>2. act' = act
      BY <1>8 DEF Reset
    <2> QED BY <2>1, <2>2, AbsentParked, KindsKept DEF KindsInv
  <1> QED BY <1>4, <1>5, <1>6, <1>7, <1>8 DEF Handle

\* Every step parks only creates and offers, each where it belongs.
LEMMA NextKinds ==
    ASSUME KindsInv, [Next]_vars
    PROVE  KindsInv'
  <1>1. SUFFICES KindsOK'
    BY NextType, NextCalls DEF KindsInv
  <1>2. \A i \in Ids : ParkedOK(conn[i], i)
    BY DEF KindsInv, KindsOK
  <1>3. CASE conn' = conn /\ (act' = act \/ act'.pc \notin {"adding", "undoing", "deleting"})
    BY <1>2, <1>3, KindsKept DEF KindsInv
  <1>4. CASE Actor
    <2>1. CASE ReapBranch \/ SweepNext
      <3>1. ASSUME NEW id \in Ids, NEW reason \in {"Reaped", "Expired"}, NEW rest,
                   Terminate(id, reason, NoRequest, {}, rest)
            PROVE  KindsOK'
        <4>1. reason \in Reasons /\ Policy(reason).teardown # "Required"
          BY DEF Reasons, Policy
        <4> QED BY <3>1, <4>1, KindsTerminate
      <3>2. CASE ReapBranch
        <4>1. Head(reports) \in Ids
          BY <3>2, QueueType DEF ReapBranch, KindsInv, TypeInv, TypeOK
        <4> QED BY <1>3, <3>1, <3>2, <4>1 DEF ReapBranch
      <3>3. CASE SweepNext
        <4>1. PICK id \in act.rest :
                \/ Terminate(id, "Expired", NoRequest, {}, act.rest \ {id})
                \/ act' = Resume(act.rest \ {id}) /\ conn' = conn
          BY <3>3 DEF SweepNext
        <4>2. id \in Ids
          BY DEF KindsInv, TypeInv, TypeOK, Acts
        <4> QED BY <1>3, <3>1, <4>1, <4>2, AbsentEntry
      <3> QED BY <2>1, <3>2, <3>3
    <2>2. CASE Sweep
      <3>1. conn' = conn /\ act'.pc = "sweeping"
        BY <2>2 DEF Sweep, Idle
      <3> QED BY <1>3, <3>1
    <2>3. CASE BranchAdded
      <3>1. /\ act.id \in Ids /\ act.req \in Requests /\ Kind[act.req] = "create"
            /\ Target[act.req] = act.id /\ act.pc = "adding"
        BY <2>3 DEF BranchAdded, KindsInv, KindsOK, CallsInv, HandsOK, TypeInv, ActorOK
      <3>2. Absent \in Entries
        BY AbsentEntry
      <3>3. ParkedOK(AwaitingOffer(act.req), act.id)
        BY <3>1, <3>2, KindsWritten
      <3>4. \A i \in Ids : ParkedOK(conn'[i], i)
        BY <2>3, <3>1, <3>3, KindsEntry DEF BranchAdded
      <3>5. act'.pc = "select"
        BY <2>3, AbsentEntry DEF BranchAdded
      <3> QED BY <3>4, <3>5, KindsKept DEF KindsInv
    <2>4. CASE AttachFails
      <3>1. conn' = conn /\ act'.pc = "undoing" /\ act'.req = act.req /\ act.pc = "adding"
        BY <2>4 DEF AttachFails, KindsInv, TypeInv, TypeOK, Acts
      <3> QED BY <1>2, <3>1 DEF KindsInv, KindsOK, ParkedOK
    <2>5. CASE BranchRefused \/ AttachUndone \/ Deleted
      <3>1. conn' = conn /\ act' = Idle
        BY <2>5 DEF BranchRefused, AttachUndone, Deleted
      <3> QED BY <1>3, <3>1, AbsentEntry
    <2>6. CASE DeleteFailed
      <3>1. act.id \in Ids /\ ParkedOK(act.entry, act.id) /\ act' = Idle
            /\ conn' = [conn EXCEPT ![act.id] = act.entry]
        BY <2>6 DEF DeleteFailed, KindsInv, KindsOK, TypeInv, ActorOK
      <3>2. \A i \in Ids : ParkedOK(conn'[i], i)
        BY <3>1, KindsEntry
      <3> QED BY <3>1, <3>2, KindsKept, AbsentEntry DEF KindsInv
    <2>7. CASE Detached
      <3>1. act' = Resume(act.rest) /\ FeedWatchdog(act.reason)
        BY <2>7 DEF Detached
      <3>2. CASE conn' = conn
        BY <1>3, <3>1, <3>2, AbsentEntry
      <3>3. CASE \A i \in Ids : conn'[i] = Absent
        BY <3>1, <3>3, AbsentParked, AbsentEntry, KindsKept DEF KindsInv
      <3> QED BY <3>1, <3>2, <3>3 DEF FeedWatchdog, ResetAll
    <2> QED BY <1>4, <2>1, <2>2, <2>3, <2>4, <2>5, <2>6, <2>7, HandleKinds DEF Actor, Await
  <1>5. CASE Clock
    <2>1. CASE WindowPasses
      BY <1>3, <2>1 DEF WindowPasses
    <2>2. ASSUME NEW id \in Ids, DeadlinePasses(id)
          PROVE  KindsOK'
      <3>1. \A i \in Ids : /\ conn'[i].state = conn[i].state /\ conn'[i].whep = conn[i].whep
                           /\ conn'[i].waiter = conn[i].waiter
        BY <2>2 DEF DeadlinePasses, KindsInv, TypeInv, TypeOK, Entries
      <3>2. \A i \in Ids : ParkedOK(conn'[i], i)
        BY <1>2, <3>1 DEF ParkedOK
      <3>3. act' = act
        BY <2>2 DEF DeadlinePasses
      <3> QED BY <3>2, <3>3, KindsKept DEF KindsInv
    <2> QED BY <1>5, <2>1, <2>2 DEF Clock
  <1>6. CASE Callers \/ Supervisor \/ UNCHANGED vars
    <2>1. conn' = conn /\ act' = act
      BY <1>6 DEF Callers, Call, Vanish, Supervisor, PipelineInits, InitFails, PipelineStarts,
             InputReady, PipelineMoves, TakeRestart, PipelineStops, SendReset, ResetTimesOut,
             BranchFails, vars
    <2> QED BY <1>3, <2>1
  <1> QED BY <1>4, <1>5, <1>6 DEF Next

\* Nothing is parked at first.
LEMMA InitKinds == Init => KindsInv
  <1>1. Init => KindsOK
    BY AbsentParked, AbsentEntry DEF Init, KindsOK
  <1> QED BY <1>1, InitType, InitCalls DEF KindsInv

-----------------------------------------------------------------------------
(***************************************************************************)
(* The pipeline and the restart slot.                                      *)
(***************************************************************************)

\* A handler leaves the pipeline, the run and the slot alone.
LEMMA HandleLeaves ==
    ASSUME NEW r \in Requests, Handle(r)
    PROVE  UNCHANGED <<pipeline, run, restart, tripRun, gone>>
  <1>1. UNCHANGED <<pipeline, run, gone>>
    BY DEF Handle, CreateConnection, OfferReceived, AnswerReceived, RemoveConnection, Reset,
           stream, clients
  <1>2. UNCHANGED <<restart, tripRun>>
    <2>1. CASE CreateConnection(r)
      BY <2>1 DEF CreateConnection, Refuse, watch
    <2>2. CASE OfferReceived(r)
      BY <2>2 DEF OfferReceived, Refuse, watch
    <2>3. CASE AnswerReceived(r)
      BY <2>3 DEF AnswerReceived, Refuse, watch
    <2>4. CASE RemoveConnection(r)
      BY <2>4 DEF RemoveConnection, Refuse, watch
    <2>5. CASE Reset(r)
      BY <2>5 DEF Reset
    <2> QED BY <2>1, <2>2, <2>3, <2>4, <2>5 DEF Handle
  <1> QED BY <1>1, <1>2

\* So does the rest of the actor, but for a trip, which requests a restart of
\* the run it happens in.
LEMMA AwaitLeaves ==
    ASSUME ReapBranch \/ Sweep \/ SweepNext \/ Await
    PROVE  /\ UNCHANGED <<pipeline, run, mailbox, clients>>
           /\ \/ UNCHANGED <<restart, tripRun>>
              \/ restart' = TRUE /\ tripRun' = run
  <1>1. CASE ReapBranch
    BY <1>1 DEF ReapBranch, watch
  <1>2. CASE Sweep \/ SweepNext
    BY <1>2 DEF Sweep, SweepNext, watch, stream
  <1>3. CASE BranchAdded \/ BranchRefused \/ AttachFails
    BY <1>3 DEF BranchAdded, BranchRefused, AttachFails, watch, stream
  <1>4. CASE AttachUndone \/ Deleted \/ DeleteFailed
    BY <1>4 DEF AttachUndone, Deleted, DeleteFailed, RemoveBranch, watch
  <1>5. CASE Detached
    <2>1. UNCHANGED <<pipeline, run, mailbox, clients>>
      BY <1>5 DEF Detached, RemoveBranch
    <2>2. FeedWatchdog(act.reason)
      BY <1>5 DEF Detached
    <2> QED BY <2>1, <2>2 DEF FeedWatchdog
  <1> QED BY <1>1, <1>2, <1>3, <1>4, <1>5 DEF Await

\* A request that the slot holds from the top of a run on was made in that run:
\* the drain makes it so, and a run number is never used twice.
SlotOK == restart /\ pipeline \in {"init", "starting", "ready"} => tripRun = run

LEMMA NextSlot ==
    ASSUME SlotOK, [Next]_vars
    PROVE  SlotOK'
  <1>1. CASE Actor
    BY <1>1, HandleLeaves, AwaitLeaves DEF Actor, SlotOK
  <1>2. CASE Callers \/ Clock \/ UNCHANGED vars
    <2>1. UNCHANGED <<pipeline, run, restart, tripRun>>
      BY <1>2 DEF Callers, Call, Vanish, Clock, WindowPasses, DeadlinePasses, vars, stream, watch
    <2> QED BY <2>1 DEF SlotOK
  <1>3. CASE Supervisor
    BY <1>3 DEF Supervisor, PipelineInits, InitFails, PipelineStarts, InputReady, PipelineMoves,
           TakeRestart, PipelineStops, SendReset, ResetTimesOut, BranchFails, watch, SlotOK
  <1> QED BY <1>1, <1>2, <1>3 DEF Next

(***************************************************************************)
(* A restart request that the supervisor can take was made by a trip in    *)
(* the run it would end: one left over from an earlier run is drained      *)
(* before the next one starts, however the channel was filled in between.  *)
(***************************************************************************)
THEOREM RestartsAreForTheirRun == Spec => []RestartIsForThisRun
  <1>1. Init => SlotOK
    BY DEF Init, SlotOK
  <1>2. SlotOK /\ [Next]_vars => SlotOK'
    BY NextSlot
  <1>3. SlotOK => RestartIsForThisRun
    BY DEF SlotOK, RestartIsForThisRun
  <1> QED BY <1>1, <1>2, <1>3, PTL DEF Spec

-----------------------------------------------------------------------------
(***************************************************************************)
(* The run cycle.                                                          *)
(***************************************************************************)

\* A reset whose caller still waits for it.
ResetPending == \E r \in Unanswered \ gone : Kind[r] = "reset"

\* It can only stand in the mailbox.
QueuedReset == \E r \in Queued \ gone : Kind[r] = "reset"

LEMMA PendingResets == KindsInv => (ResetPending <=> QueuedReset)
  <1> SUFFICES ASSUME KindsInv PROVE ResetPending <=> QueuedReset
    OBVIOUS
  <1>1. Unanswered = Queued \cup InHand \cup Waiters(Ids)
    BY DEF KindsInv, CallsInv, EachCallIsHeldOnce
  <1>2. \A r \in Waiters(Ids) : Kind[r] # "reset"
    <2> SUFFICES ASSUME NEW id \in Ids, conn[id].waiter # NoRequest
                 PROVE  Kind[conn[id].waiter] # "reset"
      BY DEF Waiters
    <2>1. ParkedOK(conn[id], id) /\ conn[id].state \in States
      BY DEF KindsInv, KindsOK, TypeInv, TypeOK, Entries
    <2> QED BY <2>1 DEF ParkedOK, States
  <1>3. \A r \in InHand : Kind[r] # "reset"
    <2>1. act.req # NoRequest => Kind[act.req] \in {"create", "remove"}
      BY DEF KindsInv, CallsInv, HandsOK, KindsOK
    <2>2. act.entry.waiter # NoRequest => ParkedOK(act.entry, act.id) /\ act.entry.state \in States
      BY DEF KindsInv, CallsInv, HandsOK, KindsOK, TypeInv, TypeOK, Acts, Entries
    <2> QED BY <2>1, <2>2 DEF InHand, ParkedOK, States
  <1> QED BY <1>1, <1>2, <1>3 DEF ResetPending, QueuedReset

\* The actor ends the wait for a reset by handling it, and in no other way.
LEMMA ActorPending ==
    ASSUME KindsInv, KindsInv'
    PROVE  /\ \A r \in Requests : Handle(r) => /\ ResetPending' => ResetPending
                                               /\ ~Reset(r) => ResetPending' = ResetPending
           /\ ReapBranch \/ Sweep \/ SweepNext \/ Await => ResetPending' = ResetPending
  <1>1. (ResetPending <=> QueuedReset) /\ (ResetPending <=> QueuedReset)'
    BY PendingResets, PTL
  <1>2. ASSUME NEW r \in Requests, Handle(r)
        PROVE  /\ ResetPending' => ResetPending
               /\ ~Reset(r) => ResetPending' = ResetPending
    <2>1. Receive(r)
      BY <1>2 DEF Handle, CreateConnection, OfferReceived, AnswerReceived, RemoveConnection, Reset
    <2>2. Queued' = Queued \ {r} /\ gone' = gone
      BY <1>2, <2>1, ReceiveLeaves, HandleLeaves DEF KindsInv, CallsInv
    <2>3. ~Reset(r) => Kind[r] # "reset"
      BY <1>2 DEF Handle, CreateConnection, OfferReceived, AnswerReceived, RemoveConnection
    <2>4. ~Reset(r) => (ResetPending' <=> ResetPending)
      BY <1>1, <2>2, <2>3 DEF QueuedReset
    <2> QED BY <1>1, <2>2, <2>4 DEF QueuedReset, ResetPending
  <1>3. ASSUME ReapBranch \/ Sweep \/ SweepNext \/ Await
        PROVE  ResetPending' = ResetPending
    <2>1. Queued' = Queued /\ gone' = gone
      BY <1>3, AwaitLeaves DEF Queued, clients
    <2>2. ResetPending' <=> ResetPending
      BY <1>1, <2>1 DEF QueuedReset
    <2> QED BY <2>2 DEF ResetPending
  <1> QED BY <1>2, <1>3

\* The callers neither add a reset nor give up on one, and the clock does neither.
LEMMA CallersPending ==
    ASSUME Callers \/ Clock \/ UNCHANGED vars
    PROVE  ResetPending' <=> ResetPending
  <1>1. CASE \E r \in Requests : Call(r)
    <2>1. PICK r \in Requests : Call(r)
      BY <1>1
    <2>2. sent' = sent \cup {r} /\ UNCHANGED <<gone, reply>> /\ Kind[r] # "reset"
      BY <2>1 DEF Call, Send, replies
    <2> QED BY <2>2 DEF ResetPending, Unanswered
  <1>2. CASE \E r \in Requests : Vanish(r)
    <2>1. PICK r \in Requests : Vanish(r)
      BY <1>2
    <2>2. gone' = gone \cup {r} /\ UNCHANGED <<sent, reply>> /\ Kind[r] # "reset"
      BY <2>1 DEF Vanish, replies
    <2> QED BY <2>2 DEF ResetPending, Unanswered
  <1>3. CASE Clock \/ UNCHANGED vars
    <2>1. UNCHANGED <<sent, gone, reply>>
      BY <1>3 DEF Clock, DeadlinePasses, WindowPasses, vars, clients, replies
    <2> QED BY <2>1 DEF ResetPending, Unanswered
  <1> QED BY <1>1, <1>2, <1>3 DEF Callers

\* The supervisor waits for the reset it has just sent.
LEMMA SentPending ==
    ASSUME KindsInv, NEW r \in Requests, SendReset(r)
    PROVE  ResetPending' /\ pipeline = "stopped" /\ pipeline' = "none" /\ UNCHANGED <<run, restart>>
  <1>1. /\ r \notin sent /\ sent' = sent \cup {r} /\ UNCHANGED <<reply, gone>>
        /\ Kind[r] = "reset"
    BY DEF SendReset, Send, replies
  <1>2. reply[r] = "none" /\ r \notin gone
    BY <1>1 DEF KindsInv, CallsInv, HandsOK, TypeInv, TypeOK
  <1>3. ResetPending'
    BY <1>1, <1>2 DEF ResetPending, Unanswered
  <1> QED BY <1>3 DEF SendReset, watch

\* The phase of the cycle, by what it depends on.
LEMMA PhaseIs ==
    CyclePhase = IF pipeline = "none" /\ ResetPending THEN "stopped"
                 ELSE IF pipeline \in {"starting", "ready"} THEN "up" ELSE pipeline
  BY DEF CyclePhase, ResetPending

LEMMA PhaseWillBe ==
    CyclePhase' = IF pipeline' = "none" /\ ResetPending' THEN "stopped"
                  ELSE IF pipeline' \in {"starting", "ready"} THEN "up" ELSE pipeline'
  BY DEF CyclePhase, ResetPending

\* Every step of the coordinator's model is one of the cycle, or none.
LEMMA NextCycle ==
    ASSUME KindsInv, KindsInv', [Next]_vars
    PROVE  [Cycle!Next]_(Cycle!vars)
  <1> USE PhaseIs, PhaseWillBe DEF Cycle!vars
  <1>1. CASE \E r \in Requests : Handle(r)
    <2>1. UNCHANGED <<pipeline, run, restart>> /\ (ResetPending' => ResetPending)
      BY <1>1, HandleLeaves, ActorPending
    <2> QED BY <2>1 DEF Cycle!Next, Cycle!ResetEnds, Cycle!Move
  <1>2. CASE ReapBranch \/ Sweep \/ SweepNext \/ Await
    <2>1. /\ UNCHANGED <<pipeline, run>> /\ ResetPending' = ResetPending
          /\ restart' = restart \/ restart' = TRUE
      BY <1>2, AwaitLeaves, ActorPending
    <2>2. CyclePhase' = CyclePhase
      BY <2>1
    <2> QED BY <2>1, <2>2 DEF Cycle!Next, Cycle!Trip
  <1>3. CASE Callers \/ Clock \/ UNCHANGED vars
    <2>1. UNCHANGED <<pipeline, run, restart>>
      BY <1>3 DEF Callers, Call, Vanish, Clock, WindowPasses, DeadlinePasses, vars, stream, watch
    <2> QED BY <1>3, <2>1, CallersPending
  <1>4. CASE PipelineInits
    <2>1. ~ResetPending
      BY <1>4 DEF PipelineInits, ResetPending
    <2> QED BY <1>4, <2>1 DEF PipelineInits, Cycle!Next, Cycle!Begin
  <1>5. CASE InitFails \/ PipelineStarts \/ InputReady
    BY <1>5 DEF InitFails, PipelineStarts, InputReady, PipelineMoves, watch, Cycle!Next,
                Cycle!InitFails, Cycle!Start, Cycle!Move
  <1>6. CASE TakeRestart
    BY <1>6 DEF TakeRestart, Cycle!Next, Cycle!TakeRestart
  <1>7. CASE PipelineStops
    BY <1>7 DEF PipelineStops, watch, Cycle!Next, Cycle!Stop, Cycle!Move
  <1>8. CASE \E r \in Requests : SendReset(r)
    BY <1>8, SentPending
  <1>9. CASE ResetTimesOut
    <2>1. UNCHANGED <<run, restart>>
      BY <1>9 DEF ResetTimesOut, watch
    <2>2. \/ pipeline' = pipeline /\ gone \subseteq gone'
          \/ pipeline = "stopped" /\ pipeline' = "none"
      BY <1>9 DEF ResetTimesOut
    <2>3. gone \subseteq gone' => (ResetPending' => ResetPending)
      BY <1>9 DEF ResetTimesOut, ResetPending, Unanswered, replies
    <2> QED BY <2>1, <2>2, <2>3 DEF Cycle!Next, Cycle!ResetEnds, Cycle!Move
  <1>10. CASE \E id \in Ids : BranchFails(id)
    <2>1. UNCHANGED <<pipeline, run, restart, sent, reply, gone>>
      BY <1>10 DEF BranchFails, clients, replies, watch
    <2>2. ResetPending' <=> ResetPending
      BY <2>1 DEF ResetPending, Unanswered
    <2> QED BY <2>1, <2>2
  <1> QED BY <1>1, <1>2, <1>3, <1>4, <1>5, <1>6, <1>7, <1>8, <1>9, <1>10
          DEF Next, Actor, Supervisor

(***************************************************************************)
(* What the coordinator's model takes the supervisor to do is the run      *)
(* cycle that module Supervisor is proved to implement, for every number   *)
(* of calls and viewers and also when resets are given up on.              *)
(***************************************************************************)
THEOREM FollowsTheCycle == Spec => RunsFollowTheCycle
  <1>1. Init => KindsInv /\ Cycle!Init
    <2>1. ASSUME Init PROVE Cycle!Init
      <3>1. pipeline = "none" /\ ~ResetPending /\ run = 0 /\ restart = FALSE
        BY <2>1 DEF Init, ResetPending, Unanswered
      <3> QED BY <3>1, PhaseIs DEF Cycle!Init
    <2> QED BY <2>1, InitKinds
  <1>2. KindsInv /\ [Next]_vars => KindsInv'
    BY NextKinds
  <1>3. KindsInv /\ KindsInv' /\ [Next]_vars => [Cycle!Next]_(Cycle!vars)
    BY NextCycle
  <1> QED BY <1>1, <1>2, <1>3, PTL DEF Spec, RunsFollowTheCycle, Cycle!Spec

-----------------------------------------------------------------------------
(***************************************************************************)
(* Connections and runs.                                                   *)
(***************************************************************************)

(***************************************************************************)
(* While a run goes on, each connection is of that run, the one that a     *)
(* DELETE has in hand and may put back included; and once the reset after  *)
(* a run was handled there is no connection at all.                        *)
(***************************************************************************)
RunsOK ==
    /\ Running => /\ \A id \in Ids : Mapped(id) => conn[id].run = run
                  /\ act.pc = "deleting" => act.entry.run = run
    /\ pipeline = "none" /\ ~ResetPending => /\ \A id \in Ids : ~Mapped(id)
                                             /\ act.pc # "deleting"

\* Entries stay, leave, go into the hands of a DELETE, or come back from them.
LEMMA RunsKept ==
    ASSUME RunsOK, UNCHANGED <<pipeline, run>>, ResetPending' <=> ResetPending,
           \A id \in Ids : Mapped(id)' =>
              \/ Mapped(id) /\ conn'[id].run = conn[id].run
              \/ act.pc = "deleting" /\ conn'[id].run = act.entry.run,
           act'.pc = "deleting" =>
              \/ act.pc = "deleting" /\ act'.entry.run = act.entry.run
              \/ \E id \in Ids : Mapped(id) /\ act'.entry.run = conn[id].run
    PROVE  RunsOK'
  <1>1. Running' = Running
    BY DEF Running
  <1>2. ASSUME Running
        PROVE  /\ \A id \in Ids : Mapped(id)' => conn'[id].run = run
               /\ act'.pc = "deleting" => act'.entry.run = run
    BY <1>2 DEF RunsOK
  <1>3. ASSUME pipeline = "none", ~ResetPending
        PROVE  /\ \A id \in Ids : ~Mapped(id)'
               /\ act'.pc # "deleting"
    BY <1>3 DEF RunsOK
  <1> QED BY <1>1, <1>2, <1>3 DEF RunsOK

\* One entry of the map changes, and what it holds of the run does not.
LEMMA RunsEntry ==
    ASSUME TypeInv, NEW id \in Ids, NEW e, conn' = [conn EXCEPT ![id] = e],
           e.state = "absent" \/ (Mapped(id) /\ e.run = conn[id].run)
    PROVE  \A i \in Ids : Mapped(i)' => Mapped(i) /\ conn'[i].run = conn[i].run
  <1>1. \A i \in Ids : conn'[i] = IF i = id THEN e ELSE conn[i]
    BY DEF TypeInv, TypeOK
  <1> QED BY <1>1 DEF Mapped

\* terminate() hands the entry to the await, or drops it.
LEMMA RunsTerminate ==
    ASSUME TypeInv, NEW id \in Ids, Mapped(id), NEW reason, NEW req, NEW told, NEW rest,
           Terminate(id, reason, req, told, rest)
    PROVE  /\ \A i \in Ids : Mapped(i)' => Mapped(i) /\ conn'[i].run = conn[i].run
           /\ act'.pc = "deleting" => act'.entry.run = conn[id].run
  <1>1. \A i \in Ids : Mapped(i)' => Mapped(i) /\ conn'[i].run = conn[i].run
    BY RunsEntry, AbsentEntry DEF Terminate
  <1>2. act'.pc = "deleting" => act'.entry = conn[id]
    BY DEF Terminate
  <1> QED BY <1>1, <1>2

\* The handlers.
LEMMA HandleRuns ==
    ASSUME KindsInv, KindsInv', RunsOK, NEW r \in Requests, Handle(r)
    PROVE  RunsOK'
  <1> DEFINE id == Target[r]
  <1>1. id \in Ids /\ conn[id] \in Entries /\ TypeInv /\ act.pc = "select"
    <2>1. act.pc = "select"
      BY DEF Handle, CreateConnection, OfferReceived, AnswerReceived, RemoveConnection, Reset,
             Receive
    <2> QED BY <2>1, RequestAssumption DEF KindsInv, TypeInv, TypeOK
  <1>2. UNCHANGED <<pipeline, run>>
    BY HandleLeaves
  <1>3. CASE Reset(r)
    <2>1. \A i \in Ids : conn'[i] = Absent
      BY <1>3 DEF Reset, ResetAll
    <2>2. act'.pc = "select" /\ \A i \in Ids : ~Mapped(i)'
      BY <1>1, <1>3, <2>1, AbsentEntry DEF Reset, Mapped
    <2> QED BY <2>2 DEF RunsOK
  <1>4. CASE ~Reset(r)
    <2>1. ResetPending' <=> ResetPending
      BY <1>4, ActorPending
    <2>2. CASE UNCHANGED <<conn, act>>
      <3>1. \A i \in Ids : Mapped(i)' <=> Mapped(i)
        BY <2>2 DEF Mapped
      <3> QED BY <1>2, <2>1, <2>2, <3>1, RunsKept
    <2>3. ASSUME NEW reason, NEW q, NEW told, Mapped(id), Terminate(id, reason, q, told, {})
          PROVE  RunsOK'
      <3>1. /\ \A i \in Ids : Mapped(i)' => Mapped(i) /\ conn'[i].run = conn[i].run
            /\ act'.pc = "deleting" => act'.entry.run = conn[id].run
        BY <1>1, <2>3, RunsTerminate
      <3> QED BY <1>1, <1>2, <2>1, <2>3, <3>1, RunsKept
    <2>4. ASSUME NEW e, conn' = [conn EXCEPT ![id] = e], Mapped(id), e.run = conn[id].run,
                 act' = act
          PROVE  RunsOK'
      <3>1. \A i \in Ids : Mapped(i)' => Mapped(i) /\ conn'[i].run = conn[i].run
        BY <1>1, <2>4, RunsEntry
      <3> QED BY <1>1, <1>2, <2>1, <2>4, <3>1, RunsKept
    <2>5. CASE CreateConnection(r)
      <3>1. CASE conn' = conn /\ act' = [Idle EXCEPT !.pc = "adding", !.req = r, !.id = id]
        <4>1. act'.pc = "adding" /\ \A i \in Ids : Mapped(i)' <=> Mapped(i)
          BY <3>1 DEF Idle, Mapped
        <4> QED BY <1>2, <2>1, <3>1, <4>1, RunsKept
      <3> QED BY <2>2, <2>5, <3>1 DEF CreateConnection, Refuse
    <2>6. CASE OfferReceived(r)
      <3>1. TakesOffer(conn[id]) => Mapped(id)
        BY DEF TakesOffer, Mapped
      <3>2. AwaitingAnswer(conn[id], r).run = conn[id].run
        BY <1>1 DEF AwaitingAnswer, Entries
      <3> QED BY <2>2, <2>3, <2>4, <2>6, <3>1, <3>2 DEF OfferReceived, Refuse
    <2>7. CASE AnswerReceived(r)
      <3>1. conn[id].state = "awaiting_answer" => Mapped(id)
        BY DEF Mapped
      <3>2. Established(conn[id]).run = conn[id].run
        BY <1>1 DEF Established, Entries
      <3> QED BY <2>2, <2>3, <2>4, <2>7, <3>1, <3>2 DEF AnswerReceived, Refuse
    <2>8. CASE RemoveConnection(r)
      BY <2>2, <2>3, <2>8 DEF RemoveConnection, Refuse
    <2> QED BY <1>4, <2>5, <2>6, <2>7, <2>8 DEF Handle
  <1> QED BY <1>3, <1>4

\* The reap, the sweep and the awaits.
LEMMA AwaitRuns ==
    ASSUME KindsInv, KindsInv', RunsOK, ReapBranch \/ Sweep \/ SweepNext \/ Await
    PROVE  RunsOK'
  <1>1. /\ UNCHANGED <<pipeline, run>> /\ (ResetPending' <=> ResetPending)
        /\ TypeInv
    <2>1. UNCHANGED <<pipeline, run>>
      BY AwaitLeaves
    <2>2. ResetPending' = ResetPending
      BY ActorPending
    <2> QED BY <2>1, <2>2 DEF KindsInv
  <1>2. CASE conn' = conn /\ act'.pc # "deleting"
    <2>1. \A i \in Ids : Mapped(i)' <=> Mapped(i)
      BY <1>2 DEF Mapped
    <2> QED BY <1>1, <1>2, <2>1, RunsKept
  <1>3. ASSUME NEW id \in Ids, NEW reason, NEW rest, Mapped(id),
               Terminate(id, reason, NoRequest, {}, rest)
        PROVE  RunsOK'
    <2>1. /\ \A i \in Ids : Mapped(i)' => Mapped(i) /\ conn'[i].run = conn[i].run
          /\ act'.pc = "deleting" => act'.entry.run = conn[id].run
      BY <1>1, <1>3, RunsTerminate
    <2> QED BY <1>1, <1>3, <2>1, RunsKept
  <1>4. CASE ReapBranch
    <2>1. Head(reports) \in Ids
      BY <1>1, <1>4, QueueType DEF ReapBranch, TypeInv, TypeOK
    <2>2. act.pc = "select"
      BY <1>4 DEF ReapBranch
    <2> QED BY <1>2, <1>3, <1>4, <2>1, <2>2 DEF ReapBranch
  <1>5. CASE Sweep
    <2>1. conn' = conn /\ act'.pc = "sweeping"
      BY <1>5 DEF Sweep, Idle
    <2> QED BY <1>2, <2>1
  <1>6. CASE SweepNext
    <2>1. PICK id \in act.rest :
            \/ Mapped(id) /\ Terminate(id, "Expired", NoRequest, {}, act.rest \ {id})
            \/ act' = Resume(act.rest \ {id}) /\ conn' = conn
      BY <1>6 DEF SweepNext
    <2>2. id \in Ids
      BY <1>1 DEF TypeInv, TypeOK, Acts
    <2> QED BY <1>2, <1>3, <2>1, <2>2, AbsentEntry
  <1>7. CASE BranchAdded
    <2>1. /\ pipeline \in {"ready", "quitting"} /\ act.id \in Ids /\ act'.pc = "select"
          /\ conn' = [conn EXCEPT ![act.id] = AwaitingOffer(act.req)]
      BY <1>1, <1>7, AbsentEntry DEF BranchAdded, TypeInv, ActorOK
    <2>2. AwaitingOffer(act.req).run = run
      BY DEF AwaitingOffer
    <2>3. \A i \in Ids : conn'[i] = IF i = act.id THEN AwaitingOffer(act.req) ELSE conn[i]
      BY <1>1, <2>1 DEF TypeInv, TypeOK
    <2>4. \A i \in Ids : Mapped(i)' => conn'[i].run = run
      BY <2>1, <2>2, <2>3 DEF RunsOK, Running, Mapped
    <2> QED BY <1>1, <2>1, <2>4 DEF RunsOK
  <1>8. CASE BranchRefused \/ AttachUndone \/ Deleted
    <2>1. conn' = conn /\ act'.pc = "select"
      BY <1>8, AbsentEntry DEF BranchRefused, AttachUndone, Deleted
    <2> QED BY <1>2, <2>1
  <1>9. CASE AttachFails
    <2>1. conn' = conn /\ act'.pc = "undoing"
      BY <1>1, <1>9 DEF AttachFails, TypeInv, TypeOK, Acts
    <2> QED BY <1>2, <2>1
  <1>10. CASE DeleteFailed
    <2>1. /\ act.pc = "deleting" /\ act.id \in Ids /\ act'.pc = "select"
          /\ conn' = [conn EXCEPT ![act.id] = act.entry]
      BY <1>1, <1>10, AbsentEntry DEF DeleteFailed, TypeInv, ActorOK
    <2>2. \A i \in Ids : conn'[i] = IF i = act.id THEN act.entry ELSE conn[i]
      BY <1>1, <2>1 DEF TypeInv, TypeOK
    <2>3. \A i \in Ids : Mapped(i)' =>
              \/ Mapped(i) /\ conn'[i].run = conn[i].run
              \/ act.pc = "deleting" /\ conn'[i].run = act.entry.run
      BY <2>1, <2>2 DEF Mapped
    <2> QED BY <1>1, <2>1, <2>3, RunsKept
  <1>11. CASE Detached
    <2>1. act' = Resume(act.rest) /\ FeedWatchdog(act.reason)
      BY <1>11 DEF Detached
    <2>2. CASE \A i \in Ids : conn'[i] = Absent
      <3>1. \A i \in Ids : ~Mapped(i)'
        BY <2>2, AbsentEntry DEF Mapped
      <3> QED BY <1>1, <2>1, <3>1, RunsKept, AbsentEntry
    <2> QED BY <1>2, <2>1, <2>2, AbsentEntry DEF FeedWatchdog, ResetAll
  <1> QED BY <1>4, <1>5, <1>6, <1>7, <1>8, <1>9, <1>10, <1>11 DEF Await

\* Every step, as long as the supervisor waits for its resets.
LEMMA NextRuns ==
    ASSUME ~ResetMayTimeOut, KindsInv, KindsInv', RunsOK, [Next]_vars
    PROVE  RunsOK'
  <1>1. CASE Actor
    BY <1>1, HandleRuns, AwaitRuns DEF Actor
  <1>2. CASE Callers \/ Clock \/ UNCHANGED vars
    <2>1. UNCHANGED <<pipeline, run, act>> /\ (ResetPending' <=> ResetPending)
      BY <1>2, CallersPending
         DEF Callers, Call, Vanish, Clock, WindowPasses, DeadlinePasses, vars, stream
    <2>2. \A i \in Ids : conn'[i].state = conn[i].state /\ conn'[i].run = conn[i].run
      <3>1. CASE \E id \in Ids : DeadlinePasses(id)
        BY <3>1 DEF DeadlinePasses, KindsInv, TypeInv, TypeOK, Entries
      <3>2. CASE conn' = conn
        BY <3>2
      <3> QED BY <1>2, <3>1, <3>2 DEF Callers, Call, Vanish, Clock, WindowPasses, vars
    <2>3. \A i \in Ids : Mapped(i)' <=> Mapped(i)
      BY <2>2 DEF Mapped
    <2> QED BY <2>1, <2>2, <2>3, RunsKept
  <1>3. CASE Supervisor
    <2>1. conn' = conn /\ act' = act /\ \A i \in Ids : Mapped(i)' <=> Mapped(i)
      BY <1>3 DEF Supervisor, PipelineInits, InitFails, PipelineStarts, InputReady, PipelineMoves,
             TakeRestart, PipelineStops, SendReset, ResetTimesOut, BranchFails, Mapped
    <2>2. CASE PipelineInits
      <3>1. pipeline = "none" /\ ~ResetPending /\ pipeline' = "init"
        BY <2>2 DEF PipelineInits, ResetPending
      <3> QED BY <2>1, <3>1 DEF RunsOK
    <2>3. CASE \/ InitFails \/ PipelineStarts \/ InputReady \/ TakeRestart \/ PipelineStops
               \/ \E id \in Ids : BranchFails(id)
      <3>1. /\ run' = run
            /\ Running' => Running
            /\ pipeline' = "none" => pipeline = "none" /\ UNCHANGED <<sent, gone, reply>>
        BY <2>3 DEF InitFails, PipelineStarts, InputReady, PipelineMoves, TakeRestart,
               PipelineStops, BranchFails, Running, clients, replies
      <3>2. pipeline' = "none" => (ResetPending' <=> ResetPending)
        BY <3>1 DEF ResetPending, Unanswered
      <3> QED BY <2>1, <3>1, <3>2 DEF RunsOK
    <2>4. CASE \E r \in Requests : SendReset(r)
      <3>1. ResetPending' /\ pipeline' = "none"
        BY <2>4, SentPending
      <3> QED BY <3>1 DEF RunsOK, Running
    <2> QED BY <1>3, <2>2, <2>3, <2>4 DEF Supervisor, ResetTimesOut
  <1> QED BY <1>1, <1>2, <1>3 DEF Next

(***************************************************************************)
(* While the pipeline runs, every connection, and so every parked caller,  *)
(* belongs to that run: nothing of an earlier run is left behind, neither  *)
(* in the map nor in the hands of a DELETE that fails and puts its entry   *)
(* back (src/signal/mod.rs:28, src/supervisor.rs:53-54).  This needs the   *)
(* supervisor to wait for its resets; the run late_reset shows what        *)
(* RESET_TIMEOUT does to it.                                               *)
(***************************************************************************)
THEOREM WaitersEndWithTheirRun == ~ResetMayTimeOut => (Spec => []NoWaiterOutlivesItsRun)
  <1> SUFFICES ASSUME ~ResetMayTimeOut PROVE Spec => []NoWaiterOutlivesItsRun
    OBVIOUS
  <1>1. Init => KindsInv /\ RunsOK
    <2>1. ASSUME Init PROVE RunsOK
      <3>1. /\ pipeline = "none" /\ act.pc = "select" /\ \A id \in Ids : ~Mapped(id)
        BY <2>1, AbsentEntry DEF Init, Mapped
      <3> QED BY <3>1 DEF RunsOK, Running
    <2> QED BY <2>1, InitKinds
  <1>2. KindsInv /\ [Next]_vars => KindsInv'
    BY NextKinds
  <1>3. KindsInv /\ KindsInv' /\ RunsOK /\ [Next]_vars => RunsOK'
    BY NextRuns
  <1>4. RunsOK => NoWaiterOutlivesItsRun
    BY DEF RunsOK, NoWaiterOutlivesItsRun
  <1> QED BY <1>1, <1>2, <1>3, <1>4, PTL DEF Spec

-----------------------------------------------------------------------------
(***************************************************************************)
(* Branches and connections.                                               *)
(***************************************************************************)

\* Resets are handled only when there is no pipeline, if none is cut short.
ResetsOK ==
    /\ \A r \in gone : Kind[r] # "reset"
    /\ pipeline # "none" => ~ResetPending

LEMMA NextResets ==
    ASSUME ~ResetMayTimeOut, KindsInv, KindsInv', ResetsOK, [Next]_vars
    PROVE  ResetsOK'
  <1>1. CASE Actor
    <2>1. UNCHANGED <<pipeline, gone>>
      BY <1>1, HandleLeaves, AwaitLeaves DEF Actor, clients
    <2>2. ResetPending' => ResetPending
      BY <1>1, ActorPending DEF Actor
    <2> QED BY <2>1, <2>2 DEF ResetsOK
  <1>2. CASE Callers \/ Clock \/ UNCHANGED vars
    <2>1. pipeline' = pipeline /\ (ResetPending' <=> ResetPending)
      BY <1>2, CallersPending
         DEF Callers, Call, Vanish, Clock, WindowPasses, DeadlinePasses, vars, stream
    <2>2. gone' = gone \/ \E r \in Requests : gone' = gone \cup {r} /\ Kind[r] # "reset"
      BY <1>2 DEF Callers, Call, Vanish, Clock, WindowPasses, DeadlinePasses, vars, clients
    <2> QED BY <2>1, <2>2 DEF ResetsOK
  <1>3. CASE PipelineInits
    BY <1>3 DEF PipelineInits, ResetsOK, ResetPending, Unanswered, clients, replies
  <1>4. CASE \/ InitFails \/ PipelineStarts \/ InputReady \/ TakeRestart \/ PipelineStops
             \/ \E id \in Ids : BranchFails(id)
    <2>1. UNCHANGED <<sent, gone, reply>> /\ (pipeline = "none" => pipeline' = "none")
      BY <1>4 DEF InitFails, PipelineStarts, InputReady, PipelineMoves, TakeRestart, PipelineStops,
         BranchFails, clients, replies
    <2>2. ResetPending' <=> ResetPending
      BY <2>1 DEF ResetPending, Unanswered
    <2> QED BY <2>1, <2>2 DEF ResetsOK
  <1>5. CASE \E r \in Requests : SendReset(r)
    BY <1>5 DEF SendReset, ResetsOK
  <1> QED BY <1>1, <1>2, <1>3, <1>4, <1>5 DEF Next, Supervisor, ResetTimesOut

(***************************************************************************)
(* What makes BranchesMatchConnections inductive: branches are there only  *)
(* while the pipeline plays; a branch the actor has in hand is there from  *)
(* the attach that failed on, and a DELETE's has its connection back if it *)
(* fails; and what is being detached has lost its connection for good.     *)
(***************************************************************************)
InHands(id) == act.id = id /\ act.pc \in {"undoing", "deleting", "detaching"}

OwnedOK ==
    /\ attached # {} => pipeline \in {"ready", "quitting"}
    /\ \A id \in attached :
          Mapped(id) \/ InHands(id) \/ id \in suspect \/ restart \/ pipeline = "quitting"
    /\ Running => /\ \A id \in Ids : Mapped(id) => id \in attached \cup suspect
                  /\ act.pc = "deleting" => act.id \in attached \cup suspect
    /\ act.pc = "detaching" => ~Mapped(act.id)

\* The actor takes a connection out of the map, or none.
LEMMA OwnedTaken ==
    ASSUME OwnedOK, UNCHANGED <<pipeline, attached, suspect, restart>>,
           act.pc \notin {"undoing", "deleting", "detaching"},
           \A id \in Ids : Mapped(id)' => Mapped(id),
           \A id \in Ids : Mapped(id) => Mapped(id)' \/ InHands(id)',
           act'.pc = "deleting" => act'.id \in Ids /\ Mapped(act'.id),
           (act.pc = "detaching" => ~Mapped(act.id))',
           attached \subseteq Ids
    PROVE  OwnedOK'
  <1>1. Running' = Running
    BY DEF Running
  <1>2. \A id \in attached :
          Mapped(id)' \/ InHands(id)' \/ id \in suspect \/ restart \/ pipeline = "quitting"
    BY DEF OwnedOK, InHands
  <1>3. Running => /\ \A id \in Ids : Mapped(id)' => id \in attached \cup suspect
                   /\ act'.pc = "deleting" => act'.id \in attached \cup suspect
    BY DEF OwnedOK
  <1> QED BY <1>1, <1>2, <1>3 DEF OwnedOK

\* terminate() up to its await.
LEMMA OwnedTerminate ==
    ASSUME TypeInv, OwnedOK, UNCHANGED <<pipeline, attached, suspect, restart>>,
           act.pc \in {"select", "sweeping"}, NEW id \in Ids, Mapped(id),
           NEW reason, NEW req, NEW told, NEW rest, Terminate(id, reason, req, told, rest)
    PROVE  OwnedOK'
  <1>1. \A i \in Ids : conn'[i] = IF i = id THEN Absent ELSE conn[i]
    BY DEF Terminate, TypeInv, TypeOK
  <1>2. act'.id = id /\ act'.pc \in {"deleting", "detaching"}
    BY DEF Terminate
  <1>3. \A i \in Ids : Mapped(i)' <=> i # id /\ Mapped(i)
    BY <1>1, AbsentEntry DEF Mapped
  <1>4. attached \subseteq Ids
    BY DEF TypeInv, TypeOK
  <1> QED BY <1>2, <1>3, <1>4, OwnedTaken DEF InHands

\* A step that changes neither which connections there are nor their branches.
LEMMA OwnedSame ==
    ASSUME OwnedOK, UNCHANGED <<pipeline, attached, suspect, restart, act>>, attached \subseteq Ids,
           \A id \in Ids : Mapped(id)' <=> Mapped(id), act.pc = "detaching" => act.id \in Ids
    PROVE  OwnedOK'
  <1>1. Running' = Running /\ \A id : InHands(id)' <=> InHands(id)
    BY DEF Running, InHands
  <1> QED BY <1>1 DEF OwnedOK

LEMMA HandleOwned ==
    ASSUME KindsInv, ResetsOK, OwnedOK, NEW r \in Requests, Handle(r)
    PROVE  OwnedOK'
  <1> DEFINE id == Target[r]
  <1>1. Receive(r)
    BY DEF Handle, CreateConnection, OfferReceived, AnswerReceived, RemoveConnection, Reset
  <1>2. /\ act.pc = "select" /\ r \in Queued /\ id \in Ids /\ TypeInv /\ attached \subseteq Ids
        /\ conn[id] \in Entries
    BY <1>1, ReceiveLeaves, RequestAssumption DEF KindsInv, CallsInv, TypeInv, TypeOK
  <1>3. UNCHANGED <<pipeline, attached, suspect, restart>>
    BY DEF Handle, CreateConnection, OfferReceived, AnswerReceived, RemoveConnection, Reset, Refuse,
       stream, watch
  <1>4. CASE conn' = conn /\ (act' = act \/ act'.pc = "adding")
    <2>1. \A i \in Ids : Mapped(i)' <=> Mapped(i)
      BY <1>4 DEF Mapped
    <2> QED BY <1>2, <1>3, <1>4, <2>1, OwnedTaken
  <1>5. ASSUME NEW e, conn' = [conn EXCEPT ![id] = e], Mapped(id), e.state # "absent", act' = act
        PROVE  OwnedOK'
    <2>1. \A i \in Ids : Mapped(i)' <=> Mapped(i)
      BY <1>2, <1>5 DEF Mapped, TypeInv, TypeOK
    <2> QED BY <1>2, <1>3, <1>5, <2>1, OwnedSame
  <1>6. CASE CreateConnection(r)
    BY <1>4, <1>6 DEF CreateConnection, Refuse, Idle
  <1>7. CASE OfferReceived(r)
    <2>1. TakesOffer(conn[id]) => Mapped(id)
      BY DEF TakesOffer, Mapped
    <2>2. AwaitingAnswer(conn[id], r).state # "absent"
      BY <1>2 DEF AwaitingAnswer, Entries
    <2> QED BY <1>2, <1>3, <1>4, <1>5, <1>7, <2>1, <2>2, OwnedTerminate DEF OfferReceived, Refuse
  <1>8. CASE AnswerReceived(r)
    <2>1. conn[id].state = "awaiting_answer" => Mapped(id)
      BY DEF Mapped
    <2>2. Established(conn[id]).state # "absent"
      BY <1>2 DEF Established, Entries
    <2> QED BY <1>2, <1>3, <1>4, <1>5, <1>8, <2>1, <2>2, OwnedTerminate DEF AnswerReceived, Refuse
  <1>9. CASE RemoveConnection(r)
    BY <1>2, <1>3, <1>4, <1>9, OwnedTerminate DEF RemoveConnection, Refuse
  <1>10. CASE Reset(r)
    <2>1. pipeline = "none"
      BY <1>2, <1>10, PendingResets DEF Reset, ResetsOK, QueuedReset
    <2>2. attached = {} /\ ~Running' /\ act'.pc = "select"
      BY <1>2, <1>3, <1>10, <2>1 DEF OwnedOK, Running, Reset
    <2> QED BY <1>3, <2>1, <2>2 DEF OwnedOK
  <1> QED BY <1>6, <1>7, <1>8, <1>9, <1>10 DEF Handle

\* An await ends in which a branch may go, and its connection may come back.
LEMMA OwnedReturns ==
    ASSUME KindsInv, OwnedOK, act.pc \in {"undoing", "deleting", "detaching"},
           NEW id \in Ids, act.id = id,
           NEW ok \in BOOLEAN, RemoveBranch(ok), act'.id \notin Ids, act'.pc \in {"select", "sweeping"},
           \/ /\ restart' = restart
              /\ \A i \in Ids \ {id} : Mapped(i)' <=> Mapped(i)
              /\ ~Mapped(id)' \/ (act.pc = "deleting" /\ ~ok)
           \/ restart' /\ \A i \in Ids : ~Mapped(i)'
    PROVE  OwnedOK'
  <1>1. /\ attached' \subseteq attached /\ pipeline' = pipeline /\ Running' = Running
        /\ attached \subseteq Ids /\ suspect \subseteq suspect'
        /\ \A i \in attached : i # id => i \in attached'
        /\ id \in attached' => id \in suspect'
        /\ ~ok => id \in suspect'
    BY DEF RemoveBranch, Running, KindsInv, TypeInv, TypeOK
  <1>2. \A i \in attached' :
           Mapped(i)' \/ i \in suspect' \/ restart' \/ pipeline = "quitting"
    <2> SUFFICES ASSUME NEW i \in attached', i # id, restart' = restart,
                        \A j \in Ids \ {id} : Mapped(j)' <=> Mapped(j)
                 PROVE  Mapped(i)' \/ i \in suspect' \/ restart' \/ pipeline = "quitting"
      BY <1>1
    <2> QED BY <1>1 DEF OwnedOK, InHands
  <1>3. Running => \A i \in Ids : Mapped(i)' => i \in attached' \cup suspect'
    <2> SUFFICES ASSUME Running, NEW i \in Ids, Mapped(i)' PROVE i \in attached' \cup suspect'
      OBVIOUS
    <2>1. CASE i = id
      BY <1>1, <2>1
    <2>2. CASE i # id
      BY <1>1, <2>2 DEF OwnedOK
    <2> QED BY <2>1, <2>2
  <1> QED BY <1>1, <1>2, <1>3 DEF OwnedOK

LEMMA AwaitOwned ==
    ASSUME KindsInv, OwnedOK, Await
    PROVE  OwnedOK'
  <1>0. act.id \in Ids
    BY DEF Await, BranchAdded, BranchRefused, AttachFails, AttachUndone, Deleted, DeleteFailed,
       Detached, KindsInv, TypeInv, ActorOK
  <1> PICK id \in Ids : act.id = id
    BY <1>0
  <1>1. TypeInv /\ attached \subseteq Ids /\ suspect \subseteq Ids
    BY DEF KindsInv, TypeInv, TypeOK
  <1>2. \A rest : Resume(rest).id = NoId /\ Idle.id = NoId
    BY DEF Resume, Idle
  <1>3. NoId \notin Ids
    BY RequestAssumption
  <1>4. CASE BranchAdded
    <2>1. /\ pipeline \in {"ready", "quitting"} /\ id \in Ids /\ act.pc = "adding"
          /\ UNCHANGED <<pipeline, suspect, restart>> /\ act' = Idle
          /\ attached' = attached \cup {id} /\ conn' = [conn EXCEPT ![id] = AwaitingOffer(act.req)]
      BY <1>1, <1>4 DEF BranchAdded, TypeInv, ActorOK, watch
    <2>2. \A i \in Ids : Mapped(i)' <=> i = id \/ Mapped(i)
      BY <1>1, <2>1 DEF AwaitingOffer, Mapped, TypeInv, TypeOK
    <2>3. Running' = Running /\ act'.pc = "select"
      BY <2>1, AbsentEntry DEF Running
    <2>4. \A i \in attached' : Mapped(i)' \/ i \in suspect' \/ restart' \/ pipeline' = "quitting"
      BY <1>1, <2>1, <2>2 DEF OwnedOK, InHands
    <2> QED BY <2>1, <2>2, <2>3, <2>4 DEF OwnedOK
  <1>5. CASE BranchRefused
    <2>1. UNCHANGED <<pipeline, attached, suspect, restart, conn>> /\ act' = Idle /\ act.pc = "adding"
      BY <1>5 DEF BranchRefused, stream, watch
    <2>2. \A i \in Ids : Mapped(i)' <=> Mapped(i)
      BY <2>1 DEF Mapped
    <2> QED BY <1>1, <2>1, <2>2, OwnedTaken, AbsentEntry
  <1>6. CASE AttachFails
    <2>1. /\ pipeline \in {"ready", "quitting"} /\ act.pc = "adding" /\ id \in Ids
          /\ UNCHANGED <<pipeline, suspect, restart, conn>>
          /\ act'.pc = "undoing" /\ act'.id = id /\ attached' = attached \cup {id}
      BY <1>1, <1>6 DEF AttachFails, TypeInv, TypeOK, Acts, ActorOK, watch
    <2>2. /\ \A i \in Ids : Mapped(i)' <=> Mapped(i)
          /\ Running' = Running /\ InHands(id)'
      BY <2>1 DEF Mapped, Running, InHands
    <2>3. \A i \in attached' : Mapped(i)' \/ InHands(i)' \/ i \in suspect' \/ restart'
                               \/ pipeline' = "quitting"
      BY <1>1, <2>1, <2>2 DEF OwnedOK, InHands
    <2> QED BY <2>1, <2>2, <2>3 DEF OwnedOK
  <1>7. CASE AttachUndone \/ Deleted
    <2>1. PICK ok \in BOOLEAN : RemoveBranch(ok)
      BY <1>7 DEF AttachUndone, Deleted
    <2>2. /\ act.pc \in {"undoing", "deleting"} /\ restart' = restart /\ conn' = conn /\ act' = Idle
          /\ ~Mapped(id)
      BY <1>7 DEF AttachUndone, Deleted, watch, KindsInv, CallsInv, HandsOK
    <2>3. ~Mapped(id)' /\ \A i \in Ids : Mapped(i)' <=> Mapped(i)
      BY <2>2 DEF Mapped
    <2> QED BY <1>2, <1>3, <2>1, <2>2, <2>3, OwnedReturns, AbsentEntry
  <1>8. CASE DeleteFailed
    <2>1. /\ act.pc = "deleting" /\ restart' = restart /\ act' = Idle /\ RemoveBranch(FALSE)
          /\ conn' = [conn EXCEPT ![id] = act.entry]
      BY <1>8 DEF DeleteFailed, watch
    <2>2. \A i \in Ids \ {id} : Mapped(i)' <=> Mapped(i)
      BY <1>1, <2>1 DEF Mapped, TypeInv, TypeOK
    <2> QED BY <1>2, <1>3, <2>1, <2>2, OwnedReturns, AbsentEntry
  <1>9. CASE Detached
    <2>1. PICK ok \in BOOLEAN : RemoveBranch(ok)
      BY <1>9 DEF Detached
    <2>2. act.pc = "detaching" /\ act' = Resume(act.rest) /\ FeedWatchdog(act.reason) /\ ~Mapped(id)
      BY <1>9 DEF Detached, OwnedOK
    <2>3. act'.id \notin Ids /\ act'.pc \in {"select", "sweeping"}
      BY <1>2, <1>3, <2>2, AbsentEntry
    <2>4. CASE conn' = conn /\ restart' = restart
      <3>1. ~Mapped(id)' /\ \A i \in Ids : Mapped(i)' <=> Mapped(i)
        BY <2>2, <2>4 DEF Mapped
      <3> QED BY <2>1, <2>2, <2>3, <2>4, <3>1, OwnedReturns
    <2>5. CASE restart' = TRUE /\ \A i \in Ids : conn'[i] = Absent
      <3>1. \A i \in Ids : ~Mapped(i)'
        BY <2>5, AbsentEntry DEF Mapped
      <3> QED BY <2>1, <2>2, <2>3, <2>5, <3>1, OwnedReturns
    <2> QED BY <2>2, <2>4, <2>5 DEF FeedWatchdog, ResetAll
  <1> QED BY <1>4, <1>5, <1>6, <1>7, <1>8, <1>9 DEF Await

LEMMA NextOwned ==
    ASSUME KindsInv, ResetsOK, OwnedOK, RunsOK, ~ResetMayTimeOut, [Next]_vars
    PROVE  OwnedOK'
  <1>1. TypeInv /\ attached \subseteq Ids /\ (act.pc = "detaching" => act.id \in Ids)
    BY DEF KindsInv, TypeInv, TypeOK, ActorOK
  <1>2. CASE \E r \in Requests : Handle(r)
    BY <1>2, HandleOwned
  <1>3. CASE ReapBranch
    <2>1. Head(reports) \in Ids /\ act.pc = "select"
      BY <1>1, <1>3, QueueType DEF ReapBranch, TypeInv, TypeOK
    <2>2. UNCHANGED <<pipeline, attached, suspect, restart>>
      BY <1>3 DEF ReapBranch, watch
    <2>3. CASE UNCHANGED <<conn, act>>
      <3>1. \A i \in Ids : Mapped(i)' <=> Mapped(i)
        BY <2>3 DEF Mapped
      <3> QED BY <1>1, <2>2, <2>3, <3>1, OwnedSame
    <2> QED BY <1>1, <1>3, <2>1, <2>2, <2>3, OwnedTerminate DEF ReapBranch
  <1>4. CASE Sweep \/ SweepNext
    <2>1. UNCHANGED <<pipeline, attached, suspect, restart>> /\ act.pc \in {"select", "sweeping"}
      BY <1>4 DEF Sweep, SweepNext, stream, watch
    <2>2. CASE conn' = conn /\ act'.pc \in {"select", "sweeping"}
      <3>1. \A i \in Ids : Mapped(i)' <=> Mapped(i)
        BY <2>2 DEF Mapped
      <3> QED BY <1>1, <2>1, <2>2, <3>1, OwnedTaken
    <2>3. CASE Sweep
      BY <2>2, <2>3 DEF Sweep, Idle
    <2>4. CASE SweepNext
      <3>1. PICK id \in act.rest :
              \/ Mapped(id) /\ Terminate(id, "Expired", NoRequest, {}, act.rest \ {id})
              \/ act' = Resume(act.rest \ {id}) /\ conn' = conn
        BY <2>4 DEF SweepNext
      <3>2. id \in Ids
        BY <1>1 DEF TypeInv, TypeOK, Acts
      <3> QED BY <1>1, <2>1, <2>2, <3>1, <3>2, OwnedTerminate, AbsentEntry
    <2> QED BY <1>4, <2>3, <2>4
  <1>5. CASE Await
    BY <1>5, AwaitOwned
  <1>6. CASE Callers \/ Clock \/ UNCHANGED vars \/ \E id \in Ids : BranchFails(id)
    <2>1. UNCHANGED <<pipeline, attached, suspect, restart, act>>
      BY <1>6 DEF Callers, Call, Vanish, Clock, WindowPasses, DeadlinePasses, BranchFails, vars,
         stream, watch
    <2>2. \A i \in Ids : conn'[i].state = conn[i].state
      <3>1. CASE \E id \in Ids : DeadlinePasses(id)
        BY <1>1, <3>1 DEF DeadlinePasses, TypeInv, TypeOK, Entries
      <3> QED BY <1>6, <3>1 DEF Callers, Call, Vanish, Clock, WindowPasses, BranchFails, vars
    <2> QED BY <1>1, <2>1, <2>2, OwnedSame DEF Mapped
  <1>7. CASE Supervisor /\ ~\E id \in Ids : BranchFails(id)
    <2>1. conn' = conn /\ act' = act /\ \A i : (Mapped(i)' <=> Mapped(i)) /\ (InHands(i)' <=> InHands(i))
      BY <1>7 DEF Supervisor, PipelineInits, InitFails, PipelineStarts, InputReady, PipelineMoves,
             TakeRestart, PipelineStops, SendReset, ResetTimesOut, Mapped, InHands
    <2>2. CASE PipelineInits
      <3>1. pipeline = "none" /\ ~ResetPending /\ attached' = attached
        BY <2>2 DEF PipelineInits, ResetPending
      <3>2. attached = {} /\ \A id \in Ids : ~Mapped(id) /\ act.pc # "deleting"
        BY <3>1 DEF OwnedOK, RunsOK
      <3> QED BY <2>1, <3>1, <3>2 DEF OwnedOK, RunsOK
    <2>3. CASE PipelineStops \/ \E r \in Requests : SendReset(r)
      <3>1. attached' = {} /\ ~Running'
        BY <2>3 DEF PipelineStops, SendReset, Running, OwnedOK
      <3> QED BY <2>1, <3>1 DEF OwnedOK
    <2>4. CASE InitFails \/ PipelineStarts \/ InputReady \/ TakeRestart
      <3>1. /\ attached' = attached /\ suspect' = suspect /\ (Running' => Running)
            /\ pipeline \in {"ready", "quitting"} => pipeline' \in {"ready", "quitting"}
            /\ pipeline' = "quitting" \/ (restart' = restart /\ pipeline # "quitting")
        BY <2>4 DEF InitFails, PipelineStarts, InputReady, PipelineMoves, TakeRestart, Running, watch
      <3> QED BY <2>1, <3>1 DEF OwnedOK
    <2> QED BY <1>7, <2>2, <2>3, <2>4 DEF Supervisor, ResetTimesOut
  <1> QED BY <1>2, <1>3, <1>4, <1>5, <1>6, <1>7 DEF Next, Actor

(***************************************************************************)
(* Branches and connections go together: a branch in a running pipeline    *)
(* has its connection, is in the actor's hands, was reported as not torn   *)
(* down or dies with the run; and a connection has its branch, unless a    *)
(* teardown failed half-way.  No id is lost between the two maps, which no *)
(* lock and no transaction holds together.  Needed as above: the resets    *)
(* are waited for.                                                         *)
(***************************************************************************)
THEOREM BranchesMatch == ~ResetMayTimeOut => (Spec => []BranchesMatchConnections)
  <1> SUFFICES ASSUME ~ResetMayTimeOut PROVE Spec => []BranchesMatchConnections
    OBVIOUS
  <1>1. Init => KindsInv /\ RunsOK /\ ResetsOK /\ OwnedOK
    <2>1. ASSUME Init PROVE RunsOK /\ ResetsOK /\ OwnedOK
      <3>1. /\ pipeline = "none" /\ act.pc = "select" /\ \A id \in Ids : ~Mapped(id)
            /\ attached = {} /\ gone = {}
        BY <2>1, AbsentEntry DEF Init, Mapped
      <3> QED BY <3>1 DEF RunsOK, ResetsOK, OwnedOK, Running
    <2> QED BY <2>1, InitKinds
  <1>2. KindsInv /\ [Next]_vars => KindsInv'
    BY NextKinds
  <1>3. KindsInv /\ KindsInv' /\ RunsOK /\ ResetsOK /\ OwnedOK /\ [Next]_vars =>
            (RunsOK /\ ResetsOK /\ OwnedOK)'
    BY NextRuns, NextResets, NextOwned
  <1>4. KindsInv /\ OwnedOK => BranchesMatchConnections
    <2> SUFFICES ASSUME KindsInv, OwnedOK PROVE BranchesMatchConnections
      OBVIOUS
    <2>1. BranchesAreOwned
      BY DEF OwnedOK, BranchesAreOwned, InHands
    <2>2. \A id \in Ids : Running /\ Mapped(id) => id \in attached \cup suspect
      BY DEF OwnedOK
    <2> QED BY <2>1, <2>2 DEF BranchesMatchConnections
  <1> QED BY <1>1, <1>2, <1>3, <1>4, PTL DEF Spec

-----------------------------------------------------------------------------
(***************************************************************************)
(* The refinement of BranchCycle, for each viewer.  It needs no more than  *)
(* that branches are there only while the pipeline plays, that between     *)
(* handlers the actor is at no viewer, and that what it detaches has lost  *)
(* its connection.  It holds with and without resets that are cut short.   *)
(***************************************************************************)
PlacesOK ==
    /\ attached # {} => pipeline \in {"ready", "quitting"}
    /\ act.pc \in {"select", "sweeping"} => act.id = NoId
    /\ act.pc = "detaching" => ~Mapped(act.id)

PlacesInv == KindsInv /\ PlacesOK

BranchStep(id) == Branch(id)!Next \/ UNCHANGED Branch(id)!vars

UpNow == pipeline \in {"ready", "quitting"}
KnownFor(id) == Mapped(id) \/ (act.pc = "deleting" /\ act.id = id)

\* The cycle goes on when something in it changes...
LEMMA BranchStutters ==
    ASSUME NEW id \in Ids, UpNow' = UpNow, DoingFor(id)' = DoingFor(id),
           (id \in attached)' = (id \in attached), (id \in suspect)' = (id \in suspect),
           KnownFor(id)' = KnownFor(id)
    PROVE  BranchStep(id)
  BY DEF BranchStep, Branch!vars, UpNow, KnownFor

\* ...and a connection may go without a word.
LEMMA BranchDrops ==
    ASSUME NEW id \in Ids, UNCHANGED <<pipeline, suspect>>, DoingFor(id)' = DoingFor(id),
           (id \in attached)' = (id \in attached), KnownFor(id)' => KnownFor(id)
    PROVE  BranchStep(id)
  <1>1. UpNow' = UpNow /\ (id \in suspect)' = (id \in suspect)
    BY DEF UpNow
  <1>2. CASE KnownFor(id)' = KnownFor(id)
    BY <1>1, <1>2, BranchStutters
  <1>3. CASE KnownFor(id)' = FALSE
    <2>1. Branch(id)!Dropped
      BY <1>1, <1>3 DEF Branch!Dropped, UpNow, KnownFor
    <2> QED BY <2>1 DEF BranchStep, Branch!Next
  <1>4. KnownFor(id) \in BOOLEAN /\ KnownFor(id)' \in BOOLEAN
    BY DEF KnownFor, Mapped
  <1> QED BY <1>2, <1>3, <1>4

\* A step that is for no viewer: connections may go, nothing else does.
LEMMA NoBranchSteps ==
    ASSUME PlacesInv, UNCHANGED <<pipeline, attached, suspect>>,
           act.pc \in {"select", "sweeping"}, act'.pc \in {"select", "sweeping"}, act'.id = NoId,
           \A id \in Ids : Mapped(id)' => Mapped(id)
    PROVE  PlacesOK' /\ \A id \in Ids : BranchStep(id)
  <1>1. act.id = NoId /\ NoId \notin Ids
    BY RequestAssumption DEF PlacesInv, PlacesOK
  <1>2. PlacesOK'
    BY DEF PlacesInv, PlacesOK
  <1>3. ASSUME NEW id \in Ids PROVE BranchStep(id)
    <2>1. DoingFor(id) = "nothing" /\ DoingFor(id)' = "nothing"
      BY <1>1 DEF DoingFor
    <2>2. KnownFor(id)' => KnownFor(id)
      BY DEF KnownFor
    <2> QED BY <2>1, <2>2, BranchDrops
  <1> QED BY <1>2, <1>3

\* terminate() begins a detach of what the actor knows.
LEMMA TerminateBranch ==
    ASSUME PlacesInv, UNCHANGED <<pipeline, attached, suspect>>, act.pc \in {"select", "sweeping"},
           NEW id \in Ids, Mapped(id),
           NEW reason, NEW req, NEW told, NEW rest, Terminate(id, reason, req, told, rest)
    PROVE  PlacesOK' /\ \A j \in Ids : BranchStep(j)
  <1>1. act.id = NoId /\ NoId \notin Ids /\ act'.id = id /\ act'.pc \in {"deleting", "detaching"}
    BY RequestAssumption DEF PlacesInv, PlacesOK, Terminate
  <1>2. /\ \A j \in Ids \ {id} : Mapped(j)' = Mapped(j)
        /\ ~Mapped(id)'
    BY AbsentEntry DEF Terminate, Mapped, PlacesInv, KindsInv, TypeInv, TypeOK
  <1>3. PlacesOK'
    BY <1>1, <1>2 DEF PlacesInv, PlacesOK
  <1>4. ASSUME NEW j \in Ids \ {id} PROVE BranchStep(j)
    <2>1. DoingFor(j) = "nothing" /\ DoingFor(j)' = "nothing" /\ (KnownFor(j)' => KnownFor(j))
      BY <1>1, <1>2 DEF DoingFor, KnownFor
    <2> QED BY <2>1, BranchDrops
  <1>5. BranchStep(id)
    <2>1. DoingFor(id) = "nothing" /\ DoingFor(id)' = "detaching"
      BY <1>1 DEF DoingFor
    <2>2. KnownFor(id) = TRUE /\ KnownFor(id)' \in {KnownFor(id), FALSE}
      BY <1>1, <1>2 DEF KnownFor
    <2>3. Branch(id)!Detaches
      BY <2>1, <2>2 DEF Branch!Detaches, KnownFor
    <2> QED BY <2>3 DEF BranchStep, Branch!Next
  <1> QED BY <1>3, <1>4, <1>5

LEMMA HandleBranch ==
    ASSUME PlacesInv, NEW r \in Requests, Handle(r)
    PROVE  PlacesOK' /\ \A j \in Ids : BranchStep(j)
  <1> DEFINE id == Target[r]
  <1>1. /\ act.pc = "select" /\ act.id = NoId /\ id \in Ids /\ conn[id] \in Entries
        /\ UNCHANGED <<pipeline, attached, suspect>>
    BY RequestAssumption
       DEF Handle, CreateConnection, OfferReceived, AnswerReceived, RemoveConnection, Reset, Receive,
           stream, PlacesInv, PlacesOK, KindsInv, TypeInv, TypeOK
  <1>2. CASE UNCHANGED <<conn, act>>
    BY <1>1, <1>2, NoBranchSteps DEF Mapped
  <1>3. ASSUME NEW e, e.state # "absent", conn' = [conn EXCEPT ![id] = e], Mapped(id), act' = act
        PROVE  PlacesOK' /\ \A j \in Ids : BranchStep(j)
    <2>1. \A j \in Ids : Mapped(j)' => Mapped(j)
      BY <1>1, <1>3 DEF Mapped, PlacesInv, KindsInv, TypeInv, TypeOK
    <2> QED BY <1>1, <1>3, <2>1, NoBranchSteps
  <1>4. ASSUME ~Mapped(id), act' = [Idle EXCEPT !.pc = "adding", !.req = r, !.id = id], conn' = conn
        PROVE  PlacesOK' /\ \A j \in Ids : BranchStep(j)
    <2>1. act'.pc = "adding" /\ act'.id = id /\ NoId \notin Ids /\ \A j \in Ids : Mapped(j)' = Mapped(j)
      BY <1>4, RequestAssumption DEF Idle, Mapped
    <2>2. PlacesOK'
      BY <1>1, <2>1 DEF PlacesInv, PlacesOK
    <2>3. ASSUME NEW j \in Ids \ {id} PROVE BranchStep(j)
      <3>1. DoingFor(j) = "nothing" /\ DoingFor(j)' = "nothing" /\ (KnownFor(j)' => KnownFor(j))
        BY <1>1, <2>1 DEF DoingFor, KnownFor
      <3> QED BY <1>1, <3>1, BranchDrops
    <2>4. BranchStep(id)
      <3>1. /\ DoingFor(id) = "nothing" /\ DoingFor(id)' = "asked"
            /\ KnownFor(id) = FALSE /\ KnownFor(id)' = FALSE
        BY <1>1, <1>4, <2>1 DEF DoingFor, KnownFor
      <3>2. Branch(id)!Ask
        BY <1>1, <3>1 DEF Branch!Ask, KnownFor
      <3> QED BY <3>2 DEF BranchStep, Branch!Next
    <2> QED BY <2>2, <2>3, <2>4
  <1>5. CASE CreateConnection(r)
    BY <1>2, <1>4, <1>5 DEF CreateConnection, Refuse
  <1>6. CASE OfferReceived(r)
    <2>1. TakesOffer(conn[id]) => Mapped(id)
      BY DEF TakesOffer, Mapped
    <2>2. AwaitingAnswer(conn[id], r).state # "absent"
      BY <1>1 DEF AwaitingAnswer, Entries
    <2> QED BY <1>1, <1>2, <1>3, <1>6, <2>1, <2>2, TerminateBranch DEF OfferReceived, Refuse
  <1>7. CASE AnswerReceived(r)
    <2>1. conn[id].state = "awaiting_answer" => Mapped(id)
      BY DEF Mapped
    <2>2. Established(conn[id]).state # "absent"
      BY <1>1 DEF Established, Entries
    <2> QED BY <1>1, <1>2, <1>3, <1>7, <2>1, <2>2, TerminateBranch DEF AnswerReceived, Refuse
  <1>8. CASE RemoveConnection(r)
    BY <1>1, <1>2, <1>8, TerminateBranch DEF RemoveConnection, Refuse
  <1>9. CASE Reset(r)
    <2>1. act' = act /\ \A j \in Ids : ~Mapped(j)'
      BY <1>9, AbsentEntry DEF Reset, ResetAll, Mapped
    <2> QED BY <1>1, <2>1, NoBranchSteps
  <1> QED BY <1>5, <1>6, <1>7, <1>8, <1>9 DEF Handle

\* A detach ends, well or badly, and the actor goes back to its loop.
LEMMA DetachBranch ==
    ASSUME PlacesInv, act.pc \in {"undoing", "deleting", "detaching"},
           NEW id \in Ids, act.id = id,
           NEW ok \in BOOLEAN, RemoveBranch(ok), act'.id = NoId, act'.pc \in {"select", "sweeping"},
           \A j \in Ids \ {id} : Mapped(j)' => Mapped(j),
           Mapped(id)' <=> (act.pc = "deleting" /\ ~ok)
    PROVE  PlacesOK' /\ \A j \in Ids : BranchStep(j)
  <1>1. /\ attached' \subseteq attached /\ pipeline' = pipeline /\ UpNow' = UpNow
        /\ \A j \in attached : j # id => j \in attached'
        /\ suspect' = IF ok THEN suspect ELSE suspect \cup {id}
        /\ ok => id \notin attached'
    BY DEF RemoveBranch, UpNow, PlacesInv, KindsInv, TypeInv, TypeOK
  <1>2. PlacesOK'
    BY <1>1 DEF PlacesInv, PlacesOK
  <1>3. act'.id \notin Ids
    BY RequestAssumption
  <1>4. ASSUME NEW j \in Ids \ {id} PROVE BranchStep(j)
    <2>1. DoingFor(j) = "nothing" /\ DoingFor(j)' = "nothing" /\ (KnownFor(j)' => KnownFor(j))
      BY <1>3 DEF DoingFor, KnownFor
    <2>2. (j \in attached)' = (j \in attached) /\ (j \in suspect)' = (j \in suspect)
      BY <1>1
    <2>3. CASE KnownFor(j)' = KnownFor(j)
      BY <1>1, <2>1, <2>2, <2>3, BranchStutters
    <2>4. CASE KnownFor(j)' = FALSE
      <3>1. Branch(j)!Dropped
        BY <1>1, <2>1, <2>2, <2>4 DEF Branch!Dropped, UpNow, KnownFor
      <3> QED BY <3>1 DEF BranchStep, Branch!Next
    <2> QED BY <2>1, <2>3, <2>4 DEF KnownFor, Mapped
  <1>5. BranchStep(id)
    <2>1. DoingFor(id) \in {"undoing", "detaching"} /\ DoingFor(id)' = "nothing"
      BY <1>3 DEF DoingFor
    <2>2. KnownFor(id) = (act.pc = "deleting") /\ KnownFor(id)' = (act.pc = "deleting" /\ ~ok)
      BY <1>3 DEF KnownFor, PlacesInv, PlacesOK, KindsInv, CallsInv, HandsOK
    <2>3. CASE ok
      <3>1. (id \in suspect') = (id \in suspect) /\ id \notin attached'
        BY <1>1, <2>3
      <3>2. KnownFor(id)' = FALSE
        BY <2>2, <2>3
      <3>3. Branch(id)!Detached
        BY <1>1, <2>1, <3>1, <3>2 DEF Branch!Detached, UpNow, KnownFor
      <3> QED BY <3>3 DEF BranchStep, Branch!Next
    <2>4. CASE ~ok
      <3>1. id \in suspect' /\ (id \in attached' => id \in attached)
        BY <1>1, <2>4
      <3>2. KnownFor(id)' = KnownFor(id)
        BY <2>2, <2>4
      <3>3. (id \in attached') = (id \in attached) \/ (id \in attached') = FALSE
        BY <3>1
      <3>4. Branch(id)!DetachFails
        BY <1>1, <2>1, <3>1, <3>2, <3>3 DEF Branch!DetachFails, UpNow, KnownFor
      <3> QED BY <3>4 DEF BranchStep, Branch!Next
    <2> QED BY <2>3, <2>4
  <1> QED BY <1>2, <1>4, <1>5

\* The pipeline's answers to what the actor awaits.
LEMMA AwaitBranch ==
    ASSUME PlacesInv, Await
    PROVE  PlacesOK' /\ \A j \in Ids : BranchStep(j)
  <1>0. act.id \in Ids
    BY DEF Await, BranchAdded, BranchRefused, AttachFails, AttachUndone, Deleted, DeleteFailed,
       Detached, PlacesInv, KindsInv, TypeInv, ActorOK
  <1> PICK id \in Ids : act.id = id
    BY <1>0
  <1>1. /\ \A rest : Resume(rest).id = NoId /\ Idle.id = NoId
        /\ NoId \notin Ids
    BY RequestAssumption DEF Resume, Idle
  <1>2. act.pc \in {"adding", "undoing", "deleting", "detaching"} => ~Mapped(id)
    BY DEF PlacesInv, PlacesOK, KindsInv, CallsInv, HandsOK
  <1>3. TypeInv
    BY DEF PlacesInv, KindsInv
  <1>4. ASSUME NEW j \in Ids \ {id}, Mapped(j)' = Mapped(j), UpNow' = UpNow, suspect' = suspect,
               (j \in attached)' = (j \in attached), act'.id = id \/ act'.id = NoId
        PROVE  BranchStep(j)
    <2>1. DoingFor(j) = "nothing" /\ DoingFor(j)' = "nothing" /\ KnownFor(j)' = KnownFor(j)
      BY <1>1, <1>4 DEF DoingFor, KnownFor
    <2> QED BY <1>4, <2>1, BranchStutters
  <1>5. CASE BranchAdded
    <2>1. /\ pipeline \in {"ready", "quitting"} /\ act.pc = "adding" /\ act' = Idle
          /\ UNCHANGED <<pipeline, suspect>> /\ id \notin attached
          /\ attached' = attached \cup {id} /\ conn' = [conn EXCEPT ![id] = AwaitingOffer(act.req)]
      BY <1>5 DEF BranchAdded
    <2>2. Mapped(id)' /\ \A j \in Ids \ {id} : Mapped(j)' = Mapped(j)
      BY <1>3, <2>1 DEF AwaitingOffer, Mapped, TypeInv, TypeOK
    <2>3. PlacesOK'
      BY <1>1, <2>1, AbsentEntry DEF PlacesOK
    <2>4. Branch(id)!Added
      <3>1. /\ DoingFor(id) = "asked" /\ DoingFor(id)' = "nothing" /\ KnownFor(id)' = TRUE
            /\ UpNow /\ UpNow'
        BY <1>1, <2>1, <2>2 DEF DoingFor, KnownFor, UpNow
      <3>2. (id \in attached) = FALSE /\ (id \in attached)' = TRUE
        BY <2>1
      <3>3. (id \in attached) = (DoingFor(id) = "building")
        BY <3>1, <3>2
      <3> QED BY <2>1, <3>1, <3>2, <3>3 DEF Branch!Added, UpNow, KnownFor
    <2>5. BranchStep(id)
      BY <2>4 DEF BranchStep, Branch!Next
    <2> QED BY <1>1, <1>4, <2>1, <2>2, <2>3, <2>5 DEF UpNow
  <1>6. CASE BranchRefused
    <2>1. UNCHANGED <<pipeline, attached, suspect, conn>> /\ act' = Idle /\ act.pc = "adding"
      BY <1>6 DEF BranchRefused, stream
    <2>2. \A j \in Ids : Mapped(j)' = Mapped(j)
      BY <2>1 DEF Mapped
    <2>3. PlacesOK'
      BY <1>1, <2>1, AbsentEntry DEF PlacesInv, PlacesOK
    <2>4. Branch(id)!Refused
      <3>1. /\ DoingFor(id) = "asked" /\ DoingFor(id)' = "nothing"
            /\ KnownFor(id)' = KnownFor(id) /\ UpNow' = UpNow
        BY <1>1, <2>1, <2>2 DEF DoingFor, KnownFor, UpNow
      <3> QED BY <2>1, <3>1 DEF Branch!Refused, UpNow, KnownFor
    <2>5. BranchStep(id)
      BY <2>4 DEF BranchStep, Branch!Next
    <2> QED BY <1>1, <1>4, <2>1, <2>2, <2>3, <2>5 DEF UpNow
  <1>7. CASE AttachFails
    <2>1. /\ pipeline \in {"ready", "quitting"} /\ act.pc = "adding"
          /\ UNCHANGED <<pipeline, suspect, conn>>
          /\ act'.pc = "undoing" /\ act'.id = id /\ attached' = attached \cup {id}
      BY <1>3, <1>7 DEF AttachFails, TypeInv, TypeOK, Acts
    <2>2. \A j \in Ids : Mapped(j)' = Mapped(j)
      BY <2>1 DEF Mapped
    <2>3. PlacesOK'
      BY <2>1 DEF PlacesOK
    <2>4. Branch(id)!AttachFails
      <3>1. /\ DoingFor(id) = "asked" /\ DoingFor(id)' = "undoing"
            /\ KnownFor(id)' = KnownFor(id) /\ UpNow /\ UpNow' /\ (id \in attached)' = TRUE
        BY <2>1, <2>2 DEF DoingFor, KnownFor, UpNow
      <3> QED BY <2>1, <3>1 DEF Branch!AttachFails, UpNow, KnownFor
    <2>5. BranchStep(id)
      BY <2>4 DEF BranchStep, Branch!Next
    <2> QED BY <1>1, <1>4, <2>1, <2>2, <2>3, <2>5 DEF UpNow
  <1>8. CASE AttachUndone \/ Deleted
    <2>1. PICK ok \in BOOLEAN : RemoveBranch(ok) /\ (act.pc = "deleting" => ok)
      BY <1>8 DEF AttachUndone, Deleted
    <2>2. act.pc \in {"undoing", "deleting"} /\ conn' = conn /\ act' = Idle /\ act'.id = NoId
      BY <1>1, <1>8 DEF AttachUndone, Deleted
    <2>3. ~Mapped(id)' /\ \A j \in Ids : Mapped(j)' = Mapped(j)
      BY <1>2, <2>2 DEF Mapped
    <2> QED BY <2>1, <2>2, <2>3, DetachBranch, AbsentEntry
  <1>9. CASE DeleteFailed
    <2>1. /\ act.pc = "deleting" /\ act' = Idle /\ RemoveBranch(FALSE) /\ act'.id = NoId
          /\ conn' = [conn EXCEPT ![id] = act.entry] /\ act.entry.state # "absent"
      BY <1>1, <1>9 DEF DeleteFailed, PlacesInv, KindsInv, CallsInv, HandsOK
    <2>2. Mapped(id)' /\ \A j \in Ids \ {id} : Mapped(j)' = Mapped(j)
      BY <1>3, <2>1 DEF Mapped, TypeInv, TypeOK
    <2> QED BY <2>1, <2>2, DetachBranch, AbsentEntry
  <1>10. CASE Detached
    <2>1. PICK ok \in BOOLEAN : RemoveBranch(ok)
      BY <1>10 DEF Detached
    <2>2. /\ act.pc = "detaching" /\ act' = Resume(act.rest) /\ act'.id = NoId
          /\ FeedWatchdog(act.reason)
      BY <1>1, <1>10 DEF Detached
    <2>3. ~Mapped(id)' /\ \A j \in Ids : Mapped(j)' => Mapped(j)
      <3>1. CASE conn' = conn
        BY <1>2, <2>2, <3>1 DEF Mapped
      <3>2. CASE \A j \in Ids : conn'[j] = Absent
        BY <3>2, AbsentEntry DEF Mapped
      <3> QED BY <2>2, <3>1, <3>2 DEF FeedWatchdog, ResetAll
    <2> QED BY <2>1, <2>2, <2>3, DetachBranch, AbsentEntry
  <1> QED BY <1>5, <1>6, <1>7, <1>8, <1>9, <1>10 DEF Await

\* A step that neither the actor nor the pipeline's life makes.
LEMMA OutsideBranch ==
    ASSUME PlacesInv, UNCHANGED <<attached, suspect, act>>, UpNow' = UpNow,
           attached # {} => pipeline' \in {"ready", "quitting"},
           \A j \in Ids : Mapped(j)' = Mapped(j)
    PROVE  PlacesOK' /\ \A j \in Ids : BranchStep(j)
  <1>1. act.pc = "detaching" => act.id \in Ids
    BY DEF PlacesInv, KindsInv, TypeInv, ActorOK
  <1>2. PlacesOK'
    <2>1. act.pc = "detaching" => ~Mapped(act.id)'
      <3> SUFFICES ASSUME act.pc = "detaching" PROVE ~Mapped(act.id)'
        OBVIOUS
      <3>1. PICK j \in Ids : act.id = j
        BY <1>1
      <3>2. ~Mapped(j)' /\ act'.id = j
        BY <3>1 DEF PlacesInv, PlacesOK
      <3> QED BY <3>2
    <2> QED BY <2>1 DEF PlacesInv, PlacesOK
  <1>3. ASSUME NEW j \in Ids PROVE BranchStep(j)
    <2>1. DoingFor(j)' = DoingFor(j) /\ KnownFor(j)' = KnownFor(j)
      BY DEF DoingFor, KnownFor
    <2> QED BY <2>1, BranchStutters
  <1> QED BY <1>2, <1>3

\* The supervisor and the pipeline.
LEMMA SupervisorBranch ==
    ASSUME PlacesInv, Supervisor
    PROVE  PlacesOK' /\ \A j \in Ids : BranchStep(j)
  <1>1. conn' = conn /\ act' = act /\ \A j : Mapped(j)' = Mapped(j) /\ DoingFor(j)' = DoingFor(j)
                                             /\ KnownFor(j)' = KnownFor(j)
    BY DEF Supervisor, PipelineInits, InitFails, PipelineStarts, InputReady, PipelineMoves,
           TakeRestart, PipelineStops, SendReset, ResetTimesOut, BranchFails, Mapped, DoingFor,
           KnownFor
  <1>2. CASE \/ InitFails \/ PipelineStarts \/ ResetTimesOut
             \/ \E r \in Requests : SendReset(r)
             \/ \E id \in Ids : BranchFails(id)
    <2>1. UNCHANGED <<attached, suspect>> /\ UpNow' = UpNow
      BY <1>2 DEF InitFails, PipelineStarts, PipelineMoves, ResetTimesOut, SendReset, BranchFails,
             UpNow
    <2>2. attached # {} => pipeline' \in {"ready", "quitting"}
      BY <2>1 DEF PlacesInv, PlacesOK, UpNow
    <2> QED BY <1>1, <2>1, <2>2, OutsideBranch
  <1>3. CASE PipelineInits
    <2>1. attached = {} /\ attached' = {} /\ suspect' = {} /\ ~UpNow /\ ~UpNow'
      BY <1>3 DEF PipelineInits, PlacesInv, PlacesOK, UpNow
    <2>2. PlacesOK'
      BY <1>1, <2>1 DEF PlacesInv, PlacesOK, Mapped
    <2>3. ASSUME NEW j \in Ids PROVE BranchStep(j)
      <3>1. Branch(j)!Forget
        BY <1>1, <2>1 DEF Branch!Forget, UpNow, KnownFor
      <3> QED BY <3>1 DEF BranchStep, Branch!Next
    <2> QED BY <2>2, <2>3
  <1>4. CASE InputReady \/ TakeRestart
    <2>1. /\ UNCHANGED <<attached, suspect>> /\ UpNow' /\ pipeline' \in {"ready", "quitting"}
          /\ pipeline \in {"starting", "ready"}
      BY <1>4 DEF InputReady, PipelineMoves, TakeRestart, UpNow
    <2>2. CASE pipeline = "ready"
      <3>1. UpNow' = UpNow
        BY <2>1, <2>2 DEF UpNow
      <3> QED BY <1>1, <2>1, <3>1, OutsideBranch
    <2>3. CASE pipeline = "starting"
      <3>1. ~UpNow /\ attached = {}
        BY <2>3 DEF UpNow, PlacesInv, PlacesOK
      <3>2. PlacesOK'
        BY <1>1, <2>1, <3>1 DEF PlacesInv, PlacesOK, Mapped
      <3>3. ASSUME NEW j \in Ids PROVE BranchStep(j)
        <4>1. Branch(j)!Up
          BY <1>1, <2>1, <3>1 DEF Branch!Up, UpNow, KnownFor
        <4> QED BY <4>1 DEF BranchStep, Branch!Next
      <3> QED BY <3>2, <3>3
    <2> QED BY <2>1, <2>2, <2>3
  <1>5. CASE PipelineStops
    <2>1. attached' = {} /\ suspect' = suspect /\ ~UpNow'
      BY <1>5 DEF PipelineStops, UpNow
    <2>2. PlacesOK'
      BY <1>1, <2>1 DEF PlacesInv, PlacesOK, Mapped
    <2>3. CASE UpNow
      <3>1. ASSUME NEW j \in Ids PROVE BranchStep(j)
        <4>1. DoingFor(j) # "building"
          BY DEF DoingFor, PlacesInv, PlacesOK
        <4>2. Branch(j)!Down
          BY <1>1, <2>1, <2>3, <4>1 DEF Branch!Down, UpNow, KnownFor
        <4> QED BY <4>2 DEF BranchStep, Branch!Next
      <3> QED BY <2>2, <3>1
    <2>4. CASE ~UpNow
      <3>1. attached = {} /\ UpNow' = UpNow
        BY <2>1, <2>4 DEF UpNow, PlacesInv, PlacesOK
      <3> QED BY <1>1, <2>1, <3>1, OutsideBranch
    <2> QED BY <2>3, <2>4
  <1> QED BY <1>2, <1>3, <1>4, <1>5 DEF Supervisor

\* Every step is one of the branch cycle, for every viewer.
LEMMA NextBranch ==
    ASSUME PlacesInv, [Next]_vars
    PROVE  PlacesOK' /\ \A j \in Ids : BranchStep(j)
  <1>1. TypeInv /\ act.pc \in Places
    BY DEF PlacesInv, KindsInv, TypeInv, TypeOK, Acts
  <1>2. CASE ReapBranch
    <2>1. /\ Head(reports) \in Ids /\ act.pc = "select" /\ act.id = NoId
          /\ UNCHANGED <<pipeline, attached, suspect>>
      BY <1>1, <1>2, QueueType DEF ReapBranch, TypeInv, TypeOK, PlacesInv, PlacesOK
    <2>2. CASE UNCHANGED <<conn, act>>
      BY <2>1, <2>2, NoBranchSteps DEF Mapped
    <2> QED BY <1>2, <2>1, <2>2, TerminateBranch DEF ReapBranch
  <1>3. CASE Sweep \/ SweepNext
    <2>1. UNCHANGED <<pipeline, attached, suspect>> /\ act.pc \in {"select", "sweeping"}
      BY <1>3 DEF Sweep, SweepNext, stream
    <2>2. CASE conn' = conn /\ act'.id = NoId /\ act'.pc \in {"select", "sweeping"}
      BY <2>1, <2>2, NoBranchSteps DEF Mapped
    <2>3. CASE Sweep
      BY <2>2, <2>3 DEF Sweep, Idle
    <2>4. CASE SweepNext
      <3>1. PICK id \in act.rest :
              \/ Mapped(id) /\ Terminate(id, "Expired", NoRequest, {}, act.rest \ {id})
              \/ act' = Resume(act.rest \ {id}) /\ conn' = conn
        BY <2>4 DEF SweepNext
      <3>2. id \in Ids
        BY <1>1 DEF TypeInv, TypeOK, Acts
      <3>3. Resume(act.rest \ {id}).id = NoId
        BY DEF Resume, Idle
      <3> QED BY <2>1, <2>2, <3>1, <3>2, <3>3, TerminateBranch, AbsentEntry
    <2> QED BY <1>3, <2>3, <2>4
  <1>4. CASE Callers \/ Clock \/ UNCHANGED vars
    <2>1. UNCHANGED <<pipeline, attached, suspect, act>>
      BY <1>4 DEF Callers, Call, Vanish, Clock, WindowPasses, DeadlinePasses, vars, stream
    <2>2. \A j \in Ids : Mapped(j)' = Mapped(j)
      <3>1. CASE \E id \in Ids : DeadlinePasses(id)
        BY <1>1, <3>1 DEF DeadlinePasses, TypeInv, TypeOK, Entries, Mapped
      <3> QED BY <1>4, <3>1 DEF Callers, Call, Vanish, Clock, WindowPasses, vars, Mapped
    <2>3. UpNow' = UpNow /\ (attached # {} => pipeline' \in {"ready", "quitting"})
      BY <2>1 DEF UpNow, PlacesInv, PlacesOK
    <2> QED BY <2>1, <2>2, <2>3, OutsideBranch
  <1> QED BY <1>2, <1>3, <1>4, HandleBranch, AwaitBranch, SupervisorBranch DEF Next, Actor

\* For the step of the theorem, which is under a prime and a box.
LEMMA BranchSteps ==
    PlacesInv /\ [Next]_vars => PlacesInv' /\ [\A id \in Ids : BranchStep(id)]_vars
  BY NextKinds, NextBranch DEF PlacesInv

LEMMA InitBranch == Init => PlacesInv /\ \A id \in Ids : Branch(id)!Init
  <1> SUFFICES ASSUME Init PROVE PlacesInv /\ \A id \in Ids : Branch(id)!Init
    OBVIOUS
  <1>1. act = Idle /\ Idle.pc = "select" /\ Idle.id = NoId /\ NoId \notin Ids
    BY RequestAssumption DEF Init, Idle
  <1>2. PlacesOK
    BY <1>1 DEF Init, PlacesOK
  <1>3. ASSUME NEW id \in Ids PROVE Branch(id)!Init
    <2>1. DoingFor(id) = "nothing" /\ ~Mapped(id) /\ ~(act.pc = "deleting" /\ act.id = id)
      BY <1>1, AbsentEntry DEF Init, DoingFor, Mapped
    <2> QED BY <2>1 DEF Init, Branch!Init
  <1> QED BY <1>2, <1>3, InitKinds DEF PlacesInv

(***************************************************************************)
(* The actor and the pipeline it takes itself to talk to are in step with  *)
(* BranchCycle for every viewer: it attaches only what it does not have,   *)
(* detaches only what it attached, and a DELETE that fails puts the        *)
(* connection back, whatever runs end, reports are reaped and resets are   *)
(* cut short meanwhile (src/signal/coordinator.rs:447-485, 562-661).  With *)
(* StreamBranchProofs the two sides of the BranchControl trait keep to one *)
(* contract, neither having been checked together with the other.          *)
(***************************************************************************)
THEOREM FollowsTheBranchCycle == Spec => BranchesFollowTheCycle
  <1>1. Init => PlacesInv /\ \A id \in Ids : Branch(id)!Init
    BY InitBranch
  <1>2. PlacesInv /\ [Next]_vars => PlacesInv'
    BY BranchSteps
  <1>3. PlacesInv /\ [Next]_vars =>
           [\A id \in Ids : Branch(id)!Next \/ UNCHANGED Branch(id)!vars]_vars
    BY BranchSteps DEF BranchStep
  <1> QED BY <1>1, <1>2, <1>3, PTL DEF Spec, BranchesFollowTheCycle

-----------------------------------------------------------------------------
(***************************************************************************)
(* What can be proved towards EveryCallIsAnswered: where a call can wait,  *)
(* and that no handler goes on for ever.                                   *)
(***************************************************************************)
Handling == act.pc \in {"adding", "undoing", "deleting"}

Parked(r) ==
    /\ Kind[r] \in {"create", "offer"}
    /\ conn[Target[r]].waiter = r
    /\ conn[Target[r]].state \in {"awaiting_offer", "awaiting_answer"}

(***************************************************************************)
(* A call without an answer is in the mailbox, is the matter of an await   *)
(* that will answer it or put it back, or is a create or an offer parked   *)
(* in its connection, whose handshake has a deadline then.  A DELETE, an   *)
(* answer or a reset never waits for a peer.                               *)
(***************************************************************************)
THEOREM NoCallIsStranded ==
    Spec => [](\A r \in Unanswered : r \in Queued \/ (Handling /\ r \in InHand) \/ Parked(r))
  <1>1. ASSUME KindsInv, NEW r \in Unanswered
        PROVE  r \in Queued \/ (Handling /\ r \in InHand) \/ Parked(r)
    <2>1. r \in Queued \cup InHand \cup Waiters(Ids)
      BY <1>1 DEF KindsInv, CallsInv, EachCallIsHeldOnce
    <2>2. r \in InHand => Handling
      BY <1>1 DEF KindsInv, CallsInv, HandsOK, InHand, Handling
    <2>3. ASSUME r \in Waiters(Ids) PROVE Parked(r)
      <3>1. PICK id \in Ids : conn[id].waiter = r /\ r # NoRequest
        BY <2>3 DEF Waiters
      <3>2. ParkedOK(conn[id], id) /\ Target[r] = id /\ conn[id].state \in States
        BY <1>1, <3>1 DEF KindsInv, KindsOK, CallsInv, EachCallIsHeldOnce, TypeInv, TypeOK, Entries
      <3> QED BY <3>1, <3>2 DEF ParkedOK, Parked, States
    <2> QED BY <2>1, <2>2, <2>3
  <1>2. KindsInv => \A r \in Unanswered : r \in Queued \/ (Handling /\ r \in InHand) \/ Parked(r)
    BY <1>1
  <1> QED BY <1>2, InitKinds, NextKinds, PTL DEF Spec

\* How many awaits a handler can still go through.
AwaitsLeft ==
    CASE act.pc = "select" -> 0
      [] act.pc = "sweeping" -> 1
      [] act.pc \in {"undoing", "deleting", "detaching"} -> 2
      [] act.pc = "adding" -> 3

\* Fewer connections left to sweep, or as many and fewer awaits.
GetsOn == act'.rest \subseteq act.rest /\ (act'.rest # act.rest \/ AwaitsLeft' < AwaitsLeft)

LEMMA HandlerSteps ==
    TypeInv /\ [Next]_vars => [act.pc # "select" /\ act' # act => GetsOn]_vars
  <1> SUFFICES ASSUME TypeInv, [Next]_vars, act.pc # "select", act' # act
               PROVE  GetsOn
    OBVIOUS
  <1>1. act \in Acts /\ act.rest \subseteq Ids
    BY DEF TypeInv, TypeOK, Acts
  <1>2. /\ Idle.rest = {} /\ Idle.pc = "select"
        /\ \A rest : /\ Resume(rest).rest = rest
                     /\ Resume(rest).pc = "select" \/ Resume(rest).pc = "sweeping"
    BY DEF Idle, Resume
  <1>3. ASSUME act.pc \in {"adding", "undoing", "deleting"}, act' = Idle PROVE GetsOn
    BY <1>2, <1>3 DEF GetsOn, AwaitsLeft
  <1>4. CASE BranchAdded \/ BranchRefused \/ AttachUndone \/ Deleted \/ DeleteFailed
    BY <1>3, <1>4 DEF BranchAdded, BranchRefused, AttachUndone, Deleted, DeleteFailed
  <1>5. CASE AttachFails
    <2>1. act.pc = "adding" /\ act'.pc = "undoing" /\ act'.rest = act.rest
      BY <1>1, <1>5 DEF AttachFails, Acts
    <2> QED BY <2>1 DEF GetsOn, AwaitsLeft
  <1>6. CASE Detached
    <2>1. act.pc = "detaching" /\ act' = Resume(act.rest)
      BY <1>6 DEF Detached
    <2>2. act'.rest = act.rest /\ act'.pc \in {"select", "sweeping"}
      BY <1>2, <2>1
    <2> QED BY <2>1, <2>2 DEF GetsOn, AwaitsLeft
  <1>7. CASE SweepNext
    <2>1. PICK id \in act.rest :
            \/ Terminate(id, "Expired", NoRequest, {}, act.rest \ {id})
            \/ act' = Resume(act.rest \ {id})
      BY <1>7 DEF SweepNext
    <2>2. act'.rest = act.rest \ {id}
      BY <1>2, <2>1 DEF Terminate
    <2> QED BY <2>2 DEF GetsOn
  <1>8. CASE (\E r \in Requests : Handle(r)) \/ ReapBranch \/ Sweep
    BY <1>8 DEF Handle, CreateConnection, OfferReceived, AnswerReceived, RemoveConnection, Reset,
       Receive, ReapBranch, Sweep
  <1>9. CASE Callers \/ Clock \/ Supervisor \/ UNCHANGED vars
    BY <1>9 DEF Callers, Call, Vanish, Clock, WindowPasses, DeadlinePasses, Supervisor,
       PipelineInits, InitFails, PipelineStarts, InputReady, PipelineMoves, TakeRestart,
       PipelineStops, SendReset, ResetTimesOut, BranchFails, vars
  <1> QED BY <1>4, <1>5, <1>6, <1>7, <1>8, <1>9 DEF Next, Actor, Await

(***************************************************************************)
(* No handler goes round in circles: a create awaits the pipeline twice at *)
(* most, everything else once for each connection, and a sweep comes to    *)
(* each expired id once, so that the actor is back at its mailbox after    *)
(* finitely many awaits, each of them bounded                              *)
(* (src/signal/coordinator.rs:447-640).                                    *)
(***************************************************************************)
THEOREM HandlersEnd == Spec => [][act.pc # "select" /\ act' # act => GetsOn]_vars
  <1> QED BY InitType, NextType, HandlerSteps, PTL DEF Spec
=============================================================================
