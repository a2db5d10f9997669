------------------------- MODULE CoordinatorProofs -------------------------
(***************************************************************************)
(* What holds of the signaling actor for every number of viewers and calls *)
(* and every capacity and threshold.                                       *)
(***************************************************************************)
EXTENDS Coordinator, TLAPS

(***************************************************************************)
(* What the type invariant needs of the actor's place in its handlers: an  *)
(* await is for a connection, and its caller is still to be answered.      *)
(***************************************************************************)
ActorOK ==
    /\ \A id \in Ids : Mapped(id) => conn[id].whep \in Requests
    /\ act.pc \notin {"select", "sweeping"} => act.id \in Ids
    /\ act.pc \in {"adding", "undoing", "deleting"} => act.req \in Requests
    /\ act.pc \in {"deleting", "detaching"} => act.entry.whep \in Requests

TypeInv == TypeOK /\ ActorOK

\* Replies sent leave every request with an outcome.
LEMMA AnsweredType ==
    ASSUME reply \in [Requests -> Outcomes],
           NEW f, \A r \in DOMAIN f : f[r] \in Outcomes
    PROVE  Answered(f) \in [Requests -> Outcomes]
  BY DEF Answered, Outcomes

\* So do replies that are all alike.
LEMMA ToldType ==
    ASSUME reply \in [Requests -> Outcomes], NEW rs, NEW outcome \in Outcomes
    PROVE  Told(rs, outcome) \in [Requests -> Outcomes]
  BY AnsweredType DEF Told

\* What the policy table tells a waiter is an outcome.
LEMMA PolicyType ==
    ASSUME NEW reason \in Reasons
    PROVE  Policy(reason).notice \in Outcomes
  BY DEF Reasons, Policy, Outcomes, Errors

\* The entries the handlers write are entries, and keep their create.
LEMMA EntryType ==
    ASSUME NEW e \in Entries, NEW r \in Requests, run \in Nat
    PROVE  /\ Absent \in Entries
           /\ AwaitingOffer(r) \in Entries
           /\ AwaitingAnswer(e, r) \in Entries
           /\ Established(e) \in Entries
           /\ [e EXCEPT !.waiter = NoRequest] \in Entries
           /\ AwaitingAnswer(e, r).whep = e.whep
           /\ Established(e).whep = e.whep
  BY DEF Absent, Entries, AwaitingOffer, AwaitingAnswer, Established, States

\* Where a handler leaves the actor: in its loop or within a sweep.
LEMMA ActType ==
    ASSUME NEW rest \in SUBSET Ids
    PROVE  /\ Idle \in Acts
           /\ Resume(rest) \in Acts
           /\ Idle.pc = "select"
           /\ Resume(rest).pc \in {"select", "sweeping"}
  BY DEF Idle, Resume, Acts, Places, Reasons, Absent, Entries, States

\* What terminate() leaves behind, up to its await.
LEMMA TerminateType ==
    ASSUME TypeInv, NEW id \in Ids, Mapped(id), NEW reason \in Reasons,
           NEW req \in Requests \cup {NoRequest}, NEW told, NEW rest \in SUBSET Ids,
           Policy(reason).teardown = "Required" => req \in Requests,
           Terminate(id, reason, req, told, rest)
    PROVE  /\ conn' \in [Ids -> Entries] /\ act' \in Acts
           /\ reply' \in [Requests -> Outcomes] /\ ActorOK'
  <1>1. conn' \in [Ids -> Entries]
    BY EntryType DEF Terminate, TypeInv, TypeOK, Absent, Entries, States
  <1>2. act' \in Acts
    <2>1. conn[id] \in Entries /\ [conn[id] EXCEPT !.waiter = NoRequest] \in Entries
      BY DEF TypeInv, TypeOK, Entries
    <2> QED
      BY <2>1 DEF Terminate, Acts, Places
  <1>3. reply' \in [Requests -> Outcomes]
    BY ToldType, PolicyType DEF Terminate, TypeInv, TypeOK
  <1>4. ActorOK'
    BY DEF Terminate, TypeInv, TypeOK, ActorOK, Mapped, Absent, Entries
  <1> QED BY <1>1, <1>2, <1>3, <1>4

\* A failed or finished teardown keeps the branches' types.
LEMMA RemoveBranchType ==
    ASSUME TypeInv, act.id \in Ids, NEW ok \in BOOLEAN, RemoveBranch(ok)
    PROVE  /\ attached' \subseteq Ids /\ broken' \subseteq attached' /\ suspect' \subseteq Ids
           /\ UNCHANGED <<pipeline, run, reports>>
  BY DEF RemoveBranch, TypeInv, TypeOK

\* A reset of the whole map keeps the types.
LEMMA ResetAllType ==
    ASSUME TypeInv, NEW answers, \A r \in DOMAIN answers : answers[r] \in Outcomes,
           ResetAll(answers)
    PROVE  /\ conn' \in [Ids -> Entries] /\ reply' \in [Requests -> Outcomes]
           /\ \A id \in Ids : conn'[id].state = "absent"
  <1> DEFINE f == [r \in Waiters(Ids) \cup DOMAIN answers |->
                      IF r \in Waiters(Ids) THEN Policy("Reset").notice ELSE answers[r]]
  <1>1. "Reset" \in Reasons
    BY DEF Reasons
  <1>2. \A r \in DOMAIN f : f[r] \in Outcomes
    BY <1>1, PolicyType
  <1>3. reply \in [Requests -> Outcomes]
    BY DEF TypeInv, TypeOK
  <1>4. Answered(f) \in [Requests -> Outcomes]
    <2> HIDE DEF f
    <2> QED BY <1>2, <1>3, AnsweredType
  <1>5. Absent \in Entries /\ Absent.state = "absent"
    BY DEF Absent, Entries, States
  <1> QED BY <1>4, <1>5 DEF ResetAll

\* The watchdog's three operations keep its type.
LEMMA CountType ==
    ASSUME NEW d \in Counts
    PROVE  Clean \in Counts /\ Failed(d) \in Counts /\ Aged(d) \in Counts
  <1>1. Clean \in Counts /\ Aged(d) \in Counts
    BY DEF Counts, Clean, Aged
  <1>2. Counted(d) \in Nat
    BY DEF Counts, Counted
  <1> QED BY <1>1, <1>2 DEF Counts, Failed

\* The mailbox after its head was taken, and after one more command.
LEMMA QueueType ==
    ASSUME NEW S, NEW q \in Seq(S)
    PROVE  /\ q # << >> => /\ Head(q) \in S /\ Tail(q) \in Seq(S)
                           /\ Len(Tail(q)) = Len(q) - 1
           /\ \A x \in S : Append(q, x) \in Seq(S) /\ Len(Append(q, x)) = Len(q) + 1
  OBVIOUS

\* The initial state has the types.
LEMMA InitType == Init => TypeInv
  <1> SUFFICES ASSUME Init PROVE TypeInv
    OBVIOUS
  <1>1. Absent \in Entries /\ Absent.state = "absent"
    BY DEF Absent, Entries, States
  <1>2. Idle \in Acts /\ Idle.pc = "select"
    BY <1>1 DEF Idle, Acts, Places, Reasons
  <1>3. Clean \in Counts
    BY DEF Clean, Counts
  <1>4. reply \in [Requests -> Outcomes]
    BY DEF Init, Outcomes
  <1>5. TypeOK
    <2>1. /\ mailbox \in Seq(Requests) /\ Len(mailbox) <= MailboxCap
          /\ reports \in Seq(Ids) /\ Len(reports) <= FailureCap
      BY RequestAssumption DEF Init
    <2>2. conn \in [Ids -> Entries] /\ sdp \in [Requests -> Requests \cup {NoRequest}]
      BY <1>1 DEF Init
    <2>3. pipeline \in Pipelines /\ run \in Nat /\ tripRun \in Nat /\ restart \in BOOLEAN
      BY DEF Init, Pipelines
    <2> QED BY <1>2, <1>3, <1>4, <2>1, <2>2, <2>3 DEF Init, TypeOK, Acts
  <1>6. ActorOK
    BY <1>1, <1>2 DEF Init, ActorOK, Mapped
  <1> QED BY <1>5, <1>6 DEF TypeInv

\* Taking a command leaves a mailbox within its capacity.
LEMMA ReceiveType ==
    ASSUME TypeInv, NEW r \in Requests, Receive(r)
    PROVE  /\ mailbox' \in Seq(Requests) /\ Len(mailbox') <= MailboxCap
           /\ act.pc = "select"
  BY QueueType, RequestAssumption DEF TypeInv, TypeOK, Receive

\* A handler that refuses its call keeps the types.
LEMMA RefuseType ==
    ASSUME TypeInv, NEW r \in Requests, NEW error \in Outcomes, Refuse(r, error)
    PROVE  /\ reply' \in [Requests -> Outcomes]
           /\ UNCHANGED <<conn, act, sdp, watch>>
  BY ToldType DEF TypeInv, TypeOK, Refuse

\* The parts of the state that a handler leaves alone keep their types.
LEMMA FrameType ==
    ASSUME TypeInv, UNCHANGED <<clients, stream>>,
           mailbox' \in Seq(Requests) /\ Len(mailbox') <= MailboxCap,
           conn' \in [Ids -> Entries], act' \in Acts, reply' \in [Requests -> Outcomes],
           sdp' \in [Requests -> Requests \cup {NoRequest}],
           dog' \in Counts, UNCHANGED <<restart, tripRun>>, failed' \subseteq Requests
    PROVE  TypeOK'
  BY DEF TypeInv, TypeOK, clients, stream

\* create_connection, up to its await, keeps the types.
LEMMA CreateType ==
    ASSUME TypeInv, NEW r \in Requests, CreateConnection(r)
    PROVE  TypeInv'
  <1>1. mailbox' \in Seq(Requests) /\ Len(mailbox') <= MailboxCap
    BY ReceiveType DEF CreateConnection
  <1>2. Target[r] \in Ids
    BY RequestAssumption
  <1>3. CASE Mapped(Target[r]) /\ Refuse(r, "WrongState")
    <2>1. "WrongState" \in Outcomes
      BY DEF Outcomes, Errors
    <2>2. reply' \in [Requests -> Outcomes] /\ UNCHANGED <<conn, act, sdp, watch>>
      BY <1>3, <2>1, RefuseType
    <2>3. TypeOK'
      BY <1>1, <2>2, FrameType DEF CreateConnection, TypeInv, TypeOK, watch
    <2>4. ActorOK'
      BY <2>2 DEF TypeInv, ActorOK, Mapped
    <2> QED BY <2>3, <2>4 DEF TypeInv
  <1>4. CASE /\ ~Mapped(Target[r])
             /\ act' = [Idle EXCEPT !.pc = "adding", !.req = r, !.id = Target[r]]
             /\ UNCHANGED <<conn, replies, watch>>
    <2>1. act' \in Acts
      BY <1>2, <1>4, ActType DEF Acts, Places
    <2>2. TypeOK'
      BY <1>1, <1>4, <2>1, FrameType DEF CreateConnection, TypeInv, TypeOK, watch, replies
    <2>3. act'.pc = "adding" /\ act'.id = Target[r] /\ act'.req = r
      BY <1>4 DEF Idle
    <2>4. ActorOK'
      BY <1>2, <1>4, <2>3 DEF TypeInv, ActorOK, Mapped
    <2> QED BY <2>2, <2>4 DEF TypeInv
  <1> QED BY <1>3, <1>4 DEF CreateConnection

\* offer_received, up to its await, keeps the types.
LEMMA OfferType ==
    ASSUME TypeInv, NEW r \in Requests, OfferReceived(r)
    PROVE  TypeInv'
  <1> DEFINE id == Target[r]
  <1> DEFINE e == conn[id]
  <1>1. mailbox' \in Seq(Requests) /\ Len(mailbox') <= MailboxCap /\ act.pc = "select"
    BY ReceiveType DEF OfferReceived
  <1>2. id \in Ids /\ e \in Entries
    BY RequestAssumption DEF TypeInv, TypeOK
  <1>3. CASE Refuse(r, "NotFound") \/ Refuse(r, "WrongState")
    <2>1. {"NotFound", "WrongState"} \subseteq Outcomes
      BY DEF Outcomes, Errors
    <2>2. reply' \in [Requests -> Outcomes] /\ UNCHANGED <<conn, act, sdp, watch>>
      BY <1>3, <2>1, RefuseType
    <2>3. TypeOK'
      BY <1>1, <2>2, FrameType DEF OfferReceived, TypeInv, TypeOK, watch
    <2>4. ActorOK'
      BY <2>2 DEF TypeInv, ActorOK, Mapped
    <2> QED BY <2>3, <2>4 DEF TypeInv
  <1>4. CASE /\ TakesOffer(e) /\ e.waiter \notin gone
             /\ reply' = Told({e.waiter}, "sdp")
             /\ sdp' = [sdp EXCEPT ![e.waiter] = r]
             /\ conn' = [conn EXCEPT ![id] = AwaitingAnswer(e, r)]
             /\ UNCHANGED <<act, watch>>
    <2>1. reply' \in [Requests -> Outcomes]
      BY <1>4, ToldType DEF TypeInv, TypeOK, Outcomes
    <2>2. sdp' \in [Requests -> Requests \cup {NoRequest}]
      BY <1>4 DEF TypeInv, TypeOK
    <2>3. AwaitingAnswer(e, r) \in Entries /\ AwaitingAnswer(e, r).whep = e.whep
      BY <1>2, EntryType DEF TypeInv, TypeOK
    <2>4. conn' \in [Ids -> Entries]
      BY <1>2, <1>4, <2>3 DEF TypeInv, TypeOK
    <2>5. TypeOK'
      BY <1>1, <1>4, <2>1, <2>2, <2>4, FrameType DEF OfferReceived, TypeInv, TypeOK, watch
    <2>6. e.whep \in Requests
      BY <1>2, <1>4 DEF TypeInv, ActorOK, Mapped, TakesOffer
    <2>7. ActorOK'
      BY <1>1, <1>2, <1>4, <2>3, <2>6 DEF TypeInv, TypeOK, ActorOK, Mapped
    <2> QED BY <2>5, <2>7 DEF TypeInv
  <1>5. CASE /\ TakesOffer(e)
             /\ Terminate(id, "PeerGone", NoRequest, {r}, {})
             /\ UNCHANGED <<sdp, watch>>
    <2>1. Mapped(id)
      BY <1>5 DEF Mapped, TakesOffer
    <2>2. "PeerGone" \in Reasons /\ Policy("PeerGone").teardown # "Required"
      BY DEF Reasons, Policy
    <2>3. /\ conn' \in [Ids -> Entries] /\ act' \in Acts
          /\ reply' \in [Requests -> Outcomes] /\ ActorOK'
      BY <1>2, <1>5, <2>1, <2>2, TerminateType
    <2>4. TypeOK'
      BY <1>1, <1>5, <2>3, FrameType DEF OfferReceived, TypeInv, TypeOK, watch
    <2> QED BY <2>3, <2>4 DEF TypeInv
  <1> QED BY <1>3, <1>4, <1>5 DEF OfferReceived

\* answer_received, up to its await, keeps the types.
LEMMA AnswerType ==
    ASSUME TypeInv, NEW r \in Requests, AnswerReceived(r)
    PROVE  TypeInv'
  <1> DEFINE id == Target[r]
  <1> DEFINE e == conn[id]
  <1>1. mailbox' \in Seq(Requests) /\ Len(mailbox') <= MailboxCap /\ act.pc = "select"
    BY ReceiveType DEF AnswerReceived
  <1>2. id \in Ids /\ e \in Entries
    BY RequestAssumption DEF TypeInv, TypeOK
  <1>3. CASE Refuse(r, "NotFound") \/ Refuse(r, "WrongState")
    <2>1. {"NotFound", "WrongState"} \subseteq Outcomes
      BY DEF Outcomes, Errors
    <2>2. reply' \in [Requests -> Outcomes] /\ UNCHANGED <<conn, act, sdp, watch>>
      BY <1>3, <2>1, RefuseType
    <2>3. TypeOK'
      BY <1>1, <2>2, FrameType DEF AnswerReceived, TypeInv, TypeOK, watch
    <2>4. ActorOK'
      BY <2>2 DEF TypeInv, ActorOK, Mapped
    <2> QED BY <2>3, <2>4 DEF TypeInv
  <1>4. CASE /\ e.state = "awaiting_answer" /\ e.waiter \notin gone
             /\ reply' = Answered([q \in {e.waiter, r} |-> IF q = r THEN "ok" ELSE "sdp"])
             /\ sdp' = [sdp EXCEPT ![e.waiter] = r]
             /\ conn' = [conn EXCEPT ![id] = Established(e)]
             /\ dog' = Clean
             /\ failed' = {}
             /\ UNCHANGED <<act, restart, tripRun>>
    <2>1. reply' \in [Requests -> Outcomes]
      BY <1>4, AnsweredType DEF TypeInv, TypeOK, Outcomes
    <2>2. sdp' \in [Requests -> Requests \cup {NoRequest}]
      BY <1>4 DEF TypeInv, TypeOK
    <2>3. Established(e) \in Entries /\ Established(e).whep = e.whep
      BY <1>2, EntryType DEF TypeInv, TypeOK
    <2>4. conn' \in [Ids -> Entries]
      BY <1>2, <1>4, <2>3 DEF TypeInv, TypeOK
    <2>5. dog' \in Counts
      BY <1>4, CountType DEF TypeInv, TypeOK
    <2>6. TypeOK'
      BY <1>1, <1>4, <2>1, <2>2, <2>4, <2>5, FrameType DEF AnswerReceived, TypeInv, TypeOK
    <2>7. e.whep \in Requests
      BY <1>2, <1>4 DEF TypeInv, ActorOK, Mapped
    <2>8. ActorOK'
      BY <1>1, <1>2, <1>4, <2>3, <2>7 DEF TypeInv, TypeOK, ActorOK, Mapped
    <2> QED BY <2>6, <2>8 DEF TypeInv
  <1>5. CASE /\ e.state = "awaiting_answer"
             /\ Terminate(id, "PeerGone", NoRequest, {r}, {})
             /\ UNCHANGED <<sdp, watch>>
    <2>1. Mapped(id)
      BY <1>5 DEF Mapped
    <2>2. "PeerGone" \in Reasons /\ Policy("PeerGone").teardown # "Required"
      BY DEF Reasons, Policy
    <2>3. /\ conn' \in [Ids -> Entries] /\ act' \in Acts
          /\ reply' \in [Requests -> Outcomes] /\ ActorOK'
      BY <1>2, <1>5, <2>1, <2>2, TerminateType
    <2>4. TypeOK'
      BY <1>1, <1>5, <2>3, FrameType DEF AnswerReceived, TypeInv, TypeOK, watch
    <2> QED BY <2>3, <2>4 DEF TypeInv
  <1> QED BY <1>3, <1>4, <1>5 DEF AnswerReceived

\* remove_connection, up to its await, keeps the types.
LEMMA RemoveType ==
    ASSUME TypeInv, NEW r \in Requests, RemoveConnection(r)
    PROVE  TypeInv'
  <1>1. mailbox' \in Seq(Requests) /\ Len(mailbox') <= MailboxCap
    BY ReceiveType DEF RemoveConnection
  <1>2. Target[r] \in Ids
    BY RequestAssumption
  <1>3. CASE Refuse(r, "NotFound")
    <2>1. "NotFound" \in Outcomes
      BY DEF Outcomes, Errors
    <2>2. reply' \in [Requests -> Outcomes] /\ UNCHANGED <<conn, act, sdp, watch>>
      BY <1>3, <2>1, RefuseType
    <2>3. TypeOK'
      BY <1>1, <2>2, FrameType DEF RemoveConnection, TypeInv, TypeOK, watch
    <2>4. ActorOK'
      BY <2>2 DEF TypeInv, ActorOK, Mapped
    <2> QED BY <2>3, <2>4 DEF TypeInv
  <1>4. CASE /\ Mapped(Target[r])
             /\ Terminate(Target[r], "Deleted", r, {}, {})
             /\ UNCHANGED <<sdp, watch>>
    <2>1. "Deleted" \in Reasons
      BY DEF Reasons
    <2>2. /\ conn' \in [Ids -> Entries] /\ act' \in Acts
          /\ reply' \in [Requests -> Outcomes] /\ ActorOK'
      BY <1>2, <1>4, <2>1, TerminateType
    <2>3. TypeOK'
      BY <1>1, <1>4, <2>2, FrameType DEF RemoveConnection, TypeInv, TypeOK, watch
    <2> QED BY <2>2, <2>3 DEF TypeInv
  <1> QED BY <1>3, <1>4 DEF RemoveConnection

\* The Reset command keeps the types.
LEMMA ResetType ==
    ASSUME TypeInv, NEW r \in Requests, Reset(r)
    PROVE  TypeInv'
  <1>1. mailbox' \in Seq(Requests) /\ Len(mailbox') <= MailboxCap
    BY ReceiveType DEF Reset
  <1>2. \A q \in DOMAIN [q \in {r} |-> "ok"] : [q1 \in {r} |-> "ok"][q] \in Outcomes
    BY DEF Outcomes
  <1>3. /\ conn' \in [Ids -> Entries] /\ reply' \in [Requests -> Outcomes]
        /\ \A id \in Ids : conn'[id].state = "absent"
    BY <1>2, ResetAllType DEF Reset
  <1>4. dog' \in Counts
    BY CountType DEF Reset, TypeInv, TypeOK
  <1>5. TypeOK'
    BY <1>1, <1>3, <1>4, FrameType DEF Reset, TypeInv, TypeOK
  <1>6. ActorOK'
    BY <1>3 DEF Reset, TypeInv, ActorOK, Mapped
  <1> QED BY <1>5, <1>6 DEF TypeInv

\* A bus report, up to the await, keeps the types.
LEMMA ReapType ==
    ASSUME TypeInv, ReapBranch
    PROVE  TypeInv'
  <1>1. reports' \in Seq(Ids) /\ Len(reports') <= FailureCap /\ Head(reports) \in Ids
    BY QueueType, RequestAssumption DEF ReapBranch, TypeInv, TypeOK
  <1>2. CASE UNCHANGED <<conn, act, replies, watch>>
    <2>1. TypeOK'
      BY <1>1, <1>2 DEF ReapBranch, TypeInv, TypeOK, clients, replies, watch
    <2>2. ActorOK'
      BY <1>2 DEF TypeInv, ActorOK, Mapped
    <2> QED BY <2>1, <2>2 DEF TypeInv
  <1>4. PICK id \in Ids : id = Head(reports)
    BY <1>1
  <1>3. CASE /\ Mapped(id)
             /\ Terminate(id, "Reaped", NoRequest, {}, {})
             /\ UNCHANGED <<sdp, watch>>
    <2>1. "Reaped" \in Reasons /\ Policy("Reaped").teardown # "Required"
      BY DEF Reasons, Policy
    <2>2. /\ conn' \in [Ids -> Entries] /\ act' \in Acts
          /\ reply' \in [Requests -> Outcomes] /\ ActorOK'
      BY <1>3, <2>1, TerminateType
    <2>3. TypeOK'
      BY <1>1, <1>3, <2>2 DEF ReapBranch, TypeInv, TypeOK, clients, watch
    <2> QED BY <2>2, <2>3 DEF TypeInv
  <1> QED BY <1>2, <1>3, <1>4 DEF ReapBranch

\* The sweep, up to each await, keeps the types.
LEMMA SweepType ==
    ASSUME TypeInv, Sweep \/ SweepNext
    PROVE  TypeInv'
  <1>1. CASE Sweep
    <2>1. act' \in Acts /\ act'.pc = "sweeping"
      <3>1. Due \in SUBSET Ids
        BY DEF Due
      <3>2. Due # {} => Resume(Due) = [Idle EXCEPT !.pc = "sweeping", !.rest = Due]
        BY DEF Resume
      <3>3. act' = Resume(Due)
        BY <1>1, <3>2 DEF Sweep
      <3> QED BY <1>1, <3>1, <3>3, ActType DEF Sweep, Resume, Idle
    <2>2. TypeOK'
      BY <1>1, <2>1 DEF Sweep, TypeInv, TypeOK, clients, replies, stream, watch
    <2>3. ActorOK'
      BY <1>1, <2>1 DEF Sweep, TypeInv, ActorOK, Mapped
    <2> QED BY <2>2, <2>3 DEF TypeInv
  <1>2. CASE SweepNext
    <2>1. act.rest \in SUBSET Ids
      BY DEF TypeInv, TypeOK, Acts
    <2>2. PICK id \in act.rest :
            \/ /\ Mapped(id)
               /\ Terminate(id, "Expired", NoRequest, {}, act.rest \ {id})
               /\ UNCHANGED watch
            \/ /\ ~Mapped(id)
               /\ act' = Resume(act.rest \ {id})
               /\ UNCHANGED <<conn, reply, watch>>
      BY <1>2 DEF SweepNext
    <2>3. "Expired" \in Reasons /\ Policy("Expired").teardown # "Required"
      BY DEF Reasons, Policy
    <2>4. CASE Mapped(id) /\ Terminate(id, "Expired", NoRequest, {}, act.rest \ {id})
               /\ UNCHANGED watch
      <3>1. /\ conn' \in [Ids -> Entries] /\ act' \in Acts
            /\ reply' \in [Requests -> Outcomes] /\ ActorOK'
        BY <2>1, <2>3, <2>4, TerminateType
      <3>2. TypeOK'
        BY <1>2, <2>4, <3>1 DEF SweepNext, TypeInv, TypeOK, clients, stream, watch
      <3> QED BY <3>1, <3>2 DEF TypeInv
    <2>5. CASE act' = Resume(act.rest \ {id}) /\ UNCHANGED <<conn, reply, watch>>
      <3>1. act' \in Acts /\ act'.pc \in {"select", "sweeping"}
        BY <2>1, <2>5, ActType
      <3>2. TypeOK'
        BY <1>2, <2>5, <3>1 DEF SweepNext, TypeInv, TypeOK, clients, stream, watch
      <3>3. ActorOK'
        BY <2>5, <3>1 DEF TypeInv, ActorOK, Mapped
      <3> QED BY <3>2, <3>3 DEF TypeInv
    <2> QED BY <2>2, <2>4, <2>5
  <1> QED BY <1>1, <1>2

\* The end of an add_branch, well or badly, keeps the types.
LEMMA AddType ==
    ASSUME TypeInv, BranchAdded \/ BranchRefused \/ AttachFails
    PROVE  TypeInv'
  <1>1. act.pc = "adding" /\ act.id \in Ids /\ act.req \in Requests
    BY DEF TypeInv, ActorOK, BranchAdded, BranchRefused, AttachFails
  <1>2. CASE BranchAdded
    <2>1. AwaitingOffer(act.req) \in Entries /\ AwaitingOffer(act.req).whep = act.req
      BY <1>1 DEF TypeInv, TypeOK, AwaitingOffer, Entries, States
    <2>2. TypeOK'
      BY <1>1, <1>2, <2>1, ActType
         DEF BranchAdded, TypeInv, TypeOK, clients, replies, watch
    <2>3. ActorOK'
      BY <1>1, <1>2, <2>1, ActType DEF BranchAdded, TypeInv, TypeOK, ActorOK, Mapped
    <2> QED BY <2>2, <2>3 DEF TypeInv
  <1>3. CASE BranchRefused
    <2>1. reply' \in [Requests -> Outcomes]
      <3>1. {"NotReady", "PipelineBusy", "Pipeline"} \subseteq Outcomes
        BY DEF Outcomes, Errors
      <3> QED BY <1>3, <3>1, ToldType DEF BranchRefused, TypeInv, TypeOK
    <2>2. TypeOK'
      BY <1>3, <2>1, ActType DEF BranchRefused, TypeInv, TypeOK, clients, stream, watch
    <2>3. ActorOK'
      BY <1>3, ActType DEF BranchRefused, TypeInv, ActorOK, Mapped
    <2> QED BY <2>2, <2>3 DEF TypeInv
  <1>4. CASE AttachFails
    <2>1. act' \in Acts /\ act'.pc = "undoing" /\ act'.id = act.id /\ act'.req = act.req
      BY <1>4 DEF AttachFails, TypeInv, TypeOK, Acts, Places
    <2>2. TypeOK'
      BY <1>1, <1>4, <2>1 DEF AttachFails, TypeInv, TypeOK, clients, replies, watch
    <2>3. ActorOK'
      BY <1>1, <1>4, <2>1 DEF AttachFails, TypeInv, ActorOK, Mapped
    <2> QED BY <2>2, <2>3 DEF TypeInv
  <1> QED BY <1>2, <1>3, <1>4

\* The end of a teardown, well or badly, keeps the types.
LEMMA DetachType ==
    ASSUME TypeInv, AttachUndone \/ Deleted \/ DeleteFailed \/ Detached
    PROVE  TypeInv'
  <1>1. act \in Acts /\ act.id \in Ids /\ act.rest \in SUBSET Ids /\ act.reason \in Reasons
    BY DEF TypeInv, TypeOK, ActorOK, Acts, AttachUndone, Deleted, DeleteFailed, Detached
  <1>2. {"PipelineBusy", "Pipeline", "ok"} \subseteq Outcomes
    BY DEF Outcomes, Errors
  <1>3. CASE AttachUndone
    <2>1. PICK ok \in BOOLEAN, error \in {"PipelineBusy", "Pipeline"} :
             RemoveBranch(ok) /\ reply' = Told({act.req}, error)
      BY <1>3 DEF AttachUndone
    <2>2. reply' \in [Requests -> Outcomes]
      BY <1>2, <2>1, ToldType DEF TypeInv, TypeOK
    <2>3. /\ attached' \subseteq Ids /\ broken' \subseteq attached' /\ suspect' \subseteq Ids
          /\ UNCHANGED <<pipeline, run, reports>>
      BY <1>1, <2>1, RemoveBranchType
    <2>4. TypeOK'
      BY <1>3, <2>2, <2>3, ActType DEF AttachUndone, TypeInv, TypeOK, clients, watch
    <2>5. ActorOK'
      BY <1>3, ActType DEF AttachUndone, TypeInv, ActorOK, Mapped
    <2> QED BY <2>4, <2>5 DEF TypeInv
  <1>4. CASE Deleted
    <2>1. /\ attached' \subseteq Ids /\ broken' \subseteq attached' /\ suspect' \subseteq Ids
          /\ UNCHANGED <<pipeline, run, reports>>
      BY <1>1, <1>4, RemoveBranchType DEF Deleted
    <2>2. reply' \in [Requests -> Outcomes]
      <3> DEFINE w == {act.entry.waiter} \ {NoRequest}
      <3> DEFINE f == [q \in w \cup {act.req} |->
                          IF q \in w THEN Policy(act.reason).notice ELSE "ok"]
      <3>1. \A q \in DOMAIN f : f[q] \in Outcomes
        BY <1>1, <1>2, PolicyType
      <3>2. reply' = Answered(f)
        BY <1>4 DEF Deleted
      <3> QED BY <3>1, <3>2, AnsweredType DEF TypeInv, TypeOK
    <2>3. TypeOK'
      BY <1>4, <2>1, <2>2, ActType DEF Deleted, TypeInv, TypeOK, clients, watch
    <2>4. ActorOK'
      BY <1>4, ActType DEF Deleted, TypeInv, ActorOK, Mapped
    <2> QED BY <2>3, <2>4 DEF TypeInv
  <1>5. CASE DeleteFailed
    <2>1. /\ attached' \subseteq Ids /\ broken' \subseteq attached' /\ suspect' \subseteq Ids
          /\ UNCHANGED <<pipeline, run, reports>>
      BY <1>1, <1>5, RemoveBranchType DEF DeleteFailed
    <2>2. reply' \in [Requests -> Outcomes]
      BY <1>2, <1>5, ToldType DEF DeleteFailed, TypeInv, TypeOK
    <2>3. conn' \in [Ids -> Entries]
      BY <1>1, <1>5 DEF DeleteFailed, TypeInv, TypeOK, Acts
    <2>4. TypeOK'
      BY <1>5, <2>1, <2>2, <2>3, ActType DEF DeleteFailed, TypeInv, TypeOK, clients, watch
    <2>5. ActorOK'
      BY <1>1, <1>5, ActType DEF DeleteFailed, TypeInv, TypeOK, ActorOK, Mapped
    <2> QED BY <2>4, <2>5 DEF TypeInv
  <1>6. CASE Detached
    <2>1. /\ attached' \subseteq Ids /\ broken' \subseteq attached' /\ suspect' \subseteq Ids
          /\ UNCHANGED <<pipeline, run, reports>>
      BY <1>1, <1>6, RemoveBranchType DEF Detached
    <2>2. act' \in Acts /\ act'.pc \in {"select", "sweeping"}
      BY <1>1, <1>6, ActType DEF Detached
    <2>3. /\ conn' \in [Ids -> Entries] /\ reply' \in [Requests -> Outcomes]
          /\ dog' \in Counts /\ restart' \in BOOLEAN /\ tripRun' \in Nat
          /\ \A id \in Ids : conn'[id].state # "absent" => conn'[id] = conn[id]
      <3>1. CASE UNCHANGED <<conn, reply, dog, restart, tripRun>>
        BY <3>1 DEF TypeInv, TypeOK
      <3>2. CASE dog' = Failed(dog) /\ UNCHANGED <<conn, reply, restart, tripRun>>
        BY <3>2, CountType DEF TypeInv, TypeOK
      <3>3. CASE dog' = Failed(dog) /\ ResetAll(<< >>) /\ restart' = TRUE /\ tripRun' = run
        <4>1. \A q \in DOMAIN << >> : << >>[q] \in Outcomes
          OBVIOUS
        <4>2. /\ conn' \in [Ids -> Entries] /\ reply' \in [Requests -> Outcomes]
              /\ \A id \in Ids : conn'[id].state = "absent"
          BY <3>3, <4>1, ResetAllType
        <4> QED BY <3>3, <4>2, CountType DEF TypeInv, TypeOK
      <3> QED BY <1>6, <3>1, <3>2, <3>3 DEF Detached, FeedWatchdog
    <2>4. failed' \subseteq Requests
      BY <1>6 DEF Detached, TypeInv, TypeOK, ActorOK
    <2>5. TypeOK'
      BY <1>6, <2>1, <2>2, <2>3, <2>4 DEF Detached, TypeInv, TypeOK, clients
    <2>6. ActorOK'
      BY <2>2, <2>3 DEF TypeInv, ActorOK, Mapped
    <2> QED BY <2>5, <2>6 DEF TypeInv
  <1> QED BY <1>3, <1>4, <1>5, <1>6

\* Callers that send or vanish keep the types.
LEMMA CallerType ==
    ASSUME TypeInv, NEW r \in Requests, Call(r) \/ SendReset(r) \/ Vanish(r)
    PROVE  TypeInv'
  <1>1. CASE Call(r) \/ SendReset(r)
    <2>1. mailbox' \in Seq(Requests) /\ Len(mailbox') <= MailboxCap /\ sent' = sent \cup {r}
      <3>1. mailbox \in Seq(Requests) /\ Len(mailbox) < MailboxCap
            /\ mailbox' = Append(mailbox, r) /\ sent' = sent \cup {r}
        BY <1>1 DEF Call, SendReset, Send, TypeInv, TypeOK
      <3>2. Append(mailbox, r) \in Seq(Requests) /\ Len(Append(mailbox, r)) = Len(mailbox) + 1
        BY <3>1, QueueType
      <3> QED BY <3>1, <3>2, RequestAssumption
    <2>2. pipeline' \in Pipelines
      BY <1>1 DEF Call, SendReset, TypeInv, TypeOK, Pipelines, stream
    <2>3. UNCHANGED <<conn, act, gone, reply, sdp, run, attached, broken, reports, suspect,
                      dog, restart, failed, tripRun>>
      BY <1>1 DEF Call, SendReset, replies, stream, watch
    <2>4. TypeOK'
      BY <2>1, <2>2, <2>3 DEF TypeInv, TypeOK
    <2>5. ActorOK'
      BY <2>3 DEF TypeInv, ActorOK, Mapped
    <2> QED BY <2>4, <2>5 DEF TypeInv
  <1>2. CASE Vanish(r)
    <2>1. TypeOK'
      BY <1>2 DEF Vanish, Unanswered, TypeInv, TypeOK, replies, stream, watch
    <2>2. ActorOK'
      BY <1>2 DEF Vanish, TypeInv, ActorOK, Mapped
    <2> QED BY <2>1, <2>2 DEF TypeInv
  <1> QED BY <1>1, <1>2

\* Time that passes keeps the types.
LEMMA ClockType ==
    ASSUME TypeInv, WindowPasses \/ \E id \in Ids : DeadlinePasses(id)
    PROVE  TypeInv'
  <1>1. CASE WindowPasses
    <2>1. TypeOK'
      BY <1>1, CountType DEF WindowPasses, TypeInv, TypeOK, clients, replies, stream
    <2>2. ActorOK'
      BY <1>1 DEF WindowPasses, TypeInv, ActorOK, Mapped
    <2> QED BY <2>1, <2>2 DEF TypeInv
  <1>2. ASSUME NEW id \in Ids, DeadlinePasses(id)
        PROVE  TypeInv'
    <2>1. [conn[id] EXCEPT !.due = TRUE] \in Entries
      BY DEF TypeInv, TypeOK, Entries
    <2>2. conn' = [conn EXCEPT ![id] = [conn[id] EXCEPT !.due = TRUE]]
      BY <1>2 DEF DeadlinePasses
    <2>3. conn' \in [Ids -> Entries]
      BY <2>1, <2>2 DEF TypeInv, TypeOK
    <2>4. TypeOK'
      BY <1>2, <2>3 DEF DeadlinePasses, TypeInv, TypeOK, clients, replies, stream, watch
    <2>5. \A i \in Ids : conn'[i].state = conn[i].state /\ conn'[i].whep = conn[i].whep
      BY <2>2 DEF TypeInv, TypeOK, Entries
    <2>6. ActorOK'
      BY <1>2, <2>5 DEF DeadlinePasses, TypeInv, ActorOK, Mapped
    <2> QED BY <2>4, <2>6 DEF TypeInv
  <1> QED BY <1>1, <1>2

\* What the supervisor and the pipeline do on their own.
LEMMA PipelineType ==
    ASSUME TypeInv,
           \/ PipelineInits \/ InitFails \/ PipelineStarts \/ InputReady \/ TakeRestart
           \/ PipelineStops \/ ResetTimesOut \/ \E id \in Ids : BranchFails(id)
    PROVE  TypeInv'
  <1>1. CASE PipelineInits
    <2>1. run' \in Nat /\ pipeline' \in Pipelines /\ restart' \in BOOLEAN /\ suspect' \subseteq Ids
      <3>1. run \in Nat
        BY DEF TypeInv, TypeOK
      <3>2. run' = run + 1 /\ pipeline' = "init" /\ restart' = FALSE /\ suspect' = {}
        BY <1>1 DEF PipelineInits
      <3>3. restart' \in BOOLEAN
        BY <3>2, Zenon
      <3>4. run' \in Nat
        BY <3>1, <3>2
      <3> QED BY <3>2, <3>3, <3>4, Zenon DEF Pipelines
    <2>2. UNCHANGED <<conn, mailbox, act, sent, gone, reply, sdp, attached, broken, reports,
                      dog, failed, tripRun>>
      BY <1>1 DEF PipelineInits, clients, replies
    <2>3. TypeOK'
      BY <2>1, <2>2 DEF TypeInv, TypeOK
    <2>4. ActorOK'
      BY <2>2 DEF TypeInv, ActorOK, Mapped
    <2> QED BY <2>3, <2>4 DEF TypeInv
  <1>2. CASE InitFails \/ PipelineStarts \/ InputReady
    <2>1. TypeOK'
      BY <1>2 DEF InitFails, PipelineStarts, InputReady, PipelineMoves, TypeInv, TypeOK,
                  Pipelines, clients, replies, watch
    <2>2. ActorOK'
      BY <1>2 DEF InitFails, PipelineStarts, InputReady, PipelineMoves, TypeInv, ActorOK, Mapped
    <2> QED BY <2>1, <2>2 DEF TypeInv
  <1>3. CASE TakeRestart
    <2>1. TypeOK'
      BY <1>3 DEF TakeRestart, TypeInv, TypeOK, Pipelines, clients, replies
    <2>2. ActorOK'
      BY <1>3 DEF TakeRestart, TypeInv, ActorOK, Mapped
    <2> QED BY <2>1, <2>2 DEF TypeInv
  <1>4. CASE PipelineStops
    <2>1. TypeOK'
      BY <1>4 DEF PipelineStops, TypeInv, TypeOK, Pipelines, clients, replies, watch
    <2>2. ActorOK'
      BY <1>4 DEF PipelineStops, TypeInv, ActorOK, Mapped
    <2> QED BY <2>1, <2>2 DEF TypeInv
  <1>5. CASE ResetTimesOut
    <2>1. gone' \subseteq sent /\ pipeline' \in Pipelines
      BY <1>5 DEF ResetTimesOut, Unanswered, TypeInv, TypeOK, Pipelines
    <2>2. TypeOK'
      BY <1>5, <2>1 DEF ResetTimesOut, TypeInv, TypeOK, replies, watch
    <2>3. ActorOK'
      BY <1>5 DEF ResetTimesOut, TypeInv, ActorOK, Mapped
    <2> QED BY <2>2, <2>3 DEF TypeInv
  <1>6. ASSUME NEW id \in Ids, BranchFails(id)
        PROVE  TypeInv'
    <2>1. reports' \in Seq(Ids) /\ Len(reports') <= FailureCap
      BY <1>6, QueueType, RequestAssumption DEF BranchFails, TypeInv, TypeOK
    <2>2. TypeOK'
      BY <1>6, <2>1 DEF BranchFails, TypeInv, TypeOK, clients, replies, watch
    <2>3. ActorOK'
      BY <1>6 DEF BranchFails, TypeInv, ActorOK, Mapped
    <2> QED BY <2>2, <2>3 DEF TypeInv
  <1> QED BY <1>1, <1>2, <1>3, <1>4, <1>5, <1>6

\* Every step keeps the strengthened type invariant.
LEMMA NextType ==
    ASSUME TypeInv, [Next]_vars
    PROVE  TypeInv'
  <1>1. CASE Actor
    BY <1>1, CreateType, OfferType, AnswerType, RemoveType, ResetType, ReapType, SweepType,
       AddType, DetachType DEF Actor, Handle, Await
  <1>2. CASE Callers
    BY <1>2, CallerType DEF Callers
  <1>3. CASE Clock
    BY <1>3, ClockType DEF Clock
  <1>4. CASE Supervisor
    BY <1>4, CallerType, PipelineType DEF Supervisor
  <1>5. CASE UNCHANGED vars
    BY <1>5 DEF vars, clients, replies, stream, watch, TypeInv, TypeOK, ActorOK, Mapped
  <1> QED BY <1>1, <1>2, <1>3, <1>4, <1>5 DEF Next

(***************************************************************************)
(* Every variable keeps its type; in particular neither the mailbox nor    *)
(* the channel of bus reports ever holds more than its capacity.           *)
(***************************************************************************)
THEOREM TypeCorrect == Spec => []TypeOK
  <1>1. Init => TypeInv
    BY InitType
  <1>2. TypeInv /\ [Next]_vars => TypeInv'
    BY NextType
  <1>3. TypeInv => TypeOK
    BY DEF TypeInv
  <1> QED BY <1>1, <1>2, <1>3, PTL DEF Spec
=============================================================================
