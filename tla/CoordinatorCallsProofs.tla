----------------------- MODULE CoordinatorCallsProofs -----------------------
(***************************************************************************)
(* No caller of the signaling actor is forgotten or answered twice, for    *)
(* every number of viewers and calls and every capacity and threshold.     *)
(***************************************************************************)
EXTENDS CoordinatorProofs

(***************************************************************************)
(* What makes EachCallIsHeldOnce inductive: the handler holds a call only  *)
(* in the awaits that still owe an answer, and while it does, the entry it *)
(* works on is out of the map, so putting one back overwrites no waiter.   *)
(***************************************************************************)
HandsOK ==
    /\ \A r \in Requests \ sent : reply[r] = "none"
    /\ \A id \in Ids : ~Mapped(id) => conn[id].waiter = NoRequest
    /\ act.pc \notin {"adding", "undoing", "deleting"} => act.req = NoRequest
    /\ act.pc # "deleting" => act.entry.waiter = NoRequest
    /\ act.pc \in {"adding", "undoing", "deleting"} => ~Mapped(act.id)
    /\ act.pc \in {"adding", "undoing"} => Target[act.req] = act.id
    /\ act.pc = "deleting" /\ act.entry.waiter # NoRequest => Target[act.entry.waiter] = act.id
    /\ act.pc = "deleting" => act.entry.state # "absent"

CallsInv == EachCallIsHeldOnce /\ HandsOK

\* The answers of f, and no others, leave the set of unanswered calls.
LEMMA AnswersLeave ==
    ASSUME TypeInv, HandsOK, NEW f, \A r \in DOMAIN f : f[r] # "none",
           reply' = Answered(f), sent' = sent
    PROVE  /\ Unanswered' = Unanswered \ DOMAIN f
           /\ DOMAIN f \subseteq sent => \A r \in Requests \ sent : reply'[r] = "none"
  BY DEF Answered, Unanswered, TypeInv, TypeOK, HandsOK

\* Telling some callers takes exactly them out of the unanswered ones.
LEMMA ToldLeave ==
    ASSUME TypeInv, HandsOK, NEW rs, NEW outcome, outcome # "none",
           reply' = Told(rs, outcome), sent' = sent
    PROVE  /\ Unanswered' = Unanswered \ rs
           /\ (rs \cap Requests) \subseteq sent => \A r \in Requests \ sent : reply'[r] = "none"
  BY DEF Told, Answered, Unanswered, TypeInv, TypeOK, HandsOK

\* The head leaves the mailbox, in which it stood once.
LEMMA ReceiveLeaves ==
    ASSUME TypeInv, EachCallIsHeldOnce, NEW r \in Requests, Receive(r)
    PROVE  /\ Queued' = Queued \ {r} /\ r \in Queued
           /\ \A i, j \in 1..Len(mailbox') : mailbox'[i] = mailbox'[j] => i = j
           /\ act.pc = "select"
  <1>1. mailbox \in Seq(Requests) /\ mailbox # << >> /\ r = mailbox[1] /\ mailbox' = Tail(mailbox)
    BY DEF Receive, TypeInv, TypeOK
  <1>2. /\ Len(mailbox') = Len(mailbox) - 1 /\ Len(mailbox) \in Nat \ {0}
        /\ \A i \in 1..Len(mailbox') : mailbox'[i] = mailbox[i + 1]
    BY <1>1
  <1>3. \A i, j \in 1..Len(mailbox) : mailbox[i] = mailbox[j] => i = j
    BY DEF EachCallIsHeldOnce
  <1>4. \A i, j \in 1..Len(mailbox') : mailbox'[i] = mailbox'[j] => i = j
    BY <1>2, <1>3
  <1>5. Queued' = Queued \ {r}
    <2>1. ASSUME NEW q \in Queued' PROVE q \in Queued \ {r}
      BY <1>1, <1>2, <1>3 DEF Queued
    <2>2. ASSUME NEW q \in Queued, q # r PROVE q \in Queued'
      <3>1. PICK i \in 1..Len(mailbox) : q = mailbox[i]
        BY DEF Queued
      <3>2. i # 1 /\ i - 1 \in 1..Len(mailbox')
        BY <1>1, <1>2, <2>2, <3>1
      <3>3. mailbox'[i - 1] = q
        BY <1>2, <3>1, <3>2
      <3> QED BY <3>2, <3>3 DEF Queued
    <2> QED BY <2>1, <2>2
  <1>6. r \in Queued
    <2>1. 1 \in 1..Len(mailbox)
      BY <1>2
    <2> QED BY <1>1, <2>1 DEF Queued
  <1>7. act.pc = "select"
    BY DEF Receive
  <1> QED BY <1>4, <1>5, <1>6, <1>7

\* One more call stands in the mailbox, once.
LEMMA SendEnters ==
    ASSUME TypeInv, CallsInv, NEW r \in Requests, Send(r)
    PROVE  /\ Queued' = Queued \cup {r} /\ r \notin Unanswered
           /\ \A i, j \in 1..Len(mailbox') : mailbox'[i] = mailbox'[j] => i = j
  <1>1. mailbox \in Seq(Requests) /\ mailbox' = Append(mailbox, r) /\ r \notin sent
    BY DEF Send, TypeInv, TypeOK
  <1>2. /\ Len(mailbox') = Len(mailbox) + 1 /\ Len(mailbox) \in Nat
        /\ \A i \in 1..Len(mailbox) : mailbox'[i] = mailbox[i]
        /\ mailbox'[Len(mailbox) + 1] = r
    BY <1>1
  <1>3. r \notin Unanswered /\ r \notin Queued
    BY <1>1 DEF Unanswered, CallsInv, EachCallIsHeldOnce
  <1>4. \A i \in 1..Len(mailbox) : mailbox[i] # r
    BY <1>3 DEF Queued
  <1>5. \A i, j \in 1..Len(mailbox) : mailbox[i] = mailbox[j] => i = j
    BY DEF CallsInv, EachCallIsHeldOnce
  <1>6. \A i, j \in 1..Len(mailbox') : mailbox'[i] = mailbox'[j] => i = j
    BY <1>2, <1>4, <1>5
  <1>7. Queued' = Queued \cup {r}
    BY <1>2 DEF Queued
  <1> QED BY <1>3, <1>6, <1>7

\* One entry of the map changes.
LEMMA EntryChanges ==
    ASSUME TypeInv, CallsInv, NEW id \in Ids, NEW e \in Entries,
           conn' = [conn EXCEPT ![id] = e],
           e.waiter # NoRequest => Target[e.waiter] = id,
           e.state = "absent" => e.waiter = NoRequest
    PROVE  /\ Waiters(Ids)' = (Waiters(Ids) \ {conn[id].waiter}) \cup ({e.waiter} \ {NoRequest})
           /\ \A i \in Ids : conn'[i].waiter # NoRequest => Target[conn'[i].waiter] = i
           /\ \A i \in Ids : ~Mapped(i)' => conn'[i].waiter = NoRequest
  <1>1. conn \in [Ids -> Entries] /\ conn'[id] = e /\ \A i \in Ids \ {id} : conn'[i] = conn[i]
    BY DEF TypeInv, TypeOK
  <1>2. \A i \in Ids : conn[i].waiter # NoRequest => Target[conn[i].waiter] = i
    BY DEF CallsInv, EachCallIsHeldOnce
  <1>3. \A i \in Ids \ {id} : conn[i].waiter # NoRequest => conn[i].waiter # conn[id].waiter
    BY <1>2
  <1>4. Waiters(Ids)' = (Waiters(Ids) \ {conn[id].waiter}) \cup ({e.waiter} \ {NoRequest})
    BY <1>1, <1>3 DEF Waiters
  <1> QED BY <1>1, <1>2, <1>4 DEF Mapped, CallsInv, HandsOK

\* Between handlers and between the entries of a sweep the handler holds no call.
LEMMA EmptyHands ==
    ASSUME CallsInv, act.pc \in {"select", "sweeping"}
    PROVE  InHand = {}
  BY DEF CallsInv, HandsOK, InHand

\* No entry, no waiter.
LEMMA AbsentEntry ==
    /\ Absent \in Entries /\ Absent.state = "absent" /\ Absent.waiter = NoRequest
    /\ Idle.pc = "select" /\ Idle.req = NoRequest /\ Idle.entry.waiter = NoRequest
    /\ \A rest : /\ Resume(rest).pc \in {"select", "sweeping"}
                 /\ Resume(rest).req = NoRequest /\ Resume(rest).entry.waiter = NoRequest
  BY DEF Absent, Entries, States, Idle, Resume

(***************************************************************************)
(* The parts of CallsInv are kept by a step that moves calls between the   *)
(* mailbox, the handler and the map, and takes those it answers from there.*)
(***************************************************************************)
LEMMA CallsBalance ==
    ASSUME HandsOK',
           \A i, j \in 1..Len(mailbox') : mailbox'[i] = mailbox'[j] => i = j,
           \A id \in Ids : conn'[id].waiter # NoRequest => Target[conn'[id].waiter] = id,
           Unanswered' = Queued' \cup InHand' \cup Waiters(Ids)',
           Queued' \cap InHand' = {} /\ Queued' \cap Waiters(Ids)' = {}
              /\ InHand' \cap Waiters(Ids)' = {},
           act'.req # NoRequest => act'.req # act'.entry.waiter
    PROVE  CallsInv'
  BY DEF CallsInv, EachCallIsHeldOnce

\* A step that leaves mailbox, actor, map, calls and answers alone.
LEMMA CallsFrame ==
    ASSUME CallsInv, UNCHANGED <<mailbox, act, conn, sent, reply>>
    PROVE  CallsInv'
  <1>1. /\ Unanswered' = Unanswered /\ Queued' = Queued /\ InHand' = InHand
        /\ Waiters(Ids)' = Waiters(Ids)
    BY DEF Unanswered, Queued, InHand, Waiters
  <1>2. HandsOK'
    BY DEF CallsInv, HandsOK, Mapped
  <1>3. EachCallIsHeldOnce'
    BY <1>1 DEF CallsInv, EachCallIsHeldOnce
  <1> QED BY <1>2, <1>3 DEF CallsInv

\* The handler answers the call it received and nothing else happens.
LEMMA RefuseCalls ==
    ASSUME TypeInv, CallsInv, NEW r \in Requests, Receive(r), NEW error, error # "none",
           Refuse(r, error), UNCHANGED clients
    PROVE  CallsInv'
  <1>1. UNCHANGED <<conn, act, sent>> /\ reply' = Told({r}, error)
    BY DEF Refuse, clients
  <1>2. /\ Queued' = Queued \ {r} /\ r \in Queued /\ act.pc = "select"
        /\ \A i, j \in 1..Len(mailbox') : mailbox'[i] = mailbox'[j] => i = j
    BY ReceiveLeaves DEF CallsInv
  <1>3. r \in sent
    BY <1>2 DEF CallsInv, EachCallIsHeldOnce, Unanswered
  <1>4. /\ Unanswered' = Unanswered \ {r}
        /\ \A q \in Requests \ sent : reply'[q] = "none"
    BY <1>1, <1>3, ToldLeave DEF CallsInv
  <1>5. InHand' = InHand /\ Waiters(Ids)' = Waiters(Ids)
    BY <1>1 DEF InHand, Waiters
  <1>6. HandsOK'
    BY <1>1, <1>4 DEF CallsInv, HandsOK, Mapped
  <1>7. Unanswered' = Queued' \cup InHand' \cup Waiters(Ids)'
    BY <1>2, <1>4, <1>5 DEF CallsInv, EachCallIsHeldOnce
  <1>8. /\ Queued' \cap InHand' = {} /\ Queued' \cap Waiters(Ids)' = {}
        /\ InHand' \cap Waiters(Ids)' = {}
    BY <1>2, <1>5 DEF CallsInv, EachCallIsHeldOnce
  <1>9. /\ \A id \in Ids : conn'[id].waiter # NoRequest => Target[conn'[id].waiter] = id
        /\ act'.req # NoRequest => act'.req # act'.entry.waiter
    BY <1>1 DEF CallsInv, EachCallIsHeldOnce
  <1> QED BY <1>2, <1>6, <1>7, <1>8, <1>9, CallsBalance

\* create_connection holds its call until add_branch has returned.
LEMMA CreateCalls ==
    ASSUME TypeInv, CallsInv, NEW r \in Requests, CreateConnection(r)
    PROVE  CallsInv'
  <1>1. CASE Refuse(r, "WrongState")
    BY <1>1, RefuseCalls DEF CreateConnection
  <1>2. CASE /\ ~Mapped(Target[r])
             /\ act' = [Idle EXCEPT !.pc = "adding", !.req = r, !.id = Target[r]]
             /\ UNCHANGED <<conn, replies, watch>>
    <2>1. UNCHANGED <<conn, reply, sent>>
      BY <1>2 DEF CreateConnection, replies, clients
    <2>2. /\ Queued' = Queued \ {r} /\ r \in Queued /\ act.pc = "select"
          /\ \A i, j \in 1..Len(mailbox') : mailbox'[i] = mailbox'[j] => i = j
      BY ReceiveLeaves DEF CallsInv, CreateConnection
    <2>3. /\ act'.pc = "adding" /\ act'.req = r /\ act'.id = Target[r]
          /\ act'.entry.waiter = NoRequest
      BY <1>2 DEF Idle, Absent
    <2>4. r # NoRequest
      BY RequestAssumption
    <2>5. InHand = {} /\ InHand' = {r}
      BY <2>2, <2>3, <2>4, EmptyHands DEF InHand
    <2>6. Waiters(Ids)' = Waiters(Ids) /\ Unanswered' = Unanswered
      BY <2>1 DEF Waiters, Unanswered
    <2>7. HandsOK'
      BY <1>2, <2>1, <2>3 DEF CallsInv, HandsOK, Mapped
    <2>8. Unanswered' = Queued' \cup InHand' \cup Waiters(Ids)'
      BY <2>2, <2>5, <2>6 DEF CallsInv, EachCallIsHeldOnce
    <2>9. /\ Queued' \cap InHand' = {} /\ Queued' \cap Waiters(Ids)' = {}
          /\ InHand' \cap Waiters(Ids)' = {}
      BY <2>2, <2>5, <2>6 DEF CallsInv, EachCallIsHeldOnce
    <2>10. /\ \A id \in Ids : conn'[id].waiter # NoRequest => Target[conn'[id].waiter] = id
           /\ act'.req # NoRequest => act'.req # act'.entry.waiter
      BY <2>1, <2>3, <2>4 DEF CallsInv, EachCallIsHeldOnce
    <2> QED BY <2>2, <2>7, <2>8, <2>9, <2>10, CallsBalance
  <1> QED BY <1>1, <1>2 DEF CreateConnection

(***************************************************************************)
(* terminate() up to its await.  A BestEffort row answers the waiter, and  *)
(* whom the caller adds; the Required row takes the waiter into its hands. *)
(***************************************************************************)
LEMMA TerminateCalls ==
    ASSUME TypeInv, CallsInv, act.pc \in {"select", "sweeping"},
           NEW id \in Ids, Mapped(id), NEW reason \in Reasons,
           NEW req, NEW told, NEW rest, told \subseteq Unanswered, sent' = sent,
           Policy(reason).teardown = "Required" => req \in Requests /\ told = {},
           Policy(reason).teardown # "Required" => req = NoRequest,
           Terminate(id, reason, req, told, rest)
    PROVE  /\ HandsOK'
           /\ \A i \in Ids : conn'[i].waiter # NoRequest => Target[conn'[i].waiter] = i
           /\ Waiters(Ids)' = Waiters(Ids) \ {conn[id].waiter}
           /\ \/ /\ Policy(reason).teardown = "Required"
                 /\ InHand' = {req} \cup ({conn[id].waiter} \ {NoRequest})
                 /\ Unanswered' = Unanswered
                 /\ act'.req = req /\ act'.entry.waiter = conn[id].waiter
              \/ /\ Policy(reason).teardown # "Required"
                 /\ InHand' = {}
                 /\ Unanswered' = Unanswered \ ({conn[id].waiter} \cup told)
                 /\ act'.req = NoRequest
  <1> DEFINE w == conn[id].waiter
  <1>1. conn' = [conn EXCEPT ![id] = Absent]
    BY DEF Terminate
  <1>2. /\ Waiters(Ids)' = Waiters(Ids) \ {w}
        /\ \A i \in Ids : conn'[i].waiter # NoRequest => Target[conn'[i].waiter] = i
        /\ \A i \in Ids : ~Mapped(i)' => conn'[i].waiter = NoRequest
    <2> DEFINE e == Absent
    <2>1. e \in Entries /\ e.waiter = NoRequest /\ conn' = [conn EXCEPT ![id] = e]
      BY <1>1, AbsentEntry
    <2> HIDE DEF e
    <2>2. /\ Waiters(Ids)' = (Waiters(Ids) \ {w}) \cup ({e.waiter} \ {NoRequest})
          /\ \A i \in Ids : conn'[i].waiter # NoRequest => Target[conn'[i].waiter] = i
          /\ \A i \in Ids : ~Mapped(i)' => conn'[i].waiter = NoRequest
      BY <2>1, EntryChanges
    <2> QED BY <2>1, <2>2
  <1>3. ~Mapped(id)'
    BY <1>1, AbsentEntry DEF Mapped, TypeInv, TypeOK
  <1>4. conn[id] \in Entries /\ w \in Requests \cup {NoRequest}
    BY DEF TypeInv, TypeOK, Entries
  <1>5. w # NoRequest => w \in Waiters(Ids) /\ w \in Unanswered /\ Target[w] = id
    BY DEF Waiters, CallsInv, EachCallIsHeldOnce
  <1>6. Waiters({id}) = {w} \ {NoRequest}
    BY DEF Waiters
  <1>7. CASE Policy(reason).teardown = "Required"
    <2>1. /\ act'.pc = "deleting" /\ act'.req = req /\ act'.id = id /\ act'.entry = conn[id]
          /\ reply' = reply
      BY <1>7 DEF Terminate
    <2>2. InHand' = {req} \cup ({w} \ {NoRequest})
      BY <1>7, <2>1, RequestAssumption DEF InHand
    <2>3. Unanswered' = Unanswered
      BY <2>1 DEF Unanswered
    <2>4. HandsOK'
      BY <1>2, <1>3, <1>5, <2>1 DEF HandsOK, CallsInv, Mapped
    <2> QED BY <1>2, <1>7, <2>1, <2>2, <2>3, <2>4
  <1>8. CASE Policy(reason).teardown # "Required"
    <2>1. /\ act'.pc = "detaching" /\ act'.req = NoRequest
          /\ act'.entry = [conn[id] EXCEPT !.waiter = NoRequest]
          /\ reply' = Told(Waiters({id}) \cup told, Policy(reason).notice)
      BY <1>8 DEF Terminate
    <2>2. act'.entry.waiter = NoRequest
      BY <1>4, <2>1 DEF Entries
    <2>3. Policy(reason).notice # "none"
      BY DEF Policy, Reasons
    <2>4. /\ Unanswered' = Unanswered \ (Waiters({id}) \cup told)
          /\ (Waiters({id}) \cup told) \cap Requests \subseteq sent =>
                \A q \in Requests \ sent : reply'[q] = "none"
      BY <2>1, <2>3, ToldLeave DEF CallsInv
    <2>5. Waiters({id}) \cup told \subseteq sent /\ NoRequest \notin Unanswered
      BY <1>5, <1>6, RequestAssumption DEF Unanswered, TypeInv, TypeOK
    <2>6. Unanswered' = Unanswered \ ({w} \cup told)
      BY <1>6, <2>4, <2>5
    <2>7. InHand' = {}
      BY <2>1, <2>2 DEF InHand
    <2>8. HandsOK'
      BY <1>2, <2>1, <2>2, <2>4, <2>5 DEF HandsOK, CallsInv
    <2> QED BY <1>2, <1>8, <2>1, <2>6, <2>7, <2>8
  <1> QED BY <1>7, <1>8

\* An offer or answer whose peer has gone: the connection ends, both are told.
LEMMA PeerGoneCalls ==
    ASSUME TypeInv, CallsInv, NEW r \in Requests, Receive(r), UNCHANGED clients,
           NEW id \in Ids, Mapped(id), Terminate(id, "PeerGone", NoRequest, {r}, {})
    PROVE  CallsInv'
  <1>1. /\ Queued' = Queued \ {r} /\ r \in Queued /\ act.pc = "select"
        /\ \A i, j \in 1..Len(mailbox') : mailbox'[i] = mailbox'[j] => i = j
    BY ReceiveLeaves DEF CallsInv
  <1>2. {r} \subseteq Unanswered /\ sent' = sent
    BY <1>1 DEF CallsInv, EachCallIsHeldOnce, clients
  <1>3. "PeerGone" \in Reasons /\ Policy("PeerGone").teardown # "Required"
    BY DEF Reasons, Policy
  <1>4. /\ HandsOK'
        /\ \A i \in Ids : conn'[i].waiter # NoRequest => Target[conn'[i].waiter] = i
        /\ Waiters(Ids)' = Waiters(Ids) \ {conn[id].waiter}
        /\ InHand' = {} /\ Unanswered' = Unanswered \ ({conn[id].waiter} \cup {r})
        /\ act'.req = NoRequest
    BY <1>1, <1>2, <1>3, TerminateCalls
  <1>5. InHand = {}
    BY <1>1, EmptyHands
  <1>6. conn[id].waiter # NoRequest => conn[id].waiter \in Waiters(Ids)
    BY DEF Waiters
  <1>7. NoRequest \notin Unanswered
    BY RequestAssumption DEF Unanswered, TypeInv, TypeOK
  <1>8. Unanswered' = Queued' \cup InHand' \cup Waiters(Ids)'
    BY <1>1, <1>4, <1>5, <1>6, <1>7 DEF CallsInv, EachCallIsHeldOnce
  <1>9. /\ Queued' \cap InHand' = {} /\ Queued' \cap Waiters(Ids)' = {}
        /\ InHand' \cap Waiters(Ids)' = {}
    BY <1>1, <1>4 DEF CallsInv, EachCallIsHeldOnce
  <1> QED BY <1>1, <1>4, <1>8, <1>9, CallsBalance

\* offer_received swaps the parked create for the offer, or ends both.
LEMMA OfferCalls ==
    ASSUME TypeInv, CallsInv, NEW r \in Requests, OfferReceived(r)
    PROVE  CallsInv'
  <1> DEFINE id == Target[r]
  <1> DEFINE w == conn[id].waiter
  <1>1. Receive(r) /\ UNCHANGED clients /\ id \in Ids
    BY RequestAssumption DEF OfferReceived
  <1>2. CASE Refuse(r, "NotFound") \/ Refuse(r, "WrongState")
    BY <1>1, <1>2, RefuseCalls
  <1>3. CASE TakesOffer(conn[id]) /\ Terminate(id, "PeerGone", NoRequest, {r}, {})
    BY <1>1, <1>3, PeerGoneCalls DEF TakesOffer, Mapped
  <1>4. CASE /\ TakesOffer(conn[id])
             /\ reply' = Told({w}, "sdp")
             /\ conn' = [conn EXCEPT ![id] = AwaitingAnswer(conn[id], r)]
             /\ UNCHANGED <<act, watch>>
    <2>1. /\ Queued' = Queued \ {r} /\ r \in Queued /\ act.pc = "select"
          /\ \A i, j \in 1..Len(mailbox') : mailbox'[i] = mailbox'[j] => i = j
      BY <1>1, ReceiveLeaves DEF CallsInv
    <2>2. InHand = {} /\ InHand' = {}
      BY <1>4, <2>1, EmptyHands DEF InHand
    <2>3. w # NoRequest => w \in Waiters(Ids)
      BY <1>1 DEF Waiters
    <2>4. NoRequest \notin Unanswered /\ r # NoRequest
      BY RequestAssumption DEF Unanswered, TypeInv, TypeOK
    <2>5. /\ Unanswered' = Unanswered \ {w}
          /\ \A q \in Requests \ sent : reply'[q] = "none"
      <3>1. ({w} \cap Requests) \subseteq sent
        BY <2>3, RequestAssumption DEF CallsInv, EachCallIsHeldOnce, Unanswered
      <3> QED BY <1>1, <1>4, <3>1, ToldLeave DEF CallsInv, clients
    <2>6. /\ Waiters(Ids)' = (Waiters(Ids) \ {w}) \cup {r}
          /\ \A i \in Ids : conn'[i].waiter # NoRequest => Target[conn'[i].waiter] = i
          /\ \A i \in Ids : ~Mapped(i)' => conn'[i].waiter = NoRequest
      <3> DEFINE e == AwaitingAnswer(conn[id], r)
      <3>1. /\ e \in Entries /\ e.waiter = r /\ e.state # "absent"
            /\ conn' = [conn EXCEPT ![id] = e]
        <4>1. conn[id] \in Entries
          BY <1>1 DEF TypeInv, TypeOK
        <4> QED BY <1>4, <4>1 DEF AwaitingAnswer, Entries, States
      <3> HIDE DEF e
      <3>2. /\ Waiters(Ids)' = (Waiters(Ids) \ {w}) \cup ({e.waiter} \ {NoRequest})
            /\ \A i \in Ids : conn'[i].waiter # NoRequest => Target[conn'[i].waiter] = i
            /\ \A i \in Ids : ~Mapped(i)' => conn'[i].waiter = NoRequest
        BY <1>1, <3>1, EntryChanges
      <3> QED BY <2>4, <3>1, <3>2
    <2>7. HandsOK'
      BY <1>1, <1>4, <2>1, <2>5, <2>6 DEF CallsInv, HandsOK, clients
    <2>8. Unanswered' = Queued' \cup InHand' \cup Waiters(Ids)'
      BY <2>1, <2>2, <2>3, <2>4, <2>5, <2>6 DEF CallsInv, EachCallIsHeldOnce
    <2>9. /\ Queued' \cap InHand' = {} /\ Queued' \cap Waiters(Ids)' = {}
          /\ InHand' \cap Waiters(Ids)' = {}
      BY <2>1, <2>2, <2>6 DEF CallsInv, EachCallIsHeldOnce
    <2>10. act'.req # NoRequest => act'.req # act'.entry.waiter
      BY <1>4 DEF CallsInv, EachCallIsHeldOnce
    <2> QED BY <2>1, <2>6, <2>7, <2>8, <2>9, <2>10, CallsBalance
  <1> QED BY <1>2, <1>3, <1>4 DEF OfferReceived

\* answer_received answers both legs, or ends the connection.
LEMMA AnswerCalls ==
    ASSUME TypeInv, CallsInv, NEW r \in Requests, AnswerReceived(r)
    PROVE  CallsInv'
  <1> DEFINE id == Target[r]
  <1> DEFINE w == conn[id].waiter
  <1>1. Receive(r) /\ UNCHANGED clients /\ id \in Ids
    BY RequestAssumption DEF AnswerReceived
  <1>2. CASE Refuse(r, "NotFound") \/ Refuse(r, "WrongState")
    BY <1>1, <1>2, RefuseCalls
  <1>3. CASE /\ conn[id].state = "awaiting_answer"
             /\ Terminate(id, "PeerGone", NoRequest, {r}, {})
    BY <1>1, <1>3, PeerGoneCalls DEF Mapped
  <1>4. CASE /\ conn[id].state = "awaiting_answer"
             /\ reply' = Answered([q \in {w, r} |-> IF q = r THEN "ok" ELSE "sdp"])
             /\ conn' = [conn EXCEPT ![id] = Established(conn[id])]
             /\ UNCHANGED act
    <2>1. /\ Queued' = Queued \ {r} /\ r \in Queued /\ act.pc = "select"
          /\ \A i, j \in 1..Len(mailbox') : mailbox'[i] = mailbox'[j] => i = j
      BY <1>1, ReceiveLeaves DEF CallsInv
    <2>2. InHand = {} /\ InHand' = {}
      BY <1>4, <2>1, EmptyHands DEF InHand
    <2>3. w # NoRequest => w \in Waiters(Ids)
      BY <1>1 DEF Waiters
    <2>4. NoRequest \notin Unanswered /\ r # NoRequest
      BY RequestAssumption DEF Unanswered, TypeInv, TypeOK
    <2>5. /\ Unanswered' = Unanswered \ {w, r}
          /\ \A q \in Requests \ sent : reply'[q] = "none"
      <3> DEFINE f == [q \in {w, r} |-> IF q = r THEN "ok" ELSE "sdp"]
      <3>1. (\A q \in DOMAIN f : f[q] # "none") /\ reply' = Answered(f) /\ DOMAIN f = {w, r}
        BY <1>4
      <3> HIDE DEF f
      <3>2. Unanswered' = Unanswered \ {w, r}
        BY <1>1, <3>1, AnswersLeave DEF CallsInv, clients
      <3>3. r \in sent /\ (w \in Requests => w \in sent)
        BY <2>1, <2>3, RequestAssumption DEF CallsInv, EachCallIsHeldOnce, Unanswered
      <3>4. \A q \in Requests \ sent : q \notin DOMAIN f
        BY <3>1, <3>3
      <3>5. \A q \in Requests \ sent : reply'[q] = "none"
        BY <3>1, <3>4 DEF Answered, CallsInv, HandsOK
      <3> QED BY <3>2, <3>5
    <2>6. /\ Waiters(Ids)' = Waiters(Ids) \ {w}
          /\ \A i \in Ids : conn'[i].waiter # NoRequest => Target[conn'[i].waiter] = i
          /\ \A i \in Ids : ~Mapped(i)' => conn'[i].waiter = NoRequest
      <3> DEFINE e == Established(conn[id])
      <3>1. e \in Entries /\ e.waiter = NoRequest /\ conn' = [conn EXCEPT ![id] = e]
        <4>1. conn[id] \in Entries
          BY <1>1 DEF TypeInv, TypeOK
        <4> QED BY <1>4, <4>1 DEF Established, Entries, States
      <3> HIDE DEF e
      <3>2. /\ Waiters(Ids)' = (Waiters(Ids) \ {w}) \cup ({e.waiter} \ {NoRequest})
            /\ \A i \in Ids : conn'[i].waiter # NoRequest => Target[conn'[i].waiter] = i
            /\ \A i \in Ids : ~Mapped(i)' => conn'[i].waiter = NoRequest
        BY <1>1, <3>1, EntryChanges
      <3> QED BY <3>1, <3>2
    <2>7. HandsOK'
      BY <1>1, <1>4, <2>1, <2>5, <2>6 DEF CallsInv, HandsOK, clients
    <2>8. Unanswered' = Queued' \cup InHand' \cup Waiters(Ids)'
      BY <2>1, <2>2, <2>3, <2>4, <2>5, <2>6 DEF CallsInv, EachCallIsHeldOnce
    <2>9. /\ Queued' \cap InHand' = {} /\ Queued' \cap Waiters(Ids)' = {}
          /\ InHand' \cap Waiters(Ids)' = {}
      BY <2>1, <2>2, <2>6 DEF CallsInv, EachCallIsHeldOnce
    <2>10. act'.req # NoRequest => act'.req # act'.entry.waiter
      BY <1>4 DEF CallsInv, EachCallIsHeldOnce
    <2> QED BY <2>1, <2>6, <2>7, <2>8, <2>9, <2>10, CallsBalance
  <1> QED BY <1>2, <1>3, <1>4 DEF AnswerReceived

\* A DELETE takes the entry and its own call in hand.
LEMMA RemoveCalls ==
    ASSUME TypeInv, CallsInv, NEW r \in Requests, RemoveConnection(r)
    PROVE  CallsInv'
  <1> DEFINE id == Target[r]
  <1> DEFINE w == conn[id].waiter
  <1>1. Receive(r) /\ UNCHANGED clients /\ id \in Ids
    BY RequestAssumption DEF RemoveConnection
  <1>2. CASE Refuse(r, "NotFound")
    BY <1>1, <1>2, RefuseCalls
  <1>3. CASE Mapped(id) /\ Terminate(id, "Deleted", r, {}, {})
    <2>1. /\ Queued' = Queued \ {r} /\ r \in Queued /\ act.pc = "select"
          /\ \A i, j \in 1..Len(mailbox') : mailbox'[i] = mailbox'[j] => i = j
      BY <1>1, ReceiveLeaves DEF CallsInv
    <2>2. "Deleted" \in Reasons /\ Policy("Deleted").teardown = "Required"
      BY DEF Reasons, Policy
    <2>3. {} \subseteq Unanswered /\ sent' = sent
      BY <1>1 DEF clients
    <2>4. /\ HandsOK'
          /\ \A i \in Ids : conn'[i].waiter # NoRequest => Target[conn'[i].waiter] = i
          /\ Waiters(Ids)' = Waiters(Ids) \ {w}
          /\ InHand' = {r} \cup ({w} \ {NoRequest}) /\ Unanswered' = Unanswered
          /\ act'.req = r /\ act'.entry.waiter = w
      BY <1>1, <1>3, <2>1, <2>2, <2>3, TerminateCalls
    <2>5. InHand = {}
      BY <2>1, EmptyHands
    <2>6. w # NoRequest => w \in Waiters(Ids)
      BY <1>1 DEF Waiters
    <2>7. r # w
      BY <2>1, <2>6, RequestAssumption DEF CallsInv, EachCallIsHeldOnce
    <2>8. Unanswered' = Queued' \cup InHand' \cup Waiters(Ids)'
      BY <2>1, <2>4, <2>5, <2>6 DEF CallsInv, EachCallIsHeldOnce, Waiters
    <2>9. /\ Queued' \cap InHand' = {} /\ Queued' \cap Waiters(Ids)' = {}
          /\ InHand' \cap Waiters(Ids)' = {}
      BY <2>1, <2>4, <2>6 DEF CallsInv, EachCallIsHeldOnce
    <2> QED BY <2>1, <2>4, <2>7, <2>8, <2>9, CallsBalance
  <1> QED BY <1>2, <1>3 DEF RemoveConnection

\* reset_all() answers every parked call, and those the caller adds.
LEMMA ResetAllCalls ==
    ASSUME TypeInv, CallsInv, NEW answers, \A q \in DOMAIN answers : answers[q] # "none",
           DOMAIN answers \subseteq sent, sent' = sent, ResetAll(answers)
    PROVE  /\ Unanswered' = Unanswered \ (Waiters(Ids) \cup DOMAIN answers)
           /\ \A q \in Requests \ sent : reply'[q] = "none"
           /\ Waiters(Ids)' = {}
           /\ \A id \in Ids : conn'[id].waiter = NoRequest /\ ~Mapped(id)'
  <1> DEFINE f == [r \in Waiters(Ids) \cup DOMAIN answers |->
                      IF r \in Waiters(Ids) THEN Policy("Reset").notice ELSE answers[r]]
  <1>1. /\ reply' = Answered(f) /\ DOMAIN f = Waiters(Ids) \cup DOMAIN answers
        /\ conn' = [id \in Ids |-> Absent]
    BY DEF ResetAll
  <1>2. Policy("Reset").notice # "none"
    BY DEF Policy
  <1>3. \A q \in DOMAIN f : f[q] # "none"
    BY <1>2
  <1> HIDE DEF f
  <1>4. Waiters(Ids) \subseteq sent
    BY DEF CallsInv, EachCallIsHeldOnce, Unanswered
  <1>5. /\ Unanswered' = Unanswered \ DOMAIN f
        /\ \A q \in Requests \ sent : reply'[q] = "none"
    BY <1>1, <1>3, <1>4, AnswersLeave DEF CallsInv
  <1>6. \A id \in Ids : conn'[id].waiter = NoRequest /\ ~Mapped(id)'
    BY <1>1, AbsentEntry DEF Mapped
  <1>7. Waiters(Ids)' = {}
    BY <1>6 DEF Waiters
  <1> QED BY <1>1, <1>5, <1>6, <1>7

\* The Reset command answers every parked call and its own.
LEMMA ResetCalls ==
    ASSUME TypeInv, CallsInv, NEW r \in Requests, Reset(r)
    PROVE  CallsInv'
  <1> DEFINE a == [q \in {r} |-> "ok"]
  <1>1. Receive(r) /\ sent' = sent /\ act' = act /\ ResetAll(a)
    BY DEF Reset, clients
  <1>2. /\ Queued' = Queued \ {r} /\ r \in Queued /\ act.pc = "select"
        /\ \A i, j \in 1..Len(mailbox') : mailbox'[i] = mailbox'[j] => i = j
    BY <1>1, ReceiveLeaves DEF CallsInv
  <1>3. DOMAIN a = {r} /\ (\A q \in DOMAIN a : a[q] # "none") /\ DOMAIN a \subseteq sent
    BY <1>2 DEF CallsInv, EachCallIsHeldOnce, Unanswered
  <1> HIDE DEF a
  <1>4. /\ Unanswered' = Unanswered \ (Waiters(Ids) \cup {r})
        /\ \A q \in Requests \ sent : reply'[q] = "none"
        /\ Waiters(Ids)' = {}
        /\ \A id \in Ids : conn'[id].waiter = NoRequest /\ ~Mapped(id)'
    BY <1>1, <1>3, ResetAllCalls
  <1>5. InHand = {} /\ InHand' = {}
    BY <1>1, <1>2, EmptyHands DEF InHand
  <1>6. HandsOK'
    BY <1>1, <1>2, <1>4 DEF CallsInv, HandsOK
  <1>7. Unanswered' = Queued' \cup InHand' \cup Waiters(Ids)'
    BY <1>2, <1>4, <1>5 DEF CallsInv, EachCallIsHeldOnce
  <1>8. act'.req # NoRequest => act'.req # act'.entry.waiter
    BY <1>1 DEF CallsInv, EachCallIsHeldOnce
  <1> QED BY <1>2, <1>4, <1>5, <1>6, <1>7, <1>8, CallsBalance

\* A connection ended by the actor on its own account.
LEMMA EndCalls ==
    ASSUME TypeInv, CallsInv, act.pc \in {"select", "sweeping"},
           NEW id \in Ids, Mapped(id), NEW reason \in {"Reaped", "Expired"}, NEW rest,
           Terminate(id, reason, NoRequest, {}, rest), UNCHANGED <<mailbox, clients>>
    PROVE  CallsInv'
  <1>1. reason \in Reasons /\ Policy(reason).teardown # "Required"
    BY DEF Reasons, Policy
  <1>2. {} \subseteq Unanswered /\ sent' = sent
    BY DEF clients
  <1>3. /\ HandsOK'
        /\ \A i \in Ids : conn'[i].waiter # NoRequest => Target[conn'[i].waiter] = i
        /\ Waiters(Ids)' = Waiters(Ids) \ {conn[id].waiter}
        /\ InHand' = {} /\ Unanswered' = Unanswered \ ({conn[id].waiter} \cup {})
        /\ act'.req = NoRequest
    BY <1>1, <1>2, TerminateCalls
  <1>4. /\ Queued' = Queued /\ InHand = {}
        /\ \A i, j \in 1..Len(mailbox') : mailbox'[i] = mailbox'[j] => i = j
    BY EmptyHands DEF Queued, CallsInv, EachCallIsHeldOnce
  <1>5. conn[id].waiter # NoRequest => conn[id].waiter \in Waiters(Ids)
    BY DEF Waiters
  <1>6. NoRequest \notin Unanswered
    BY RequestAssumption DEF Unanswered, TypeInv, TypeOK
  <1>7. Unanswered' = Queued' \cup InHand' \cup Waiters(Ids)'
    BY <1>3, <1>4, <1>5, <1>6 DEF CallsInv, EachCallIsHeldOnce
  <1>8. /\ Queued' \cap InHand' = {} /\ Queued' \cap Waiters(Ids)' = {}
        /\ InHand' \cap Waiters(Ids)' = {}
    BY <1>3, <1>4 DEF CallsInv, EachCallIsHeldOnce
  <1> QED BY <1>3, <1>4, <1>7, <1>8, CallsBalance

\* The actor turns from one connection to the next, or to its select loop,
\* with no call in hand before or after.
LEMMA TurnCalls ==
    ASSUME TypeInv, CallsInv, InHand = {}, UNCHANGED <<conn, mailbox, reply, clients>>,
           act'.pc \in {"select", "sweeping"}, act'.req = NoRequest,
           act'.entry.waiter = NoRequest
    PROVE  CallsInv'
  <1>1. /\ Unanswered' = Unanswered /\ Queued' = Queued /\ InHand' = {}
        /\ Waiters(Ids)' = Waiters(Ids) /\ sent' = sent
    BY DEF Unanswered, Queued, InHand, Waiters, clients
  <1>2. HandsOK'
    BY <1>1 DEF CallsInv, HandsOK, Mapped
  <1>3. EachCallIsHeldOnce'
    BY <1>1 DEF CallsInv, EachCallIsHeldOnce
  <1> QED BY <1>2, <1>3 DEF CallsInv

\* A bus report answers the parked call of its connection.
LEMMA ReapCalls ==
    ASSUME TypeInv, CallsInv, ReapBranch
    PROVE  CallsInv'
  <1>1. act.pc = "select" /\ UNCHANGED <<mailbox, clients>>
    BY DEF ReapBranch
  <1>2. PICK id \in Ids : id = Head(reports)
    BY QueueType DEF ReapBranch, TypeInv, TypeOK
  <1>3. CASE UNCHANGED <<conn, act, replies, watch>>
    BY <1>1, <1>3, CallsFrame DEF clients, replies
  <1>4. CASE Mapped(id) /\ Terminate(id, "Reaped", NoRequest, {}, {})
    BY <1>1, <1>4, EndCalls
  <1> QED BY <1>2, <1>3, <1>4 DEF ReapBranch

\* The sweep answers the parked calls it finds expired.
LEMMA SweepCalls ==
    ASSUME TypeInv, CallsInv, Sweep \/ SweepNext
    PROVE  CallsInv'
  <1>1. CASE Sweep
    <2>1. InHand = {} /\ UNCHANGED <<conn, mailbox, reply, clients>>
      BY <1>1, EmptyHands DEF Sweep, replies
    <2>2. act'.pc = "sweeping" /\ act'.req = NoRequest /\ act'.entry.waiter = NoRequest
      BY <1>1 DEF Sweep, Idle, Absent
    <2> QED BY <2>1, <2>2, TurnCalls
  <1>2. CASE SweepNext
    <2>1. PICK id \in act.rest :
            \/ Mapped(id) /\ Terminate(id, "Expired", NoRequest, {}, act.rest \ {id})
            \/ act' = Resume(act.rest \ {id}) /\ UNCHANGED <<conn, reply>>
      BY <1>2 DEF SweepNext
    <2>2. id \in Ids /\ act.pc = "sweeping" /\ UNCHANGED <<mailbox, clients>>
      BY <1>2 DEF SweepNext, TypeInv, TypeOK, Acts
    <2>3. CASE Mapped(id) /\ Terminate(id, "Expired", NoRequest, {}, act.rest \ {id})
      BY <2>2, <2>3, EndCalls
    <2>4. CASE act' = Resume(act.rest \ {id}) /\ UNCHANGED <<conn, reply>>
      BY <2>2, <2>4, EmptyHands, AbsentEntry, TurnCalls
    <2> QED BY <2>1, <2>3, <2>4
  <1> QED BY <1>1, <1>2

\* An await for a branch to be added ends, well or badly.
LEMMA AddCalls ==
    ASSUME TypeInv, CallsInv, BranchAdded \/ BranchRefused \/ AttachFails \/ AttachUndone
    PROVE  CallsInv'
  <1>1. /\ act.pc \in {"adding", "undoing"} /\ UNCHANGED <<mailbox, clients>>
        /\ act.req \in Requests /\ act.id \in Ids /\ act.req # NoRequest
        /\ act.entry.waiter = NoRequest /\ ~Mapped(act.id) /\ Target[act.req] = act.id
    BY RequestAssumption DEF BranchAdded, BranchRefused, AttachFails, AttachUndone, TypeInv,
                             ActorOK, CallsInv, HandsOK
  <1>2. InHand = {act.req} /\ Queued' = Queued /\ sent' = sent
    BY <1>1 DEF InHand, Queued, clients
  <1>3. \A i, j \in 1..Len(mailbox') : mailbox'[i] = mailbox'[j] => i = j
    BY <1>1 DEF CallsInv, EachCallIsHeldOnce
  <1>4. CASE AttachFails
    <2>1. act' = [act EXCEPT !.pc = "undoing"] /\ UNCHANGED <<conn, reply>>
      BY <1>4 DEF AttachFails, replies
    <2>2. /\ act'.pc = "undoing" /\ act'.req = act.req /\ act'.id = act.id
          /\ act'.entry = act.entry
      BY <2>1 DEF TypeInv, TypeOK, Acts
    <2>3. InHand' = InHand /\ Unanswered' = Unanswered /\ Waiters(Ids)' = Waiters(Ids)
      BY <1>2, <2>1, <2>2 DEF InHand, Unanswered, Waiters
    <2>4. HandsOK'
      BY <1>1, <1>2, <2>1, <2>2 DEF CallsInv, HandsOK, Mapped
    <2>5. EachCallIsHeldOnce'
      BY <1>2, <1>3, <2>1, <2>2, <2>3 DEF CallsInv, EachCallIsHeldOnce
    <2> QED BY <2>4, <2>5 DEF CallsInv
  <1>5. CASE /\ act' = Idle /\ conn' = conn
             /\ \E error : error # "none" /\ reply' = Told({act.req}, error)
    <2>1. Unanswered' = Unanswered \ {act.req} /\ act.req \in sent
      BY <1>2, <1>5, ToldLeave DEF CallsInv, EachCallIsHeldOnce, Unanswered
    <2>2. \A q \in Requests \ sent : reply'[q] = "none"
      BY <1>2, <1>5, <2>1, ToldLeave DEF CallsInv
    <2>3. InHand' = {} /\ Waiters(Ids)' = Waiters(Ids)
      BY <1>5, AbsentEntry DEF InHand, Waiters
    <2>4. HandsOK'
      BY <1>2, <1>5, <2>2, AbsentEntry DEF CallsInv, HandsOK, Mapped
    <2>5. /\ Unanswered' = Queued' \cup InHand' \cup Waiters(Ids)'
          /\ Queued' \cap InHand' = {} /\ Queued' \cap Waiters(Ids)' = {}
          /\ InHand' \cap Waiters(Ids)' = {}
      BY <1>2, <2>1, <2>3 DEF CallsInv, EachCallIsHeldOnce
    <2>6. /\ \A i \in Ids : conn'[i].waiter # NoRequest => Target[conn'[i].waiter] = i
          /\ act'.req # NoRequest => act'.req # act'.entry.waiter
      BY <1>5, AbsentEntry DEF CallsInv, EachCallIsHeldOnce
    <2> QED BY <1>3, <2>4, <2>5, <2>6, CallsBalance
  <1>6. CASE BranchAdded
    <2>1. /\ act' = Idle /\ reply' = reply
          /\ conn' = [conn EXCEPT ![act.id] = AwaitingOffer(act.req)]
      BY <1>6 DEF BranchAdded, replies
    <2>2. conn[act.id].waiter = NoRequest /\ NoRequest \notin Waiters(Ids)
      BY <1>1 DEF CallsInv, HandsOK, Waiters
    <2>3. /\ Waiters(Ids)' = Waiters(Ids) \cup {act.req}
          /\ \A i \in Ids : conn'[i].waiter # NoRequest => Target[conn'[i].waiter] = i
          /\ \A i \in Ids : ~Mapped(i)' => conn'[i].waiter = NoRequest
      <3> DEFINE e == AwaitingOffer(act.req)
      <3>1. /\ e \in Entries /\ e.waiter = act.req /\ e.state # "absent"
            /\ conn' = [conn EXCEPT ![act.id] = e]
        BY <1>1, <2>1 DEF AwaitingOffer, Entries, States, TypeInv, TypeOK
      <3> HIDE DEF e
      <3>2. /\ Waiters(Ids)' = (Waiters(Ids) \ {conn[act.id].waiter})
                                \cup ({e.waiter} \ {NoRequest})
            /\ \A i \in Ids : conn'[i].waiter # NoRequest => Target[conn'[i].waiter] = i
            /\ \A i \in Ids : ~Mapped(i)' => conn'[i].waiter = NoRequest
        BY <1>1, <3>1, EntryChanges
      <3> QED BY <1>1, <2>2, <3>1, <3>2
    <2>4. InHand' = {} /\ Unanswered' = Unanswered
      BY <1>2, <2>1, AbsentEntry DEF InHand, Unanswered
    <2>5. HandsOK'
      BY <1>2, <2>1, <2>3, AbsentEntry DEF CallsInv, HandsOK
    <2>6. /\ Unanswered' = Queued' \cup InHand' \cup Waiters(Ids)'
          /\ Queued' \cap InHand' = {} /\ Queued' \cap Waiters(Ids)' = {}
          /\ InHand' \cap Waiters(Ids)' = {}
      BY <1>2, <2>3, <2>4 DEF CallsInv, EachCallIsHeldOnce
    <2>7. act'.req # NoRequest => act'.req # act'.entry.waiter
      BY <2>1, AbsentEntry
    <2> QED BY <1>3, <2>3, <2>5, <2>6, <2>7, CallsBalance
  <1>7. CASE BranchRefused
    BY <1>5, <1>7 DEF BranchRefused
  <1>8. CASE AttachUndone
    BY <1>5, <1>8 DEF AttachUndone
  <1> QED BY <1>4, <1>6, <1>7, <1>8

\* A DELETE's await ends: the calls in hand are answered, or the waiter is
\* parked again and only the caller of the DELETE is answered.
LEMMA DeleteCalls ==
    ASSUME TypeInv, CallsInv, Deleted \/ DeleteFailed
    PROVE  CallsInv'
  <1> DEFINE w == act.entry.waiter
  <1>1. /\ act.pc = "deleting" /\ UNCHANGED <<mailbox, clients>> /\ act' = Idle
        /\ act.req \in Requests /\ act.id \in Ids /\ act.req # NoRequest
        /\ ~Mapped(act.id) /\ act.entry \in Entries /\ act.entry.state # "absent"
        /\ act.req # w /\ (w # NoRequest => Target[w] = act.id) /\ act.reason \in Reasons
    BY RequestAssumption DEF Deleted, DeleteFailed, TypeInv, TypeOK, Acts, ActorOK, CallsInv,
                             HandsOK, EachCallIsHeldOnce
  <1>2. /\ InHand = {act.req} \cup ({w} \ {NoRequest}) /\ InHand' = {} /\ Queued' = Queued
        /\ sent' = sent
    BY <1>1, AbsentEntry DEF InHand, Queued, clients
  <1>3. \A i, j \in 1..Len(mailbox') : mailbox'[i] = mailbox'[j] => i = j
    BY <1>1 DEF CallsInv, EachCallIsHeldOnce
  <1>4. InHand \subseteq Unanswered
    BY DEF CallsInv, EachCallIsHeldOnce
  <1>5. act'.req # NoRequest => act'.req # act'.entry.waiter
    BY <1>1, AbsentEntry
  <1>6. CASE Deleted
    <2> DEFINE f == [q \in ({w} \ {NoRequest}) \cup {act.req} |->
                        IF q \in {w} \ {NoRequest} THEN Policy(act.reason).notice ELSE "ok"]
    <2>1. reply' = Answered(f) /\ DOMAIN f = InHand /\ conn' = conn
      BY <1>2, <1>6 DEF Deleted
    <2>2. \A q \in DOMAIN f : f[q] # "none"
      BY <1>1 DEF Policy, Reasons
    <2> HIDE DEF f
    <2>3. Unanswered' = Unanswered \ InHand /\ \A q \in Requests \ sent : reply'[q] = "none"
      BY <1>2, <1>4, <2>1, <2>2, AnswersLeave DEF CallsInv, Unanswered
    <2>4. Waiters(Ids)' = Waiters(Ids)
      BY <2>1 DEF Waiters
    <2>5. HandsOK'
      BY <1>1, <1>2, <2>1, <2>3, AbsentEntry DEF CallsInv, HandsOK, Mapped
    <2>6. /\ Unanswered' = Queued' \cup InHand' \cup Waiters(Ids)'
          /\ Queued' \cap InHand' = {} /\ Queued' \cap Waiters(Ids)' = {}
          /\ InHand' \cap Waiters(Ids)' = {}
      BY <1>2, <2>3, <2>4 DEF CallsInv, EachCallIsHeldOnce
    <2>7. \A i \in Ids : conn'[i].waiter # NoRequest => Target[conn'[i].waiter] = i
      BY <2>1 DEF CallsInv, EachCallIsHeldOnce
    <2> QED BY <1>3, <1>5, <2>5, <2>6, <2>7, CallsBalance
  <1>7. CASE DeleteFailed
    <2>1. PICK error : error # "none" /\ reply' = Told({act.req}, error)
      BY <1>7 DEF DeleteFailed
    <2>2. /\ Unanswered' = Unanswered \ {act.req}
          /\ \A q \in Requests \ sent : reply'[q] = "none"
      BY <1>2, <1>4, <2>1, ToldLeave DEF CallsInv, Unanswered
    <2>3. conn[act.id].waiter = NoRequest /\ NoRequest \notin Waiters(Ids)
      BY <1>1 DEF CallsInv, HandsOK, Waiters
    <2>4. /\ Waiters(Ids)' = Waiters(Ids) \cup ({w} \ {NoRequest})
          /\ \A i \in Ids : conn'[i].waiter # NoRequest => Target[conn'[i].waiter] = i
          /\ \A i \in Ids : ~Mapped(i)' => conn'[i].waiter = NoRequest
      <3>1. conn' = [conn EXCEPT ![act.id] = act.entry]
        BY <1>7 DEF DeleteFailed
      <3>2. /\ Waiters(Ids)' = (Waiters(Ids) \ {conn[act.id].waiter}) \cup ({w} \ {NoRequest})
            /\ \A i \in Ids : conn'[i].waiter # NoRequest => Target[conn'[i].waiter] = i
            /\ \A i \in Ids : ~Mapped(i)' => conn'[i].waiter = NoRequest
        BY <1>1, <3>1, EntryChanges
      <3> QED BY <2>3, <3>2
    <2>5. HandsOK'
      BY <1>1, <1>2, <2>2, <2>4, AbsentEntry DEF CallsInv, HandsOK
    <2>6. /\ Unanswered' = Queued' \cup InHand' \cup Waiters(Ids)'
          /\ Queued' \cap InHand' = {} /\ Queued' \cap Waiters(Ids)' = {}
          /\ InHand' \cap Waiters(Ids)' = {}
      BY <1>1, <1>2, <2>2, <2>4 DEF CallsInv, EachCallIsHeldOnce
    <2> QED BY <1>3, <1>5, <2>4, <2>5, <2>6, CallsBalance
  <1> QED BY <1>6, <1>7

\* A BestEffort teardown ends; a trip answers every parked call.
LEMMA DetachedCalls ==
    ASSUME TypeInv, CallsInv, Detached
    PROVE  CallsInv'
  <1>1. /\ act.pc = "detaching" /\ UNCHANGED <<mailbox, clients>> /\ act' = Resume(act.rest)
        /\ FeedWatchdog(act.reason)
    BY DEF Detached
  <1>2. InHand = {}
    BY <1>1 DEF CallsInv, HandsOK, InHand
  <1>3. CASE UNCHANGED <<conn, reply>>
    BY <1>1, <1>2, <1>3, AbsentEntry, TurnCalls
  <1>4. CASE ResetAll(<< >>)
    <2>1. DOMAIN << >> = {} /\ sent' = sent
      BY <1>1 DEF clients
    <2>2. /\ Unanswered' = Unanswered \ (Waiters(Ids) \cup DOMAIN << >>)
          /\ \A q \in Requests \ sent : reply'[q] = "none"
          /\ Waiters(Ids)' = {}
          /\ \A id \in Ids : conn'[id].waiter = NoRequest /\ ~Mapped(id)'
      BY <1>4, <2>1, ResetAllCalls
    <2>3. InHand' = {} /\ Queued' = Queued
      BY <1>1, AbsentEntry DEF InHand, Queued
    <2>4. HandsOK'
      BY <1>1, <2>1, <2>2, AbsentEntry DEF CallsInv, HandsOK
    <2>5. /\ Unanswered' = Queued' \cup InHand' \cup Waiters(Ids)'
          /\ Queued' \cap InHand' = {} /\ Queued' \cap Waiters(Ids)' = {}
          /\ InHand' \cap Waiters(Ids)' = {}
      BY <1>2, <2>1, <2>2, <2>3 DEF CallsInv, EachCallIsHeldOnce
    <2>6. /\ act'.req # NoRequest => act'.req # act'.entry.waiter
          /\ \A i, j \in 1..Len(mailbox') : mailbox'[i] = mailbox'[j] => i = j
      BY <1>1, AbsentEntry DEF CallsInv, EachCallIsHeldOnce
    <2> QED BY <2>2, <2>4, <2>5, <2>6, CallsBalance
  <1> QED BY <1>1, <1>3, <1>4 DEF FeedWatchdog

\* Sending puts a call into the mailbox; vanishing moves none.
LEMMA CallerCalls ==
    ASSUME TypeInv, CallsInv, NEW r \in Requests, Call(r) \/ SendReset(r) \/ Vanish(r)
    PROVE  CallsInv'
  <1>1. CASE Vanish(r)
    BY <1>1, CallsFrame DEF Vanish, replies
  <1>2. CASE Call(r) \/ SendReset(r)
    <2>1. Send(r) /\ UNCHANGED <<conn, act, reply>> /\ sent' = sent \cup {r}
      BY <1>2 DEF Call, SendReset, Send, replies
    <2>2. /\ Queued' = Queued \cup {r} /\ r \notin Unanswered
          /\ \A i, j \in 1..Len(mailbox') : mailbox'[i] = mailbox'[j] => i = j
      BY <2>1, SendEnters
    <2>3. Unanswered' = Unanswered \cup {r}
      BY <2>1 DEF Unanswered, Send, CallsInv, HandsOK
    <2>4. InHand' = InHand /\ Waiters(Ids)' = Waiters(Ids)
      BY <2>1 DEF InHand, Waiters
    <2>5. HandsOK'
      BY <2>1 DEF CallsInv, HandsOK, Mapped
    <2>6. /\ Unanswered' = Queued' \cup InHand' \cup Waiters(Ids)'
          /\ Queued' \cap InHand' = {} /\ Queued' \cap Waiters(Ids)' = {}
          /\ InHand' \cap Waiters(Ids)' = {}
      BY <2>2, <2>3, <2>4 DEF CallsInv, EachCallIsHeldOnce
    <2>7. /\ \A i \in Ids : conn'[i].waiter # NoRequest => Target[conn'[i].waiter] = i
          /\ act'.req # NoRequest => act'.req # act'.entry.waiter
      BY <2>1 DEF CallsInv, EachCallIsHeldOnce
    <2> QED BY <2>2, <2>5, <2>6, <2>7, CallsBalance
  <1> QED BY <1>1, <1>2

\* Time that passes moves no call.
LEMMA ClockCalls ==
    ASSUME TypeInv, CallsInv, WindowPasses \/ \E id \in Ids : DeadlinePasses(id)
    PROVE  CallsInv'
  <1>1. CASE WindowPasses
    BY <1>1, CallsFrame DEF WindowPasses, clients, replies
  <1>2. ASSUME NEW id \in Ids, DeadlinePasses(id)
        PROVE  CallsInv'
    <2>1. UNCHANGED <<mailbox, act, sent, reply>>
      BY <1>2 DEF DeadlinePasses, clients, replies
    <2>2. \A i \in Ids : conn'[i].waiter = conn[i].waiter /\ conn'[i].state = conn[i].state
      BY <1>2 DEF DeadlinePasses, TypeInv, TypeOK, Entries
    <2>3. /\ Waiters(Ids)' = Waiters(Ids) /\ InHand' = InHand /\ Queued' = Queued
          /\ Unanswered' = Unanswered
      BY <2>1, <2>2 DEF Waiters, InHand, Queued, Unanswered
    <2>4. \A i \in Ids : Mapped(i)' <=> Mapped(i)
      BY <2>2 DEF Mapped
    <2>5. HandsOK'
      <3>1. act.pc \in {"adding", "undoing", "deleting"} => act.id \in Ids
        BY DEF TypeInv, ActorOK
      <3> QED BY <2>1, <2>2, <2>4, <3>1 DEF CallsInv, HandsOK
    <2>6. EachCallIsHeldOnce'
      BY <2>1, <2>2, <2>3 DEF CallsInv, EachCallIsHeldOnce
    <2> QED BY <2>5, <2>6 DEF CallsInv
  <1> QED BY <1>1, <1>2

\* What the supervisor and the pipeline do, the reset apart, moves no call.
LEMMA PipelineCalls ==
    ASSUME TypeInv, CallsInv,
           \/ PipelineInits \/ InitFails \/ PipelineStarts \/ InputReady \/ TakeRestart
           \/ PipelineStops \/ ResetTimesOut \/ \E id \in Ids : BranchFails(id)
    PROVE  CallsInv'
  <1>1. UNCHANGED <<mailbox, act, conn, sent, reply>>
    BY DEF PipelineInits, InitFails, PipelineStarts, InputReady, PipelineMoves, TakeRestart,
           PipelineStops, ResetTimesOut, BranchFails, clients, replies
  <1> QED BY <1>1, CallsFrame

\* Nothing is held, and nothing was sent, in the initial state.
LEMMA InitCalls == Init => CallsInv
  <1> SUFFICES ASSUME Init PROVE CallsInv
    OBVIOUS
  <1>1. Unanswered = {} /\ Queued = {} /\ InHand = {} /\ Waiters(Ids) = {}
    BY AbsentEntry DEF Init, Unanswered, Queued, InHand, Waiters
  <1>2. HandsOK
    BY AbsentEntry DEF Init, HandsOK
  <1>3. /\ Len(mailbox) = 0 /\ act.req = NoRequest
        /\ \A id \in Ids : conn[id].waiter = NoRequest
    BY AbsentEntry DEF Init
  <1>4. EachCallIsHeldOnce
    BY <1>1, <1>3 DEF EachCallIsHeldOnce
  <1> QED BY <1>2, <1>4 DEF CallsInv

\* Every step keeps each call in its one place.
LEMMA NextCalls ==
    ASSUME TypeInv, CallsInv, [Next]_vars
    PROVE  CallsInv'
  <1>1. CASE Actor
    BY <1>1, CreateCalls, OfferCalls, AnswerCalls, RemoveCalls, ResetCalls, ReapCalls,
       SweepCalls, AddCalls, DeleteCalls, DetachedCalls DEF Actor, Handle, Await
  <1>2. CASE Callers
    BY <1>2, CallerCalls DEF Callers
  <1>3. CASE Clock
    BY <1>3, ClockCalls DEF Clock
  <1>4. CASE Supervisor
    BY <1>4, CallerCalls, PipelineCalls DEF Supervisor
  <1>5. CASE UNCHANGED vars
    BY <1>5, CallsFrame DEF vars, clients, replies
  <1> QED BY <1>1, <1>2, <1>3, <1>4, <1>5 DEF Next

(***************************************************************************)
(* A call without an answer is in exactly one place, the mailbox, the      *)
(* running handler or one connection, and a call with an answer is in      *)
(* none: no handler, sweep, delete, reap, reset or trip loses a caller or  *)
(* could answer one twice.                                                 *)
(***************************************************************************)
THEOREM CallsHeldOnce == Spec => []EachCallIsHeldOnce
  <1>1. Init => TypeInv /\ CallsInv
    BY InitType, InitCalls
  <1>2. TypeInv /\ CallsInv /\ [Next]_vars => (TypeInv /\ CallsInv)'
    BY NextType, NextCalls
  <1>3. CallsInv => EachCallIsHeldOnce
    BY DEF CallsInv
  <1> QED BY <1>1, <1>2, <1>3, PTL DEF Spec
=============================================================================
