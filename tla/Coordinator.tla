---------------------------- MODULE Coordinator ----------------------------
(***************************************************************************)
(* The signaling actor of src/signal/coordinator.rs, its mailbox, and the  *)
(* HTTP calls that meet in it.  One viewer's handshake is a create (WHEP   *)
(* POST), an offer (loopback WHIP POST) and an answer (WHEP PATCH); the    *)
(* first two are parked inside the connection until the next one comes.    *)
(*                                                                         *)
(* The actor is split where the code awaits the pipeline: between the      *)
(* steps of one handler calls arrive, clients vanish, deadlines pass and   *)
(* the pipeline stops.  What the supervisor and the pipeline do to the     *)
(* actor is at the end of the module.                                      *)
(***************************************************************************)
EXTENDS WatchdogCount, Integers, Sequences, FiniteSets

CONSTANTS
    Ids,            \* connection ids
    Requests,       \* calls on SignalHandle and ResetHandle, each made once
    NoId, NoRequest,
    Kind,           \* which call a request is
    Target,         \* the connection it names
    MailboxCap,     \* mpsc::channel(64) in spawn_coordinator
    FailureCap,     \* startup.rs BRANCH_FAILURE_CAPACITY
    MaxRuns,        \* bound: the supervisor starts the pipeline this often
    ResetMayTimeOut \* whether RESET_TIMEOUT may cut a reset call short

Kinds == {"create", "offer", "answer", "remove", "reset"}

ASSUME RequestAssumption ==
    /\ NoId \notin Ids
    /\ NoRequest \notin Requests
    /\ Kind \in [Requests -> Kinds]
    /\ Target \in [Requests -> Ids]
    /\ MailboxCap \in Nat \ {0}
    /\ FailureCap \in Nat \ {0}
    /\ MaxRuns \in Nat
    /\ ResetMayTimeOut \in BOOLEAN

VARIABLES
    conn,       \* the connection map, with an Absent entry where it has none
    mailbox,    \* commands sent and not yet received
    act,        \* where the actor stands: between handlers or in an await
    dog,        \* the watchdog
    sent,       \* requests handed to the mailbox
    reply,      \* what each request was answered
    sdp,        \* for a request answered with an SDP, the request that brought it
    gone,       \* requests whose caller has dropped the receiver
    pipeline,   \* the pipeline as the supervisor drives it
    run,        \* how many times it was started
    attached,   \* branches in the current pipeline
    broken,     \* those whose elements have posted an error
    reports,    \* the branch_failures channel
    restart,    \* the one-slot restart channel
    failed,     \* history: handshakes that failed since the watchdog was cleared
    suspect,    \* history: branches whose attach or detach was reported failed
    tripRun     \* history: the run in which the watchdog last tripped

clients == <<sent, gone>>
replies == <<reply, sdp>>
stream == <<pipeline, run, attached, broken, reports, suspect>>
watch == <<dog, restart, failed, tripRun>>
vars == <<conn, mailbox, act, clients, replies, stream, watch>>

States == {"absent", "awaiting_offer", "awaiting_answer", "established"}
Errors == {"NotFound", "WrongState", "Gone", "Timeout", "NotReady",
           "PipelineBusy", "Pipeline", "Unavailable"}
\* "none": not answered; "lost": answered after its caller had gone.
Outcomes == {"none", "lost", "ok", "sdp"} \cup Errors
Reasons == {"Deleted", "Expired", "PeerGone", "Reaped", "Reset"}
Places == {"select", "sweeping", "adding", "undoing", "deleting", "detaching"}
Pipelines == {"none", "init", "starting", "ready", "quitting", "stopped"}

Entries == [state : States, whep : Requests \cup {NoRequest},
            waiter : Requests \cup {NoRequest}, due : BOOLEAN, run : Nat]

\* Where the actor stands: in its select loop, among the expired ids of a
\* sweep, or in an await for the connection `id`, with the request it still
\* has to answer, the entry it has taken out, and what is left of the sweep.
Acts == [pc : Places, req : Requests \cup {NoRequest}, id : Ids \cup {NoId},
         reason : Reasons, entry : Entries, rest : SUBSET Ids]

\* No entry in the map.
Absent == [state |-> "absent", whep |-> NoRequest, waiter |-> NoRequest,
           due |-> FALSE, run |-> 0]

\* ConnectionState::awaiting_offer and so on; `whep` and `run` are history:
\* the create that opened the connection, and the pipeline run it joined.
AwaitingOffer(r) == [state |-> "awaiting_offer", whep |-> r, waiter |-> r,
                     due |-> FALSE, run |-> run]
AwaitingAnswer(e, r) == [e EXCEPT !.state = "awaiting_answer", !.waiter = r, !.due = FALSE]
\* A mutant: the deadline of the handshake survives it.
Mutant_EstablishedKeepsDeadline(e) ==
    [e EXCEPT !.state = "established", !.waiter = NoRequest]
Established(e) == [e EXCEPT !.state = "established", !.waiter = NoRequest, !.due = FALSE]

Mapped(id) == conn[id].state # "absent"
Waiters(ids) == {conn[id].waiter : id \in ids} \ {NoRequest}

\* The actor waiting in its select loop.
Idle == [pc |-> "select", req |-> NoRequest, id |-> NoId, reason |-> "Reset",
         entry |-> Absent, rest |-> {}]

\* Replies sent: f gives each request it names its answer.
Answered(f) ==
    [r \in Requests |-> IF r \notin DOMAIN f THEN reply[r]
                        ELSE IF r \in gone THEN "lost" ELSE f[r]]
Told(rs, outcome) == Answered([r \in rs |-> outcome])

-----------------------------------------------------------------------------
(***************************************************************************)
(* Termination: the policy table, and the one way a connection ends.       *)
(***************************************************************************)

\* A mutant: reaps feed the watchdog.
Mutant_PolicyReapedFeeds(reason) ==
    CASE reason = "Deleted"  -> [notice |-> "Gone", teardown |-> "Required", feeds_watchdog |-> FALSE]
      [] reason = "Reset"    -> [notice |-> "Unavailable", teardown |-> "Keep", feeds_watchdog |-> FALSE]
      [] OTHER -> [notice |-> "Gone", teardown |-> "BestEffort", feeds_watchdog |-> TRUE]

Policy(reason) ==
    CASE reason = "Deleted"  -> [notice |-> "Gone", teardown |-> "Required", feeds_watchdog |-> FALSE]
      [] reason = "Expired"  -> [notice |-> "Timeout", teardown |-> "BestEffort", feeds_watchdog |-> TRUE]
      [] reason = "PeerGone" -> [notice |-> "Gone", teardown |-> "BestEffort", feeds_watchdog |-> TRUE]
      [] reason = "Reaped"   -> [notice |-> "Gone", teardown |-> "BestEffort", feeds_watchdog |-> FALSE]
      [] reason = "Reset"    -> [notice |-> "Unavailable", teardown |-> "Keep", feeds_watchdog |-> FALSE]

(***************************************************************************)
(* terminate() up to its await, for an id that is in the map: a Required   *)
(* teardown keeps the entry in hand, a BestEffort one tells the waiter     *)
(* first.  `told` adds the reply the calling handler sends before it; an   *)
(* entry whose caller has gone is told nothing either way.                 *)
(***************************************************************************)
Terminate(id, reason, req, told, rest) ==
    LET e == conn[id]
        required == Policy(reason).teardown = "Required"
    IN  /\ conn' = [conn EXCEPT ![id] = Absent]
        /\ act' = [pc |-> IF required THEN "deleting" ELSE "detaching", req |-> req,
                   id |-> id, reason |-> reason,
                   entry |-> IF required THEN e ELSE [e EXCEPT !.waiter = NoRequest],
                   rest |-> rest]
        /\ reply' = IF required THEN reply
                    ELSE Told(Waiters({id}) \cup told, Policy(reason).notice)

\* A mutant: the map is cleared, its waiters are not told.
Mutant_ResetAllSilently(answers) ==
    /\ conn' = [id \in Ids |-> Absent]
    /\ reply' = Answered(answers)

\* reset_all(): the Reset row for the whole map; `answers` is what the caller adds.
ResetAll(answers) ==
    /\ conn' = [id \in Ids |-> Absent]
    /\ reply' = Answered([r \in Waiters(Ids) \cup DOMAIN answers |->
                             IF r \in Waiters(Ids) THEN Policy("Reset").notice ELSE answers[r]])

\* terminate() after its await: feed the watchdog, and on a trip fail everyone.
FeedWatchdog(reason) ==
    IF ~Policy(reason).feeds_watchdog THEN UNCHANGED <<conn, reply, dog, restart, tripRun>>
    ELSE /\ dog' = Failed(dog)
         /\ IF Trips(dog)
            THEN /\ ResetAll(<< >>)
                 /\ restart' = TRUE
                 /\ tripRun' = run
            ELSE UNCHANGED <<conn, reply, restart, tripRun>>

-----------------------------------------------------------------------------
(***************************************************************************)
(* Handlers.                                                               *)
(***************************************************************************)

\* The select loop takes r from the mailbox.
Receive(r) ==
    /\ act.pc = "select"
    /\ mailbox # << >>
    /\ r = Head(mailbox)
    /\ mailbox' = Tail(mailbox)

\* The handler answers r and returns.
Refuse(r, error) ==
    /\ reply' = Told({r}, error)
    /\ UNCHANGED <<conn, act, sdp, watch>>

CreateConnection(r) ==
    /\ Kind[r] = "create" /\ Receive(r)
    /\ \/ Mapped(Target[r]) /\ Refuse(r, "WrongState")
       \/ /\ ~Mapped(Target[r])
          /\ act' = [Idle EXCEPT !.pc = "adding", !.req = r, !.id = Target[r]]
          /\ UNCHANGED <<conn, replies, watch>>
    /\ UNCHANGED <<clients, stream>>

\* add_branch returned Ok: the elements, named after the id, were not there before.
BranchAdded ==
    /\ act.pc = "adding"
    /\ pipeline \in {"ready", "quitting"}
    /\ act.id \notin attached
    /\ attached' = attached \cup {act.id}
    /\ conn' = [conn EXCEPT ![act.id] = AwaitingOffer(act.req)]
    /\ act' = Idle
    /\ UNCHANGED <<mailbox, clients, replies, watch, pipeline, run, broken, reports, suspect>>

\* add_branch failed before it attached anything: the input is not there, or not
\* any more (a pad without its tee), the state lock timed out, or the pipeline
\* lacks an element it must have.
BranchRefused ==
    /\ act.pc = "adding"
    /\ \E error \in {"NotReady", "PipelineBusy", "Pipeline"} :
        /\ error = "Pipeline" => pipeline \in {"starting", "ready", "quitting"}
        /\ reply' = Told({act.req}, error)
    /\ act' = Idle
    /\ UNCHANGED <<conn, mailbox, clients, sdp, watch, stream>>

\* A mutant: the half-built branch is left to whoever comes next.
Mutant_AttachFailsAndLeaves ==
    /\ act.pc = "adding"
    /\ pipeline \in {"ready", "quitting"}
    /\ attached' = attached \cup {act.id}
    /\ reply' = Told({act.req}, "Pipeline")
    /\ act' = Idle
    /\ UNCHANGED <<conn, mailbox, clients, sdp, watch, pipeline, run, broken, reports, suspect>>

\* The attach failed half-way: add_branch detaches what it built.
AttachFails ==
    /\ act.pc = "adding"
    /\ pipeline \in {"ready", "quitting"}
    /\ attached' = attached \cup {act.id}
    /\ act' = [act EXCEPT !.pc = "undoing"]
    /\ UNCHANGED <<conn, mailbox, clients, replies, watch, pipeline, run, broken, reports, suspect>>

(***************************************************************************)
(* How a detach may end: Ok takes the elements away; the other ways (state *)
(* lock or teardown bound timed out, no pipeline, an element that would    *)
(* not stop) may or may not.  Ok is possible after the pipeline has gone,  *)
(* because a detach holds a handle to the pipeline it started with.        *)
(***************************************************************************)
RemoveBranch(ok) ==
    /\ attached' \in IF ok THEN {attached \ {act.id}} ELSE {attached, attached \ {act.id}}
    /\ suspect' = IF ok THEN suspect ELSE suspect \cup {act.id}
    /\ broken' = broken \cap attached'
    /\ UNCHANGED <<pipeline, run, reports>>

\* The detach after a failed attach ended: only one that was cut off, and so
\* did not end well, is reported as PipelineBusy.
AttachUndone ==
    /\ act.pc = "undoing"
    /\ \E ok \in BOOLEAN, error \in {"PipelineBusy", "Pipeline"} :
        /\ ok => error = "Pipeline"
        /\ RemoveBranch(ok)
        /\ reply' = Told({act.req}, error)
    /\ act' = Idle
    /\ UNCHANGED <<conn, mailbox, clients, sdp, watch>>

\* A mutant: an offer may displace the one that is parked already.
Mutant_TakesAnyOffer(e) == e.state \in {"awaiting_offer", "awaiting_answer"}
\* The state in which an offer is delivered.
TakesOffer(e) == e.state = "awaiting_offer"

OfferReceived(r) ==
    LET id == Target[r]
        e == conn[id]
    IN  /\ Kind[r] = "offer" /\ Receive(r)
        /\ \/ ~Mapped(id) /\ Refuse(r, "NotFound")
           \/ Mapped(id) /\ ~TakesOffer(e) /\ Refuse(r, "WrongState")
           \/ /\ TakesOffer(e) /\ e.waiter \notin gone
              /\ reply' = Told({e.waiter}, "sdp")
              /\ sdp' = [sdp EXCEPT ![e.waiter] = r]
              /\ conn' = [conn EXCEPT ![id] = AwaitingAnswer(e, r)]
              /\ UNCHANGED <<act, watch>>
           \/ /\ TakesOffer(e) /\ e.waiter \in gone
              /\ Terminate(id, "PeerGone", NoRequest, {r}, {})
              /\ UNCHANGED <<sdp, watch>>
        /\ UNCHANGED <<clients, stream>>

AnswerReceived(r) ==
    LET id == Target[r]
        e == conn[id]
    IN  /\ Kind[r] = "answer" /\ Receive(r)
        /\ \/ ~Mapped(id) /\ Refuse(r, "NotFound")
           \/ e.state \in {"awaiting_offer", "established"} /\ Refuse(r, "WrongState")
           \/ /\ e.state = "awaiting_answer" /\ e.waiter \notin gone
              /\ reply' = Answered([q \in {e.waiter, r} |-> IF q = r THEN "ok" ELSE "sdp"])
              /\ sdp' = [sdp EXCEPT ![e.waiter] = r]
              /\ conn' = [conn EXCEPT ![id] = Established(e)]
              /\ dog' = Clean
              /\ failed' = {}
              /\ UNCHANGED <<act, restart, tripRun>>
           \/ /\ e.state = "awaiting_answer" /\ e.waiter \in gone
              /\ Terminate(id, "PeerGone", NoRequest, {r}, {})
              /\ UNCHANGED <<sdp, watch>>
        /\ UNCHANGED <<clients, stream>>

RemoveConnection(r) ==
    LET id == Target[r]
    IN  /\ Kind[r] = "remove" /\ Receive(r)
        /\ \/ ~Mapped(id) /\ Refuse(r, "NotFound")
           \/ /\ Mapped(id)
              /\ Terminate(id, "Deleted", r, {}, {})
              /\ UNCHANGED <<sdp, watch>>
        /\ UNCHANGED <<clients, stream>>

Reset(r) ==
    /\ Kind[r] = "reset" /\ Receive(r)
    /\ ResetAll([q \in {r} |-> "ok"])
    /\ dog' = Clean
    /\ failed' = {}
    /\ UNCHANGED <<act, sdp, clients, stream, restart, tripRun>>

\* A mutant: only a handshake is ended by a report.
Mutant_ReapBranchInHandshake ==
    /\ act.pc = "select"
    /\ reports # << >>
    /\ reports' = Tail(reports)
    /\ LET id == Head(reports)
       IN  \/ /\ conn[id].state \in {"absent", "established"}
              /\ UNCHANGED <<conn, act, replies, watch>>
           \/ /\ conn[id].state \in {"awaiting_offer", "awaiting_answer"}
              /\ Terminate(id, "Reaped", NoRequest, {}, {})
              /\ UNCHANGED <<sdp, watch>>
    /\ UNCHANGED <<mailbox, clients, pipeline, run, attached, broken, suspect>>

\* The select loop takes a bus report: reap_branch, unless the id is gone already.
ReapBranch ==
    /\ act.pc = "select"
    /\ reports # << >>
    /\ reports' = Tail(reports)
    /\ LET id == Head(reports)
       IN  \/ ~Mapped(id) /\ UNCHANGED <<conn, act, replies, watch>>
           \/ /\ Mapped(id)
              /\ Terminate(id, "Reaped", NoRequest, {}, {})
              /\ UNCHANGED <<sdp, watch>>
    /\ UNCHANGED <<mailbox, clients, pipeline, run, attached, broken, suspect>>

\* A mutant: the answer leg has no deadline.
Mutant_DueOffersOnly == {id \in Ids : conn[id].due /\ conn[id].state = "awaiting_offer"}
\* Connections whose handshake deadline has passed.
Due == {id \in Ids : conn[id].due}

\* A sweep tick that finds something: the expired ids are collected first...
Sweep ==
    /\ act.pc = "select"
    /\ Due # {}
    /\ act' = [Idle EXCEPT !.pc = "sweeping", !.rest = Due]
    /\ UNCHANGED <<conn, mailbox, clients, replies, stream, watch>>

\* Where the actor goes when it is done with one connection.
Resume(rest) == IF rest = {} THEN Idle ELSE [Idle EXCEPT !.pc = "sweeping", !.rest = rest]

\* ...and then terminated one by one; one that a trip has taken meanwhile is skipped.
SweepNext ==
    /\ act.pc = "sweeping"
    /\ \E id \in act.rest :
          \/ /\ Mapped(id)
             /\ Terminate(id, "Expired", NoRequest, {}, act.rest \ {id})
             /\ UNCHANGED watch
          \/ /\ ~Mapped(id)
             /\ act' = Resume(act.rest \ {id})
             /\ UNCHANGED <<conn, reply, watch>>
    /\ UNCHANGED <<mailbox, clients, sdp, stream>>

\* A DELETE's teardown worked: only now the parked waiter and the caller learn.
Deleted ==
    /\ act.pc = "deleting"
    /\ RemoveBranch(TRUE)
    /\ reply' = LET w == {act.entry.waiter} \ {NoRequest}
                IN  Answered([q \in w \cup {act.req} |->
                                 IF q \in w THEN Policy(act.reason).notice ELSE "ok"])
    /\ act' = Idle
    /\ UNCHANGED <<conn, mailbox, clients, sdp, watch>>

\* A mutant: the entry is gone although the DELETE failed.
Mutant_DeleteFailedForgets ==
    /\ act.pc = "deleting"
    /\ RemoveBranch(FALSE)
    /\ \E error \in {"PipelineBusy", "Pipeline"} : reply' = Told({act.req}, error)
    /\ act' = Idle
    /\ UNCHANGED <<conn, mailbox, clients, sdp, watch>>

\* A DELETE's teardown failed: the entry is restored, the caller may retry.
DeleteFailed ==
    /\ act.pc = "deleting"
    /\ RemoveBranch(FALSE)
    /\ conn' = [conn EXCEPT ![act.id] = act.entry]
    /\ \E error \in {"PipelineBusy", "Pipeline"} : reply' = Told({act.req}, error)
    /\ act' = Idle
    /\ UNCHANGED <<mailbox, clients, sdp, watch>>

\* A BestEffort teardown ended, well or badly.
Detached ==
    /\ act.pc = "detaching"
    /\ \E ok \in BOOLEAN : RemoveBranch(ok)
    /\ FeedWatchdog(act.reason)
    /\ failed' = IF act.reason \notin {"Expired", "PeerGone"} THEN failed
                 ELSE IF Trips(dog) THEN {}
                 ELSE (IF dog.fresh THEN failed ELSE {}) \cup {act.entry.whep}
    /\ act' = Resume(act.rest)
    /\ UNCHANGED <<mailbox, clients, sdp>>

-----------------------------------------------------------------------------
(***************************************************************************)
(* The callers and the clock.                                              *)
(***************************************************************************)

\* r enters the mailbox, which has room for it.
Send(r) ==
    /\ r \notin sent
    /\ Len(mailbox) < MailboxCap
    /\ mailbox' = Append(mailbox, r)
    /\ sent' = sent \cup {r}

\* An HTTP handler sends its command.
Call(r) ==
    /\ Kind[r] # "reset"
    /\ Send(r)
    /\ UNCHANGED <<conn, act, gone, replies, stream, watch>>

Unanswered == {r \in sent : reply[r] = "none"}

\* The caller of a request that parks drops its future; whether a remove or
\* an answer is still listened to makes no difference to the actor.
Vanish(r) ==
    /\ Kind[r] \in {"create", "offer"}
    /\ r \in Unanswered \ gone
    /\ gone' = gone \cup {r}
    /\ UNCHANGED <<conn, mailbox, act, sent, replies, stream, watch>>

DeadlinePasses(id) ==
    /\ conn[id].state \in {"awaiting_offer", "awaiting_answer"}
    /\ ~conn[id].due
    /\ conn' = [conn EXCEPT ![id].due = TRUE]
    /\ UNCHANGED <<mailbox, act, clients, replies, stream, watch>>

WindowPasses ==
    /\ dog.fresh
    /\ dog' = Aged(dog)
    /\ UNCHANGED <<conn, mailbox, act, clients, replies, stream, restart, failed, tripRun>>

-----------------------------------------------------------------------------
(***************************************************************************)
(* The supervisor and the pipeline, as far as the actor can tell.          *)
(***************************************************************************)

\* A mutant: the supervisor does not wait for the reset.
Mutant_PipelineInitsEarly ==
    /\ pipeline = "none"
    /\ run < MaxRuns
    /\ run' = run + 1
    /\ pipeline' = "init"
    /\ restart' = FALSE
    /\ suspect' = {}
    /\ UNCHANGED <<conn, mailbox, act, clients, replies, attached, broken, reports,
                   dog, failed, tripRun>>

\* A mutant: leftover restart requests are not drained.
Mutant_PipelineInitsUndrained ==
    /\ pipeline = "none"
    /\ \A r \in Unanswered \ gone : Kind[r] # "reset"
    /\ run < MaxRuns
    /\ run' = run + 1
    /\ pipeline' = "init"
    /\ suspect' = {}
    /\ UNCHANGED <<conn, mailbox, act, clients, replies, attached, broken, reports, watch>>

\* The top of a run: leftover restart requests are drained.
PipelineInits ==
    /\ pipeline = "none"
    /\ \A r \in Unanswered \ gone : Kind[r] # "reset"
    /\ run < MaxRuns
    /\ run' = run + 1
    /\ pipeline' = "init"
    /\ restart' = FALSE
    /\ suspect' = {}
    /\ UNCHANGED <<conn, mailbox, act, clients, replies, attached, broken, reports,
                   dog, failed, tripRun>>

PipelineMoves(from, to) ==
    /\ pipeline \in from
    /\ pipeline' = to
    /\ UNCHANGED <<conn, mailbox, act, clients, replies, run, attached, broken, reports, suspect,
                   watch>>

InitFails == PipelineMoves({"init"}, "stopped")
PipelineStarts == PipelineMoves({"init"}, "starting")
InputReady == PipelineMoves({"starting"}, "ready")

\* A mutant: the request is taken and the quit comes to nothing.
Mutant_TakeRestartIdly ==
    /\ restart
    /\ pipeline \in {"starting", "ready"}
    /\ restart' = FALSE
    /\ UNCHANGED <<conn, mailbox, act, clients, replies, stream, dog, failed, tripRun>>

\* The supervisor takes the restart request and quits the main loop.
TakeRestart ==
    /\ restart
    /\ pipeline \in {"starting", "ready"}
    /\ restart' = FALSE
    /\ pipeline' = "quitting"
    /\ UNCHANGED <<conn, mailbox, act, clients, replies, run, attached, broken, reports, suspect,
                   dog, failed, tripRun>>

\* The run ended (EOS, an error, the quit) and clean_up took the elements away.
PipelineStops ==
    /\ pipeline \in {"starting", "ready", "quitting"}
    /\ pipeline' = "stopped"
    /\ attached' = {}
    /\ broken' = {}
    /\ UNCHANGED <<conn, mailbox, act, clients, replies, run, reports, suspect, watch>>

\* After every stop the supervisor resets the coordinator and waits for it...
SendReset(r) ==
    /\ Kind[r] = "reset"
    /\ pipeline = "stopped"
    /\ Send(r)
    /\ pipeline' = "none"
    /\ UNCHANGED <<conn, act, gone, replies, run, attached, broken, reports, suspect, watch>>

\* ...no longer than RESET_TIMEOUT by the clock, in the mailbox or still outside
\* it: the handlers before it, with their pipeline awaits, may take that long.
ResetTimesOut ==
    /\ ResetMayTimeOut
    /\ \/ \E r \in Unanswered \ gone : Kind[r] = "reset" /\ gone' = gone \cup {r}
          /\ UNCHANGED pipeline
       \/ /\ pipeline = "stopped" /\ Len(mailbox) = MailboxCap
          /\ pipeline' = "none"
          /\ UNCHANGED gone
    /\ UNCHANGED <<conn, mailbox, act, sent, replies, run, attached, broken, reports, suspect,
                   watch>>

\* A mutant: the channel has no bound.
Mutant_BranchFailsUnbounded(id) ==
    /\ id \in attached
    /\ broken' = broken \cup {id}
    /\ reports' = Append(reports, id)
    /\ UNCHANGED <<conn, mailbox, act, clients, replies, pipeline, run, attached, suspect, watch>>

\* An element of a branch posts an error; a full channel drops the report.
BranchFails(id) ==
    /\ id \in attached
    /\ broken' = broken \cup {id}
    /\ reports' = IF Len(reports) < FailureCap THEN Append(reports, id) ELSE reports
    /\ UNCHANGED <<conn, mailbox, act, clients, replies, pipeline, run, attached, suspect, watch>>

-----------------------------------------------------------------------------
Init ==
    /\ conn = [id \in Ids |-> Absent]
    /\ mailbox = << >>
    /\ act = Idle
    /\ dog = Clean
    /\ sent = {}
    /\ reply = [r \in Requests |-> "none"]
    /\ sdp = [r \in Requests |-> NoRequest]
    /\ gone = {}
    /\ pipeline = "none"
    /\ run = 0
    /\ attached = {}
    /\ broken = {}
    /\ reports = << >>
    /\ restart = FALSE
    /\ failed = {}
    /\ suspect = {}
    /\ tripRun = 0

Handle(r) ==
    CreateConnection(r) \/ OfferReceived(r) \/ AnswerReceived(r) \/ RemoveConnection(r) \/ Reset(r)

Await ==
    BranchAdded \/ BranchRefused \/ AttachFails \/ AttachUndone \/ Deleted \/ DeleteFailed \/ Detached

Actor == (\E r \in Requests : Handle(r)) \/ ReapBranch \/ Sweep \/ SweepNext \/ Await

Callers == \E r \in Requests : Call(r) \/ Vanish(r)

Clock == (\E id \in Ids : DeadlinePasses(id)) \/ WindowPasses

Supervisor ==
    \/ PipelineInits \/ InitFails \/ PipelineStarts \/ InputReady
    \/ TakeRestart \/ PipelineStops
    \/ \E r \in Requests : SendReset(r)
    \/ ResetTimesOut
    \/ \E id \in Ids : BranchFails(id)

Next == Actor \/ Callers \/ Clock \/ Supervisor

Spec == Init /\ [][Next]_vars

(***************************************************************************)
(* Fairness.  Every await of the actor is bounded by teardown_timeout, the *)
(* select loop picks at random among the branches that are ready, time     *)
(* passes, and the supervisor keeps going round its loop.  Callers and the *)
(* SRT input owe nothing.                                                  *)
(***************************************************************************)
Fairness ==
    /\ WF_vars(Await) /\ WF_vars(SweepNext)
    /\ SF_vars(\E r \in Requests : Handle(r)) /\ SF_vars(ReapBranch) /\ SF_vars(Sweep)
    /\ \A id \in Ids : WF_vars(DeadlinePasses(id))
    /\ WF_vars(InitFails \/ PipelineStarts) /\ WF_vars(PipelineInits) /\ WF_vars(TakeRestart)
    /\ WF_vars(pipeline = "quitting" /\ PipelineStops)
    /\ SF_vars(\E r \in Requests : SendReset(r))

FairSpec == Spec /\ Fairness

-----------------------------------------------------------------------------
(***************************************************************************)
(* Properties.                                                             *)
(***************************************************************************)

TypeOK ==
    /\ conn \in [Ids -> Entries]
    /\ mailbox \in Seq(Requests) /\ Len(mailbox) <= MailboxCap
    /\ act \in Acts
    /\ dog \in Counts
    /\ sent \subseteq Requests /\ gone \subseteq sent
    /\ reply \in [Requests -> Outcomes]
    /\ sdp \in [Requests -> Requests \cup {NoRequest}]
    /\ pipeline \in Pipelines /\ run \in Nat
    /\ attached \subseteq Ids /\ broken \subseteq attached /\ suspect \subseteq Ids
    /\ reports \in Seq(Ids) /\ Len(reports) <= FailureCap
    /\ restart \in BOOLEAN /\ tripRun \in Nat
    /\ failed \subseteq Requests

Queued == {mailbox[i] : i \in 1..Len(mailbox)}
InHand == {act.req, act.entry.waiter} \ {NoRequest}

(***************************************************************************)
(* A call that has no answer yet is held in exactly one place, the mailbox,*)
(* the running handler or one connection, and a call that was answered in  *)
(* none: whatever the handlers, deletes, sweeps and resets do in between,  *)
(* no caller is forgotten and none could be answered twice.                *)
(***************************************************************************)
EachCallIsHeldOnce ==
    /\ Unanswered = Queued \cup InHand \cup Waiters(Ids)
    /\ \A i, j \in 1..Len(mailbox) : mailbox[i] = mailbox[j] => i = j
    /\ Queued \cap InHand = {} /\ Queued \cap Waiters(Ids) = {} /\ InHand \cap Waiters(Ids) = {}
    /\ \A id \in Ids : conn[id].waiter # NoRequest => Target[conn[id].waiter] = id
    /\ act.req # NoRequest => act.req # act.entry.waiter

(***************************************************************************)
(* The SDPs of a handshake belong together: the viewer whose answer        *)
(* reached a whipsink is the one that was given that whipsink's offer, and *)
(* an offer goes to one viewer only, also when offers or answers are       *)
(* repeated, late or arrive in the wrong state.                            *)
(***************************************************************************)
HandshakesPair ==
    /\ \A o \in Requests : Kind[o] = "offer" /\ sdp[o] # NoRequest =>
          \E c \in Requests : Kind[c] = "create" /\ Target[c] = Target[o] /\ sdp[c] = o
    /\ \A c, d \in Requests : sdp[c] = sdp[d] /\ sdp[c] # NoRequest => c = d
    /\ \A id \in Ids :
          /\ conn[id].state = "awaiting_answer" => sdp[conn[id].whep] = conn[id].waiter
          /\ conn[id].state = "established" =>
                LET o == sdp[conn[id].whep] IN o # NoRequest /\ sdp[o] # NoRequest

Running == pipeline \in {"init", "starting", "ready", "quitting"}

(***************************************************************************)
(* src/signal/coordinator.rs:305-306: a branch that a reset leaves without *)
(* its connection is in a pipeline about to be torn down or rebuilt; every *)
(* other branch has its connection, is being worked on, or was reported    *)
(* not torn down.                                                          *)
(***************************************************************************)
BranchesAreOwned ==
    \A id \in attached :
        Mapped(id) \/ act.id = id \/ id \in suspect \/ restart \/ pipeline = "quitting"

(***************************************************************************)
(* Branches and connections go together while a pipeline runs: a branch    *)
(* without a connection is being worked on, was reported as not torn down, *)
(* or dies with the pipeline that a trip is about to restart; and a        *)
(* connection without a branch had a teardown fail half-way.               *)
(***************************************************************************)
BranchesMatchConnections ==
    /\ BranchesAreOwned
    /\ \A id \in Ids : Running /\ Mapped(id) => id \in attached \cup suspect

(***************************************************************************)
(* src/signal/mod.rs:28, src/supervisor.rs:53-54: no waiter outlives the   *)
(* pipeline run its connection was created against.                        *)
(***************************************************************************)
NoWaiterOutlivesItsRun ==
    Running => \A id \in Ids : Mapped(id) => conn[id].run = run

(***************************************************************************)
(* src/supervisor.rs:85-91: a restart request that the supervisor can take *)
(* comes from a trip in the run it would end, not from an earlier one.     *)
(***************************************************************************)
RestartIsForThisRun ==
    restart /\ pipeline \in {"starting", "ready"} => tripRun = run

\* The phase of a run as RunCycle has it: the run is over when the reset that
\* follows it was answered or given up on.
CyclePhase ==
    IF pipeline = "none" /\ \E r \in Unanswered \ gone : Kind[r] = "reset" THEN "stopped"
    ELSE IF pipeline \in {"starting", "ready"} THEN "up" ELSE pipeline

Cycle == INSTANCE RunCycle WITH phase <- CyclePhase

(***************************************************************************)
(* What this module takes the supervisor to do is the run cycle, which     *)
(* module Supervisor implements: a reset lies between two runs, answered   *)
(* or given up on, and no restart request crosses from one to the next.    *)
(***************************************************************************)
RunsFollowTheCycle == Cycle!Spec

\* A viewer's branch as BranchCycle has it.  A DELETE that is not decided keeps
\* the connection in the actor's hands.
DoingFor(id) ==
    IF act.id # id THEN "nothing"
    ELSE CASE act.pc = "adding" -> "asked"
           [] act.pc = "undoing" -> "undoing"
           [] OTHER -> "detaching"

Branch(id) == INSTANCE BranchCycle WITH
                 up <- pipeline \in {"ready", "quitting"}, doing <- DoingFor(id),
                 there <- id \in attached, suspect <- id \in suspect,
                 known <- Mapped(id) \/ (act.pc = "deleting" /\ act.id = id)

(***************************************************************************)
(* What this module takes add_branch and remove_branch to do is what       *)
(* module Stream does (its BranchesKeepTheCycle), with the pipeline coming *)
(* and going underneath: whatever the actor's own steps are, it detaches   *)
(* what it was told of, and asks for nothing that it has.                  *)
(***************************************************************************)
BranchesFollowTheCycle ==
    /\ \A id \in Ids : Branch(id)!Init
    /\ [][\A id \in Ids : Branch(id)!Next \/ UNCHANGED Branch(id)!vars]_vars

(***************************************************************************)
(* The watchdog counts each failed handshake once and nothing else: not a  *)
(* delete, not a reaped branch, not a handshake from before a success,     *)
(* a reset or a trip, and not twice when a peer vanishes and the sweep     *)
(* comes by.                                                               *)
(***************************************************************************)
WatchdogCountsHandshakesOnce == dog.failures = Cardinality(failed)

\* In the map, or in the hands of a DELETE that is not decided yet.
IsEstablished(id) ==
    \/ conn[id].state = "established"
    \/ act.pc = "deleting" /\ act.id = id /\ act.entry.state = "established"

(***************************************************************************)
(* An established connection ends for a cause only: a DELETE of it that    *)
(* succeeds, its own bus report, a reset or a watchdog trip; never through *)
(* a deadline left over from its handshake, a call in the wrong state, or  *)
(* a DELETE that failed and is to be retried.                              *)
(***************************************************************************)
EstablishedEndsForCause ==
    [][\A id \in Ids : IsEstablished(id) /\ ~IsEstablished(id)' =>
            \/ act.pc = "deleting" /\ act.id = id /\ reply'[act.req] = "ok"
            \/ reports # << >> /\ id = Head(reports) /\ reports' = Tail(reports)
            \/ \E r \in Requests : Kind[r] = "reset" /\ reply[r] # reply'[r]
            \/ restart' /\ Cardinality(failed) + 1 >= WatchdogThreshold]_vars

(***************************************************************************)
(* Every call is answered in the end, whatever its peers and the pipeline  *)
(* do: a parked one by the other leg, the sweep, a delete, a reap or a     *)
(* reset.                                                                  *)
(***************************************************************************)
EveryCallIsAnswered == \A r \in Requests : r \in sent ~> reply[r] # "none"

(***************************************************************************)
(* A reported branch failure ends the connection.                          *)
(***************************************************************************)
ReportedBranchesAreReaped ==
    \A id \in Ids : (\E i \in 1..Len(reports) : reports[i] = id) ~> ~Mapped(id)

(***************************************************************************)
(* A trip gets its restart: the run it complains about stops.              *)
(***************************************************************************)
TripsRestartThePipeline == restart /\ pipeline = "ready" ~> pipeline = "stopped"

(***************************************************************************)
(* src/stream/gst_pipeline.rs:434-437 and src/startup.rs:39-43: a report   *)
(* that finds the channel full is dropped, with the sweep as a backstop,   *)
(* so a failed branch still loses its connection, only later.              *)
(***************************************************************************)
FailedBranchesAreReaped ==
    \A id \in Ids : id \in broken /\ conn[id].state = "established" ~> ~Mapped(id)
=============================================================================
