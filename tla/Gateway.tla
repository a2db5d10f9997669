------------------------------ MODULE Gateway ------------------------------
(***************************************************************************)
(* The actor behind its HTTP routes: only calls whose body a route accepts *)
(* reach the mailbox, and what a caller is told is the status and the      *)
(* Retry-After that Contract makes of the actor's reply.  Session is what  *)
(* one viewer's calls add up to.                                           *)
(***************************************************************************)
EXTENDS Coordinator, Contract

CONSTANT Body   \* what each request carries

ASSUME BodyAssumption == Body \in [Requests -> Bodies]

\* The routes: a body that is not accepted is answered 400 and goes no further.
LetThrough == \A r \in sent' \ sent : Accepts(Kind[r], Body[r])

HttpSpec == Init /\ [][Next /\ LetThrough]_vars

\* The response to r, once there is a reply and somebody to read it.
Responded(r) == reply[r] \notin {"none", "lost"}
ResponseTo(r) == Response(Kind[r], reply[r])

-----------------------------------------------------------------------------
\* The connection as its callers see it: a DELETE that is not decided yet has
\* not happened.
Seen(id) == IF act.pc = "deleting" /\ act.id = id THEN act.entry ELSE conn[id]

CallsOf(id) == {r \in Requests : Target[r] = id /\ Kind[r] # "reset"}

S(id) == INSTANCE Session WITH
            Calls <- CallsOf(id), Nobody <- NoRequest,
            stage <- Seen(id).state, parked <- Seen(id).waiter,
            answers <- [r \in CallsOf(id) |-> reply[r]]

(***************************************************************************)
(* Each viewer's calls behave as if they took effect at once, in the order *)
(* POST, offer, PATCH, end, however the handlers, the sweep and the        *)
(* teardowns interleave.                                                   *)
(***************************************************************************)
SessionsAreAtomic ==
    /\ \A id \in Ids : S(id)!Init
    /\ [][\A id \in Ids : S(id)!Next \/ UNCHANGED S(id)!vars]_vars

(***************************************************************************)
(* src/routes/remove.rs:5-8: a DELETE that is answered with success leaves *)
(* no session behind, one that is answered with an error, retryable or     *)
(* not, has left it in place to be deleted again.                          *)
(***************************************************************************)
DeleteSucceedsIffGone ==
    [][\A r \in Requests : Kind[r] = "remove" /\ reply[r] = "none" /\ reply'[r] # "none" =>
            (Succeeds(ResponseTo(r)') <=> ~Mapped(Target[r])')]_vars

(***************************************************************************)
(* A viewer whose POST was answered with an error has nothing to delete,   *)
(* and does not know the id: no connection is left in its name.            *)
(***************************************************************************)
NoSessionBehindAnError ==
    \A id \in Ids : Mapped(id) /\ Responded(conn[id].whep) => Succeeds(ResponseTo(conn[id].whep))

(***************************************************************************)
(* src/signal/errors.rs:42-46: Retry-After is attached when a retry is     *)
(* worthwhile.  A POST, retried under a new id, has left no connection;    *)
(* any other call finds its connection still there.  The exception is the  *)
(* loopback offer that ran into its deadline: it is told to retry at a     *)
(* connection that has ended.                                              *)
(***************************************************************************)
RetriesAreWorthwhile ==
    [][\A r \in Requests :
            Kind[r] # "reset" /\ reply[r] = "none" /\ Responded(r)' /\ ResponseTo(r)'.retry > 0 =>
            \/ Kind[r] = "create" /\ ~Mapped(Target[r])'
            \/ Kind[r] # "create" /\ Mapped(Target[r])'
            \/ Kind[r] = "offer" /\ reply'[r] = "Timeout"]_vars

(***************************************************************************)
(* What a viewer is sent is an offer, and what its whipsink is sent is an  *)
(* answer, whoever calls what with which body and in which order.          *)
(***************************************************************************)
SdpsGoTheRightWay ==
    \A r \in Requests : sdp[r] # NoRequest =>
        IF Kind[r] = "create" THEN IsSendonly(Body[sdp[r]]) ELSE ~IsSendonly(Body[sdp[r]])
=============================================================================
