------------------------------ MODULE Session ------------------------------
(***************************************************************************)
(* What one viewer's connection promises to the calls that name it, as if  *)
(* every call took effect at once: the stages follow each other, each leg  *)
(* is answered by the next one, and a connection ends as a whole.  That    *)
(* a DELETE is undecided for as long as the teardown takes, or that a      *)
(* sweep ends connections one by one, is not to be seen here.  Coordinator *)
(* implements it for each id.                                              *)
(***************************************************************************)
CONSTANTS
    Calls,      \* the calls that name this connection
    Kind,       \* "create", "offer", "answer" or "remove"
    Nobody

VARIABLES
    stage,      \* "absent", "awaiting_offer", "awaiting_answer", "established"
    parked,     \* the call that waits for the next leg
    answers     \* what each call was answered, "none" as long as it was not

vars == <<stage, parked, answers>>

Init == stage = "absent" /\ parked = Nobody /\ answers = [r \in Calls |-> "none"]

\* Just the calls in the domain of `told` are answered; a caller that has
\* gone is not told anything any more.
Answer(told) ==
    \A r \in Calls :
        IF r \in DOMAIN told THEN answers[r] = "none" /\ answers'[r] \in {told[r], "lost"}
        ELSE answers'[r] = answers[r]

Waiting == {parked} \ {Nobody}

\* The POST opens the connection and waits.
Opens(r) ==
    /\ Kind[r] = "create" /\ answers[r] = "none"
    /\ stage = "absent" /\ stage' = "awaiting_offer"
    /\ parked' = r
    /\ UNCHANGED answers

\* The offer goes to the POST and waits in its place.
Offers(r) ==
    /\ Kind[r] = "offer" /\ answers[r] = "none"
    /\ stage = "awaiting_offer" /\ stage' = "awaiting_answer"
    /\ Answer([q \in Waiting |-> "sdp"]) /\ answers'[parked] = "sdp"
    /\ parked' = r

\* The answer goes to the offer.
Answers(r) ==
    /\ Kind[r] = "answer"
    /\ stage = "awaiting_answer" /\ stage' = "established"
    /\ Answer([q \in Waiting \cup {r} |-> IF q = r THEN "ok" ELSE "sdp"])
    /\ answers'[parked] = "sdp"
    /\ parked' = Nobody

\* The connection ends, for the one that waits with the same cause as for the
\* call that found out, if it was a call; a DELETE succeeds by it.
Ends ==
    /\ stage # "absent" /\ stage' = "absent"
    /\ parked' = Nobody
    /\ \/ \E cause \in {"Gone", "Timeout", "Unavailable"} : Answer([q \in Waiting |-> cause])
       \/ \E r \in Calls \ Waiting :
             \/ Kind[r] \in {"offer", "answer"} /\ Answer([q \in Waiting \cup {r} |-> "Gone"])
             \/ /\ Kind[r] = "remove"
                /\ Answer([q \in Waiting \cup {r} |-> IF q = r THEN "ok" ELSE "Gone"])

\* Why a call comes to nothing.
Refusals(r) ==
    IF stage = "absent"
    THEN IF Kind[r] = "create" THEN {"NotReady", "PipelineBusy", "Pipeline"} ELSE {"NotFound"}
    ELSE IF Kind[r] = "remove" THEN {"PipelineBusy", "Pipeline"} ELSE {"WrongState"}

\* A call that comes to nothing leaves the connection as it is.
Refuses(r) ==
    /\ r # parked
    /\ \E error \in Refusals(r) : Answer([q \in {r} |-> error])
    /\ UNCHANGED <<stage, parked>>

Next == Ends \/ \E r \in Calls : Opens(r) \/ Offers(r) \/ Answers(r) \/ Refuses(r)

Spec == Init /\ [][Next]_vars
=============================================================================
