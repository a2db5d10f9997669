--------------------------- MODULE MCCoordinator ---------------------------
(***************************************************************************)
(* Small instances of Gateway, or of Coordinator alone.  The calls are     *)
(* fixed by the instance, their order, timing and losses are what TLC      *)
(* explores.                                                               *)
(***************************************************************************)
EXTENDS Gateway, TLC

CONSTANTS
    viewer1, viewer2,           \* connection ids
    post1, offer1, answer1,     \* the handshake of viewer1
    post2, offer2, answer2,     \* the handshake of viewer2
    offerAgain, answerAgain,    \* viewer1's, repeated
    offerWrong, answerWrong,    \* viewer1's, each with the body of the other
    postAgain,                  \* viewer1's id once more
    delete, deleteAgain,        \* of viewer1
    reset1, reset2              \* the supervisor's

Calls ==
    [create |-> {post1, post2, postAgain}, offer |-> {offer1, offer2, offerAgain, offerWrong},
     answer |-> {answer1, answer2, answerAgain, answerWrong},
     remove |-> {delete, deleteAgain}, reset |-> {reset1, reset2}]

KindOf == [r \in Requests |-> CHOOSE k \in DOMAIN Calls : r \in Calls[k]]

TargetOf == [r \in Requests |-> IF r \in {post2, offer2, answer2} THEN viewer2 ELSE viewer1]

OfferBody == {"v=0", "a=sendonly"}
AnswerBody == {"v=0", "a=recvonly"}
BodyOf ==
    [r \in Requests |->
        CASE r \in {offer1, offer2, offerAgain, answerWrong} -> OfferBody
          [] r \in {answer1, answer2, answerAgain, offerWrong} -> AnswerBody
          [] OTHER -> {}]

\* Two viewers whose calls are alike may swap names.
Swap ==
    [x \in {viewer1, viewer2, post1, post2, offer1, offer2} |->
        CASE x = viewer1 -> viewer2 [] x = viewer2 -> viewer1
          [] x = post1 -> post2     [] x = post2 -> post1
          [] x = offer1 -> offer2   [] x = offer2 -> offer1]

Symmetry == {Swap}
=============================================================================
