------------------------------ MODULE Contract ------------------------------
(***************************************************************************)
(* What the HTTP side promises by itself: which bodies are an SDP offer or *)
(* an answer (src/domain/session_description.rs), which calls a route lets *)
(* through (src/routes), and which status a result is turned into          *)
(* (src/signal/errors.rs, src/routes/remove.rs).                           *)
(*                                                                         *)
(* A body is the set of the marks the parsers look for; one that is empty  *)
(* or blank has none.                                                      *)
(***************************************************************************)
EXTENDS Integers

Marks == {"v=0", "a=sendonly", "a=recvonly"}
Bodies == SUBSET Marks

\* SessionDescription::parse.
IsSdp(body) == "v=0" \in body /\ body \cap {"a=sendonly", "a=recvonly"} # {}
IsSendonly(body) == "a=sendonly" \in body

\* A mutant: an offer need not be sendonly.
Mutant_AnySdp(body) == IsSdp(body)
\* SdpOffer::parse and SdpAnswer::parse.  A body with both directions counts
\* as sendonly.
IsOffer(body) == IsSdp(body) /\ IsSendonly(body)
IsAnswer(body) == IsSdp(body) /\ ~IsSendonly(body)

\* Whether the route of a kind of call takes this body.
Accepts(kind, body) ==
    CASE kind = "create" -> body = {}
      [] kind = "offer"  -> IsOffer(body)
      [] kind = "answer" -> IsAnswer(body)
      [] OTHER -> TRUE

\* Retry-After, the one value there is; 0 for none.
RETRY_AFTER == 3

\* SignalError::http_contract.
HttpContract(error) ==
    CASE error \in {"InvalidSdp", "Sdp"} -> [status |-> 400, retry |-> 0]
      [] error = "NotFound"   -> [status |-> 404, retry |-> 0]
      [] error = "Gone"       -> [status |-> 410, retry |-> 0]
      [] error = "WrongState" -> [status |-> 409, retry |-> 0]
      [] error \in {"Timeout", "NotReady", "PipelineBusy"} -> [status |-> 503, retry |-> RETRY_AFTER]
      [] error \in {"Unavailable", "Pipeline"} -> [status |-> 500, retry |-> 0]

\* A mutant: a session that is gone already is an error to delete.
Mutant_DeleteStatus(result) ==
    IF result = "ok" THEN [status |-> 200, retry |-> 0] ELSE HttpContract(result)
\* delete(), of both DELETE routes: one that finds nothing has succeeded.
DeleteStatus(result) ==
    CASE result = "ok"       -> [status |-> 200, retry |-> 0]
      [] result = "NotFound" -> [status |-> 204, retry |-> 0]
      [] OTHER -> HttpContract(result)

\* What a route makes of the result of its call.
Response(kind, result) ==
    CASE kind = "remove" -> DeleteStatus(result)
      [] kind = "answer" /\ result = "ok" -> [status |-> 204, retry |-> 0]
      [] kind \in {"create", "offer"} /\ result = "sdp" -> [status |-> 201, retry |-> 0]
      [] OTHER -> HttpContract(result)

Succeeds(response) == response.status \in 200..299
=============================================================================
