------------------------------ MODULE APIClient ------------------------------
(***************************************************************************)
(* telephonist.Client: the requests of the agent over HTTP.  The client    *)
(* keeps no state; a request is what the caller makes of its response.     *)
(* A response is a status code with a body that may not be the JSON the    *)
(* caller expects, or "none" when the request failed on the way, before    *)
(* or after the backend acted on it.                                       *)
(***************************************************************************)
EXTENDS Naturals

Statuses == {200, 201, 302, 401, 500}
NoResponse == [status |-> 0, json |-> FALSE]
Responses == [status : Statuses, json : BOOLEAN] \cup {NoResponse}

\* gorequest's End reports an error for a request without a response, and
\* EndStruct also for a body it cannot decode.
Ends(r) == r # NoResponse
EndsStruct(r) == Ends(r) /\ r.json

\* The errors: a CombinedError of what went wrong, as the callers tell apart.
\* get and delete, without a struct to decode.
get(r) ==
    IF ~Ends(r) THEN "combined(transport)"
    ELSE IF r.status >= 300 THEN "combined(status)"
    ELSE "ok"

\* httpPost with a struct to decode.
httpPost(r) ==
    IF ~EndsStruct(r) THEN "combined(transport)"
    ELSE IF r.status >= 300 THEN "combined(status)"
    ELSE "ok"

Probe(r) == get(r)

CreateSequence(r) == httpPost(r)

\* FinishSequence does not look at the status: every JSON body is a success.
FinishSequence(r) == IF EndsStruct(r) THEN "ok" ELSE "combined(transport)"

SubmitCodeRegistration(r) ==
    IF ~EndsStruct(r) THEN "combined(transport)"
    ELSE IF r.status \in {200, 201} THEN "ok"
    ELSE IF r.status = 401 THEN "code is invalid"
    ELSE "combined(status)"

issueWSTicket(r) == IF Ends(r) /\ r.status = 200 /\ r.json THEN "ok" ELSE "error"

\* What the backend has done when it answers r: a request that failed on the
\* way may have been carried out.
CarriedOut(r) == IF r = NoResponse THEN BOOLEAN ELSE {r.status < 300}
=============================================================================
