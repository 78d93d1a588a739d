---------------------------- MODULE GhnRequests ----------------------------
(***************************************************************************)
(* The requests GHNService sends to GHN, the courier, for a fee, for a     *)
(* shipment and for the state of a shipment, and what becomes of GHN's     *)
(* answers: data for the caller or an error of a certain status.  A fee    *)
(* that GHN cannot compute for want of a service is asked for once more.   *)
(***************************************************************************)
EXTENDS Naturals

CONSTANTS
    Requests,       \* requests of the callers
    Null            \* not answered

\* GhnServiceTypeId: HANG_NHE is 2, HANG_NANG is 5.
ServiceTypes == {2, 5}

\* An answer has a code, 200 for success (0 stands for no code at all), and data,
\* of a shipment with its order_code; an HTTP error has a status, and perhaps the
\* complaint that a ServiceID is required; or there is no response.
Answers == [kind : {"answer"}, code : {0, 200, 400}, data : BOOLEAN]
HttpErrors == [kind : {"http"}, status : {400, 401, 404, 500}, noService : BOOLEAN]
NoResponse == [kind |-> "silence"]
NotSent == [kind |-> "setup"]
Responses == Answers \cup HttpErrors \cup {NoResponse, NotSent}

VARIABLES
    request,        \* request[q]: what is asked, for which service, how often
    outcome,        \* outcome[q]: "data", or the kind of the error thrown
    booked          \* (external) requests for which GHN has made a shipment

vars == <<request, outcome, booked>>

Request == [op : {"fee", "create", "detail"}, service : ServiceTypes, resent : BOOLEAN]

\* determineServiceType: over 150 cm or 20 kg is heavy.
ServiceType(oversize) == IF oversize THEN 5 ELSE 2

\* BadRequest, NotFound, BadGateway and InternalServerError.
Errors == {"refused", "unknown", "silent", "failed"}

NullAssumption == Null \notin Request /\ Null \notin Errors \cup {"data"}

\* What becomes of no answer: DetailOutcome alone knows of 404.
Thrown(r) ==
    CASE r.kind = "silence" -> "silent"
      [] r.kind = "setup" -> "failed"
      [] OTHER -> IF r.status = 400 THEN "refused" ELSE "failed"

\* What is in an answer of code 200 is given back if there is data in it.
FeeOutcome(r) ==
    IF r.kind # "answer" THEN Thrown(r)
    ELSE IF r.code = 200 /\ r.data THEN "data"
    ELSE IF r.code = 0 THEN "failed" ELSE "refused"

\* The complaint about the service is a BadRequest, whatever the status is, and
\* when the request was sent again all is but an answer.
FeeRefused(r) == r.kind = "http" /\ r.noService
RetryOutcome(r) == IF r.kind = "answer" THEN FeeOutcome(r) ELSE "refused"

\* A shipment without data or order_code is an internal error.
CreateOutcome(r) ==
    IF r.kind = "answer" /\ r.code = 200 /\ ~r.data THEN "failed" ELSE FeeOutcome(r)

DetailOutcome(r) ==
    IF r.kind = "http" /\ r.status = 404 THEN "unknown" ELSE FeeOutcome(r)
-----------------------------------------------------------------------------
Init ==
    /\ request = [q \in Requests |-> Null]
    /\ outcome = [q \in Requests |-> Null]
    /\ booked = {}

Ask(q, op, oversize) ==
    /\ request[q] = Null
    /\ request' = [request EXCEPT ![q] = [op |-> op, service |-> ServiceType(oversize), resent |-> FALSE]]
    /\ UNCHANGED <<outcome, booked>>

Waiting(q, op) == request[q] # Null /\ request[q].op = op /\ outcome[q] = Null

\* The second request is of HANG_NANG, and only after one of HANG_NHE.
FeeAnswered(q, r) ==
    /\ Waiting(q, "fee")
    /\ IF FeeRefused(r) /\ ~request[q].resent /\ request[q].service # 5
       THEN /\ request' = [request EXCEPT ![q].service = 5, ![q].resent = TRUE]
            /\ UNCHANGED outcome
       ELSE /\ outcome' = [outcome EXCEPT ![q] =
                    IF request[q].resent THEN RetryOutcome(r)
                    ELSE IF FeeRefused(r) THEN "refused" ELSE FeeOutcome(r)]
            /\ UNCHANGED request
    /\ UNCHANGED booked

\* (external) GHN has made no shipment if it refuses; if the caller hears of an
\* inner failure, of nothing or of no code it may have.
MayBook(r) ==
    CASE r.kind = "answer" -> IF r.code = 200 THEN {TRUE} ELSE IF r.code = 0 THEN BOOLEAN ELSE {FALSE}
      [] r.kind = "http" -> IF r.status = 500 THEN BOOLEAN ELSE {FALSE}
      [] r.kind = "silence" -> BOOLEAN
      [] r.kind = "setup" -> {FALSE}

CreateAnswered(q, r) ==
    /\ Waiting(q, "create")
    /\ outcome' = [outcome EXCEPT ![q] = CreateOutcome(r)]
    /\ \E made \in MayBook(r) : booked' = IF made THEN booked \cup {q} ELSE booked
    /\ UNCHANGED request

DetailAnswered(q, r) ==
    /\ Waiting(q, "detail")
    /\ outcome' = [outcome EXCEPT ![q] = DetailOutcome(r)]
    /\ UNCHANGED <<request, booked>>

Next == \E q \in Requests :
    \/ \E op \in {"fee", "create", "detail"}, oversize \in BOOLEAN : Ask(q, op, oversize)
    \/ \E r \in Responses : FeeAnswered(q, r) \/ CreateAnswered(q, r) \/ DetailAnswered(q, r)

Spec == Init /\ [][Next]_vars
-----------------------------------------------------------------------------
\* Every variable has its type: what GHNService has asked and given back.
TypeOK ==
    /\ request \in [Requests -> Request \cup {Null}]
    /\ outcome \in [Requests -> Errors \cup {"data", Null}]
    /\ booked \subseteq Requests

\* Of the many ways out of createOrderByGHN the caller can trust two: with data
\* there is a shipment at GHN, and after a BadRequest there is none.
RefusalIsFinal ==
    \A q \in Requests : request[q] # Null /\ request[q].op = "create" =>
        /\ outcome[q] = "data" => q \in booked
        /\ outcome[q] = "refused" => q \notin booked
=============================================================================
