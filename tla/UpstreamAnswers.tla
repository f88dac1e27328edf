-------------------------- MODULE UpstreamAnswers --------------------------
(***************************************************************************)
(* What becomes of one call of a provider adapter: the HTTP answers of the *)
(* two markets, what the clients (services/upstream/tronow.py, tronbid.py) *)
(* make of them, what the adapters (services/providers.py) take that for,  *)
(* and the verdict of the worker (_definite_rejection, _error, _apply in   *)
(* services/procurement.py).  The verdicts are the results of Procurement, *)
(* which assumes of them what FitsPurchases says here.                     *)
(*                                                                         *)
(* Statuses, codes and bodies are grouped: one status for each way they    *)
(* are treated, one code for each documented meaning.  Status 0 is no      *)
(* answer at all (None in the code).                                       *)
(***************************************************************************)
EXTENDS Integers

CONSTANT Statuses       \* the HTTP statuses that are tried

ASSUME AnswersAssumption == Statuses \subseteq Nat /\ 200 \in Statuses

VARIABLES
    call,       \* the adapter's call: its provider and what the attempt knows
    order,      \* the order at the upstream under the attempt's business id
    open,       \* an unanswered POST may still create the order
    pc,         \* "begin", "query", "post", "done"
    answer,     \* the last answer
    verdict     \* what the worker takes the call for

vars == <<call, order, open, pc, answer, verdict>>

TronowStates == {"PROCESSING", "CONFIRMING", "SUCCESS", "FAILED", "REVIEWING"}
TronbidStates == {"pending_payment", "paid", "delegating", "delegated", "short",
                  "failed", "expired", "cancelled"}
States(provider) == IF provider = "tronow" THEN TronowStates ELSE TronbidStates

Calls == [provider : {"tronow", "tronbid"}, first : BOOLEAN, known : BOOLEAN, reviewing : BOOLEAN]

(* order: of the attempt; foreign: of another; invalid: with an unusable   *)
(* number or cost; repriced: with another cost than before; broken: fields *)
(* are missing; error: no data; other: no JSON object; lost: not read.     *)
Shown == {"order", "foreign", "invalid", "repriced"}
Bodies == Shown \cup {"broken", "error", "other", "lost", "none"}

TronowCodes == {"INSUFFICIENT_BALANCE", "INVALID_ARGUMENT", "INVALID_SIGNATURE", "IP_NOT_ALLOWED",
                "ORDER_NOT_FOUND", "CONFLICT", "RATE_LIMITED", "UNAVAILABLE"}
TronbidCodes == {"insufficient_balance", "conflict"}

(* "odd" is a code the client does not take for one, "NEW" an unknown one. *)
Codes == TronowCodes \cup TronbidCodes \cup {"OK", "NEW", "odd", "absent"}

Answer == [status : Statuses \cup {0}, code : Codes, body : Bodies,
           state : TronowStates \cup TronbidStates \cup {"none"}]

NoAnswer == [status |-> 0, code |-> "absent", body |-> "none", state |-> "none"]

Init ==
    /\ call \in {c \in Calls : c.first => ~c.known /\ ~c.reviewing}
    /\ order \in States(call.provider) \cup {"none"}
    /\ open \in BOOLEAN
    /\ call.first => order = "none" /\ ~open
    /\ call.known => order # "none"
    /\ pc = "begin"
    /\ answer = NoAnswer
    /\ verdict = "none"

-----------------------------------------------------------------------------
(* The clients: an order, or an error with a code and a status.            *)
Ok(status) == status \in 200..299
ClientError(status) == status \in 400..499

ApiError(code, status) == [kind |-> "api", code |-> code, status |-> status]
Raised(kind) == [kind |-> kind, code |-> "absent", status |-> 0]

(* _request_unlimited and _parse_response of TRONow, and the parser of the *)
(* business data behind it.                                                *)
TronowError(a) ==
    IF a.status = 0 \/ a.body = "lost" THEN ApiError("HTTP_ERROR", a.status)
    ELSE IF Ok(a.status) THEN ApiError("INVALID_RESPONSE", a.status)
    ELSE ApiError(IF a.code \in {"odd", "absent", "OK"} THEN "HTTP_ERROR" ELSE a.code, a.status)

(* The same of TronBid, where a network error keeps its own type.          *)
TronbidError(a) ==
    IF a.status = 0 \/ a.body = "lost" THEN Raised("network")
    ELSE IF Ok(a.status)
    THEN ApiError("INVALID_RESPONSE", IF a.body = "other" THEN a.status ELSE 0)
    ELSE ApiError(IF a.code \in {"odd", "absent"} THEN "HTTP_ERROR" ELSE a.code, a.status)

Error(a) == IF call.provider = "tronow" THEN TronowError(a) ELSE TronbidError(a)

ShowsOrder(a) ==
    /\ Ok(a.status) /\ a.body \in Shown
    /\ call.provider = "tronow" => a.code = "OK"

-----------------------------------------------------------------------------
(* Fault: an order with too little energy counts as delivered. *)
StateOfShort(state) ==
    CASE state \in {"SUCCESS", "delegated", "short"} -> "success"
      [] state \in {"FAILED", "failed", "cancelled"} -> "failed"
      [] state \in {"REVIEWING", "pending_payment", "expired"} -> "reviewing"
      [] OTHER -> "pending"

(* The adapters.  _result of both; expired is under review for _apply.     *)
StateOf(state) ==
    CASE state \in {"SUCCESS", "delegated"} -> "success"
      [] state \in {"FAILED", "failed", "cancelled"} -> "failed"
      [] state \in {"REVIEWING", "pending_payment", "expired", "short"} -> "reviewing"
      [] OTHER -> "pending"

(* Fault: the state in the acceptance of a POST is believed. *)
AcceptedStateShown(a) == StateOf(a.state)

(* submit: what TRONow accepted is queried before it is believed.          *)
AcceptedState(a) == IF call.provider = "tronow" THEN "pending" ELSE StateOf(a.state)

-----------------------------------------------------------------------------
RejectedCodes == [c \in {"INSUFFICIENT_BALANCE", "INVALID_ARGUMENT", "INVALID_SIGNATURE",
                         "IP_NOT_ALLOWED"} |->
    CASE c = "INSUFFICIENT_BALANCE" -> 422 [] c = "INVALID_ARGUMENT" -> 400
      [] c = "INVALID_SIGNATURE" -> 401 [] c = "IP_NOT_ALLOWED" -> 403]

(* Fault: the code is taken for a rejection whatever the status.           *)
DefiniteRejectionByCode(e) ==
    /\ e.kind = "api"
    /\ \/ e.code \in DOMAIN RejectedCodes
       \/ e.code = "insufficient_balance"

DefiniteRejection(e) ==
    /\ e.kind = "api"
    /\ \/ e.code \in DOMAIN RejectedCodes /\ e.status = RejectedCodes[e.code]
       \/ e.code = "insufficient_balance" /\ ClientError(e.status) /\ e.status \notin {409, 429}

(* Fault: a rate limit is taken for a refusal. *)
NeedsReviewAlways(e) ==
    \/ e.kind \in {"manual", "mismatch"}
    \/ e.kind = "api" /\ ClientError(e.status)

NeedsReview(e) ==
    \/ e.kind \in {"manual", "mismatch"}
    \/ e.kind = "api" /\ ClientError(e.status) /\ e.status # 429

(* _error, which runs in the order of the code.                            *)
Judged(e) ==
    IF call.first /\ DefiniteRejection(e) THEN "rejected"
    ELSE IF NeedsReview(e) THEN "refused" ELSE "unclear"

(* _validate_result, the identity checks, and _apply.                      *)
Taken(a, state) ==
    CASE a.body \in {"foreign", "invalid"} -> Judged(Raised("mismatch"))
      [] a.body = "repriced" /\ call.known -> "changed"
      [] OTHER -> state

Conclude(a, result) ==
    /\ pc' = "done"
    /\ answer' = a
    /\ verdict' = result

-----------------------------------------------------------------------------
(* What the upstream and the network in between may answer (external).     *)
(* TronBid names no status for insufficient_balance: any 4xx is its own.   *)
Documented ==
    {<<c, RejectedCodes[c]>> : c \in DOMAIN RejectedCodes} \cup
    {<<"ORDER_NOT_FOUND", 404>>, <<"CONFLICT", 409>>, <<"RATE_LIMITED", 429>>,
     <<"UNAVAILABLE", 503>>, <<"conflict", 409>>} \cup
    {<<"insufficient_balance", s>> : s \in {t \in Statuses : ClientError(t)} \ {409, 429}}

CodesOf(provider) ==
    IF provider = "tronow" THEN TronowCodes ELSE TronbidCodes

(* The market's own answers about an order ...                             *)
Order(state) ==
    {[status |-> 200, code |-> "OK", body |-> b, state |-> state] :
        b \in {"order", "invalid", "repriced", "broken"}}
    \cup {[status |-> 200, code |-> "OK", body |-> "foreign", state |-> s] :
            s \in States(call.provider)}

Refusals ==
    {a \in [status : Statuses, code : CodesOf(call.provider), body : {"error"}, state : {"none"}] :
        <<a.code, a.status>> \in Documented}

(* ... and whatever else arrives: nothing, what a gateway says, a body     *)
(* that breaks off, a code nobody knows or one with another status.        *)
Noise ==
    {NoAnswer} \cup
    {a \in [status : Statuses, code : CodesOf(call.provider) \cup {"OK", "NEW", "odd", "absent"},
            body : {"error", "other", "lost"}, state : {"none"}] :
        /\ <<a.code, a.status>> \notin Documented
        /\ a.body = "other" => a.code = "absent"}

-----------------------------------------------------------------------------
(* submit for a first submission, recover for all others: by number, by    *)
(* business id where the market can be asked, or by repeating the POST.    *)
Begin ==
    /\ pc = "begin"
    /\ pc' = IF ~call.first /\ (call.known \/ call.provider = "tronow") THEN "query" ELSE "post"
    /\ ~(call.provider = "tronbid" /\ call.reviewing /\ ~call.known)
    /\ UNCHANGED <<call, order, open, answer, verdict>>

ManualReview ==
    /\ pc = "begin"
    /\ call.provider = "tronbid" /\ call.reviewing /\ ~call.known
    /\ Conclude(NoAnswer, Judged(Raised("manual")))
    /\ UNCHANGED <<call, order, open>>

(* The gate or the connection keeps the request home. *)
NotSent ==
    /\ pc \in {"query", "post"}
    /\ Conclude(NoAnswer, Judged(Raised("network")))
    /\ UNCHANGED <<call, order, open>>

QueryFound(a) ==
    /\ pc = "query" /\ order # "none"
    /\ a \in Order(order)
    /\ Conclude(a, IF ShowsOrder(a) THEN Taken(a, StateOf(a.state)) ELSE Judged(Error(a)))
    /\ UNCHANGED <<call, order, open>>

QueryFailed(a) ==
    /\ pc = "query"
    /\ a \in Refusals \cup Noise
    /\ a.code = "ORDER_NOT_FOUND" => order = "none" \/ a.status # 404
    /\ IF call.known \/ Error(a) # ApiError("ORDER_NOT_FOUND", 404)
       THEN Conclude(a, Judged(Error(a)))
       ELSE IF call.reviewing
       THEN Conclude(a, Judged(Raised("manual")))
       ELSE pc' = "post" /\ UNCHANGED <<answer, verdict>>
    /\ UNCHANGED <<call, order, open>>

(* The POST is accepted: an order exists, if only from now on.             *)
PostAccepted(a) ==
    /\ pc = "post"
    /\ order' \in IF order = "none" THEN States(call.provider) ELSE {order}
    /\ a \in Order(order')
    /\ Conclude(a, IF ShowsOrder(a) THEN Taken(a, AcceptedState(a)) ELSE Judged(Error(a)))
    /\ UNCHANGED <<call, open>>

(* The market turns it down by its rules, and creates nothing.             *)
PostRefused(a) ==
    /\ pc = "post"
    /\ a \in Refusals
    /\ a.code # "ORDER_NOT_FOUND"
    /\ Conclude(a, Judged(Error(a)))
    /\ UNCHANGED <<call, order, open>>

(* Nobody knows: it was processed, will be, or never is.                   *)
PostUnknown(a) ==
    /\ pc = "post"
    /\ a \in Noise
    /\ order' \in IF order = "none" THEN States(call.provider) \cup {"none"} ELSE {order}
    /\ open' \in {open, order' = "none"}
    /\ Conclude(a, Judged(Error(a)))
    /\ UNCHANGED call

Next ==
    \/ Begin \/ ManualReview \/ NotSent
    \/ \E a \in UNION {Order(s) : s \in States(call.provider)} : QueryFound(a) \/ PostAccepted(a)
    \/ \E a \in Refusals \cup Noise : QueryFailed(a) \/ PostRefused(a) \/ PostUnknown(a)

Spec == Init /\ [][Next]_vars
-----------------------------------------------------------------------------
(* A rejection, on which the order is bought elsewhere or refunded, is     *)
(* only believed when nothing was created and nothing can be any more: not *)
(* from a gateway, not with an unexpected status, not after an earlier     *)
(* POST (_definite_rejection, and first_submission in _error).             *)
RejectedMeansNothingBought == verdict = "rejected" => order = "none" /\ ~open

(* The user is charged or the next market is tried only by a final state   *)
(* that the upstream reports of this very order, with all of its energy.   *)
ConclusionsAreTheUpstreams ==
    /\ verdict = "success" => order \in {"SUCCESS", "delegated"}
    /\ verdict = "failed" => order \in {"FAILED", "failed", "cancelled"}

(* What Procurement takes for granted of an adapter: an order that exists  *)
(* is reported as it is, by TRONow's acceptance as pending, or not at all, *)
(* and nothing is reported of one that does not.                           *)
FitsPurchases ==
    LET accepted == IF call.provider = "tronow" /\ ~call.known THEN {"pending"} ELSE {}
        queried == IF call.provider = "tronow" /\ call.first THEN {} ELSE {StateOf(order)}
        changed == IF call.known THEN {"changed"} ELSE {}
    IN  verdict \in {"none", "refused", "unclear"} \cup
            IF order = "none" THEN {"rejected"} ELSE accepted \cup queried \cup changed

(* docs/upstream/tronow.md: timeouts, 5xx and rate limits prove nothing    *)
(* and are asked about again; other 4xx are not retried, if they are read. *)
RetriesFollowTheRules ==
    pc = "done" /\ answer.body \notin {"none", "lost"} =>
        /\ answer.status >= 500 \/ answer.status = 429 => verdict = "unclear"
        /\ ClientError(answer.status) /\ answer.status # 429 => verdict \in {"rejected", "refused"}
=============================================================================
