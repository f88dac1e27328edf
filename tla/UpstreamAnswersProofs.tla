----------------------- MODULE UpstreamAnswersProofs -----------------------
(***************************************************************************)
(* Proofs about UpstreamAnswers, for every set of HTTP statuses: whatever  *)
(* a market or the network in between answers, the worker believes neither *)
(* in a rejection nor in an end that is not the upstream's.                *)
(*                                                                         *)
(* First what the answers are and what the clients and adapters make of    *)
(* each kind; then one step per action.  The invariant adds what an        *)
(* unfinished call relies on: a first submission finds no order, and a     *)
(* call that posts has no upstream number.                                 *)
(***************************************************************************)
EXTENDS UpstreamAnswers, TLAPS

USE AnswersAssumption

(* The call, while it is under way.                                        *)
Waiting ==
    pc # "done" =>
        /\ verdict = "none" /\ answer = NoAnswer
        /\ call.first => order = "none" /\ ~open
        /\ call.known => order # "none"
        /\ pc = "query" => ~call.first
        /\ pc = "post" => ~call.known

TypeInv ==
    /\ call \in Calls /\ (call.first => ~call.known /\ ~call.reviewing)
    /\ order \in States(call.provider) \cup {"none"} /\ open \in BOOLEAN
    /\ pc \in {"begin", "query", "post", "done"}

Promised ==
    /\ RejectedMeansNothingBought /\ ConclusionsAreTheUpstreams
    /\ FitsPurchases /\ RetriesFollowTheRules

AnswersInv == TypeInv /\ Waiting /\ Promised

-----------------------------------------------------------------------------
(* The answers.                                                            *)
LEMMA OrderAnswers ==
    ASSUME NEW state, NEW a \in Order(state)
    PROVE  /\ a.status = 200 /\ a.code = "OK"
           /\ a.body \in {"order", "invalid", "repriced", "broken", "foreign"}
           /\ a.body # "foreign" => a.state = state
BY DEF Order

(* A refusal is an error with a code of its market. *)
LEMMA RefusalAnswers ==
    ASSUME NEW a \in Refusals
    PROVE  a.status \in Statuses /\ a.body = "error" /\ a.code \in CodesOf(call.provider)
BY DEF Refusals

(* What is not the market's answer carries none of its documented errors. *)
LEMMA NoiseAnswers ==
    ASSUME NEW a \in Noise
    PROVE  \/ a.status = 0 /\ a.code = "absent" /\ a.body = "none"
           \/ /\ a.status \in Statuses /\ a.body \in {"error", "other", "lost"}
              /\ <<a.code, a.status>> \notin Documented
BY DEF Noise, NoAnswer

(* The codes that _definite_rejection believes, by name and status. *)
LEMMA Rejections ==
    /\ DOMAIN RejectedCodes =
         {"INSUFFICIENT_BALANCE", "INVALID_ARGUMENT", "INVALID_SIGNATURE", "IP_NOT_ALLOWED"}
    /\ \A c \in DOMAIN RejectedCodes : RejectedCodes[c] \in {400, 401, 403, 422}
BY DEF RejectedCodes

(* All of them are documented as refusals: an order is never created. *)
LEMMA DocumentedRejections ==
    \A c \in DOMAIN RejectedCodes : <<c, RejectedCodes[c]>> \in Documented
BY DEF Documented

(* So is an empty account, whatever the client error it comes with. *)
LEMMA DocumentedBalance ==
    ASSUME NEW s \in Statuses, ClientError(s), s \notin {409, 429}
    PROVE  <<"insufficient_balance", s>> \in Documented
<1> DEFINE
      Balance ==
        {<<"insufficient_balance", t>> : t \in {u \in Statuses : ClientError(u)} \ {409, 429}}
      Listed ==
        {<<c, RejectedCodes[c]>> : c \in DOMAIN RejectedCodes} \cup
        {<<"ORDER_NOT_FOUND", 404>>, <<"CONFLICT", 409>>, <<"RATE_LIMITED", 429>>,
         <<"UNAVAILABLE", 503>>, <<"conflict", 409>>}
<1>1. s \in {u \in Statuses : ClientError(u)} \ {409, 429}
  OBVIOUS
<1>2. <<"insufficient_balance", s>> \in Balance
  BY <1>1
<1>3. Documented = Listed \cup Balance
  BY DEF Documented
<1> HIDE DEF Balance, Listed
<1> QED
  BY <1>2, <1>3

-----------------------------------------------------------------------------
(* What the clients make of them.                                          *)
LEMMA Errors ==
    ASSUME TypeInv, NEW a
    PROVE  LET e == Error(a)
           IN  \/ /\ a.status = 0 \/ a.body = "lost"
                  /\ \/ e.kind = "network"
                     \/ e.kind = "api" /\ e.code = "HTTP_ERROR" /\ e.status = a.status
               \/ /\ a.status # 0 /\ a.body # "lost" /\ Ok(a.status)
                  /\ e.kind = "api" /\ e.code = "INVALID_RESPONSE" /\ e.status \in {a.status, 0}
               \/ /\ a.status # 0 /\ a.body # "lost" /\ ~Ok(a.status)
                  /\ e.kind = "api" /\ e.code \in {a.code, "HTTP_ERROR"} /\ e.status = a.status
<1>1. CASE call.provider = "tronow"
  BY <1>1 DEF Error, TronowError, ApiError, Raised
<1>2. CASE call.provider # "tronow"
  BY <1>2 DEF Error, TronbidError, ApiError, Raised
<1> QED
  BY <1>1, <1>2

(* What the worker takes an error for. *)
LEMMA Verdicts ==
    ASSUME NEW e
    PROVE  /\ Judged(e) \in {"rejected", "refused", "unclear"}
           /\ Judged(e) = "rejected" => call.first /\ DefiniteRejection(e)
           /\ e.kind \in {"manual", "mismatch"} => Judged(e) = "refused"
           /\ e.kind = "network" => Judged(e) = "unclear"
           /\ e.kind = "api" /\ ClientError(e.status) /\ e.status # 429 =>
                 Judged(e) \in {"rejected", "refused"}
           /\ e.kind = "api" /\ (~ClientError(e.status) \/ e.status = 429)
                 /\ ~DefiniteRejection(e) => Judged(e) = "unclear"
BY DEF Judged, NeedsReview, DefiniteRejection

(* A definite rejection is a 4xx, and not the rate limit. *)
LEMMA RejectionStatus ==
    ASSUME NEW e, DefiniteRejection(e)
    PROVE  e.kind = "api" /\ ClientError(e.status) /\ e.status # 429
BY Rejections DEF DefiniteRejection, ClientError

(* Neither a 2xx nor noise is one. *)
LEMMA NoiseIsNoRejection ==
    ASSUME TypeInv, NEW a \in Noise
    PROVE  ~DefiniteRejection(Error(a))
<1> SUFFICES ASSUME DefiniteRejection(Error(a)) PROVE FALSE
  OBVIOUS
<1>1. Error(a).kind = "api" /\ ClientError(Error(a).status) /\ Error(a).status # 429
  BY RejectionStatus
<1>2. Error(a).code \in DOMAIN RejectedCodes \cup {"insufficient_balance"}
  BY DEF DefiniteRejection
<1>3. Error(a).code # "HTTP_ERROR" /\ Error(a).code # "INVALID_RESPONSE"
  BY <1>2, Rejections
<1>4. Error(a).code = a.code /\ Error(a).status = a.status /\ a.status # 0
  BY <1>1, <1>3, Errors
<1>5. a.status \in Statuses /\ <<a.code, a.status>> \notin Documented
  BY <1>4, NoiseAnswers
<1>6. \/ a.code \in DOMAIN RejectedCodes /\ a.status = RejectedCodes[a.code]
      \/ a.code = "insufficient_balance" /\ ClientError(a.status) /\ a.status \notin {409, 429}
  BY <1>4 DEF DefiniteRejection
<1>7. CASE a.code \in DOMAIN RejectedCodes /\ a.status = RejectedCodes[a.code]
  <2>1. <<a.code, RejectedCodes[a.code]>> \in Documented
    BY <1>7, DocumentedRejections
  <2> QED
    BY <1>5, <1>7, <2>1
<1>8. CASE a.code = "insufficient_balance" /\ ClientError(a.status) /\ a.status \notin {409, 429}
  <2>1. <<"insufficient_balance", a.status>> \in Documented
    <3>1. a.status \in Statuses /\ ClientError(a.status) /\ a.status \notin {409, 429}
      BY <1>5, <1>8
    <3> QED
      BY <3>1, DocumentedBalance, Zenon
  <2>2. <<a.code, a.status>> = <<"insufficient_balance", a.status>>
    BY <1>8
  <2> QED
    BY <1>5, <2>1, <2>2
<1> QED
  BY <1>6, <1>7, <1>8

(* What an order that is shown, or not, may be taken for.                  *)
LEMMA ShownOrders ==
    ASSUME TypeInv, NEW state, NEW a \in Order(state), NEW result
    PROVE  LET v == IF ShowsOrder(a) THEN Taken(a, result) ELSE Judged(Error(a))
           IN  \/ v \in {"refused", "unclear"}
               \/ v = "changed" /\ call.known
               \/ v = result /\ a.state = state
<1>1. a.status = 200 /\ a.body # "lost" /\ (a.body # "foreign" => a.state = state)
  BY OrderAnswers
<1>2. Judged(Error(a)) = "unclear"
  <2>1. ~ClientError(200) /\ ~ClientError(0)
    BY DEF ClientError
  <2>2. Error(a).kind = "api" /\ Error(a).status \in {200, 0}
    <3>1. Ok(200)
      BY DEF Ok
    <3> QED
      BY <1>1, <3>1, Errors
  <2>3. ~ClientError(Error(a).status)
    BY <2>1, <2>2
  <2> QED
    BY <2>2, <2>3, RejectionStatus, Verdicts
<1>3. Judged(Raised("mismatch")) = "refused"
  BY Verdicts DEF Raised
<1>4. \/ Taken(a, result) = "refused"
      \/ Taken(a, result) = "changed" /\ call.known
      \/ Taken(a, result) = result /\ a.body # "foreign"
  BY <1>3 DEF Taken
<1> QED
  BY <1>1, <1>2, <1>4

(* The ends of an order, under the names each market has for them. *)
LEMMA Conclusions ==
    /\ \A state : /\ StateOf(state) \in {"success", "failed", "reviewing", "pending"}
                  /\ StateOf(state) = "success" <=> state \in {"SUCCESS", "delegated"}
                  /\ StateOf(state) = "failed" <=> state \in {"FAILED", "failed", "cancelled"}
    /\ \A provider : "none" \notin States(provider)
BY DEF StateOf, States, TronowStates, TronbidStates

(* Answers that prove nothing are asked about again, other 4xx are not.    *)
LEMMA RetriedErrors ==
    ASSUME TypeInv, NEW a \in Noise \cup Refusals, a.body \notin {"none", "lost"}
    PROVE  /\ a.status >= 500 \/ a.status = 429 => Judged(Error(a)) = "unclear"
           /\ ClientError(a.status) /\ a.status # 429 =>
                 Judged(Error(a)) \in {"rejected", "refused"}
<1>1. a.status \in Nat
  BY NoiseAnswers, RefusalAnswers
<1>2. ASSUME a.status >= 500 \/ a.status = 429 PROVE Judged(Error(a)) = "unclear"
  <2>1. a.status # 0 /\ ~Ok(a.status) /\ (~ClientError(a.status) \/ a.status = 429)
    BY <1>1, <1>2 DEF Ok, ClientError
  <2>2. Error(a).kind = "api" /\ Error(a).status = a.status
    BY <2>1, Errors
  <2> QED
    BY <2>1, <2>2, RejectionStatus, Verdicts
<1>3. ASSUME ClientError(a.status), a.status # 429
      PROVE  Judged(Error(a)) \in {"rejected", "refused"}
  <2>1. a.status # 0 /\ ~Ok(a.status)
    BY <1>1, <1>3 DEF Ok, ClientError
  <2>2. Error(a).kind = "api" /\ Error(a).status = a.status
    BY <2>1, Errors
  <2> QED
    BY <1>3, <2>2, Verdicts
<1> QED
  BY <1>2, <1>3

-----------------------------------------------------------------------------
(* A call that ends keeps the promises: with an order that is shown ...    *)
LEMMA EndsWithOrder ==
    ASSUME TypeInv, call' = call, order' \in States(call.provider),
           NEW a \in Order(order'), answer' = a, NEW result,
           verdict' = IF ShowsOrder(a) THEN Taken(a, result) ELSE Judged(Error(a)),
           \/ result = StateOf(a.state) /\ ~(call.provider = "tronow" /\ call.first)
           \/ result = "pending" /\ call.provider = "tronow" /\ ~call.known
    PROVE  Promised'
<1>1. \/ verdict' \in {"refused", "unclear"}
      \/ verdict' = "changed" /\ call.known
      \/ verdict' = result /\ a.state = order'
  BY ShownOrders
<1>2. order' # "none"
  BY Conclusions
<1>3. \/ result = "pending"
      \/ verdict' = result => result = StateOf(order')
      \/ verdict' \in {"refused", "unclear"}
      \/ verdict' = "changed"
  BY <1>1
<1>4. RejectedMeansNothingBought' /\ ConclusionsAreTheUpstreams'
  BY <1>1, Conclusions DEF RejectedMeansNothingBought, ConclusionsAreTheUpstreams
<1>5. FitsPurchases'
  BY <1>1, <1>2 DEF FitsPurchases
<1>6. RetriesFollowTheRules'
  <2>1. answer'.status = 200
    BY OrderAnswers
  <2> QED
    BY <2>1 DEF RetriesFollowTheRules, ClientError
<1> QED
  BY <1>4, <1>5, <1>6 DEF Promised

(* ... and without one.                                                    *)
LEMMA EndsWithError ==
    ASSUME verdict' \in {"rejected", "refused", "unclear"},
           verdict' = "rejected" => order' = "none" /\ ~open',
           \/ answer'.body \in {"none", "lost"}
           \/ /\ answer'.status >= 500 \/ answer'.status = 429 => verdict' = "unclear"
              /\ ClientError(answer'.status) /\ answer'.status # 429 =>
                    verdict' \in {"rejected", "refused"}
    PROVE  Promised'
BY DEF Promised, RejectedMeansNothingBought, ConclusionsAreTheUpstreams, FitsPurchases,
       RetriesFollowTheRules, ClientError

-----------------------------------------------------------------------------
(* Before the call nothing has been answered. *)
LEMMA InitCorrect == Init => AnswersInv
<1> SUFFICES ASSUME Init PROVE AnswersInv
  OBVIOUS
<1>1. TypeInv /\ Waiting
  BY DEF Init, TypeInv, Waiting
<1>2. Promised
  BY DEF Init, Promised, RejectedMeansNothingBought, ConclusionsAreTheUpstreams,
         FitsPurchases, RetriesFollowTheRules
<1> QED
  BY <1>1, <1>2 DEF AnswersInv

(* Every step: the lookup, the POST, its answer and its loss. *)
LEMMA NextCorrect == AnswersInv /\ [Next]_vars => AnswersInv'
<1> SUFFICES ASSUME AnswersInv, [Next]_vars PROVE AnswersInv'
  OBVIOUS
<1>1. TypeInv /\ Waiting /\ Promised
  BY DEF AnswersInv
<1>2. ASSUME NEW a, NEW v, Conclude(a, v)
      PROVE  Waiting' /\ pc' = "done" /\ answer' = a /\ verdict' = v
  BY <1>2 DEF Conclude, Waiting
<1>3. CASE Begin
  <2>1. TypeInv'
    BY <1>1, <1>3 DEF Begin, TypeInv
  <2>2. Waiting'
    BY <1>1, <1>3 DEF Begin, TypeInv, Waiting
  <2>3. Promised'
    <3>1. verdict' = "none" /\ answer' = NoAnswer
      BY <1>1, <1>3 DEF Begin, Waiting
    <3> QED
      BY <3>1 DEF Promised, RejectedMeansNothingBought, ConclusionsAreTheUpstreams,
                  FitsPurchases, RetriesFollowTheRules, NoAnswer
  <2> QED
    BY <2>1, <2>2, <2>3 DEF AnswersInv
<1>4. CASE ManualReview \/ NotSent
  <2>1. PICK kind \in {"manual", "network"} : Conclude(NoAnswer, Judged(Raised(kind)))
    BY <1>4 DEF ManualReview, NotSent
  <2>2. Waiting' /\ pc' = "done" /\ answer' = NoAnswer /\ verdict' = Judged(Raised(kind))
    BY <1>2, <2>1
  <2>3. TypeInv'
    BY <1>1, <1>4, <2>2 DEF ManualReview, NotSent, TypeInv
  <2>4. verdict' \in {"refused", "unclear"}
    BY <2>2, Verdicts DEF Raised
  <2>5. answer'.body = "none"
    BY <2>2 DEF NoAnswer
  <2> QED
    BY <2>2, <2>3, <2>4, <2>5, EndsWithError DEF AnswersInv
<1>5. ASSUME NEW a, QueryFound(a) PROVE AnswersInv'
  <2>1. /\ order' = order /\ call' = call /\ order' \in States(call.provider)
        /\ a \in Order(order') /\ ~call.first
    BY <1>1, <1>5 DEF QueryFound, TypeInv, Waiting
  <2>2. /\ Waiting' /\ pc' = "done" /\ answer' = a
        /\ verdict' = IF ShowsOrder(a) THEN Taken(a, StateOf(a.state)) ELSE Judged(Error(a))
    BY <1>2, <1>5 DEF QueryFound
  <2>3. TypeInv'
    BY <1>1, <1>5, <2>2 DEF QueryFound, TypeInv
  <2>4. Promised'
    BY <1>1, <2>1, <2>2, EndsWithOrder
  <2> QED
    BY <2>2, <2>3, <2>4 DEF AnswersInv
<1>6. ASSUME NEW a, PostAccepted(a) PROVE AnswersInv'
  <2>1. /\ call' = call /\ order' \in States(call.provider) /\ a \in Order(order')
        /\ ~call.known
    BY <1>1, <1>6 DEF PostAccepted, TypeInv, Waiting
  <2>2. /\ Waiting' /\ pc' = "done" /\ answer' = a
        /\ verdict' = IF ShowsOrder(a) THEN Taken(a, AcceptedState(a)) ELSE Judged(Error(a))
    BY <1>2, <1>6 DEF PostAccepted
  <2>3. TypeInv'
    BY <1>1, <1>6, <2>1, <2>2 DEF PostAccepted, TypeInv
  <2>4. \/ AcceptedState(a) = StateOf(a.state) /\ ~(call.provider = "tronow" /\ call.first)
        \/ AcceptedState(a) = "pending" /\ call.provider = "tronow" /\ ~call.known
    BY <2>1 DEF AcceptedState
  <2>5. Promised'
    BY <1>1, <2>1, <2>2, <2>4, EndsWithOrder
  <2> QED
    BY <2>2, <2>3, <2>5 DEF AnswersInv
<1>7. ASSUME NEW a \in Refusals \cup Noise, QueryFailed(a) PROVE AnswersInv'
  <2>1. ~call.first /\ call' = call /\ order' = order /\ open' = open
    BY <1>1, <1>7 DEF QueryFailed, Waiting
  <2>2. CASE Conclude(a, Judged(Error(a)))
    <3>1. Waiting' /\ pc' = "done" /\ answer' = a /\ verdict' = Judged(Error(a))
      BY <1>2, <2>2
    <3>2. TypeInv'
      BY <1>1, <2>1, <3>1 DEF TypeInv
    <3>3. verdict' \in {"refused", "unclear"}
      BY <2>1, <3>1, Verdicts
    <3>4. Promised'
      BY <1>1, <3>1, <3>3, RetriedErrors, EndsWithError
    <3> QED
      BY <3>1, <3>2, <3>4 DEF AnswersInv
  <2>3. CASE Error(a) = ApiError("ORDER_NOT_FOUND", 404) /\ Conclude(a, Judged(Raised("manual")))
    <3>1. Waiting' /\ pc' = "done" /\ answer' = a /\ verdict' = Judged(Raised("manual"))
      BY <1>2, <2>3
    <3>2. TypeInv'
      BY <1>1, <2>1, <3>1 DEF TypeInv
    <3>3. verdict' = "refused"
      BY <3>1, Verdicts DEF Raised
    <3>4. a.status = 404
      BY <1>1, <2>3, Errors DEF ApiError
    <3>5. Promised'
      BY <3>1, <3>3, <3>4, EndsWithError
    <3> QED
      BY <3>1, <3>2, <3>5 DEF AnswersInv
  <2>4. CASE ~call.known /\ pc' = "post" /\ UNCHANGED <<answer, verdict>>
    <3>1. TypeInv'
      BY <1>1, <2>1, <2>4 DEF TypeInv
    <3>2. Waiting'
      BY <1>1, <1>7, <2>1, <2>4 DEF Waiting, QueryFailed
    <3>3. Promised'
      <4>1. verdict' = "none" /\ answer' = NoAnswer
        BY <1>1, <1>7, <2>4 DEF QueryFailed, Waiting
      <4> QED
        BY <4>1 DEF Promised, RejectedMeansNothingBought, ConclusionsAreTheUpstreams,
                    FitsPurchases, RetriesFollowTheRules, NoAnswer
    <3> QED
      BY <3>1, <3>2, <3>3 DEF AnswersInv
  <2> QED
    BY <1>7, <2>2, <2>3, <2>4 DEF QueryFailed
<1>8. ASSUME NEW a \in Refusals \cup Noise, PostRefused(a) \/ PostUnknown(a) PROVE AnswersInv'
  <2>1. Waiting' /\ pc' = "done" /\ answer' = a /\ verdict' = Judged(Error(a))
    BY <1>2, <1>8 DEF PostRefused, PostUnknown
  <2>2. TypeInv'
    BY <1>1, <1>8, <2>1 DEF PostRefused, PostUnknown, TypeInv
  <2>3. verdict' = "rejected" => order' = "none" /\ ~open'
    <3>1. CASE PostRefused(a)
      BY <1>1, <2>1, <3>1, Verdicts DEF PostRefused, Waiting
    <3>2. CASE PostUnknown(a)
      BY <1>1, <2>1, <3>2, NoiseIsNoRejection, Verdicts DEF PostUnknown
    <3> QED
      BY <1>8, <3>1, <3>2
  <2>4. verdict' \in {"rejected", "refused", "unclear"}
    BY <2>1, Verdicts
  <2>5. Promised'
    BY <1>1, <2>1, <2>3, <2>4, RetriedErrors, EndsWithError
  <2> QED
    BY <2>1, <2>2, <2>5 DEF AnswersInv
<1>9. CASE UNCHANGED vars
  <2>1. TypeInv' /\ Waiting'
    BY <1>1, <1>9 DEF vars, TypeInv, Waiting
  <2>2. Promised'
    BY <1>1, <1>9 DEF vars, Promised, RejectedMeansNothingBought,
                      ConclusionsAreTheUpstreams, FitsPurchases, RetriesFollowTheRules
  <2> QED
    BY <2>1, <2>2 DEF AnswersInv
<1> QED
  BY <1>3, <1>4, <1>5, <1>6, <1>7, <1>8, <1>9 DEF Next

(* And so in every state that can be reached. *)
LEMMA InvariantHolds == Spec => []AnswersInv
BY InitCorrect, NextCorrect, PTL DEF Spec

-----------------------------------------------------------------------------
(* Whatever arrives, _definite_rejection frees an order for another market *)
(* only when nothing was created and no POST can create anything any more. *)
THEOREM RejectionsAreDefinite == Spec => []RejectedMeansNothingBought
<1>1. AnswersInv => RejectedMeansNothingBought
  BY DEF AnswersInv, Promised
<1> QED
  BY <1>1, InvariantHolds, PTL

(* A delivery or a failure is only ever the upstream's own word about this *)
(* very order (_result, the identity checks and _apply).                   *)
THEOREM ConclusionsAreReported == Spec => []ConclusionsAreTheUpstreams
<1>1. AnswersInv => ConclusionsAreTheUpstreams
  BY DEF AnswersInv, Promised
<1> QED
  BY <1>1, InvariantHolds, PTL

(* The results that Procurement lets an adapter return are all there are.  *)
THEOREM AdaptersFitPurchases == Spec => []FitsPurchases
<1>1. AnswersInv => FitsPurchases
  BY DEF AnswersInv, Promised
<1> QED
  BY <1>1, InvariantHolds, PTL

(* Timeouts, 5xx and 429 are retried, other 4xx are not, with any status   *)
(* a server may come up with (_needs_review).                              *)
THEOREM RetriesAreRuled == Spec => []RetriesFollowTheRules
<1>1. AnswersInv => RetriesFollowTheRules
  BY DEF AnswersInv, Promised
<1> QED
  BY <1>1, InvariantHolds, PTL
=============================================================================
