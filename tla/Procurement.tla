---------------------------- MODULE Procurement ----------------------------
(***************************************************************************)
(* The purchase worker (services/procurement.py) over the order tables,    *)
(* the provider adapters it calls (services/providers.py) and the upstream *)
(* energy markets it buys from.                                            *)
(*                                                                         *)
(* Workers are the order consumers of OrderWorker.run.  A consumer claims  *)
(* a due order under a lease, reads it in one transaction, talks to the    *)
(* upstream outside any transaction, and commits the outcome in another,   *)
(* each under the order's row lock: one transaction is one action, and     *)
(* everything else interleaves with it.  A lease may expire while its      *)
(* worker is still running; the token then decides who may write.          *)
(*                                                                         *)
(* The lease token is the worker that drew it.  The code draws a fresh     *)
(* uuid per claim, but a consumer has one claim at a time and forgets it   *)
(* on a crash, so at most one live token names a worker and no comparison  *)
(* tells the two apart.                                                    *)
(*                                                                         *)
(* An exception inside a transaction rolls it back and ends the pass with  *)
(* the lease kept (_safe_once): that is Crash, which may happen anywhere.  *)
(***************************************************************************)
EXTENDS Rental

CONSTANTS
    Workers,            \* the order consumers
    Providers,          \* the upstream suppliers
    Lookup,             \* those with a query by business id (TRONow)
    Supports,           \* order -> providers that can deliver its product
    Configurations,     \* the sets of providers a deployment may configure
    MaxSubmitAttempts,  \* rental.max_submit_attempts
    QuoteRetryLimit,    \* rental.quote_retry_limit
    MaxAttempts         \* bound: purchase attempts of one order

ASSUME ProcurementAssumption ==
    /\ Lookup \subseteq Providers
    /\ Supports \in [Orders -> SUBSET Providers]
    /\ Configurations \subseteq SUBSET Providers
    /\ Configurations # {}
    /\ MaxSubmitAttempts \in Nat \ {0}
    /\ QuoteRetryLimit \in Nat \ {0}
    /\ MaxAttempts \in Nat \ {0}
    /\ None \notin Workers \cup Orders

VARIABLES
    configured,     \* the providers of the running process
    worker,         \* worker -> its program counter and what it read
    upstream        \* order -> sequence -> what the upstream knows

vars == <<wallets, entries, orders, attempts, notes, configured, worker, upstream>>

-----------------------------------------------------------------------------
(* The upstream side of an attempt, found there under its business id:     *)
(* posts counts the POSTs put on the wire for it, state is the upstream    *)
(* order, and stray is TRUE while there is none but a POST that nobody     *)
(* waits for any more may still create it.  A business id is the           *)
(* idempotency key: once the order exists a late POST only finds it.       *)
Seqs == 1..MaxAttempts

UpstreamStates == {"none", "processing", "reviewing", "success", "failed"}

Unknown == [posts |-> 0, stray |-> FALSE, state |-> "none"]

AttemptStates == {"submitting", "pending", "reviewing", "succeeded"} \cup Concluded

(* Fault: the budget of a new attempt does not count its first POST. *)
NewAttemptUncounted(provider) ==
    [provider |-> provider, state |-> "submitting", submit_attempts |-> 0,
     upstream_order_id |-> FALSE]

NewAttempt(provider) ==
    [provider |-> provider, state |-> "submitting", submit_attempts |-> 1,
     upstream_order_id |-> FALSE]

(* What a worker remembers between two transactions: its order, the        *)
(* attempt it works on as the first transaction read it, and the result of *)
(* the upstream call.                                                      *)
Idle ==
    [pc |-> "idle", order |-> None, seq |-> 0, first |-> FALSE,
     known |-> FALSE, reviewing |-> FALSE, excluded |-> {}, result |-> "none"]

Answers == {"pending", "reviewing", "success", "failed"}
Results == Answers \cup {"changed", "rejected", "refused", "unclear"}

ProcurementInit ==
    /\ RentalInit
    /\ configured \in Configurations
    /\ worker = [w \in Workers |-> Idle]
    /\ upstream = [o \in Orders |-> [k \in Seqs |-> Unknown]]

-----------------------------------------------------------------------------
At(w, pc) == worker[w].pc = pc
OrderOf(w) == worker[w].order
TheAttempt(w) == attempts[OrderOf(w)][worker[w].seq]
TheUpstream(w) == upstream[OrderOf(w)][worker[w].seq]

(* Fault: the token is not compared. *)
HoldsAnyToken(w) == TRUE

(* _locked: a transaction of a worker goes on only with its own token. *)
Holds(w) == orders[OrderOf(w)].lease_token = w

IsHeld(w) == orders[OrderOf(w)].wallet_state = "held"

(* _finish: the lease is given up and the next pass scheduled. *)
Finished(order, next) ==
    [order EXCEPT !.lease_token = None, !.lease_until = "none", !.next_run_at = next]

(* retry_count is only ever compared with the limit: it stops there. *)
Retried(order) ==
    [order EXCEPT !.retry_count = IF @ < QuoteRetryLimit THEN @ + 1 ELSE @]

SetOrder(o, order) == orders' = [orders EXCEPT ![o] = order]
SetAttempt(o, k, attempt) == attempts' = [attempts EXCEPT ![o][k] = attempt]
Leave(w) == worker' = [worker EXCEPT ![w] = Idle]

money == <<wallets, entries>>
world == <<configured, upstream>>

(* Fault: an attempt under review does not block the next purchase. *)
HasOpenUnreviewed(o) ==
    /\ Len(attempts[o]) > 0
    /\ attempts[o][Len(attempts[o])].state \notin Concluded \cup {"reviewing"}

(* Fault: neither does one of a provider that is no longer configured. *)
HasOpenConfigured(o) ==
    /\ Len(attempts[o]) > 0
    /\ attempts[o][Len(attempts[o])].state \notin Concluded
    /\ attempts[o][Len(attempts[o])].provider \in configured

(* The attempt a pass goes on with: the last one, unless it has failed. *)
HasOpen(o) ==
    /\ Len(attempts[o]) > 0
    /\ attempts[o][Len(attempts[o])].state \notin Concluded

(* Fault: only a failed delivery excludes a provider, not a rejection. *)
ExcludedFailed(o) ==
    {attempts[o][k].provider :
        k \in {i \in 1..Len(attempts[o]) : attempts[o][i].state = "failed"}}

Excluded(o) ==
    {attempts[o][k].provider :
        k \in {i \in 1..Len(attempts[o]) : attempts[o][i].state \in Concluded}}

-----------------------------------------------------------------------------
(* Fault: an expired lease is never taken over. *)
ClaimableUnleased(o) ==
    /\ orders[o].wallet_state \in {"held", "captured"}
    /\ orders[o].status \in {"reserved", "delegating", "active"}
    /\ orders[o].next_run_at = "due"
    /\ orders[o].lease_until = "none"

(* _claim: a due order with money in it and no running lease. *)
Claimable(o) ==
    /\ orders[o].wallet_state \in {"held", "captured"}
    /\ orders[o].status \in {"reserved", "delegating", "active"}
    /\ orders[o].next_run_at = "due"
    /\ orders[o].lease_until # "live"

Claim(w, o) ==
    /\ At(w, "idle")
    /\ Claimable(o)
    /\ SetOrder(o, [orders[o] EXCEPT !.lease_token = w, !.lease_until = "live"])
    /\ worker' = [worker EXCEPT ![w] = [Idle EXCEPT !.pc = "claimed", !.order = o]]
    /\ UNCHANGED <<money, attempts, notes, world>>

(* A pass whose token was replaced stops without writing anything, and one *)
(* with a result also when the order was released meanwhile.               *)
LoseLease(w) ==
    /\ worker[w].pc \in {"claimed", "quoting", "result"}
    /\ \/ ~Holds(w)
       \/ At(w, "result") /\ orders[OrderOf(w)].wallet_state = "released"
    /\ Leave(w)
    /\ UNCHANGED <<money, orders, attempts, notes, world>>

(* An order that is no longer held leaves the queue. *)
SkipSettled(w) ==
    /\ worker[w].pc \in {"claimed", "quoting"}
    /\ Holds(w) /\ ~IsHeld(w)
    /\ SetOrder(OrderOf(w), Finished(orders[OrderOf(w)], "none"))
    /\ Leave(w)
    /\ UNCHANGED <<money, attempts, notes, world>>

(* The first transaction of process for an open attempt: one the upstream  *)
(* has numbered, or one under review, is only looked up.                   *)
Call(w, k, attempt) ==
    worker' = [worker EXCEPT
        ![w] = [@ EXCEPT !.pc = "calling", !.seq = k, !.first = FALSE,
                         !.known = attempt.upstream_order_id,
                         !.reviewing = (attempt.state = "reviewing")]]

Resume(w, o, k) ==
    /\ At(w, "claimed") /\ OrderOf(w) = o
    /\ Holds(w) /\ IsHeld(w)
    /\ HasOpen(o) /\ k = Len(attempts[o])

ResumeLookup(w, o, k) ==
    /\ Resume(w, o, k)
    /\ attempts[o][k].upstream_order_id \/ attempts[o][k].state = "reviewing"
    /\ Call(w, k, attempts[o][k])
    /\ UNCHANGED <<money, orders, attempts, notes, world>>

(* Fault: off by one in the budget. *)
ResumeSubmissionOnceMore(w, o, k) ==
    LET attempt == [attempts[o][k] EXCEPT !.submit_attempts = @ + 1]
    IN  /\ Resume(w, o, k)
        /\ ~attempts[o][k].upstream_order_id
        /\ attempts[o][k].state # "reviewing"
        /\ attempts[o][k].submit_attempts <= MaxSubmitAttempts
        /\ SetAttempt(o, k, attempt)
        /\ Call(w, k, attempt)
        /\ UNCHANGED <<money, orders, notes, world>>

(* Any other may have to be posted again: the budget is spent, and stored, *)
(* before the call.                                                        *)
ResumeSubmission(w, o, k) ==
    LET attempt == [attempts[o][k] EXCEPT !.submit_attempts = @ + 1]
    IN  /\ Resume(w, o, k)
        /\ ~attempts[o][k].upstream_order_id
        /\ attempts[o][k].state # "reviewing"
        /\ attempts[o][k].submit_attempts < MaxSubmitAttempts
        /\ SetAttempt(o, k, attempt)
        /\ Call(w, k, attempt)
        /\ UNCHANGED <<money, orders, notes, world>>

(* Fault: the user is not told about the review. *)
ExhaustSubmissionsSilently(w, o, k) ==
    LET attempt == [attempts[o][k] EXCEPT !.state = "reviewing"]
    IN  /\ Resume(w, o, k)
        /\ ~attempts[o][k].upstream_order_id
        /\ attempts[o][k].state # "reviewing"
        /\ attempts[o][k].submit_attempts >= MaxSubmitAttempts
        /\ SetAttempt(o, k, attempt)
        /\ Call(w, k, attempt)
        /\ UNCHANGED <<money, orders, notes, world>>

(* With the budget used up the attempt goes under review. *)
ExhaustSubmissions(w, o, k) ==
    LET attempt == [attempts[o][k] EXCEPT !.state = "reviewing"]
    IN  /\ Resume(w, o, k)
        /\ ~attempts[o][k].upstream_order_id
        /\ attempts[o][k].state # "reviewing"
        /\ attempts[o][k].submit_attempts >= MaxSubmitAttempts
        /\ SetAttempt(o, k, attempt)
        /\ Notify(o, "review")
        /\ Call(w, k, attempt)
        /\ UNCHANGED <<money, orders, world>>

(* With no open attempt the providers that have not failed are asked. *)
StartQuoting(w, o) ==
    /\ At(w, "claimed") /\ OrderOf(w) = o
    /\ Holds(w) /\ IsHeld(w)
    /\ ~HasOpen(o)
    /\ worker' = [worker EXCEPT
          ![w] = [@ EXCEPT !.pc = "quoting", !.seq = Len(attempts[o]) + 1,
                           !.excluded = Excluded(o)]]
    /\ UNCHANGED <<money, orders, attempts, notes, world>>

-----------------------------------------------------------------------------
(* The second transaction of process.  With one provider configured the    *)
(* worker buys there without a quote; otherwise any provider that supports *)
(* the product may make the cheapest offer within the budget, or none does *)
(* (no reply, too dear, expired).                                          *)
SingleProvider == Cardinality(configured) = 1

Candidates(w, o) == (configured \ worker[w].excluded) \cap Supports[o]

Choosing(w, o) ==
    /\ At(w, "quoting") /\ OrderOf(w) = o
    /\ Holds(w) /\ IsHeld(w)

StartPurchase(w, o, p) ==
    LET k == Len(attempts[o]) + 1
    IN  /\ Choosing(w, o)
        /\ p \in Candidates(w, o)
        /\ worker[w].seq = k /\ k \in Seqs
        /\ CanBegin(orders[o])
        /\ SetOrder(o, Begun(orders[o]))
        /\ attempts' = [attempts EXCEPT ![o] = Append(@, NewAttempt(p))]
        /\ worker' = [worker EXCEPT
              ![w] = [@ EXCEPT !.pc = "calling", !.first = TRUE, !.excluded = {}]]
        /\ UNCHANGED <<money, notes, world>>

(* Fault: a failed round of quotes is not counted. *)
RequoteUncounted(w, o) ==
    /\ Choosing(w, o)
    /\ ~SingleProvider
    /\ orders[o].retry_count + 1 < QuoteRetryLimit
    /\ SetOrder(o, Finished(orders[o], "later"))
    /\ Leave(w)
    /\ UNCHANGED <<money, attempts, notes, world>>

(* No offer: the order is tried again later. *)
RequoteLater(w, o) ==
    /\ Choosing(w, o)
    /\ ~SingleProvider
    /\ orders[o].retry_count + 1 < QuoteRetryLimit
    /\ SetOrder(o, Finished(Retried(orders[o]), "later"))
    /\ Leave(w)
    /\ UNCHANGED <<money, attempts, notes, world>>

(* No offer for the last time: the money goes back. *)
NoAffordableOffer(w, o) ==
    /\ Choosing(w, o)
    /\ ~SingleProvider
    /\ orders[o].retry_count + 1 >= QuoteRetryLimit
    /\ ReleaseOrder(o)
    /\ SetOrder(o, Finished(Released(Retried(orders[o])), "none"))
    /\ Leave(w)
    /\ UNCHANGED <<attempts, world>>

(* The only provider cannot deliver the product, or already failed to.     *)
NoProviderLeft(w, o) ==
    /\ Choosing(w, o)
    /\ SingleProvider
    /\ Candidates(w, o) = {}
    /\ ReleaseOrder(o)
    /\ SetOrder(o, Finished(Released(orders[o]), "none"))
    /\ Leave(w)
    /\ UNCHANGED <<attempts, world>>

-----------------------------------------------------------------------------
(* The upstream call, outside any transaction.  A first submission posts;  *)
(* recover looks the purchase up by its upstream number, or by business id *)
(* where the provider has such a query, and posts again only what that     *)
(* query does not know.  The provider and the request are the stored ones. *)
ProviderOf(w) == TheAttempt(w).provider

LooksUp(w) ==
    /\ ~worker[w].first
    /\ worker[w].known \/ ProviderOf(w) \in Lookup

Posts(w) ==
    \/ At(w, "posting")
    \/ At(w, "calling") /\ (worker[w].first \/ (~LooksUp(w) /\ ~worker[w].reviewing))

Got(w, result) ==
    worker' = [worker EXCEPT
        ![w] = [@ EXCEPT !.pc = "result", !.result = result,
                         !.known = FALSE, !.reviewing = FALSE]]

tables == <<wallets, entries, orders, attempts, notes>>

(* The provider was removed from the configuration, or has nothing left to *)
(* try for an attempt under review: ManualReview without a request.        *)
NeedsReview(w) ==
    /\ At(w, "calling")
    /\ \/ ProviderOf(w) \notin configured
       \/ ~worker[w].first /\ ~LooksUp(w) /\ worker[w].reviewing
    /\ Got(w, "refused")
    /\ UNCHANGED <<tables, world>>

(* Fault: an upstream order under review is taken for a delivery. *)
LookupFoundOptimistic(w) ==
    /\ At(w, "calling") /\ LooksUp(w) /\ ProviderOf(w) \in configured
    /\ TheUpstream(w).state # "none"
    /\ Got(w, CASE TheUpstream(w).state = "processing" -> "pending"
                 [] TheUpstream(w).state = "reviewing" -> "success"
                 [] OTHER -> TheUpstream(w).state)
    /\ UNCHANGED <<tables, world>>

(* The query finds the upstream order, as it is then.                      *)
LookupFound(w) ==
    /\ At(w, "calling") /\ LooksUp(w) /\ ProviderOf(w) \in configured
    /\ TheUpstream(w).state # "none"
    /\ Got(w, IF TheUpstream(w).state = "processing" THEN "pending"
                                                     ELSE TheUpstream(w).state)
    /\ UNCHANGED <<tables, world>>

(* 404 ORDER_NOT_FOUND: what is under review is not posted again.          *)
LookupMissed(w) ==
    /\ At(w, "calling") /\ LooksUp(w) /\ ProviderOf(w) \in configured
    /\ TheUpstream(w).state = "none"
    /\ IF worker[w].reviewing \/ worker[w].known
       THEN Got(w, "refused")
       ELSE worker' = [worker EXCEPT ![w] = [@ EXCEPT !.pc = "posting"]]
    /\ UNCHANGED <<tables, world>>

(* The query fails: with another 4xx or a foreign answer (refused), with   *)
(* an answer whose number or cost is not the stored one, or with a         *)
(* timeout, a 5xx or a 429 (unclear).                                      *)
LookupFailed(w, result) ==
    /\ At(w, "calling") /\ LooksUp(w) /\ ProviderOf(w) \in configured
    /\ \/ result \in {"refused", "unclear"}
       \/ result = "changed" /\ worker[w].known
    /\ Got(w, result)
    /\ UNCHANGED <<tables, world>>

SetUpstream(w, purchase) ==
    upstream' = [upstream EXCEPT ![OrderOf(w)][worker[w].seq] = purchase]

(* The POST leaves.  UpstreamDeferred and connection errors keep it home.  *)
SendPost(w) ==
    /\ Posts(w) /\ ProviderOf(w) \in configured
    /\ worker' = [worker EXCEPT ![w] = [@ EXCEPT !.pc = "waiting"]]
    /\ SetUpstream(w, [TheUpstream(w) EXCEPT !.posts = @ + 1])
    /\ UNCHANGED <<tables, configured>>

PostNotSent(w) ==
    /\ Posts(w) /\ ProviderOf(w) \in configured
    /\ Got(w, "unclear")
    /\ UNCHANGED <<tables, world>>

(* The answer to a POST the upstream has an order for: TRONow only ever    *)
(* says it was accepted, TronBid says how it stands.  It may also be a     *)
(* conflict or carry a foreign identity.                                   *)
PostAnswered(w, result) ==
    /\ At(w, "waiting")
    /\ TheUpstream(w).state # "none"
    /\ \/ result = "refused"
       \/ result = IF ProviderOf(w) \in Lookup \/ TheUpstream(w).state = "processing"
                   THEN "pending" ELSE TheUpstream(w).state
    /\ Got(w, result)
    /\ UNCHANGED <<tables, world>>

(* The upstream turns the POST down without creating an order: for one of  *)
(* the reasons _definite_rejection knows (rejected) or another (refused).  *)
PostRejected(w, result) ==
    /\ At(w, "waiting")
    /\ TheUpstream(w).state = "none"
    /\ result \in {"rejected", "refused"}
    /\ Got(w, result)
    /\ UNCHANGED <<tables, world>>

(* No usable answer, or one that is not the market's, like the 4xx of a    *)
(* gateway (refused): the POST may have been processed or may still be.    *)
Abandoned(purchase) ==
    [purchase EXCEPT !.stray = @ \/ purchase.state = "none"]

PostUnclear(w, result) ==
    /\ At(w, "waiting")
    /\ result \in {"unclear", "refused"}
    /\ Got(w, result)
    /\ SetUpstream(w, Abandoned(TheUpstream(w)))
    /\ UNCHANGED <<tables, configured>>

-----------------------------------------------------------------------------
(* Fault: the outcome is committed without the token. *)
OutcomeUnfenced(w, o, k, result) ==
    /\ At(w, "result") /\ worker[w].result = result
    /\ OrderOf(w) = o /\ worker[w].seq = k
    /\ orders[o].wallet_state # "released"
    /\ Leave(w)
    /\ UNCHANGED world

(* The outcome is committed: _apply for a result, _error for an exception. *)
Outcome(w, o, k, result) ==
    /\ At(w, "result") /\ worker[w].result = result
    /\ OrderOf(w) = o /\ worker[w].seq = k
    /\ Holds(w) /\ orders[o].wallet_state # "released"
    /\ Leave(w)
    /\ UNCHANGED world

(* _apply stores the upstream number and cost and clears the retry count.  *)
Numbered(attempt, state) ==
    [attempt EXCEPT !.upstream_order_id = TRUE, !.state = state]

Answered(order) == [order EXCEPT !.retry_count = 0]

ApplySuccess(w, o, k) ==
    /\ Outcome(w, o, k, "success")
    /\ CompletePurchase(o)
    /\ SetOrder(o, Finished(Answered(Completed(orders[o])), "none"))
    /\ SetAttempt(o, k, Numbered(attempts[o][k], "succeeded"))

(* Fault: after a failed purchase the order is not queued for the next one. *)
ApplyFailedForGood(w, o, k) ==
    /\ Outcome(w, o, k, "failed")
    /\ SetOrder(o, Finished(Answered(orders[o]), "none"))
    /\ SetAttempt(o, k, Numbered(attempts[o][k], "failed"))
    /\ UNCHANGED <<money, notes>>

ApplyFailed(w, o, k) ==
    /\ Outcome(w, o, k, "failed")
    /\ SetOrder(o, Finished(Answered(orders[o]), "later"))
    /\ SetAttempt(o, k, Numbered(attempts[o][k], "failed"))
    /\ UNCHANGED <<money, notes>>

ApplyPending(w, o, k) ==
    /\ Outcome(w, o, k, "pending")
    /\ SetOrder(o, Finished(Answered(orders[o]), "later"))
    /\ SetAttempt(o, k, Numbered(attempts[o][k], "pending"))
    /\ UNCHANGED <<money, notes>>

ApplyReviewing(w, o, k) ==
    /\ Outcome(w, o, k, "reviewing")
    /\ SetOrder(o, Finished(Answered(orders[o]), "later"))
    /\ SetAttempt(o, k, Numbered(attempts[o][k], "reviewing"))
    /\ Notify(o, "review")
    /\ UNCHANGED money

(* A number or cost that differs from the stored one decides nothing.      *)
ApplyChanged(w, o, k) ==
    /\ Outcome(w, o, k, "changed")
    /\ SetOrder(o, Finished(orders[o], "later"))
    /\ SetAttempt(o, k, [attempts[o][k] EXCEPT !.state = "reviewing"])
    /\ Notify(o, "review")
    /\ UNCHANGED money

(* Fault: the rejection of a repeated POST is taken as definite as well. *)
ErrorRejectedAlways(w, o, k) ==
    /\ Outcome(w, o, k, "rejected")
    /\ SetOrder(o, Finished(Retried(orders[o]), "later"))
    /\ SetAttempt(o, k, [attempts[o][k] EXCEPT !.state = "rejected"])
    /\ UNCHANGED <<money, notes>>

(* Only the first POST's definite rejection proves that nothing was bought *)
(* and frees the order for another provider.                               *)
ErrorRejected(w, o, k) ==
    /\ Outcome(w, o, k, "rejected")
    /\ worker[w].first
    /\ SetOrder(o, Finished(Retried(orders[o]), "later"))
    /\ SetAttempt(o, k, [attempts[o][k] EXCEPT !.state = "rejected"])
    /\ UNCHANGED <<money, notes>>

(* Fault: every 4xx is taken for a definite rejection. *)
ErrorReviewRejects(w, o, k) ==
    /\ Outcome(w, o, k, "refused")
    /\ SetOrder(o, Finished(Retried(orders[o]), "later"))
    /\ SetAttempt(o, k, [attempts[o][k] EXCEPT !.state = "rejected"])
    /\ UNCHANGED <<money, notes>>

(* Fault: an order under review leaves the queue. *)
ErrorReviewUnqueued(w, o, k) ==
    /\ \/ Outcome(w, o, k, "refused")
       \/ Outcome(w, o, k, "rejected") /\ ~worker[w].first
    /\ SetOrder(o, Finished(Retried(orders[o]), "none"))
    /\ SetAttempt(o, k, [attempts[o][k] EXCEPT !.state = "reviewing"])
    /\ Notify(o, "review")
    /\ UNCHANGED money

ErrorReview(w, o, k) ==
    /\ \/ Outcome(w, o, k, "refused")
       \/ Outcome(w, o, k, "rejected") /\ ~worker[w].first
    /\ SetOrder(o, Finished(Retried(orders[o]), "later"))
    /\ SetAttempt(o, k, [attempts[o][k] EXCEPT !.state = "reviewing"])
    /\ Notify(o, "review")
    /\ UNCHANGED money

ErrorRetry(w, o, k) ==
    /\ Outcome(w, o, k, "unclear")
    /\ SetOrder(o, Finished(Retried(orders[o]), "later"))
    /\ UNCHANGED <<money, attempts, notes>>

-----------------------------------------------------------------------------
(* A worker stops at any point of its pass: an exception, a cancelled task *)
(* or the end of the process.  A POST it waited for stays on the wire.     *)
WaitsFor(w, o, k) == At(w, "waiting") /\ OrderOf(w) = o /\ worker[w].seq = k

Crash(w) ==
    /\ ~At(w, "idle")
    /\ Leave(w)
    /\ IF At(w, "waiting") THEN SetUpstream(w, Abandoned(TheUpstream(w)))
                           ELSE UNCHANGED upstream
    /\ UNCHANGED <<tables, configured>>

(* The process is started again, perhaps with other providers configured.  *)
Restart(providers) ==
    /\ configured' = providers
    /\ worker' = [w \in Workers |-> Idle]
    /\ upstream' = [o \in Orders |-> [k \in Seqs |->
                      IF \E w \in Workers : WaitsFor(w, o, k)
                      THEN Abandoned(upstream[o][k]) ELSE upstream[o][k]]]
    /\ UNCHANGED tables

-----------------------------------------------------------------------------
(* The upstream: a POST on the wire arrives, or one that nobody waits for  *)
(* is turned down or lost, and the upstream order it created goes on.      *)
PostArrives(o, k) ==
    /\ upstream[o][k].stray \/ \E w \in Workers : WaitsFor(w, o, k)
    /\ upstream[o][k].state = "none"
    /\ upstream' = [upstream EXCEPT ![o][k].state = "processing",
                                    ![o][k].stray = FALSE]
    /\ UNCHANGED <<tables, configured, worker>>

StrayLost(o, k) ==
    /\ upstream[o][k].stray
    /\ upstream' = [upstream EXCEPT ![o][k].stray = FALSE]
    /\ UNCHANGED <<tables, configured, worker>>

UpstreamProceeds(o, k, state) ==
    /\ \/ upstream[o][k].state = "processing" /\ state \in {"reviewing", "success", "failed"}
       \/ upstream[o][k].state = "reviewing" /\ state \in {"success", "failed"}
    /\ upstream' = [upstream EXCEPT ![o][k].state = state]
    /\ UNCHANGED <<tables, configured, worker>>

(* wake_tronow: a signed webhook for a finished upstream order makes the   *)
(* order due; it does not look at a lease, and settles nothing itself.     *)
Wake(o, k) ==
    /\ k \in 1..Len(attempts[o]) /\ attempts[o][k].provider \in Lookup
    /\ upstream[o][k].state \in {"success", "failed"}
    /\ orders[o].wallet_state \in {"held", "captured"}
    /\ SetOrder(o, [orders[o] EXCEPT !.next_run_at = "due"])
    /\ UNCHANGED <<money, attempts, notes, world, worker>>

(* Time passes. *)
FallDue(o) ==
    /\ orders[o].next_run_at = "later"
    /\ SetOrder(o, [orders[o] EXCEPT !.next_run_at = "due"])
    /\ UNCHANGED <<money, attempts, notes, world, worker>>

LeaseExpires(o) ==
    /\ orders[o].lease_until = "live"
    /\ SetOrder(o, [orders[o] EXCEPT !.lease_until = "expired"])
    /\ UNCHANGED <<money, attempts, notes, world, worker>>

-----------------------------------------------------------------------------
UserActions(o) ==
    \/ Reserve(o) /\ UNCHANGED <<world, worker>>
    \/ Cancel(o) /\ UNCHANGED <<world, worker>>

Transactions(w, o) ==
    \/ Claim(w, o)
    \/ StartQuoting(w, o)
    \/ RequoteLater(w, o)
    \/ NoAffordableOffer(w, o)
    \/ NoProviderLeft(w, o)
    \/ \E p \in Providers : StartPurchase(w, o, p)
    \/ \E k \in Seqs :
        \/ ResumeLookup(w, o, k)
        \/ ResumeSubmission(w, o, k)
        \/ ExhaustSubmissions(w, o, k)
        \/ ApplySuccess(w, o, k)
        \/ ApplyFailed(w, o, k)
        \/ ApplyPending(w, o, k)
        \/ ApplyReviewing(w, o, k)
        \/ ApplyChanged(w, o, k)
        \/ ErrorRejected(w, o, k)
        \/ ErrorReview(w, o, k)
        \/ ErrorRetry(w, o, k)

Calls(w) ==
    \/ NeedsReview(w)
    \/ LookupFound(w)
    \/ LookupMissed(w)
    \/ SendPost(w)
    \/ PostNotSent(w)
    \/ \E result \in Results :
        \/ LookupFailed(w, result)
        \/ PostAnswered(w, result)
        \/ PostRejected(w, result)
        \/ PostUnclear(w, result)

Environment ==
    \/ \E o \in Orders : FallDue(o) \/ LeaseExpires(o)
    \/ \E o \in Orders, k \in Seqs :
        \/ PostArrives(o, k)
        \/ StrayLost(o, k)
        \/ Wake(o, k)
        \/ \E state \in UpstreamStates : UpstreamProceeds(o, k, state)
    \/ \E providers \in Configurations : Restart(providers)

Next ==
    \/ \E o \in Orders : UserActions(o)
    \/ \E w \in Workers, o \in Orders : Transactions(w, o)
    \/ \E w \in Workers : Calls(w) \/ LoseLease(w) \/ SkipSettled(w) \/ Crash(w)
    \/ Environment

Spec == ProcurementInit /\ [][Next]_vars
=============================================================================
