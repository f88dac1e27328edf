----------------------- MODULE ProcurementProperties -----------------------
(***************************************************************************)
(* What the purchase worker promises: about the user's money, about what   *)
(* is bought upstream, and about what must eventually happen.              *)
(***************************************************************************)
EXTENDS Procurement

Order == [status : Statuses, wallet_state : WalletStates,
          retry_count : 0..QuoteRetryLimit,
          next_run_at : {"none", "due", "later"},
          lease_until : {"none", "live", "expired"},
          lease_token : Workers \cup {None}]

Attempt == [provider : Providers, state : AttemptStates,
            submit_attempts : 1..MaxSubmitAttempts, upstream_order_id : BOOLEAN]

Purchase == [posts : Nat, stray : BOOLEAN, state : UpstreamStates]

Pass == [pc : {"idle", "claimed", "quoting", "calling", "posting", "waiting", "result"},
         order : Orders \cup {None}, seq : 0..MaxAttempts + 1,
         first : BOOLEAN, known : BOOLEAN, reviewing : BOOLEAN,
         excluded : SUBSET Providers, result : Results \cup {"none"}]

(* The shape of every table and of what a worker remembers. *)
TypeOK ==
    /\ wallets \in [Users -> Balances]
    /\ orders \in [Orders -> Order]
    /\ attempts \in [Orders -> Seq(Attempt)]
    /\ \A o \in Orders : Len(attempts[o]) <= MaxAttempts
    /\ notes \in [Orders -> SUBSET Events]
    /\ configured \in Configurations
    /\ worker \in [Workers -> Pass]
    /\ upstream \in [Orders -> [Seqs -> Purchase]]

-----------------------------------------------------------------------------
(* The upstream has this purchase or may still create it. *)
InFlight(o, k) == upstream[o][k].stray \/ \E w \in Workers : WaitsFor(w, o, k)

MayDeliver(o, k) ==
    \/ upstream[o][k].state \in {"processing", "reviewing", "success"}
    \/ upstream[o][k].state = "none" /\ InFlight(o, k)

(* The frozen price goes back to the user only when nothing that was ever  *)
(* posted for the order can still be delivered: not the purchase of a      *)
(* worker that lost its lease, nor a POST that is still on the wire.       *)
NoRefundWhileUpstreamMayDeliver ==
    \A o \in Orders : orders[o].wallet_state = "released" =>
        \A k \in Seqs : ~MayDeliver(o, k)

(* An order never has two purchases that may both be delivered.            *)
AtMostOneLivePurchase ==
    \A o \in Orders : \A j, k \in Seqs :
        MayDeliver(o, j) /\ MayDeliver(o, k) => j = k

(* A user is charged for what the upstream has delivered, and the attempt  *)
(* that did is the last one.                                               *)
ChargedOnlyForDelivery ==
    \A o \in Orders : orders[o].wallet_state = "captured" =>
        LET k == Len(attempts[o])
        IN  /\ k > 0 /\ attempts[o][k].state = "succeeded"
            /\ upstream[o][k].state = "success"

(* However often workers crash or lose their lease, no purchase request is *)
(* put on the wire more than max_submit_attempts times.                    *)
PostsWithinBudget ==
    \A o \in Orders, k \in Seqs : upstream[o][k].posts <= MaxSubmitAttempts

(* While the user's money is frozen the order stays in the queue: no pass  *)
(* ends leaving it with nothing that will ever pick it up again.           *)
HeldOrdersStayScheduled ==
    \A o \in Orders : orders[o].wallet_state = "held" =>
        orders[o].next_run_at # "none"

(* A provider whose failure is recorded is not tried again for the order,  *)
(* so an order has at most one attempt per provider.                       *)
EachProviderTriedOnce ==
    \A o \in Orders : \A j, k \in 1..Len(attempts[o]) :
        attempts[o][j].provider = attempts[o][k].provider => j = k

(* The ledger tells the state of every order: it has the entries of its    *)
(* wallet state and no others.  With LedgerBalances the frozen balance of  *)
(* a user is then what the held orders cost: no settlement finds it short. *)
EntryKinds(o) == {kind \in {"hold", "capture", "release"} : Posted(Key(kind, o))}

LedgerMatchesOrders ==
    \A o \in Orders :
        EntryKinds(o) =
            CASE orders[o].wallet_state = "none"     -> {}
              [] orders[o].wallet_state = "held"     -> {"hold"}
              [] orders[o].wallet_state = "captured" -> {"hold", "capture"}
              [] orders[o].wallet_state = "released" -> {"hold", "release"}

(* The user hears of what happened to the money: whoever finds an attempt  *)
(* under review, or an order settled, has been sent the matching event.    *)
UserIsTold ==
    \A o \in Orders :
        /\ orders[o].wallet_state = "captured" <=> "fulfilled" \in notes[o]
        /\ orders[o].wallet_state = "released" <=> "refunded" \in notes[o]
        /\ \A k \in 1..Len(attempts[o]) :
              attempts[o][k].state = "reviewing" => "review" \in notes[o]

-----------------------------------------------------------------------------
(* Only the worker that holds the lease writes what the upstream answered. *)
OnlyLeaseHolderWrites ==
    [][\A o \in Orders : attempts'[o] # attempts[o] =>
          \E w \in Workers : orders[o].lease_token = w /\ OrderOf(w) = o
                             /\ worker'[w] # worker[w]]_vars

(* An order's story ends with its settlement: no late answer or stale      *)
(* worker tells the user anything after the money is charged or returned.  *)
(* This is what Notifications takes for granted of notify_order's callers. *)
SettledOrdersStaySilent ==
    [][\A o \in Orders : notes[o] \cap {"fulfilled", "refunded"} # {} =>
          notes'[o] = notes[o]]_vars

-----------------------------------------------------------------------------
(* Fairness.  Time passes, the upstream works on what it accepted, and a   *)
(* worker does not stand still inside a pass: each call has a timeout.  A  *)
(* consumer polls for ever, so an order that keeps becoming claimable is   *)
(* claimed.  Crashes, lost leases and failed calls are never excluded, but *)
(* neither do they win every time: a stage an order reaches again and      *)
(* again is completed now and then, a query also by the worker that still  *)
(* holds the lease (which outlasts the timeouts of a call many times).     *)
Moves(w) == Calls(w) \/ LoseLease(w) \/ SkipSettled(w) \/ \E o \in Orders : Transactions(w, o)

FairTo(o) ==
    /\ WF_vars(FallDue(o))
    /\ WF_vars(LeaseExpires(o))
    /\ \A k \in Seqs : WF_vars(\E state \in UpstreamStates : UpstreamProceeds(o, k, state))
    /\ SF_vars(\E w \in Workers : Claim(w, o))
    /\ SF_vars(\E w \in Workers : At(w, "claimed") /\ Transactions(w, o))
    /\ SF_vars(\E w \in Workers : At(w, "quoting") /\ Transactions(w, o))
    /\ SF_vars(\E w \in Workers : OrderOf(w) = o /\ Holds(w) /\ LookupFound(w))
    /\ SF_vars(\E w \in Workers, k \in Seqs : ApplySuccess(w, o, k))
    /\ SF_vars(\E w \in Workers, k \in Seqs : ApplyFailed(w, o, k))
    /\ SF_vars(\E w \in Workers, k \in Seqs : ApplyReviewing(w, o, k))

Fairness ==
    /\ \A o \in Orders : FairTo(o)
    /\ \A w \in Workers : WF_vars(~At(w, "idle") /\ Moves(w))

FairSpec == Spec /\ Fairness

(* Frozen money never stays frozen in silence: the order is settled, or    *)
(* the user has been told that its purchase is under review.               *)
HeldOrdersGetAnAnswer ==
    \A o \in Orders : orders[o].wallet_state = "held" ~>
        \/ orders[o].wallet_state \in {"captured", "released"}
        \/ "review" \in notes[o]

(* A delivery the worker can ask about - the upstream number is stored, or *)
(* the provider finds it by business id - is charged in the end, also      *)
(* after crashes, unclear answers and a review.                            *)
DeliveriesAreCharged ==
    \A o \in Orders, k \in Seqs :
        /\ k <= Len(attempts[o]) /\ upstream[o][k].state = "success"
        /\ attempts[o][k].upstream_order_id \/ attempts[o][k].provider \in Lookup
        ~> orders[o].wallet_state = "captured"

-----------------------------------------------------------------------------
(* The order's escrow: the abstract view of what all of this is for.       *)
Goods(o) ==
    CASE \E k \in Seqs : upstream[o][k].state = "success" -> "delivered"
      [] \A k \in Seqs : ~MayDeliver(o, k)                -> "none"
      [] OTHER                                            -> "ordered"

EscrowOf == INSTANCE Escrow WITH
    escrow <- [o \in Orders |-> orders[o].wallet_state],
    goods  <- [o \in Orders |-> Goods(o)]

(* The worker, the upstream and every crash between them implement it.     *)
ImplementsEscrow == EscrowOf!Spec
=============================================================================
