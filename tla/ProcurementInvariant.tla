------------------------ MODULE ProcurementInvariant ------------------------
(***************************************************************************)
(* Why the safety properties hold: the facts about the tables, the passes  *)
(* and the upstream that every step keeps.  Two ideas carry them.  All     *)
(* writes to an attempt come from the holder of the lease token, and the   *)
(* holder knows it works on the last attempt.  And whoever may still post  *)
(* an attempt is known: once a first submission is rejected under its own  *)
(* token, no other worker was ever given that attempt.                     *)
(***************************************************************************)
EXTENDS ProcurementProperties

(* A worker past its first transaction works on an attempt that exists. *)
PassOK ==
    \A w \in Workers :
        /\ worker[w].pc # "idle" => OrderOf(w) \in Orders
        /\ worker[w].pc \in {"calling", "posting", "waiting", "result"} =>
              worker[w].seq \in 1..Len(attempts[OrderOf(w)])
        /\ worker[w].first => worker[w].pc \in {"calling", "waiting", "result"}

(* The status of an order, its money and its attempts agree. *)
StatusOK ==
    \A o \in Orders :
        /\ orders[o].status = "absent" <=> orders[o].wallet_state = "none"
        /\ orders[o].status \in {"reserved", "delegating"} <=> orders[o].wallet_state = "held"
        /\ orders[o].status = "active" <=> orders[o].wallet_state = "captured"
        /\ orders[o].status = "refunded" <=> orders[o].wallet_state = "released"
        /\ orders[o].status \in {"absent", "reserved"} => Len(attempts[o]) = 0
        /\ orders[o].status \in {"delegating", "active"} => Len(attempts[o]) > 0
        /\ orders[o].wallet_state = "none" => orders[o].lease_token = None

(* Only the last attempt can be open, none is once the money is back, and  *)
(* a success is what the money was taken for.                              *)
AttemptsOK ==
    \A o \in Orders : \A k \in 1..Len(attempts[o]) :
        /\ k < Len(attempts[o]) => attempts[o][k].state \in Concluded
        /\ orders[o].wallet_state = "released" => attempts[o][k].state \in Concluded
        /\ attempts[o][k].state = "succeeded" <=>
              k = Len(attempts[o]) /\ orders[o].wallet_state = "captured"

(* A worker that may still put a POST of an attempt on the wire, or has. *)
Engaged(w, o, k) ==
    /\ worker[w].pc \in {"calling", "posting", "waiting"}
    /\ OrderOf(w) = o /\ worker[w].seq = k

(* What the tables conclude is so upstream: a failure is the upstream's    *)
(* own, and after a rejection nobody can have the attempt accepted.        *)
Agrees(o, k) ==
    /\ k > Len(attempts[o]) => upstream[o][k].state = "none" /\ ~upstream[o][k].stray
    /\ k <= Len(attempts[o]) =>
        /\ attempts[o][k].state = "succeeded" => upstream[o][k].state = "success"
        /\ attempts[o][k].state = "failed" => upstream[o][k].state = "failed"
        /\ attempts[o][k].state = "rejected" =>
             /\ upstream[o][k].state = "none" /\ ~upstream[o][k].stray
             /\ \A w \in Workers : ~Engaged(w, o, k)

UpstreamOK == \A o \in Orders, k \in Seqs : Agrees(o, k)

(* The results a worker carries are the upstream's. *)
ResultOf(w) ==
    At(w, "result") =>
        /\ worker[w].result = "success" => TheUpstream(w).state = "success"
        /\ worker[w].result = "failed" => TheUpstream(w).state = "failed"

ResultOK == \A w \in Workers : ResultOf(w)

(* The holder of the token works on the last attempt, which is open. *)
HolderOf(w) ==
    ~At(w, "idle") /\ Holds(w) =>
        LET o == OrderOf(w)
        IN  /\ At(w, "quoting") => \A k \in 1..Len(attempts[o]) :
                                      attempts[o][k].state \in Concluded
            /\ worker[w].pc \in {"calling", "posting", "waiting", "result"} =>
                 /\ orders[o].status = "delegating"
                 /\ worker[w].seq = Len(attempts[o])
                 /\ attempts[o][worker[w].seq].state \notin Concluded

HolderOK == \A w \in Workers : HolderOf(w)

(* A first submission is its attempt's only one while its lease holds. *)
FirstOf(w) ==
    ~At(w, "idle") /\ worker[w].first /\ Holds(w) =>
        /\ \A v \in Workers \ {w} : ~Engaged(v, OrderOf(w), worker[w].seq)
        /\ worker[w].pc \in {"calling", "waiting"} => ~TheUpstream(w).stray
        /\ At(w, "calling") => TheUpstream(w).state = "none"
        /\ At(w, "result") /\ worker[w].result = "rejected" =>
             TheUpstream(w).state = "none" /\ ~TheUpstream(w).stray

FirstOK == \A w \in Workers : FirstOf(w)

(* All of it: what the transactions of _claim, process, _apply and _error  *)
(* rely on when they write without asking the upstream again.              *)
PurchasesOK ==
    PassOK /\ StatusOK /\ AttemptsOK /\ UpstreamOK /\ ResultOK /\ HolderOK /\ FirstOK

PurchaseInv == TypeOK /\ PurchasesOK

-----------------------------------------------------------------------------
(* What one step does to the rows of one order.  Each of these is one kind *)
(* of transaction, and OrderStep says that there are no others: with it    *)
(* the promises below need no second look at the actions.                  *)
WalletGoes(o, from, to) ==
    orders[o].wallet_state = from /\ orders'[o].wallet_state = to

Enters(o, kinds) == EntryKinds(o)' = EntryKinds(o) \cup kinds
Tells(o, events) == notes'[o] = notes[o] \cup events

StaysQueued(o) ==
    \/ orders'[o].next_run_at # "none"
    \/ orders'[o].next_run_at = orders[o].next_run_at

(* The holder of the lease, in a pass that this step ends or moves on. *)
Writes(w, o) ==
    ~At(w, "idle") /\ OrderOf(w) = o /\ Holds(w) /\ worker'[w] # worker[w]

WritesLast(w, o, attempt) ==
    /\ Writes(w, o)
    /\ Len(attempts[o]) > 0
    /\ attempt.provider = attempts[o][Len(attempts[o])].provider
    /\ attempts'[o] = [attempts[o] EXCEPT ![Len(attempts[o])] = attempt]

(* A claim, a lookup, a lost lease, the clock: nothing anyone is told of. *)
Rests(o) ==
    /\ orders'[o].wallet_state = orders[o].wallet_state
    /\ orders[o].wallet_state = "held" => StaysQueued(o)
    /\ attempts'[o] = attempts[o]
    /\ Enters(o, {}) /\ Tells(o, {})

Opens(o) ==
    /\ WalletGoes(o, "none", "held")
    /\ orders'[o].next_run_at # "none"
    /\ attempts'[o] = attempts[o]
    /\ Enters(o, {"hold"}) /\ Tells(o, {})

Buys(w, o, p) ==
    /\ Writes(w, o)
    /\ At(w, "quoting") /\ worker[w].seq = Len(attempts[o]) + 1
    /\ p \notin worker[w].excluded
    /\ attempts'[o] = Append(attempts[o], NewAttempt(p))
    /\ WalletGoes(o, "held", "held") /\ StaysQueued(o)
    /\ Enters(o, {}) /\ Tells(o, {})

Records(w, o, attempt) ==
    /\ WritesLast(w, o, attempt)
    /\ attempt.state # "succeeded"
    /\ WalletGoes(o, "held", "held") /\ StaysQueued(o)
    /\ Enters(o, {})
    /\ Tells(o, IF attempt.state = "reviewing" THEN {"review"} ELSE {})

Charges(w, o, attempt) ==
    /\ WritesLast(w, o, attempt)
    /\ attempt.state = "succeeded"
    /\ WalletGoes(o, "held", "captured")
    /\ Enters(o, {"capture"}) /\ Tells(o, {"fulfilled"})

Refunds(o) ==
    /\ WalletGoes(o, "held", "released")
    /\ attempts'[o] = attempts[o]
    /\ Enters(o, {"release"}) /\ Tells(o, {"refunded"})

OrderStep(o) ==
    \/ Rests(o) \/ Opens(o) \/ Refunds(o)
    \/ \E w \in Workers, p \in Providers : Buys(w, o, p)
    \/ \E w \in Workers, a \in Attempt : Records(w, o, a) \/ Charges(w, o, a)

(* A worker that compares offers knows of every provider tried before the  *)
(* attempt it is about to make.                                            *)
AskedOf(w) ==
    At(w, "quoting") =>
        /\ worker[w].seq <= Len(attempts[OrderOf(w)]) + 1
        /\ \A k \in 1..Len(attempts[OrderOf(w)]) :
              k < worker[w].seq => attempts[OrderOf(w)][k].provider \in worker[w].excluded

AskedOK == \A w \in Workers : AskedOf(w)

-----------------------------------------------------------------------------
(* A worker that may still put the POST on the wire that its transaction   *)
(* has paid for: it has not posted, and did not come to look only.         *)
Payer(w, o, k) ==
    /\ worker[w].pc \in {"calling", "posting"}
    /\ OrderOf(w) = o /\ worker[w].seq = k
    /\ ~worker[w].known /\ ~worker[w].reviewing

Payers(o, k) == {w \in Workers : Payer(w, o, k)}

(* What a pass knows of an attempt it did not read is nothing. *)
MemoryOf(w) ==
    worker[w].pc \in {"claimed", "quoting", "posting"} \/ worker[w].first =>
        ~worker[w].known /\ ~worker[w].reviewing

MemoryOK == \A w \in Workers : MemoryOf(w)

(* Every POST of an attempt, sent or still to come, has been counted in    *)
(* submit_attempts by the transaction before it.                           *)
PaidFor(o, k) ==
    /\ IsFiniteSet(Payers(o, k))
    /\ k > Len(attempts[o]) => upstream[o][k].posts = 0
    /\ k <= Len(attempts[o]) =>
          upstream[o][k].posts + Cardinality(Payers(o, k)) <= attempts[o][k].submit_attempts

BudgetOK == \A o \in Orders, k \in Seqs : PaidFor(o, k)

BudgetInv == PurchaseInv /\ MemoryOK /\ BudgetOK
=============================================================================
