-------------------------- MODULE ProcurementSafety --------------------------
(***************************************************************************)
(* The safety of purchasing: TypeOK and PurchaseInv are inductive, and     *)
(* with them the money follows the goods, for every number of orders,      *)
(* workers and providers and every value of the limits.                    *)
(*                                                                         *)
(* Part 1 says what the steps write: lemmas about the record updates, the  *)
(* ledger operations and the memory of a worker, cited instead of the      *)
(* definitions from there on.  Part 2 is type correctness, one lemma per   *)
(* kind of step.                                                           *)
(*                                                                         *)
(* Part 3 is PurchaseInv.  The steps of Procurement come in a few shapes:  *)
(* a call moves one worker on, a pass is forgotten, a pass ends under its  *)
(* lease, an outcome is committed, the upstream moves, a user or the clock *)
(* changes an order.  One lemma per shape shows that such a step keeps the *)
(* invariant; then the actions are matched with the shapes.                *)
(***************************************************************************)
EXTENDS ProcurementInvariant, TLAPS, SequenceTheorems

USE OrdersAssumption, ProcurementAssumption

-----------------------------------------------------------------------------
(* Part 1.  What the steps write.                                          *)

(* Changing one attempt of one order changes nothing else. *)
LEMMA SetAttemptFacts ==
    ASSUME NEW S, NEW f \in [Orders -> Seq(S)],
           NEW o \in Orders, NEW k \in 1..Len(f[o]), NEW a \in S,
           NEW g, g = [f EXCEPT ![o][k] = a]
    PROVE  /\ g \in [Orders -> Seq(S)]
           /\ \A p \in Orders : Len(g[p]) = Len(f[p])
           /\ \A p \in Orders : \A j \in 1..Len(f[p]) :
                 g[p][j] = IF p = o /\ j = k THEN a ELSE f[p][j]
           /\ \A p \in Orders : p # o => g[p] = f[p]
<1>1. f[o] \in Seq(S)
  OBVIOUS
<1>2. /\ [f[o] EXCEPT ![k] = a] \in Seq(S)
      /\ Len([f[o] EXCEPT ![k] = a]) = Len(f[o])
      /\ \A j \in 1..Len(f[o]) : [f[o] EXCEPT ![k] = a][j] = IF j = k THEN a ELSE f[o][j]
  BY <1>1, ExceptSeq
<1>3. g = [f EXCEPT ![o] = [f[o] EXCEPT ![k] = a]]
  OBVIOUS
<1> QED
  BY <1>2, <1>3

(* A new attempt comes last. *)
LEMMA AppendFacts ==
    ASSUME NEW S, NEW f \in [Orders -> Seq(S)],
           NEW o \in Orders, NEW a \in S,
           NEW g, g = [f EXCEPT ![o] = Append(@, a)]
    PROVE  /\ g \in [Orders -> Seq(S)]
           /\ Len(g[o]) = Len(f[o]) + 1
           /\ g[o][Len(f[o]) + 1] = a
           /\ \A j \in 1..Len(f[o]) : g[o][j] = f[o][j]
           /\ \A p \in Orders : p # o => g[p] = f[p]
<1>1. f[o] \in Seq(S)
  OBVIOUS
<1>2. /\ Append(f[o], a) \in Seq(S)
      /\ Len(Append(f[o], a)) = Len(f[o]) + 1
      /\ \A j \in 1..Len(f[o]) : Append(f[o], a)[j] = f[o][j]
      /\ Append(f[o], a)[Len(f[o]) + 1] = a
  BY <1>1, AppendProperties
<1>3. g = [f EXCEPT ![o] = Append(f[o], a)]
  OBVIOUS
<1> QED
  BY <1>2, <1>3


-----------------------------------------------------------------------------
(* Types.                                                                  *)
TypeInv == TypeOK /\ PassOK

(* The empty tables are well typed. *)
LEMMA InitTypes == ProcurementInit => TypeInv
BY DEF ProcurementInit, RentalInit, TypeInv, TypeOK, PassOK, Balances, NoOrder, Order,
       Statuses, WalletStates, Idle, Pass, Unknown, Purchase, UpstreamStates, Seqs

(* What the record updates of the transactions write.                      *)
LEMMA OrderUpdates ==
    ASSUME NEW r \in Order, NEW next \in {"none", "due", "later"}
    PROVE  /\ Finished(r, next) \in Order
           /\ Finished(r, next).lease_token = None
           /\ Finished(r, next).next_run_at = next
           /\ Finished(r, next).status = r.status
           /\ Finished(r, next).wallet_state = r.wallet_state
           /\ Retried(r) \in Order
           /\ Retried(r).status = r.status /\ Retried(r).wallet_state = r.wallet_state
           /\ Answered(r) \in Order
           /\ Answered(r).status = r.status /\ Answered(r).wallet_state = r.wallet_state
           /\ Begun(r) \in Order
           /\ Begun(r).status = "delegating" /\ Begun(r).wallet_state = r.wallet_state
           /\ Begun(r).lease_token = r.lease_token /\ Begun(r).next_run_at = r.next_run_at
           /\ Completed(r) \in Order
           /\ Completed(r).status = "active" /\ Completed(r).wallet_state = "captured"
           /\ Released(r) \in Order
           /\ Released(r).status = "refunded" /\ Released(r).wallet_state = "released"
           /\ Released(r).next_run_at = "none" /\ Released(r).lease_token = r.lease_token
<1> USE DEF Order
<1>1. Finished(r, next) \in Order /\ Finished(r, next).lease_token = None
      /\ Finished(r, next).next_run_at = next /\ Finished(r, next).status = r.status
      /\ Finished(r, next).wallet_state = r.wallet_state
  BY DEF Finished
<1>2. Retried(r) \in Order /\ Retried(r).status = r.status
      /\ Retried(r).wallet_state = r.wallet_state
  BY DEF Retried
<1>3. Answered(r) \in Order /\ Answered(r).status = r.status
      /\ Answered(r).wallet_state = r.wallet_state
  BY DEF Answered
<1>4. Begun(r) \in Order /\ Begun(r).status = "delegating"
      /\ Begun(r).wallet_state = r.wallet_state
      /\ Begun(r).lease_token = r.lease_token /\ Begun(r).next_run_at = r.next_run_at
  BY DEF Begun, Statuses
<1>5. Completed(r) \in Order /\ Completed(r).status = "active"
      /\ Completed(r).wallet_state = "captured"
  BY DEF Completed, Statuses, WalletStates
<1>6. Released(r) \in Order /\ Released(r).status = "refunded"
      /\ Released(r).wallet_state = "released"
      /\ Released(r).next_run_at = "none" /\ Released(r).lease_token = r.lease_token
  BY DEF Released, Statuses, WalletStates
<1> QED
  BY <1>1, <1>2, <1>3, <1>4, <1>5, <1>6

(* An outcome changes the state of an attempt and not its provider. *)
LEMMA AttemptUpdates ==
    ASSUME NEW a \in Attempt, NEW state \in AttemptStates
    PROVE  /\ Numbered(a, state) \in Attempt /\ Numbered(a, state).state = state
           /\ Numbered(a, state).provider = a.provider
           /\ [a EXCEPT !.state = state] \in Attempt
           /\ [a EXCEPT !.state = state].state = state
           /\ [a EXCEPT !.state = state].provider = a.provider
           /\ [a EXCEPT !.state = state].upstream_order_id = a.upstream_order_id
<1>1. Numbered(a, state) \in Attempt /\ Numbered(a, state).state = state
      /\ Numbered(a, state).provider = a.provider
  BY DEF Attempt, Numbered
<1>2. LET b == [a EXCEPT !.state = state]
      IN  /\ b \in Attempt /\ b.state = state /\ b.provider = a.provider
          /\ b.upstream_order_id = a.upstream_order_id
  BY DEF Attempt
<1> QED
  BY <1>1, <1>2

(* Counting a submission stays within the limit and changes nothing else. *)
LEMMA SubmitUpdates ==
    \A a \in Attempt : LET b == [a EXCEPT !.submit_attempts = @ + 1]
                       IN  /\ a.submit_attempts < MaxSubmitAttempts => b \in Attempt
                           /\ b.state = a.state /\ b.provider = a.provider
                           /\ b.upstream_order_id = a.upstream_order_id
BY DEF Attempt

(* Taking, moving and ending a lease leaves the money of the row alone. *)
LEMMA LeaseUpdates ==
    ASSUME NEW r \in Order, NEW w \in Workers,
           NEW next \in {"none", "due", "later"}, NEW until \in {"none", "live", "expired"}
    PROVE  /\ LET q == [r EXCEPT !.lease_token = w, !.lease_until = "live"]
              IN  /\ q \in Order /\ q.lease_token = w /\ q.next_run_at = r.next_run_at
                  /\ q.status = r.status /\ q.wallet_state = r.wallet_state
           /\ LET q == [r EXCEPT !.next_run_at = next]
              IN  /\ q \in Order /\ q.lease_token = r.lease_token /\ q.next_run_at = next
                  /\ q.status = r.status /\ q.wallet_state = r.wallet_state
           /\ LET q == [r EXCEPT !.lease_until = until]
              IN  /\ q \in Order /\ q.lease_token = r.lease_token
                  /\ q.next_run_at = r.next_run_at
                  /\ q.status = r.status /\ q.wallet_state = r.wallet_state
<1>1. LET q == [r EXCEPT !.lease_token = w, !.lease_until = "live"]
      IN  /\ q \in Order /\ q.lease_token = w /\ q.next_run_at = r.next_run_at
          /\ q.status = r.status /\ q.wallet_state = r.wallet_state
  BY DEF Order
<1>2. LET q == [r EXCEPT !.next_run_at = next]
      IN  /\ q \in Order /\ q.lease_token = r.lease_token /\ q.next_run_at = next
          /\ q.status = r.status /\ q.wallet_state = r.wallet_state
  BY DEF Order
<1>3. LET q == [r EXCEPT !.lease_until = until]
      IN  /\ q \in Order /\ q.lease_token = r.lease_token
          /\ q.next_run_at = r.next_run_at
          /\ q.status = r.status /\ q.wallet_state = r.wallet_state
  BY DEF Order
<1> QED
  BY <1>1, <1>2, <1>3

(* What a new row of each table is. *)
LEMMA NewRows ==
    /\ \A p \in Providers : /\ NewAttempt(p) \in Attempt
                            /\ NewAttempt(p).state = "submitting"
                            /\ NewAttempt(p).provider = p
    /\ /\ ReservedOrder \in Order /\ ReservedOrder.status = "reserved"
       /\ ReservedOrder.wallet_state = "held" /\ ReservedOrder.lease_token = None
       /\ ReservedOrder.next_run_at = "due"
    /\ /\ NoOrder.status = "absent" /\ NoOrder.wallet_state = "none"
       /\ NoOrder.lease_token = None
    /\ Idle \in Pass /\ Idle.pc = "idle" /\ Idle.first = FALSE
    /\ Unknown \in Purchase /\ Unknown.state = "none" /\ Unknown.stray = FALSE
<1>1. \A p \in Providers : NewAttempt(p) \in Attempt /\ NewAttempt(p).state = "submitting"
                           /\ NewAttempt(p).provider = p
  BY DEF NewAttempt, Attempt, AttemptStates
<1>2. /\ ReservedOrder \in Order /\ ReservedOrder.status = "reserved"
      /\ ReservedOrder.wallet_state = "held" /\ ReservedOrder.lease_token = None
      /\ ReservedOrder.next_run_at = "due"
  BY DEF ReservedOrder, Order, Statuses, WalletStates
<1>3. NoOrder.status = "absent" /\ NoOrder.wallet_state = "none" /\ NoOrder.lease_token = None
  BY DEF NoOrder
<1>4. Idle \in Pass /\ Idle.pc = "idle" /\ Idle.first = FALSE
  BY DEF Idle, Pass
<1>5. Unknown \in Purchase /\ Unknown.state = "none" /\ Unknown.stray = FALSE
  BY DEF Unknown, Purchase, UpstreamStates
<1> QED
  BY <1>1, <1>2, <1>3, <1>4, <1>5

(* Writing the row of one order. *)
LEMMA SetOrderFacts ==
    ASSUME TypeOK, NEW o \in Orders, NEW r \in Order, SetOrder(o, r)
    PROVE  /\ orders' \in [Orders -> Order]
           /\ orders'[o] = r
           /\ \A p \in Orders : p # o => orders'[p] = orders[p]
BY DEF TypeOK, SetOrder

(* The ledger operations keep every balance a natural number.              *)
LEMMA BalanceUpdates ==
    \A b \in Balances : \A x, y \in Nat : [b EXCEPT !.available = x, !.frozen = y] \in Balances
BY DEF Balances

(* A ledger entry keeps the balances natural numbers if it overdraws none. *)
LEMMA PostTypes ==
    ASSUME TypeOK, NEW u \in Users, NEW x \in Int, NEW y \in Int, NEW key,
           wallets[u].available + x >= 0, wallets[u].frozen + y >= 0,
           Post(Entry(key, u, x, y))
    PROVE  wallets' \in [Users -> Balances]
<1>1. wallets \in [Users -> Balances] /\ wallets[u] \in Balances
  BY DEF TypeOK
<1>2. wallets[u].available + x \in Nat /\ wallets[u].frozen + y \in Nat
  BY <1>1 DEF Balances
<1>3. [wallets[u] EXCEPT !.available = @ + x, !.frozen = @ + y] \in Balances
  BY <1>1, <1>2, BalanceUpdates
<1>4. wallets' = [wallets EXCEPT ![u] = [wallets[u] EXCEPT !.available = @ + x, !.frozen = @ + y]]
  BY <1>1 DEF Post, Entry, Balances
<1> QED
  BY <1>1, <1>3, <1>4

(* The three operations of wallet.py overdraw nothing: their guards see to it. *)
LEMMA MoveTypes ==
    ASSUME TypeOK, NEW o \in Orders
    PROVE  /\ Hold(Owner[o], o, Price[o]) => wallets' \in [Users -> Balances]
           /\ Capture(Owner[o], o, Price[o]) => wallets' \in [Users -> Balances]
           /\ Release(Owner[o], o, Price[o]) => wallets' \in [Users -> Balances]
<1>1. /\ Owner[o] \in Users /\ Price[o] \in Nat
      /\ wallets[Owner[o]].available \in Nat /\ wallets[Owner[o]].frozen \in Nat
  BY DEF TypeOK, Balances
<1>2. ASSUME Hold(Owner[o], o, Price[o]) PROVE wallets' \in [Users -> Balances]
  BY <1>1, <1>2, PostTypes DEF Hold
<1>3. ASSUME Capture(Owner[o], o, Price[o]) PROVE wallets' \in [Users -> Balances]
  BY <1>1, <1>3, PostTypes DEF Capture
<1>4. ASSUME Release(Owner[o], o, Price[o]) PROVE wallets' \in [Users -> Balances]
  BY <1>1, <1>4, PostTypes DEF Release
<1> QED
  BY <1>2, <1>3, <1>4

(* A notification is stored for its own order. *)
LEMMA NotifyFacts ==
    ASSUME TypeOK, NEW o \in Orders, NEW e \in Events, Notify(o, e)
    PROVE  /\ notes' \in [Orders -> SUBSET Events]
           /\ notes'[o] = notes[o] \cup {e}
           /\ \A p \in Orders : p # o => notes'[p] = notes[p]
BY DEF TypeOK, Notify

-----------------------------------------------------------------------------
(* What a step leaves in the memory of a worker.                           *)
LEMMA LeaveFacts ==
    ASSUME TypeOK, NEW w \in Workers, Leave(w)
    PROVE  /\ worker' \in [Workers -> Pass]
           /\ \A v \in Workers : v # w => worker'[v] = worker[v]
           /\ worker'[w].pc = "idle" /\ worker'[w].first = FALSE
<1> Idle \in Pass /\ Idle.pc = "idle" /\ Idle.first = FALSE
  BY DEF Idle, Pass
<1> QED
  BY DEF TypeOK, Leave

(* A worker that has a result keeps its order and attempt. *)
LEMMA GotFacts ==
    ASSUME TypeOK, NEW w \in Workers, NEW result \in Results, Got(w, result)
    PROVE  /\ worker' \in [Workers -> Pass]
           /\ \A v \in Workers : v # w => worker'[v] = worker[v]
           /\ worker'[w].pc = "result" /\ worker'[w].result = result
           /\ worker'[w].order = worker[w].order
           /\ worker'[w].seq = worker[w].seq
           /\ worker'[w].first = worker[w].first
<1>1. worker[w] \in Pass /\ worker \in [Workers -> Pass]
  BY DEF TypeOK
<1>2. \A r \in Pass :
        LET q == [r EXCEPT !.pc = "result", !.result = result, !.known = FALSE, !.reviewing = FALSE]
        IN  /\ q \in Pass /\ q.pc = "result" /\ q.result = result
            /\ q.order = r.order /\ q.seq = r.seq /\ q.first = r.first
  BY DEF Pass
<1>3. worker' = [worker EXCEPT ![w] = [worker[w] EXCEPT !.pc = "result", !.result = result, !.known = FALSE, !.reviewing = FALSE]]
  BY DEF Got
<1> QED
  BY <1>1, <1>2, <1>3

(* A pass that resumes an attempt calls for that attempt. *)
LEMMA CallFacts ==
    ASSUME TypeOK, NEW w \in Workers, NEW k \in 1..MaxAttempts, NEW a \in Attempt, Call(w, k, a)
    PROVE  /\ worker' \in [Workers -> Pass]
           /\ \A v \in Workers : v # w => worker'[v] = worker[v]
           /\ worker'[w].pc = "calling" /\ worker'[w].order = worker[w].order
           /\ worker'[w].seq = k /\ worker'[w].first = FALSE
<1>1. worker[w] \in Pass /\ worker \in [Workers -> Pass]
  BY DEF TypeOK
<1>2. a.upstream_order_id \in BOOLEAN /\ (a.state = "reviewing") \in BOOLEAN
  BY DEF Attempt
<1>3. k \in 0..MaxAttempts + 1
  OBVIOUS
<1>4. \A r \in Pass :
        LET q == [r EXCEPT !.pc = "calling", !.seq = k, !.first = FALSE,
                           !.known = a.upstream_order_id, !.reviewing = (a.state = "reviewing")]
        IN  q \in Pass
  BY <1>2, <1>3 DEF Pass
<1>5. \A r \in Pass :
        LET q == [r EXCEPT !.pc = "calling", !.seq = k, !.first = FALSE,
                           !.known = a.upstream_order_id, !.reviewing = (a.state = "reviewing")]
        IN  q.pc = "calling" /\ q.order = r.order /\ q.seq = k /\ q.first = FALSE
  BY <1>2, <1>3 DEF Pass
<1>6. worker' = [worker EXCEPT ![w] =
        [worker[w] EXCEPT !.pc = "calling", !.seq = k, !.first = FALSE,
            !.known = a.upstream_order_id, !.reviewing = (a.state = "reviewing")]]
  BY Zenon DEF Call
<1> QED
  BY <1>1, <1>4, <1>5, <1>6

(* A claim begins a fresh pass. *)
LEMMA ClaimFacts ==
    ASSUME TypeOK, NEW w \in Workers, NEW o \in Orders,
           worker' = [worker EXCEPT ![w] = [Idle EXCEPT !.pc = "claimed", !.order = o]]
    PROVE  /\ worker' \in [Workers -> Pass]
           /\ \A v \in Workers : v # w => worker'[v] = worker[v]
           /\ worker'[w].pc = "claimed" /\ worker'[w].order = o
           /\ worker'[w].first = FALSE
<1>1. \A r \in Pass : LET q == [r EXCEPT !.pc = "claimed", !.order = o]
                      IN  q \in Pass /\ q.pc = "claimed" /\ q.order = o /\ q.first = r.first
  BY DEF Pass
<1>2. worker \in [Workers -> Pass]
  BY DEF TypeOK
<1> QED
  BY <1>1, <1>2, NewRows

(* A worker that turns to comparing offers. *)
LEMMA QuotingPass ==
    ASSUME NEW w \in Workers, worker \in [Workers -> Pass],
           NEW seq \in 0..MaxAttempts + 1, NEW excluded \in SUBSET Providers,
           worker' = [worker EXCEPT
               ![w] = [@ EXCEPT !.pc = "quoting", !.seq = seq, !.excluded = excluded]]
    PROVE  /\ worker' \in [Workers -> Pass]
           /\ \A v \in Workers : v # w => worker'[v] = worker[v]
           /\ worker'[w].pc = "quoting" /\ worker'[w].order = worker[w].order
           /\ worker'[w].first = worker[w].first
           /\ worker'[w].seq = seq
<1>1. worker[w] \in Pass
  OBVIOUS
<1>2. \A r \in Pass : LET q == [r EXCEPT !.pc = "quoting", !.seq = seq, !.excluded = excluded]
                      IN  q \in Pass
  BY DEF Pass
<1>3. \A r \in Pass : LET q == [r EXCEPT !.pc = "quoting", !.seq = seq, !.excluded = excluded]
                      IN  /\ q.pc = "quoting" /\ q.order = r.order
                          /\ q.first = r.first /\ q.seq = seq
  BY DEF Pass
<1> QED
  BY <1>1, <1>2, <1>3

(* It does so for the attempt after the last one. *)
LEMMA QuotingFacts ==
    ASSUME TypeOK, NEW w \in Workers, NEW o \in Orders,
           worker' = [worker EXCEPT
               ![w] = [@ EXCEPT !.pc = "quoting", !.seq = Len(attempts[o]) + 1,
                                !.excluded = Excluded(o)]]
    PROVE  /\ worker' \in [Workers -> Pass]
           /\ \A v \in Workers : v # w => worker'[v] = worker[v]
           /\ worker'[w].pc = "quoting" /\ worker'[w].order = worker[w].order
           /\ worker'[w].first = worker[w].first
           /\ worker'[w].seq = Len(attempts[o]) + 1
<1>1. worker[w] \in Pass /\ worker \in [Workers -> Pass]
  BY DEF TypeOK
<1>2. Excluded(o) \in SUBSET Providers
  <2>1. \A k \in 1..Len(attempts[o]) : attempts[o][k] \in Attempt
    BY ElementOfSeq DEF TypeOK
  <2>2. \A k \in 1..Len(attempts[o]) : attempts[o][k].provider \in Providers
    BY <2>1 DEF Attempt
  <2> QED
    BY <2>2 DEF Excluded
<1>3. Len(attempts[o]) + 1 \in 0..MaxAttempts + 1
  <2>1. attempts[o] \in Seq(Attempt) /\ Len(attempts[o]) <= MaxAttempts
    BY DEF TypeOK
  <2> QED
    BY <2>1
<1> QED
  BY <1>1, <1>2, <1>3, QuotingPass

(* A first submission goes on with the attempt it has just stored. *)
LEMMA PurchaseFacts ==
    ASSUME TypeOK, NEW w \in Workers,
           worker' = [worker EXCEPT
               ![w] = [@ EXCEPT !.pc = "calling", !.first = TRUE, !.excluded = {}]]
    PROVE  /\ worker' \in [Workers -> Pass]
           /\ \A v \in Workers : v # w => worker'[v] = worker[v]
           /\ worker'[w].pc = "calling" /\ worker'[w].order = worker[w].order
           /\ worker'[w].first = TRUE /\ worker'[w].seq = worker[w].seq
<1>1. worker[w] \in Pass /\ worker \in [Workers -> Pass]
  BY DEF TypeOK
<1>2. \A r \in Pass : LET q == [r EXCEPT !.pc = "calling", !.first = TRUE, !.excluded = {}]
                      IN  /\ q \in Pass /\ q.pc = "calling" /\ q.order = r.order
                          /\ q.first = TRUE /\ q.seq = r.seq
  BY DEF Pass
<1> QED
  BY <1>1, <1>2

(* A call that moves on keeps all the worker remembers. *)
LEMMA PostingFacts ==
    ASSUME TypeOK, NEW w \in Workers, NEW pc \in {"posting", "waiting"},
           worker' = [worker EXCEPT ![w] = [@ EXCEPT !.pc = pc]]
    PROVE  /\ worker' \in [Workers -> Pass]
           /\ \A v \in Workers : v # w => worker'[v] = worker[v]
           /\ worker'[w].pc = pc
           /\ worker'[w].order = worker[w].order
           /\ worker'[w].seq = worker[w].seq
           /\ worker'[w].first = worker[w].first
           /\ worker'[w].result = worker[w].result
<1>1. worker[w] \in Pass /\ worker \in [Workers -> Pass]
  BY DEF TypeOK
<1>2. \A r \in Pass : LET q == [r EXCEPT !.pc = pc]
                      IN  /\ q \in Pass /\ q.pc = pc /\ q.order = r.order
                          /\ q.seq = r.seq /\ q.first = r.first /\ q.result = r.result
  BY DEF Pass
<1> QED
  BY <1>1, <1>2

(* What a call changes upstream: nothing but the purchase it is about.     *)
LEMMA SetUpstreamFacts ==
    ASSUME TypeOK, NEW o \in Orders, NEW k \in Seqs, NEW u \in Purchase,
           upstream' = [upstream EXCEPT ![o][k] = u]
    PROVE  /\ upstream' \in [Orders -> [Seqs -> Purchase]]
           /\ upstream'[o][k] = u
           /\ \A p \in Orders, j \in Seqs :
                 (p # o \/ j # k) => upstream'[p][j] = upstream[p][j]
BY DEF TypeOK

(* The changes a purchase goes through upstream. *)
LEMMA PurchaseUpdates ==
    ASSUME NEW u \in Purchase, NEW state \in UpstreamStates, NEW stray \in BOOLEAN
    PROVE  /\ Abandoned(u) \in Purchase /\ Abandoned(u).state = u.state
           /\ Abandoned(u).posts = u.posts
           /\ Abandoned(u).stray <=> u.stray \/ u.state = "none"
           /\ LET v == [u EXCEPT !.posts = @ + 1]
              IN  v \in Purchase /\ v.state = u.state /\ v.stray = u.stray
           /\ LET v == [u EXCEPT !.state = state]
              IN  v \in Purchase /\ v.state = state /\ v.stray = u.stray
           /\ LET v == [u EXCEPT !.stray = stray]
              IN  v \in Purchase /\ v.state = u.state /\ v.stray = stray
           /\ LET v == [u EXCEPT !.state = state, !.stray = stray]
              IN  v \in Purchase /\ v.state = state /\ v.stray = stray
<1>1. /\ Abandoned(u) \in Purchase /\ Abandoned(u).state = u.state
      /\ Abandoned(u).posts = u.posts
      /\ Abandoned(u).stray <=> u.stray \/ u.state = "none"
  BY DEF Purchase, Abandoned
<1>2. \A x \in Purchase : LET v == [x EXCEPT !.posts = @ + 1]
                          IN  v \in Purchase /\ v.state = x.state /\ v.stray = x.stray
  BY DEF Purchase
<1>3. LET v == [u EXCEPT !.state = state]
      IN  v \in Purchase /\ v.state = state /\ v.stray = u.stray
  BY DEF Purchase
<1>4. LET v == [u EXCEPT !.stray = stray]
      IN  v \in Purchase /\ v.state = u.state /\ v.stray = stray
  BY DEF Purchase
<1>5. LET v == [u EXCEPT !.state = state, !.stray = stray]
      IN  v \in Purchase /\ v.state = state /\ v.stray = stray
  BY DEF Purchase
<1> QED
  BY <1>1, <1>2, <1>3, <1>4, <1>5

(* The lemmas above for the steps of the upstream.                         *)
LEMMA ArriveFacts ==
    ASSUME TypeOK, NEW o \in Orders, NEW k \in Seqs, PostArrives(o, k)
    PROVE  /\ upstream' \in [Orders -> [Seqs -> Purchase]]
           /\ upstream'[o][k].state = "processing"
           /\ upstream'[o][k].stray = FALSE
           /\ \A p \in Orders, j \in Seqs :
                 (p # o \/ j # k) => upstream'[p][j] = upstream[p][j]
<1>1. upstream[o][k] \in Purchase /\ upstream \in [Orders -> [Seqs -> Purchase]]
  BY DEF TypeOK
<1>2. \A u \in Purchase : LET v == [u EXCEPT !.state = "processing", !.stray = FALSE]
                          IN  v \in Purchase /\ v.state = "processing" /\ v.stray = FALSE
  BY DEF Purchase, UpstreamStates
<1>3. upstream' = [upstream EXCEPT ![o][k] = [upstream[o][k] EXCEPT !.state = "processing", !.stray = FALSE]]
  BY <1>1 DEF PostArrives
<1> QED
  BY <1>1, <1>2, <1>3

(* A late POST that is lost leaves the purchase as it was. *)
LEMMA StrayLostFacts ==
    ASSUME TypeOK, NEW o \in Orders, NEW k \in Seqs, StrayLost(o, k)
    PROVE  /\ upstream' \in [Orders -> [Seqs -> Purchase]]
           /\ upstream'[o][k].state = upstream[o][k].state
           /\ upstream'[o][k].stray = FALSE
           /\ \A p \in Orders, j \in Seqs :
                 (p # o \/ j # k) => upstream'[p][j] = upstream[p][j]
<1>1. upstream[o][k] \in Purchase /\ upstream \in [Orders -> [Seqs -> Purchase]]
  BY DEF TypeOK
<1>2. \A u \in Purchase : LET v == [u EXCEPT !.stray = FALSE]
                          IN  v \in Purchase /\ v.state = u.state /\ v.stray = FALSE
  BY DEF Purchase, UpstreamStates
<1>3. upstream' = [upstream EXCEPT ![o][k] = [upstream[o][k] EXCEPT !.stray = FALSE]]
  BY <1>1 DEF StrayLost
<1> QED
  BY <1>1, <1>2, <1>3

(* The upstream proceeds with one purchase at a time. *)
LEMMA ProceedsFacts ==
    ASSUME TypeOK, NEW o \in Orders, NEW k \in Seqs, NEW state \in UpstreamStates,
           UpstreamProceeds(o, k, state)
    PROVE  /\ upstream' \in [Orders -> [Seqs -> Purchase]]
           /\ upstream'[o][k].state = state
           /\ upstream'[o][k].stray = upstream[o][k].stray
           /\ \A p \in Orders, j \in Seqs :
                 (p # o \/ j # k) => upstream'[p][j] = upstream[p][j]
<1>1. upstream[o][k] \in Purchase /\ upstream \in [Orders -> [Seqs -> Purchase]]
  BY DEF TypeOK
<1>2. \A u \in Purchase : LET v == [u EXCEPT !.state = state]
                          IN  v \in Purchase /\ v.state = state /\ v.stray = u.stray
  BY DEF Purchase, UpstreamStates
<1>3. upstream' = [upstream EXCEPT ![o][k] = [upstream[o][k] EXCEPT !.state = state]]
  BY <1>1 DEF UpstreamProceeds
<1> QED
  BY <1>1, <1>2, <1>3

-----------------------------------------------------------------------------
(* Part 2.  Type correctness.                                              *)

(* A step keeps the types when each table it writes keeps its own and it   *)
(* leaves the memory of at most one worker changed, in a legal state.      *)
LEMMA TypeStep ==
    ASSUME TypeInv, NEW w \in Workers,
           wallets' \in [Users -> Balances],
           orders' \in [Orders -> Order],
           attempts' \in [Orders -> Seq(Attempt)],
           \A p \in Orders : Len(attempts'[p]) \in Len(attempts[p])..MaxAttempts,
           notes' \in [Orders -> SUBSET Events],
           configured' \in Configurations,
           worker' \in [Workers -> Pass],
           upstream' \in [Orders -> [Seqs -> Purchase]],
           \A v \in Workers : v # w => worker'[v] = worker[v],
           worker'[w].pc # "idle" => worker'[w].order \in Orders,
           worker'[w].pc \in {"calling", "posting", "waiting", "result"} =>
              worker'[w].seq \in 1..Len(attempts'[worker'[w].order]),
           worker'[w].first => worker'[w].pc \in {"calling", "waiting", "result"}
    PROVE  TypeInv'
<1>1. \A p \in Orders : attempts[p] \in Seq(Attempt) /\ attempts'[p] \in Seq(Attempt)
  BY DEF TypeInv, TypeOK
<1>2. \A p \in Orders : Len(attempts[p]) <= Len(attempts'[p]) /\ Len(attempts'[p]) <= MaxAttempts
  BY <1>1
<1>3. TypeOK'
  BY <1>2 DEF TypeOK
<1>4. ASSUME NEW v \in Workers
      PROVE  /\ worker'[v].pc # "idle" => worker'[v].order \in Orders
             /\ worker'[v].pc \in {"calling", "posting", "waiting", "result"} =>
                   worker'[v].seq \in 1..Len(attempts'[worker'[v].order])
             /\ worker'[v].first => worker'[v].pc \in {"calling", "waiting", "result"}
  <2>1. CASE v # w
    <3>1. worker'[v] = worker[v]
      BY <2>1
    <3>2. /\ worker[v].pc # "idle" => worker[v].order \in Orders
          /\ worker[v].pc \in {"calling", "posting", "waiting", "result"} =>
                worker[v].seq \in 1..Len(attempts[worker[v].order])
          /\ worker[v].first => worker[v].pc \in {"calling", "waiting", "result"}
      BY DEF TypeInv, PassOK, OrderOf
    <3>3. worker[v].pc \in {"calling", "posting", "waiting", "result"} =>
             worker[v].seq \in 1..Len(attempts'[worker[v].order])
      <4> SUFFICES ASSUME worker[v].pc \in {"calling", "posting", "waiting", "result"}
                   PROVE  worker[v].seq \in 1..Len(attempts'[worker[v].order])
        OBVIOUS
      <4>1. worker[v].order \in Orders
        BY <3>2
      <4> QED
        BY <1>1, <1>2, <3>2, <4>1
    <3> QED
      BY <3>1, <3>2, <3>3
  <2>2. CASE v = w
    BY <2>2
  <2> QED
    BY <2>1, <2>2
<1>5. PassOK'
  BY <1>4 DEF PassOK, OrderOf
<1> QED
  BY <1>3, <1>5 DEF TypeInv

(* What is kept when a step does not write it.                             *)
LEMMA TypeFacts ==
    ASSUME TypeInv
    PROVE  /\ TypeOK
           /\ wallets \in [Users -> Balances] /\ orders \in [Orders -> Order]
           /\ attempts \in [Orders -> Seq(Attempt)]
           /\ \A p \in Orders : Len(attempts[p]) \in Nat /\ Len(attempts[p]) <= MaxAttempts
           /\ notes \in [Orders -> SUBSET Events] /\ configured \in Configurations
           /\ worker \in [Workers -> Pass] /\ upstream \in [Orders -> [Seqs -> Purchase]]
           /\ \A p \in Orders : \A k \in 1..Len(attempts[p]) :
                 k \in Seqs /\ attempts[p][k] \in Attempt
<1>1. \A p \in Orders : attempts[p] \in Seq(Attempt) /\ Len(attempts[p]) <= MaxAttempts
  BY DEF TypeInv, TypeOK
<1>2. \A p \in Orders : \A k \in 1..Len(attempts[p]) : k \in Seqs /\ attempts[p][k] \in Attempt
  BY <1>1, ElementOfSeq DEF Seqs
<1> QED
  BY <1>1, <1>2 DEF TypeInv, TypeOK

(* The types hold after a step that touches no attempt and no worker. *)
LEMMA TypeStill ==
    ASSUME TypeInv,
           wallets' \in [Users -> Balances],
           orders' \in [Orders -> Order],
           notes' \in [Orders -> SUBSET Events],
           upstream' \in [Orders -> [Seqs -> Purchase]],
           UNCHANGED <<attempts, configured, worker>>
    PROVE  TypeInv'
BY DEF TypeInv, TypeOK, PassOK, OrderOf

(* The transaction that commits an outcome has its order and its attempt,  *)
(* and the token.                                                          *)
LEMMA OutcomeFacts ==
    ASSUME TypeInv, NEW w \in Workers, NEW o \in Orders, NEW k \in Seqs, NEW result,
           Outcome(w, o, k, result)
    PROVE  /\ worker[w].pc = "result" /\ worker[w].order = o /\ worker[w].seq = k
           /\ worker[w].result = result
           /\ orders[o] \in Order /\ orders[o].lease_token = w
           /\ orders[o].wallet_state # "released"
           /\ k \in 1..Len(attempts[o]) /\ attempts[o][k] \in Attempt
           /\ worker' \in [Workers -> Pass]
           /\ \A v \in Workers : v # w => worker'[v] = worker[v]
           /\ worker'[w].pc = "idle" /\ ~worker'[w].first
           /\ configured' = configured /\ upstream' = upstream
<1>1. /\ worker[w].pc = "result" /\ worker[w].order = o /\ worker[w].seq = k
      /\ worker[w].result = result /\ orders[o].lease_token = w
      /\ orders[o].wallet_state # "released" /\ Leave(w)
      /\ configured' = configured /\ upstream' = upstream
  BY DEF Outcome, At, OrderOf, Holds, world
<1>2. k \in 1..Len(attempts[o])
  BY <1>1 DEF TypeInv, PassOK, OrderOf
<1>3. orders[o] \in Order /\ attempts[o][k] \in Attempt
  BY <1>2, TypeFacts
<1> QED
  BY <1>1, <1>2, <1>3, TypeFacts, LeaveFacts

(* An outcome is committed in one transaction that ends the pass. *)
LEMMA OutcomeTypes ==
    ASSUME TypeInv, NEW w \in Workers, NEW o \in Orders, NEW k \in Seqs, NEW result,
           Outcome(w, o, k, result),
           NEW r \in Order, SetOrder(o, r),
           NEW a \in Attempt, SetAttempt(o, k, a) \/ UNCHANGED attempts,
           wallets' \in [Users -> Balances],
           notes' \in [Orders -> SUBSET Events]
    PROVE  TypeInv'
<1>1. orders' \in [Orders -> Order]
  BY SetOrderFacts, TypeFacts
<1>2. k \in 1..Len(attempts[o])
  BY OutcomeFacts
<1>3. /\ attempts' \in [Orders -> Seq(Attempt)]
      /\ \A p \in Orders : Len(attempts'[p]) = Len(attempts[p])
  <2>1. CASE SetAttempt(o, k, a)
    BY <2>1, <1>2, TypeFacts, SetAttemptFacts DEF SetAttempt
  <2>2. CASE UNCHANGED attempts
    BY <2>2, TypeFacts
  <2> QED
    BY <2>1, <2>2
<1>4. /\ worker' \in [Workers -> Pass]
      /\ \A v \in Workers : v # w => worker'[v] = worker[v]
      /\ worker'[w].pc = "idle" /\ ~worker'[w].first
      /\ configured' = configured /\ upstream' = upstream
  BY OutcomeFacts
<1>5. \A p \in Orders : Len(attempts'[p]) \in Len(attempts[p])..MaxAttempts
  BY <1>3, TypeFacts
<1> QED
  BY <1>1, <1>3, <1>4, <1>5, TypeFacts, TypeStep

(* The outcomes of _apply. *)
LEMMA ApplyTypes ==
    ASSUME TypeInv, NEW w \in Workers, NEW o \in Orders, NEW k \in Seqs,
           \/ ApplySuccess(w, o, k) \/ ApplyFailed(w, o, k) \/ ApplyPending(w, o, k)
           \/ ApplyReviewing(w, o, k) \/ ApplyChanged(w, o, k)
    PROVE  TypeInv'
<1>1. ASSUME NEW result, Outcome(w, o, k, result)
      PROVE  orders[o] \in Order /\ attempts[o][k] \in Attempt
  BY <1>1, OutcomeFacts
<1>2. TypeOK /\ wallets \in [Users -> Balances] /\ notes \in [Orders -> SUBSET Events]
  BY TypeFacts
<1>3. /\ "succeeded" \in AttemptStates /\ "failed" \in AttemptStates
      /\ "pending" \in AttemptStates /\ "reviewing" \in AttemptStates
      /\ "review" \in Events /\ "fulfilled" \in Events
      /\ "later" \in {"none", "due", "later"} /\ "none" \in {"none", "due", "later"}
  BY DEF AttemptStates, Events, Concluded
<1>4. CASE ApplySuccess(w, o, k)
  <2>1. Outcome(w, o, k, "success") /\ CompletePurchase(o)
        /\ SetOrder(o, Finished(Answered(Completed(orders[o])), "none"))
        /\ SetAttempt(o, k, Numbered(attempts[o][k], "succeeded"))
    BY <1>4 DEF ApplySuccess
  <2>2. Finished(Answered(Completed(orders[o])), "none") \in Order
    BY <2>1, <1>1, <1>3, OrderUpdates
  <2>3. Numbered(attempts[o][k], "succeeded") \in Attempt
    BY <2>1, <1>1, <1>3, AttemptUpdates
  <2>4. wallets' \in [Users -> Balances] /\ notes' \in [Orders -> SUBSET Events]
    BY <2>1, <1>2, <1>3, MoveTypes, NotifyFacts DEF CompletePurchase
  <2> QED
    BY <2>1, <2>2, <2>3, <2>4, OutcomeTypes
<1>5. CASE ApplyFailed(w, o, k)
  <2>1. Outcome(w, o, k, "failed") /\ UNCHANGED <<money, notes>>
        /\ SetOrder(o, Finished(Answered(orders[o]), "later"))
        /\ SetAttempt(o, k, Numbered(attempts[o][k], "failed"))
    BY <1>5 DEF ApplyFailed
  <2>2. Finished(Answered(orders[o]), "later") \in Order
    BY <2>1, <1>1, <1>3, OrderUpdates
  <2>3. Numbered(attempts[o][k], "failed") \in Attempt
    BY <2>1, <1>1, <1>3, AttemptUpdates
  <2> QED
    BY <2>1, <2>2, <2>3, <1>2, OutcomeTypes DEF money
<1>6. CASE ApplyPending(w, o, k)
  <2>1. Outcome(w, o, k, "pending") /\ UNCHANGED <<money, notes>>
        /\ SetOrder(o, Finished(Answered(orders[o]), "later"))
        /\ SetAttempt(o, k, Numbered(attempts[o][k], "pending"))
    BY <1>6 DEF ApplyPending
  <2>2. Finished(Answered(orders[o]), "later") \in Order
    BY <2>1, <1>1, <1>3, OrderUpdates
  <2>3. Numbered(attempts[o][k], "pending") \in Attempt
    BY <2>1, <1>1, <1>3, AttemptUpdates
  <2> QED
    BY <2>1, <2>2, <2>3, <1>2, OutcomeTypes DEF money
<1>7. CASE ApplyReviewing(w, o, k)
  <2>1. Outcome(w, o, k, "reviewing") /\ UNCHANGED money /\ Notify(o, "review")
        /\ SetOrder(o, Finished(Answered(orders[o]), "later"))
        /\ SetAttempt(o, k, Numbered(attempts[o][k], "reviewing"))
    BY <1>7 DEF ApplyReviewing
  <2>2. Finished(Answered(orders[o]), "later") \in Order
    BY <2>1, <1>1, <1>3, OrderUpdates
  <2>3. Numbered(attempts[o][k], "reviewing") \in Attempt
    BY <2>1, <1>1, <1>3, AttemptUpdates
  <2>4. notes' \in [Orders -> SUBSET Events]
    BY <2>1, <1>2, <1>3, NotifyFacts
  <2> QED
    BY <2>1, <2>2, <2>3, <2>4, <1>2, OutcomeTypes DEF money
<1>8. CASE ApplyChanged(w, o, k)
  <2>1. Outcome(w, o, k, "changed") /\ UNCHANGED money /\ Notify(o, "review")
        /\ SetOrder(o, Finished(orders[o], "later"))
        /\ SetAttempt(o, k, [attempts[o][k] EXCEPT !.state = "reviewing"])
    BY <1>8 DEF ApplyChanged
  <2>2. Finished(orders[o], "later") \in Order
    BY <2>1, <1>1, <1>3, OrderUpdates
  <2>3. [attempts[o][k] EXCEPT !.state = "reviewing"] \in Attempt
    BY <2>1, <1>1, <1>3, AttemptUpdates
  <2>4. notes' \in [Orders -> SUBSET Events]
    BY <2>1, <1>2, <1>3, NotifyFacts
  <2> QED
    BY <2>1, <2>2, <2>3, <2>4, <1>2, OutcomeTypes DEF money
<1> QED
  BY <1>4, <1>5, <1>6, <1>7, <1>8

(* The outcomes of _error. *)
LEMMA ErrorTypes ==
    ASSUME TypeInv, NEW w \in Workers, NEW o \in Orders, NEW k \in Seqs,
           ErrorRejected(w, o, k) \/ ErrorReview(w, o, k) \/ ErrorRetry(w, o, k)
    PROVE  TypeInv'
<1>1. ASSUME NEW result, Outcome(w, o, k, result)
      PROVE  orders[o] \in Order /\ attempts[o][k] \in Attempt
  BY <1>1, OutcomeFacts
<1>2. TypeOK /\ wallets \in [Users -> Balances] /\ notes \in [Orders -> SUBSET Events]
  BY TypeFacts
<1>3. /\ "rejected" \in AttemptStates /\ "reviewing" \in AttemptStates
      /\ "review" \in Events /\ "later" \in {"none", "due", "later"}
  BY DEF AttemptStates, Events, Concluded
<1>4. CASE ErrorRejected(w, o, k)
  <2>1. Outcome(w, o, k, "rejected") /\ UNCHANGED <<money, notes>>
        /\ SetOrder(o, Finished(Retried(orders[o]), "later"))
        /\ SetAttempt(o, k, [attempts[o][k] EXCEPT !.state = "rejected"])
    BY <1>4 DEF ErrorRejected
  <2>2. Finished(Retried(orders[o]), "later") \in Order
    BY <2>1, <1>1, <1>3, OrderUpdates
  <2>3. [attempts[o][k] EXCEPT !.state = "rejected"] \in Attempt
    BY <2>1, <1>1, <1>3, AttemptUpdates
  <2> QED
    BY <2>1, <2>2, <2>3, <1>2, OutcomeTypes DEF money
<1>5. CASE ErrorReview(w, o, k)
  <2>1. PICK result : Outcome(w, o, k, result)
    BY <1>5 DEF ErrorReview
  <2>2. UNCHANGED money /\ Notify(o, "review")
        /\ SetOrder(o, Finished(Retried(orders[o]), "later"))
        /\ SetAttempt(o, k, [attempts[o][k] EXCEPT !.state = "reviewing"])
    BY <1>5 DEF ErrorReview
  <2>3. Finished(Retried(orders[o]), "later") \in Order
    BY <2>1, <1>1, <1>3, OrderUpdates
  <2>4. [attempts[o][k] EXCEPT !.state = "reviewing"] \in Attempt
    BY <2>1, <1>1, <1>3, AttemptUpdates
  <2>5. notes' \in [Orders -> SUBSET Events]
    BY <2>2, <1>2, <1>3, NotifyFacts
  <2> QED
    BY <2>1, <2>2, <2>3, <2>4, <2>5, <1>2, OutcomeTypes DEF money
<1>6. CASE ErrorRetry(w, o, k)
  <2>1. Outcome(w, o, k, "unclear") /\ UNCHANGED <<money, attempts, notes>>
        /\ SetOrder(o, Finished(Retried(orders[o]), "later"))
    BY <1>6 DEF ErrorRetry
  <2>2. Finished(Retried(orders[o]), "later") \in Order
    BY <2>1, <1>1, <1>3, OrderUpdates
  <2>3. attempts[o][k] \in Attempt
    BY <2>1, <1>1
  <2> QED
    BY <2>1, <2>2, <2>3, <1>2, OutcomeTypes DEF money
<1> QED
  BY <1>4, <1>5, <1>6

(* A worker that only forgets its pass keeps the types whatever else the   *)
(* transaction writes into the order, the wallet and the outbox.           *)
LEMMA LeaveTypes ==
    ASSUME TypeInv, NEW w \in Workers, Leave(w),
           wallets' \in [Users -> Balances],
           orders' \in [Orders -> Order],
           notes' \in [Orders -> SUBSET Events],
           upstream' \in [Orders -> [Seqs -> Purchase]],
           UNCHANGED <<attempts, configured>>
    PROVE  TypeInv'
<1>1. /\ worker' \in [Workers -> Pass]
      /\ \A v \in Workers : v # w => worker'[v] = worker[v]
      /\ worker'[w].pc = "idle" /\ ~worker'[w].first
  BY TypeFacts, LeaveFacts
<1>2. attempts' \in [Orders -> Seq(Attempt)] /\ configured' \in Configurations
  BY TypeFacts
<1>3. \A p \in Orders : Len(attempts'[p]) \in Len(attempts[p])..MaxAttempts
  BY TypeFacts
<1> QED
  BY <1>1, <1>2, <1>3, TypeStep

(* A claim, and the turn to a new purchase. *)
LEMMA ClaimTypes ==
    ASSUME TypeInv, NEW w \in Workers, NEW o \in Orders,
           Claim(w, o) \/ StartQuoting(w, o)
    PROVE  TypeInv'
<1>1. /\ TypeOK /\ orders[o] \in Order /\ wallets \in [Users -> Balances]
      /\ notes \in [Orders -> SUBSET Events] /\ orders \in [Orders -> Order]
      /\ upstream \in [Orders -> [Seqs -> Purchase]]
      /\ attempts \in [Orders -> Seq(Attempt)] /\ configured \in Configurations
      /\ \A p \in Orders : Len(attempts[p]) \in Len(attempts[p])..MaxAttempts
  BY TypeFacts
<1>2. CASE Claim(w, o)
  <2>1. /\ SetOrder(o, [orders[o] EXCEPT !.lease_token = w, !.lease_until = "live"])
        /\ worker' = [worker EXCEPT ![w] = [Idle EXCEPT !.pc = "claimed", !.order = o]]
        /\ UNCHANGED <<money, attempts, notes, world>>
    BY <1>2 DEF Claim
  <2>2. "none" \in {"none", "due", "later"} /\ "none" \in {"none", "live", "expired"}
    OBVIOUS
  <2>3. [orders[o] EXCEPT !.lease_token = w, !.lease_until = "live"] \in Order
    BY <1>1, <2>2, LeaseUpdates
  <2>4. orders' \in [Orders -> Order]
    BY <2>1, <2>3, <1>1, SetOrderFacts
  <2>5. /\ worker' \in [Workers -> Pass]
        /\ \A v \in Workers : v # w => worker'[v] = worker[v]
        /\ worker'[w].pc = "claimed" /\ worker'[w].order = o
        /\ ~worker'[w].first
    BY <2>1, <1>1, ClaimFacts
  <2>6. /\ wallets' \in [Users -> Balances] /\ notes' \in [Orders -> SUBSET Events]
        /\ configured' \in Configurations /\ upstream' \in [Orders -> [Seqs -> Purchase]]
        /\ attempts' \in [Orders -> Seq(Attempt)]
        /\ \A p \in Orders : Len(attempts'[p]) \in Len(attempts[p])..MaxAttempts
    BY <1>1, <2>1 DEF money, world
  <2> QED
    BY <2>4, <2>5, <2>6, TypeStep
<1>3. CASE StartQuoting(w, o)
  <2>1. /\ worker[w].pc = "claimed" /\ worker[w].order = o
        /\ worker' = [worker EXCEPT
               ![w] = [@ EXCEPT !.pc = "quoting", !.seq = Len(attempts[o]) + 1,
                                !.excluded = Excluded(o)]]
        /\ UNCHANGED <<money, orders, attempts, notes, world>>
    BY <1>3 DEF StartQuoting, At, OrderOf
  <2>2. /\ worker' \in [Workers -> Pass]
        /\ \A v \in Workers : v # w => worker'[v] = worker[v]
        /\ worker'[w].pc = "quoting" /\ worker'[w].order = worker[w].order
        /\ worker'[w].first = worker[w].first
    BY <2>1, <1>1, QuotingFacts
  <2>3. ~worker[w].first
    BY <2>1 DEF TypeInv, PassOK
  <2>4. worker'[w].order = o /\ ~worker'[w].first
    BY <2>1, <2>2, <2>3
  <2> QED
    BY <1>1, <2>1, <2>2, <2>4, TypeStep DEF money, world
<1> QED
  BY <1>2, <1>3

(* A pass that finds an open attempt. *)
LEMMA ResumeTypes ==
    ASSUME TypeInv, NEW w \in Workers, NEW o \in Orders, NEW k \in Seqs,
           ResumeLookup(w, o, k) \/ ResumeSubmission(w, o, k) \/ ExhaustSubmissions(w, o, k)
    PROVE  TypeInv'
<1>1. /\ worker[w].order = o /\ k \in 1..Len(attempts[o]) /\ attempts[o][k] \in Attempt
  <2>1. worker[w].order = o /\ k = Len(attempts[o])
    BY DEF ResumeLookup, ResumeSubmission, ExhaustSubmissions, Resume, OrderOf
  <2>2. k \in 1..Len(attempts[o])
    BY <2>1 DEF Seqs
  <2> QED
    BY <2>1, <2>2, TypeFacts
<1>2. /\ TypeOK /\ orders \in [Orders -> Order] /\ wallets \in [Users -> Balances]
      /\ notes \in [Orders -> SUBSET Events] /\ configured \in Configurations
      /\ attempts \in [Orders -> Seq(Attempt)]
      /\ upstream \in [Orders -> [Seqs -> Purchase]]
      /\ \A p \in Orders : Len(attempts[p]) \in Len(attempts[p])..MaxAttempts
  BY TypeFacts
<1>3. ASSUME NEW a \in Attempt, Call(w, k, a),
             attempts' \in [Orders -> Seq(Attempt)],
             \A p \in Orders : Len(attempts'[p]) = Len(attempts[p]),
             notes' \in [Orders -> SUBSET Events],
             UNCHANGED <<money, orders, world>>
      PROVE  TypeInv'
  <2>1. /\ worker' \in [Workers -> Pass]
        /\ \A v \in Workers : v # w => worker'[v] = worker[v]
        /\ worker'[w].pc = "calling" /\ worker'[w].order = worker[w].order
        /\ worker'[w].seq = k /\ ~worker'[w].first
    BY <1>2, <1>3, CallFacts DEF Seqs
  <2>2. worker'[w].order = o /\ worker'[w].seq \in 1..Len(attempts'[worker'[w].order])
    BY <2>1, <1>1, <1>3
  <2>3. \A p \in Orders : Len(attempts'[p]) \in Len(attempts[p])..MaxAttempts
    BY <1>2, <1>3
  <2> QED
    BY <1>2, <1>3, <2>1, <2>2, <2>3, TypeStep DEF money, world
<1>4. ASSUME NEW a \in Attempt, SetAttempt(o, k, a)
      PROVE  /\ attempts' \in [Orders -> Seq(Attempt)]
             /\ \A p \in Orders : Len(attempts'[p]) = Len(attempts[p])
  BY <1>1, <1>2, <1>4, SetAttemptFacts DEF SetAttempt
<1>5. CASE ResumeLookup(w, o, k)
  <2>1. Call(w, k, attempts[o][k]) /\ UNCHANGED <<money, orders, attempts, notes, world>>
    BY <1>5 DEF ResumeLookup
  <2> QED
    BY <2>1, <1>1, <1>2, <1>3
<1>6. CASE ResumeSubmission(w, o, k)
  <2> DEFINE a == [attempts[o][k] EXCEPT !.submit_attempts = @ + 1]
  <2>1. /\ attempts[o][k].submit_attempts < MaxSubmitAttempts
        /\ SetAttempt(o, k, a) /\ Call(w, k, a)
        /\ UNCHANGED <<money, orders, notes, world>>
    BY <1>6 DEF ResumeSubmission
  <2>2. a \in Attempt
    BY <2>1, <1>1, SubmitUpdates
  <2> HIDE DEF a
  <2> QED
    BY <2>1, <2>2, <1>2, <1>3, <1>4
<1>7. CASE ExhaustSubmissions(w, o, k)
  <2> DEFINE a == [attempts[o][k] EXCEPT !.state = "reviewing"]
  <2>1. /\ SetAttempt(o, k, a) /\ Call(w, k, a) /\ Notify(o, "review")
        /\ UNCHANGED <<money, orders, world>>
    BY <1>7 DEF ExhaustSubmissions
  <2>2. "reviewing" \in AttemptStates /\ "review" \in Events
    BY DEF AttemptStates, Events
  <2>3. a \in Attempt
    BY <2>2, <1>1, AttemptUpdates
  <2>4. notes' \in [Orders -> SUBSET Events]
    BY <2>1, <2>2, <1>2, NotifyFacts
  <2> HIDE DEF a
  <2> QED
    BY <2>1, <2>3, <2>4, <1>2, <1>3, <1>4
<1> QED
  BY <1>5, <1>6, <1>7

(* A new attempt, for which there is a purchase to be made upstream. *)
LEMMA StartPurchaseTypes ==
    ASSUME TypeInv, NEW w \in Workers, NEW o \in Orders, NEW p \in Providers,
           StartPurchase(w, o, p)
    PROVE  TypeInv'
<1> DEFINE k == Len(attempts[o]) + 1
<1>1. /\ worker[w].order = o /\ worker[w].seq = k /\ k \in Seqs
      /\ SetOrder(o, Begun(orders[o]))
      /\ attempts' = [attempts EXCEPT ![o] = Append(@, NewAttempt(p))]
      /\ worker' = [worker EXCEPT
            ![w] = [@ EXCEPT !.pc = "calling", !.first = TRUE, !.excluded = {}]]
      /\ UNCHANGED <<money, notes, world>>
  BY DEF StartPurchase, Choosing, OrderOf
<1>2. /\ TypeOK /\ orders \in [Orders -> Order] /\ wallets \in [Users -> Balances]
      /\ notes \in [Orders -> SUBSET Events] /\ configured \in Configurations
      /\ attempts \in [Orders -> Seq(Attempt)]
      /\ upstream \in [Orders -> [Seqs -> Purchase]]
      /\ \A q \in Orders : Len(attempts[q]) \in Nat /\ Len(attempts[q]) <= MaxAttempts
  BY TypeFacts
<1>3. orders' \in [Orders -> Order]
  <2>1. "none" \in {"none", "due", "later"}
    OBVIOUS
  <2>2. Begun(orders[o]) \in Order
    BY <1>2, <2>1, OrderUpdates
  <2> QED
    BY <1>1, <1>2, <2>2, SetOrderFacts
<1>4. /\ worker' \in [Workers -> Pass]
      /\ \A v \in Workers : v # w => worker'[v] = worker[v]
      /\ worker'[w].pc = "calling" /\ worker'[w].order = worker[w].order
      /\ worker'[w].seq = worker[w].seq
  BY <1>1, <1>2, PurchaseFacts
<1>5. /\ attempts' \in [Orders -> Seq(Attempt)]
      /\ Len(attempts'[o]) = k
      /\ \A q \in Orders : q # o => attempts'[q] = attempts[q]
  <2>1. NewAttempt(p) \in Attempt
    BY NewRows
  <2> QED
    BY <1>1, <1>2, <2>1, AppendFacts
<1>6. \A q \in Orders : Len(attempts'[q]) \in Len(attempts[q])..MaxAttempts
  BY <1>1, <1>2, <1>5 DEF Seqs
<1>7. /\ worker'[w].order = o
      /\ worker'[w].seq \in 1..Len(attempts'[worker'[w].order])
  BY <1>1, <1>2, <1>4, <1>5
<1>8. /\ wallets' \in [Users -> Balances] /\ notes' \in [Orders -> SUBSET Events]
      /\ configured' \in Configurations /\ upstream' \in [Orders -> [Seqs -> Purchase]]
  BY <1>1, <1>2 DEF money, world
<1> QED
  BY <1>3, <1>4, <1>5, <1>6, <1>7, <1>8, TypeStep

(* A transaction that releases the order returns the money.                *)
LEMMA ReleaseOrderTypes ==
    ASSUME TypeOK, NEW o \in Orders, ReleaseOrder(o)
    PROVE  wallets' \in [Users -> Balances] /\ notes' \in [Orders -> SUBSET Events]
BY MoveTypes, NotifyFacts DEF ReleaseOrder, Events

(* A pass that ends without a purchase. *)
LEMMA EndTypes ==
    ASSUME TypeInv, NEW w \in Workers, NEW o \in Orders,
           RequoteLater(w, o) \/ NoAffordableOffer(w, o) \/ NoProviderLeft(w, o)
    PROVE  TypeInv'
<1>1. /\ TypeOK /\ orders[o] \in Order /\ orders \in [Orders -> Order]
      /\ wallets \in [Users -> Balances] /\ notes \in [Orders -> SUBSET Events]
      /\ upstream \in [Orders -> [Seqs -> Purchase]]
      /\ "none" \in {"none", "due", "later"} /\ "later" \in {"none", "due", "later"}
  BY TypeFacts
<1>2. CASE RequoteLater(w, o)
  <2>1. /\ SetOrder(o, Finished(Retried(orders[o]), "later")) /\ Leave(w)
        /\ UNCHANGED <<money, attempts, notes, world>>
    BY <1>2 DEF RequoteLater
  <2>2. Finished(Retried(orders[o]), "later") \in Order
    BY <1>1, OrderUpdates
  <2>3. orders' \in [Orders -> Order]
    BY <1>1, <2>1, <2>2, SetOrderFacts
  <2> QED
    BY <1>1, <2>1, <2>3, LeaveTypes DEF money, world
<1>3. CASE NoAffordableOffer(w, o)
  <2>1. /\ SetOrder(o, Finished(Released(Retried(orders[o])), "none")) /\ Leave(w)
        /\ ReleaseOrder(o) /\ UNCHANGED <<attempts, world>>
    BY <1>3 DEF NoAffordableOffer
  <2>2. Finished(Released(Retried(orders[o])), "none") \in Order
    BY <1>1, OrderUpdates
  <2>3. orders' \in [Orders -> Order]
    BY <1>1, <2>1, <2>2, SetOrderFacts
  <2>4. wallets' \in [Users -> Balances] /\ notes' \in [Orders -> SUBSET Events]
    BY <1>1, <2>1, ReleaseOrderTypes
  <2> QED
    BY <1>1, <2>1, <2>3, <2>4, LeaveTypes DEF world
<1>4. CASE NoProviderLeft(w, o)
  <2>1. /\ SetOrder(o, Finished(Released(orders[o]), "none")) /\ Leave(w)
        /\ ReleaseOrder(o) /\ UNCHANGED <<attempts, world>>
    BY <1>4 DEF NoProviderLeft
  <2>2. Finished(Released(orders[o]), "none") \in Order
    BY <1>1, OrderUpdates
  <2>3. orders' \in [Orders -> Order]
    BY <1>1, <2>1, <2>2, SetOrderFacts
  <2>4. wallets' \in [Users -> Balances] /\ notes' \in [Orders -> SUBSET Events]
    BY <1>1, <2>1, ReleaseOrderTypes
  <2> QED
    BY <1>1, <2>1, <2>3, <2>4, LeaveTypes DEF world
<1> QED
  BY <1>2, <1>3, <1>4

(* A pass that finds its lease gone or its order settled. *)
LEMMA LostTypes ==
    ASSUME TypeInv, NEW w \in Workers, LoseLease(w) \/ SkipSettled(w)
    PROVE  TypeInv'
<1>1. /\ TypeOK /\ orders \in [Orders -> Order]
      /\ wallets \in [Users -> Balances] /\ notes \in [Orders -> SUBSET Events]
      /\ upstream \in [Orders -> [Seqs -> Purchase]]
      /\ "none" \in {"none", "due", "later"}
  BY TypeFacts
<1>2. CASE LoseLease(w)
  BY <1>1, <1>2, LeaveTypes DEF LoseLease, money, world
<1>3. CASE SkipSettled(w)
  <2>1. /\ worker[w].pc \in {"claimed", "quoting"}
        /\ SetOrder(worker[w].order, Finished(orders[worker[w].order], "none")) /\ Leave(w)
        /\ UNCHANGED <<money, attempts, notes, world>>
    BY <1>3 DEF SkipSettled, OrderOf
  <2>2. worker[w].order \in Orders
    BY <2>1 DEF TypeInv, PassOK, OrderOf
  <2>3. Finished(orders[worker[w].order], "none") \in Order
    BY <1>1, <2>2, OrderUpdates
  <2>4. orders' \in [Orders -> Order]
    BY <1>1, <2>1, <2>2, <2>3, SetOrderFacts
  <2> QED
    BY <1>1, <2>1, <2>4, LeaveTypes DEF money, world
<1> QED
  BY <1>2, <1>3

-----------------------------------------------------------------------------
(* A worker past its first transaction has an attempt, here and upstream.  *)
LEMMA CallerFacts ==
    ASSUME TypeInv, NEW w \in Workers,
           worker[w].pc \in {"calling", "posting", "waiting", "result"}
    PROVE  /\ worker[w].order \in Orders
           /\ worker[w].seq \in 1..Len(attempts[worker[w].order])
           /\ worker[w].seq \in Seqs
           /\ attempts[worker[w].order][worker[w].seq] \in Attempt
           /\ upstream[worker[w].order][worker[w].seq] \in Purchase
<1>1. /\ worker[w].order \in Orders
      /\ worker[w].seq \in 1..Len(attempts[worker[w].order])
  BY DEF TypeInv, PassOK, OrderOf
<1>2. /\ worker[w].seq \in Seqs
      /\ attempts[worker[w].order][worker[w].seq] \in Attempt
  BY <1>1, TypeFacts
<1>3. upstream \in [Orders -> [Seqs -> Purchase]]
  BY TypeFacts
<1> QED
  BY <1>1, <1>2, <1>3

(* A call changes what its worker knows, and at most the upstream.         *)
LEMMA CallTypesStep ==
    ASSUME TypeInv, NEW w \in Workers,
           worker[w].pc \in {"calling", "posting", "waiting", "result"},
           worker' \in [Workers -> Pass],
           \A v \in Workers : v # w => worker'[v] = worker[v],
           worker'[w].pc \in {"posting", "waiting", "result"},
           worker'[w].order = worker[w].order, worker'[w].seq = worker[w].seq,
           worker'[w].first => worker'[w].pc \in {"waiting", "result"},
           upstream' \in [Orders -> [Seqs -> Purchase]],
           UNCHANGED <<tables, configured>>
    PROVE  TypeInv'
<1>1. /\ wallets' \in [Users -> Balances] /\ notes' \in [Orders -> SUBSET Events]
      /\ orders' \in [Orders -> Order] /\ attempts' \in [Orders -> Seq(Attempt)]
      /\ configured' \in Configurations /\ attempts' = attempts
      /\ \A p \in Orders : Len(attempts'[p]) \in Len(attempts[p])..MaxAttempts
  BY TypeFacts DEF tables
<1>2. /\ worker'[w].order \in Orders
      /\ worker'[w].seq \in 1..Len(attempts'[worker'[w].order])
  BY <1>1, CallerFacts
<1> QED
  BY <1>1, <1>2, TypeStep

(* A call that ends with a result. *)
LEMMA GotTypes ==
    ASSUME TypeInv, NEW w \in Workers, NEW result \in Results,
           worker[w].pc \in {"calling", "posting", "waiting"},
           Got(w, result),
           upstream' \in [Orders -> [Seqs -> Purchase]],
           UNCHANGED <<tables, configured>>
    PROVE  TypeInv'
<1>1. /\ worker' \in [Workers -> Pass]
      /\ \A v \in Workers : v # w => worker'[v] = worker[v]
      /\ worker'[w].pc = "result"
      /\ worker'[w].order = worker[w].order /\ worker'[w].seq = worker[w].seq
  BY TypeFacts, GotFacts
<1> QED
  BY <1>1, CallTypesStep

(* All steps of the calls. *)
LEMMA CallTypes ==
    ASSUME TypeInv, NEW w \in Workers, Calls(w)
    PROVE  TypeInv'
<1>1. TypeOK /\ upstream \in [Orders -> [Seqs -> Purchase]]
  BY TypeFacts
<1>2. /\ "refused" \in Results /\ "unclear" \in Results /\ "pending" \in Results
      /\ UpstreamStates \ {"none", "processing"} \subseteq Results
  BY DEF Results, Answers, UpstreamStates
<1>3. CASE NeedsReview(w)
  BY <1>1, <1>2, <1>3, GotTypes DEF NeedsReview, At, world
<1>4. CASE LookupFound(w)
  <2> DEFINE result == IF TheUpstream(w).state = "processing" THEN "pending"
                                                              ELSE TheUpstream(w).state
  <2>1. /\ worker[w].pc = "calling" /\ TheUpstream(w).state # "none"
        /\ Got(w, result) /\ UNCHANGED <<tables, world>>
    BY <1>4 DEF LookupFound, At
  <2>2. TheUpstream(w) \in Purchase
    BY <2>1, CallerFacts DEF TheUpstream, OrderOf
  <2>3. result \in Results
    BY <2>1, <2>2, <1>2 DEF Purchase
  <2> HIDE DEF result
  <2> QED
    BY <2>1, <2>3, <1>1, GotTypes DEF world
<1>5. CASE LookupMissed(w)
  <2>1. /\ worker[w].pc = "calling" /\ ~worker[w].first
        /\ Got(w, "refused") \/ worker' = [worker EXCEPT ![w] = [@ EXCEPT !.pc = "posting"]]
        /\ UNCHANGED <<tables, world>>
    BY <1>5 DEF LookupMissed, At, LooksUp
  <2>2. CASE Got(w, "refused")
    BY <2>1, <2>2, <1>1, <1>2, GotTypes DEF world
  <2>3. CASE worker' = [worker EXCEPT ![w] = [@ EXCEPT !.pc = "posting"]]
    <3>1. /\ worker' \in [Workers -> Pass]
          /\ \A v \in Workers : v # w => worker'[v] = worker[v]
          /\ worker'[w].pc = "posting" /\ worker'[w].first = worker[w].first
          /\ worker'[w].order = worker[w].order /\ worker'[w].seq = worker[w].seq
      BY <2>3, <1>1, PostingFacts
    <3>2. ~worker'[w].first
      BY <3>1, <2>1
    <3> QED
      BY <2>1, <3>1, <3>2, <1>1, CallTypesStep DEF world
  <2> QED
    BY <2>1, <2>2, <2>3
<1>6. CASE SendPost(w)
  <2>1. /\ worker[w].pc \in {"calling", "posting"}
        /\ worker' = [worker EXCEPT ![w] = [@ EXCEPT !.pc = "waiting"]]
        /\ upstream' = [upstream EXCEPT ![worker[w].order][worker[w].seq] =
                           [TheUpstream(w) EXCEPT !.posts = @ + 1]]
        /\ UNCHANGED <<tables, configured>>
    BY <1>6 DEF SendPost, Posts, At, SetUpstream, OrderOf
  <2>2. /\ worker' \in [Workers -> Pass]
        /\ \A v \in Workers : v # w => worker'[v] = worker[v]
        /\ worker'[w].pc = "waiting"
        /\ worker'[w].order = worker[w].order /\ worker'[w].seq = worker[w].seq
    BY <2>1, <1>1, PostingFacts
  <2>3. /\ worker[w].order \in Orders /\ worker[w].seq \in Seqs
        /\ TheUpstream(w) \in Purchase
    BY <2>1, CallerFacts DEF TheUpstream, OrderOf
  <2>4. [TheUpstream(w) EXCEPT !.posts = @ + 1] \in Purchase
    BY <2>3 DEF Purchase
  <2>5. upstream' \in [Orders -> [Seqs -> Purchase]]
    BY <2>1, <2>3, <2>4, <1>1, SetUpstreamFacts
  <2> QED
    BY <2>1, <2>2, <2>5, CallTypesStep
<1>7. CASE PostNotSent(w)
  BY <1>1, <1>2, <1>7, GotTypes DEF PostNotSent, Posts, At, world
<1>8. ASSUME NEW result \in Results, PostUnclear(w, result)
      PROVE  TypeInv'
  <2>1. /\ worker[w].pc = "waiting" /\ Got(w, result)
        /\ upstream' = [upstream EXCEPT ![worker[w].order][worker[w].seq] =
                           Abandoned(TheUpstream(w))]
        /\ UNCHANGED <<tables, configured>>
    BY <1>8 DEF PostUnclear, At, SetUpstream, OrderOf
  <2>2. /\ worker[w].order \in Orders /\ worker[w].seq \in Seqs
        /\ TheUpstream(w) \in Purchase
    BY <2>1, CallerFacts DEF TheUpstream, OrderOf
  <2>3. Abandoned(TheUpstream(w)) \in Purchase
    BY <2>2 DEF Abandoned, Purchase
  <2>4. upstream' \in [Orders -> [Seqs -> Purchase]]
    BY <2>1, <2>2, <2>3, <1>1, SetUpstreamFacts
  <2> QED
    BY <2>1, <2>4, <1>2, GotTypes
<1>9. ASSUME NEW result \in Results,
             \/ LookupFailed(w, result)
             \/ PostAnswered(w, result)
             \/ PostRejected(w, result)
      PROVE  TypeInv'
  <2>1. /\ worker[w].pc \in {"calling", "waiting"} /\ Got(w, result)
        /\ UNCHANGED <<tables, world>>
    BY <1>9 DEF LookupFailed, PostAnswered, PostRejected, At
  <2> QED
    BY <2>1, <1>1, GotTypes DEF world
<1> QED
  BY <1>3, <1>4, <1>5, <1>6, <1>7, <1>8, <1>9 DEF Calls

(* A crash of one worker. *)
LEMMA CrashTypes ==
    ASSUME TypeInv, NEW w \in Workers, Crash(w)
    PROVE  TypeInv'
<1>1. /\ TypeOK /\ wallets \in [Users -> Balances] /\ orders \in [Orders -> Order]
      /\ notes \in [Orders -> SUBSET Events] /\ upstream \in [Orders -> [Seqs -> Purchase]]
  BY TypeFacts
<1>2. /\ Leave(w) /\ UNCHANGED <<tables, configured>>
  BY DEF Crash
<1>3. upstream' \in [Orders -> [Seqs -> Purchase]]
  <2>1. CASE worker[w].pc = "waiting"
    <3>1. upstream' = [upstream EXCEPT ![worker[w].order][worker[w].seq] =
                          Abandoned(TheUpstream(w))]
      BY <2>1 DEF Crash, At, SetUpstream, OrderOf
    <3>2. /\ worker[w].order \in Orders /\ worker[w].seq \in Seqs
          /\ TheUpstream(w) \in Purchase
      BY <2>1, CallerFacts DEF TheUpstream, OrderOf
    <3>3. Abandoned(TheUpstream(w)) \in Purchase
      BY <3>2 DEF Abandoned, Purchase
    <3> QED
      BY <3>1, <3>2, <3>3, <1>1, SetUpstreamFacts
  <2>2. CASE worker[w].pc # "waiting"
    BY <2>2, <1>1 DEF Crash, At
  <2> QED
    BY <2>1, <2>2
<1> QED
  BY <1>1, <1>2, <1>3, LeaveTypes DEF tables

(* A restart of the process with other providers. *)
LEMMA RestartTypes ==
    ASSUME TypeInv, NEW providers \in Configurations, Restart(providers)
    PROVE  TypeInv'
<1>1. /\ TypeOK /\ upstream \in [Orders -> [Seqs -> Purchase]]
  BY TypeFacts
<1>2. /\ worker' = [v \in Workers |-> Idle] /\ configured' = providers
      /\ UNCHANGED tables
      /\ upstream' = [o \in Orders |-> [k \in Seqs |->
                        IF \E w \in Workers : WaitsFor(w, o, k)
                        THEN Abandoned(upstream[o][k]) ELSE upstream[o][k]]]
  BY DEF Restart
<1>3. \A u \in Purchase : Abandoned(u) \in Purchase
  BY DEF Abandoned, Purchase
<1>4. upstream' \in [Orders -> [Seqs -> Purchase]]
  BY <1>1, <1>2, <1>3
<1>5. worker' \in [Workers -> Pass] /\ \A v \in Workers : worker'[v] = Idle
  BY <1>2, NewRows
<1>6. TypeOK'
  BY <1>1, <1>2, <1>4, <1>5 DEF TypeOK, tables
<1>7. PassOK'
  BY <1>5 DEF PassOK, Idle
<1> QED
  BY <1>6, <1>7 DEF TypeInv

(* The actions of the users. *)
LEMMA UserTypes ==
    ASSUME TypeInv, NEW o \in Orders, UserActions(o)
    PROVE  TypeInv'
<1>1. /\ TypeOK /\ orders[o] \in Order /\ orders \in [Orders -> Order]
      /\ notes \in [Orders -> SUBSET Events] /\ upstream \in [Orders -> [Seqs -> Purchase]]
  BY TypeFacts
<1>2. CASE Reserve(o) /\ UNCHANGED <<world, worker>>
  <2>1. SetOrder(o, ReservedOrder) /\ ReservedOrder \in Order
    BY <1>2, NewRows DEF Reserve, SetOrder
  <2>2. orders' \in [Orders -> Order]
    BY <1>1, <2>1, SetOrderFacts
  <2>3. wallets' \in [Users -> Balances]
    BY <1>1, <1>2, MoveTypes DEF Reserve
  <2> QED
    BY <1>1, <1>2, <2>2, <2>3, TypeStill DEF Reserve, world
<1>3. CASE Cancel(o) /\ UNCHANGED <<world, worker>>
  <2>1. SetOrder(o, Released(orders[o])) /\ ReleaseOrder(o) /\ UNCHANGED attempts
    BY <1>3 DEF Cancel, SetOrder
  <2>2. "none" \in {"none", "due", "later"}
    OBVIOUS
  <2>3. Released(orders[o]) \in Order
    BY <1>1, <2>2, OrderUpdates
  <2>4. orders' \in [Orders -> Order]
    BY <1>1, <2>1, <2>3, SetOrderFacts
  <2>5. wallets' \in [Users -> Balances] /\ notes' \in [Orders -> SUBSET Events]
    BY <1>1, <2>1, ReleaseOrderTypes
  <2> QED
    BY <1>1, <1>3, <2>1, <2>4, <2>5, TypeStill DEF world
<1> QED
  BY <1>2, <1>3 DEF UserActions

(* The steps of the upstream and the clock. *)
LEMMA EnvironmentTypes ==
    ASSUME TypeInv, Environment
    PROVE  TypeInv'
<1>1. /\ TypeOK /\ orders \in [Orders -> Order] /\ wallets \in [Users -> Balances]
      /\ notes \in [Orders -> SUBSET Events] /\ upstream \in [Orders -> [Seqs -> Purchase]]
  BY TypeFacts
<1>2. ASSUME NEW o \in Orders, NEW r \in Order, SetOrder(o, r),
             UNCHANGED <<money, attempts, notes, world, worker>>
      PROVE  TypeInv'
  <2>1. orders' \in [Orders -> Order]
    BY <1>1, <1>2, SetOrderFacts
  <2> QED
    BY <1>1, <1>2, <2>1, TypeStill DEF money, world
<1>3. ASSUME NEW o \in Orders
      PROVE  /\ [orders[o] EXCEPT !.next_run_at = "due"] \in Order
             /\ [orders[o] EXCEPT !.lease_until = "expired"] \in Order
  <2>1. \A r \in Order : /\ [r EXCEPT !.next_run_at = "due"] \in Order
                         /\ [r EXCEPT !.lease_until = "expired"] \in Order
    BY DEF Order
  <2>2. orders[o] \in Order
    BY <1>1
  <2> QED
    BY <2>1, <2>2
<1>4. ASSUME NEW o \in Orders, FallDue(o) \/ LeaseExpires(o)
      PROVE  TypeInv'
  BY <1>2, <1>3, <1>4 DEF FallDue, LeaseExpires
<1>5. ASSUME NEW o \in Orders, NEW k \in Seqs, Wake(o, k)
      PROVE  TypeInv'
  BY <1>2, <1>3, <1>5 DEF Wake
<1>6. ASSUME upstream' \in [Orders -> [Seqs -> Purchase]],
             UNCHANGED <<tables, configured, worker>>
      PROVE  TypeInv'
  BY <1>1, <1>6, TypeStill DEF tables
<1>7. ASSUME NEW o \in Orders, NEW k \in Seqs, PostArrives(o, k)
      PROVE  TypeInv'
  <2>1. upstream' \in [Orders -> [Seqs -> Purchase]]
    BY <1>1, <1>7, ArriveFacts
  <2> QED
    BY <1>6, <1>7, <2>1 DEF PostArrives
<1>8. ASSUME NEW o \in Orders, NEW k \in Seqs, StrayLost(o, k)
      PROVE  TypeInv'
  <2>1. upstream' \in [Orders -> [Seqs -> Purchase]]
    BY <1>1, <1>8, StrayLostFacts
  <2> QED
    BY <1>6, <1>8, <2>1 DEF StrayLost
<1>9. ASSUME NEW o \in Orders, NEW k \in Seqs, NEW state \in UpstreamStates,
             UpstreamProceeds(o, k, state)
      PROVE  TypeInv'
  <2>1. upstream' \in [Orders -> [Seqs -> Purchase]]
    BY <1>1, <1>9, ProceedsFacts
  <2> QED
    BY <1>6, <1>9, <2>1 DEF UpstreamProceeds
<1> QED
  BY <1>4, <1>5, <1>7, <1>8, <1>9, RestartTypes DEF Environment

(* Every step keeps the types. *)
LEMMA NextTypes == TypeInv /\ [Next]_vars => TypeInv'
<1> SUFFICES ASSUME TypeInv, [Next]_vars PROVE TypeInv'
  OBVIOUS
<1>1. ASSUME NEW o \in Orders, UserActions(o) PROVE TypeInv'
  BY <1>1, UserTypes
<1>2. ASSUME NEW w \in Workers, NEW o \in Orders, Transactions(w, o) PROVE TypeInv'
  <2>1. CASE Claim(w, o) \/ StartQuoting(w, o)
    BY <2>1, ClaimTypes
  <2>2. CASE RequoteLater(w, o) \/ NoAffordableOffer(w, o) \/ NoProviderLeft(w, o)
    BY <2>2, EndTypes
  <2>3. ASSUME NEW p \in Providers, StartPurchase(w, o, p) PROVE TypeInv'
    BY <2>3, StartPurchaseTypes
  <2>4. ASSUME NEW k \in Seqs,
               ResumeLookup(w, o, k) \/ ResumeSubmission(w, o, k) \/ ExhaustSubmissions(w, o, k)
        PROVE  TypeInv'
    BY <2>4, ResumeTypes
  <2>5. ASSUME NEW k \in Seqs,
               \/ ApplySuccess(w, o, k) \/ ApplyFailed(w, o, k) \/ ApplyPending(w, o, k)
               \/ ApplyReviewing(w, o, k) \/ ApplyChanged(w, o, k)
        PROVE  TypeInv'
    BY <2>5, ApplyTypes
  <2>6. ASSUME NEW k \in Seqs,
               ErrorRejected(w, o, k) \/ ErrorReview(w, o, k) \/ ErrorRetry(w, o, k)
        PROVE  TypeInv'
    BY <2>6, ErrorTypes
  <2> QED
    BY <1>2, <2>1, <2>2, <2>3, <2>4, <2>5, <2>6 DEF Transactions
<1>3. ASSUME NEW w \in Workers, Calls(w) \/ LoseLease(w) \/ SkipSettled(w) \/ Crash(w)
      PROVE  TypeInv'
  BY <1>3, CallTypes, LostTypes, CrashTypes
<1>4. CASE UNCHANGED vars
  BY <1>4 DEF vars, TypeInv, TypeOK, PassOK, OrderOf
<1> QED
  BY <1>1, <1>2, <1>3, <1>4, EnvironmentTypes DEF Next

(* Every table keeps its shape, no balance goes below zero and no order    *)
(* gets more attempts than the bound, whatever the workers, the upstream   *)
(* and the crashes do (TypeOK of the runs, for all values of the           *)
(* constants).                                                             *)
THEOREM TypeCorrect == Spec => []TypeOK
<1>1. TypeInv => TypeOK
  BY DEF TypeInv
<1> QED
  BY InitTypes, NextTypes, <1>1, PTL DEF Spec

-----------------------------------------------------------------------------
(* Part 3.  The safety of purchasing.                                      *)

(* The parts of the invariant, to be cited in one. *)
LEMMA InvFacts ==
    ASSUME PurchaseInv
    PROVE  /\ TypeInv /\ TypeOK /\ PassOK /\ StatusOK /\ AttemptsOK /\ UpstreamOK
           /\ ResultOK /\ HolderOK /\ FirstOK
BY DEF PurchaseInv, PurchasesOK, TypeInv

(* TypeInv brings PassOK with it: the rest is what a step has to show. *)
LEMMA InvParts ==
    ASSUME TypeInv', StatusOK', AttemptsOK', UpstreamOK', ResultOK', HolderOK', FirstOK'
    PROVE  PurchaseInv'
BY DEF PurchaseInv, PurchasesOK, TypeInv

(* A worker that does not move keeps what it relies on as the holder.      *)
LEMMA HolderKept ==
    ASSUME PurchaseInv, NEW v \in Workers, worker'[v] = worker[v],
           worker[v].pc # "idle" /\ orders'[worker[v].order].lease_token = v =>
              /\ orders[worker[v].order].lease_token = v
              /\ \/ orders'[worker[v].order].status = orders[worker[v].order].status
                 \/ orders[worker[v].order].status = "reserved"
              /\ attempts'[worker[v].order] = attempts[worker[v].order]
    PROVE  HolderOf(v)'
<1>1. HolderOf(v)
  BY InvFacts DEF HolderOK
<1> QED
  BY <1>1 DEF HolderOf, At, Holds, OrderOf

(* And what it relies on as the first to post.                             *)
LEMMA FirstKept ==
    ASSUME PurchaseInv, NEW v \in Workers, worker'[v] = worker[v],
           worker[v].pc # "idle" /\ orders'[worker[v].order].lease_token = v =>
              orders[worker[v].order].lease_token = v,
           \A o \in Orders, k \in Seqs :
              /\ worker[v].order = o /\ worker[v].seq = k
              /\ worker[v].first /\ orders[o].lease_token = v
              /\ \A u \in Workers \ {v} : ~Engaged(u, o, k)
              => /\ \A u \in Workers \ {v} : ~Engaged(u, o, k)'
                 /\ upstream'[o][k].state = upstream[o][k].state
                 /\ upstream'[o][k].stray = upstream[o][k].stray
    PROVE  FirstOf(v)'
<1>1. FirstOf(v)
  BY InvFacts DEF FirstOK
<1> SUFFICES ASSUME worker[v].pc # "idle", worker[v].first,
                    orders'[worker[v].order].lease_token = v
             PROVE  FirstOf(v)'
  BY DEF FirstOf, At, Holds, OrderOf
<1> DEFINE o == worker[v].order
           k == worker[v].seq
<1>2. orders[o].lease_token = v
  OBVIOUS
<1>3. worker[v].pc \in {"calling", "posting", "waiting", "result"}
  BY InvFacts DEF PassOK
<1>4. o \in Orders /\ k \in Seqs
  BY <1>3, CallerFacts, InvFacts
<1>5. /\ \A u \in Workers \ {v} : ~Engaged(u, o, k)
      /\ worker[v].pc \in {"calling", "waiting"} => ~upstream[o][k].stray
      /\ worker[v].pc = "calling" => upstream[o][k].state = "none"
      /\ worker[v].pc = "result" /\ worker[v].result = "rejected" =>
           upstream[o][k].state = "none" /\ ~upstream[o][k].stray
  BY <1>1, <1>2 DEF FirstOf, At, Holds, OrderOf, TheUpstream
<1>6. /\ \A u \in Workers \ {v} : ~Engaged(u, o, k)'
      /\ upstream'[o][k].state = upstream[o][k].state
      /\ upstream'[o][k].stray = upstream[o][k].stray
  BY <1>2, <1>4, <1>5
<1> QED
  BY <1>5, <1>6 DEF FirstOf, At, Holds, OrderOf, TheUpstream, Engaged

(* Orders that keep their status and money, and their attempts.            *)
LEMMA TablesKept ==
    ASSUME PurchaseInv, attempts' = attempts,
           \A p \in Orders :
              /\ orders'[p].status = orders[p].status
              /\ orders'[p].wallet_state = orders[p].wallet_state
              /\ \/ orders'[p].lease_token = orders[p].lease_token
                 \/ orders'[p].lease_token = None
                 \/ orders[p].wallet_state # "none"
    PROVE  StatusOK' /\ AttemptsOK'
<1>1. StatusOK /\ AttemptsOK
  BY InvFacts
<1>2. StatusOK'
  <2> SUFFICES ASSUME NEW p \in Orders
               PROVE  /\ orders'[p].status = "absent" <=> orders'[p].wallet_state = "none"
                      /\ orders'[p].status \in {"reserved", "delegating"} <=>
                            orders'[p].wallet_state = "held"
                      /\ orders'[p].status = "active" <=> orders'[p].wallet_state = "captured"
                      /\ orders'[p].status = "refunded" <=> orders'[p].wallet_state = "released"
                      /\ orders'[p].status \in {"absent", "reserved"} => Len(attempts'[p]) = 0
                      /\ orders'[p].status \in {"delegating", "active"} => Len(attempts'[p]) > 0
                      /\ orders'[p].wallet_state = "none" => orders'[p].lease_token = None
    BY DEF StatusOK
  <2> QED
    BY <1>1 DEF StatusOK
<1>3. AttemptsOK'
  BY <1>1 DEF AttemptsOK
<1> QED
  BY <1>2, <1>3

(* The upstream does not move, nobody new may post, and an attempt that    *)
(* is concluded now but was not before agrees with the upstream.           *)
LEMMA UpstreamKept ==
    ASSUME PurchaseInv, upstream' = upstream,
           \A p \in Orders : Len(attempts'[p]) = Len(attempts[p]),
           \A p \in Orders : \A j \in 1..Len(attempts[p]) :
              \/ /\ attempts'[p][j].state = attempts[p][j].state
                 /\ attempts[p][j].state \in Concluded =>
                      \A u \in Workers : Engaged(u, p, j)' => Engaged(u, p, j)
              \/ attempts'[p][j].state \notin Concluded \cup {"succeeded"}
              \/ attempts'[p][j].state = "succeeded" /\ upstream[p][j].state = "success"
              \/ attempts'[p][j].state = "failed" /\ upstream[p][j].state = "failed"
              \/ /\ attempts'[p][j].state = "rejected"
                 /\ upstream[p][j].state = "none" /\ ~upstream[p][j].stray
                 /\ \A u \in Workers : ~Engaged(u, p, j)'
    PROVE  UpstreamOK'
<1>1. UpstreamOK
  BY InvFacts
<1> SUFFICES ASSUME NEW p \in Orders, NEW j \in Seqs PROVE Agrees(p, j)'
  BY DEF UpstreamOK
<1>4. /\ Len(attempts[p]) \in Nat /\ j \in Nat
      /\ Len(attempts'[p]) = Len(attempts[p])
  BY InvFacts, TypeFacts DEF Seqs
<1>2. CASE j > Len(attempts[p])
  <2>1. upstream[p][j].state = "none" /\ ~upstream[p][j].stray
    BY <1>1, <1>2 DEF UpstreamOK, Agrees
  <2>2. ~(j <= Len(attempts'[p]))
    BY <1>2, <1>4
  <2> QED
    BY <2>1, <2>2 DEF Agrees
<1>3. CASE j <= Len(attempts[p])
  <2>1. j \in 1..Len(attempts[p])
    BY <1>3, InvFacts, TypeFacts DEF Seqs
  <2>2. /\ attempts[p][j].state = "succeeded" => upstream[p][j].state = "success"
        /\ attempts[p][j].state = "failed" => upstream[p][j].state = "failed"
        /\ attempts[p][j].state = "rejected" =>
             /\ upstream[p][j].state = "none" /\ ~upstream[p][j].stray
             /\ \A w \in Workers : ~Engaged(w, p, j)
    BY <1>1, <1>3 DEF UpstreamOK, Agrees
  <2>3. Len(attempts'[p]) \in Nat /\ ~(j > Len(attempts'[p]))
    BY <1>3, InvFacts, TypeFacts DEF Seqs
  <2>4. CASE /\ attempts'[p][j].state = attempts[p][j].state
             /\ attempts[p][j].state \in Concluded =>
                  \A u \in Workers : Engaged(u, p, j)' => Engaged(u, p, j)
    BY <2>2, <2>3, <2>4 DEF Concluded, Engaged, Agrees
  <2>5. CASE attempts'[p][j].state \notin Concluded \cup {"succeeded"}
    BY <2>3, <2>5 DEF Concluded, Agrees
  <2>6. CASE attempts'[p][j].state = "succeeded" /\ upstream[p][j].state = "success"
    BY <2>3, <2>6 DEF Agrees
  <2>7. CASE attempts'[p][j].state = "failed" /\ upstream[p][j].state = "failed"
    BY <2>3, <2>7 DEF Agrees
  <2>8. CASE /\ attempts'[p][j].state = "rejected"
             /\ upstream[p][j].state = "none" /\ ~upstream[p][j].stray
             /\ \A u \in Workers : ~Engaged(u, p, j)'
    BY <2>3, <2>8 DEF Agrees
  <2> QED
    BY <2>1, <2>4, <2>5, <2>6, <2>7, <2>8
<1> QED
  BY <1>2, <1>3, <1>4

(* A worker that is where it was, or idle, is engaged in nothing new.      *)
LEMMA EngagedKept ==
    ASSUME NEW u \in Workers, NEW p, NEW j,
           \/ worker'[u] = worker[u]
           \/ worker'[u].pc \notin {"calling", "posting", "waiting"}
           \/ /\ worker[u].pc \in {"calling", "posting", "waiting"}
              /\ worker'[u].order = worker[u].order /\ worker'[u].seq = worker[u].seq
    PROVE  Engaged(u, p, j)' => Engaged(u, p, j)
BY DEF Engaged, OrderOf

-----------------------------------------------------------------------------
(* A call: one worker moves on in its pass.                                *)
LEMMA CallStep ==
    ASSUME PurchaseInv, TypeInv', NEW w \in Workers,
           worker[w].pc \in {"calling", "posting", "waiting"},
           worker'[w].pc \in {"posting", "waiting", "result"},
           worker'[w].order = worker[w].order, worker'[w].seq = worker[w].seq,
           worker'[w].first = worker[w].first,
           \A v \in Workers : v # w => worker'[v] = worker[v],
           orders' = orders, attempts' = attempts,
           \A p \in Orders, j \in Seqs :
              /\ upstream'[p][j].state = upstream[p][j].state
              /\ \/ upstream'[p][j].stray = upstream[p][j].stray
                 \/ /\ Engaged(w, p, j) /\ worker[w].pc = "waiting"
                    /\ worker'[w].pc = "result" /\ worker'[w].result # "rejected",
           worker'[w].pc = "result" =>
              /\ worker'[w].result \in {"success", "failed"} =>
                    TheUpstream(w).state = worker'[w].result
              /\ worker'[w].result = "rejected" =>
                    worker[w].pc = "waiting" /\ TheUpstream(w).state = "none"
    PROVE  PurchaseInv'
<1> DEFINE o == worker[w].order
           k == worker[w].seq
<1>1. /\ o \in Orders /\ k \in Seqs /\ k \in 1..Len(attempts[o])
      /\ worker[w].pc # "idle" /\ worker'[w].pc # "idle"
  BY CallerFacts, InvFacts
<1>2. StatusOK' /\ AttemptsOK'
  BY TablesKept
<1>3. \A u \in Workers : \A p \in Orders, j \in Seqs : Engaged(u, p, j)' => Engaged(u, p, j)
  BY EngagedKept
<1>4. UpstreamOK'
  <2>1. UpstreamOK
    BY InvFacts
  <2>2. ASSUME NEW p \in Orders, NEW j \in Seqs, Engaged(w, p, j)
        PROVE  j <= Len(attempts[p]) /\ attempts[p][j].state # "rejected" /\ ~(j > Len(attempts[p]))
    <3>1. p = o /\ j = k
      BY <2>2 DEF Engaged, OrderOf
    <3>2. j <= Len(attempts[p]) /\ ~(j > Len(attempts[p]))
      BY <3>1, <1>1, InvFacts, TypeFacts
    <3> QED
      BY <1>1, <2>1, <2>2, <3>1, <3>2 DEF UpstreamOK, Agrees
  <2>3. ASSUME NEW p \in Orders, NEW j \in Seqs PROVE Agrees(p, j)'
    <3>1. /\ upstream'[p][j].state = upstream[p][j].state
          /\ upstream'[p][j].stray = upstream[p][j].stray \/ Engaged(w, p, j)
      OBVIOUS
    <3>2. Agrees(p, j)
      BY <2>1 DEF UpstreamOK
    <3> QED
      BY <1>3, <2>2, <3>1, <3>2 DEF Agrees
  <2> QED
    BY <2>3 DEF UpstreamOK
<1>5. ResultOK'
  <2>1. ASSUME NEW v \in Workers, v # w PROVE ResultOf(v)'
    <3>1. ResultOf(v) /\ worker'[v] = worker[v]
      BY <2>1, InvFacts DEF ResultOK
    <3>2. worker[v].pc = "result" => worker[v].order \in Orders /\ worker[v].seq \in Seqs
      BY CallerFacts, InvFacts
    <3> QED
      BY <3>1, <3>2 DEF ResultOf, At, TheUpstream, OrderOf
  <2>2. ResultOf(w)'
    <3>1. upstream'[o][k].state = upstream[o][k].state
      BY <1>1
    <3>2. /\ worker'[w].pc = "result" /\ worker'[w].result = "success" =>
                upstream[o][k].state = "success"
          /\ worker'[w].pc = "result" /\ worker'[w].result = "failed" =>
                upstream[o][k].state = "failed"
      BY DEF TheUpstream, OrderOf
    <3> QED
      BY <3>1, <3>2 DEF ResultOf, At, TheUpstream, OrderOf
  <2> QED
    BY <2>1, <2>2 DEF ResultOK
<1>6. HolderOK'
  <2>1. ASSUME NEW v \in Workers, v # w PROVE HolderOf(v)'
    BY <2>1, HolderKept
  <2>2. HolderOf(w)'
    <3>1. HolderOf(w)
      BY InvFacts DEF HolderOK
    <3> QED
      BY <1>1, <3>1 DEF HolderOf, At, Holds, OrderOf
  <2> QED
    BY <2>1, <2>2 DEF HolderOK
<1>7. FirstOK'
  <2>1. ASSUME NEW v \in Workers, v # w PROVE FirstOf(v)'
    <3>1. ASSUME NEW p \in Orders, NEW j \in Seqs,
                 \A u \in Workers \ {v} : ~Engaged(u, p, j)
          PROVE  /\ \A u \in Workers \ {v} : ~Engaged(u, p, j)'
                 /\ upstream'[p][j].state = upstream[p][j].state
                 /\ upstream'[p][j].stray = upstream[p][j].stray
      BY <2>1, <3>1, <1>3
    <3> QED
      BY <2>1, <3>1, FirstKept
  <2>2. FirstOf(w)'
    <3> SUFFICES ASSUME worker[w].first, orders[o].lease_token = w
                 PROVE  FirstOf(w)'
      BY DEF FirstOf, At, Holds, OrderOf
    <3>1. /\ \A u \in Workers \ {w} : ~Engaged(u, o, k)
          /\ worker[w].pc \in {"calling", "waiting"} /\ ~upstream[o][k].stray
      BY <1>1, InvFacts DEF FirstOK, FirstOf, PassOK, At, Holds, OrderOf, TheUpstream
    <3>2. \A u \in Workers \ {w} : ~Engaged(u, o, k)'
      BY <1>1, <1>3, <3>1
    <3>3. /\ worker'[w].pc = "waiting" => ~upstream'[o][k].stray
          /\ worker'[w].pc = "result" /\ worker'[w].result = "rejected" =>
               upstream'[o][k].state = "none" /\ ~upstream'[o][k].stray
      BY <1>1, <3>1 DEF TheUpstream, OrderOf
    <3> QED
      BY <3>2, <3>3 DEF FirstOf, At, Holds, OrderOf, TheUpstream, Engaged
  <2> QED
    BY <2>1, <2>2 DEF FirstOK
<1> QED
  BY <1>2, <1>4, <1>5, <1>6, <1>7, InvParts

(* The upstream moves by itself: a POST arrives or is lost, or an accepted *)
(* order goes on.                                                          *)
LEMMA UpstreamMoves ==
    ASSUME PurchaseInv, TypeInv', UNCHANGED <<orders, attempts, worker>>,
           \A p \in Orders, j \in Seqs :
              /\ upstream'[p][j].stray => upstream[p][j].stray
              /\ \/ upstream'[p][j].state = upstream[p][j].state
                 \/ /\ upstream[p][j].state = "none"
                    /\ \/ upstream[p][j].stray
                       \/ \E u \in Workers : Engaged(u, p, j) /\ worker[u].pc = "waiting"
                 \/ upstream[p][j].state \in {"processing", "reviewing"}
    PROVE  PurchaseInv'
<1>1. StatusOK' /\ AttemptsOK'
  BY TablesKept
<1>2. UpstreamOK'
  <2>1. UpstreamOK
    BY InvFacts
  <2>2. ASSUME NEW p \in Orders, NEW j \in Seqs PROVE Agrees(p, j)'
    <3>1. Agrees(p, j)
      BY <2>1 DEF UpstreamOK
    <3>2. j > Len(attempts[p]) => \A u \in Workers : ~Engaged(u, p, j)
      <4>1. ASSUME NEW u \in Workers, Engaged(u, p, j) PROVE j <= Len(attempts[p])
        BY <4>1, CallerFacts, InvFacts, TypeFacts DEF Engaged, OrderOf
      <4> QED
        BY <4>1, InvFacts, TypeFacts DEF Seqs
    <3>3. \A u \in Workers : Engaged(u, p, j)' => Engaged(u, p, j)
      BY EngagedKept
    <3>4. attempts' = attempts
      OBVIOUS
    <3>5. (\A u \in Workers : ~Engaged(u, p, j)) /\ upstream[p][j].state = "none" /\ ~upstream[p][j].stray
          => upstream'[p][j].state = "none" /\ ~upstream'[p][j].stray
      OBVIOUS
    <3>6. upstream[p][j].state \in {"success", "failed"} => upstream'[p][j].state = upstream[p][j].state
      OBVIOUS
    <3> QED
      BY <3>1, <3>2, <3>3, <3>4, <3>5, <3>6 DEF Agrees
  <2> QED
    BY <2>2 DEF UpstreamOK
<1>3. ASSUME NEW v \in Workers
      PROVE  ResultOf(v)' /\ HolderOf(v)' /\ FirstOf(v)'
  <2>1. ResultOf(v) /\ FirstOf(v) /\ worker'[v] = worker[v]
    BY InvFacts DEF ResultOK, FirstOK
  <2>2. worker[v].pc \in {"calling", "posting", "waiting", "result"} =>
           worker[v].order \in Orders /\ worker[v].seq \in Seqs
    BY CallerFacts, InvFacts
  <2>3. ResultOf(v)'
    BY <2>1, <2>2 DEF ResultOf, At, TheUpstream, OrderOf
  <2>4. HolderOf(v)'
    BY HolderKept
  <2>5. FirstOf(v)'
    <3> DEFINE o == worker[v].order
               k == worker[v].seq
    <3> SUFFICES ASSUME worker[v].pc # "idle", worker[v].first, orders[o].lease_token = v
                 PROVE  FirstOf(v)'
      BY DEF FirstOf, At, Holds, OrderOf
    <3>1. worker[v].pc \in {"calling", "waiting", "result"}
      BY InvFacts DEF PassOK
    <3>2. /\ \A u \in Workers \ {v} : ~Engaged(u, o, k)
          /\ worker[v].pc \in {"calling", "waiting"} => ~upstream[o][k].stray
          /\ worker[v].pc = "calling" => upstream[o][k].state = "none"
          /\ worker[v].pc = "result" /\ worker[v].result = "rejected" =>
               upstream[o][k].state = "none" /\ ~upstream[o][k].stray
      BY <2>1 DEF FirstOf, At, Holds, OrderOf, TheUpstream
    <3>3. \A u \in Workers \ {v} : ~Engaged(u, o, k)'
      BY <3>2, EngagedKept
    <3>4. worker[v].pc # "waiting" => ~(\E u \in Workers : Engaged(u, o, k) /\ worker[u].pc = "waiting")
      BY <3>2
    <3>5. o \in Orders /\ k \in Seqs
      BY <2>2, <3>1
    <3>6. /\ upstream'[o][k].stray => upstream[o][k].stray
          /\ worker[v].pc # "waiting" /\ upstream[o][k].state = "none" /\ ~upstream[o][k].stray =>
               upstream'[o][k].state = "none"
      BY <3>4, <3>5
    <3> QED
      BY <3>2, <3>3, <3>6 DEF FirstOf, At, Holds, OrderOf, TheUpstream, Engaged
  <2> QED
    BY <2>3, <2>4, <2>5
<1> QED
  BY <1>1, <1>2, <1>3, InvParts DEF ResultOK, HolderOK, FirstOK

(* Passes are forgotten, and the POSTs they waited for are left behind.    *)
LEMMA ForgetStep ==
    ASSUME PurchaseInv, TypeInv', UNCHANGED <<orders, attempts>>,
           \A v \in Workers : worker'[v] = worker[v] \/ worker'[v].pc = "idle",
           \A p \in Orders, j \in Seqs :
              /\ upstream'[p][j].state = upstream[p][j].state
              /\ \/ upstream'[p][j].stray = upstream[p][j].stray
                 \/ \E u \in Workers : Engaged(u, p, j) /\ worker'[u].pc = "idle"
    PROVE  PurchaseInv'
<1>1. StatusOK' /\ AttemptsOK'
  BY TablesKept
<1>2. UpstreamOK'
  <2>1. UpstreamOK
    BY InvFacts
  <2>2. ASSUME NEW p \in Orders, NEW j \in Seqs PROVE Agrees(p, j)'
    <3>1. Agrees(p, j)
      BY <2>1 DEF UpstreamOK
    <3>2. j > Len(attempts[p]) => \A u \in Workers : ~Engaged(u, p, j)
      <4>1. ASSUME NEW u \in Workers, Engaged(u, p, j) PROVE j <= Len(attempts[p])
        BY <4>1, CallerFacts, InvFacts, TypeFacts DEF Engaged, OrderOf
      <4> QED
        BY <4>1, InvFacts, TypeFacts DEF Seqs
    <3>3. \A u \in Workers : Engaged(u, p, j)' => Engaged(u, p, j)
      BY EngagedKept
    <3>4. /\ upstream'[p][j].state = upstream[p][j].state
          /\ (\A u \in Workers : ~Engaged(u, p, j)) => upstream'[p][j].stray = upstream[p][j].stray
      OBVIOUS
    <3> QED
      BY <3>1, <3>2, <3>3, <3>4 DEF Agrees
  <2> QED
    BY <2>2 DEF UpstreamOK
<1>3. ASSUME NEW v \in Workers
      PROVE  ResultOf(v)' /\ HolderOf(v)' /\ FirstOf(v)'
  <2>1. CASE worker'[v].pc = "idle"
    BY <2>1 DEF ResultOf, HolderOf, FirstOf, At
  <2>2. CASE worker'[v] = worker[v] /\ worker[v].pc # "idle"
    <3>1. ResultOf(v)'
      <4>1. ResultOf(v)
        BY InvFacts DEF ResultOK
      <4>2. worker[v].pc = "result" => worker[v].order \in Orders /\ worker[v].seq \in Seqs
        BY CallerFacts, InvFacts
      <4> QED
        BY <2>2, <4>1, <4>2 DEF ResultOf, At, TheUpstream, OrderOf
    <3>2. HolderOf(v)'
      BY <2>2, HolderKept
    <3>3. ASSUME NEW p \in Orders, NEW j \in Seqs,
                 \A u \in Workers \ {v} : ~Engaged(u, p, j)
          PROVE  /\ \A u \in Workers \ {v} : ~Engaged(u, p, j)'
                 /\ upstream'[p][j].state = upstream[p][j].state
                 /\ upstream'[p][j].stray = upstream[p][j].stray
      <4>1. \A u \in Workers \ {v} : ~Engaged(u, p, j)'
        BY <3>3, EngagedKept
      <4> QED
        BY <2>2, <3>3, <4>1
    <3>4. FirstOf(v)'
      BY <2>2, <3>3, FirstKept
    <3> QED
      BY <3>1, <3>2, <3>4
  <2> QED
    BY <2>1, <2>2
<1> QED
  BY <1>1, <1>2, <1>3, InvParts DEF ResultOK, HolderOK, FirstOK

-----------------------------------------------------------------------------
(* A pass ends under its lease, which is given up: what is left to show is *)
(* that the tables it wrote agree.                                         *)
LEMMA FinishStep ==
    ASSUME PurchaseInv, TypeInv', NEW w \in Workers, NEW o \in Orders,
           orders[o].lease_token = w, worker'[w].pc = "idle",
           \A v \in Workers : v # w => worker'[v] = worker[v],
           orders'[o].lease_token = None,
           \A p \in Orders : p # o => orders'[p] = orders[p] /\ attempts'[p] = attempts[p],
           upstream' = upstream,
           StatusOK', AttemptsOK', UpstreamOK'
    PROVE  PurchaseInv'
<1>1. ASSUME NEW v \in Workers
      PROVE  ResultOf(v)' /\ HolderOf(v)' /\ FirstOf(v)'
  <2>1. CASE v = w
    BY <2>1 DEF ResultOf, HolderOf, FirstOf, At
  <2>2. CASE v # w
    <3>1. ResultOf(v)'
      BY <2>2, InvFacts DEF ResultOK, ResultOf, At, TheUpstream, OrderOf
    <3>2. worker[v].pc # "idle" => worker[v].order \in Orders
      BY InvFacts DEF PassOK, OrderOf
    <3>3. v # None
      OBVIOUS
    <3>4. worker[v].pc # "idle" /\ orders'[worker[v].order].lease_token = v =>
             /\ orders'[worker[v].order] = orders[worker[v].order]
             /\ attempts'[worker[v].order] = attempts[worker[v].order]
      BY <3>2, <3>3
    <3>5. HolderOf(v)'
      BY <2>2, <3>4, HolderKept
    <3>6. \A p \in Orders, j \in Seqs : \A u \in Workers : Engaged(u, p, j)' => Engaged(u, p, j)
      <4>1. \A u \in Workers : worker'[u] = worker[u] \/ worker'[u].pc \notin {"calling", "posting", "waiting"}
        OBVIOUS
      <4> QED
        BY <4>1, EngagedKept
    <3>7. FirstOf(v)'
      BY <2>2, <3>4, <3>6, FirstKept
    <3> QED
      BY <3>1, <3>5, <3>7
  <2> QED
    BY <2>1, <2>2
<1> QED
  BY <1>1, InvParts DEF ResultOK, HolderOK, FirstOK

(* The money goes back with every attempt definitely failed.               *)
LEMMA ReleasedTables ==
    ASSUME PurchaseInv, NEW o \in Orders,
           ~Uncertain(o), orders[o].wallet_state = "held",
           orders'[o].status = "refunded", orders'[o].wallet_state = "released",
           \A p \in Orders : p # o => orders'[p] = orders[p],
           attempts' = attempts
    PROVE  StatusOK' /\ AttemptsOK'
<1>1. StatusOK /\ AttemptsOK
  BY InvFacts
<1>2. StatusOK'
  <2> SUFFICES ASSUME NEW p \in Orders
               PROVE  /\ orders'[p].status = "absent" <=> orders'[p].wallet_state = "none"
                      /\ orders'[p].status \in {"reserved", "delegating"} <=>
                            orders'[p].wallet_state = "held"
                      /\ orders'[p].status = "active" <=> orders'[p].wallet_state = "captured"
                      /\ orders'[p].status = "refunded" <=> orders'[p].wallet_state = "released"
                      /\ orders'[p].status \in {"absent", "reserved"} => Len(attempts'[p]) = 0
                      /\ orders'[p].status \in {"delegating", "active"} => Len(attempts'[p]) > 0
                      /\ orders'[p].wallet_state = "none" => orders'[p].lease_token = None
    BY DEF StatusOK
  <2>1. CASE p # o
    BY <1>1, <2>1 DEF StatusOK
  <2>2. CASE p = o
    BY <2>2
  <2> QED
    BY <2>1, <2>2
<1>3. AttemptsOK'
  <2> SUFFICES ASSUME NEW p \in Orders, NEW k \in 1..Len(attempts[p])
               PROVE  /\ k < Len(attempts[p]) => attempts[p][k].state \in Concluded
                      /\ orders'[p].wallet_state = "released" => attempts[p][k].state \in Concluded
                      /\ attempts[p][k].state = "succeeded" <=>
                            k = Len(attempts[p]) /\ orders'[p].wallet_state = "captured"
    BY DEF AttemptsOK
  <2>1. CASE p # o
    BY <1>1, <2>1 DEF AttemptsOK
  <2>2. CASE p = o
    BY <2>2 DEF Uncertain, Concluded
  <2> QED
    BY <2>1, <2>2
<1> QED
  BY <1>2, <1>3

(* The outcome of a call is committed: the attempt stays open, or it has   *)
(* failed, been rejected or succeeded as the upstream says.                *)
LEMMA OutcomeStep ==
    ASSUME PurchaseInv, TypeInv', NEW w \in Workers, NEW o \in Orders, NEW k \in Seqs,
           NEW result, Outcome(w, o, k, result),
           NEW r \in Order, SetOrder(o, r), r.lease_token = None,
           NEW a \in Attempt, SetAttempt(o, k, a) \/ (attempts' = attempts /\ a = attempts[o][k]),
           \/ /\ r.status = orders[o].status /\ r.wallet_state = orders[o].wallet_state
              /\ \/ a.state \notin Concluded \cup {"succeeded"}
                 \/ a.state = "failed" /\ result = "failed"
                 \/ a.state = "rejected" /\ result = "rejected" /\ worker[w].first
           \/ /\ r.status = "active" /\ r.wallet_state = "captured"
              /\ a.state = "succeeded" /\ result = "success"
    PROVE  PurchaseInv'
<1>1. /\ worker[w].pc = "result" /\ worker[w].order = o /\ worker[w].seq = k
      /\ worker[w].result = result /\ orders[o].lease_token = w
      /\ k \in 1..Len(attempts[o])
      /\ \A v \in Workers : v # w => worker'[v] = worker[v]
      /\ worker'[w].pc = "idle" /\ upstream' = upstream
  BY OutcomeFacts, InvFacts
<1>2. /\ orders'[o] = r
      /\ \A p \in Orders : p # o => orders'[p] = orders[p]
  BY SetOrderFacts, InvFacts
<1>3. /\ \A p \in Orders : Len(attempts'[p]) = Len(attempts[p])
      /\ \A p \in Orders : \A j \in 1..Len(attempts[p]) :
            attempts'[p][j] = IF p = o /\ j = k THEN a ELSE attempts[p][j]
      /\ \A p \in Orders : p # o => attempts'[p] = attempts[p]
  <2>1. CASE SetAttempt(o, k, a)
    BY <1>1, <2>1, InvFacts, TypeFacts, SetAttemptFacts DEF SetAttempt
  <2>2. CASE attempts' = attempts /\ a = attempts[o][k]
    BY <2>2
  <2> QED
    BY <2>1, <2>2
<1>4. /\ orders[o].status = "delegating" /\ k = Len(attempts[o])
      /\ attempts[o][k].state \notin Concluded
      /\ orders[o].wallet_state = "held"
  BY <1>1, InvFacts DEF HolderOK, HolderOf, At, Holds, OrderOf, StatusOK
<1>5. StatusOK'
  BY <1>2, <1>3, <1>4, InvFacts DEF StatusOK
<1>6. AttemptsOK'
  <2> SUFFICES ASSUME NEW p \in Orders, NEW j \in 1..Len(attempts'[p])
               PROVE  /\ j < Len(attempts'[p]) => attempts'[p][j].state \in Concluded
                      /\ orders'[p].wallet_state = "released" => attempts'[p][j].state \in Concluded
                      /\ attempts'[p][j].state = "succeeded" <=>
                            j = Len(attempts'[p]) /\ orders'[p].wallet_state = "captured"
    BY DEF AttemptsOK
  <2>5. Len(attempts'[p]) = Len(attempts[p]) /\ j \in 1..Len(attempts[p])
    BY <1>3
  <2>1. /\ j < Len(attempts[p]) => attempts[p][j].state \in Concluded
        /\ orders[p].wallet_state = "released" => attempts[p][j].state \in Concluded
        /\ attempts[p][j].state = "succeeded" <=>
              j = Len(attempts[p]) /\ orders[p].wallet_state = "captured"
    BY <2>5, InvFacts DEF AttemptsOK
  <2>2. CASE p # o
    BY <1>2, <1>3, <2>1, <2>2, <2>5
  <2>3. CASE p = o /\ j # k
    <3>1. j < Len(attempts[p]) /\ attempts'[p][j] = attempts[p][j]
      BY <1>3, <1>4, <2>3, <2>5, InvFacts, TypeFacts
    <3>2. orders'[p] = r /\ r.wallet_state # "released"
      BY <1>2, <1>4, <2>3
    <3> QED
      BY <2>1, <2>3, <2>5, <3>1, <3>2 DEF Concluded
  <2>4. CASE p = o /\ j = k
    <3>1. attempts'[p][j] = a /\ orders'[p] = r /\ j = Len(attempts[p])
      BY <1>2, <1>3, <1>4, <2>4, <2>5
    <3>2. a.state = "succeeded" <=> r.wallet_state = "captured"
      BY <1>4 DEF Concluded
    <3>3. r.wallet_state # "released"
      BY <1>4
    <3> QED
      BY <3>1, <3>2, <3>3, <2>5
  <2> QED
    BY <2>2, <2>3, <2>4
<1>7. UpstreamOK'
  <2>1. \A u \in Workers : \A p \in Orders, j \in Seqs : Engaged(u, p, j)' => Engaged(u, p, j)
    <3>1. \A u \in Workers : worker'[u] = worker[u] \/ worker'[u].pc \notin {"calling", "posting", "waiting"}
      BY <1>1
    <3> QED
      BY <3>1, EngagedKept
  <2>2. /\ result = "success" => upstream[o][k].state = "success"
        /\ result = "failed" => upstream[o][k].state = "failed"
    BY <1>1, InvFacts DEF ResultOK, ResultOf, At, TheUpstream, OrderOf
  <2>3. result = "rejected" /\ worker[w].first =>
           /\ upstream[o][k].state = "none" /\ ~upstream[o][k].stray
           /\ \A u \in Workers : ~Engaged(u, o, k)'
    <3> SUFFICES ASSUME result = "rejected", worker[w].first
                 PROVE  /\ upstream[o][k].state = "none" /\ ~upstream[o][k].stray
                        /\ \A u \in Workers : ~Engaged(u, o, k)'
      OBVIOUS
    <3>1. /\ upstream[o][k].state = "none" /\ ~upstream[o][k].stray
          /\ \A u \in Workers \ {w} : ~Engaged(u, o, k)
      BY <1>1, InvFacts DEF FirstOK, FirstOf, At, Holds, TheUpstream, OrderOf
    <3>2. ~Engaged(w, o, k)'
      BY <1>1 DEF Engaged
    <3> QED
      BY <2>1, <3>1, <3>2
  <2>4. ASSUME NEW p \in Orders, NEW j \in 1..Len(attempts[p])
        PROVE  \/ /\ attempts'[p][j].state = attempts[p][j].state
                  /\ attempts[p][j].state \in Concluded =>
                       \A u \in Workers : Engaged(u, p, j)' => Engaged(u, p, j)
               \/ attempts'[p][j].state \notin Concluded \cup {"succeeded"}
               \/ attempts'[p][j].state = "succeeded" /\ upstream[p][j].state = "success"
               \/ attempts'[p][j].state = "failed" /\ upstream[p][j].state = "failed"
               \/ /\ attempts'[p][j].state = "rejected"
                  /\ upstream[p][j].state = "none" /\ ~upstream[p][j].stray
                  /\ \A u \in Workers : ~Engaged(u, p, j)'
    <3>1. CASE p = o /\ j = k
      <4>1. attempts'[p][j] = a
        BY <1>3, <3>1
      <4> QED
        BY <2>2, <2>3, <3>1, <4>1
    <3>2. CASE ~(p = o /\ j = k)
      <4>1. attempts'[p][j] = attempts[p][j] /\ j \in Seqs
        BY <1>3, <3>2, InvFacts, TypeFacts
      <4> QED
        BY <2>1, <4>1
    <3> QED
      BY <3>1, <3>2
  <2> QED
    BY <1>1, <1>3, <2>4, UpstreamKept
<1> QED
  BY <1>1, <1>2, <1>3, <1>5, <1>6, <1>7, FinishStep

(* No worker moves: a user or the clock changes an order.                  *)
LEMMA StillStep ==
    ASSUME PurchaseInv, TypeInv', UNCHANGED <<attempts, worker, upstream>>,
           \A p \in Orders : \A v \in Workers : orders'[p].lease_token = v =>
              /\ orders[p].lease_token = v
              /\ orders'[p].status = orders[p].status \/ orders[p].status = "reserved",
           StatusOK', AttemptsOK'
    PROVE  PurchaseInv'
<1>1. \A u \in Workers : \A p \in Orders, j \in Seqs : Engaged(u, p, j)' => Engaged(u, p, j)
  BY EngagedKept
<1>2. UpstreamOK'
  <2>1. \A p \in Orders : \A j \in 1..Len(attempts[p]) : j \in Seqs
    BY InvFacts, TypeFacts
  <2>2. \A p \in Orders : \A j \in 1..Len(attempts[p]) :
           \A u \in Workers : Engaged(u, p, j)' => Engaged(u, p, j)
    BY <1>1, <2>1
  <2>3. attempts' = attempts
    OBVIOUS
  <2> QED
    BY <2>2, <2>3, UpstreamKept
<1>3. ASSUME NEW v \in Workers
      PROVE  ResultOf(v)' /\ HolderOf(v)' /\ FirstOf(v)'
  <2>1. ResultOf(v)'
    BY InvFacts DEF ResultOK, ResultOf, At, TheUpstream, OrderOf
  <2>2. worker[v].pc # "idle" => worker[v].order \in Orders
    BY InvFacts DEF PassOK, OrderOf
  <2>3. HolderOf(v)'
    BY <2>2, HolderKept
  <2>4. FirstOf(v)'
    BY <1>1, <2>2, FirstKept
  <2> QED
    BY <2>1, <2>3, <2>4
<1> QED
  BY <1>2, <1>3, InvParts DEF ResultOK, HolderOK, FirstOK

-----------------------------------------------------------------------------
(* The actions of the users.                                               *)
LEMMA UserSafe ==
    ASSUME PurchaseInv, TypeInv', NEW o \in Orders, UserActions(o)
    PROVE  PurchaseInv'
<1>1. TypeOK /\ StatusOK /\ AttemptsOK /\ orders[o] \in Order
  BY InvFacts, TypeFacts
<1>2. CASE Reserve(o) /\ UNCHANGED <<world, worker>>
  <2>1. /\ orders[o] = NoOrder /\ SetOrder(o, ReservedOrder) /\ ReservedOrder \in Order
        /\ UNCHANGED <<attempts, worker, upstream>>
    BY <1>2, NewRows DEF Reserve, SetOrder, world
  <2>2. /\ orders'[o].status = "reserved" /\ orders'[o].wallet_state = "held"
        /\ orders'[o].lease_token = None
        /\ \A p \in Orders : p # o => orders'[p] = orders[p]
    BY <1>1, <2>1, SetOrderFacts, NewRows
  <2>3. Len(attempts[o]) = 0
    BY <1>1, <2>1, NewRows DEF StatusOK
  <2>4. StatusOK'
    BY <1>1, <2>1, <2>2, <2>3 DEF StatusOK
  <2>5. AttemptsOK'
    <3> SUFFICES ASSUME NEW p \in Orders, NEW k \in 1..Len(attempts'[p])
                 PROVE  /\ k < Len(attempts'[p]) => attempts'[p][k].state \in Concluded
                        /\ orders'[p].wallet_state = "released" => attempts'[p][k].state \in Concluded
                        /\ attempts'[p][k].state = "succeeded" <=>
                              k = Len(attempts'[p]) /\ orders'[p].wallet_state = "captured"
      BY DEF AttemptsOK
    <3>1. attempts' = attempts /\ p # o
      BY <2>1, <2>3
    <3> QED
      BY <1>1, <2>2, <3>1 DEF AttemptsOK
  <2>6. \A p \in Orders : \A v \in Workers : orders'[p].lease_token = v =>
           orders'[p] = orders[p]
    BY <2>2
  <2> QED
    BY <2>1, <2>4, <2>5, <2>6, StillStep
<1>3. CASE Cancel(o) /\ UNCHANGED <<world, worker>>
  <2>1. /\ orders[o].status = "reserved" /\ orders[o].wallet_state = "held" /\ ~Uncertain(o)
        /\ SetOrder(o, Released(orders[o])) /\ UNCHANGED <<attempts, worker, upstream>>
    BY <1>3 DEF Cancel, ReleaseOrder, SetOrder, world
  <2>2. "none" \in {"none", "due", "later"}
    OBVIOUS
  <2>3. /\ Released(orders[o]) \in Order /\ Released(orders[o]).status = "refunded"
        /\ Released(orders[o]).wallet_state = "released"
        /\ Released(orders[o]).lease_token = orders[o].lease_token
    BY <1>1, <2>2, OrderUpdates
  <2>4. /\ orders'[o].status = "refunded" /\ orders'[o].wallet_state = "released"
        /\ orders'[o].lease_token = orders[o].lease_token
        /\ \A p \in Orders : p # o => orders'[p] = orders[p]
    BY <1>1, <2>1, <2>3, SetOrderFacts
  <2>5. StatusOK' /\ AttemptsOK'
    BY <2>1, <2>4, ReleasedTables
  <2>6. \A p \in Orders : \A v \in Workers : orders'[p].lease_token = v =>
           /\ orders[p].lease_token = v
           /\ orders'[p].status = orders[p].status \/ orders[p].status = "reserved"
    BY <2>1, <2>4
  <2> QED
    BY <2>1, <2>5, <2>6, StillStep
<1> QED
  BY <1>2, <1>3 DEF UserActions

(* The upstream proceeds, late POSTs arrive, time passes, the bot restarts. *)
LEMMA EnvironmentSafe ==
    ASSUME PurchaseInv, TypeInv', Environment
    PROVE  PurchaseInv'
<1>1. TypeOK /\ orders \in [Orders -> Order] /\ upstream \in [Orders -> [Seqs -> Purchase]]
  BY InvFacts, TypeFacts
<1>2. ASSUME NEW o \in Orders, NEW r \in Order, SetOrder(o, r),
             r.status = orders[o].status, r.wallet_state = orders[o].wallet_state,
             r.lease_token = orders[o].lease_token,
             UNCHANGED <<attempts, worker, upstream>>
      PROVE  PurchaseInv'
  <2>1. \A p \in Orders : /\ orders'[p].status = orders[p].status
                          /\ orders'[p].wallet_state = orders[p].wallet_state
                          /\ orders'[p].lease_token = orders[p].lease_token
    BY <1>1, <1>2, SetOrderFacts
  <2>2. StatusOK' /\ AttemptsOK'
    BY <1>2, <2>1, TablesKept
  <2> QED
    BY <1>2, <2>1, <2>2, StillStep
<1>3. ASSUME NEW o \in Orders
      PROVE  /\ LET r == [orders[o] EXCEPT !.next_run_at = "due"]
                IN  /\ r \in Order /\ r.status = orders[o].status
                    /\ r.wallet_state = orders[o].wallet_state
                    /\ r.lease_token = orders[o].lease_token
             /\ LET r == [orders[o] EXCEPT !.lease_until = "expired"]
                IN  /\ r \in Order /\ r.status = orders[o].status
                    /\ r.wallet_state = orders[o].wallet_state
                    /\ r.lease_token = orders[o].lease_token
  <2>1. orders[o] \in Order
    BY <1>1
  <2> QED
    BY <2>1 DEF Order
<1>4. ASSUME NEW o \in Orders,
             FallDue(o) \/ LeaseExpires(o) \/ \E k \in Seqs : Wake(o, k)
      PROVE  PurchaseInv'
  <2>1. CASE FallDue(o) \/ \E k \in Seqs : Wake(o, k)
    <3>1. /\ SetOrder(o, [orders[o] EXCEPT !.next_run_at = "due"])
          /\ UNCHANGED <<attempts, worker, upstream>>
      BY <2>1 DEF FallDue, Wake, world
    <3> QED
      BY <1>2, <1>3, <3>1
  <2>2. CASE LeaseExpires(o)
    <3>1. /\ SetOrder(o, [orders[o] EXCEPT !.lease_until = "expired"])
          /\ UNCHANGED <<attempts, worker, upstream>>
      BY <2>2 DEF LeaseExpires, world
    <3> QED
      BY <1>2, <1>3, <3>1
  <2> QED
    BY <1>4, <2>1, <2>2
<1>5. ASSUME NEW o \in Orders, NEW k \in Seqs, PostArrives(o, k) \/ StrayLost(o, k)
      PROVE  PurchaseInv'
  <2>1. CASE PostArrives(o, k)
    <3>1. /\ upstream'[o][k].stray = FALSE
          /\ \A p \in Orders, j \in Seqs : (p # o \/ j # k) => upstream'[p][j] = upstream[p][j]
      BY <1>1, <2>1, ArriveFacts
    <3>2. /\ upstream[o][k].state = "none"
          /\ upstream[o][k].stray \/ \E u \in Workers : Engaged(u, o, k) /\ worker[u].pc = "waiting"
          /\ UNCHANGED <<orders, attempts, worker>>
      BY <2>1 DEF PostArrives, WaitsFor, Engaged, At, tables
    <3> QED
      BY <3>1, <3>2, UpstreamMoves
  <2>2. CASE StrayLost(o, k)
    <3>1. /\ upstream'[o][k].stray = FALSE /\ upstream'[o][k].state = upstream[o][k].state
          /\ \A p \in Orders, j \in Seqs : (p # o \/ j # k) => upstream'[p][j] = upstream[p][j]
      BY <1>1, <2>2, StrayLostFacts
    <3>2. UNCHANGED <<orders, attempts, worker>>
      BY <2>2 DEF StrayLost, tables
    <3> QED
      BY <3>1, <3>2, UpstreamMoves
  <2> QED
    BY <1>5, <2>1, <2>2
<1>6. ASSUME NEW o \in Orders, NEW k \in Seqs, NEW state \in UpstreamStates,
             UpstreamProceeds(o, k, state)
      PROVE  PurchaseInv'
  <2>1. /\ upstream'[o][k].stray = upstream[o][k].stray
        /\ \A p \in Orders, j \in Seqs : (p # o \/ j # k) => upstream'[p][j] = upstream[p][j]
    BY <1>1, <1>6, ProceedsFacts
  <2>2. /\ upstream[o][k].state \in {"processing", "reviewing"}
        /\ UNCHANGED <<orders, attempts, worker>>
    BY <1>6 DEF UpstreamProceeds, tables
  <2> QED
    BY <2>1, <2>2, UpstreamMoves
<1>7. ASSUME NEW providers \in Configurations, Restart(providers)
      PROVE  PurchaseInv'
  <2>1. /\ \A v \in Workers : worker'[v].pc = "idle"
        /\ UNCHANGED <<orders, attempts>>
    BY <1>7, NewRows DEF Restart, tables
  <2>2. ASSUME NEW p \in Orders, NEW j \in Seqs
        PROVE  /\ upstream'[p][j].state = upstream[p][j].state
               /\ \/ upstream'[p][j].stray = upstream[p][j].stray
                  \/ \E u \in Workers : Engaged(u, p, j) /\ worker'[u].pc = "idle"
    <3>1. upstream'[p][j] = IF \E u \in Workers : WaitsFor(u, p, j)
                            THEN Abandoned(upstream[p][j]) ELSE upstream[p][j]
      BY <1>7 DEF Restart
    <3>2. CASE \E u \in Workers : WaitsFor(u, p, j)
      <4>1. upstream[p][j] \in Purchase
        BY <1>1
      <4>2. Abandoned(upstream[p][j]).state = upstream[p][j].state
        BY <4>1 DEF Abandoned, Purchase
      <4>3. \E u \in Workers : Engaged(u, p, j)
        BY <3>2 DEF WaitsFor, Engaged, At
      <4> QED
        BY <2>1, <3>1, <3>2, <4>2, <4>3
    <3> QED
      BY <3>1, <3>2
  <2> QED
    BY <2>1, <2>2, ForgetStep
<1> QED
  BY <1>4, <1>5, <1>6, <1>7 DEF Environment

-----------------------------------------------------------------------------
(* What the upstream holds after a call changed the worker's purchase.     *)
LEMMA SetUpstreamStep ==
    ASSUME TypeOK, NEW w \in Workers, worker[w].order \in Orders, worker[w].seq \in Seqs,
           NEW u \in Purchase, SetUpstream(w, u)
    PROVE  /\ upstream'[worker[w].order][worker[w].seq] = u
           /\ \A p \in Orders, j \in Seqs :
                 (p # worker[w].order \/ j # worker[w].seq) => upstream'[p][j] = upstream[p][j]
BY DEF TypeOK, SetUpstream, OrderOf

(* The calls, the lookup before a POST included. *)
LEMMA CallsSafe ==
    ASSUME PurchaseInv, TypeInv', NEW w \in Workers, Calls(w)
    PROVE  PurchaseInv'
<1>1. TypeOK /\ PassOK
  BY InvFacts
<1>2. ASSUME UNCHANGED <<tables, world>>, NEW result \in Results, Got(w, result),
             worker[w].pc \in {"calling", "posting", "waiting"},
             result \in {"success", "failed"} => TheUpstream(w).state = result,
             result = "rejected" => worker[w].pc = "waiting" /\ TheUpstream(w).state = "none"
      PROVE  PurchaseInv'
  <2>1. /\ \A v \in Workers : v # w => worker'[v] = worker[v]
        /\ worker'[w].pc = "result" /\ worker'[w].result = result
        /\ worker'[w].order = worker[w].order /\ worker'[w].seq = worker[w].seq
        /\ worker'[w].first = worker[w].first
    BY <1>1, <1>2, GotFacts
  <2> QED
    BY <1>2, <2>1, CallStep DEF tables, world
<1>3. ASSUME UNCHANGED <<tables, configured>>, NEW pc \in {"posting", "waiting"},
             worker' = [worker EXCEPT ![w] = [@ EXCEPT !.pc = pc]],
             worker[w].pc \in {"calling", "posting", "waiting"},
             \A p \in Orders, j \in Seqs :
                /\ upstream'[p][j].state = upstream[p][j].state
                /\ upstream'[p][j].stray = upstream[p][j].stray
      PROVE  PurchaseInv'
  <2>1. /\ \A v \in Workers : v # w => worker'[v] = worker[v]
        /\ worker'[w].pc = pc
        /\ worker'[w].order = worker[w].order /\ worker'[w].seq = worker[w].seq
        /\ worker'[w].first = worker[w].first
    BY <1>1, <1>3, PostingFacts
  <2> QED
    BY <1>3, <2>1, CallStep DEF tables
<1>4. /\ "refused" \in Results /\ "unclear" \in Results /\ "pending" \in Results
      /\ UpstreamStates \ {"none", "processing"} \subseteq Results
  BY DEF Results, Answers, UpstreamStates
<1>5. CASE NeedsReview(w)
  BY <1>2, <1>4, <1>5 DEF NeedsReview, At
<1>6. CASE LookupFound(w)
  <2> DEFINE result == IF TheUpstream(w).state = "processing" THEN "pending"
                                                              ELSE TheUpstream(w).state
  <2>1. /\ worker[w].pc = "calling" /\ TheUpstream(w).state # "none"
        /\ Got(w, result) /\ UNCHANGED <<tables, world>>
    BY <1>6 DEF LookupFound, At
  <2>2. TheUpstream(w) \in Purchase
    BY <2>1, CallerFacts, InvFacts DEF TheUpstream, OrderOf
  <2>3. /\ result \in Results /\ result # "rejected"
        /\ result \in {"success", "failed"} => TheUpstream(w).state = result
    BY <2>1, <2>2, <1>4 DEF Purchase, UpstreamStates
  <2> HIDE DEF result
  <2> QED
    BY <2>1, <2>3, <1>2
<1>7. CASE LookupMissed(w)
  <2>1. /\ worker[w].pc = "calling" /\ UNCHANGED <<tables, world>>
        /\ Got(w, "refused") \/ worker' = [worker EXCEPT ![w] = [@ EXCEPT !.pc = "posting"]]
    BY <1>7 DEF LookupMissed, At
  <2>2. CASE Got(w, "refused")
    BY <2>1, <2>2, <1>2, <1>4
  <2>3. CASE worker' = [worker EXCEPT ![w] = [@ EXCEPT !.pc = "posting"]]
    BY <2>1, <2>3, <1>3 DEF world
  <2> QED
    BY <2>1, <2>2, <2>3
<1>8. CASE SendPost(w)
  <2>1. /\ worker[w].pc \in {"calling", "posting"}
        /\ worker' = [worker EXCEPT ![w] = [@ EXCEPT !.pc = "waiting"]]
        /\ SetUpstream(w, [TheUpstream(w) EXCEPT !.posts = @ + 1])
        /\ UNCHANGED <<tables, configured>>
    BY <1>8 DEF SendPost, Posts, At
  <2>2. /\ worker[w].order \in Orders /\ worker[w].seq \in Seqs
        /\ TheUpstream(w) \in Purchase
        /\ TheUpstream(w) = upstream[worker[w].order][worker[w].seq]
    BY <2>1, CallerFacts, InvFacts DEF TheUpstream, OrderOf
  <2> DEFINE u == [TheUpstream(w) EXCEPT !.posts = @ + 1]
  <2>3. u \in Purchase /\ u.state = TheUpstream(w).state /\ u.stray = TheUpstream(w).stray
    BY <2>2 DEF Purchase
  <2>6. SetUpstream(w, u)
    BY <2>1
  <2> HIDE DEF u
  <2>5. /\ upstream'[worker[w].order][worker[w].seq] = u
        /\ \A p \in Orders, j \in Seqs :
              (p # worker[w].order \/ j # worker[w].seq) => upstream'[p][j] = upstream[p][j]
    BY <1>1, <2>2, <2>3, <2>6, SetUpstreamStep
  <2>4. \A p \in Orders, j \in Seqs :
           /\ upstream'[p][j].state = upstream[p][j].state
           /\ upstream'[p][j].stray = upstream[p][j].stray
    BY <2>2, <2>3, <2>5
  <2> QED
    BY <2>1, <2>4, <1>3
<1>9. CASE PostNotSent(w)
  BY <1>2, <1>4, <1>9 DEF PostNotSent, Posts, At
<1>10. ASSUME NEW result \in Results, PostUnclear(w, result)
       PROVE  PurchaseInv'
  <2>1. /\ worker[w].pc = "waiting" /\ Got(w, result) /\ result \in {"unclear", "refused"}
        /\ SetUpstream(w, Abandoned(TheUpstream(w)))
        /\ UNCHANGED <<tables, configured>>
    BY <1>10 DEF PostUnclear, At
  <2>2. /\ worker[w].order \in Orders /\ worker[w].seq \in Seqs
        /\ TheUpstream(w) \in Purchase
        /\ TheUpstream(w) = upstream[worker[w].order][worker[w].seq]
    BY <2>1, CallerFacts, InvFacts DEF TheUpstream, OrderOf
  <2>3. Abandoned(TheUpstream(w)) \in Purchase /\ Abandoned(TheUpstream(w)).state = TheUpstream(w).state
    BY <2>2 DEF Abandoned, Purchase
  <2>4. /\ \A v \in Workers : v # w => worker'[v] = worker[v]
        /\ worker'[w].pc = "result" /\ worker'[w].result = result
        /\ worker'[w].order = worker[w].order /\ worker'[w].seq = worker[w].seq
        /\ worker'[w].first = worker[w].first
    BY <1>1, <1>4, <2>1, GotFacts
  <2>6. /\ upstream'[worker[w].order][worker[w].seq] = Abandoned(TheUpstream(w))
        /\ \A p \in Orders, j \in Seqs :
              (p # worker[w].order \/ j # worker[w].seq) => upstream'[p][j] = upstream[p][j]
    BY <1>1, <2>1, <2>2, <2>3, SetUpstreamStep
  <2>5. ASSUME NEW p \in Orders, NEW j \in Seqs
        PROVE  /\ upstream'[p][j].state = upstream[p][j].state
               /\ \/ upstream'[p][j].stray = upstream[p][j].stray
                  \/ Engaged(w, p, j)
    <3>1. CASE p = worker[w].order /\ j = worker[w].seq
      <4>1. Engaged(w, p, j)
        BY <2>1, <3>1 DEF Engaged, OrderOf
      <4> QED
        BY <2>2, <2>3, <2>6, <3>1, <4>1
    <3>2. CASE ~(p = worker[w].order /\ j = worker[w].seq)
      BY <2>6, <3>2
    <3> QED
      BY <3>1, <3>2
  <2>7. \A p \in Orders, j \in Seqs :
           /\ upstream'[p][j].state = upstream[p][j].state
           /\ \/ upstream'[p][j].stray = upstream[p][j].stray
              \/ /\ Engaged(w, p, j) /\ worker[w].pc = "waiting"
                 /\ worker'[w].pc = "result" /\ worker'[w].result # "rejected"
    BY <2>1, <2>4, <2>5
  <2>8. orders' = orders /\ attempts' = attempts
    BY <2>1 DEF tables
  <2> QED
    BY <2>1, <2>4, <2>7, <2>8, CallStep
<1>11. ASSUME NEW result \in Results, LookupFailed(w, result) PROVE PurchaseInv'
  BY <1>2, <1>11 DEF LookupFailed, At
<1>12. ASSUME NEW result \in Results, PostAnswered(w, result) PROVE PurchaseInv'
  <2>1. /\ worker[w].pc = "waiting" /\ Got(w, result) /\ UNCHANGED <<tables, world>>
        /\ \/ result \in {"refused", "pending"}
           \/ result = TheUpstream(w).state
    BY <1>12 DEF PostAnswered, At
  <2>2. TheUpstream(w) \in Purchase
    BY <2>1, CallerFacts, InvFacts DEF TheUpstream, OrderOf
  <2>3. result # "rejected"
    BY <2>1, <2>2 DEF Purchase, UpstreamStates
  <2> QED
    BY <1>2, <2>1, <2>3
<1>13. ASSUME NEW result \in Results, PostRejected(w, result) PROVE PurchaseInv'
  BY <1>2, <1>13 DEF PostRejected, At
<1> QED
  BY <1>5, <1>6, <1>7, <1>8, <1>9, <1>10, <1>11, <1>12, <1>13 DEF Calls

(* A pass that is lost: whatever it posted may still arrive. *)
LEMMA ForgottenSafe ==
    ASSUME PurchaseInv, TypeInv', NEW w \in Workers, LoseLease(w) \/ Crash(w)
    PROVE  PurchaseInv'
<1>1. TypeOK
  BY InvFacts
<1>2. /\ Leave(w) /\ UNCHANGED <<orders, attempts>>
  BY DEF LoseLease, Crash, tables
<1>3. \A v \in Workers : worker'[v] = worker[v] \/ worker'[v].pc = "idle"
  BY <1>1, <1>2, LeaveFacts
<1>4. worker'[w].pc = "idle"
  BY <1>1, <1>2, LeaveFacts
<1>5. CASE upstream' = upstream
  BY <1>2, <1>3, <1>5, ForgetStep
<1>6. CASE worker[w].pc = "waiting" /\ SetUpstream(w, Abandoned(TheUpstream(w)))
  <2>1. /\ worker[w].order \in Orders /\ worker[w].seq \in Seqs
        /\ TheUpstream(w) \in Purchase
        /\ TheUpstream(w) = upstream[worker[w].order][worker[w].seq]
    BY <1>6, CallerFacts, InvFacts DEF TheUpstream, OrderOf
  <2>2. Abandoned(TheUpstream(w)) \in Purchase /\ Abandoned(TheUpstream(w)).state = TheUpstream(w).state
    BY <2>1 DEF Abandoned, Purchase
  <2>4. /\ upstream'[worker[w].order][worker[w].seq] = Abandoned(TheUpstream(w))
        /\ \A p \in Orders, j \in Seqs :
              (p # worker[w].order \/ j # worker[w].seq) => upstream'[p][j] = upstream[p][j]
    BY <1>1, <1>6, <2>1, <2>2, SetUpstreamStep
  <2>3. ASSUME NEW p \in Orders, NEW j \in Seqs
        PROVE  /\ upstream'[p][j].state = upstream[p][j].state
               /\ \/ upstream'[p][j].stray = upstream[p][j].stray
                  \/ Engaged(w, p, j)
    <3>1. CASE p = worker[w].order /\ j = worker[w].seq
      <4>1. Engaged(w, p, j)
        BY <1>6, <3>1 DEF Engaged, OrderOf
      <4> QED
        BY <2>1, <2>2, <2>4, <3>1, <4>1
    <3>2. CASE ~(p = worker[w].order /\ j = worker[w].seq)
      BY <2>4, <3>2
    <3> QED
      BY <3>1, <3>2
  <2>5. \A p \in Orders, j \in Seqs :
           /\ upstream'[p][j].state = upstream[p][j].state
           /\ \/ upstream'[p][j].stray = upstream[p][j].stray
              \/ \E u \in Workers : Engaged(u, p, j) /\ worker'[u].pc = "idle"
    BY <1>4, <2>3
  <2> QED
    BY <1>2, <1>3, <2>5, ForgetStep
<1> QED
  BY <1>5, <1>6 DEF LoseLease, Crash, world, At

-----------------------------------------------------------------------------
(* A pass that ends without an outcome keeps the order as it was, or       *)
(* releases it with nothing left that could deliver.                       *)
LEMMA EndStep ==
    ASSUME PurchaseInv, TypeInv', NEW w \in Workers, NEW o \in Orders,
           orders[o].lease_token = w, Leave(w),
           NEW r \in Order, SetOrder(o, r), r.lease_token = None,
           attempts' = attempts, upstream' = upstream,
           \/ r.status = orders[o].status /\ r.wallet_state = orders[o].wallet_state
           \/ /\ ~Uncertain(o) /\ orders[o].wallet_state = "held"
              /\ r.status = "refunded" /\ r.wallet_state = "released"
    PROVE  PurchaseInv'
<1>1. /\ orders'[o] = r
      /\ \A p \in Orders : p # o => orders'[p] = orders[p]
  BY SetOrderFacts, InvFacts
<1>2. /\ worker'[w].pc = "idle"
      /\ \A v \in Workers : v # w => worker'[v] = worker[v]
  BY LeaveFacts, InvFacts
<1>3. StatusOK' /\ AttemptsOK'
  <2>1. CASE r.status = orders[o].status /\ r.wallet_state = orders[o].wallet_state
    BY <1>1, <2>1, TablesKept
  <2>2. CASE /\ ~Uncertain(o) /\ orders[o].wallet_state = "held"
             /\ r.status = "refunded" /\ r.wallet_state = "released"
    BY <1>1, <2>2, ReleasedTables
  <2> QED
    BY <2>1, <2>2
<1>4. UpstreamOK'
  <2>1. \A u \in Workers : \A p, j : Engaged(u, p, j)' => Engaged(u, p, j)
    <3>1. \A u \in Workers : worker'[u] = worker[u] \/ worker'[u].pc \notin {"calling", "posting", "waiting"}
      BY <1>2
    <3> QED
      BY <3>1, EngagedKept
  <2> QED
    BY <2>1, UpstreamKept
<1>5. \A p \in Orders : p # o => orders'[p] = orders[p] /\ attempts'[p] = attempts[p]
  BY <1>1
<1> QED
  BY <1>1, <1>2, <1>3, <1>4, <1>5, FinishStep

(* A pass that ends without a purchase. *)
LEMMA EndSafe ==
    ASSUME PurchaseInv, TypeInv', NEW w \in Workers, NEW o \in Orders,
           \/ RequoteLater(w, o) \/ NoAffordableOffer(w, o) \/ NoProviderLeft(w, o)
           \/ SkipSettled(w) /\ o = worker[w].order
    PROVE  PurchaseInv'
<1>1. /\ orders[o] \in Order
      /\ "none" \in {"none", "due", "later"} /\ "later" \in {"none", "due", "later"}
  BY InvFacts, TypeFacts
<1>2. /\ orders[o].lease_token = w /\ Leave(w)
      /\ attempts' = attempts /\ upstream' = upstream
  BY DEF RequoteLater, NoAffordableOffer, NoProviderLeft, SkipSettled, Choosing, Holds,
         OrderOf, world
<1>3. CASE RequoteLater(w, o)
  <2>1. SetOrder(o, Finished(Retried(orders[o]), "later"))
    BY <1>3 DEF RequoteLater
  <2>2. LET r == Finished(Retried(orders[o]), "later")
        IN  /\ r \in Order /\ r.lease_token = None
            /\ r.status = orders[o].status /\ r.wallet_state = orders[o].wallet_state
    BY <1>1, OrderUpdates
  <2> QED
    BY <1>2, <2>1, <2>2, EndStep
<1>4. CASE NoAffordableOffer(w, o)
  <2>1. /\ SetOrder(o, Finished(Released(Retried(orders[o])), "none"))
        /\ ~Uncertain(o) /\ orders[o].wallet_state = "held"
    BY <1>4 DEF NoAffordableOffer, ReleaseOrder
  <2>2. LET r == Finished(Released(Retried(orders[o])), "none")
        IN  /\ r \in Order /\ r.lease_token = None
            /\ r.status = "refunded" /\ r.wallet_state = "released"
    BY <1>1, OrderUpdates
  <2> QED
    BY <1>2, <2>1, <2>2, EndStep
<1>5. CASE NoProviderLeft(w, o)
  <2>1. /\ SetOrder(o, Finished(Released(orders[o]), "none"))
        /\ ~Uncertain(o) /\ orders[o].wallet_state = "held"
    BY <1>5 DEF NoProviderLeft, ReleaseOrder
  <2>2. LET r == Finished(Released(orders[o]), "none")
        IN  /\ r \in Order /\ r.lease_token = None
            /\ r.status = "refunded" /\ r.wallet_state = "released"
    BY <1>1, OrderUpdates
  <2> QED
    BY <1>2, <2>1, <2>2, EndStep
<1>6. CASE SkipSettled(w) /\ o = worker[w].order
  <2>1. SetOrder(o, Finished(orders[o], "none"))
    BY <1>6 DEF SkipSettled, OrderOf
  <2>2. LET r == Finished(orders[o], "none")
        IN  /\ r \in Order /\ r.lease_token = None
            /\ r.status = orders[o].status /\ r.wallet_state = orders[o].wallet_state
    BY <1>1, OrderUpdates
  <2> QED
    BY <1>2, <2>1, <2>2, EndStep
<1> QED
  BY <1>3, <1>4, <1>5, <1>6

-----------------------------------------------------------------------------
(* A pass begins or goes on under its lease: the other workers rely on     *)
(* nothing that it touches.                                                *)
LEMMA BeginStep ==
    ASSUME PurchaseInv, TypeInv', NEW w \in Workers, NEW o \in Orders,
           \A v \in Workers : v # w => worker'[v] = worker[v],
           worker'[w].pc \in {"claimed", "quoting", "calling"}, worker'[w].order = o,
           orders'[o].lease_token = w,
           orders[o].lease_token = w \/ worker'[w].pc = "claimed",
           \A p \in Orders : p # o => orders'[p] = orders[p] /\ attempts'[p] = attempts[p],
           upstream' = upstream,
           StatusOK', AttemptsOK', UpstreamOK', HolderOf(w)', FirstOf(w)'
    PROVE  PurchaseInv'
<1>1. ResultOf(w)'
  BY DEF ResultOf, At
<1>2. ASSUME NEW v \in Workers, v # w
      PROVE  ResultOf(v)' /\ HolderOf(v)' /\ FirstOf(v)'
  <2>1. ResultOf(v)'
    BY <1>2, InvFacts DEF ResultOK, ResultOf, At, TheUpstream, OrderOf
  <2>2. worker[v].pc # "idle" => worker[v].order \in Orders
    BY InvFacts DEF PassOK, OrderOf
  <2>3. worker[v].pc # "idle" /\ orders'[worker[v].order].lease_token = v =>
           /\ orders'[worker[v].order] = orders[worker[v].order]
           /\ attempts'[worker[v].order] = attempts[worker[v].order]
    BY <1>2, <2>2
  <2>4. HolderOf(v)'
    BY <1>2, <2>3, HolderKept
  <2>5. ASSUME NEW p \in Orders, NEW j \in Seqs, orders[p].lease_token = v,
               \A u \in Workers \ {v} : ~Engaged(u, p, j)
        PROVE  \A u \in Workers \ {v} : ~Engaged(u, p, j)'
    <3>1. ~Engaged(w, p, j)'
      BY <1>2, <2>5 DEF Engaged, OrderOf
    <3>2. \A u \in Workers \ {w} : Engaged(u, p, j)' => Engaged(u, p, j)
      BY EngagedKept
    <3> QED
      BY <2>5, <3>1, <3>2
  <2>6. FirstOf(v)'
    BY <1>2, <2>3, <2>5, FirstKept
  <2> QED
    BY <2>1, <2>4, <2>6
<1> QED
  BY <1>1, <1>2, InvParts DEF ResultOK, HolderOK, FirstOK

(* A claim takes the token: whoever held it before may write no more. *)
LEMMA ClaimSafe ==
    ASSUME PurchaseInv, TypeInv', NEW w \in Workers, NEW o \in Orders, Claim(w, o)
    PROVE  PurchaseInv'
<1>1. /\ orders[o].wallet_state # "none"
      /\ SetOrder(o, [orders[o] EXCEPT !.lease_token = w, !.lease_until = "live"])
      /\ worker' = [worker EXCEPT ![w] = [Idle EXCEPT !.pc = "claimed", !.order = o]]
      /\ attempts' = attempts /\ upstream' = upstream
  BY DEF Claim, Claimable, world
<1>2. TypeOK /\ orders[o] \in Order
  BY InvFacts, TypeFacts
<1>3. /\ \A v \in Workers : v # w => worker'[v] = worker[v]
      /\ worker'[w].pc = "claimed" /\ worker'[w].order = o /\ ~worker'[w].first
  BY <1>1, <1>2, ClaimFacts
<1>4. LET r == [orders[o] EXCEPT !.lease_token = w, !.lease_until = "live"]
      IN  /\ r \in Order /\ r.lease_token = w
          /\ r.status = orders[o].status /\ r.wallet_state = orders[o].wallet_state
  BY <1>2 DEF Order
<1>5. /\ orders'[o].lease_token = w
      /\ orders'[o].status = orders[o].status /\ orders'[o].wallet_state = orders[o].wallet_state
      /\ \A p \in Orders : p # o => orders'[p] = orders[p]
  BY <1>1, <1>2, <1>4, SetOrderFacts
<1>6. StatusOK' /\ AttemptsOK'
  BY <1>1, <1>5, TablesKept
<1>7. UpstreamOK'
  <2>1. \A u \in Workers : \A p, j : Engaged(u, p, j)' => Engaged(u, p, j)
    <3>1. \A u \in Workers : worker'[u] = worker[u] \/ worker'[u].pc \notin {"calling", "posting", "waiting"}
      BY <1>3
    <3> QED
      BY <3>1, EngagedKept
  <2> QED
    BY <1>1, <2>1, UpstreamKept
<1>8. HolderOf(w)' /\ FirstOf(w)'
  BY <1>3 DEF HolderOf, FirstOf, At
<1>9. \A p \in Orders : p # o => orders'[p] = orders[p] /\ attempts'[p] = attempts[p]
  BY <1>1, <1>5
<1> QED
  BY <1>1, <1>3, <1>5, <1>6, <1>7, <1>8, <1>9, BeginStep

(* The holder that found every attempt concluded goes for a new one. *)
LEMMA StartQuotingSafe ==
    ASSUME PurchaseInv, TypeInv', NEW w \in Workers, NEW o \in Orders, StartQuoting(w, o)
    PROVE  PurchaseInv'
<1>1. /\ worker[w].order = o /\ orders[o].lease_token = w /\ ~HasOpen(o)
      /\ worker' = [worker EXCEPT
            ![w] = [@ EXCEPT !.pc = "quoting", !.seq = Len(attempts[o]) + 1,
                             !.excluded = Excluded(o)]]
      /\ orders' = orders /\ attempts' = attempts /\ upstream' = upstream
      /\ worker[w].pc = "claimed"
  BY DEF StartQuoting, OrderOf, Holds, world, At
<1>2. /\ \A v \in Workers : v # w => worker'[v] = worker[v]
      /\ worker'[w].pc = "quoting" /\ worker'[w].order = o
      /\ worker'[w].first = worker[w].first
  BY <1>1, InvFacts, QuotingFacts
<1>3. StatusOK' /\ AttemptsOK'
  BY <1>1, TablesKept
<1>4. UpstreamOK'
  <2>1. \A u \in Workers : \A p, j : Engaged(u, p, j)' => Engaged(u, p, j)
    <3>1. \A u \in Workers : worker'[u] = worker[u] \/ worker'[u].pc \notin {"calling", "posting", "waiting"}
      BY <1>2
    <3> QED
      BY <3>1, EngagedKept
  <2> QED
    BY <1>1, <2>1, UpstreamKept
<1>5. \A k \in 1..Len(attempts[o]) : attempts[o][k].state \in Concluded
  <2>1. Len(attempts[o]) \in Nat /\ AttemptsOK
    BY InvFacts, TypeFacts
  <2> QED
    BY <1>1, <2>1 DEF HasOpen, AttemptsOK
<1>6. HolderOf(w)'
  BY <1>1, <1>2, <1>5 DEF HolderOf, At, OrderOf, Holds
<1>7. FirstOf(w)'
  <2>1. ~worker[w].first
    BY <1>1, InvFacts DEF PassOK
  <2> QED
    BY <1>2, <2>1 DEF FirstOf
<1>8. /\ \A p \in Orders : p # o => orders'[p] = orders[p] /\ attempts'[p] = attempts[p]
      /\ orders'[o].lease_token = w
  BY <1>1
<1> QED
  BY <1>1, <1>2, <1>3, <1>4, <1>6, <1>7, <1>8, BeginStep

(* A pass goes on with the open attempt, which stays open.                 *)
LEMMA ResumeStep ==
    ASSUME PurchaseInv, TypeInv', NEW w \in Workers, NEW o \in Orders, NEW k \in Seqs,
           Resume(w, o, k), NEW a \in Attempt, Call(w, k, a),
           SetAttempt(o, k, a) \/ (attempts' = attempts /\ a = attempts[o][k]),
           a.state = attempts[o][k].state \/ a.state = "reviewing",
           orders' = orders, upstream' = upstream
    PROVE  PurchaseInv'
<1>1. /\ worker[w].order = o /\ orders[o].lease_token = w
      /\ orders[o].wallet_state = "held"
      /\ k = Len(attempts[o]) /\ k \in 1..Len(attempts[o])
      /\ attempts[o][k].state \notin Concluded
  BY DEF Resume, HasOpen, OrderOf, Holds, IsHeld, Seqs
<1>2. /\ \A v \in Workers : v # w => worker'[v] = worker[v]
      /\ worker'[w].pc = "calling" /\ worker'[w].order = o
      /\ worker'[w].seq = k /\ worker'[w].first = FALSE
  BY <1>1, InvFacts, CallFacts DEF Seqs
<1>3. /\ \A p \in Orders : Len(attempts'[p]) = Len(attempts[p])
      /\ \A p \in Orders : \A j \in 1..Len(attempts[p]) :
            attempts'[p][j] = IF p = o /\ j = k THEN a ELSE attempts[p][j]
      /\ \A p \in Orders : p # o => attempts'[p] = attempts[p]
  <2>1. CASE SetAttempt(o, k, a)
    BY <1>1, <2>1, InvFacts, TypeFacts, SetAttemptFacts DEF SetAttempt
  <2>2. CASE attempts' = attempts /\ a = attempts[o][k]
    BY <2>2
  <2> QED
    BY <2>1, <2>2
<1>4. a.state \notin Concluded \cup {"succeeded"}
  <2>1. attempts[o][k].state # "succeeded"
    BY <1>1, InvFacts DEF AttemptsOK
  <2> QED
    BY <1>1, <2>1 DEF Concluded
<1>5. StatusOK'
  BY <1>3, InvFacts DEF StatusOK
<1>6. AttemptsOK'
  <2> SUFFICES ASSUME NEW p \in Orders, NEW j \in 1..Len(attempts'[p])
               PROVE  /\ j < Len(attempts'[p]) => attempts'[p][j].state \in Concluded
                      /\ orders'[p].wallet_state = "released" => attempts'[p][j].state \in Concluded
                      /\ attempts'[p][j].state = "succeeded" <=>
                            j = Len(attempts'[p]) /\ orders'[p].wallet_state = "captured"
    BY DEF AttemptsOK
  <2>1. Len(attempts'[p]) = Len(attempts[p]) /\ j \in 1..Len(attempts[p])
    BY <1>3
  <2>2. /\ j < Len(attempts[p]) => attempts[p][j].state \in Concluded
        /\ orders[p].wallet_state = "released" => attempts[p][j].state \in Concluded
        /\ attempts[p][j].state = "succeeded" <=>
              j = Len(attempts[p]) /\ orders[p].wallet_state = "captured"
    BY <2>1, InvFacts DEF AttemptsOK
  <2>3. CASE p = o /\ j = k
    <3>1. attempts'[p][j] = a /\ j = Len(attempts[p]) /\ orders'[p].wallet_state = "held"
      BY <1>1, <1>3, <2>1, <2>3
    <3> QED
      BY <1>4, <2>1, <3>1, InvFacts, TypeFacts
  <2>4. CASE ~(p = o /\ j = k)
    BY <1>3, <2>1, <2>2, <2>4
  <2> QED
    BY <2>3, <2>4
<1>7. UpstreamOK'
  <2>1. ASSUME NEW p \in Orders, NEW j \in 1..Len(attempts[p])
        PROVE  \/ /\ attempts'[p][j].state = attempts[p][j].state
                  /\ attempts[p][j].state \in Concluded =>
                       \A u \in Workers : Engaged(u, p, j)' => Engaged(u, p, j)
               \/ attempts'[p][j].state \notin Concluded \cup {"succeeded"}
    <3>1. CASE p = o /\ j = k
      BY <1>3, <1>4, <3>1
    <3>2. CASE ~(p = o /\ j = k)
      <4>1. ~Engaged(w, p, j)'
        BY <1>2, <3>2 DEF Engaged, OrderOf
      <4>2. \A u \in Workers \ {w} : Engaged(u, p, j)' => Engaged(u, p, j)
        BY <1>2, EngagedKept
      <4> QED
        BY <1>3, <3>2, <4>1, <4>2
    <3> QED
      BY <3>1, <3>2
  <2> QED
    BY <1>3, <2>1, UpstreamKept
<1>8. HolderOf(w)'
  <2>1. orders[o].status = "delegating"
    BY <1>1, InvFacts DEF StatusOK
  <2>2. worker'[w].seq = Len(attempts'[o]) /\ attempts'[o][k] = a
    BY <1>1, <1>2, <1>3
  <2> QED
    BY <1>2, <1>4, <2>1, <2>2 DEF HolderOf, At, OrderOf, Holds
<1>9. FirstOf(w)'
  BY <1>2 DEF FirstOf
<1>10. \A p \in Orders : p # o => orders'[p] = orders[p] /\ attempts'[p] = attempts[p]
  BY <1>3
<1> QED
  BY <1>1, <1>2, <1>5, <1>6, <1>7, <1>8, <1>9, <1>10, BeginStep

(* The holder that found an open attempt works on that one. *)
LEMMA ResumeSafe ==
    ASSUME PurchaseInv, TypeInv', NEW w \in Workers, NEW o \in Orders, NEW k \in Seqs,
           ResumeLookup(w, o, k) \/ ResumeSubmission(w, o, k) \/ ExhaustSubmissions(w, o, k)
    PROVE  PurchaseInv'
<1>1. Resume(w, o, k) /\ orders' = orders /\ upstream' = upstream
  BY DEF ResumeLookup, ResumeSubmission, ExhaustSubmissions, world
<1>2. attempts[o][k] \in Attempt
  <2>1. k \in 1..Len(attempts[o])
    BY <1>1 DEF Resume, HasOpen, Seqs
  <2> QED
    BY <2>1, InvFacts, TypeFacts
<1>3. CASE ResumeLookup(w, o, k)
  <2>1. Call(w, k, attempts[o][k]) /\ attempts' = attempts
    BY <1>3 DEF ResumeLookup
  <2> QED
    BY <1>1, <1>2, <2>1, ResumeStep
<1>4. CASE ResumeSubmission(w, o, k)
  <2> DEFINE a == [attempts[o][k] EXCEPT !.submit_attempts = @ + 1]
  <2>1. /\ Call(w, k, a) /\ SetAttempt(o, k, a)
        /\ attempts[o][k].submit_attempts < MaxSubmitAttempts
    BY <1>4 DEF ResumeSubmission
  <2>2. a \in Attempt /\ a.state = attempts[o][k].state
    BY <1>2, <2>1, SubmitUpdates
  <2> HIDE DEF a
  <2> QED
    BY <1>1, <2>1, <2>2, ResumeStep
<1>5. CASE ExhaustSubmissions(w, o, k)
  <2> DEFINE a == [attempts[o][k] EXCEPT !.state = "reviewing"]
  <2>1. Call(w, k, a) /\ SetAttempt(o, k, a)
    BY <1>5 DEF ExhaustSubmissions
  <2>2. a \in Attempt /\ a.state = "reviewing"
    BY <1>2 DEF Attempt, AttemptStates
  <2> HIDE DEF a
  <2> QED
    BY <1>1, <2>1, <2>2, ResumeStep
<1> QED
  BY <1>3, <1>4, <1>5

(* A new purchase: every earlier attempt has failed for good, and nobody   *)
(* else has heard of the new one.                                          *)
LEMMA StartPurchaseSafe ==
    ASSUME PurchaseInv, TypeInv', NEW w \in Workers, NEW o \in Orders, NEW p \in Providers,
           StartPurchase(w, o, p)
    PROVE  PurchaseInv'
<1>0. PICK k \in Seqs : k = Len(attempts[o]) + 1
  BY DEF StartPurchase
<1>1. /\ worker[w].pc = "quoting" /\ worker[w].order = o /\ orders[o].lease_token = w
      /\ worker[w].seq = k
      /\ orders[o].wallet_state = "held" /\ SetOrder(o, Begun(orders[o]))
      /\ attempts' = [attempts EXCEPT ![o] = Append(@, NewAttempt(p))]
      /\ worker' = [worker EXCEPT
            ![w] = [@ EXCEPT !.pc = "calling", !.first = TRUE, !.excluded = {}]]
      /\ upstream' = upstream
  BY <1>0 DEF StartPurchase, Choosing, CanBegin, OrderOf, Holds, At, world
<1>2. /\ TypeOK /\ orders[o] \in Order /\ attempts \in [Orders -> Seq(Attempt)]
      /\ \A q \in Orders : Len(attempts[q]) \in Nat
  BY InvFacts, TypeFacts
<1>3. /\ orders'[o].status = "delegating" /\ orders'[o].wallet_state = "held"
      /\ orders'[o].lease_token = w
      /\ \A q \in Orders : q # o => orders'[q] = orders[q]
  <2>1. "none" \in {"none", "due", "later"}
    OBVIOUS
  <2>2. /\ Begun(orders[o]) \in Order /\ Begun(orders[o]).status = "delegating"
        /\ Begun(orders[o]).wallet_state = orders[o].wallet_state
        /\ Begun(orders[o]).lease_token = orders[o].lease_token
    BY <1>2, <2>1, OrderUpdates
  <2> QED
    BY <1>1, <1>2, <2>2, SetOrderFacts
<1>4. /\ \A v \in Workers : v # w => worker'[v] = worker[v]
      /\ worker'[w].pc = "calling" /\ worker'[w].order = o /\ worker'[w].seq = k
  BY <1>1, <1>2, PurchaseFacts
<1>5. /\ Len(attempts'[o]) = k /\ attempts'[o][k].state = "submitting"
      /\ \A j \in 1..Len(attempts[o]) : attempts'[o][j] = attempts[o][j]
      /\ \A q \in Orders : q # o => attempts'[q] = attempts[q]
  <2>1. NewAttempt(p) \in Attempt /\ NewAttempt(p).state = "submitting"
    BY NewRows
  <2> QED
    BY <1>0, <1>1, <1>2, <2>1, AppendFacts
<1>6. k = Len(attempts[o]) + 1 /\ k \in Nat /\ k > 0
  BY <1>0, <1>2
<1>7. \A j \in 1..Len(attempts[o]) : attempts[o][j].state \in Concluded
  BY <1>1, InvFacts DEF HolderOK, HolderOf, At, OrderOf, Holds
<1>8. StatusOK'
  <2>1. StatusOK
    BY InvFacts
  <2>2. \A q \in Orders : q # o => orders'[q] = orders[q] /\ attempts'[q] = attempts[q]
    BY <1>3, <1>5
  <2>3. ~(Len(attempts'[o]) = 0) /\ Len(attempts'[o]) > 0
    BY <1>5, <1>6
  <2> SUFFICES ASSUME NEW q \in Orders
               PROVE  /\ orders'[q].status = "absent" <=> orders'[q].wallet_state = "none"
                      /\ orders'[q].status \in {"reserved", "delegating"} <=>
                            orders'[q].wallet_state = "held"
                      /\ orders'[q].status = "active" <=> orders'[q].wallet_state = "captured"
                      /\ orders'[q].status = "refunded" <=> orders'[q].wallet_state = "released"
                      /\ orders'[q].status \in {"absent", "reserved"} => Len(attempts'[q]) = 0
                      /\ orders'[q].status \in {"delegating", "active"} => Len(attempts'[q]) > 0
                      /\ orders'[q].wallet_state = "none" => orders'[q].lease_token = None
    BY DEF StatusOK
  <2>4. CASE q = o
    BY <1>3, <2>3, <2>4
  <2>5. CASE q # o
    BY <2>1, <2>2, <2>5 DEF StatusOK
  <2> QED
    BY <2>4, <2>5
<1>9. AttemptsOK'
  <2> SUFFICES ASSUME NEW q \in Orders, NEW j \in 1..Len(attempts'[q])
               PROVE  /\ j < Len(attempts'[q]) => attempts'[q][j].state \in Concluded
                      /\ orders'[q].wallet_state = "released" => attempts'[q][j].state \in Concluded
                      /\ attempts'[q][j].state = "succeeded" <=>
                            j = Len(attempts'[q]) /\ orders'[q].wallet_state = "captured"
    BY DEF AttemptsOK
  <2>1. CASE q # o
    <3>1. orders'[q] = orders[q] /\ attempts'[q] = attempts[q]
      BY <1>3, <1>5, <2>1
    <3>2. j \in 1..Len(attempts[q]) /\ AttemptsOK
      BY <3>1, InvFacts
    <3> QED
      BY <3>1, <3>2 DEF AttemptsOK
  <2>2. CASE q = o /\ j # k
    <3>1. j \in 1..Len(attempts[o])
      BY <1>2, <1>5, <1>6, <2>2
    <3>2. attempts'[q][j].state \in Concluded
      BY <1>5, <1>7, <2>2, <3>1
    <3> QED
      BY <1>3, <2>2, <3>2 DEF Concluded
  <2>3. CASE q = o /\ j = k
    BY <1>3, <1>5, <1>6, <2>3
  <2> QED
    BY <2>1, <2>2, <2>3
<1>10. ASSUME NEW v \in Workers, NEW q \in Orders, NEW j \in Seqs, Engaged(v, q, j)'
       PROVE  \/ v = w /\ q = o /\ j = k
              \/ v # w /\ Engaged(v, q, j)
  <2>1. CASE v = w
    BY <1>4, <1>10, <2>1 DEF Engaged, OrderOf
  <2>2. CASE v # w
    BY <1>4, <1>10, <2>2, EngagedKept
  <2> QED
    BY <2>1, <2>2
<1>11. ASSUME NEW v \in Workers, Engaged(v, o, k)
       PROVE  FALSE
  <2>1. worker[v].seq \in 1..Len(attempts[o]) /\ worker[v].seq = k
    BY <1>11, CallerFacts, InvFacts DEF Engaged, OrderOf
  <2> QED
    BY <1>2, <1>6, <2>1
<1>12. upstream[o][k].state = "none" /\ ~upstream[o][k].stray
  <2>1. Agrees(o, k)
    BY InvFacts DEF UpstreamOK
  <2>2. k > Len(attempts[o])
    BY <1>2, <1>6
  <2> QED
    BY <2>1, <2>2 DEF Agrees
<1>13. UpstreamOK'
  <2> SUFFICES ASSUME NEW q \in Orders, NEW j \in Seqs PROVE Agrees(q, j)'
    BY DEF UpstreamOK
  <2>1. Agrees(q, j) /\ j \in Nat
    BY InvFacts DEF UpstreamOK, Seqs
  <2>2. CASE q # o
    <3>1. attempts'[q] = attempts[q] /\ \A u \in Workers : Engaged(u, q, j)' => Engaged(u, q, j)
      BY <1>5, <1>10, <2>2
    <3> QED
      BY <1>1, <2>1, <3>1 DEF Agrees
  <2>3. CASE q = o /\ j = k
    BY <1>5, <1>6, <2>3 DEF Agrees
  <2>4. CASE q = o /\ j # k /\ j <= Len(attempts[o])
    <3>1. j \in 1..Len(attempts[o]) /\ ~(j > Len(attempts'[o]))
      BY <1>2, <1>5, <1>6, <2>4 DEF Seqs
    <3>2. attempts'[q][j] = attempts[q][j]
      BY <1>5, <2>4, <3>1
    <3>3. \A u \in Workers : Engaged(u, q, j)' => Engaged(u, q, j)
      BY <1>10, <2>4
    <3> QED
      BY <1>1, <2>1, <2>4, <3>1, <3>2, <3>3 DEF Agrees
  <2>5. CASE q = o /\ j # k /\ ~(j <= Len(attempts[o]))
    <3>1. j > Len(attempts[o]) /\ ~(j <= Len(attempts'[o]))
      BY <1>2, <1>5, <1>6, <2>1, <2>5
    <3> QED
      BY <1>1, <2>1, <2>5, <3>1 DEF Agrees
  <2> QED
    BY <2>2, <2>3, <2>4, <2>5
<1>14. HolderOf(w)'
  BY <1>3, <1>4, <1>5 DEF HolderOf, At, OrderOf, Holds, Concluded
<1>15. FirstOf(w)'
  <2>1. \A v \in Workers \ {w} : ~Engaged(v, o, k)'
    BY <1>10, <1>11
  <2> QED
    BY <1>1, <1>4, <1>12, <2>1 DEF FirstOf, At, OrderOf, Holds, TheUpstream, Engaged
<1>16. \A q \in Orders : q # o => orders'[q] = orders[q] /\ attempts'[q] = attempts[q]
  BY <1>3, <1>5
<1> QED
  BY <1>1, <1>3, <1>4, <1>8, <1>9, <1>13, <1>14, <1>15, <1>16, BeginStep

-----------------------------------------------------------------------------
(* The outcomes, as they are committed.                                    *)
LEMMA ApplySafe ==
    ASSUME PurchaseInv, TypeInv', NEW w \in Workers, NEW o \in Orders, NEW k \in Seqs,
           \/ ApplySuccess(w, o, k) \/ ApplyFailed(w, o, k) \/ ApplyPending(w, o, k)
           \/ ApplyReviewing(w, o, k) \/ ApplyChanged(w, o, k)
    PROVE  PurchaseInv'
<1>1. ASSUME NEW result, Outcome(w, o, k, result)
      PROVE  orders[o] \in Order /\ attempts[o][k] \in Attempt
  BY <1>1, OutcomeFacts, InvFacts
<1>2. /\ "succeeded" \in AttemptStates /\ "failed" \in AttemptStates
      /\ "pending" \in AttemptStates /\ "reviewing" \in AttemptStates
      /\ "rejected" \in AttemptStates
      /\ "later" \in {"none", "due", "later"} /\ "none" \in {"none", "due", "later"}
  BY DEF AttemptStates, Concluded
<1>3. /\ "pending" \notin Concluded \cup {"succeeded"}
      /\ "reviewing" \notin Concluded \cup {"succeeded"}
  BY DEF Concluded
<1>4. CASE ApplySuccess(w, o, k)
  <2> DEFINE r == Finished(Answered(Completed(orders[o])), "none")
             a == Numbered(attempts[o][k], "succeeded")
  <2>1. /\ Outcome(w, o, k, "success")
        /\ SetOrder(o, r) /\ SetAttempt(o, k, a)
    BY <1>4 DEF ApplySuccess
  <2>2. /\ r \in Order /\ r.lease_token = None
        /\ r.status = "active" /\ r.wallet_state = "captured"
    BY <1>1, <1>2, <2>1, OrderUpdates
  <2>3. a \in Attempt /\ a.state = "succeeded"
    BY <1>1, <1>2, <2>1, AttemptUpdates
  <2> HIDE DEF r, a
  <2> QED
    BY <2>1, <2>2, <2>3, OutcomeStep
<1>5. CASE ApplyFailed(w, o, k)
  <2> DEFINE r == Finished(Answered(orders[o]), "later")
             a == Numbered(attempts[o][k], "failed")
  <2>1. /\ Outcome(w, o, k, "failed")
        /\ SetOrder(o, r) /\ SetAttempt(o, k, a)
    BY <1>5 DEF ApplyFailed
  <2>2. /\ r \in Order /\ r.lease_token = None
        /\ r.status = orders[o].status /\ r.wallet_state = orders[o].wallet_state
    BY <1>1, <1>2, <2>1, OrderUpdates
  <2>3. a \in Attempt /\ a.state = "failed"
    BY <1>1, <1>2, <2>1, AttemptUpdates
  <2> HIDE DEF r, a
  <2> QED
    BY <1>3, <2>1, <2>2, <2>3, OutcomeStep
<1>6. CASE ApplyPending(w, o, k)
  <2> DEFINE r == Finished(Answered(orders[o]), "later")
             a == Numbered(attempts[o][k], "pending")
  <2>1. /\ Outcome(w, o, k, "pending")
        /\ SetOrder(o, r) /\ SetAttempt(o, k, a)
    BY <1>6 DEF ApplyPending
  <2>2. /\ r \in Order /\ r.lease_token = None
        /\ r.status = orders[o].status /\ r.wallet_state = orders[o].wallet_state
    BY <1>1, <1>2, <2>1, OrderUpdates
  <2>3. a \in Attempt /\ a.state = "pending"
    BY <1>1, <1>2, <2>1, AttemptUpdates
  <2> HIDE DEF r, a
  <2> QED
    BY <1>3, <2>1, <2>2, <2>3, OutcomeStep
<1>7. CASE ApplyReviewing(w, o, k)
  <2> DEFINE r == Finished(Answered(orders[o]), "later")
             a == Numbered(attempts[o][k], "reviewing")
  <2>1. /\ Outcome(w, o, k, "reviewing")
        /\ SetOrder(o, r) /\ SetAttempt(o, k, a)
    BY <1>7 DEF ApplyReviewing
  <2>2. /\ r \in Order /\ r.lease_token = None
        /\ r.status = orders[o].status /\ r.wallet_state = orders[o].wallet_state
    BY <1>1, <1>2, <2>1, OrderUpdates
  <2>3. a \in Attempt /\ a.state = "reviewing"
    BY <1>1, <1>2, <2>1, AttemptUpdates
  <2> HIDE DEF r, a
  <2> QED
    BY <1>3, <2>1, <2>2, <2>3, OutcomeStep
<1>8. CASE ApplyChanged(w, o, k)
  <2> DEFINE r == Finished(orders[o], "later")
             a == [attempts[o][k] EXCEPT !.state = "reviewing"]
  <2>1. /\ Outcome(w, o, k, "changed")
        /\ SetOrder(o, r) /\ SetAttempt(o, k, a)
    BY <1>8 DEF ApplyChanged
  <2>2. /\ r \in Order /\ r.lease_token = None
        /\ r.status = orders[o].status /\ r.wallet_state = orders[o].wallet_state
    BY <1>1, <1>2, <2>1, OrderUpdates
  <2>3. a \in Attempt /\ a.state = "reviewing"
    BY <1>1, <1>2, <2>1, AttemptUpdates
  <2> HIDE DEF r, a
  <2> QED
    BY <1>3, <2>1, <2>2, <2>3, OutcomeStep
<1> QED
  BY <1>4, <1>5, <1>6, <1>7, <1>8

(* A rejection is believed of a first submission only. *)
LEMMA ErrorSafe ==
    ASSUME PurchaseInv, TypeInv', NEW w \in Workers, NEW o \in Orders, NEW k \in Seqs,
           ErrorRejected(w, o, k) \/ ErrorReview(w, o, k) \/ ErrorRetry(w, o, k)
    PROVE  PurchaseInv'
<1>1. ASSUME NEW result, Outcome(w, o, k, result)
      PROVE  orders[o] \in Order /\ attempts[o][k] \in Attempt
  BY <1>1, OutcomeFacts, InvFacts
<1>2. /\ "succeeded" \in AttemptStates /\ "failed" \in AttemptStates
      /\ "pending" \in AttemptStates /\ "reviewing" \in AttemptStates
      /\ "rejected" \in AttemptStates
      /\ "later" \in {"none", "due", "later"} /\ "none" \in {"none", "due", "later"}
  BY DEF AttemptStates, Concluded
<1>3. /\ "pending" \notin Concluded \cup {"succeeded"}
      /\ "reviewing" \notin Concluded \cup {"succeeded"}
  BY DEF Concluded
<1>4. CASE ErrorRejected(w, o, k)
  <2> DEFINE r == Finished(Retried(orders[o]), "later")
             a == [attempts[o][k] EXCEPT !.state = "rejected"]
  <2>1. /\ Outcome(w, o, k, "rejected") /\ worker[w].first
        /\ SetOrder(o, r) /\ SetAttempt(o, k, a)
    BY <1>4 DEF ErrorRejected
  <2>2. /\ r \in Order /\ r.lease_token = None
        /\ r.status = orders[o].status /\ r.wallet_state = orders[o].wallet_state
    BY <1>1, <1>2, <2>1, OrderUpdates
  <2>3. a \in Attempt /\ a.state = "rejected"
    BY <1>1, <1>2, <2>1, AttemptUpdates
  <2> HIDE DEF r, a
  <2> QED
    BY <1>3, <2>1, <2>2, <2>3, OutcomeStep
<1>5. CASE ErrorReview(w, o, k)
  <2> DEFINE r == Finished(Retried(orders[o]), "later")
             a == [attempts[o][k] EXCEPT !.state = "reviewing"]
  <2>0. PICK result : Outcome(w, o, k, result)
    BY <1>5 DEF ErrorReview
  <2>1. Outcome(w, o, k, result) /\ SetOrder(o, r) /\ SetAttempt(o, k, a)
    BY <1>5, <2>0 DEF ErrorReview
  <2>2. /\ r \in Order /\ r.lease_token = None
        /\ r.status = orders[o].status /\ r.wallet_state = orders[o].wallet_state
    BY <1>1, <1>2, <2>1, OrderUpdates
  <2>3. a \in Attempt /\ a.state = "reviewing"
    BY <1>1, <1>2, <2>1, AttemptUpdates
  <2> HIDE DEF r, a
  <2> QED
    BY <1>3, <2>1, <2>2, <2>3, OutcomeStep
<1>6. CASE ErrorRetry(w, o, k)
  <2> DEFINE r == Finished(Retried(orders[o]), "later")
             a == attempts[o][k]
  <2>1. /\ Outcome(w, o, k, "unclear") /\ SetOrder(o, r)
        /\ attempts' = attempts /\ a = attempts[o][k]
    BY <1>6 DEF ErrorRetry
  <2>2. /\ r \in Order /\ r.lease_token = None
        /\ r.status = orders[o].status /\ r.wallet_state = orders[o].wallet_state
    BY <1>1, <1>2, <2>1, OrderUpdates
  <2>3. a \in Attempt /\ a.state \notin Concluded \cup {"succeeded"}
    <3>1. /\ worker[w].pc = "result" /\ worker[w].order = o /\ worker[w].seq = k
          /\ orders[o].lease_token = w /\ a \in Attempt /\ k \in 1..Len(attempts[o])
      BY <2>1, OutcomeFacts, InvFacts
    <3>2. attempts[o][k].state \notin Concluded /\ orders[o].status = "delegating"
      BY <3>1, InvFacts DEF HolderOK, HolderOf, At, Holds, OrderOf
    <3>3. orders[o].wallet_state = "held"
      BY <3>2, InvFacts DEF StatusOK
    <3>4. attempts[o][k].state # "succeeded"
      BY <3>1, <3>3, InvFacts DEF AttemptsOK
    <3> QED
      BY <3>1, <3>2, <3>4
  <2> HIDE DEF r, a
  <2> QED
    BY <2>1, <2>2, <2>3, OutcomeStep
<1> QED
  BY <1>4, <1>5, <1>6

-----------------------------------------------------------------------------
(* The invariant holds at the start ... *)
LEMMA InitSafe == ProcurementInit => PurchaseInv
<1> SUFFICES ASSUME ProcurementInit PROVE PurchaseInv
  OBVIOUS
<1>1. TypeInv
  BY InitTypes
<1>2. /\ \A o \in Orders : /\ orders[o].status = "absent" /\ orders[o].wallet_state = "none"
                           /\ orders[o].lease_token = None
                           /\ attempts[o] = <<>>
      /\ \A w \in Workers : worker[w].pc = "idle" /\ ~worker[w].first
      /\ \A o \in Orders, k \in Seqs :
            upstream[o][k].state = "none" /\ ~upstream[o][k].stray
  BY NewRows DEF ProcurementInit, RentalInit
<1>3. \A o \in Orders : Len(attempts[o]) = 0
  BY <1>2
<1>4. StatusOK /\ AttemptsOK
  BY <1>2, <1>3 DEF StatusOK, AttemptsOK
<1>5. UpstreamOK
  BY <1>2, <1>3 DEF UpstreamOK, Agrees, Seqs
<1>6. ResultOK /\ HolderOK /\ FirstOK
  BY <1>2 DEF ResultOK, ResultOf, HolderOK, HolderOf, FirstOK, FirstOf, At
<1> QED
  BY <1>1, <1>4, <1>5, <1>6 DEF PurchaseInv, PurchasesOK, TypeInv

(* ... is kept by every step ... *)
LEMMA NextSafe == PurchaseInv /\ [Next]_vars => PurchaseInv'
<1> SUFFICES ASSUME PurchaseInv, [Next]_vars PROVE PurchaseInv'
  OBVIOUS
<1>1. TypeInv'
  BY InvFacts, NextTypes
<1>2. ASSUME NEW o \in Orders, UserActions(o) PROVE PurchaseInv'
  BY <1>1, <1>2, UserSafe
<1>3. ASSUME NEW w \in Workers, NEW o \in Orders, Transactions(w, o) PROVE PurchaseInv'
  <2>1. CASE Claim(w, o)
    BY <1>1, <2>1, ClaimSafe
  <2>2. CASE StartQuoting(w, o)
    BY <1>1, <2>2, StartQuotingSafe
  <2>3. CASE RequoteLater(w, o) \/ NoAffordableOffer(w, o) \/ NoProviderLeft(w, o)
    BY <1>1, <2>3, EndSafe
  <2>4. ASSUME NEW p \in Providers, StartPurchase(w, o, p) PROVE PurchaseInv'
    BY <1>1, <2>4, StartPurchaseSafe
  <2>5. ASSUME NEW k \in Seqs,
               ResumeLookup(w, o, k) \/ ResumeSubmission(w, o, k) \/ ExhaustSubmissions(w, o, k)
        PROVE  PurchaseInv'
    BY <1>1, <2>5, ResumeSafe
  <2>6. ASSUME NEW k \in Seqs,
               \/ ApplySuccess(w, o, k) \/ ApplyFailed(w, o, k) \/ ApplyPending(w, o, k)
               \/ ApplyReviewing(w, o, k) \/ ApplyChanged(w, o, k)
        PROVE  PurchaseInv'
    BY <1>1, <2>6, ApplySafe
  <2>7. ASSUME NEW k \in Seqs,
               ErrorRejected(w, o, k) \/ ErrorReview(w, o, k) \/ ErrorRetry(w, o, k)
        PROVE  PurchaseInv'
    BY <1>1, <2>7, ErrorSafe
  <2> QED
    BY <1>3, <2>1, <2>2, <2>3, <2>4, <2>5, <2>6, <2>7 DEF Transactions
<1>4. ASSUME NEW w \in Workers, Calls(w) \/ LoseLease(w) \/ Crash(w) PROVE PurchaseInv'
  BY <1>1, <1>4, CallsSafe, ForgottenSafe
<1>5. ASSUME NEW w \in Workers, SkipSettled(w) PROVE PurchaseInv'
  <2>1. worker[w].order \in Orders
    BY <1>5, InvFacts DEF SkipSettled, PassOK, OrderOf
  <2> QED
    BY <1>1, <1>5, <2>1, EndSafe
<1>6. CASE UNCHANGED vars
  <2>1. UNCHANGED <<orders, attempts, worker, upstream>>
    BY <1>6 DEF vars
  <2>2. StatusOK' /\ AttemptsOK'
    BY <2>1, TablesKept
  <2> QED
    BY <1>1, <2>1, <2>2, StillStep
<1> QED
  BY <1>1, <1>2, <1>3, <1>4, <1>5, <1>6, EnvironmentSafe DEF Next

-----------------------------------------------------------------------------
(* ... and so always holds. *)
LEMMA InvariantHolds == Spec => []PurchaseInv
BY InitSafe, NextSafe, PTL DEF Spec

(* The tables, the passes and the upstream always agree as the safety of   *)
(* purchasing needs it: one open attempt at most, written by the holder of *)
(* the lease only, and concluded as the upstream concluded it - in every   *)
(* interleaving of claims, answers, crashes and late POSTs.                *)
THEOREM PurchasesCorrect == Spec => []PurchasesOK
<1>1. PurchaseInv => PurchasesOK
  BY DEF PurchaseInv
<1> QED
  BY InvariantHolds, <1>1, PTL

(* What may be delivered is an attempt that has not failed.                *)
LEMMA NothingDelivers ==
    ASSUME PurchaseInv, NEW o \in Orders, NEW k \in Seqs, MayDeliver(o, k)
    PROVE  /\ k <= Len(attempts[o])
           /\ attempts[o][k].state \notin Concluded
<1>1. Agrees(o, k) /\ Len(attempts[o]) \in Nat /\ k \in Nat
  BY InvFacts, TypeFacts DEF UpstreamOK, Seqs
<1>2. k <= Len(attempts[o])
  <2> SUFFICES ASSUME k > Len(attempts[o]) PROVE FALSE
    BY <1>1
  <2>1. upstream[o][k].state = "none" /\ ~upstream[o][k].stray
    BY <1>1 DEF Agrees
  <2>2. PICK w \in Workers : WaitsFor(w, o, k)
    BY <2>1 DEF MayDeliver, InFlight
  <2>3. worker[w].order = o /\ worker[w].seq = k /\ worker[w].pc = "waiting"
    BY <2>2 DEF WaitsFor, At, OrderOf
  <2>4. k \in 1..Len(attempts[o])
    BY <2>3, CallerFacts, InvFacts
  <2> QED
    BY <1>1, <2>4
<1>3. ASSUME attempts[o][k].state \in Concluded PROVE FALSE
  <2>1. CASE attempts[o][k].state = "failed"
    BY <1>1, <1>2, <2>1 DEF Agrees, MayDeliver
  <2>2. CASE attempts[o][k].state = "rejected"
    <3>1. /\ upstream[o][k].state = "none" /\ ~upstream[o][k].stray
          /\ \A w \in Workers : ~Engaged(w, o, k)
      BY <1>1, <1>2, <2>2 DEF Agrees
    <3>2. \A w \in Workers : ~WaitsFor(w, o, k)
      BY <3>1 DEF WaitsFor, Engaged, At
    <3> QED
      BY <3>1, <3>2 DEF MayDeliver, InFlight
  <2> QED
    BY <1>3, <2>1, <2>2 DEF Concluded
<1> QED
  BY <1>2, <1>3

(* So what is given back cannot be delivered any more ...                 *)
LEMMA RefundSafe == PurchaseInv => NoRefundWhileUpstreamMayDeliver
<1> SUFFICES ASSUME PurchaseInv, NEW o \in Orders, orders[o].wallet_state = "released",
                    NEW k \in Seqs, MayDeliver(o, k)
             PROVE  FALSE
  BY DEF NoRefundWhileUpstreamMayDeliver
<1>1. attempts[o][k].state \notin Concluded
  BY NothingDelivers
<1>2. k <= Len(attempts[o])
  BY NothingDelivers
<1>3. k \in 1..Len(attempts[o])
  BY <1>2, InvFacts, TypeFacts DEF Seqs
<1> QED
  BY <1>1, <1>2, <1>3, InvFacts DEF AttemptsOK

(* A refund is final in fact: nothing that was ever posted for the order   *)
(* can still be delivered (release_order's check of the attempts is enough *)
(* although it never asks the upstream).                                   *)
THEOREM RefundsAreSafe == Spec => []NoRefundWhileUpstreamMayDeliver
BY RefundSafe, InvariantHolds, PTL

(* No crash, lost lease or late answer ever lets an order have two         *)
(* purchases that may both be delivered.                                   *)
THEOREM OnePurchaseAtATime == Spec => []AtMostOneLivePurchase
<1>1. PurchaseInv => AtMostOneLivePurchase
  <2> SUFFICES ASSUME PurchaseInv, NEW o \in Orders, NEW j \in Seqs, NEW k \in Seqs,
                      MayDeliver(o, j), MayDeliver(o, k), j < k
               PROVE  FALSE
    BY DEF AtMostOneLivePurchase, Seqs
  <2>1. /\ k <= Len(attempts[o])
        /\ attempts[o][j].state \notin Concluded
    BY NothingDelivers
  <2>2. j \in 1..Len(attempts[o]) /\ j < Len(attempts[o]) /\ j <= Len(attempts[o])
    BY <2>1, InvFacts, TypeFacts DEF Seqs
  <2> QED
    BY <2>1, <2>2, InvFacts DEF AttemptsOK
<1> QED
  BY <1>1, InvariantHolds, PTL

(* ... and what is charged has been.                                       *)
LEMMA ChargeEarned == PurchaseInv => ChargedOnlyForDelivery
<1> SUFFICES ASSUME PurchaseInv, NEW o \in Orders, orders[o].wallet_state = "captured"
             PROVE  LET k == Len(attempts[o])
                    IN  /\ k > 0 /\ attempts[o][k].state = "succeeded"
                        /\ upstream[o][k].state = "success"
  BY DEF ChargedOnlyForDelivery
<1> DEFINE k == Len(attempts[o])
<1>1. k > 0
  BY InvFacts DEF StatusOK
<1>2. k \in Seqs /\ k \in 1..Len(attempts[o]) /\ k <= Len(attempts[o])
  BY <1>1, InvFacts, TypeFacts DEF Seqs
<1>3. attempts[o][k].state = "succeeded"
  BY <1>2, InvFacts DEF AttemptsOK
<1>4. Agrees(o, k)
  BY <1>2, InvFacts DEF UpstreamOK
<1> QED
  BY <1>1, <1>2, <1>3, <1>4 DEF Agrees

(* The frozen price is only ever taken for a purchase that the upstream    *)
(* has delivered, and the last attempt says so.                            *)
THEOREM ChargesAreEarned == Spec => []ChargedOnlyForDelivery
BY ChargeEarned, InvariantHolds, PTL
=============================================================================
