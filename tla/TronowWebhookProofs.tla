------------------------ MODULE TronowWebhookProofs ------------------------
(***************************************************************************)
(* Proofs about TronowWebhook: for any orders, deliveries and requests,    *)
(* what is acknowledged was recorded and woken in one transaction.         *)
(***************************************************************************)
EXTENDS TronowWebhook, TLAPS

RequestPcs == {"idle", "checking", "matching", "locked", "accepting", "refusing"}
Request == [pc : RequestPcs, delivery : Deliveries \cup {None}]

(* Who is about to answer 2xx has found the record, or written it.         *)
AcceptsSeen == \A h \in Requests : At(h, "accepting") => The(h) \in seen

Recorded == AcknowledgedIsWoken /\ AcceptsSeen /\ seen \subseteq woken

WebhookInv == TypeOK /\ Recorded

(* The row locks and who holds them.                                       *)
LocksHeld ==
    \A h \in Requests, o \in Orders : lock[o] = h <=> At(h, "locked") /\ OrderAt(h) = o

LEMMA Facts ==
    ASSUME WebhookInv
    PROVE  /\ order \in [Orders -> Order]
           /\ lock \in [Orders -> Requests \cup {None}]
           /\ request \in [Requests -> Request]
           /\ \A h \in Requests : At(h, "idle") <=> The(h) = None
           /\ LocksHeld
           /\ {seen, acked, woken, polled} \subseteq SUBSET Deliveries
BY DEF WebhookInv, TypeOK, Request, RequestPcs, LocksHeld

LEMMA InitCorrect == Init => WebhookInv
<1> SUFFICES ASSUME Init PROVE WebhookInv
  OBVIOUS
<1>1. TypeOK
  BY TronowWebhookAssumption DEF Init, TypeOK, Order, At, The
<1>2. Recorded
  BY DEF Init, Recorded, AcknowledgedIsWoken, AcceptsSeen, At
<1> QED
  BY <1>1, <1>2 DEF WebhookInv

(* What a request becomes, field by field.                                 *)
LEMMA Becoming ==
    ASSUME WebhookInv, NEW h \in Requests, NEW pc \in RequestPcs, Become(h, pc)
    PROVE  /\ request' \in [Requests -> Request]
           /\ request'[h].pc = pc /\ request'[h].delivery = The(h)
           /\ \A g \in Requests : g # h => request'[g] = request[g]
BY Facts DEF Become, The, Request

LEMMA Leaving ==
    ASSUME WebhookInv, NEW h \in Requests, Leave(h)
    PROVE  /\ request' \in [Requests -> Request]
           /\ request'[h].pc = "idle" /\ request'[h].delivery = None
           /\ \A g \in Requests : g # h => request'[g] = request[g]
BY Facts DEF Leave, Request, RequestPcs

(* Unlocking lets go of one request's locks and of no other's.             *)
LEMMA Unlocking ==
    ASSUME WebhookInv, NEW h \in Requests, Unlock(h)
    PROVE  /\ lock' \in [Orders -> Requests \cup {None}]
           /\ \A g \in Requests, o \in Orders : lock'[o] = g <=> lock[o] = g /\ g # h
BY Facts, TronowWebhookAssumption DEF Unlock

-----------------------------------------------------------------------------
(* A step of one request: the invariant asks only what it leaves behind.   *)
LEMMA RequestStep ==
    ASSUME WebhookInv, NEW h \in Requests,
           request' \in [Requests -> Request],
           \A g \in Requests : g # h => request'[g] = request[g],
           request'[h].pc = "idle" <=> request'[h].delivery = None,
           request'[h].pc = "accepting" => request'[h].delivery \in seen',
           order' \in [Orders -> Order],
           lock' \in [Orders -> Requests \cup {None}],
           \A g \in Requests, o \in Orders : g # h => (lock'[o] = g <=> lock[o] = g),
           \A o \in Orders :
               lock'[o] = h <=> request'[h].pc = "locked" /\ OrderOf[request'[h].delivery] = o,
           {seen', acked', woken', polled'} \subseteq SUBSET Deliveries,
           seen \subseteq seen', seen' \subseteq woken', acked' \subseteq seen'
    PROVE  WebhookInv'
<1>1. \A g \in Requests : (At(g, "idle") <=> The(g) = None)'
  BY Facts DEF At, The
<1>2. LocksHeld'
  <2> SUFFICES ASSUME NEW g \in Requests, NEW o \in Orders
               PROVE  (lock[o] = g <=> At(g, "locked") /\ OrderAt(g) = o)'
    BY DEF LocksHeld
  <2>1. CASE g = h
    BY <2>1 DEF At, OrderAt, The
  <2>2. CASE g # h
    BY <2>2, Facts DEF LocksHeld, At, OrderAt, The
  <2> QED
    BY <2>1, <2>2
<1>3. TypeOK'
  BY <1>1, <1>2 DEF TypeOK, LocksHeld, Request, RequestPcs
<1>4. AcceptsSeen'
  BY DEF AcceptsSeen, WebhookInv, Recorded, At, The
<1> QED
  BY <1>3, <1>4 DEF WebhookInv, Recorded, AcknowledgedIsWoken

LEMMA DeliverSafe ==
    ASSUME WebhookInv, NEW h \in Requests, NEW d \in Deliveries, Deliver(h, d)
    PROVE  WebhookInv'
<1>1. /\ request' = [request EXCEPT ![h] = [pc |-> "checking", delivery |-> d]]
      /\ UNCHANGED <<order, lock, seen, acked, woken, polled>>
      /\ At(h, "idle")
  BY DEF Deliver
<1>2. d # None
  BY TronowWebhookAssumption
<1>3. /\ request' \in [Requests -> Request]
      /\ request'[h].pc = "checking" /\ request'[h].delivery = d
      /\ \A g \in Requests : g # h => request'[g] = request[g]
  BY <1>1, Facts DEF Request, RequestPcs
<1>4. \A o \in Orders : lock'[o] # h
  BY <1>1, Facts DEF LocksHeld, At
<1> QED
  BY <1>1, <1>2, <1>3, <1>4, Facts, RequestStep DEF WebhookInv, Recorded, AcknowledgedIsWoken

(* The steps that only take a request further.                             *)
LEMMA GoOn ==
    ASSUME WebhookInv, NEW h \in Requests,
           NEW pc \in {"refusing", "accepting", "matching"}, Become(h, pc),
           At(h, "checking") \/ At(h, "matching"), pc = "accepting" => The(h) \in seen,
           UNCHANGED <<order, lock, seen, acked, woken, polled>>
    PROVE  WebhookInv'
<1>1. pc \in RequestPcs /\ The(h) # None
  BY Facts DEF RequestPcs, At
<1>2. /\ request' \in [Requests -> Request]
      /\ request'[h].pc = pc /\ request'[h].delivery = The(h)
      /\ \A g \in Requests : g # h => request'[g] = request[g]
  BY <1>1, Becoming
<1>3. \A o \in Orders : lock'[o] # h
  BY Facts DEF LocksHeld, At
<1> QED
  BY <1>1, <1>2, <1>3, Facts, RequestStep DEF WebhookInv, Recorded, AcknowledgedIsWoken

LEMMA ChecksSafe ==
    ASSUME WebhookInv, NEW h \in Requests,
           TurnAway(h) \/ Duplicate(h) \/ NotSeen(h) \/ Unmatched(h)
    PROVE  WebhookInv'
BY GoOn DEF TurnAway, Duplicate, NotSeen, Unmatched

LEMMA LockSafe ==
    ASSUME WebhookInv, NEW h \in Requests, Lock(h)
    PROVE  WebhookInv'
<1>1. /\ At(h, "matching") /\ lock[OrderAt(h)] = None
      /\ lock' = [lock EXCEPT ![OrderAt(h)] = h]
      /\ Become(h, "locked")
      /\ UNCHANGED <<order, seen, acked, woken, polled>>
  BY DEF Lock
<1>2. The(h) # None /\ The(h) \in Deliveries /\ OrderAt(h) \in Orders
  BY <1>1, Facts, TronowWebhookAssumption DEF At, The, Request, OrderAt
<1>3. /\ request' \in [Requests -> Request]
      /\ request'[h].pc = "locked" /\ request'[h].delivery = The(h)
      /\ \A g \in Requests : g # h => request'[g] = request[g]
  BY <1>1, Becoming DEF RequestPcs
<1>4. /\ lock' \in [Orders -> Requests \cup {None}]
      /\ \A g \in Requests, o \in Orders : g # h => (lock'[o] = g <=> lock[o] = g)
  BY <1>1, <1>2, Facts, TronowWebhookAssumption
<1>5. \A o \in Orders : lock'[o] = h <=> OrderOf[The(h)] = o
  BY <1>1, <1>2, Facts DEF LocksHeld, At, OrderAt
<1> QED
  BY <1>1, <1>2, <1>3, <1>4, <1>5, Facts, RequestStep DEF WebhookInv, Recorded, AcknowledgedIsWoken

(* Both ends of the transaction let the lock go.                           *)
LEMMA Settling ==
    ASSUME WebhookInv, NEW h \in Requests, At(h, "locked"),
           Unlock(h), Become(h, "accepting"), order' \in [Orders -> Order],
           seen \subseteq seen', The(h) \in seen', seen' \subseteq woken',
           {seen', woken'} \subseteq SUBSET Deliveries, UNCHANGED <<acked, polled>>
    PROVE  WebhookInv'
<1>1. The(h) # None
  BY Facts DEF At
<1>2. /\ request' \in [Requests -> Request]
      /\ request'[h].pc = "accepting" /\ request'[h].delivery = The(h)
      /\ \A g \in Requests : g # h => request'[g] = request[g]
  BY Becoming DEF RequestPcs
<1>3. /\ lock' \in [Orders -> Requests \cup {None}]
      /\ \A g \in Requests, o \in Orders : lock'[o] = g <=> lock[o] = g /\ g # h
  BY Unlocking
<1>4. acked' \subseteq seen' /\ {acked', polled'} \subseteq SUBSET Deliveries
  BY Facts DEF WebhookInv, Recorded, AcknowledgedIsWoken
<1> QED
  BY <1>1, <1>2, <1>3, <1>4, RequestStep

LEMMA WokenOrder ==
    ASSUME WebhookInv, NEW o \in Orders
    PROVE  Woken(o) \in [Orders -> Order]
BY Facts DEF Woken, Order

LEMMA CommitSafe ==
    ASSUME WebhookInv, NEW h \in Requests, Commit(h)
    PROVE  WebhookInv'
<1>1. /\ At(h, "locked") /\ order' = Woken(OrderAt(h))
      /\ seen' = seen \cup {The(h)} /\ woken' = woken \cup {The(h)}
      /\ Unlock(h) /\ Become(h, "accepting") /\ UNCHANGED <<acked, polled>>
  BY DEF Commit
<1>2. The(h) \in Deliveries /\ OrderAt(h) \in Orders
  BY <1>1, Facts, TronowWebhookAssumption DEF At, The, Request, OrderAt
<1>3. order' \in [Orders -> Order]
  BY <1>1, <1>2, WokenOrder
<1>4. /\ seen \subseteq seen' /\ The(h) \in seen' /\ seen' \subseteq woken'
      /\ {seen', woken'} \subseteq SUBSET Deliveries
  BY <1>1, <1>2, Facts DEF WebhookInv, Recorded
<1> QED
  BY <1>1, <1>3, <1>4, Settling

LEMMA ConflictSafe ==
    ASSUME WebhookInv, NEW h \in Requests, Conflict(h)
    PROVE  WebhookInv'
<1>1. /\ At(h, "locked") /\ The(h) \in seen /\ Unlock(h) /\ Become(h, "accepting")
      /\ UNCHANGED <<order, seen, acked, woken, polled>>
  BY DEF Conflict
<1>2. /\ order' \in [Orders -> Order] /\ seen' \subseteq woken'
      /\ {seen', woken'} \subseteq SUBSET Deliveries
  BY <1>1, Facts DEF WebhookInv, Recorded
<1> QED
  BY <1>1, <1>2, Settling

LEMMA ReplySafe ==
    ASSUME WebhookInv, NEW h \in Requests, Reply(h)
    PROVE  WebhookInv'
<1>1. /\ At(h, "accepting") \/ At(h, "refusing")
      /\ acked' = IF At(h, "accepting") THEN acked \cup {The(h)} ELSE acked
      /\ Leave(h) /\ UNCHANGED <<order, lock, seen, woken, polled>>
  BY DEF Reply
<1>2. /\ request' \in [Requests -> Request]
      /\ request'[h].pc = "idle" /\ request'[h].delivery = None
      /\ \A g \in Requests : g # h => request'[g] = request[g]
  BY <1>1, Leaving
<1>3. \A o \in Orders : lock'[o] # h
  BY <1>1, Facts DEF LocksHeld, At
<1>4. acked' \subseteq seen' /\ seen' \subseteq woken' /\ acked' \in SUBSET Deliveries
  BY <1>1, Facts DEF WebhookInv, Recorded, AcknowledgedIsWoken, AcceptsSeen
<1> QED
  BY <1>1, <1>2, <1>3, <1>4, Facts, RequestStep

LEMMA CrashSafe ==
    ASSUME WebhookInv, NEW h \in Requests, Crash(h)
    PROVE  WebhookInv'
<1>1. Unlock(h) /\ Leave(h) /\ UNCHANGED <<order, seen, acked, woken, polled>>
  BY DEF Crash
<1>2. /\ request' \in [Requests -> Request]
      /\ request'[h].pc = "idle" /\ request'[h].delivery = None
      /\ \A g \in Requests : g # h => request'[g] = request[g]
  BY <1>1, Leaving
<1>3. /\ lock' \in [Orders -> Requests \cup {None}]
      /\ \A g \in Requests, o \in Orders : lock'[o] = g <=> lock[o] = g /\ g # h
  BY <1>1, Unlocking
<1> QED
  BY <1>1, <1>2, <1>3, Facts, RequestStep DEF WebhookInv, Recorded, AcknowledgedIsWoken

-----------------------------------------------------------------------------
(* The worker writes orders and polled only.                               *)
LEMMA WorkerStep ==
    ASSUME WebhookInv, order' \in [Orders -> Order], polled' \in SUBSET Deliveries,
           UNCHANGED <<lock, seen, request, acked, woken>>
    PROVE  WebhookInv'
BY DEF WebhookInv, TypeOK, Recorded, AcknowledgedIsWoken, AcceptsSeen, At, The, OrderAt

LEMMA WorkerSafe ==
    ASSUME WebhookInv, NEW o \in Orders,
           \/ Claim(o) \/ Abandon(o) \/ FallDue(o)
           \/ \E wallet \in {"held", "captured", "released"} : Finish(o, wallet)
    PROVE  WebhookInv'
<1>1. UNCHANGED <<lock, seen, request, acked, woken>>
  BY DEF Claim, Abandon, FallDue, Finish
<1>2. order' \in [Orders -> Order]
  <2>0. order[o] \in Order
    BY Facts
  <2>1. CASE Claim(o) \/ Abandon(o) \/ FallDue(o)
    <3>1. \A busy \in BOOLEAN : [order[o] EXCEPT !.busy = busy] \in Order
      BY <2>0 DEF Order
    <3>2. [order[o] EXCEPT !.next = "due"] \in Order
      BY <2>0 DEF Order
    <3> QED
      BY <2>1, <3>1, <3>2, Facts DEF Claim, Abandon, FallDue
  <2>2. ASSUME NEW wallet \in {"held", "captured", "released"}, Finish(o, wallet)
        PROVE  order' \in [Orders -> Order]
    BY <2>2, Facts DEF Finish, Order
  <2> QED
    BY <2>1, <2>2
<1>3. polled' \in SUBSET Deliveries
  BY Facts DEF Claim, Abandon, FallDue, Finish
<1> QED
  BY <1>1, <1>2, <1>3, WorkerStep

-----------------------------------------------------------------------------
LEMMA NextSafe == WebhookInv /\ [Next]_vars => WebhookInv'
<1> SUFFICES ASSUME WebhookInv, [Next]_vars PROVE WebhookInv'
  OBVIOUS
<1>1. CASE UNCHANGED vars
  BY <1>1, WorkerStep, Facts DEF vars
<1>2. ASSUME NEW h \in Requests,
             \/ \E d \in Deliveries : Deliver(h, d)
             \/ TurnAway(h) \/ Duplicate(h) \/ NotSeen(h) \/ Unmatched(h) \/ Lock(h)
             \/ Commit(h) \/ Conflict(h) \/ Reply(h) \/ Crash(h)
      PROVE  WebhookInv'
  BY <1>2, DeliverSafe, ChecksSafe, LockSafe, CommitSafe, ConflictSafe, ReplySafe, CrashSafe
<1>3. ASSUME NEW o \in Orders,
             \/ Claim(o) \/ Abandon(o) \/ FallDue(o)
             \/ \E wallet \in {"held", "captured", "released"} : Finish(o, wallet)
      PROVE  WebhookInv'
  BY <1>3, WorkerSafe
<1> QED
  BY <1>1, <1>2, <1>3 DEF Next

LEMMA InvariantHolds == Spec => []WebhookInv
BY InitCorrect, NextSafe, PTL DEF Spec

(* The tables and the requests keep their shape, and a row lock belongs to *)
(* the request that is in its transaction, until commit or rollback.       *)
THEOREM TypeCorrect == Spec => []TypeOK
<1>1. WebhookInv => TypeOK
  BY DEF WebhookInv
<1> QED
  BY InvariantHolds, <1>1, PTL

(* A 2xx is given only for a delivery that is recorded and has woken its   *)
(* order, however many copies of it are handled at once (handle).          *)
THEOREM AcknowledgementsAreSafe == Spec => []AcknowledgedIsWoken
<1>1. WebhookInv => AcknowledgedIsWoken
  BY DEF WebhookInv, Recorded
<1> QED
  BY InvariantHolds, <1>1, PTL

(* A delivery is recorded in the step that makes its order due, unless its *)
(* money was returned before (wake_tronow and the insert, one transaction).*)
THEOREM RecordsComeWithWakes == Spec => CommittedTogether
<1> DEFINE Together ==
      \A d \in Deliveries :
        d \in seen' \ seen =>
            /\ d \in woken'
            /\ order[OrderOf[d]].wallet # "released" => order'[OrderOf[d]].next = "due"
<1>1. WebhookInv /\ [Next]_vars => [Together]_vars
  <2> SUFFICES ASSUME WebhookInv, Next, NEW d \in Deliveries, d \in seen' \ seen
               PROVE  /\ d \in woken'
                      /\ order[OrderOf[d]].wallet # "released" =>
                            order'[OrderOf[d]].next = "due"
    OBVIOUS
  <2>1. PICK h \in Requests : Commit(h)
    BY DEF Next, Deliver, TurnAway, Duplicate, NotSeen, Unmatched, Lock, Conflict, Reply,
           Crash, Claim, Abandon, FallDue, Finish
  <2>2. d = The(h) /\ d \in woken'
    BY <2>1 DEF Commit
  <2>3. OrderOf[d] \in Orders /\ order' = Woken(OrderOf[d])
    BY <2>1, <2>2, TronowWebhookAssumption DEF Commit, OrderAt
  <2>4. order[OrderOf[d]] \in Order
    BY <2>3, Facts
  <2>5. order[OrderOf[d]].wallet # "released" => order'[OrderOf[d]].next = "due"
    BY <2>3, <2>4, Facts DEF Woken, Order
  <2> QED
    BY <2>2, <2>5
<1> QED
  BY InvariantHolds, <1>1, PTL DEF Spec, CommittedTogether
=============================================================================
