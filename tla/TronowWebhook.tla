--------------------------- MODULE TronowWebhook ---------------------------
(***************************************************************************)
(* The endpoint for the final events of TRONow orders (web/tronow.py): a   *)
(* delivery wakes the order it is about and is recorded as seen, both in   *)
(* one transaction, and only then answered with 2xx, which ends its        *)
(* repetition.  Copies of a delivery may be handled side by side, and the  *)
(* worker of services/procurement.py polls the same orders meanwhile.      *)
(*                                                                         *)
(* A request takes several statements, so the row lock that wake_tronow    *)
(* holds until the commit is a variable.  Of the worker there is what the  *)
(* wake is for: an order is claimed when it is due, and polled.            *)
(***************************************************************************)
EXTENDS Integers

CONSTANTS
    Orders,         \* orders with a purchase attempt at TRONow
    Deliveries,     \* final events, by delivery id
    OrderOf,        \* delivery -> its order
    Named,          \* deliveries that carry our business id
    Requests,       \* requests that are handled at the same time
    None            \* nobody holds the lock, no delivery

ASSUME TronowWebhookAssumption ==
    /\ OrderOf \in [Deliveries -> Orders]
    /\ Named \subseteq Deliveries
    /\ None \notin Requests \cup Deliveries

VARIABLES
    order,          \* order -> number known, money, next run, with a worker
    lock,           \* order -> the request that holds its row lock
    seen,           \* upstream_deliveries
    request,        \* request -> where it is, and with which delivery
    acked,          \* deliveries the upstream got a 2xx for
    woken,          \* deliveries whose wake was committed
    polled          \* deliveries whose order was claimed after their wake

vars == <<order, lock, seen, request, acked, woken, polled>>

Order == [numbered : BOOLEAN, wallet : {"held", "captured", "released"},
          next : {"none", "later", "due"}, busy : BOOLEAN]

Init ==
    /\ order = [o \in Orders |-> [numbered |-> FALSE, wallet |-> "held",
                                  next |-> "later", busy |-> FALSE]]
    /\ lock = [o \in Orders |-> None]
    /\ seen = {}
    /\ request = [h \in Requests |-> [pc |-> "idle", delivery |-> None]]
    /\ acked = {} /\ woken = {} /\ polled = {}

At(h, pc) == request[h].pc = pc
The(h) == request[h].delivery
OrderAt(h) == OrderOf[The(h)]
Become(h, pc) == request' = [request EXCEPT ![h].pc = pc]
Leave(h) == request' = [request EXCEPT ![h] = [pc |-> "idle", delivery |-> None]]
Unlock(h) == lock' = [o \in Orders |-> IF lock[o] = h THEN None ELSE lock[o]]

-----------------------------------------------------------------------------
(* The upstream delivers until it gets a 2xx.                              *)
Deliver(h, d) ==
    /\ At(h, "idle") /\ d \notin acked
    /\ request' = [request EXCEPT ![h] = [pc |-> "checking", delivery |-> d]]
    /\ UNCHANGED <<order, lock, seen, acked, woken, polled>>

(* Size, timestamp, signature, shape: turned away before anything is read. *)
TurnAway(h) ==
    /\ At(h, "checking")
    /\ Become(h, "refusing")
    /\ UNCHANGED <<order, lock, seen, acked, woken, polled>>

(* _already_seen, without a lock. *)
Duplicate(h) ==
    /\ At(h, "checking") /\ The(h) \in seen
    /\ Become(h, "accepting")
    /\ UNCHANGED <<order, lock, seen, acked, woken, polled>>

NotSeen(h) ==
    /\ At(h, "checking") /\ The(h) \notin seen
    /\ Become(h, "matching")
    /\ UNCHANGED <<order, lock, seen, acked, woken, polled>>

(* Fault: the upstream's number is not looked for. *)
MatchesNamed(d) == d \in Named

(* wake_tronow finds the attempt by the upstream's number, which is known  *)
(* after the answer to the POST was committed, or by our own.              *)
Matches(d) == d \in Named \/ order[OrderOf[d]].numbered

(* Fault: an unmatched delivery is recorded, too. *)
UnmatchedRecorded(h) ==
    /\ At(h, "matching") /\ ~Matches(The(h))
    /\ seen' = seen \cup {The(h)}
    /\ Become(h, "refusing")
    /\ UNCHANGED <<order, lock, acked, woken, polled>>

Unmatched(h) ==
    /\ At(h, "matching") /\ ~Matches(The(h))
    /\ Become(h, "refusing")
    /\ UNCHANGED <<order, lock, seen, acked, woken, polled>>

Lock(h) ==
    /\ At(h, "matching") /\ Matches(The(h))
    /\ lock[OrderAt(h)] = None
    /\ lock' = [lock EXCEPT ![OrderAt(h)] = h]
    /\ Become(h, "locked")
    /\ UNCHANGED <<order, seen, acked, woken, polled>>

(* Fault: an order that a worker is busy with is not woken. *)
WokenIdle(o) ==
    IF order[o].wallet = "held" /\ ~order[o].busy
    THEN [order EXCEPT ![o].next = "due"]
    ELSE order

(* A released order has nothing left to ask for. *)
Woken(o) ==
    IF order[o].wallet \in {"held", "captured"}
    THEN [order EXCEPT ![o].next = "due"]
    ELSE order

(* Wake and record are committed together. *)
Commit(h) ==
    /\ At(h, "locked") /\ The(h) \notin seen
    /\ order' = Woken(OrderAt(h))
    /\ seen' = seen \cup {The(h)}
    /\ woken' = woken \cup {The(h)}
    /\ Unlock(h)
    /\ Become(h, "accepting")
    /\ UNCHANGED <<acked, polled>>

(* The insert fails on a copy that was faster: the wake is rolled back,    *)
(* and the copy's record makes this a duplicate.                           *)
Conflict(h) ==
    /\ At(h, "locked") /\ The(h) \in seen
    /\ Unlock(h)
    /\ Become(h, "accepting")
    /\ UNCHANGED <<order, seen, acked, woken, polled>>

-----------------------------------------------------------------------------
Reply(h) ==
    /\ At(h, "accepting") \/ At(h, "refusing")
    /\ acked' = IF At(h, "accepting") THEN acked \cup {The(h)} ELSE acked
    /\ Leave(h)
    /\ UNCHANGED <<order, lock, seen, woken, polled>>

(* The process ends, the database fails, or the reply is lost.             *)
Crash(h) ==
    /\ ~At(h, "idle")
    /\ Unlock(h)
    /\ Leave(h)
    /\ UNCHANGED <<order, seen, acked, woken, polled>>

-----------------------------------------------------------------------------
(* The worker, a transaction at a time; it takes the row lock as well.     *)
Claim(o) ==
    /\ order[o].next = "due" /\ ~order[o].busy
    /\ lock[o] = None
    /\ order' = [order EXCEPT ![o].busy = TRUE]
    /\ polled' = polled \cup {d \in woken : OrderOf[d] = o}
    /\ UNCHANGED <<lock, seen, request, acked, woken>>

(* The outcome is committed and the next run set, over a wake that came    *)
(* meanwhile; a settled order has no next run.                             *)
Finish(o, wallet) ==
    /\ order[o].busy /\ lock[o] = None
    /\ wallet = order[o].wallet \/ order[o].wallet = "held"
    /\ order' = [order EXCEPT ![o] = [numbered |-> TRUE, wallet |-> wallet, busy |-> FALSE,
                                      next |-> IF wallet = "held" THEN "later" ELSE "none"]]
    /\ UNCHANGED <<lock, seen, request, acked, woken, polled>>

(* The lease of a worker that died expires. *)
Abandon(o) ==
    /\ order[o].busy
    /\ lock[o] = None
    /\ order' = [order EXCEPT ![o].busy = FALSE]
    /\ UNCHANGED <<lock, seen, request, acked, woken, polled>>

FallDue(o) ==
    /\ order[o].next = "later"
    /\ order' = [order EXCEPT ![o].next = "due"]
    /\ UNCHANGED <<lock, seen, request, acked, woken, polled>>

Next ==
    \/ \E h \in Requests :
        \/ \E d \in Deliveries : Deliver(h, d)
        \/ TurnAway(h) \/ Duplicate(h) \/ NotSeen(h) \/ Unmatched(h) \/ Lock(h)
        \/ Commit(h) \/ Conflict(h) \/ Reply(h) \/ Crash(h)
    \/ \E o \in Orders :
        \/ Claim(o) \/ Abandon(o) \/ FallDue(o)
        \/ \E wallet \in {"held", "captured", "released"} : Finish(o, wallet)

Spec == Init /\ [][Next]_vars

(* The upstream repeats itself, requests are handled, time passes, workers *)
(* poll; any of the steps of a request may fail, but not every time, and a *)
(* worker commits an outcome in the end.                                   *)
Step(h) == Duplicate(h) \/ NotSeen(h) \/ Unmatched(h) \/ Lock(h) \/ Commit(h) \/ Conflict(h) \/ Reply(h)

Fairness ==
    /\ \A h \in Requests : WF_vars(Step(h))
    /\ \A d \in Deliveries :
        /\ SF_vars(\E h \in Requests : Deliver(h, d))
        /\ SF_vars(\E h \in Requests : The(h) = d /\ (Duplicate(h) \/ NotSeen(h)))
        /\ SF_vars(\E h \in Requests : The(h) = d /\ Lock(h))
        /\ SF_vars(\E h \in Requests : The(h) = d /\ (Commit(h) \/ Conflict(h)))
        /\ SF_vars(\E h \in Requests : The(h) = d /\ At(h, "accepting") /\ Reply(h))
    /\ \A o \in Orders :
        /\ WF_vars(FallDue(o))
        /\ SF_vars(Claim(o))
        /\ SF_vars(\E wallet \in {"held", "captured", "released"} : Finish(o, wallet))

FairSpec == Spec /\ Fairness

-----------------------------------------------------------------------------
TypeOK ==
    /\ order \in [Orders -> Order]
    /\ lock \in [Orders -> Requests \cup {None}]
    /\ request \in [Requests -> [pc : {"idle", "checking", "matching", "locked",
                                       "accepting", "refusing"},
                                 delivery : Deliveries \cup {None}]]
    /\ \A h \in Requests : At(h, "idle") <=> The(h) = None
    /\ \A h \in Requests, o \in Orders : lock[o] = h <=> At(h, "locked") /\ OrderAt(h) = o
    /\ {seen, acked, woken, polled} \subseteq SUBSET Deliveries

(* docs/upstream/tronow.md allows a 2xx only after the processing and the  *)
(* record have been committed together: whatever copies, crashes and       *)
(* unmatched attempts came before, an answered delivery is recorded and    *)
(* its wake is in the table (TronowWebhookView.handle).                    *)
AcknowledgedIsWoken == acked \subseteq seen \cap woken

(* A record is never written without its wake, nor a wake without record.  *)
CommittedTogether ==
    [][\A d \in Deliveries :
        d \in seen' \ seen =>
            /\ d \in woken'
            /\ order[OrderOf[d]].wallet # "released" => order'[OrderOf[d]].next = "due"]_vars

(* Every final event is acknowledged in the end, one that came before the  *)
(* upstream's number was stored included, and its order is polled after it *)
(* unless it was settled before.                                           *)
DeliveriesArePolled ==
    \A d \in Deliveries :
        /\ <>(d \in acked)
        /\ <>(d \in polled \/ order[OrderOf[d]].wallet # "held")
=============================================================================
