---------------------------- MODULE RequestGate ----------------------------
(***************************************************************************)
(* The merchant gates (services/upstream_gate.py) that every upstream      *)
(* request passes: a semaphore per process, and a row per merchant shared  *)
(* by all processes, read and written under its lock with the clock of the *)
(* database.  UpstreamGate spaces requests evenly; TronowGate (Rolling)    *)
(* keeps the times of the last second and limits how many there are.       *)
(*                                                                         *)
(* A request that has to wait a second or less sleeps with its slot and    *)
(* asks again, one that would wait longer is handed back to its queue      *)
(* (UpstreamDeferred).  An answer may tell the limits in force, or ask for *)
(* a pause, which is stored in a transaction of its own.                   *)
(*                                                                         *)
(* A request of the history is its number in admitted, the log of all      *)
(* admissions; a time that is NULL is 0, before every reading of the clock.*)
(***************************************************************************)
EXTENDS Integers, Sequences, FiniteSets, FiniteSetsExt

CONSTANTS
    Requests,           \* upstream calls; each passes the gate once
    Processes,          \* the processes that share a merchant
    ProcessOf,          \* request -> its process
    Creations,          \* the requests that create an order
    Rolling,            \* TRUE: TronowGate, FALSE: UpstreamGate
    Second,             \* ticks of the clock in a second
    RequestGap,         \* ticks between requests (upstream_requests_per_second)
    OrderGap,           \* ticks between orders (upstream_orders_per_second)
    RequestLimit,       \* upstream.tronow.request_limit
    OrderLimit,         \* upstream.tronow.order_limit
    Slots,              \* rental.upstream_concurrency
    Limits,             \* limits an answer may tell
    Pauses,             \* the values of Retry-After, in ticks
    LastArrival,        \* bound: no request arrives later
    MaxClock,           \* bound: the clock stops
    Prompt              \* a task that may run does so before the next tick

ASSUME RequestGateAssumption ==
    /\ IsFiniteSet(Requests)
    /\ ProcessOf \in [Requests -> Processes]
    /\ Creations \subseteq Requests
    /\ Rolling \in BOOLEAN /\ Prompt \in BOOLEAN
    /\ {Second, RequestGap, OrderGap, RequestLimit, OrderLimit, Slots} \subseteq Nat \ {0}
    /\ Limits \subseteq Nat /\ Pauses \subseteq Nat \ {0}
    /\ LastArrival \in Nat /\ MaxClock \in Nat

VARIABLES
    clock,          \* the clock of the database
    throttle,       \* the row of the merchant
    free,           \* process -> free slots of its semaphore
    request,        \* request -> where it is, and until when it sleeps
    admitted,       \* log of the admissions, with the limits in force
    told            \* log of the pauses asked for, with the place in admitted

vars == <<clock, throttle, free, request, admitted, told>>

Scopes == {"all", "orders"}

Throttle ==
    [request_at : Nat, order_at : Nat, blocked_until : Nat, orders_blocked_until : Nat,
     request_history : SUBSET (1..Len(admitted)), order_history : SUBSET (1..Len(admitted)),
     request_limit : Nat, order_limit : Nat]

Init ==
    /\ clock = 1
    /\ throttle = [request_at |-> 0, order_at |-> 0,
                   blocked_until |-> 0, orders_blocked_until |-> 0,
                   request_history |-> {}, order_history |-> {},
                   request_limit |-> 0, order_limit |-> 0]
    /\ free = [p \in Processes |-> Slots]
    /\ request = [r \in Requests |-> [pc |-> "new", until |-> 0]]
    /\ admitted = <<>>
    /\ told = {}

At(r, pc) == request[r].pc = pc
Become(r, pc, until) == request' = [request EXCEPT ![r] = [pc |-> pc, until |-> until]]
Acquired(r) == free' = [free EXCEPT ![ProcessOf[r]] = @ - 1]
Release(r) == free' = [free EXCEPT ![ProcessOf[r]] = @ + 1]

-----------------------------------------------------------------------------
(* run: a slot within five seconds, or the request is deferred. *)
Arrive(r) ==
    /\ At(r, "new") /\ clock <= LastArrival
    /\ Become(r, "queued", 0)
    /\ UNCHANGED <<clock, throttle, free, admitted, told>>

Acquire(r) ==
    /\ At(r, "queued")
    /\ free[ProcessOf[r]] > 0
    /\ Acquired(r)
    /\ Become(r, "waiting", 0)
    /\ UNCHANGED <<clock, throttle, admitted, told>>

SlotTimeout(r) ==
    /\ At(r, "queued")
    /\ free[ProcessOf[r]] = 0
    /\ Become(r, "deferred", 0)
    /\ UNCHANGED <<clock, throttle, free, admitted, told>>

-----------------------------------------------------------------------------
(* _delay of TronowGate: what is left of the last second, the limit in     *)
(* force (the configured one, or a lower one the upstream told), and when  *)
(* a full window has room again: the limit-th request from the end leaves. *)
Recent(history) == {i \in history : admitted[i].at > clock - Second}

Tightened(limit, toldLimit) ==
    IF toldLimit = 0 \/ toldLimit > limit THEN limit ELSE toldLimit

(* Fault: one more than the limit. *)
RoomAtOneMore(recent, limit) ==
    IF Cardinality(recent) <= limit
    THEN {clock}
    ELSE {admitted[i].at + Second :
            i \in {k \in recent : Cardinality({j \in recent : j >= k}) = limit}}

RoomAt(recent, limit) ==
    IF Cardinality(recent) < limit
    THEN {clock}
    ELSE {admitted[i].at + Second :
            i \in {k \in recent : Cardinality({j \in recent : j >= k}) = limit}}

RequestLimitNow == Tightened(RequestLimit, throttle.request_limit)
OrderLimitNow == Tightened(OrderLimit, throttle.order_limit)

(* When the next request and the next order may go (one value each).       *)
RequestTimes ==
    IF Rolling THEN RoomAt(Recent(throttle.request_history), RequestLimitNow)
               ELSE {throttle.request_at}
OrderTimes ==
    IF Rolling THEN RoomAt(Recent(throttle.order_history), OrderLimitNow)
               ELSE {throttle.order_at}

Barriers(r, requestTime, orderTime) ==
    {clock, throttle.blocked_until, requestTime} \cup
    IF r \in Creations THEN {throttle.orders_blocked_until, orderTime} ELSE {}

Awake(r) == At(r, "waiting") /\ request[r].until <= clock

(* The pruned history is written back whatever the verdict. *)
Pruned ==
    IF Rolling THEN [throttle EXCEPT !.request_history = Recent(@),
                                     !.order_history = Recent(@)]
               ELSE throttle

Counted(r, n) ==
    LET row == Pruned
        creation == r \in Creations
    IN  IF Rolling
        THEN [row EXCEPT !.request_history = @ \cup {n},
                         !.order_history = IF creation THEN @ \cup {n} ELSE @]
        ELSE [row EXCEPT !.request_at = clock + RequestGap,
                         !.order_at = IF creation THEN clock + OrderGap ELSE @]

Admission(r) ==
    [at |-> clock, creation |-> r \in Creations,
     request_limit |-> RequestLimitNow, order_limit |-> OrderLimitNow]

(* Fault: a request that has slept is not checked again. *)
AdmitAfterSleep(r) ==
    /\ Awake(r)
    /\ \/ request[r].until > 0
       \/ \E requestTime \in RequestTimes, orderTime \in OrderTimes :
            \A t \in Barriers(r, requestTime, orderTime) : t <= clock
    /\ admitted' = Append(admitted, Admission(r))
    /\ throttle' = Counted(r, Len(admitted) + 1)
    /\ Become(r, "sending", 0)
    /\ UNCHANGED <<clock, free, told>>

Admit(r) ==
    /\ Awake(r)
    /\ \E requestTime \in RequestTimes, orderTime \in OrderTimes :
        \A t \in Barriers(r, requestTime, orderTime) : t <= clock
    /\ admitted' = Append(admitted, Admission(r))
    /\ throttle' = Counted(r, Len(admitted) + 1)
    /\ Become(r, "sending", 0)
    /\ UNCHANGED <<clock, free, told>>

(* Fault: a refused request is charged, too. *)
SleepCharged(r) ==
    /\ Awake(r)
    /\ \E requestTime \in RequestTimes, orderTime \in OrderTimes :
        LET until == Max(Barriers(r, requestTime, orderTime)) IN
        /\ until > clock /\ until - clock <= Second
        /\ Become(r, "waiting", until)
    /\ throttle' = Counted(r, Len(admitted) + 1)
    /\ UNCHANGED <<clock, free, admitted, told>>

Sleep(r) ==
    /\ Awake(r)
    /\ \E requestTime \in RequestTimes, orderTime \in OrderTimes :
        LET until == Max(Barriers(r, requestTime, orderTime)) IN
        /\ until > clock /\ until - clock <= Second
        /\ Become(r, "waiting", until)
    /\ throttle' = Pruned
    /\ UNCHANGED <<clock, free, admitted, told>>

Defer(r) ==
    /\ Awake(r)
    /\ \E requestTime \in RequestTimes, orderTime \in OrderTimes :
        Max(Barriers(r, requestTime, orderTime)) - clock > Second
    /\ throttle' = Pruned
    /\ Release(r)
    /\ Become(r, "deferred", 0)
    /\ UNCHANGED <<clock, admitted, told>>

-----------------------------------------------------------------------------
(* observe: the limits an answer tells are merged into the row; an absent  *)
(* header changes nothing.  A limit of 0 is stored like any other, and     *)
(* Tightened takes it, like none, for the configured one.  Only the TRONow *)
(* client observes.                                                        *)
Absent == -1

Headers == Limits \cup {Absent}

Merged(old, new) == IF new = Absent THEN old ELSE new

Observe(r, requestLimit, orderLimit) ==
    /\ Rolling /\ At(r, "sending")
    /\ throttle' = [throttle EXCEPT !.request_limit = Merged(@, requestLimit),
                                    !.order_limit = Merged(@, orderLimit)]
    /\ Become(r, "answered", 0)
    /\ UNCHANGED <<clock, free, admitted, told>>

Answered(r) == At(r, "sending") \/ At(r, "answered")

(* Fault: the last pause wins, even when it is shorter. *)
PausedAnew(pause, scope) ==
    IF scope = "orders"
    THEN [throttle EXCEPT !.orders_blocked_until = clock + pause]
    ELSE [throttle EXCEPT !.blocked_until = clock + pause]

(* _defer: a pause is only ever extended.  Its scope is orders when the    *)
(* upstream says so in a proper RATE_LIMITED answer, everything otherwise. *)
Paused(pause, scope) ==
    IF scope = "orders"
    THEN [throttle EXCEPT !.orders_blocked_until = Max({@, clock + pause})]
    ELSE [throttle EXCEPT !.blocked_until = Max({@, clock + pause})]

BackOff(r, pause, scope) ==
    /\ Answered(r)
    /\ scope = "orders" => Rolling
    /\ throttle' = Paused(pause, scope)
    /\ told' = told \cup {[until |-> clock + pause, scope |-> scope, after |-> Len(admitted)]}
    /\ Release(r)
    /\ Become(r, "done", 0)
    /\ UNCHANGED <<clock, admitted>>

Finish(r) ==
    /\ Answered(r)
    /\ Release(r)
    /\ Become(r, "done", 0)
    /\ UNCHANGED <<clock, throttle, admitted, told>>

(* Fault: a task that never had a slot gives one back. *)
CancelQueued(r) ==
    /\ At(r, "queued") \/ At(r, "waiting") \/ Answered(r)
    /\ Release(r)
    /\ Become(r, "done", 0)
    /\ UNCHANGED <<clock, throttle, admitted, told>>

(* A cancelled task leaves the semaphore as it found it. *)
Cancel(r) ==
    /\ At(r, "queued") \/ At(r, "waiting") \/ Answered(r)
    /\ IF At(r, "queued") THEN UNCHANGED free ELSE Release(r)
    /\ Become(r, "done", 0)
    /\ UNCHANGED <<clock, throttle, admitted, told>>

MayRun(r) == (At(r, "queued") /\ free[ProcessOf[r]] > 0) \/ Awake(r)

Tick ==
    /\ clock < MaxClock
    /\ Prompt => \A r \in Requests : ~MayRun(r)
    /\ clock' = clock + 1
    /\ UNCHANGED <<throttle, free, request, admitted, told>>

Next ==
    \/ \E r \in Requests :
        \/ Arrive(r) \/ Acquire(r) \/ SlotTimeout(r)
        \/ Admit(r) \/ Sleep(r) \/ Defer(r)
        \/ Finish(r) \/ Cancel(r)
        \/ \E requestLimit, orderLimit \in Headers : Observe(r, requestLimit, orderLimit)
        \/ \E pause \in Pauses, scope \in Scopes : BackOff(r, pause, scope)
    \/ Tick

Spec == Init /\ [][Next]_vars

(* Tasks run, the wait for a slot times out, the upstream answers (its     *)
(* client has a timeout), time passes.                                     *)
Fairness ==
    /\ WF_vars(Tick)
    /\ \A r \in Requests :
        /\ WF_vars(Acquire(r) \/ SlotTimeout(r))
        /\ WF_vars(Admit(r) \/ Sleep(r) \/ Defer(r))
        /\ WF_vars(Finish(r))

FairSpec == Spec /\ Fairness
-----------------------------------------------------------------------------
TypeOK ==
    /\ clock \in Nat
    /\ throttle \in Throttle
    /\ free \in [Processes -> 0..Slots]
    /\ request \in [Requests -> [pc : {"new", "queued", "waiting", "sending", "answered",
                                       "deferred", "done"}, until : Nat]]
    /\ admitted \in Seq([at : 0..clock, creation : BOOLEAN,
                         request_limit : Nat \ {0}, order_limit : Nat \ {0}])
    /\ told \subseteq [until : Nat, scope : Scopes, after : 0..Len(admitted)]

(* The requests admitted in the second that ends with admission n.         *)
SecondBefore(n) == {i \in 1..n : admitted[i].at > admitted[n].at - Second}
OrdersBefore(n) == {i \in SecondBefore(n) : admitted[i].creation}

(* However processes interleave, wait and retry, no second holds more      *)
(* requests than the merchant may send, nor more orders, by the limits     *)
(* known when its last request is let through; limits may shrink while the *)
(* window is full (request_history[-request_limit]).                       *)
WindowHeld ==
    Rolling =>
        \A n \in 1..Len(admitted) :
            /\ Cardinality(SecondBefore(n)) <= admitted[n].request_limit
            /\ admitted[n].creation =>
                Cardinality(OrdersBefore(n)) <= admitted[n].order_limit

(* The evenly spaced gate lets no two requests, and no two orders, follow  *)
(* each other faster than the configured rate (request_at, order_at).      *)
SpacingHeld ==
    ~Rolling =>
        \A m, n \in 1..Len(admitted) : m < n =>
            /\ admitted[n].at >= admitted[m].at + RequestGap
            /\ admitted[m].creation /\ admitted[n].creation =>
                admitted[n].at >= admitted[m].at + OrderGap

(* Once a pause is stored nothing it concerns is let through before it is  *)
(* over, whatever later answers say and whoever slept meanwhile (_defer    *)
(* takes the maximum, run asks again after each sleep).  A request that    *)
(* was let through before may still go on the wire after it is stored.     *)
PausesHeld ==
    \A pause \in told : \A n \in (pause.after + 1)..Len(admitted) :
        pause.scope = "all" \/ admitted[n].creation => admitted[n].at >= pause.until

(* A slot is held by exactly the requests between acquire and the finally  *)
(* clause of run, on every way out: none is leaked, none given back twice. *)
SlotsBalanced ==
    \A p \in Processes :
        free[p] + Cardinality({r \in Requests : ProcessOf[r] = p /\
                                (At(r, "waiting") \/ Answered(r))}) = Slots

(* The gate keeps moving.  The gate has no order of arrival, so one sleeper*)
(* may be overtaken again and again (run asks anew after each sleep); what *)
(* is promised is that the sleepers cannot hold up each other: while one   *)
(* waits it is let through or handed back, or another one is let through.  *)
(* Nobody waits for a slot for ever, whatever those who hold them do.      *)
(* Arrivals end at LastArrival, later states show only how they end.       *)
GateMovesOn ==
    \A r \in Requests :
        /\ At(r, "queued") ~> ~At(r, "queued")
        /\ \A n \in 0..Cardinality(Requests) :
            At(r, "waiting") /\ Len(admitted) = n /\ clock <= LastArrival
                ~> ~At(r, "waiting") \/ Len(admitted) > n
=============================================================================
