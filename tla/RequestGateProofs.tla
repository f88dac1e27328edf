-------------------------- MODULE RequestGateProofs --------------------------
(***************************************************************************)
(* Proofs about RequestGate: for any number of processes and requests, any *)
(* limits, gaps and pauses, the gate keeps the windows, the distances and  *)
(* the pauses, and gives back every slot once.                             *)
(***************************************************************************)
EXTENDS RequestGate, TLAPS, FiniteSetTheorems, SequenceTheorems

Pcs == {"new", "queued", "waiting", "sending", "answered", "deferred", "done"}

Entry == [at : Nat, creation : BOOLEAN,
          request_limit : Nat \ {0}, order_limit : Nat \ {0}]
Pause == [until : Nat, scope : Scopes, after : Nat]

(* The row, without its histories.                                         *)
Times(t) ==
    /\ t.request_at \in Nat /\ t.order_at \in Nat
    /\ t.blocked_until \in Nat /\ t.orders_blocked_until \in Nat
    /\ t.request_limit \in Nat /\ t.order_limit \in Nat

Numbers == 1..Len(admitted)

(* What is stored is enough to judge the next request: every pause, every  *)
(* distance and every admission of the last second.                        *)
PausesStored ==
    \A pause \in told :
        /\ pause.scope = "all" => throttle.blocked_until >= pause.until
        /\ pause.scope = "orders" => throttle.orders_blocked_until >= pause.until

SpacingStored ==
    ~Rolling => \A m \in Numbers :
        /\ throttle.request_at >= admitted[m].at + RequestGap
        /\ admitted[m].creation => throttle.order_at >= admitted[m].at + OrderGap

HistoryStored ==
    Rolling => \A m \in Numbers : admitted[m].at > clock - Second =>
        /\ m \in throttle.request_history
        /\ admitted[m].creation => m \in throttle.order_history

Stored == PausesStored /\ SpacingStored /\ HistoryStored
Kept == PausesHeld /\ SpacingHeld /\ WindowHeld

GateInv == TypeOK /\ SlotsBalanced /\ Stored /\ Kept

-----------------------------------------------------------------------------
LEMMA Facts ==
    ASSUME TypeOK
    PROVE  /\ clock \in Nat
           /\ Times(throttle)
           /\ throttle.request_history \subseteq Numbers
           /\ throttle.order_history \subseteq Numbers
           /\ throttle \in Throttle
           /\ request \in [Requests -> [pc : Pcs, until : Nat]]
           /\ admitted \in Seq(Entry) /\ Len(admitted) \in Nat
           /\ \A m \in Numbers : admitted[m] \in Entry /\ admitted[m].at <= clock
           /\ \A pause \in told : pause \in Pause /\ pause.after <= Len(admitted)
<1> SUFFICES ASSUME TypeOK
             PROVE  /\ admitted \in Seq(Entry) /\ Len(admitted) \in Nat
                    /\ \A m \in Numbers : admitted[m] \in Entry /\ admitted[m].at <= clock
                    /\ \A pause \in told : pause \in Pause /\ pause.after <= Len(admitted)
  BY DEF TypeOK, Throttle, Times, Pcs, Numbers
<1> DEFINE E == [at : 0..clock, creation : BOOLEAN,
                 request_limit : Nat \ {0}, order_limit : Nat \ {0}]
<1>1. clock \in Nat /\ admitted \in Seq(E)
  BY DEF TypeOK
<1>2. \A e \in E : e \in Entry /\ e.at <= clock
  BY <1>1 DEF Entry
<1> HIDE DEF E
<1>3. Len(admitted) \in Nat /\ \A m \in Numbers : admitted[m] \in E
  BY <1>1, ElementOfSeq, LenProperties DEF Numbers
<1>4. admitted \in Seq(Entry)
  BY <1>1, <1>2, <1>3, SeqDef DEF Numbers
<1>5. \A pause \in told : pause \in Pause /\ pause.after <= Len(admitted)
  BY <1>3 DEF TypeOK, Pause
<1> QED
  BY <1>2, <1>3, <1>4, <1>5

LEMMA GapFacts ==
    RequestGap \in Nat /\ OrderGap \in Nat /\ Second \in Nat \ {0} /\ Slots \in Nat \ {0}
BY RequestGateAssumption

LEMMA LimitFacts ==
    ASSUME TypeOK
    PROVE  RequestLimitNow \in Nat \ {0} /\ OrderLimitNow \in Nat \ {0}
BY Facts, RequestGateAssumption DEF RequestLimitNow, OrderLimitNow, Tightened, Times

(* The later of two times.                                                 *)
LEMMA MaxOfTwo ==
    ASSUME NEW a \in Nat, NEW b \in Nat
    PROVE  Max({a, b}) \in Nat /\ Max({a, b}) >= a /\ Max({a, b}) >= b
<1>1. \E x \in {a, b} : \A y \in {a, b} : x >= y
  OBVIOUS
<1> QED
  BY <1>1 DEF Max

LEMMA TimesAreTimes ==
    ASSUME TypeOK, NEW requestTime \in RequestTimes, NEW orderTime \in OrderTimes
    PROVE  requestTime \in Nat /\ orderTime \in Nat
<1>1. \A i \in Numbers : admitted[i].at \in Nat
  BY Facts DEF Entry
<1>2. ASSUME NEW history \in SUBSET Numbers, NEW limit,
             NEW t \in RoomAt(Recent(history), limit)
      PROVE  t \in Nat
  <2>1. clock \in Nat /\ Second \in Nat
    BY Facts, RequestGateAssumption
  <2>2. t = clock \/ \E i \in Numbers : t = admitted[i].at + Second
    BY Zenon DEF RoomAt, Recent
  <2> QED
    BY <1>1, <2>1, <2>2
<1> QED
  BY <1>2, Facts DEF RequestTimes, OrderTimes, Times

LEMMA MaxOfFive ==
    ASSUME NEW a \in Nat, NEW b \in Nat, NEW c \in Nat, NEW d \in Nat, NEW e \in Nat
    PROVE  Max({a, b, c, d, e}) \in Nat /\ Max({a, b, c}) \in Nat
<1>1. \E x \in {a, b, c, d, e} : \A y \in {a, b, c, d, e} : x >= y
  OBVIOUS
<1>2. \E x \in {a, b, c} : \A y \in {a, b, c} : x >= y
  OBVIOUS
<1>3. Max({a, b, c, d, e}) \in {a, b, c, d, e}
  BY <1>1 DEF Max
<1>4. Max({a, b, c}) \in {a, b, c}
  BY <1>2 DEF Max
<1> QED
  BY <1>3, <1>4

LEMMA BarrierFacts ==
    ASSUME TypeOK, NEW r \in Requests,
           NEW requestTime \in RequestTimes, NEW orderTime \in OrderTimes
    PROVE  Max(Barriers(r, requestTime, orderTime)) \in Nat
<1> DEFINE all == throttle.blocked_until
           orders == throttle.orders_blocked_until
<1>1. /\ requestTime \in Nat /\ orderTime \in Nat /\ clock \in Nat
      /\ all \in Nat /\ orders \in Nat
  BY TimesAreTimes, Facts DEF Times
<1>2. CASE r \in Creations
  <2>1. Barriers(r, requestTime, orderTime) = {clock, all, requestTime, orders, orderTime}
    BY <1>2 DEF Barriers
  <2> QED
    BY <1>1, <2>1, MaxOfFive
<1>3. CASE r \notin Creations
  <2>1. Barriers(r, requestTime, orderTime) = {clock, all, requestTime}
    BY <1>3 DEF Barriers
  <2> QED
    BY <1>1, <2>1, MaxOfFive
<1> QED
  BY <1>2, <1>3

(* The pruned row lacks only what is older than a second.                  *)
LEMMA PrunedFacts ==
    ASSUME TypeOK
    PROVE  /\ Pruned \in Throttle
           /\ Pruned.request_at = throttle.request_at
           /\ Pruned.order_at = throttle.order_at
           /\ Pruned.blocked_until = throttle.blocked_until
           /\ Pruned.orders_blocked_until = throttle.orders_blocked_until
           /\ Recent(throttle.request_history) \subseteq Pruned.request_history
           /\ Recent(throttle.order_history) \subseteq Pruned.order_history
<1>2. /\ Recent(throttle.request_history) \subseteq throttle.request_history
      /\ Recent(throttle.order_history) \subseteq throttle.order_history
      /\ Recent(throttle.request_history) \in SUBSET Numbers
      /\ Recent(throttle.order_history) \in SUBSET Numbers
  BY Facts DEF Recent
<1>3. CASE Rolling
  <2>1. Pruned = [throttle EXCEPT !.request_history = Recent(throttle.request_history),
                                  !.order_history = Recent(throttle.order_history)]
    BY <1>3, Facts DEF Pruned, Throttle
  <2>2. PICK a \in SUBSET Numbers, b \in SUBSET Numbers :
            a = Recent(throttle.request_history) /\ b = Recent(throttle.order_history)
    BY <1>2
  <2>3. Pruned = [throttle EXCEPT !.request_history = a, !.order_history = b]
    BY <2>1, <2>2
  <2>4. throttle \in Throttle
    BY Facts
  <2>5. /\ Pruned \in Throttle
        /\ Pruned.request_at = throttle.request_at
        /\ Pruned.order_at = throttle.order_at
        /\ Pruned.blocked_until = throttle.blocked_until
        /\ Pruned.orders_blocked_until = throttle.orders_blocked_until
        /\ Pruned.request_history = a /\ Pruned.order_history = b
    BY <2>3, <2>4 DEF Throttle, Numbers
  <2> QED
    BY <2>2, <2>5
<1>4. CASE ~Rolling
  BY <1>2, <1>4, Facts DEF Pruned
<1> QED
  BY <1>3, <1>4

-----------------------------------------------------------------------------
(* Slots.                                                                  *)
Holder(r) == At(r, "waiting") \/ Answered(r)
Holders(p) == {r \in Requests : ProcessOf[r] = p /\ Holder(r)}

LEMMA HoldersFinite ==
    ASSUME NEW p
    PROVE  /\ IsFiniteSet(Holders(p)) /\ Cardinality(Holders(p)) \in Nat
           /\ IsFiniteSet(Holders(p))' /\ Cardinality(Holders(p))' \in Nat
<1>1. Holders(p) \in SUBSET Requests /\ Holders(p)' \in SUBSET Requests
  BY DEF Holders
<1> QED
  BY <1>1, RequestGateAssumption, FS_Subset, FS_CardinalityType

LEMMA Balanced == SlotsBalanced <=> \A p \in Processes : free[p] + Cardinality(Holders(p)) = Slots
BY DEF SlotsBalanced, Holders, Holder

FreeOK == free \in [Processes -> Nat] /\ SlotsBalanced

FreeTyped == free \in [Processes -> 0..Slots]

LEMMA FreeBounded == FreeOK => FreeTyped
<1> SUFFICES ASSUME FreeOK, NEW p \in Processes PROVE free[p] \in 0..Slots
  BY DEF FreeOK, FreeTyped
<1> QED
  BY HoldersFinite, Balanced, RequestGateAssumption DEF FreeOK

LEMMA SlotsSame ==
    ASSUME FreeOK, UNCHANGED free, \A r \in Requests : Holder(r)' <=> Holder(r)
    PROVE  FreeOK'
<1>1. \A p \in Processes : Holders(p)' = Holders(p)
  BY DEF Holders
<1> QED
  BY <1>1, Balanced DEF FreeOK, SlotsBalanced, Holders, Holder

LEMMA SlotTaken ==
    ASSUME FreeOK, NEW r \in Requests, Acquired(r), free[ProcessOf[r]] > 0,
           ~Holder(r), Holder(r)',
           \A q \in Requests : q # r => (Holder(q)' <=> Holder(q))
    PROVE  FreeOK'
<1>1. ProcessOf[r] \in Processes
  BY RequestGateAssumption
<1>2. free' \in [Processes -> Nat]
  BY <1>1 DEF FreeOK, Acquired
<1>3. ASSUME NEW p \in Processes PROVE free'[p] + Cardinality(Holders(p)') = Slots
  <2>1. free[p] + Cardinality(Holders(p)) = Slots /\ free[p] \in Nat
    BY Balanced DEF FreeOK
  <2>2. CASE p = ProcessOf[r]
    <3>1. Holders(p)' = Holders(p) \cup {r} /\ r \notin Holders(p)
      BY <2>2 DEF Holders
    <3>2. Cardinality(Holders(p)') = Cardinality(Holders(p)) + 1
      BY <3>1, HoldersFinite, FS_AddElement
    <3>3. free'[p] = free[p] - 1
      BY <1>1, <2>2 DEF FreeOK, Acquired
    <3> QED
      BY <2>1, <3>2, <3>3, HoldersFinite
  <2>3. CASE p # ProcessOf[r]
    <3>1. Holders(p)' = Holders(p) /\ free'[p] = free[p]
      BY <2>3 DEF Holders, FreeOK, Acquired
    <3> QED
      BY <2>1, <3>1
  <2> QED
    BY <2>2, <2>3
<1> QED
  BY <1>2, <1>3 DEF FreeOK, SlotsBalanced, Holders, Holder

LEMMA SlotReturned ==
    ASSUME FreeOK, NEW r \in Requests, Release(r), Holder(r), ~Holder(r)',
           \A q \in Requests : q # r => (Holder(q)' <=> Holder(q))
    PROVE  FreeOK'
<1>1. ProcessOf[r] \in Processes
  BY RequestGateAssumption
<1>2. free' \in [Processes -> Nat]
  BY <1>1 DEF FreeOK, Release
<1>3. ASSUME NEW p \in Processes PROVE free'[p] + Cardinality(Holders(p)') = Slots
  <2>1. free[p] + Cardinality(Holders(p)) = Slots /\ free[p] \in Nat
    BY Balanced DEF FreeOK
  <2>2. CASE p = ProcessOf[r]
    <3>1. Holders(p)' = Holders(p) \ {r} /\ r \in Holders(p)
      BY <2>2 DEF Holders
    <3>2. Cardinality(Holders(p)') = Cardinality(Holders(p)) - 1
      BY <3>1, HoldersFinite, FS_RemoveElement
    <3>3. free'[p] = free[p] + 1
      BY <1>1, <2>2 DEF FreeOK, Release
    <3> QED
      BY <2>1, <3>2, <3>3, HoldersFinite
  <2>3. CASE p # ProcessOf[r]
    <3>1. Holders(p)' = Holders(p) /\ free'[p] = free[p]
      BY <2>3 DEF Holders, FreeOK, Release
    <3> QED
      BY <2>1, <3>1
  <2> QED
    BY <2>2, <2>3
<1> QED
  BY <1>2, <1>3 DEF FreeOK, SlotsBalanced, Holders, Holder

(* A request that moves, and the others that do not.                       *)
LEMMA Moved ==
    ASSUME TypeOK, NEW r \in Requests, NEW pc \in Pcs, NEW until \in Nat, Become(r, pc, until)
    PROVE  /\ request' \in [Requests -> [pc : Pcs, until : Nat]]
           /\ request'[r].pc = pc
           /\ Holder(r)' <=> pc \in {"waiting", "sending", "answered"}
           /\ \A q \in Requests : q # r => (Holder(q)' <=> Holder(q))
BY Facts DEF Become, Holder, At, Answered

RequestOK == request \in [Requests -> [pc : Pcs, until : Nat]]

LEMMA HolderFacts ==
    ASSUME NEW r \in Requests
    PROVE  Holder(r) <=> request[r].pc \in {"waiting", "sending", "answered"}
BY DEF Holder, At, Answered

(* What every step of a request does to the slots.                         *)
LEMMA Slotted ==
    ASSUME TypeOK, FreeOK, NEW r \in Requests,
           \/ Arrive(r) \/ Acquire(r) \/ SlotTimeout(r)
           \/ Admit(r) \/ Sleep(r) \/ Defer(r)
           \/ Finish(r) \/ Cancel(r)
           \/ \E requestLimit, orderLimit \in Headers : Observe(r, requestLimit, orderLimit)
           \/ \E pause \in Pauses, scope \in Scopes : BackOff(r, pause, scope)
    PROVE  RequestOK' /\ FreeOK'
<1>1. CASE Arrive(r) \/ SlotTimeout(r)
  <2>1. PICK pc \in {"queued", "deferred"} : Become(r, pc, 0)
    BY <1>1 DEF Arrive, SlotTimeout
  <2>2. pc \in Pcs /\ ~Holder(r) /\ UNCHANGED free
    BY <1>1 DEF Pcs, Holder, At, Answered, Arrive, SlotTimeout
  <2> QED
    BY <2>1, <2>2, Moved, SlotsSame DEF RequestOK
<1>2. CASE Acquire(r)
  <2>1. Become(r, "waiting", 0) /\ Acquired(r) /\ free[ProcessOf[r]] > 0 /\ ~Holder(r)
    BY <1>2 DEF Acquire, Holder, At, Answered
  <2>2. "waiting" \in Pcs
    BY DEF Pcs
  <2> QED
    BY <2>1, <2>2, Moved, SlotTaken DEF RequestOK
<1>3. CASE Admit(r)
  <2>1. Become(r, "sending", 0) /\ Holder(r) /\ UNCHANGED free
    BY <1>3 DEF Admit, Awake, Holder
  <2>2. "sending" \in Pcs
    BY DEF Pcs
  <2> QED
    BY <2>1, <2>2, Moved, SlotsSame DEF RequestOK
<1>4. CASE Sleep(r)
  <2>1. PICK requestTime \in RequestTimes, orderTime \in OrderTimes :
            Become(r, "waiting", Max(Barriers(r, requestTime, orderTime)))
    BY <1>4 DEF Sleep
  <2>2. Max(Barriers(r, requestTime, orderTime)) \in Nat
    BY BarrierFacts
  <2>3. "waiting" \in Pcs /\ Holder(r) /\ UNCHANGED free
    BY <1>4 DEF Pcs, Sleep, Awake, Holder
  <2> QED
    BY <2>1, <2>2, <2>3, Moved, SlotsSame DEF RequestOK
<1>5. CASE \E requestLimit, orderLimit \in Headers : Observe(r, requestLimit, orderLimit)
  <2>1. Become(r, "answered", 0) /\ Holder(r) /\ UNCHANGED free
    BY <1>5 DEF Observe, Holder, Answered
  <2>2. "answered" \in Pcs
    BY DEF Pcs
  <2> QED
    BY <2>1, <2>2, Moved, SlotsSame DEF RequestOK
<1>6. CASE \/ Defer(r) \/ Finish(r)
           \/ (Cancel(r) /\ ~At(r, "queued"))
           \/ \E pause \in Pauses, scope \in Scopes : BackOff(r, pause, scope)
  <2>1. Holder(r) /\ Release(r)
    BY <1>6 DEF Defer, Finish, Cancel, BackOff, Awake, Holder
  <2>2. PICK pc \in {"deferred", "done"} : Become(r, pc, 0)
    BY <1>6 DEF Defer, Finish, Cancel, BackOff
  <2>3. pc \in Pcs /\ pc \notin {"waiting", "sending", "answered"}
    BY DEF Pcs
  <2> QED
    BY <2>1, <2>2, <2>3, Moved, SlotReturned DEF RequestOK
<1>7. CASE Cancel(r) /\ At(r, "queued")
  <2>1. Become(r, "done", 0) /\ ~Holder(r) /\ UNCHANGED free
    BY <1>7 DEF Cancel, Holder, At, Answered
  <2>2. "done" \in Pcs
    BY DEF Pcs
  <2> QED
    BY <2>1, <2>2, Moved, SlotsSame DEF RequestOK
<1> QED
  BY <1>1, <1>2, <1>3, <1>4, <1>5, <1>6, <1>7

-----------------------------------------------------------------------------
(* A step that admits nobody: the row may lose what is older than a second *)
(* and may only move its times forward.                                    *)
LEMMA QuietStep ==
    ASSUME GateInv, UNCHANGED <<clock, admitted>>,
           RequestOK', FreeOK', throttle' \in Throttle,
           throttle'.request_at = throttle.request_at,
           throttle'.order_at = throttle.order_at,
           throttle'.blocked_until >= throttle.blocked_until,
           throttle'.orders_blocked_until >= throttle.orders_blocked_until,
           Recent(throttle.request_history) \subseteq throttle'.request_history,
           Recent(throttle.order_history) \subseteq throttle'.order_history,
           \A pause \in told' \ told :
               /\ pause \in [until : Nat, scope : Scopes, after : {Len(admitted)}]
               /\ pause.scope = "all" => throttle'.blocked_until >= pause.until
               /\ pause.scope = "orders" => throttle'.orders_blocked_until >= pause.until
    PROVE  GateInv'
<1> USE DEF GateInv
<1>1. TypeOK'
  <2>1. told' \subseteq [until : Nat, scope : Scopes, after : 0..Len(admitted)]
    <3>1. Len(admitted) \in 0..Len(admitted)
      BY Facts
    <3> QED
      BY <3>1 DEF TypeOK
  <2>2. throttle' \in Throttle'
    BY DEF Throttle
  <2>3. FreeTyped'
    BY FreeBounded, PTL
  <2>4. admitted' \in Seq([at : 0..clock', creation : BOOLEAN,
                           request_limit : Nat \ {0}, order_limit : Nat \ {0}])
    BY DEF TypeOK
  <2>5. clock' \in Nat /\ told' \subseteq [until : Nat, scope : Scopes, after : 0..Len(admitted')]
    BY <2>1 DEF TypeOK
  <2> QED
    BY <2>2, <2>3, <2>4, <2>5 DEF TypeOK, FreeTyped, RequestOK, Pcs
<1>2. Times(throttle) /\ Times(throttle')
  BY Facts DEF Times, Throttle
<1>3. PausesStored'
  <2> SUFFICES ASSUME NEW pause \in told'
               PROVE  /\ pause.scope = "all" => throttle'.blocked_until >= pause.until
                      /\ pause.scope = "orders" => throttle'.orders_blocked_until >= pause.until
    BY DEF PausesStored
  <2>1. CASE pause \in told
    <3>1. /\ pause.scope = "all" => throttle.blocked_until >= pause.until
          /\ pause.scope = "orders" => throttle.orders_blocked_until >= pause.until
      BY <2>1 DEF GateInv, Stored, PausesStored
    <3>2. /\ pause.until \in Nat
          /\ throttle.blocked_until \in Nat /\ throttle'.blocked_until \in Nat
          /\ throttle.orders_blocked_until \in Nat /\ throttle'.orders_blocked_until \in Nat
      BY <1>2, <2>1, Facts DEF GateInv, Times, Pause
    <3>3. pause.scope = "all" => throttle'.blocked_until >= pause.until
      BY <3>1, <3>2
    <3>4. pause.scope = "orders" => throttle'.orders_blocked_until >= pause.until
      BY <3>1, <3>2
    <3> QED
      BY <3>3, <3>4
  <2> QED
    BY <2>1
<1>4. SpacingStored'
  BY DEF Stored, SpacingStored, Numbers
<1>5. HistoryStored'
  BY DEF Stored, HistoryStored, Numbers, Recent
<1>6. PausesHeld'
  <2> SUFFICES ASSUME NEW pause \in told', NEW n \in (pause.after + 1)..Len(admitted),
                      pause.scope = "all" \/ admitted[n].creation
               PROVE  admitted[n].at >= pause.until
    BY DEF PausesHeld
  <2>1. CASE pause \in told
    BY <2>1 DEF Kept, PausesHeld
  <2>2. CASE pause \notin told
    BY <2>2, Facts
  <2> QED
    BY <2>1, <2>2
<1>7. SpacingHeld' /\ WindowHeld'
  BY DEF Kept, SpacingHeld, WindowHeld, OrdersBefore, SecondBefore
<1> QED
  BY <1>1, <1>3, <1>4, <1>5, <1>6, <1>7 DEF Stored, Kept, FreeOK

LEMMA FreeHolds == GateInv => FreeOK
BY DEF GateInv, TypeOK, FreeOK

LEMMA QueueSafe ==
    ASSUME GateInv, NEW r \in Requests,
           Arrive(r) \/ Acquire(r) \/ SlotTimeout(r) \/ Finish(r) \/ Cancel(r)
    PROVE  GateInv'
<1>1. UNCHANGED <<clock, throttle, admitted, told>>
  BY DEF Arrive, Acquire, SlotTimeout, Finish, Cancel
<1>2. RequestOK' /\ FreeOK'
  BY FreeHolds, Slotted DEF GateInv
<1>3. TypeOK /\ Times(throttle) /\ throttle \in Throttle
  BY Facts DEF GateInv
<1>4. /\ Recent(throttle.request_history) \subseteq throttle.request_history
      /\ Recent(throttle.order_history) \subseteq throttle.order_history
  BY DEF Recent
<1> QED
  BY <1>1, <1>2, <1>3, <1>4, QuietStep DEF Times

LEMMA WaitSafe ==
    ASSUME GateInv, NEW r \in Requests, Sleep(r) \/ Defer(r)
    PROVE  GateInv'
<1>1. UNCHANGED <<clock, admitted, told>> /\ throttle' = Pruned
  BY DEF Sleep, Defer
<1>2. RequestOK' /\ FreeOK'
  BY FreeHolds, Slotted DEF GateInv
<1>3. TypeOK /\ Times(throttle)
  BY Facts DEF GateInv
<1> HIDE DEF Pruned
<1> QED
  BY <1>1, <1>2, <1>3, PrunedFacts, QuietStep DEF Times

LEMMA ObserveSafe ==
    ASSUME GateInv, NEW r \in Requests, NEW requestLimit \in Headers, NEW orderLimit \in Headers,
           Observe(r, requestLimit, orderLimit)
    PROVE  GateInv'
<1>1. UNCHANGED <<clock, admitted, told>>
  BY DEF Observe
<1>2. RequestOK' /\ FreeOK'
  BY FreeHolds, Slotted DEF GateInv
<1>3. TypeOK /\ Times(throttle) /\ throttle \in Throttle
  BY Facts DEF GateInv
<1>4. PICK a \in Nat, b \in Nat :
          throttle' = [throttle EXCEPT !.request_limit = a, !.order_limit = b]
  BY <1>3, RequestGateAssumption DEF Observe, Merged, Headers, Throttle
<1>5. /\ throttle' \in Throttle
      /\ throttle'.request_at = throttle.request_at
      /\ throttle'.order_at = throttle.order_at
      /\ throttle'.blocked_until = throttle.blocked_until
      /\ throttle'.orders_blocked_until = throttle.orders_blocked_until
      /\ throttle'.request_history = throttle.request_history
      /\ throttle'.order_history = throttle.order_history
  BY <1>3, <1>4 DEF Throttle
<1>6. /\ Recent(throttle.request_history) \subseteq throttle.request_history
      /\ Recent(throttle.order_history) \subseteq throttle.order_history
  BY DEF Recent
<1> QED
  BY <1>1, <1>2, <1>3, <1>5, <1>6, QuietStep DEF Times

(* A pause is stored, and a longer one is never shortened.                 *)
LEMMA PausedFacts ==
    ASSUME TypeOK, NEW pause \in Nat, NEW scope \in Scopes
    PROVE  /\ Paused(pause, scope) \in Throttle
           /\ Paused(pause, scope).request_at = throttle.request_at
           /\ Paused(pause, scope).order_at = throttle.order_at
           /\ Paused(pause, scope).blocked_until >= throttle.blocked_until
           /\ Paused(pause, scope).orders_blocked_until >= throttle.orders_blocked_until
           /\ Paused(pause, scope).request_history = throttle.request_history
           /\ Paused(pause, scope).order_history = throttle.order_history
           /\ scope = "all" => Paused(pause, scope).blocked_until >= clock + pause
           /\ scope = "orders" => Paused(pause, scope).orders_blocked_until >= clock + pause
<1>1. throttle \in Throttle /\ Times(throttle) /\ clock + pause \in Nat
  BY Facts
<1>2. CASE scope = "orders"
  <2>1. PICK m \in Nat : m = Max({throttle.orders_blocked_until, clock + pause})
    BY <1>1, MaxOfTwo DEF Times
  <2>2. m >= throttle.orders_blocked_until /\ m >= clock + pause
    BY <1>1, <2>1, MaxOfTwo DEF Times
  <2>3. Paused(pause, scope) = [throttle EXCEPT !.orders_blocked_until = m]
    BY <1>1, <1>2, <2>1 DEF Paused, Throttle
  <2> HIDE DEF Paused
  <2>4. throttle \in Throttle /\ Times(throttle)
    BY Facts
  <2>5. /\ Paused(pause, scope) \in Throttle
        /\ Paused(pause, scope).request_at = throttle.request_at
        /\ Paused(pause, scope).order_at = throttle.order_at
        /\ Paused(pause, scope).orders_blocked_until = m
        /\ Paused(pause, scope).blocked_until = throttle.blocked_until
        /\ Paused(pause, scope).request_history = throttle.request_history
        /\ Paused(pause, scope).order_history = throttle.order_history
    BY <2>3, <2>4 DEF Throttle
  <2> QED
    BY <1>1, <1>2, <2>2, <2>4, <2>5 DEF Times
<1>3. CASE scope = "all"
  <2>1. PICK m \in Nat : m = Max({throttle.blocked_until, clock + pause})
    BY <1>1, MaxOfTwo DEF Times
  <2>2. m >= throttle.blocked_until /\ m >= clock + pause
    BY <1>1, <2>1, MaxOfTwo DEF Times
  <2>3. Paused(pause, scope) = [throttle EXCEPT !.blocked_until = m]
    BY <1>1, <1>3, <2>1 DEF Paused, Throttle
  <2> HIDE DEF Paused
  <2>4. throttle \in Throttle /\ Times(throttle)
    BY Facts
  <2>5. /\ Paused(pause, scope) \in Throttle
        /\ Paused(pause, scope).request_at = throttle.request_at
        /\ Paused(pause, scope).order_at = throttle.order_at
        /\ Paused(pause, scope).blocked_until = m
        /\ Paused(pause, scope).orders_blocked_until = throttle.orders_blocked_until
        /\ Paused(pause, scope).request_history = throttle.request_history
        /\ Paused(pause, scope).order_history = throttle.order_history
    BY <2>3, <2>4 DEF Throttle
  <2> QED
    BY <1>1, <1>3, <2>2, <2>4, <2>5 DEF Times
<1> QED
  BY <1>2, <1>3 DEF Scopes

LEMMA BackOffSafe ==
    ASSUME GateInv, NEW r \in Requests, NEW pause \in Pauses, NEW scope \in Scopes,
           BackOff(r, pause, scope)
    PROVE  GateInv'
<1>1. /\ UNCHANGED <<clock, admitted>> /\ throttle' = Paused(pause, scope)
      /\ told' = told \cup {[until |-> clock + pause, scope |-> scope, after |-> Len(admitted)]}
  BY DEF BackOff
<1>2. RequestOK' /\ FreeOK'
  BY FreeHolds, Slotted DEF GateInv
<1>3. TypeOK /\ pause \in Nat /\ clock \in Nat
  BY Facts, RequestGateAssumption DEF GateInv
<1>4. \A new \in told' \ told :
          /\ new \in [until : Nat, scope : Scopes, after : {Len(admitted)}]
          /\ new.until = clock + pause /\ new.scope = scope
  BY <1>1, <1>3
<1>5. /\ Recent(throttle.request_history) \subseteq throttle.request_history
      /\ Recent(throttle.order_history) \subseteq throttle.order_history
  BY DEF Recent
<1> HIDE DEF Paused
<1> QED
  BY <1>1, <1>2, <1>3, <1>4, <1>5, PausedFacts, QuietStep

-----------------------------------------------------------------------------
(* What lets a request through.                                            *)
LEMMA Unhindered ==
    ASSUME TypeOK, NEW r \in Requests, Admit(r)
    PROVE  /\ throttle.blocked_until <= clock
           /\ \E t \in RequestTimes : t <= clock
           /\ r \in Creations =>
                /\ throttle.orders_blocked_until <= clock
                /\ \E t \in OrderTimes : t <= clock
BY DEF Admit, Barriers

(* A full window has room only when a second has passed.                   *)
LEMMA WindowHasRoom ==
    ASSUME TypeOK, NEW history \in SUBSET Numbers, NEW limit \in Nat,
           NEW t \in RoomAt(Recent(history), limit), t <= clock
    PROVE  Cardinality(Recent(history)) < limit
<1>1. IsFiniteSet(Recent(history)) /\ Cardinality(Recent(history)) \in Nat
  <2>1. Recent(history) \in SUBSET Numbers
    BY DEF Recent
  <2>2. IsFiniteSet(1..Len(admitted))
    BY Facts, FS_Interval
  <2> QED
    BY <2>1, <2>2, FS_Subset, FS_CardinalityType DEF Numbers
<1>2. \A i \in Recent(history) : admitted[i].at + Second > clock
  BY Facts, RequestGateAssumption DEF Recent, Entry
<1>3. CASE ~(Cardinality(Recent(history)) < limit)
  <2>1. PICK i \in Recent(history) : t = admitted[i].at + Second
    BY <1>3 DEF RoomAt
  <2>2. admitted[i].at + Second > clock /\ admitted[i].at + Second <= clock
    BY <1>2, <2>1
  <2>3. i \in Numbers /\ admitted[i].at \in Nat
    BY <2>1, Facts DEF Recent, Entry
  <2>4. Second \in Nat /\ clock \in Nat
    BY Facts, GapFacts
  <2> QED
    BY <2>2, <2>3, <2>4
<1> QED
  BY <1>3

(* One more fits below the limit.                                          *)
LEMMA OneMore ==
    ASSUME NEW S, IsFiniteSet(S), NEW limit \in Nat, Cardinality(S) < limit,
           NEW n, NEW T \in SUBSET (S \cup {n})
    PROVE  Cardinality(T) <= limit
<1>1. /\ IsFiniteSet(S \cup {n}) /\ Cardinality(S) \in Nat
      /\ Cardinality(S \cup {n}) <= Cardinality(S) + 1
  BY FS_AddElement, FS_CardinalityType
<1>2. Cardinality(T) <= Cardinality(S \cup {n}) /\ IsFiniteSet(T)
  BY <1>1, FS_Subset
<1>3. Cardinality(T) \in Nat /\ Cardinality(S \cup {n}) \in Nat
  BY <1>1, <1>2, FS_CardinalityType
<1> QED
  BY <1>1, <1>2, <1>3

LEMMA LogGrows ==
    ASSUME TypeOK, NEW r \in Requests, Admit(r)
    PROVE  /\ UNCHANGED <<clock, told>>
           /\ Len(admitted') = Len(admitted) + 1
           /\ Numbers' = Numbers \cup {Len(admitted) + 1}
           /\ \A m \in Numbers : admitted'[m] = admitted[m]
           /\ admitted'[Len(admitted) + 1] = Admission(r)
           /\ Admission(r) \in Entry /\ Admission(r).at = clock
           /\ Admission(r).creation <=> r \in Creations
           /\ Admission(r).request_limit = RequestLimitNow
           /\ Admission(r).order_limit = OrderLimitNow
           /\ admitted' \in Seq([at : 0..clock, creation : BOOLEAN,
                                 request_limit : Nat \ {0}, order_limit : Nat \ {0}])
<1> DEFINE E == [at : 0..clock, creation : BOOLEAN,
                 request_limit : Nat \ {0}, order_limit : Nat \ {0}]
<1>1. /\ Admission(r) \in E /\ Admission(r) \in Entry /\ Admission(r).at = clock
      /\ Admission(r).creation <=> r \in Creations
      /\ Admission(r).request_limit = RequestLimitNow
      /\ Admission(r).order_limit = OrderLimitNow
  <2>1. clock \in Nat /\ clock \in 0..clock
    BY Facts
  <2>2. PICK c \in BOOLEAN : c <=> r \in Creations
    OBVIOUS
  <2>3. Admission(r) = [at |-> clock, creation |-> c,
                        request_limit |-> RequestLimitNow, order_limit |-> OrderLimitNow]
    BY <2>2 DEF Admission
  <2> QED
    BY <2>1, <2>2, <2>3, LimitFacts DEF Entry
<1>2. admitted \in Seq(E) /\ admitted' = Append(admitted, Admission(r))
  BY DEF TypeOK, Admit
<1> HIDE DEF E
<1>3. /\ admitted' \in Seq(E)
      /\ Len(admitted') = Len(admitted) + 1
      /\ \A m \in 1..Len(admitted) : admitted'[m] = admitted[m]
      /\ admitted'[Len(admitted) + 1] = Admission(r)
  BY <1>1, <1>2, AppendProperties
<1>4. Numbers' = Numbers \cup {Len(admitted) + 1}
  BY <1>3, Facts DEF Numbers
<1>5. UNCHANGED <<clock, told>>
  BY DEF Admit
<1> QED
  BY <1>1, <1>3, <1>4, <1>5 DEF Numbers, E

(* What an admission writes into the row.                                  *)
LEMMA CountedFacts ==
    ASSUME TypeOK, NEW r \in Requests, Admit(r)
    PROVE  /\ throttle' \in Throttle'
           /\ throttle'.blocked_until = throttle.blocked_until
           /\ throttle'.orders_blocked_until = throttle.orders_blocked_until
           /\ Rolling =>
                /\ Recent(throttle.request_history) \cup {Len(admitted) + 1}
                      \subseteq throttle'.request_history
                /\ Recent(throttle.order_history) \subseteq throttle'.order_history
                /\ r \in Creations => Len(admitted) + 1 \in throttle'.order_history
           /\ ~Rolling =>
                /\ throttle'.request_at = clock + RequestGap
                /\ throttle'.order_at = IF r \in Creations THEN clock + OrderGap
                                                           ELSE throttle.order_at
<1> DEFINE n == Len(admitted) + 1
<1>1. throttle' = Counted(r, n) /\ Numbers' = Numbers \cup {n}
  BY LogGrows DEF Admit
<1>2. Pruned \in Throttle /\ Times(Pruned)
  BY PrunedFacts DEF Throttle, Times
<1>3. PICK row \in Throttle : row = Pruned
  BY <1>2
<1>4. Throttle' =
        [request_at : Nat, order_at : Nat, blocked_until : Nat, orders_blocked_until : Nat,
         request_history : SUBSET (Numbers \cup {n}), order_history : SUBSET (Numbers \cup {n}),
         request_limit : Nat, order_limit : Nat]
  <2>1. 1..Len(admitted') = Numbers \cup {n}
    BY <1>1 DEF Numbers
  <2> QED
    BY <2>1 DEF Throttle
<1>5. CASE Rolling
  <2>1. PICK b \in SUBSET (Numbers \cup {n}) :
            b = IF r \in Creations THEN row.order_history \cup {n} ELSE row.order_history
    BY DEF Throttle, Numbers
  <2>2. PICK a \in SUBSET (Numbers \cup {n}) : a = row.request_history \cup {n}
    BY DEF Throttle, Numbers
  <2>3. throttle' = [row EXCEPT !.request_history = a, !.order_history = b]
    BY <1>1, <1>3, <1>5, <2>1, <2>2 DEF Counted, Throttle
  <2>4. /\ throttle' \in Throttle'
        /\ throttle'.request_history = a /\ throttle'.order_history = b
        /\ throttle'.blocked_until = row.blocked_until
        /\ throttle'.orders_blocked_until = row.orders_blocked_until
    BY <1>4, <2>3 DEF Throttle, Numbers
  <2> HIDE DEF Pruned
  <2> QED
    BY <1>3, <1>5, <2>1, <2>2, <2>4, PrunedFacts
<1>6. CASE ~Rolling
  <2>1. row = throttle
    BY <1>3, <1>6 DEF Pruned
  <2>2. PICK at \in Nat :
            at = IF r \in Creations THEN clock + OrderGap ELSE throttle.order_at
    <3>1. clock + OrderGap \in Nat /\ throttle.order_at \in Nat
      BY Facts, GapFacts DEF Times
    <3> QED
      BY <3>1
  <2>3. throttle' = [row EXCEPT !.request_at = clock + RequestGap, !.order_at = at]
    BY <1>1, <1>3, <1>6, <2>1, <2>2 DEF Counted, Throttle
  <2>4. clock + RequestGap \in Nat
    BY Facts, GapFacts
  <2>5. /\ throttle' \in Throttle'
        /\ throttle'.request_at = clock + RequestGap /\ throttle'.order_at = at
        /\ throttle'.blocked_until = row.blocked_until
        /\ throttle'.orders_blocked_until = row.orders_blocked_until
    BY <1>4, <2>3, <2>4 DEF Throttle, Numbers
  <2> QED
    BY <1>6, <2>1, <2>2, <2>5
<1> QED
  BY <1>5, <1>6

(* The admissions of the second before the new one were in the row.        *)
LEMMA WindowKept ==
    ASSUME GateInv, NEW r \in Requests, Admit(r)
    PROVE  WindowHeld'
<1> DEFINE n == Len(admitted) + 1
<1> SUFFICES ASSUME Rolling, NEW k \in Numbers'
             PROVE  /\ Cardinality(SecondBefore(k)') <= admitted'[k].request_limit
                    /\ admitted'[k].creation =>
                          Cardinality(OrdersBefore(k)') <= admitted'[k].order_limit
  BY DEF WindowHeld, Numbers
<1>1. TypeOK /\ n \in Nat /\ Len(admitted) \in Nat
  BY Facts DEF GateInv
<1>2. /\ \A m \in Numbers : admitted'[m] = admitted[m]
      /\ admitted'[n] = Admission(r) /\ Numbers' = Numbers \cup {n}
  BY <1>1, LogGrows
<1>3. CASE k \in Numbers
  <2>1. k # n /\ \A m \in 1..k : m \in Numbers
    BY <1>1, <1>3 DEF Numbers
  <2>2. SecondBefore(k)' = SecondBefore(k) /\ OrdersBefore(k)' = OrdersBefore(k)
    BY <1>2, <1>3, <2>1 DEF SecondBefore, OrdersBefore
  <2> QED
    BY <1>2, <1>3, <2>2 DEF GateInv, Kept, WindowHeld, Numbers
<1>4. CASE k = n
  <2> DEFINE requests == Recent(throttle.request_history)
             creations == Recent(throttle.order_history)
  <2>1. /\ throttle.request_history \in SUBSET Numbers
        /\ throttle.order_history \in SUBSET Numbers
    BY <1>1, Facts
  <2>2. /\ Admission(r).at = clock /\ clock \in Nat
        /\ Admission(r).creation <=> r \in Creations
        /\ Admission(r).request_limit = RequestLimitNow
        /\ Admission(r).order_limit = OrderLimitNow
    BY <1>1, LogGrows, Facts
  <2>3. \A m \in 1..n : m = n \/ m \in Numbers
    BY <1>1 DEF Numbers
  <2>4. SecondBefore(k)' \in SUBSET (requests \cup {n})
    BY <1>2, <1>4, <2>2, <2>3 DEF SecondBefore, GateInv, Stored, HistoryStored, Recent
  <2>5. OrdersBefore(k)' \in SUBSET (creations \cup {n})
    BY <1>2, <1>4, <2>2, <2>3
       DEF OrdersBefore, SecondBefore, GateInv, Stored, HistoryStored, Recent
  <2>6. IsFiniteSet(requests) /\ IsFiniteSet(creations)
    <3>1. requests \in SUBSET (1..Len(admitted)) /\ creations \in SUBSET (1..Len(admitted))
      BY <2>1 DEF Recent, Numbers
    <3>2. IsFiniteSet(1..Len(admitted))
      BY <1>1, FS_Interval
    <3> HIDE DEF requests, creations
    <3> QED
      BY <3>1, <3>2, FS_Subset
  <2>7. RequestLimitNow \in Nat /\ OrderLimitNow \in Nat
    BY <1>1, LimitFacts
  <2>8. Cardinality(requests) < RequestLimitNow
    <3>1. PICK t \in RoomAt(requests, RequestLimitNow) : t <= clock
      BY <1>1, Unhindered DEF RequestTimes
    <3> QED
      BY <1>1, <2>1, <2>7, <3>1, WindowHasRoom
  <2>9. r \in Creations => Cardinality(creations) < OrderLimitNow
    <3> SUFFICES ASSUME r \in Creations PROVE Cardinality(creations) < OrderLimitNow
      OBVIOUS
    <3>1. PICK t \in RoomAt(creations, OrderLimitNow) : t <= clock
      BY <1>1, Unhindered DEF OrderTimes
    <3> QED
      BY <1>1, <2>1, <2>7, <3>1, WindowHasRoom
  <2> HIDE DEF requests, creations, n
  <2>10. Cardinality(SecondBefore(k)') <= RequestLimitNow
    BY <2>4, <2>6, <2>7, <2>8, OneMore
  <2>11. r \in Creations => Cardinality(OrdersBefore(k)') <= OrderLimitNow
    BY <2>5, <2>6, <2>7, <2>9, OneMore
  <2> QED
    BY <1>2, <1>4, <2>2, <2>10, <2>11
<1> QED
  BY <1>2, <1>3, <1>4

LEMMA AdmitSafe ==
    ASSUME GateInv, NEW r \in Requests, Admit(r)
    PROVE  GateInv'
<1> DEFINE n == Len(admitted) + 1
<1>1. /\ TypeOK /\ Times(throttle) /\ clock \in Nat /\ n \in Nat
      /\ Len(admitted) \in Nat
      /\ \A m \in Numbers : admitted[m] \in Entry /\ admitted[m].at <= clock
      /\ \A pause \in told : pause \in Pause /\ pause.after <= Len(admitted)
  BY Facts DEF GateInv
<1>2. /\ UNCHANGED <<clock, told>>
      /\ Len(admitted') = n /\ Numbers' = Numbers \cup {n} /\ n \notin Numbers
      /\ \A m \in Numbers : admitted'[m] = admitted[m]
      /\ admitted'[n] = Admission(r) /\ Admission(r).at = clock
      /\ Admission(r).creation <=> r \in Creations
  BY <1>1, LogGrows DEF Numbers
<1>3. /\ throttle.blocked_until <= clock
      /\ r \in Creations => throttle.orders_blocked_until <= clock
      /\ ~Rolling =>
            /\ throttle.request_at <= clock
            /\ r \in Creations => throttle.order_at <= clock
  BY <1>1, Unhindered DEF RequestTimes, OrderTimes
<1>4. TypeOK' /\ SlotsBalanced'
  <2>1. RequestOK' /\ FreeOK'
    BY <1>1, FreeHolds, Slotted
  <2>2. FreeTyped'
    BY <2>1, FreeBounded, PTL
  <2>3. throttle' \in Throttle'
    BY <1>1, CountedFacts
  <2>4. admitted' \in Seq([at : 0..clock', creation : BOOLEAN,
                           request_limit : Nat \ {0}, order_limit : Nat \ {0}])
    BY <1>1, <1>2, LogGrows
  <2>5. told' \subseteq [until : Nat, scope : Scopes, after : 0..Len(admitted')]
    <3>1. 0..Len(admitted) \subseteq 0..n
      BY <1>1
    <3> QED
      BY <1>2, <3>1 DEF GateInv, TypeOK
  <2> QED
    BY <1>1, <1>2, <2>1, <2>2, <2>3, <2>4, <2>5 DEF TypeOK, FreeTyped, RequestOK, Pcs, FreeOK
<1>5. PausesStored'
  BY <1>1, <1>2, CountedFacts DEF GateInv, Stored, PausesStored
<1>6. PausesHeld'
  <2> SUFFICES ASSUME NEW pause \in told, NEW m \in (pause.after + 1)..n,
                      pause.scope = "all" \/ admitted'[m].creation
               PROVE  admitted'[m].at >= pause.until
    BY <1>2 DEF PausesHeld
  <2>1. pause \in Pause /\ pause.after <= Len(admitted)
    BY <1>1
  <2>2. CASE m = n
    <3>1. /\ admitted'[m].at = clock
          /\ admitted'[m].creation <=> r \in Creations
      BY <1>2, <2>2
    <3>2. /\ pause.scope = "all" => throttle.blocked_until >= pause.until
          /\ pause.scope = "orders" => throttle.orders_blocked_until >= pause.until
      BY DEF GateInv, Stored, PausesStored
    <3>3. /\ pause.until \in Nat /\ pause.scope \in {"all", "orders"}
          /\ throttle.blocked_until \in Nat /\ throttle.orders_blocked_until \in Nat
      BY <1>1, <2>1 DEF Times, Pause, Scopes
    <3>4. CASE pause.scope = "all"
      BY <1>1, <1>3, <3>1, <3>2, <3>3, <3>4
    <3>5. CASE pause.scope = "orders"
      <4>1. r \in Creations
        BY <3>1, <3>5
      <4> QED
        BY <1>1, <1>3, <3>1, <3>2, <3>3, <3>5, <4>1
    <3> QED
      BY <3>3, <3>4, <3>5
  <2>3. CASE m # n
    <3>1. m \in Numbers /\ m \in (pause.after + 1)..Len(admitted)
      BY <1>1, <2>1, <2>3 DEF Numbers, Pause
    <3> QED
      BY <1>2, <3>1 DEF GateInv, Kept, PausesHeld
  <2> QED
    BY <2>2, <2>3
<1>7. SpacingStored'
  <2> SUFFICES ASSUME ~Rolling, NEW m \in Numbers'
               PROVE  /\ throttle'.request_at >= admitted'[m].at + RequestGap
                      /\ admitted'[m].creation =>
                            throttle'.order_at >= admitted'[m].at + OrderGap
    BY DEF SpacingStored
  <2>1. /\ throttle'.request_at = clock + RequestGap
        /\ throttle'.order_at = IF r \in Creations THEN clock + OrderGap
                                                   ELSE throttle.order_at
    BY <1>1, CountedFacts
  <2>2. CASE m = n
    BY <1>1, <1>2, <2>1, <2>2, GapFacts
  <2>3. CASE m \in Numbers
    <3>1. /\ throttle.request_at >= admitted[m].at + RequestGap
          /\ admitted[m].creation => throttle.order_at >= admitted[m].at + OrderGap
      BY <2>3 DEF GateInv, Stored, SpacingStored
    <3>2. /\ admitted'[m] = admitted[m] /\ admitted[m].at \in Nat /\ admitted[m].at <= clock
          /\ throttle.order_at \in Nat
      BY <1>1, <1>2, <2>3 DEF Entry, Times
    <3>3. clock + RequestGap >= admitted[m].at + RequestGap
      BY <1>1, <3>2, GapFacts
    <3>4. clock + OrderGap >= admitted[m].at + OrderGap
      BY <1>1, <3>2, GapFacts
    <3> QED
      BY <2>1, <3>1, <3>2, <3>3, <3>4
  <2> QED
    BY <1>2, <2>2, <2>3
<1>8. SpacingHeld'
  <2> SUFFICES ASSUME ~Rolling, NEW m \in 1..n, NEW k \in 1..n, m < k
               PROVE  /\ admitted'[k].at >= admitted'[m].at + RequestGap
                      /\ admitted'[m].creation /\ admitted'[k].creation =>
                            admitted'[k].at >= admitted'[m].at + OrderGap
    BY <1>2 DEF SpacingHeld
  <2>1. m \in Numbers
    BY <1>1 DEF Numbers
  <2>2. CASE k = n
    <3>1. /\ admitted'[m] = admitted[m] /\ admitted'[k].at = clock
          /\ admitted'[k].creation <=> r \in Creations
      BY <1>2, <2>1, <2>2
    <3>2. /\ throttle.request_at >= admitted[m].at + RequestGap
          /\ admitted[m].creation => throttle.order_at >= admitted[m].at + OrderGap
      BY <2>1 DEF GateInv, Stored, SpacingStored
    <3>3. throttle.request_at \in Nat /\ throttle.order_at \in Nat /\ admitted[m].at \in Nat
      BY <1>1, <2>1 DEF Times, Entry
    <3>4. clock >= admitted[m].at + RequestGap
      BY <1>1, <1>3, <3>2, <3>3, GapFacts
    <3>5. ASSUME admitted[m].creation, r \in Creations
          PROVE  clock >= admitted[m].at + OrderGap
      <4>1. throttle.order_at <= clock
        BY <1>3, <3>5
      <4>2. throttle.order_at >= admitted[m].at + OrderGap
        BY <3>2, <3>5
      <4>3. clock \in Nat
        BY <1>1
      <4> HIDE DEF n
      <4> QED
        BY <3>3, <4>1, <4>2, <4>3, GapFacts
    <3> HIDE DEF n
    <3> QED
      BY <3>1, <3>4, <3>5, Zenon
  <2>3. CASE k # n
    <3>1. k \in Numbers
      BY <1>1, <2>3 DEF Numbers
    <3> QED
      BY <1>2, <2>1, <3>1 DEF GateInv, Kept, SpacingHeld, Numbers
  <2> QED
    BY <2>2, <2>3
<1>9. HistoryStored'
  <2> SUFFICES ASSUME Rolling, NEW m \in Numbers', admitted'[m].at > clock - Second
               PROVE  /\ m \in throttle'.request_history
                      /\ admitted'[m].creation => m \in throttle'.order_history
    BY <1>2 DEF HistoryStored
  <2>1. CASE m = n
    BY <1>1, <1>2, <2>1, CountedFacts
  <2>2. CASE m \in Numbers
    BY <1>1, <1>2, <2>2, CountedFacts DEF GateInv, Stored, HistoryStored, Recent
  <2> QED
    BY <1>2, <2>1, <2>2
<1>10. WindowHeld'
  BY WindowKept
<1> QED
  BY <1>4, <1>5, <1>6, <1>7, <1>8, <1>9, <1>10 DEF GateInv, Stored, Kept

(* Time makes the window shorter at its far end only.                      *)
LEMMA TickSafe ==
    ASSUME GateInv, Tick
    PROVE  GateInv'
<1>1. clock' = clock + 1 /\ UNCHANGED <<throttle, free, request, admitted, told>>
  BY DEF Tick
<1>2. clock \in Nat /\ clock' \in Nat
  BY <1>1, Facts DEF GateInv
<1>3. TypeOK'
  <2> DEFINE E == [at : 0..clock, creation : BOOLEAN,
                   request_limit : Nat \ {0}, order_limit : Nat \ {0}]
             F == [at : 0..clock', creation : BOOLEAN,
                   request_limit : Nat \ {0}, order_limit : Nat \ {0}]
  <2>1. E \subseteq F /\ admitted \in Seq(E)
    BY <1>1, <1>2 DEF GateInv, TypeOK
  <2> HIDE DEF E, F
  <2>2. admitted' \in Seq(F)
    BY <1>1, <2>1, SeqMonotonic
  <2>3. admitted' \in Seq([at : 0..clock', creation : BOOLEAN,
                           request_limit : Nat \ {0}, order_limit : Nat \ {0}])
    BY <2>2 DEF F
  <2> QED
    BY <1>1, <1>2, <2>3 DEF GateInv, TypeOK, Throttle
<1>4. HistoryStored'
  <2> SUFFICES ASSUME Rolling, NEW m \in Numbers, admitted[m].at > clock' - Second
               PROVE  /\ m \in throttle.request_history
                      /\ admitted[m].creation => m \in throttle.order_history
    BY <1>1 DEF HistoryStored, Numbers
  <2>1. admitted[m].at \in Nat
    BY Facts DEF GateInv, Entry
  <2>2. admitted[m].at > clock - Second
    BY <1>1, <1>2, <2>1, GapFacts
  <2> QED
    BY <2>2 DEF GateInv, Stored, HistoryStored
<1>5. PausesStored' /\ SpacingStored' /\ SlotsBalanced'
  BY <1>1 DEF GateInv, Stored, PausesStored, SpacingStored, SlotsBalanced, Numbers, At, Answered
<1>6. Kept'
  BY <1>1 DEF GateInv, Kept, PausesHeld, SpacingHeld, WindowHeld, SecondBefore, OrdersBefore
<1> QED
  BY <1>3, <1>4, <1>5, <1>6 DEF GateInv, Stored

-----------------------------------------------------------------------------
LEMMA InitCorrect == Init => GateInv
<1> SUFFICES ASSUME Init PROVE GateInv
  OBVIOUS
<1>1. /\ clock = 1 /\ admitted = <<>> /\ Len(admitted) = 0 /\ told = {}
      /\ free = [p \in Processes |-> Slots]
      /\ request = [r \in Requests |-> [pc |-> "new", until |-> 0]]
  BY DEF Init
<1>2. Numbers = {}
  BY <1>1 DEF Numbers
<1>3. TypeOK
  <2>1. throttle \in Throttle
    BY DEF Init, Throttle
  <2>2. admitted \in Seq([at : 0..clock, creation : BOOLEAN,
                          request_limit : Nat \ {0}, order_limit : Nat \ {0}])
    BY <1>1
  <2>3. free \in [Processes -> 0..Slots]
    BY <1>1, GapFacts
  <2>4. request \in [Requests -> [pc : Pcs, until : Nat]]
    BY <1>1 DEF Pcs
  <2>5. clock \in Nat /\ told \subseteq [until : Nat, scope : Scopes, after : 0..Len(admitted)]
    BY <1>1
  <2> QED
    BY <2>1, <2>2, <2>3, <2>4, <2>5 DEF TypeOK, Pcs
<1>4. SlotsBalanced
  <2>1. \A p \in Processes : Holders(p) = {}
    BY <1>1, HolderFacts DEF Holders
  <2> QED
    BY <1>1, <2>1, Balanced, FS_EmptySet, GapFacts
<1>5. Stored
  BY <1>1, <1>2 DEF Stored, PausesStored, SpacingStored, HistoryStored
<1>6. Kept
  BY <1>1 DEF Kept, PausesHeld, SpacingHeld, WindowHeld
<1> QED
  BY <1>3, <1>4, <1>5, <1>6 DEF GateInv

LEMMA StutterSafe == GateInv /\ UNCHANGED vars => GateInv'
BY DEF GateInv, vars, TypeOK, Throttle, SlotsBalanced, At, Answered, Stored, PausesStored,
       SpacingStored, HistoryStored, Numbers, Kept, PausesHeld, SpacingHeld, WindowHeld,
       SecondBefore, OrdersBefore

LEMMA NextSafe == GateInv /\ [Next]_vars => GateInv'
<1> SUFFICES ASSUME GateInv, [Next]_vars PROVE GateInv'
  OBVIOUS
<1>1. ASSUME NEW r \in Requests,
             \/ Arrive(r) \/ Acquire(r) \/ SlotTimeout(r)
             \/ Admit(r) \/ Sleep(r) \/ Defer(r)
             \/ Finish(r) \/ Cancel(r)
      PROVE  GateInv'
  BY <1>1, QueueSafe, AdmitSafe, WaitSafe
<1>2. ASSUME NEW r \in Requests, NEW requestLimit \in Headers, NEW orderLimit \in Headers,
             Observe(r, requestLimit, orderLimit)
      PROVE  GateInv'
  BY <1>2, ObserveSafe
<1>3. ASSUME NEW r \in Requests, NEW pause \in Pauses, NEW scope \in Scopes,
             BackOff(r, pause, scope)
      PROVE  GateInv'
  BY <1>3, BackOffSafe
<1> QED
  BY <1>1, <1>2, <1>3, TickSafe, StutterSafe DEF Next

LEMMA InvariantHolds == Spec => []GateInv
BY InitCorrect, NextSafe, PTL DEF Spec

(* The row keeps its shape, its histories name admissions only, and no     *)
(* process ever has more free slots than its semaphore was made with.      *)
THEOREM TypeCorrect == Spec => []TypeOK
<1>1. GateInv => TypeOK
  BY DEF GateInv
<1> QED
  BY InvariantHolds, <1>1, PTL

(* TronowGate: whatever processes share a merchant and whatever limits its *)
(* answers tell, no second holds more requests or orders than were allowed *)
(* when its last one was let through (_delay, request_history).            *)
THEOREM WindowsAreKept == Spec => []WindowHeld
<1>1. GateInv => WindowHeld
  BY DEF GateInv, Kept
<1> QED
  BY InvariantHolds, <1>1, PTL

(* UpstreamGate: two requests of a merchant, and two of its orders, are as *)
(* far apart as the configured rate asks (request_at, order_at).           *)
THEOREM DistancesAreKept == Spec => []SpacingHeld
<1>1. GateInv => SpacingHeld
  BY DEF GateInv, Kept
<1> QED
  BY InvariantHolds, <1>1, PTL

(* A pause that was stored is respected by every later request it concerns *)
(* (_defer, blocked_until, orders_blocked_until).                          *)
THEOREM PausesAreKept == Spec => []PausesHeld
<1>1. GateInv => PausesHeld
  BY DEF GateInv, Kept
<1> QED
  BY InvariantHolds, <1>1, PTL

(* Free slots and the requests that hold one always add up, whichever way  *)
(* run is left (its finally clause).                                       *)
THEOREM SlotsAreReturned == Spec => []SlotsBalanced
<1>1. GateInv => SlotsBalanced
  BY DEF GateInv
<1> QED
  BY InvariantHolds, <1>1, PTL
=============================================================================
