-------------------------- MODULE ReadCacheProofs --------------------------
(***************************************************************************)
(* Proofs about ReadCache: for any processes, readers and buyers, whatever *)
(* they do at the same time, nothing older than an invalidation is         *)
(* published after it, and no flight returns such a value.                 *)
(***************************************************************************)
EXTENDS ReadCache, TLAPS

(* Whoever holds the token may publish what it loaded.                     *)
HolderOK ==
    \A p \in Processes : At(p, "loaded") =>
        /\ flight[p].value # 0
        /\ \A b \in Buyers : row.token = p => flight[p].value >= buyer[b].seen

FloorOK ==
    \A b \in Buyers :
        /\ buyer[b].seen <= version
        /\ \A p \in Processes : flight[p].floor[b] <= buyer[b].seen

CacheInv == TypeOK /\ HolderOK /\ FloorOK /\ CacheIsCurrent /\ ReadsAreCurrent

FlightPcs == {"none", "reading", "claiming", "loading", "loaded", "returning"}

-----------------------------------------------------------------------------
(* A flight's steps keep it a flight.                                      *)
LEMMA FlightUpdates ==
    ASSUME NEW f \in Flight, NEW pc \in FlightPcs, NEW v \in Versions \cup {0}
    PROVE  /\ [f EXCEPT !.pc = pc] \in Flight
           /\ [f EXCEPT !.pc = pc].pc = pc
           /\ [f EXCEPT !.pc = pc].value = f.value
           /\ [f EXCEPT !.pc = pc].floor = f.floor
BY DEF Flight, FlightPcs

LEMMA InitCorrect == Init => CacheInv
<1> SUFFICES ASSUME Init PROVE CacheInv
  OBVIOUS
<1>1. 1 \in Versions /\ 0 \in Int /\ Versions \subseteq Nat
  BY ReadCacheAssumption DEF Versions
<1>2. TypeOK
  BY <1>1, ReadCacheAssumption
     DEF Init, TypeOK, Row, NullRow, Flight, NoFlight, At
<1>3. HolderOK /\ FloorOK /\ CacheIsCurrent /\ ReadsAreCurrent
  BY <1>1 DEF Init, HolderOK, FloorOK, CacheIsCurrent, ReadsAreCurrent, NullRow, NoFlight, At
<1> QED
  BY <1>2, <1>3 DEF CacheInv

-----------------------------------------------------------------------------
(* What the invariant says, in the form the steps use it.                  *)
LEMMA Facts ==
    ASSUME CacheInv
    PROVE  /\ version \in Nat /\ version \in Versions
           /\ row \in Row
           /\ flight \in [Processes -> Flight]
           /\ \A b \in Buyers : buyer[b].seen \in Nat /\ buyer[b].seen <= version
           /\ \A p \in Processes, b \in Buyers :
                /\ flight[p].floor[b] \in Nat
                /\ flight[p].floor[b] <= buyer[b].seen
BY ReadCacheAssumption DEF CacheInv, TypeOK, FloorOK, Flight, Versions

(* A step that leaves the row, the balance and the buyers alone is safe    *)
(* when the flight it moves is.                                            *)
FlightOK(p) ==
    /\ flight[p].pc = "loaded" =>
        /\ flight[p].value # 0
        /\ \A b \in Buyers : row.token = p => flight[p].value >= buyer[b].seen
    /\ \A b \in Buyers : flight[p].floor[b] <= buyer[b].seen
    /\ flight[p].pc = "returning" =>
        \A b \in Buyers : flight[p].value >= flight[p].floor[b]

LEMMA FlightsOK ==
    CacheInv <=> TypeOK /\ CacheIsCurrent /\ (\A b \in Buyers : buyer[b].seen <= version)
                 /\ \A p \in Processes : FlightOK(p)
BY DEF CacheInv, HolderOK, FloorOK, ReadsAreCurrent, FlightOK, At

Progress == {"idle", "waiting", "answered", "failed"}

(* The readers of a step: they keep waiting for a flight that is there.    *)
ReadersOK ==
    /\ reader \in [Readers -> Progress]
    /\ \A r \in Readers : reader[r] = "waiting" => ~At(ProcessOf[r], "none")

RowOK ==
    /\ row \in Row
    /\ row.payload = 0 <=> row.expires = "none"
    /\ CacheIsCurrent

(* A step of flight p, which becomes f and may write the row.              *)
LEMMA FlightStep ==
    ASSUME CacheInv, NEW p \in Processes, NEW f \in Flight,
           flight' = [flight EXCEPT ![p] = f],
           UNCHANGED <<version, buyer>>, ReadersOK', RowOK',
           \A q \in Processes : q # p /\ row'.token = q => row.token = q,
           f.pc = "loaded" =>
               f.value # 0 /\ \A b \in Buyers : row'.token = p => f.value >= buyer[b].seen,
           \A b \in Buyers : f.floor[b] <= buyer[b].seen,
           f.pc = "returning" => \A b \in Buyers : f.value >= f.floor[b]
    PROVE  CacheInv'
<1>1. TypeOK'
  BY Facts DEF CacheInv, TypeOK, ReadersOK, RowOK, Progress
<1>2. ASSUME NEW q \in Processes PROVE FlightOK(q)'
  <2>1. CASE q = p
    BY <2>1, Facts DEF FlightOK
  <2>2. CASE q # p
    BY <2>2, Facts, FlightsOK DEF FlightOK
  <2> QED
    BY <2>1, <2>2
<1>3. CacheIsCurrent' /\ \A b \in Buyers : (buyer[b].seen <= version)'
  BY Facts DEF RowOK
<1>4. HolderOK' /\ FloorOK' /\ ReadsAreCurrent'
  BY <1>2, <1>3 DEF HolderOK, FloorOK, ReadsAreCurrent, FlightOK, At
<1> QED
  BY <1>1, <1>3, <1>4 DEF CacheInv

(* A step of the row alone gives the token to nobody.                      *)
LEMMA RowStep ==
    ASSUME CacheInv, UNCHANGED <<version, flight, reader, buyer>>, RowOK',
           \A q \in Processes : row'.token = q => row.token = q
    PROVE  CacheInv'
<1>1. TypeOK'
  BY DEF CacheInv, TypeOK, RowOK, At
<1>2. HolderOK' /\ FloorOK' /\ ReadsAreCurrent' /\ CacheIsCurrent'
  BY DEF CacheInv, HolderOK, FloorOK, ReadsAreCurrent, RowOK, At
<1> QED
  BY <1>1, <1>2 DEF CacheInv

(* A step of the upstream or of buyers that takes no token.                *)
LEMMA BuyerStep ==
    ASSUME CacheInv, UNCHANGED <<flight, reader>>, RowOK',
           version' \in Versions, version' >= version,
           buyer' \in [Buyers -> [pc : {"idle", "posting", "posted", "done"},
                                  seen : Versions \cup {0}]],
           \A b \in Buyers : buyer'[b].seen >= buyer[b].seen /\ buyer'[b].seen <= version',
           \A b \in Buyers : buyer'[b].seen # buyer[b].seen => row'.token = None,
           \A q \in Processes : row'.token = q => row.token = q
    PROVE  CacheInv'
<1>1. TypeOK'
  BY DEF CacheInv, TypeOK, RowOK, At
<1>2. FloorOK' /\ ReadsAreCurrent' /\ CacheIsCurrent'
  <2>1. \A b \in Buyers : buyer'[b].seen \in Nat
    BY ReadCacheAssumption DEF Versions
  <2> QED
    BY <2>1, Facts DEF CacheInv, FloorOK, ReadsAreCurrent, RowOK, At
<1>3. HolderOK'
  BY Facts, ReadCacheAssumption DEF CacheInv, HolderOK, At
<1> QED
  BY <1>1, <1>2, <1>3 DEF CacheInv

-----------------------------------------------------------------------------
(* The flights.                                                            *)
LEMMA StillOK ==
    ASSUME CacheInv
    PROVE  ReadersOK /\ RowOK
BY DEF CacheInv, TypeOK, ReadersOK, RowOK, Progress

(* A flight that goes on keeps its readers.                                *)
LEMMA ReadersStay ==
    ASSUME CacheInv, NEW p \in Processes, NEW f \in Flight,
           flight' = [flight EXCEPT ![p] = f], f.pc # "none", UNCHANGED reader
    PROVE  ReadersOK'
<1>1. \A q \in Processes : flight'[q].pc = "none" => flight[q].pc = "none"
  BY Facts
<1> QED
  BY <1>1, StillOK, ReadCacheAssumption DEF ReadersOK, At

(* A flight that ends lets its readers go.                                 *)
LEMMA ReadersLeave ==
    ASSUME CacheInv, NEW p \in Processes, NEW outcome \in {"answered", "failed"},
           flight' = [flight EXCEPT ![p] = NoFlight], Answer(p, outcome)
    PROVE  ReadersOK'
<1>1. \A q \in Processes : flight'[q].pc = "none" => flight[q].pc = "none" \/ q = p
  BY Facts
<1>2. \A r \in Readers : reader'[r] = "waiting" => reader[r] = "waiting" /\ ProcessOf[r] # p
  BY StillOK DEF ReadersOK, Answer, Waiting
<1>3. reader' \in [Readers -> Progress]
  BY StillOK DEF ReadersOK, Answer, Progress
<1> QED
  BY <1>1, <1>2, <1>3, StillOK, ReadCacheAssumption DEF ReadersOK, At

LEMMA NoFlightFacts ==
    /\ NoFlight \in Flight
    /\ NoFlight.pc = "none"
    /\ \A b \in Buyers : NoFlight.floor[b] = 0
BY DEF NoFlight, Flight

LEMMA GetSafe ==
    ASSUME CacheInv, NEW r \in Readers, Get(r)
    PROVE  CacheInv'
<1> DEFINE p == ProcessOf[r]
<1>1. p \in Processes
  BY ReadCacheAssumption
<1>2. reader' \in [Readers -> Progress] /\ \A q \in Readers : q # r => reader'[q] = reader[q]
  BY StillOK DEF Get, ReadersOK, Progress
<1>3. CASE At(p, "none")
  <2> DEFINE f == [NoFlight EXCEPT !.pc = "reading", !.floor = Invalidated]
  <2>1. /\ f \in Flight
        /\ f.pc = "reading"
        /\ \A b \in Buyers : f.floor[b] = buyer[b].seen
    BY DEF NoFlight, Flight, Invalidated, CacheInv, TypeOK
  <2>2. flight' = [flight EXCEPT ![p] = f] /\ UNCHANGED <<version, row, buyer>>
    BY <1>3 DEF Get
  <2> HIDE DEF f
  <2>3. \A q \in Processes : flight'[q].pc = "none" => flight[q].pc = "none" /\ q # p
    BY <2>1, <2>2, Facts, <1>1
  <2>4. ReadersOK'
    BY <2>3, <1>1, <1>2, StillOK, ReadCacheAssumption DEF ReadersOK, At
  <2>5. RowOK'
    BY <2>2, StillOK DEF RowOK, CacheIsCurrent
  <2>6. /\ f.pc # "loaded" /\ f.pc # "returning"
        /\ \A b \in Buyers : f.floor[b] <= buyer[b].seen
    BY <2>1, Facts
  <2> HIDE DEF p
  <2> QED
    BY <1>1, <2>1, <2>2, <2>4, <2>5, <2>6, FlightStep
<1>4. CASE ~At(p, "none")
  <2>1. UNCHANGED <<version, row, flight, buyer>>
    BY <1>4 DEF Get
  <2>2. ReadersOK'
    BY <2>1, <1>1, <1>2, <1>4, StillOK DEF ReadersOK, At
  <2> QED
    BY <2>1, <2>2 DEF CacheInv, TypeOK, HolderOK, FloorOK, CacheIsCurrent, ReadsAreCurrent,
                      ReadersOK, Progress, At
<1> QED
  BY <1>3, <1>4

LEMMA GiveUpSafe ==
    ASSUME CacheInv, NEW r \in Readers, GiveUp(r)
    PROVE  CacheInv'
<1>1. UNCHANGED <<version, row, flight, buyer>>
  BY DEF GiveUp
<1>2. ReadersOK'
  BY <1>1, StillOK DEF GiveUp, ReadersOK, Progress, At
<1> QED
  BY <1>1, <1>2 DEF CacheInv, TypeOK, HolderOK, FloorOK, CacheIsCurrent, ReadsAreCurrent,
                    ReadersOK, Progress, At

(* The steps of a flight that stays: only pc and value change.             *)
LEMMA Moves ==
    ASSUME CacheInv, NEW p \in Processes, NEW pc \in FlightPcs \ {"none"},
           NEW v \in Versions \cup {0},
           \/ flight' = [flight EXCEPT ![p].pc = pc] /\ v = flight[p].value
           \/ flight' = [flight EXCEPT ![p].pc = pc, ![p].value = v],
           UNCHANGED <<version, reader, buyer>>, RowOK',
           \A q \in Processes : q # p /\ row'.token = q => row.token = q,
           pc = "loaded" =>
               v # 0 /\ \A b \in Buyers : row'.token = p => v >= buyer[b].seen,
           pc = "returning" => \A b \in Buyers : v >= flight[p].floor[b]
    PROVE  CacheInv'
<1> DEFINE f == flight'[p]
<1>1. flight[p] \in Flight /\ flight \in [Processes -> Flight]
  BY Facts
<1>2. f \in Flight /\ f.pc = pc /\ f.value = v /\ f.floor = flight[p].floor
  BY <1>1 DEF Flight, FlightPcs
<1>3. flight' = [flight EXCEPT ![p] = f]
  BY <1>1
<1> HIDE DEF f
<1>4. \A b \in Buyers : f.floor[b] <= buyer[b].seen
  BY <1>2, Facts
<1>5. ReadersOK'
  BY <1>2, <1>3, ReadersStay DEF FlightPcs
<1>6. f.pc = "loaded" =>
        f.value # 0 /\ \A b \in Buyers : row'.token = p => f.value >= buyer[b].seen
  BY <1>2
<1>7. f.pc = "returning" => \A b \in Buyers : f.value >= f.floor[b]
  BY <1>2
<1> QED
  BY <1>2, <1>3, <1>4, <1>5, <1>6, <1>7, FlightStep

LEMMA ReadSafe ==
    ASSUME CacheInv, NEW p \in Processes,
           ReadHit(p) \/ ReadMiss(p) \/ ClaimMissed(p) \/ Overtaken(p)
    PROVE  CacheInv'
<1>1. UNCHANGED <<version, row, reader, buyer>>
  BY DEF ReadHit, ReadMiss, ClaimMissed, Overtaken
<1>2. RowOK'
  BY <1>1, StillOK DEF RowOK, CacheIsCurrent
<1>3. flight[p].value \in Versions \cup {0} /\ row.payload \in Versions \cup {0}
  BY Facts DEF Flight, Row
<1>4. CASE ReadHit(p)
  <2>1. \A b \in Buyers : row.payload >= flight[p].floor[b]
    BY <1>3, <1>4, Facts, ReadCacheAssumption
       DEF ReadHit, Hit, CacheInv, CacheIsCurrent, Versions
  <2>2. "returning" \in FlightPcs \ {"none"}
    BY DEF FlightPcs
  <2> QED
    BY <1>1, <1>2, <1>3, <1>4, <2>1, <2>2, Moves DEF ReadHit, Holding
<1>5. CASE ReadMiss(p) \/ ClaimMissed(p) \/ Overtaken(p)
  <2>1. PICK pc \in {"claiming", "reading"} : flight' = [flight EXCEPT ![p].pc = pc]
    BY <1>5 DEF ReadMiss, ClaimMissed, Overtaken, Become
  <2>2. pc \in FlightPcs \ {"none"} /\ pc # "loaded" /\ pc # "returning"
    BY DEF FlightPcs
  <2> QED
    BY <1>1, <1>2, <1>3, <2>1, <2>2, Moves
<1> QED
  BY <1>4, <1>5

LEMMA ClaimSafe ==
    ASSUME CacheInv, NEW p \in Processes, Claim(p)
    PROVE  CacheInv'
<1>1. /\ row' = [row EXCEPT !.token = p, !.until = "live"]
      /\ flight' = [flight EXCEPT ![p].pc = "loading"]
      /\ UNCHANGED <<version, reader, buyer>>
  BY DEF Claim, Become
<1>2. row' \in Row /\ row'.payload = row.payload /\ row'.expires = row.expires /\ row'.token = p
  BY <1>1, Facts DEF Row
<1>3. RowOK'
  BY <1>1, <1>2, StillOK DEF RowOK, CacheIsCurrent
<1>4. "loading" \in FlightPcs \ {"none"} /\ flight[p].value \in Versions \cup {0}
  BY Facts DEF FlightPcs, Flight
<1> QED
  BY <1>1, <1>2, <1>3, <1>4, Moves

LEMMA LoadSafe ==
    ASSUME CacheInv, NEW p \in Processes, Load(p)
    PROVE  CacheInv'
<1>1. /\ flight' = [flight EXCEPT ![p].pc = "loaded", ![p].value = version]
      /\ UNCHANGED <<version, row, reader, buyer>>
  BY DEF Load, Holding
<1>2. RowOK'
  BY <1>1, StillOK DEF RowOK, CacheIsCurrent
<1>3. /\ "loaded" \in FlightPcs \ {"none"} /\ version \in Versions \cup {0} /\ version # 0
      /\ \A b \in Buyers : version >= buyer[b].seen
  BY Facts DEF FlightPcs, Versions
<1> QED
  BY <1>1, <1>2, <1>3, Moves

LEMMA PublishSafe ==
    ASSUME CacheInv, NEW p \in Processes, Publish(p)
    PROVE  CacheInv'
<1>1. /\ row' = [payload |-> flight[p].value, expires |-> "fresh",
                 token |-> None, until |-> "none"]
      /\ flight' = [flight EXCEPT ![p].pc = "returning"]
      /\ UNCHANGED <<version, reader, buyer>>
  BY DEF Publish, Become
<1>2. /\ flight[p].value \in Versions
      /\ \A b \in Buyers : flight[p].value >= buyer[b].seen
  BY Facts DEF Publish, CacheInv, HolderOK, At, Flight
<1>3. \A b \in Buyers : flight[p].value >= flight[p].floor[b]
  BY <1>2, Facts, ReadCacheAssumption DEF Versions
<1>4. RowOK'
  BY <1>1, <1>2, ReadCacheAssumption DEF RowOK, CacheIsCurrent, Row, Versions
<1>5. "returning" \in FlightPcs \ {"none"} /\ row'.token = None /\ None \notin Processes
  BY <1>1, ReadCacheAssumption DEF FlightPcs
<1> QED
  BY <1>1, <1>2, <1>3, <1>4, <1>5, Moves

LEMMA ReturnSafe ==
    ASSUME CacheInv, NEW p \in Processes, Return(p) \/ Abort(p) \/ Crash(p)
    PROVE  CacheInv'
<1>1. flight' = [flight EXCEPT ![p] = NoFlight] /\ UNCHANGED <<version, buyer>>
  BY DEF Return, Abort, Crash
<1>2. PICK outcome \in {"answered", "failed"} : Answer(p, outcome)
  BY DEF Return, Abort, Crash
<1>3. ReadersOK'
  BY <1>1, <1>2, ReadersLeave
<1>4. row' = row \/ row' = [row EXCEPT !.token = None, !.until = "none"]
  BY DEF Return, Abort, Crash, Released
<1>5. /\ row' \in Row
      /\ row'.payload = row.payload /\ row'.expires = row.expires
      /\ row'.token = row.token \/ row'.token = None
  BY <1>4, Facts DEF Row
<1>6. RowOK'
  BY <1>1, <1>5, StillOK DEF RowOK, CacheIsCurrent
<1>7. /\ NoFlight.pc # "loaded" /\ NoFlight.pc # "returning"
      /\ \A b \in Buyers : NoFlight.floor[b] <= buyer[b].seen
  BY Facts, NoFlightFacts
<1>8. \A q \in Processes : row'.token = q => row.token = q
  BY <1>5, ReadCacheAssumption
<1> HIDE DEF NoFlight
<1> QED
  BY <1>1, <1>3, <1>6, <1>7, <1>8, NoFlightFacts, FlightStep

-----------------------------------------------------------------------------
(* The row and the buyers.                                                 *)
LEMMA NullRowFacts ==
    /\ NullRow \in Row
    /\ NullRow.payload = 0 /\ NullRow.expires = "none" /\ NullRow.token = None
BY DEF NullRow, Row

LEMMA TableSafe ==
    ASSUME CacheInv, Prune \/ Truncate \/ Expire \/ LeaseExpires
    PROVE  CacheInv'
<1>1. UNCHANGED <<version, flight, reader, buyer>>
  BY DEF Prune, Truncate, Expire, LeaseExpires
<1>2. CASE row' = NullRow
  <2>1. RowOK' /\ \A q \in Processes : row'.token # q
    BY <1>2, NullRowFacts, ReadCacheAssumption DEF RowOK, CacheIsCurrent
  <2> QED
    BY <1>1, <2>1, RowStep
<1>3. CASE Expire
  <2>1. row.payload # 0
    BY <1>3, StillOK DEF Expire, RowOK
  <2>2. /\ row' \in Row /\ row'.expires = "expired"
        /\ row'.payload = row.payload /\ row'.token = row.token
    BY <1>3, Facts DEF Expire, Row
  <2>3. RowOK'
    BY <1>1, <2>1, <2>2, StillOK DEF RowOK, CacheIsCurrent
  <2> QED
    BY <1>1, <2>2, <2>3, RowStep
<1>4. CASE LeaseExpires
  <2>1. /\ row' \in Row /\ row'.expires = row.expires
        /\ row'.payload = row.payload /\ row'.token = row.token
    BY <1>4, Facts DEF LeaseExpires, Row
  <2>2. RowOK'
    BY <1>1, <2>1, StillOK DEF RowOK, CacheIsCurrent
  <2> QED
    BY <1>1, <2>1, <2>2, RowStep
<1> QED
  BY <1>2, <1>3, <1>4 DEF Prune, Truncate

BuyerPcs == {"idle", "posting", "posted", "done"}

BuyersOK == buyer \in [Buyers -> [pc : BuyerPcs, seen : Versions \cup {0}]]

LEMMA BuySafe ==
    ASSUME CacheInv, NEW b \in Buyers, InvalidateBefore(b) \/ InvalidateAfter(b)
    PROVE  CacheInv'
<1>1. PICK pc \in BuyerPcs : buyer' = [buyer EXCEPT ![b] = [pc |-> pc, seen |-> version]]
  BY DEF InvalidateBefore, InvalidateAfter, Buy, BuyerPcs
<1>2. row' = NullRow /\ UNCHANGED <<version, flight, reader>>
  BY DEF InvalidateBefore, InvalidateAfter, Buy, Invalidate
<1>3. RowOK' /\ row'.token = None /\ \A q \in Processes : row'.token # q
  BY <1>2, NullRowFacts, ReadCacheAssumption DEF RowOK, CacheIsCurrent
<1>4. BuyersOK
  BY DEF CacheInv, TypeOK, BuyersOK, BuyerPcs
<1>5. BuyersOK'
  BY <1>1, <1>4, Facts DEF BuyersOK
<1>6. \A c \in Buyers : buyer'[c].seen >= buyer[c].seen /\ buyer'[c].seen <= version
  BY <1>1, <1>4, Facts DEF BuyersOK
<1>7. version' \in Versions /\ version' >= version
  BY <1>2, Facts
<1> QED
  BY <1>2, <1>3, <1>5, <1>6, <1>7, BuyerStep DEF BuyersOK, BuyerPcs

LEMMA UpstreamSafe ==
    ASSUME CacheInv, NEW b \in Buyers, Post(b) \/ BuyerCrash(b)
    PROVE  CacheInv'
<1>1. PICK pc \in BuyerPcs : buyer' = [buyer EXCEPT ![b].pc = pc]
  BY DEF Post, BuyerCrash, BuyerPcs
<1>2. UNCHANGED <<row, flight, reader>>
  BY DEF Post, BuyerCrash
<1>3. version' \in Versions /\ version' >= version
  BY Facts DEF Post, BuyerCrash
<1>4. BuyersOK
  BY DEF CacheInv, TypeOK, BuyersOK, BuyerPcs
<1>5. BuyersOK' /\ \A c \in Buyers : buyer'[c].seen = buyer[c].seen
  BY <1>1, <1>4 DEF BuyersOK
<1>6. RowOK'
  BY <1>2, <1>5, StillOK DEF RowOK, CacheIsCurrent
<1>7. \A c \in Buyers : buyer'[c].seen >= buyer[c].seen /\ buyer'[c].seen <= version'
  BY <1>3, <1>5, Facts DEF Versions
<1> QED
  BY <1>2, <1>3, <1>5, <1>6, <1>7, BuyerStep DEF BuyersOK, BuyerPcs

LEMMA DriftSafe ==
    ASSUME CacheInv, Drift
    PROVE  CacheInv'
<1>1. UNCHANGED <<row, flight, reader, buyer>>
  BY DEF Drift
<1>2. version' \in Versions /\ version' >= version
  BY Facts, ReadCacheAssumption DEF Drift, Versions
<1>3. BuyersOK'
  BY <1>1 DEF CacheInv, TypeOK, BuyersOK, BuyerPcs
<1>4. RowOK'
  BY <1>1, StillOK DEF RowOK, CacheIsCurrent
<1>5. \A c \in Buyers : buyer'[c].seen >= buyer[c].seen /\ buyer'[c].seen <= version'
  BY <1>1, <1>2, Facts DEF Versions
<1> QED
  BY <1>1, <1>2, <1>3, <1>4, <1>5, BuyerStep DEF BuyersOK, BuyerPcs

-----------------------------------------------------------------------------
LEMMA NextSafe == CacheInv /\ [Next]_vars => CacheInv'
<1> SUFFICES ASSUME CacheInv, [Next]_vars PROVE CacheInv'
  OBVIOUS
<1>1. CASE UNCHANGED vars
  BY <1>1 DEF vars, CacheInv, TypeOK, HolderOK, FloorOK, CacheIsCurrent, ReadsAreCurrent, At
<1>2. CASE \E r \in Readers : Get(r) \/ GiveUp(r)
  BY <1>2, GetSafe, GiveUpSafe
<1>3. ASSUME NEW p \in Processes,
             \/ ReadHit(p) \/ ReadMiss(p) \/ Claim(p) \/ ClaimMissed(p)
             \/ Load(p) \/ Publish(p) \/ Overtaken(p) \/ Return(p)
             \/ Abort(p) \/ Crash(p)
      PROVE  CacheInv'
  BY <1>3, ReadSafe, ClaimSafe, LoadSafe, PublishSafe, ReturnSafe
<1>4. ASSUME NEW b \in Buyers,
             InvalidateBefore(b) \/ Post(b) \/ InvalidateAfter(b) \/ BuyerCrash(b)
      PROVE  CacheInv'
  BY <1>4, BuySafe, UpstreamSafe
<1>5. CASE Drift \/ Prune \/ Truncate \/ Expire \/ LeaseExpires
  BY <1>5, DriftSafe, TableSafe
<1> QED
  BY <1>1, <1>2, <1>3, <1>4, <1>5 DEF Next

LEMMA InvariantHolds == Spec => []CacheInv
BY InitCorrect, NextSafe, PTL DEF Spec

(* Row, flights, readers and buyers keep their shape, and whoever waits    *)
(* waits for a flight that is there (get, _done).                          *)
THEOREM TypeCorrect == Spec => []TypeOK
<1>1. CacheInv => TypeOK
  BY DEF CacheInv
<1> QED
  BY InvariantHolds, <1>1, PTL

(* No refresh brings back a balance from before an invalidation, whatever  *)
(* processes, crashes, lost leases and purchases come together (_get,      *)
(* invalidate).                                                            *)
THEOREM PublicationsAreCurrent == Spec => []CacheIsCurrent
<1>1. CacheInv => CacheIsCurrent
  BY DEF CacheInv
<1> QED
  BY InvariantHolds, <1>1, PTL

(* What a flight hands to its readers is not older than what had been      *)
(* invalidated when it began.                                              *)
THEOREM AnswersAreCurrent == Spec => []ReadsAreCurrent
<1>1. CacheInv => ReadsAreCurrent
  BY DEF CacheInv
<1> QED
  BY InvariantHolds, <1>1, PTL

(* A live refresh lease changes hands in no step: it is claimed only when  *)
(* it has expired or was cleared (the claim of _get).                      *)
THEOREM LeasesAreRespected == Spec => LiveLeasesStand
<1>1. CacheInv /\ [Next]_vars => [row.until = "live" /\ row'.token # row.token => row'.token = None]_vars
  <2> SUFFICES ASSUME CacheInv, Next, row.until = "live", row'.token # row.token
               PROVE  row'.token = None
    BY DEF vars
  <2>1. row \in Row
    BY Facts
  <2>2. NullRow.token = None
    BY NullRowFacts
  <2>3. CASE \E r \in Readers : Get(r) \/ GiveUp(r)
    BY <2>3 DEF Get, GiveUp
  <2>4. ASSUME NEW p \in Processes,
               \/ ReadHit(p) \/ ReadMiss(p) \/ Claim(p) \/ ClaimMissed(p)
               \/ Load(p) \/ Publish(p) \/ Overtaken(p) \/ Return(p)
               \/ Abort(p) \/ Crash(p)
        PROVE  row'.token = None
    <3>1. CASE Claim(p)
      BY <3>1 DEF Claim, Claimable
    <3>2. CASE Publish(p)
      BY <3>2 DEF Publish
    <3>3. CASE Abort(p)
      <4>1. row' = row \/ row' = [row EXCEPT !.token = None, !.until = "none"]
        BY <3>3 DEF Abort, Released
      <4> QED
        BY <2>1, <4>1 DEF Row
    <3>4. CASE ~(Claim(p) \/ Publish(p) \/ Abort(p))
      BY <2>4, <3>4 DEF ReadHit, ReadMiss, ClaimMissed, Load, Overtaken, Return, Crash
    <3> QED
      BY <3>1, <3>2, <3>3, <3>4
  <2>5. ASSUME NEW b \in Buyers,
               InvalidateBefore(b) \/ Post(b) \/ InvalidateAfter(b) \/ BuyerCrash(b)
        PROVE  row'.token = None
    BY <2>2, <2>5 DEF InvalidateBefore, InvalidateAfter, Buy, Invalidate, Post, BuyerCrash
  <2>6. CASE Drift \/ Prune \/ Truncate \/ Expire \/ LeaseExpires
    BY <2>1, <2>2, <2>6 DEF Drift, Prune, Truncate, Expire, LeaseExpires, Row
  <2> QED
    BY <2>3, <2>4, <2>5, <2>6 DEF Next
<1> QED
  BY InvariantHolds, <1>1, PTL DEF Spec, LiveLeasesStand
=============================================================================
