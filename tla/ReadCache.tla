----------------------------- MODULE ReadCache -----------------------------
(***************************************************************************)
(* The read cache of upstream balances (services/upstream_cache.py) as     *)
(* services/cached_upstream.py uses it: readers ask for the balance, the   *)
(* first reader of a process starts a flight which the others join, and a  *)
(* row in PostgreSQL lets one flight of all processes refresh the value.   *)
(* A purchase changes the balance at the upstream and invalidates the row  *)
(* before and after its POST.                                              *)
(*                                                                         *)
(* The balance is its version at the upstream, 0 for NULL.  A row that is  *)
(* absent and a row of NULLs are the same to every statement.  The token   *)
(* is the process whose flight drew it: a process has one flight per key,  *)
(* and a flight publishes nothing before it has claimed the row anew.      *)
(***************************************************************************)
EXTENDS Integers

CONSTANTS
    Processes,
    Readers,        \* calls of get_balance
    Buyers,         \* calls of submit_order
    ProcessOf,      \* reader -> its process
    None,           \* no refresh token
    MaxVersion      \* bound: the balance changes no further

ASSUME ReadCacheAssumption ==
    /\ ProcessOf \in [Readers -> Processes]
    /\ None \notin Processes
    /\ MaxVersion \in Nat \ {0}

VARIABLES
    version,        \* the balance at the upstream
    row,            \* the row of the key in upstream_cache
    flight,         \* process -> its running refresh (_flights)
    reader,         \* reader -> what it is doing
    buyer           \* buyer -> what it is doing, and what it last invalidated

vars == <<version, row, flight, reader, buyer>>

Versions == 1..MaxVersion

Row == [payload : Versions \cup {0}, expires : {"none", "fresh", "expired"},
        token : Processes \cup {None}, until : {"none", "live", "expired"}]

NullRow == [payload |-> 0, expires |-> "none", token |-> None, until |-> "none"]

(* floor is what the buyers had invalidated when the flight began.         *)
Flight == [pc : {"none", "reading", "claiming", "loading", "loaded", "returning"},
           value : Versions \cup {0}, floor : [Buyers -> Versions \cup {0}]]

NoFlight == [pc |-> "none", value |-> 0, floor |-> [b \in Buyers |-> 0]]

Invalidated == [b \in Buyers |-> buyer[b].seen]

Init ==
    /\ version = 1
    /\ row = NullRow
    /\ flight = [p \in Processes |-> NoFlight]
    /\ reader = [r \in Readers |-> "idle"]
    /\ buyer = [b \in Buyers |-> [pc |-> "idle", seen |-> 0]]

At(p, pc) == flight[p].pc = pc
Become(p, pc) == flight' = [flight EXCEPT ![p].pc = pc]
Holding(p, pc, value) == flight' = [flight EXCEPT ![p].pc = pc, ![p].value = value]

Waiting(p) == {r \in Readers : ProcessOf[r] = p /\ reader[r] = "waiting"}
Answer(p, outcome) == reader' = [r \in Readers |-> IF r \in Waiting(p) THEN outcome ELSE reader[r]]

-----------------------------------------------------------------------------
(* get: one flight per process and key; a reader that gives up leaves the  *)
(* flight to the others (asyncio.shield).                                  *)
Get(r) ==
    LET p == ProcessOf[r] IN
    /\ reader[r] = "idle"
    /\ reader' = [reader EXCEPT ![r] = "waiting"]
    /\ flight' = IF At(p, "none")
                 THEN [flight EXCEPT ![p] = [NoFlight EXCEPT !.pc = "reading",
                                                             !.floor = Invalidated]]
                 ELSE flight
    /\ UNCHANGED <<version, row, buyer>>

GiveUp(r) ==
    /\ reader[r] = "waiting"
    /\ reader' = [reader EXCEPT ![r] = "failed"]
    /\ UNCHANGED <<version, row, flight, buyer>>

(* _done: the flight is forgotten and everybody who waits has its result.  *)
Return(p) ==
    /\ At(p, "returning")
    /\ flight' = [flight EXCEPT ![p] = NoFlight]
    /\ Answer(p, "answered")
    /\ UNCHANGED <<version, row, buyer>>

-----------------------------------------------------------------------------
(* _get: read the row, else claim it, load, publish, or begin again.       *)
Hit == row.expires = "fresh" /\ row.payload # 0

ReadHit(p) ==
    /\ At(p, "reading") /\ Hit
    /\ Holding(p, "returning", row.payload)
    /\ UNCHANGED <<version, row, reader, buyer>>

ReadMiss(p) ==
    /\ At(p, "reading") /\ ~Hit
    /\ Become(p, "claiming")
    /\ UNCHANGED <<version, row, reader, buyer>>

(* Fault: an expired lease is not taken over. *)
ClaimableUnleased == row.expires # "fresh" /\ row.until = "none"

Claimable == row.expires # "fresh" /\ row.until # "live"

Claim(p) ==
    /\ At(p, "claiming") /\ Claimable
    /\ row' = [row EXCEPT !.token = p, !.until = "live"]
    /\ Become(p, "loading")
    /\ UNCHANGED <<version, reader, buyer>>

ClaimMissed(p) ==
    /\ At(p, "claiming") /\ ~Claimable
    /\ Become(p, "reading")
    /\ UNCHANGED <<version, row, reader, buyer>>

Load(p) ==
    /\ At(p, "loading")
    /\ Holding(p, "loaded", version)
    /\ UNCHANGED <<version, row, reader, buyer>>

(* Fault: the token is not compared. *)
PublishUnfenced(p) ==
    /\ At(p, "loaded")
    /\ row' = [payload |-> flight[p].value, expires |-> "fresh",
               token |-> None, until |-> "none"]
    /\ Become(p, "returning")
    /\ UNCHANGED <<version, reader, buyer>>

Publish(p) ==
    /\ At(p, "loaded") /\ row.token = p
    /\ row' = [payload |-> flight[p].value, expires |-> "fresh",
               token |-> None, until |-> "none"]
    /\ Become(p, "returning")
    /\ UNCHANGED <<version, reader, buyer>>

(* An invalidation or another lease has replaced the token: nothing is     *)
(* written, and the flight begins again.                                   *)
Overtaken(p) ==
    /\ At(p, "loaded") /\ row.token # p
    /\ Become(p, "reading")
    /\ UNCHANGED <<version, row, reader, buyer>>

(* The call fails, the flight times out or is closed: the token is cleared *)
(* if it is still the flight's own, and everybody who waits has the error. *)
Released(p) == IF row.token = p THEN [row EXCEPT !.token = None, !.until = "none"] ELSE row

Abort(p) ==
    /\ ~At(p, "none") /\ ~At(p, "returning")
    /\ row' = IF At(p, "loading") \/ At(p, "loaded") THEN Released(p) ELSE row
    /\ flight' = [flight EXCEPT ![p] = NoFlight]
    /\ Answer(p, "failed")
    /\ UNCHANGED <<version, buyer>>

(* The process ends, or fails to clear the token.                          *)
Crash(p) ==
    /\ ~At(p, "none")
    /\ flight' = [flight EXCEPT ![p] = NoFlight]
    /\ Answer(p, "failed")
    /\ UNCHANGED <<version, row, buyer>>

-----------------------------------------------------------------------------
(* submit_order: invalidate, POST, invalidate whatever the outcome.        *)
(* Fault: the token of a running refresh survives. *)
InvalidateValue == row' = [row EXCEPT !.payload = 0, !.expires = "none"]

Invalidate == row' = NullRow

Buy(b, from, to) ==
    /\ buyer[b].pc = from
    /\ Invalidate
    /\ buyer' = [buyer EXCEPT ![b] = [pc |-> to, seen |-> version]]
    /\ UNCHANGED <<version, flight, reader>>

InvalidateBefore(b) == Buy(b, "idle", "posting")
InvalidateAfter(b) == Buy(b, "posted", "done")

(* The POST is processed, or is not, and its answer comes or does not.     *)
Post(b) ==
    /\ buyer[b].pc = "posting"
    /\ version' \in {version, version + 1} \cap Versions
    /\ buyer' = [buyer EXCEPT ![b].pc = "posted"]
    /\ UNCHANGED <<row, flight, reader>>

(* A buyer whose process ends does not invalidate again.                   *)
BuyerCrash(b) ==
    /\ buyer[b].pc \in {"posting", "posted"}
    /\ buyer' = [buyer EXCEPT ![b].pc = "done"]
    /\ UNCHANGED <<version, row, flight, reader>>

(* The balance changes without our doing, or by a POST nobody waits for.   *)
Drift ==
    /\ version < MaxVersion
    /\ version' = version + 1
    /\ UNCHANGED <<row, flight, reader, buyer>>

-----------------------------------------------------------------------------
(* prune: rows that expired long ago and that nobody is refreshing.        *)
Prune ==
    /\ row.expires = "expired" /\ row.until # "live"
    /\ row' = NullRow
    /\ UNCHANGED <<version, flight, reader, buyer>>

(* The table is UNLOGGED: a crash of the database empties it.              *)
Truncate ==
    /\ row' = NullRow
    /\ UNCHANGED <<version, flight, reader, buyer>>

Expire ==
    /\ row.expires = "fresh"
    /\ row' = [row EXCEPT !.expires = "expired"]
    /\ UNCHANGED <<version, flight, reader, buyer>>

LeaseExpires ==
    /\ row.until = "live"
    /\ row' = [row EXCEPT !.until = "expired"]
    /\ UNCHANGED <<version, flight, reader, buyer>>

-----------------------------------------------------------------------------
Next ==
    \/ \E r \in Readers : Get(r) \/ GiveUp(r)
    \/ \E p \in Processes :
        \/ ReadHit(p) \/ ReadMiss(p) \/ Claim(p) \/ ClaimMissed(p)
        \/ Load(p) \/ Publish(p) \/ Overtaken(p) \/ Return(p)
        \/ Abort(p) \/ Crash(p)
    \/ \E b \in Buyers :
        InvalidateBefore(b) \/ Post(b) \/ InvalidateAfter(b) \/ BuyerCrash(b)
    \/ Drift \/ Prune \/ Truncate \/ Expire \/ LeaseExpires

Spec == Init /\ [][Next]_vars

(* A flight runs and its call is answered; a lease expires, but outlasts a *)
(* call (70 seconds by default) if only it is taken often enough.  Nothing *)
(* is assumed of failures: no flight need ever time out.                   *)
Fairness ==
    /\ WF_vars(LeaseExpires)
    /\ \A p \in Processes :
        /\ WF_vars(\/ ReadHit(p) \/ ReadMiss(p) \/ Claim(p) \/ ClaimMissed(p)
                   \/ Load(p) \/ Publish(p) \/ Overtaken(p) \/ Return(p))
        /\ SF_vars(Claim(p))
        /\ SF_vars(row.token = p /\ Load(p))
        /\ SF_vars(Publish(p))

FairSpec == Spec /\ Fairness

-----------------------------------------------------------------------------
TypeOK ==
    /\ version \in Versions
    /\ row \in Row
    /\ flight \in [Processes -> Flight]
    /\ reader \in [Readers -> {"idle", "waiting", "answered", "failed"}]
    /\ buyer \in [Buyers -> [pc : {"idle", "posting", "posted", "done"},
                             seen : Versions \cup {0}]]
    /\ row.payload = 0 <=> row.expires = "none"
    /\ \A r \in Readers : reader[r] = "waiting" => ~At(ProcessOf[r], "none")

(* What the row holds is not older than the last invalidation of any       *)
(* purchase: a request that left before it cannot bring its balance back   *)
(* (the tokens compared by _get, and cleared by invalidate).               *)
CacheIsCurrent ==
    \A b \in Buyers : row.payload # 0 => row.payload >= buyer[b].seen

(* What a flight returns is not older than the purchases that had been     *)
(* invalidated when it began, whether it read the row or loaded it.        *)
ReadsAreCurrent ==
    \A p \in Processes, b \in Buyers :
        At(p, "returning") => flight[p].value >= flight[p].floor[b]

(* All processes together ask the upstream once at a time: a live lease is *)
(* never taken over, it only ends, by its owner or by an invalidation.     *)
LiveLeasesStand ==
    [][row.until = "live" /\ row'.token # row.token => row'.token = None]_vars

(* Every reader is answered or has given up, whatever crashed while it     *)
(* held the lease and however often its flight is overtaken.               *)
ReadersAreAnswered ==
    \A r \in Readers : reader[r] = "waiting" ~> reader[r] \in {"answered", "failed"}
=============================================================================
