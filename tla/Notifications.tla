--------------------------- MODULE Notifications ---------------------------
(***************************************************************************)
(* The outbox (services/procurement.py, _notification_once): the events    *)
(* that the order transactions leave in order_notifications, and the       *)
(* senders, the notification consumers of OrderWorker.run.                 *)
(*                                                                         *)
(* A sender claims a due event under a lease in one transaction, calls     *)
(* Telegram outside any transaction, and records the result in another.    *)
(* The lease may run out during the call: then another sender may claim    *)
(* the event, and the token decides whose result is recorded.  As in       *)
(* Procurement the token is the sender that drew it, and time is what the  *)
(* queries compare: due or later; none, live or expired.                   *)
(*                                                                         *)
(* Events of an order are inserted under its row lock, so their ids grow   *)
(* in the order of the commits; the id of an event is its place in outbox. *)
(***************************************************************************)
EXTENDS Integers, Sequences, FiniteSets

CONSTANTS
    Orders,         \* orders that have a buyer to tell
    Story,          \* order -> the events its transactions may store
    Senders,        \* the notification consumers
    None            \* no lease token

Final  == {"fulfilled", "refunded"}
Events == {"review"} \cup Final

ASSUME NotificationsAssumption ==
    /\ None \notin Senders
    /\ Story \in [Orders -> SUBSET Events]

VARIABLES
    outbox,         \* the order_notifications table, by id
    sender,         \* sender -> what it is doing, and with which event
    stray,          \* ids of calls nobody waits for that may still arrive
    arrived         \* order -> ids in the order of their first arrival

vars == <<outbox, sender, stray, arrived>>

Ids == 1..Len(outbox)

Row == [order : Orders, event : Events, sent : BOOLEAN, due : BOOLEAN,
        token : Senders \cup {None}, until : {"none", "live", "expired"}]

NewRow(o, event) ==
    [order |-> o, event |-> event, sent |-> FALSE, due |-> TRUE,
     token |-> None, until |-> "none"]

Idle == [pc |-> "idle", id |-> 0]

At(s, pc) == sender[s].pc = pc
IdOf(s) == sender[s].id
Become(s, pc) == sender' = [sender EXCEPT ![s].pc = pc]

Leave(s) == sender' = [sender EXCEPT ![s] = Idle]
SetRow(i, row) == outbox' = [outbox EXCEPT ![i] = row]

Of(o) == {i \in Ids : outbox[i].order = o}
Earlier(i) == {k \in Of(outbox[i].order) : k < i}

Init ==
    /\ outbox = <<>>
    /\ sender = [s \in Senders |-> Idle]
    /\ stray = {}
    /\ arrived = [o \in Orders |-> <<>>]

-----------------------------------------------------------------------------
(* notify_order: an event is stored once per order (on_conflict_do_nothing *)
(* on order and event), and nothing is stored about a settled order.       *)
Notify(o, event) ==
    /\ \A i \in Of(o) : outbox[i].event \notin Final \cup {event}
    /\ outbox' = Append(outbox, NewRow(o, event))
    /\ UNCHANGED <<sender, stray, arrived>>

(* Fault: the order of the events is not looked at. *)
ReadyUnordered(i) ==
    /\ ~outbox[i].sent /\ outbox[i].due
    /\ outbox[i].until # "live"

(* Fault: an expired lease is never taken over. *)
ReadyUnleased(i) ==
    /\ ~outbox[i].sent /\ outbox[i].due
    /\ outbox[i].until = "none"
    /\ \A k \in Earlier(i) : outbox[k].sent

(* The query of _notification_once. *)
Ready(i) ==
    /\ ~outbox[i].sent /\ outbox[i].due
    /\ outbox[i].until # "live"
    /\ \A k \in Earlier(i) : outbox[k].sent

Claim(s, i) ==
    /\ At(s, "idle")
    /\ i \in Ids /\ Ready(i)
    /\ SetRow(i, [outbox[i] EXCEPT !.token = s, !.until = "live"])
    /\ sender' = [sender EXCEPT ![s] = [pc |-> "sending", id |-> i]]
    /\ UNCHANGED <<stray, arrived>>

-----------------------------------------------------------------------------
(* send_message: the buyer gets the message, and the call returns or       *)
(* raises; it may raise although the message arrived, or will.             *)
Seen(i) ==
    LET o == outbox[i].order IN
    IF \E k \in 1..Len(arrived[o]) : arrived[o][k] = i
    THEN UNCHANGED arrived
    ELSE arrived' = [arrived EXCEPT ![o] = Append(@, i)]

Arrive(s) ==
    /\ At(s, "sending")
    /\ Seen(IdOf(s))
    /\ Become(s, "arrived")
    /\ UNCHANGED <<outbox, stray>>

Succeed(s) ==
    /\ At(s, "arrived")
    /\ Become(s, "sent")
    /\ UNCHANGED <<outbox, stray, arrived>>

(* A call that is given up before the message arrived leaves it on its way. *)
LeftBehind(s) == stray' = IF At(s, "sending") THEN stray \cup {IdOf(s)} ELSE stray

Fail(s) ==
    /\ At(s, "sending") \/ At(s, "arrived")
    /\ Become(s, "failed")
    /\ LeftBehind(s)
    /\ UNCHANGED <<outbox, arrived>>

-----------------------------------------------------------------------------
(* Fault: the result is recorded without the token. *)
RecordUnfenced(s) ==
    LET i == IdOf(s) IN
    /\ At(s, "sent") \/ At(s, "failed")
    /\ SetRow(i, [outbox[i] EXCEPT !.sent = At(s, "sent"), !.due = FALSE,
                                   !.token = None, !.until = "none"])
    /\ Leave(s)
    /\ UNCHANGED <<stray, arrived>>

(* The second transaction: only the holder of the token writes. *)
Record(s) ==
    LET i == IdOf(s) IN
    /\ At(s, "sent") \/ At(s, "failed")
    /\ SetRow(i, IF outbox[i].token = s
                 THEN [outbox[i] EXCEPT !.sent = At(s, "sent"), !.due = FALSE,
                                        !.token = None, !.until = "none"]
                 ELSE outbox[i])
    /\ Leave(s)
    /\ UNCHANGED <<stray, arrived>>

(* The sender stops: an exception in a transaction, a cancelled task, the  *)
(* end of the process.                                                     *)
Crash(s) ==
    /\ ~At(s, "idle")
    /\ Leave(s)
    /\ LeftBehind(s)
    /\ UNCHANGED <<outbox, arrived>>

StrayArrives(i) ==
    /\ i \in stray
    /\ Seen(i)
    /\ stray' = stray \ {i}
    /\ UNCHANGED <<outbox, sender>>

StrayLost(i) ==
    /\ i \in stray
    /\ stray' = stray \ {i}
    /\ UNCHANGED <<outbox, sender, arrived>>

(* Time passes; nothing looks at the time of an event that was sent. *)
FallDue(i) ==
    /\ i \in Ids /\ ~outbox[i].due /\ ~outbox[i].sent
    /\ SetRow(i, [outbox[i] EXCEPT !.due = TRUE])
    /\ UNCHANGED <<sender, stray, arrived>>

LeaseExpires(i) ==
    /\ i \in Ids /\ outbox[i].until = "live"
    /\ SetRow(i, [outbox[i] EXCEPT !.until = "expired"])
    /\ UNCHANGED <<sender, stray, arrived>>

-----------------------------------------------------------------------------
Next ==
    \/ \E o \in Orders : \E event \in Story[o] : Notify(o, event)
    \/ \E s \in Senders :
        \/ \E i \in Ids : Claim(s, i)
        \/ Arrive(s) \/ Succeed(s) \/ Fail(s) \/ Record(s) \/ Crash(s)
    \/ \E i \in Ids :
        StrayArrives(i) \/ StrayLost(i) \/ FallDue(i) \/ LeaseExpires(i)

Spec == Init /\ [][Next]_vars

(* Time passes, and a sender does not stand still: a call has a timeout, a *)
(* transaction ends.  Senders poll for ever and take the event that has    *)
(* waited longest, so an event that is ready again and again is claimed;   *)
(* and a message that is sent again and again under a lease is delivered   *)
(* and recorded in the end, which is what an outbox can hope for.          *)
Holds(s) == IdOf(s) \in Ids /\ outbox[IdOf(s)].token = s

Sent(s, i) == IdOf(s) = i /\ Holds(s) /\ (Arrive(s) \/ Succeed(s) \/ (At(s, "sent") /\ Record(s)))

Fairness ==
    /\ \A s \in Senders : WF_vars(Arrive(s) \/ Succeed(s) \/ Fail(s) \/ Record(s))
    /\ \A i \in 1..(2 * Cardinality(Orders)) :
        /\ WF_vars(FallDue(i)) /\ WF_vars(LeaseExpires(i))
        /\ SF_vars(\E s \in Senders : Claim(s, i))
        /\ SF_vars(\E s \in Senders : Sent(s, i) /\ At(s, "sending"))
        /\ SF_vars(\E s \in Senders : Sent(s, i) /\ At(s, "arrived"))
        /\ SF_vars(\E s \in Senders : Sent(s, i) /\ At(s, "sent"))

FairSpec == Spec /\ Fairness

-----------------------------------------------------------------------------
TypeOK ==
    /\ outbox \in Seq(Row)
    /\ sender \in [Senders -> [pc : {"idle", "sending", "arrived", "sent", "failed"},
                              id : {0} \cup Ids]]
    /\ \A s \in Senders : At(s, "idle") <=> IdOf(s) = 0
    /\ stray \subseteq Ids
    /\ arrived \in [Orders -> Seq(Ids)]

(* The buyer reads of a review before the delivery or refund that ended    *)
(* it: the first arrivals are in the order of the ids and without a gap,   *)
(* although each call can fail, repeat, or arrive late (the subquery for   *)
(* earlier events in _notification_once).                                  *)
ReadInOrder ==
    \A o \in Orders : \A n \in 1..Len(arrived[o]) :
        /\ arrived[o][n] \in Of(o)
        /\ \A k \in Of(o) :
            k < arrived[o][n] => \E m \in 1..(n - 1) : arrived[o][m] = k

(* An event is marked as sent only when the buyer has it (sent_at is       *)
(* written from the outcome of the call whose claim is still current).     *)
SentMeansArrived ==
    \A i \in Ids : outbox[i].sent =>
        \E n \in 1..Len(arrived[outbox[i].order]) : arrived[outbox[i].order][n] = i

(* A sender that wakes up after its lease ran out neither takes back what  *)
(* another recorded nor ends the other's claim (row.lease_token == token). *)
LateSendersWriteNothing ==
    [][\A i \in Ids :
        /\ outbox[i].sent => outbox'[i].sent
        /\ outbox'[i].token # outbox[i].token =>
            \/ \E s \in Senders : outbox'[i].token = s /\ outbox[i].until # "live"
            \/ outbox'[i].token = None /\ \E s \in Senders :
                    outbox[i].token = s /\ IdOf(s) = i /\ sender'[s] = Idle]_vars

(* The outbox implements the mailbox: read in the order of writing, and    *)
(* (under FairSpec) everything that is written is read.                    *)
Mail == INSTANCE Mailbox WITH
    Messages <- Events,
    posted <- [o \in Orders |->
                 LET Mine(row) == row.order = o
                     mine == SelectSeq(outbox, Mine)
                 IN  [n \in 1..Len(mine) |-> mine[n].event]],
    read <- [o \in Orders |-> [n \in 1..Len(arrived[o]) |-> outbox[arrived[o][n]].event]]

ImplementsMailbox == Mail!Spec

(* Every event is marked as sent in the end, so none of them holds up the  *)
(* events behind it for ever or is repeated for ever.                      *)
EverythingIsSent ==
    \A i \in 1..(2 * Cardinality(Orders)) : i \in Ids ~> i \in Ids /\ outbox[i].sent
=============================================================================
