------------------------ MODULE NotificationsProofs ------------------------
(***************************************************************************)
(* Proofs about Notifications: for any orders, events and senders the      *)
(* first arrivals are in the order of the ids, although every call can     *)
(* fail, repeat or arrive late.                                            *)
(*                                                                         *)
(* The argument is about what a claim has seen: all earlier events of its  *)
(* order had been sent, and what was sent had arrived.  That stays so for  *)
(* as long as the message may be on its way, after a crash and after the   *)
(* lease has gone to another sender as well, because neither an arrival    *)
(* nor the place of an event in the outbox is ever taken back.             *)
(***************************************************************************)
EXTENDS Notifications, TLAPS, SequenceTheorems

USE NotificationsAssumption

SenderPcs == {"idle", "sending", "arrived", "sent", "failed"}

HasArrived(i) ==
    \E n \in 1..Len(arrived[outbox[i].order]) : arrived[outbox[i].order][n] = i

(* The buyer has everything that comes before this event. *)
Cleared(i) == \A k \in Earlier(i) : HasArrived(k)

(* A message on its way is of a cleared event; one whose call went through *)
(* has arrived.                                                            *)
SendersOK ==
    \A s \in Senders, i \in Ids : IdOf(s) = i =>
        /\ Cleared(i)
        /\ At(s, "arrived") \/ At(s, "sent") => HasArrived(i)

StrayOK == \A i \in stray : Cleared(i)

(* What was sent is left alone: nobody holds a token for it any more.      *)
SentOK == \A i \in Ids : outbox[i].sent => outbox[i].token = None

OutboxInv ==
    TypeOK /\ SendersOK /\ StrayOK /\ SentOK /\ SentMeansArrived /\ ReadInOrder

(* What the types say of the outbox, the senders and the buyers. *)
LEMMA Facts ==
    ASSUME TypeOK
    PROVE  /\ outbox \in Seq(Row) /\ Len(outbox) \in Nat
           /\ \A i \in Ids : outbox[i] \in Row /\ i \in Nat \ {0} /\ outbox[i].order \in Orders
           /\ sender \in [Senders -> [pc : SenderPcs, id : {0} \cup Ids]]
           /\ \A s \in Senders : At(s, "idle") <=> IdOf(s) = 0
           /\ \A s \in Senders : ~At(s, "idle") => IdOf(s) \in Ids
           /\ stray \subseteq Ids
           /\ arrived \in [Orders -> Seq(Ids)]
           /\ \A o \in Orders : Len(arrived[o]) \in Nat
<1>1. /\ outbox \in Seq(Row) /\ stray \subseteq Ids /\ arrived \in [Orders -> Seq(Ids)]
      /\ sender \in [Senders -> [pc : SenderPcs, id : {0} \cup Ids]]
      /\ \A s \in Senders : At(s, "idle") <=> IdOf(s) = 0
  BY DEF TypeOK, SenderPcs
<1>2. Len(outbox) \in Nat /\ \A i \in 1..Len(outbox) : outbox[i] \in Row
  BY <1>1, LenProperties, ElementOfSeq
<1>3. \A o \in Orders : Len(arrived[o]) \in Nat
  BY <1>1, LenProperties
<1>4. \A i \in Ids : outbox[i] \in Row /\ i \in Nat \ {0} /\ outbox[i].order \in Orders
  BY <1>2 DEF Ids, Row
<1>5. \A s \in Senders : ~At(s, "idle") => IdOf(s) \in Ids
  BY <1>1 DEF IdOf
<1> QED
  BY <1>1, <1>2, <1>3, <1>4, <1>5

-----------------------------------------------------------------------------
(* What the steps write.                                                   *)
LEMMA RowFacts ==
    ASSUME TypeOK, NEW i \in Ids, NEW r \in Row, SetRow(i, r)
    PROVE  /\ outbox' \in Seq(Row) /\ Len(outbox') = Len(outbox) /\ Ids' = Ids
           /\ outbox'[i] = r
           /\ \A j \in Ids : j # i => outbox'[j] = outbox[j]
<1>1. outbox \in Seq(Row) /\ i \in 1..Len(outbox)
  BY Facts DEF Ids
<1>2. /\ outbox' \in Seq(Row) /\ Len(outbox') = Len(outbox)
      /\ \A j \in 1..Len(outbox) : outbox'[j] = IF j = i THEN r ELSE outbox[j]
  BY <1>1, ExceptSeq DEF SetRow
<1> QED
  BY <1>1, <1>2 DEF Ids

(* A new event comes last, and is not sent. *)
LEMMA NewFacts ==
    ASSUME TypeOK, NEW o \in Orders, NEW event \in Story[o], Notify(o, event)
    PROVE  /\ outbox' \in Seq(Row) /\ Len(outbox') = Len(outbox) + 1
           /\ Ids' = Ids \cup {Len(outbox) + 1}
           /\ ~outbox'[Len(outbox) + 1].sent
           /\ \A j \in Ids : outbox'[j] = outbox[j]
<1>1. outbox \in Seq(Row) /\ Len(outbox) \in Nat
  BY Facts
<1>2. NewRow(o, event) \in Row /\ ~NewRow(o, event).sent
  BY DEF NewRow, Row
<1>3. outbox' = Append(outbox, NewRow(o, event))
  BY DEF Notify
<1>4. /\ outbox' \in Seq(Row) /\ Len(outbox') = Len(outbox) + 1
      /\ outbox'[Len(outbox) + 1] = NewRow(o, event)
      /\ \A j \in 1..Len(outbox) : outbox'[j] = outbox[j]
  BY <1>1, <1>2, <1>3, AppendProperties
<1> QED
  BY <1>1, <1>2, <1>4 DEF Ids

(* A claim writes its token to a row not yet sent. *)
LEMMA ClaimWrites ==
    ASSUME TypeOK, NEW s \in Senders, NEW i \in Ids, Claim(s, i)
    PROVE  \E r \in Row : /\ SetRow(i, r) /\ r.order = outbox[i].order
                          /\ ~r.sent /\ r.token = s
<1>1. outbox[i] \in Row /\ ~outbox[i].sent
  BY Facts DEF Claim, Ready
<1>2. LET r == [outbox[i] EXCEPT !.token = s, !.until = "live"]
      IN  r \in Row /\ r.order = outbox[i].order /\ ~r.sent /\ r.token = s
  BY <1>1 DEF Row
<1> QED
  BY <1>2 DEF Claim

(* Only the holder of the token records anything. *)
LEMMA RecordWrites ==
    ASSUME TypeOK, NEW s \in Senders, NEW i \in Ids, IdOf(s) = i, Record(s)
    PROVE  \E r \in Row :
              /\ SetRow(i, r)
              /\ outbox[i].token # s => r = outbox[i]
              /\ outbox[i].token = s =>
                    r.order = outbox[i].order /\ r.token = None /\ (r.sent <=> At(s, "sent"))
<1>1. outbox[i] \in Row
  BY Facts
<1>2. LET r == [outbox[i] EXCEPT !.sent = At(s, "sent"), !.due = FALSE,
                                 !.token = None, !.until = "none"]
      IN  /\ r \in Row /\ r.order = outbox[i].order
          /\ r.token = None /\ (r.sent <=> At(s, "sent"))
  BY <1>1 DEF Row, At
<1>3. CASE outbox[i].token = s
  BY <1>2, <1>3 DEF Record
<1>4. CASE outbox[i].token # s
  BY <1>1, <1>4 DEF Record
<1> QED
  BY <1>3, <1>4

(* The clock touches neither what was sent nor the token. *)
LEMMA TimeWrites ==
    ASSUME TypeOK, NEW i \in Ids, FallDue(i) \/ LeaseExpires(i)
    PROVE  \E r \in Row : /\ SetRow(i, r) /\ r.order = outbox[i].order
                          /\ r.sent = outbox[i].sent /\ r.token = outbox[i].token
<1>1. outbox[i] \in Row
  BY Facts
<1>2. LET r == [outbox[i] EXCEPT !.due = TRUE]
      IN  /\ r \in Row /\ r.order = outbox[i].order
          /\ r.sent = outbox[i].sent /\ r.token = outbox[i].token
  BY <1>1 DEF Row
<1>3. LET r == [outbox[i] EXCEPT !.until = "expired"]
      IN  /\ r \in Row /\ r.order = outbox[i].order
          /\ r.sent = outbox[i].sent /\ r.token = outbox[i].token
  BY <1>1 DEF Row
<1> QED
  BY <1>2, <1>3 DEF FallDue, LeaseExpires

(* One sender moves on, or is done. *)
LEMMA SenderFacts ==
    ASSUME TypeOK, NEW s \in Senders
    PROVE  /\ \A pc \in SenderPcs \ {"idle"} : ~At(s, "idle") /\ Become(s, pc) =>
                 /\ sender' \in [Senders -> [pc : SenderPcs, id : {0} \cup Ids]]
                 /\ sender'[s].pc = pc /\ sender'[s].id = IdOf(s)
                 /\ \A t \in Senders : t # s => sender'[t] = sender[t]
           /\ Leave(s) =>
                 /\ sender' \in [Senders -> [pc : SenderPcs, id : {0} \cup Ids]]
                 /\ sender'[s].pc = "idle" /\ sender'[s].id = 0 /\ sender'[s] = Idle
                 /\ \A t \in Senders : t # s => sender'[t] = sender[t]
<1>1. sender \in [Senders -> [pc : SenderPcs, id : {0} \cup Ids]]
  BY Facts
<1>2. ASSUME NEW pc \in SenderPcs \ {"idle"}, Become(s, pc)
      PROVE  /\ sender' \in [Senders -> [pc : SenderPcs, id : {0} \cup Ids]]
             /\ sender'[s].pc = pc /\ sender'[s].id = IdOf(s)
             /\ \A t \in Senders : t # s => sender'[t] = sender[t]
  BY <1>1, <1>2 DEF Become, IdOf
<1>3. ASSUME Leave(s)
      PROVE  /\ sender' \in [Senders -> [pc : SenderPcs, id : {0} \cup Ids]]
             /\ sender'[s].pc = "idle" /\ sender'[s].id = 0 /\ sender'[s] = Idle
             /\ \A t \in Senders : t # s => sender'[t] = sender[t]
  BY <1>1, <1>3 DEF Leave, Idle, SenderPcs
<1> QED
  BY <1>2, <1>3

(* A message arrives for the first time, or once more. *)
LEMMA SeenFacts ==
    ASSUME TypeOK, NEW i \in Ids, Seen(i)
    PROVE  LET o == outbox[i].order
           IN  \/ HasArrived(i) /\ arrived' = arrived
               \/ /\ arrived' \in [Orders -> Seq(Ids)]
                  /\ Len(arrived'[o]) = Len(arrived[o]) + 1
                  /\ arrived'[o][Len(arrived[o]) + 1] = i
                  /\ \A n \in 1..Len(arrived[o]) : arrived'[o][n] = arrived[o][n]
                  /\ \A p \in Orders : p # o => arrived'[p] = arrived[p]
<1> DEFINE o == outbox[i].order
<1>1. /\ o \in Orders /\ arrived \in [Orders -> Seq(Ids)] /\ arrived[o] \in Seq(Ids)
  BY Facts
<1>2. CASE HasArrived(i)
  BY <1>2 DEF Seen, HasArrived
<1>3. CASE ~HasArrived(i)
  <2>1. arrived' = [arrived EXCEPT ![o] = Append(@, i)]
    BY <1>3 DEF Seen, HasArrived
  <2>2. arrived'[o] = Append(arrived[o], i)
    BY <1>1, <2>1
  <2>3. /\ arrived'[o] \in Seq(Ids) /\ Len(arrived'[o]) = Len(arrived[o]) + 1
        /\ arrived'[o][Len(arrived[o]) + 1] = i
        /\ \A n \in 1..Len(arrived[o]) : arrived'[o][n] = arrived[o][n]
    BY <1>1, <2>2, AppendProperties
  <2>4. \A p \in Orders : p # o => arrived'[p] = arrived[p]
    BY <1>1, <2>1
  <2>5. arrived' \in [Orders -> Seq(Ids)]
    BY <1>1, <2>1, <2>2, <2>3
  <2> QED
    BY <2>3, <2>4, <2>5
<1> QED
  BY <1>2, <1>3

-----------------------------------------------------------------------------
(* No step takes a row or an arrival back.                                 *)
RowsKept ==
    /\ Ids \subseteq Ids'
    /\ \A j \in Ids' \ Ids, i \in Ids : i < j
    /\ \A j \in Ids : outbox'[j].order = outbox[j].order

ArrivalsKept ==
    \A p \in Orders : \A n \in 1..Len(arrived[p]) :
        n \in 1..Len(arrived'[p]) /\ arrived'[p][n] = arrived[p][n]

(* The parts of the invariant. *)
LEMMA InvFacts ==
    ASSUME OutboxInv
    PROVE  TypeOK /\ SendersOK /\ StrayOK /\ SentOK /\ SentMeansArrived /\ ReadInOrder
BY DEF OutboxInv

(* What has arrived has arrived for good, and what is cleared stays so.    *)
LEMMA Kept ==
    ASSUME TypeOK, RowsKept, ArrivalsKept, NEW i \in Ids
    PROVE  /\ HasArrived(i) => HasArrived(i)'
           /\ Cleared(i) => Cleared(i)'
<1>1. ASSUME NEW j \in Ids, HasArrived(j) PROVE HasArrived(j)'
  <2>1. /\ outbox[j].order \in Orders
        /\ outbox'[j].order = outbox[j].order
    BY Facts DEF RowsKept
  <2>2. PICK n \in 1..Len(arrived[outbox[j].order]) : arrived[outbox[j].order][n] = j
    BY <1>1 DEF HasArrived
  <2>3. n \in 1..Len(arrived'[outbox[j].order]) /\ arrived'[outbox[j].order][n] = j
    BY <2>1, <2>2 DEF ArrivalsKept
  <2> QED
    BY <2>1, <2>3 DEF HasArrived
<1>2. Earlier(i)' = Earlier(i) /\ Earlier(i) \subseteq Ids
  <2>1. \A k \in Ids' : k < i => k \in Ids
    <3>1. ASSUME NEW k \in Ids', k < i, k \notin Ids PROVE FALSE
      <4>1. i < k
        BY <3>1 DEF RowsKept
      <4>2. k \in Int /\ i \in Int
        BY DEF Ids
      <4> QED
        BY <3>1, <4>1, <4>2
    <3> QED
      BY <3>1
  <2>2. /\ outbox'[i].order = outbox[i].order /\ Ids \subseteq Ids'
        /\ \A k \in Ids : outbox'[k].order = outbox[k].order
    BY DEF RowsKept
  <2> QED
    BY <2>1, <2>2 DEF Earlier, Of
<1>3. ASSUME Cleared(i) PROVE Cleared(i)'
  BY <1>1, <1>2, <1>3 DEF Cleared
<1> QED
  BY <1>1, <1>3

(* One sender moves, with an event that is cleared.                        *)
LEMMA SendersStep ==
    ASSUME OutboxInv, RowsKept, ArrivalsKept, NEW s \in Senders,
           \A t \in Senders : t # s => sender'[t] = sender[t],
           \A i \in Ids' : sender'[s].id = i =>
              /\ i \in Ids /\ Cleared(i)
              /\ sender'[s].pc \in {"arrived", "sent"} => HasArrived(i)'
    PROVE  SendersOK'
<1>1. TypeOK /\ SendersOK
  BY InvFacts
<1>2. ASSUME NEW t \in Senders, t # s, NEW i \in Ids', sender'[t].id = i
      PROVE  Cleared(i)' /\ (sender'[t].pc \in {"arrived", "sent"} => HasArrived(i)')
  <2>1. sender'[t] = sender[t] /\ sender[t].id \in {0} \cup Ids
    BY <1>1, <1>2, Facts
  <2>2. i \in Ids
    <3>1. i # 0
      BY DEF Ids
    <3> QED
      BY <1>2, <2>1, <3>1
  <2>3. Cleared(i) /\ (sender[t].pc \in {"arrived", "sent"} => HasArrived(i))
    BY <1>1, <1>2, <2>1, <2>2 DEF SendersOK, IdOf, At
  <2> QED
    BY <1>1, <2>1, <2>2, <2>3, Kept
<1>3. ASSUME NEW i \in Ids', sender'[s].id = i
      PROVE  Cleared(i)' /\ (sender'[s].pc \in {"arrived", "sent"} => HasArrived(i)')
  BY <1>1, <1>3, Kept
<1> QED
  BY <1>2, <1>3 DEF SendersOK, IdOf, At

(* What the senders have seen stays true while rows and arrivals are kept. *)
LEMMA SendersStill ==
    ASSUME OutboxInv, RowsKept, ArrivalsKept, sender' = sender
    PROVE  SendersOK'
<1>1. TypeOK /\ SendersOK
  BY InvFacts
<1>2. ASSUME NEW t \in Senders, NEW i \in Ids', sender'[t].id = i
      PROVE  Cleared(i)' /\ (sender'[t].pc \in {"arrived", "sent"} => HasArrived(i)')
  <2>1. sender[t].id \in {0} \cup Ids /\ i # 0
    BY <1>1, Facts DEF Ids
  <2>2. i \in Ids
    BY <1>2, <2>1
  <2>3. Cleared(i) /\ (sender[t].pc \in {"arrived", "sent"} => HasArrived(i))
    BY <1>1, <1>2, <2>2 DEF SendersOK, IdOf, At
  <2> QED
    BY <1>1, <2>2, <2>3, Kept
<1> QED
  BY <1>2 DEF SendersOK, IdOf, At

(* So does what the messages still on their way had seen. *)
LEMMA StrayStep ==
    ASSUME OutboxInv, RowsKept, ArrivalsKept,
           \A i \in stray' : i \in Ids /\ Cleared(i)
    PROVE  StrayOK'
BY InvFacts, Kept DEF StrayOK

(* Nothing arrives: the order of the arrivals stays what it was.           *)
LEMMA NothingArrives ==
    ASSUME OutboxInv, RowsKept, arrived' = arrived
    PROVE  ReadInOrder' /\ ArrivalsKept
<1>1. TypeOK /\ ReadInOrder
  BY InvFacts
<1>2. ASSUME NEW o \in Orders, NEW n \in 1..Len(arrived[o])
      PROVE  /\ arrived[o][n] \in Of(o)'
             /\ \A k \in Of(o)' :
                  k < arrived[o][n] => \E m \in 1..(n - 1) : arrived[o][m] = k
  <2>1. /\ arrived[o][n] \in Of(o) /\ arrived[o][n] \in Ids
        /\ \A k \in Of(o) : k < arrived[o][n] => \E m \in 1..(n - 1) : arrived[o][m] = k
    BY <1>1 DEF ReadInOrder, Of
  <2>2. arrived[o][n] \in Of(o)'
    BY <2>1 DEF Of, RowsKept
  <2>3. ASSUME NEW k \in Of(o)', k < arrived[o][n] PROVE k \in Of(o)
    <3>1. k \in Ids' /\ outbox'[k].order = o
      BY <2>3 DEF Of
    <3>2. k \in Int /\ arrived[o][n] \in Int
      BY <2>1, <3>1 DEF Ids
    <3>3. ~(arrived[o][n] < k)
      BY <2>3, <3>2
    <3>4. k \in Ids
      BY <2>1, <3>1, <3>3 DEF RowsKept
    <3> QED
      BY <3>1, <3>4 DEF Of, RowsKept
  <2> QED
    BY <2>1, <2>2, <2>3
<1>3. ReadInOrder'
  BY <1>2 DEF ReadInOrder
<1>4. ArrivalsKept
  BY DEF ArrivalsKept
<1> QED
  BY <1>3, <1>4

(* A message arrives of an event that is cleared.                          *)
LEMMA OneArrives ==
    ASSUME OutboxInv, outbox' = outbox, NEW i \in Ids, Cleared(i), Seen(i)
    PROVE  /\ ReadInOrder' /\ RowsKept /\ ArrivalsKept /\ HasArrived(i)'
           /\ arrived' \in [Orders -> Seq(Ids')]
<1>1. TypeOK /\ ReadInOrder /\ Ids' = Ids /\ RowsKept
  BY InvFacts DEF RowsKept, Ids
<1>2. CASE HasArrived(i) /\ arrived' = arrived
  <2>1. HasArrived(i)'
    BY <1>2 DEF HasArrived
  <2>2. arrived' \in [Orders -> Seq(Ids')]
    BY <1>1, <1>2, Facts
  <2> QED
    BY <1>1, <1>2, <2>1, <2>2, NothingArrives
<1>3. ASSUME NEW o \in Orders, outbox[i].order = o,
             arrived' \in [Orders -> Seq(Ids)],
             Len(arrived'[o]) = Len(arrived[o]) + 1,
             arrived'[o][Len(arrived[o]) + 1] = i,
             \A n \in 1..Len(arrived[o]) : arrived'[o][n] = arrived[o][n],
             \A p \in Orders : p # o => arrived'[p] = arrived[p]
      PROVE  /\ ReadInOrder' /\ ArrivalsKept /\ HasArrived(i)'
  <2>1. Len(arrived[o]) \in Nat
    BY <1>1, Facts
  <2>2. ArrivalsKept
    <3>1. \A n \in 1..Len(arrived[o]) : n \in 1..Len(arrived'[o]) /\ arrived'[o][n] = arrived[o][n]
      BY <1>3, <2>1
    <3> QED
      BY <1>3, <3>1 DEF ArrivalsKept
  <2>3. HasArrived(i)'
    <3>1. Len(arrived[o]) + 1 \in 1..Len(arrived'[o]) /\ outbox'[i].order = o
      BY <1>3, <2>1
    <3> QED
      BY <1>3, <3>1 DEF HasArrived
  <2>4. \A p \in Orders : Of(p)' = Of(p)
    BY <1>1 DEF Of
  <2>5. ASSUME NEW p \in Orders, NEW n \in 1..Len(arrived'[p])
        PROVE  /\ arrived'[p][n] \in Of(p)
               /\ \A k \in Of(p) :
                    k < arrived'[p][n] => \E m \in 1..(n - 1) : arrived'[p][m] = k
    <3>1. CASE p # o
      <4>1. arrived'[p] = arrived[p]
        BY <1>3, <3>1
      <4> QED
        BY <1>1, <2>5, <4>1 DEF ReadInOrder
    <3>2. CASE p = o /\ n \in 1..Len(arrived[o])
      <4>1. \A m \in 1..n : arrived'[o][m] = arrived[o][m]
        BY <1>3, <2>1, <3>2
      <4>2. n \in 1..n /\ \A m \in 1..(n - 1) : m \in 1..n
        BY <3>2
      <4>3. /\ arrived[o][n] \in Of(o)
            /\ \A k \in Of(o) : k < arrived[o][n] => \E m \in 1..(n - 1) : arrived[o][m] = k
        BY <1>1, <3>2 DEF ReadInOrder
      <4> QED
        BY <3>2, <4>1, <4>2, <4>3
    <3>3. CASE p = o /\ n = Len(arrived[o]) + 1
      <4>1. arrived'[p][n] = i /\ i \in Of(o)
        BY <1>3, <3>3 DEF Of
      <4>2. ASSUME NEW k \in Of(o), k < i PROVE \E m \in 1..(n - 1) : arrived'[o][m] = k
        <5>1. HasArrived(k) /\ outbox[k].order = o
          BY <1>3, <4>2 DEF Cleared, Earlier, Of
        <5>2. PICK m \in 1..Len(arrived[o]) : arrived[o][m] = k
          BY <5>1 DEF HasArrived
        <5>3. m \in 1..(n - 1) /\ arrived'[o][m] = k
          BY <1>3, <2>1, <3>3, <5>2
        <5> QED
          BY <5>3
      <4> QED
        BY <3>3, <4>1, <4>2
    <3>4. p # o \/ n \in 1..Len(arrived[o]) \/ n = Len(arrived[o]) + 1
      BY <1>3, <2>1
    <3> QED
      BY <3>1, <3>2, <3>3, <3>4
  <2>6. ReadInOrder'
    BY <2>4, <2>5 DEF ReadInOrder
  <2> QED
    BY <2>2, <2>3, <2>6
<1>4. PICK o \in Orders : outbox[i].order = o
  BY <1>1, Facts
<1>5. CASE /\ arrived' \in [Orders -> Seq(Ids)]
           /\ Len(arrived'[o]) = Len(arrived[o]) + 1
           /\ arrived'[o][Len(arrived[o]) + 1] = i
           /\ \A n \in 1..Len(arrived[o]) : arrived'[o][n] = arrived[o][n]
           /\ \A p \in Orders : p # o => arrived'[p] = arrived[p]
  BY <1>1, <1>3, <1>4, <1>5
<1> QED
  BY <1>1, <1>2, <1>4, <1>5, SeenFacts

-----------------------------------------------------------------------------
(* The parts of the invariant, put together.                               *)
LEMMA TypeParts ==
    ASSUME outbox' \in Seq(Row), stray' \subseteq Ids', arrived' \in [Orders -> Seq(Ids')],
           sender' \in [Senders -> [pc : SenderPcs, id : {0} \cup Ids']],
           \A s \in Senders : sender'[s].pc = "idle" <=> sender'[s].id = 0
    PROVE  TypeOK'
BY DEF TypeOK, SenderPcs, At, IdOf

(* The table is not written.                                               *)
LEMMA TableStill ==
    ASSUME OutboxInv, outbox' = outbox, ArrivalsKept
    PROVE  Ids' = Ids /\ RowsKept /\ SentOK' /\ SentMeansArrived'
<1>1. TypeOK /\ SentOK /\ SentMeansArrived /\ Ids' = Ids
  BY InvFacts DEF Ids
<1>2. RowsKept
  BY <1>1 DEF RowsKept
<1>3. SentOK'
  BY <1>1 DEF SentOK
<1>4. ASSUME NEW i \in Ids, outbox[i].sent PROVE HasArrived(i)'
  <2>1. HasArrived(i)
    BY <1>1, <1>4 DEF SentMeansArrived, HasArrived
  <2> QED
    BY <1>1, <1>2, <2>1, Kept
<1>5. SentMeansArrived'
  BY <1>1, <1>4 DEF SentMeansArrived, HasArrived
<1> QED
  BY <1>1, <1>2, <1>3, <1>5

(* One row is written, of an event that is not sent or has arrived.        *)
LEMMA OneRowWritten ==
    ASSUME OutboxInv, NEW i \in Ids, NEW r \in Row, SetRow(i, r),
           r.order = outbox[i].order,
           r.sent => r.token = None /\ HasArrived(i),
           arrived' = arrived
    PROVE  /\ Ids' = Ids /\ outbox' \in Seq(Row) /\ RowsKept /\ ArrivalsKept
           /\ arrived' \in [Orders -> Seq(Ids')]
           /\ SentOK' /\ SentMeansArrived' /\ ReadInOrder'
<1>1. TypeOK /\ SentOK /\ SentMeansArrived
  BY InvFacts
<1>2. /\ outbox' \in Seq(Row) /\ Ids' = Ids
      /\ outbox'[i] = r /\ \A j \in Ids : j # i => outbox'[j] = outbox[j]
  BY <1>1, RowFacts
<1>3. RowsKept
  BY <1>2 DEF RowsKept
<1>4. ReadInOrder' /\ ArrivalsKept
  BY <1>3, NothingArrives
<1>5. SentOK'
  BY <1>1, <1>2 DEF SentOK
<1>6. ASSUME NEW j \in Ids, outbox'[j].sent PROVE HasArrived(j)'
  <2>1. HasArrived(j)
    BY <1>1, <1>2, <1>6 DEF SentMeansArrived, HasArrived
  <2> QED
    BY <1>1, <1>3, <1>4, <2>1, Kept
<1>7. SentMeansArrived'
  BY <1>2, <1>6 DEF SentMeansArrived, HasArrived
<1>8. arrived' \in [Orders -> Seq(Ids')]
  BY <1>1, <1>2, Facts
<1> QED
  BY <1>2, <1>3, <1>4, <1>5, <1>7, <1>8

-----------------------------------------------------------------------------
(* The actions.                                                            *)
LEMMA InitCorrect == Init => OutboxInv
<1> SUFFICES ASSUME Init PROVE OutboxInv
  OBVIOUS
<1>1. Len(outbox) = 0 /\ Ids = {} /\ outbox \in Seq(Row)
  BY EmptySeq DEF Init, Ids
<1>2. arrived \in [Orders -> Seq(Ids)] /\ \A o \in Orders : Len(arrived[o]) = 0
  BY EmptySeq DEF Init
<1>3. TypeOK
  BY <1>1, <1>2 DEF Init, TypeOK, Idle, At, IdOf
<1>4. SendersOK /\ StrayOK /\ SentOK /\ SentMeansArrived
  BY <1>1 DEF Init, SendersOK, StrayOK, SentOK, SentMeansArrived
<1>5. ReadInOrder
  BY <1>2 DEF ReadInOrder
<1> QED
  BY <1>3, <1>4, <1>5 DEF OutboxInv

(* A new event makes no claim out of date: it comes after all others. *)
LEMMA NotifyCorrect ==
    ASSUME OutboxInv, NEW o \in Orders, NEW event \in Story[o], Notify(o, event)
    PROVE  OutboxInv'
<1>1. TypeOK /\ StrayOK /\ SentOK /\ SentMeansArrived
  BY InvFacts
<1>2. sender' = sender /\ stray' = stray /\ arrived' = arrived
  BY DEF Notify
<1>3. /\ outbox' \in Seq(Row) /\ Len(outbox) \in Nat
      /\ Ids' = Ids \cup {Len(outbox) + 1}
      /\ ~outbox'[Len(outbox) + 1].sent
      /\ \A j \in Ids : outbox'[j] = outbox[j]
  BY <1>1, Facts, NewFacts
<1>4. RowsKept
  <2>1. \A j \in Ids' \ Ids : j = Len(outbox) + 1
    BY <1>3
  <2>2. \A i \in Ids : i < Len(outbox) + 1
    BY <1>3 DEF Ids
  <2> QED
    BY <1>3, <2>1, <2>2 DEF RowsKept
<1>5. ReadInOrder' /\ ArrivalsKept
  BY <1>2, <1>4, NothingArrives
<1>6. SendersOK' /\ StrayOK'
  BY <1>1, <1>2, <1>4, <1>5, Facts, SendersStill, StrayStep DEF StrayOK
<1>7. SentOK'
  BY <1>1, <1>3 DEF SentOK
<1>8. ASSUME NEW j \in Ids', outbox'[j].sent PROVE HasArrived(j)'
  <2>1. j \in Ids /\ HasArrived(j)
    BY <1>1, <1>3, <1>8 DEF SentMeansArrived, HasArrived
  <2> QED
    BY <1>1, <1>4, <1>5, <2>1, Kept
<1>9. SentMeansArrived'
  BY <1>8 DEF SentMeansArrived, HasArrived
<1>10. TypeOK'
  <2>1. \A p \in Orders : arrived[p] \in Seq(Ids')
    BY <1>1, <1>4, Facts, SeqMonotonic DEF RowsKept
  <2>2. arrived' \in [Orders -> Seq(Ids')]
    BY <1>1, <1>2, <2>1, Facts
  <2>3. /\ sender' \in [Senders -> [pc : SenderPcs, id : {0} \cup Ids']]
        /\ \A s \in Senders : sender'[s].pc = "idle" <=> sender'[s].id = 0
    BY <1>1, <1>2, <1>4, Facts DEF RowsKept, At, IdOf
  <2>4. stray' \subseteq Ids'
    BY <1>1, <1>2, <1>4, Facts DEF RowsKept
  <2> QED
    BY <1>3, <2>2, <2>3, <2>4, TypeParts
<1> QED
  BY <1>5, <1>6, <1>7, <1>9, <1>10 DEF OutboxInv

(* A claim sees its earlier events sent, and what was sent has arrived. *)
LEMMA ClaimCorrect ==
    ASSUME OutboxInv, NEW s \in Senders, NEW i \in Ids, Claim(s, i)
    PROVE  OutboxInv'
<1>1. TypeOK /\ StrayOK /\ SentOK /\ SentMeansArrived
  BY InvFacts
<1>2. /\ stray' = stray /\ arrived' = arrived /\ Ready(i)
      /\ sender' = [sender EXCEPT ![s] = [pc |-> "sending", id |-> i]]
  BY DEF Claim
<1>3. Cleared(i)
  BY <1>1, <1>2 DEF Ready, Cleared, Earlier, Of, SentMeansArrived, HasArrived
<1>4. PICK r \in Row : SetRow(i, r) /\ r.order = outbox[i].order /\ ~r.sent
  BY <1>1, ClaimWrites
<1>5. /\ Ids' = Ids /\ outbox' \in Seq(Row) /\ RowsKept /\ ArrivalsKept
      /\ arrived' \in [Orders -> Seq(Ids')]
      /\ SentOK' /\ SentMeansArrived' /\ ReadInOrder'
  BY <1>2, <1>4, OneRowWritten
<1>6. /\ sender' \in [Senders -> [pc : SenderPcs, id : {0} \cup Ids]]
      /\ sender'[s].pc = "sending" /\ sender'[s].id = i
      /\ \A t \in Senders : t # s => sender'[t] = sender[t]
  BY <1>1, <1>2, Facts DEF SenderPcs
<1>7. SendersOK'
  BY <1>3, <1>5, <1>6, SendersStep
<1>8. StrayOK'
  BY <1>1, <1>2, <1>5, Facts, StrayStep DEF StrayOK
<1>9. TypeOK'
  <2>1. \A t \in Senders : sender'[t].pc = "idle" <=> sender'[t].id = 0
    BY <1>1, <1>6, Facts DEF At, IdOf
  <2> QED
    BY <1>1, <1>2, <1>5, <1>6, <2>1, Facts, TypeParts
<1> QED
  BY <1>5, <1>7, <1>8, <1>9 DEF OutboxInv

(* A call goes on, or is given up with its message on the way.             *)
LEMMA CallCorrect ==
    ASSUME OutboxInv, NEW s \in Senders, Arrive(s) \/ Succeed(s) \/ Fail(s) \/ Crash(s)
    PROVE  OutboxInv'
<1>1. TypeOK /\ SendersOK /\ StrayOK
  BY InvFacts
<1>2. ~At(s, "idle") /\ outbox' = outbox
  BY DEF Arrive, Succeed, Fail, Crash, At
<1>3. PICK i \in Ids : IdOf(s) = i
  BY <1>1, <1>2, Facts
<1>4. Cleared(i) /\ (At(s, "arrived") \/ At(s, "sent") => HasArrived(i))
  BY <1>1, <1>3 DEF SendersOK
<1>5. /\ ReadInOrder' /\ ArrivalsKept /\ arrived' \in [Orders -> Seq(Ids')]
      /\ Arrive(s) => HasArrived(i)'
  <2>1. CASE Arrive(s)
    <3>1. Seen(i)
      BY <1>3, <2>1 DEF Arrive
    <3> QED
      BY <1>2, <1>4, <3>1, OneArrives
  <2>2. CASE Succeed(s) \/ Fail(s) \/ Crash(s)
    <3>1. arrived' = arrived
      BY <2>2 DEF Succeed, Fail, Crash
    <3>2. RowsKept /\ Ids' = Ids
      BY <1>2 DEF RowsKept, Ids
    <3>3. ~Arrive(s) \/ HasArrived(i)'
      <4>1. ASSUME Arrive(s) PROVE HasArrived(i)'
        <5>1. Seen(i)
          BY <1>3, <4>1 DEF Arrive
        <5> QED
          BY <1>2, <1>4, <5>1, OneArrives
      <4> QED
        BY <4>1
    <3> QED
      BY <1>1, <3>1, <3>2, <3>3, Facts, NothingArrives
  <2> QED
    BY <2>1, <2>2
<1>6. Ids' = Ids /\ RowsKept /\ SentOK' /\ SentMeansArrived'
  BY <1>2, <1>5, TableStill
<1>7. /\ sender' \in [Senders -> [pc : SenderPcs, id : {0} \cup Ids]]
      /\ \A t \in Senders : t # s => sender'[t] = sender[t]
      /\ sender'[s].id \in {0, i} /\ (sender'[s].pc = "idle" <=> sender'[s].id = 0)
      /\ sender'[s].pc \in {"arrived", "sent"} => HasArrived(i)'
  <2>1. i # 0
    BY DEF Ids
  <2>2. CASE Arrive(s)
    <3>1. Become(s, "arrived")
      BY <2>2 DEF Arrive
    <3> QED
      BY <1>1, <1>2, <1>3, <1>5, <2>1, <2>2, <3>1, SenderFacts DEF SenderPcs
  <2>3. CASE Succeed(s)
    <3>1. Become(s, "sent") /\ At(s, "arrived")
      BY <2>3 DEF Succeed
    <3>2. HasArrived(i)'
      BY <1>1, <1>4, <1>5, <1>6, <3>1, Kept
    <3> QED
      BY <1>1, <1>2, <1>3, <2>1, <3>1, <3>2, SenderFacts DEF SenderPcs
  <2>4. CASE Fail(s)
    <3>1. Become(s, "failed")
      BY <2>4 DEF Fail
    <3> QED
      BY <1>1, <1>2, <1>3, <2>1, <3>1, SenderFacts DEF SenderPcs
  <2>5. CASE Crash(s)
    <3>1. Leave(s)
      BY <2>5 DEF Crash
    <3> QED
      BY <1>1, <3>1, SenderFacts
  <2> QED
    BY <2>2, <2>3, <2>4, <2>5
<1>8. SendersOK'
  <2>1. \A j \in Ids' : sender'[s].id = j =>
           /\ j \in Ids /\ Cleared(j)
           /\ sender'[s].pc \in {"arrived", "sent"} => HasArrived(j)'
    <3>1. 0 \notin Ids
      BY DEF Ids
    <3> QED
      BY <1>4, <1>6, <1>7, <3>1
  <2> QED
    BY <1>5, <1>6, <1>7, <2>1, SendersStep
<1>9. stray' \subseteq stray \cup {i}
  BY <1>3 DEF Arrive, Succeed, Fail, Crash, LeftBehind
<1>10. StrayOK'
  <2>1. \A j \in stray' : j \in Ids /\ Cleared(j)
    BY <1>1, <1>4, <1>9, Facts DEF StrayOK
  <2> QED
    BY <1>5, <1>6, <2>1, StrayStep
<1>11. TypeOK'
  <2>1. \A t \in Senders : sender'[t].pc = "idle" <=> sender'[t].id = 0
    BY <1>1, <1>7, Facts DEF At, IdOf
  <2> QED
    BY <1>1, <1>2, <1>5, <1>6, <1>7, <1>9, <2>1, Facts, TypeParts
<1> QED
  BY <1>5, <1>6, <1>8, <1>10, <1>11 DEF OutboxInv

(* The second transaction: sent is written for what has arrived.           *)
LEMMA RecordCorrect ==
    ASSUME OutboxInv, NEW s \in Senders, Record(s)
    PROVE  OutboxInv'
<1>1. TypeOK /\ SendersOK /\ StrayOK /\ SentOK /\ SentMeansArrived
  BY InvFacts
<1>2. /\ At(s, "sent") \/ At(s, "failed")
      /\ Leave(s) /\ stray' = stray /\ arrived' = arrived
  BY DEF Record
<1>3. PICK i \in Ids : IdOf(s) = i
  BY <1>1, <1>2, Facts DEF At
<1>4. At(s, "sent") => HasArrived(i)
  BY <1>1, <1>3 DEF SendersOK
<1>5. PICK r \in Row : /\ SetRow(i, r) /\ r.order = outbox[i].order
                       /\ r.sent => r.token = None /\ HasArrived(i)
  <2>1. outbox[i].sent => outbox[i].token = None /\ HasArrived(i)
    BY <1>1 DEF SentOK, SentMeansArrived, HasArrived
  <2> QED
    BY <1>1, <1>3, <1>4, <2>1, RecordWrites
<1>6. /\ Ids' = Ids /\ outbox' \in Seq(Row) /\ RowsKept /\ ArrivalsKept
      /\ arrived' \in [Orders -> Seq(Ids')]
      /\ SentOK' /\ SentMeansArrived' /\ ReadInOrder'
  BY <1>2, <1>5, OneRowWritten
<1>7. /\ sender' \in [Senders -> [pc : SenderPcs, id : {0} \cup Ids]]
      /\ sender'[s].pc = "idle" /\ sender'[s].id = 0
      /\ \A t \in Senders : t # s => sender'[t] = sender[t]
  BY <1>1, <1>2, SenderFacts
<1>8. SendersOK'
  <2>1. 0 \notin Ids'
    BY <1>6 DEF Ids
  <2> QED
    BY <1>6, <1>7, <2>1, SendersStep
<1>9. StrayOK'
  BY <1>1, <1>2, <1>6, Facts, StrayStep DEF StrayOK
<1>10. TypeOK'
  <2>1. \A t \in Senders : sender'[t].pc = "idle" <=> sender'[t].id = 0
    BY <1>1, <1>7, Facts DEF At, IdOf
  <2> QED
    BY <1>1, <1>2, <1>6, <1>7, <2>1, Facts, TypeParts
<1> QED
  BY <1>6, <1>8, <1>9, <1>10 DEF OutboxInv

(* A message nobody waits for arrives late, or is lost.                    *)
LEMMA StrayCorrect ==
    ASSUME OutboxInv, NEW i \in Ids, StrayArrives(i) \/ StrayLost(i)
    PROVE  OutboxInv'
<1>1. TypeOK /\ StrayOK
  BY InvFacts
<1>2. /\ outbox' = outbox /\ sender' = sender /\ stray' \subseteq stray /\ Cleared(i)
  BY <1>1 DEF StrayArrives, StrayLost, StrayOK
<1>3. ReadInOrder' /\ ArrivalsKept /\ arrived' \in [Orders -> Seq(Ids')]
  <2>1. CASE StrayArrives(i)
    BY <1>2, <2>1, OneArrives DEF StrayArrives
  <2>2. CASE StrayLost(i)
    <3>1. RowsKept /\ Ids' = Ids /\ arrived' = arrived
      BY <1>2, <2>2 DEF RowsKept, Ids, StrayLost
    <3> QED
      BY <1>1, <3>1, Facts, NothingArrives
  <2> QED
    BY <2>1, <2>2
<1>4. Ids' = Ids /\ RowsKept /\ SentOK' /\ SentMeansArrived'
  BY <1>2, <1>3, TableStill
<1>5. SendersOK' /\ StrayOK'
  BY <1>1, <1>2, <1>3, <1>4, Facts, SendersStill, StrayStep DEF StrayOK
<1>6. TypeOK'
  BY <1>1, <1>2, <1>3, <1>4, Facts, TypeParts DEF At, IdOf
<1> QED
  BY <1>3, <1>4, <1>5, <1>6 DEF OutboxInv

(* Leases and delays run out. *)
LEMMA TimeCorrect ==
    ASSUME OutboxInv, NEW i \in Ids, FallDue(i) \/ LeaseExpires(i)
    PROVE  OutboxInv'
<1>1. TypeOK /\ StrayOK /\ SentOK /\ SentMeansArrived
  BY InvFacts
<1>2. sender' = sender /\ stray' = stray /\ arrived' = arrived
  BY DEF FallDue, LeaseExpires
<1>3. PICK r \in Row : /\ SetRow(i, r) /\ r.order = outbox[i].order
                       /\ r.sent = outbox[i].sent /\ r.token = outbox[i].token
  BY <1>1, TimeWrites
<1>4. r.sent => r.token = None /\ HasArrived(i)
  BY <1>1, <1>3 DEF SentOK, SentMeansArrived, HasArrived
<1>5. /\ Ids' = Ids /\ outbox' \in Seq(Row) /\ RowsKept /\ ArrivalsKept
      /\ arrived' \in [Orders -> Seq(Ids')]
      /\ SentOK' /\ SentMeansArrived' /\ ReadInOrder'
  BY <1>2, <1>3, <1>4, OneRowWritten
<1>6. SendersOK' /\ StrayOK'
  BY <1>1, <1>2, <1>5, Facts, SendersStill, StrayStep DEF StrayOK
<1>7. TypeOK'
  BY <1>1, <1>2, <1>5, Facts, TypeParts DEF At, IdOf
<1> QED
  BY <1>5, <1>6, <1>7 DEF OutboxInv

(* Every step. *)
LEMMA NextCorrect == OutboxInv /\ [Next]_vars => OutboxInv'
<1> SUFFICES ASSUME OutboxInv, [Next]_vars PROVE OutboxInv'
  OBVIOUS
<1>1. CASE UNCHANGED vars
  <2>1. /\ outbox' = outbox /\ sender' = sender /\ stray' = stray /\ arrived' = arrived
        /\ Ids' = Ids
    BY <1>1 DEF vars, Ids
  <2>2. RowsKept
    BY <2>1 DEF RowsKept
  <2>3. ReadInOrder' /\ ArrivalsKept
    BY <2>1, <2>2, NothingArrives
  <2>4. SentOK' /\ SentMeansArrived' /\ SendersOK' /\ StrayOK'
    BY <2>1, <2>2, <2>3, InvFacts, Facts, TableStill, SendersStill, StrayStep DEF StrayOK
  <2>5. TypeOK'
    BY <2>1, InvFacts, Facts, TypeParts DEF At, IdOf
  <2> QED
    BY <2>3, <2>4, <2>5 DEF OutboxInv
<1> QED
  BY <1>1, NotifyCorrect, ClaimCorrect, CallCorrect, RecordCorrect, StrayCorrect, TimeCorrect
     DEF Next

(* And so in every state that can be reached. *)
LEMMA InvariantHolds == Spec => []OutboxInv
BY InitCorrect, NextCorrect, PTL DEF Spec

-----------------------------------------------------------------------------
(* Every row, sender and list of arrivals keeps its shape: a sender that   *)
(* is at work has an event, and what has arrived was stored in the outbox. *)
THEOREM TypeCorrect == Spec => []TypeOK
<1>1. OutboxInv => TypeOK
  BY InvFacts
<1> QED
  BY <1>1, InvariantHolds, PTL

(* The buyer of any order reads of its events in the order in which they   *)
(* were stored and without a gap, for any number of senders, crashes and   *)
(* messages that arrive late.                                              *)
THEOREM EventsAreReadInOrder == Spec => []ReadInOrder
<1>1. OutboxInv => ReadInOrder
  BY InvFacts
<1> QED
  BY <1>1, InvariantHolds, PTL

(* A sender whose claim is over writes nothing: what another recorded as   *)
(* sent stays so, and the claim of another is neither taken nor ended.     *)
THEOREM LateSendersAreFenced == Spec => LateSendersWriteNothing
<1> DEFINE Fenced == \A i \in Ids :
        /\ outbox[i].sent => outbox'[i].sent
        /\ outbox'[i].token # outbox[i].token =>
            \/ \E s \in Senders : outbox'[i].token = s /\ outbox[i].until # "live"
            \/ outbox'[i].token = None /\ \E s \in Senders :
                    outbox[i].token = s /\ IdOf(s) = i /\ sender'[s] = Idle
<1>1. OutboxInv /\ [Next]_vars => [Fenced]_vars
  <2> SUFFICES ASSUME OutboxInv, Next PROVE Fenced
    OBVIOUS
  <2>1. TypeOK /\ SentOK
    BY InvFacts
  <2>2. ASSUME NEW o \in Orders, NEW event \in Story[o], Notify(o, event) PROVE Fenced
    BY <2>1, <2>2, NewFacts
  <2>3. ASSUME NEW s \in Senders, NEW i \in Ids, Claim(s, i) PROVE Fenced
    <3>1. PICK r \in Row : SetRow(i, r) /\ r.token = s
      BY <2>1, <2>3, ClaimWrites
    <3>2. outbox[i].until # "live" /\ ~outbox[i].sent
      BY <2>3 DEF Claim, Ready
    <3>3. outbox'[i].token = s /\ \A j \in Ids : j # i => outbox'[j] = outbox[j]
      BY <2>1, <3>1, RowFacts
    <3> QED
      BY <3>2, <3>3
  <2>4. ASSUME NEW s \in Senders, Record(s) PROVE Fenced
    <3>1. Leave(s) /\ ~At(s, "idle")
      BY <2>4 DEF Record, At
    <3>2. PICK i \in Ids : IdOf(s) = i
      BY <2>1, <3>1, Facts
    <3>3. sender'[s] = Idle
      BY <2>1, <3>1, SenderFacts
    <3>4. PICK r \in Row :
             /\ SetRow(i, r)
             /\ outbox[i].token # s => r = outbox[i]
             /\ outbox[i].token = s => r.token = None
      BY <2>1, <2>4, <3>2, RecordWrites
    <3>5. outbox'[i] = r /\ \A j \in Ids : j # i => outbox'[j] = outbox[j]
      BY <2>1, <3>4, RowFacts
    <3>6. outbox[i].token = s => ~outbox[i].sent
      BY <2>1 DEF SentOK
    <3> QED
      BY <3>2, <3>3, <3>4, <3>5, <3>6
  <2>5. ASSUME NEW i \in Ids, FallDue(i) \/ LeaseExpires(i) PROVE Fenced
    <3>1. PICK r \in Row : /\ SetRow(i, r)
                           /\ r.sent = outbox[i].sent /\ r.token = outbox[i].token
      BY <2>1, <2>5, TimeWrites
    <3> QED
      BY <2>1, <3>1, RowFacts
  <2>6. ASSUME outbox' = outbox PROVE Fenced
    BY <2>6
  <2> QED
    BY <2>2, <2>3, <2>4, <2>5, <2>6
       DEF Next, Arrive, Succeed, Fail, Crash, StrayArrives, StrayLost
<1> QED
  BY <1>1, InvariantHolds, PTL DEF Spec, LateSendersWriteNothing
=============================================================================
