--------------------------- MODULE DepositsProofs ---------------------------
(***************************************************************************)
(* Proofs about Deposits: for any deposits, users, amounts and readers,    *)
(* a payment is credited at most once, and what is decided stands.         *)
(***************************************************************************)
EXTENDS Deposits, TLAPS

HandlerPcs == {"idle", "posting", "sent", "answered"}
Reader == [pc : {"idle", "asking", "answered"}, deposit : Intents \cup {None},
           answer : {"none", "waiting", "paid", "expired"}]
Payment == [status : {"none", "posted", "waiting", "paid", "expired"}, actual : Nat]

(* The gateway has answered for this payment, so it has an amount.         *)
Known(p) == gateway[p].status \in {"waiting", "paid", "expired"}

RowOK(d) ==
    /\ deposits[d].status = "absent" => deposits[d] = NoDeposit
    /\ deposits[d].status # "absent" => deposits[d].expected > 0
    /\ deposits[d].status \in {"paid", "failed"} => deposits[d].trade_id # None
    /\ deposits[d].trade_id # None => Known(deposits[d].trade_id)

Unique ==
    \A d, e \in Intents :
        deposits[d].trade_id = deposits[e].trade_id /\ deposits[d].trade_id # None => d = e

TableOK == deposits \in [Intents -> Deposit] /\ Unique /\ \A d \in Intents : RowOK(d)

(* A handler posts once, for a row of its own, and waits for the answer.   *)
HandlerOK(d) ==
    /\ handler[d] = "posting" => gateway[d].status = "none"
    /\ handler[d] = "sent" => gateway[d].status # "none"
    /\ handler[d] = "answered" => Known(d)
    /\ deposits[d].status = "absent" => handler[d] = "idle" /\ gateway[d].status = "none"
    /\ Known(d) => gateway[d].actual > 0

(* A status command asks for a payment the row is bound to.                *)
ReaderOK(r) ==
    reader[r].pc # "idle" =>
        /\ reader[r].deposit \in Intents
        /\ deposits[reader[r].deposit].trade_id # None

PartiesOK ==
    /\ handler \in [Intents -> HandlerPcs]
    /\ gateway \in [Intents -> Payment]
    /\ reader \in [Readers -> Reader]
    /\ \A d \in Intents : HandlerOK(d)
    /\ \A r \in Readers : ReaderOK(r)

PaidDeposits == {d \in Intents : deposits[d].status = "paid"}
Ledger == entries = {PaymentOf(d) : d \in PaidDeposits}
MoneyOK == wallets \in [Users -> Balances] /\ Ledger
AnswersOK == acknowledged \subseteq Intents \cup {None} /\ AcknowledgedIsDecided

DepositInv == TableOK /\ PartiesOK /\ MoneyOK /\ AnswersOK

-----------------------------------------------------------------------------
LEMMA InitCorrect == DepositsInit => DepositInv
<1> SUFFICES ASSUME DepositsInit PROVE DepositInv
  OBVIOUS
<1>1. /\ deposits = [d \in Intents |-> NoDeposit] /\ entries = {} /\ acknowledged = {}
      /\ handler = [d \in Intents |-> "idle"] /\ gateway = [d \in Intents |-> NoPayment]
      /\ reader = [r \in Readers |-> NoReader] /\ wallets = [u \in Users |-> EmptyWallet]
  BY DEF DepositsInit
<1>2. TableOK
  BY <1>1 DEF TableOK, Unique, RowOK, Deposit, NoDeposit
<1>3. PartiesOK
  BY <1>1 DEF PartiesOK, HandlerOK, ReaderOK, HandlerPcs, Reader, Payment, NoReader, NoPayment,
              Known
<1>4. MoneyOK
  <2>1. PaidDeposits = {}
    BY <1>1 DEF PaidDeposits, NoDeposit
  <2>2. wallets \in [Users -> Balances]
    BY <1>1 DEF Balances, EmptyWallet
  <2> QED
    BY <1>1, <2>1, <2>2 DEF MoneyOK, Ledger
<1> QED
  BY <1>1, <1>2, <1>3, <1>4 DEF DepositInv, AnswersOK, AcknowledgedIsDecided

LEMMA Facts ==
    ASSUME DepositInv
    PROVE  /\ deposits \in [Intents -> Deposit] /\ Unique
           /\ handler \in [Intents -> HandlerPcs]
           /\ gateway \in [Intents -> Payment]
           /\ reader \in [Readers -> Reader]
           /\ wallets \in [Users -> Balances] /\ Ledger
           /\ acknowledged \subseteq Intents \cup {None} /\ AcknowledgedIsDecided
           /\ \A d \in Intents : RowOK(d) /\ HandlerOK(d)
           /\ \A r \in Readers : ReaderOK(r)
           /\ None \notin Intents
BY DepositsAssumption DEF DepositInv, TableOK, PartiesOK, MoneyOK, AnswersOK

LEMMA Written ==
    ASSUME DepositInv, NEW d \in Intents, NEW new \in Deposit, SetDeposit(d, new)
    PROVE  /\ deposits' \in [Intents -> Deposit] /\ deposits'[d] = new
           /\ \A e \in Intents : e # d => deposits'[e] = deposits[e]
BY Facts DEF SetDeposit

(* A row may be bound to a payment no other row has, once, and keeps it.   *)
RowMayBecome(d, new) ==
    /\ new.status # "absent" /\ new.expected > 0
    /\ new.status \in {"paid", "failed"} => new.trade_id # None
    /\ \/ new.trade_id = deposits[d].trade_id
       \/ deposits[d].trade_id = None /\ Unused(new.trade_id) /\ Known(new.trade_id)

LEMMA RowSafe ==
    ASSUME DepositInv, NEW d \in Intents, NEW new \in Deposit, SetDeposit(d, new),
           RowMayBecome(d, new), UNCHANGED gateway
    PROVE  TableOK'
<1>1. /\ deposits' \in [Intents -> Deposit] /\ deposits'[d] = new
      /\ \A e \in Intents : e # d => deposits'[e] = deposits[e]
  BY Written
<1>2. \A p : Known(p)' <=> Known(p)
  BY DEF Known
<1>3. \A e \in Intents : RowOK(e)'
  <2> SUFFICES ASSUME NEW e \in Intents PROVE RowOK(e)'
    OBVIOUS
  <2>1. RowOK(e)
    BY Facts
  <2>2. CASE e = d
    <3>1. new.trade_id # None => Known(new.trade_id)
      BY <2>1, <2>2 DEF RowMayBecome, RowOK
    <3> QED
      BY <1>1, <1>2, <2>2, <3>1 DEF RowMayBecome, RowOK
  <2>3. CASE e # d
    BY <1>1, <1>2, <2>1, <2>3 DEF RowOK
  <2> QED
    BY <2>2, <2>3
<1>4. Unique'
  <2>1. \A e \in Intents : deposits[e].trade_id = new.trade_id /\ new.trade_id # None => e = d
    BY Facts DEF RowMayBecome, Unused, Unique
  <2> QED
    BY <1>1, <2>1, Facts DEF Unique
<1> QED
  BY <1>1, <1>3, <1>4 DEF TableOK

(* Whoever has read a row still finds it bound.                            *)
LEMMA PartiesSafe ==
    ASSUME DepositInv, NEW d \in Intents, NEW new \in Deposit, SetDeposit(d, new),
           RowMayBecome(d, new), UNCHANGED <<handler, gateway>>,
           deposits[d].status # "absent",
           \/ UNCHANGED reader
           \/ \E r \in Readers : Done(r)
    PROVE  PartiesOK'
<1>1. /\ deposits'[d] = new
      /\ \A e \in Intents : e # d => deposits'[e] = deposits[e]
  BY Written
<1>2. \A e \in Intents : deposits[e].trade_id # None => deposits'[e].trade_id # None
  BY <1>1 DEF RowMayBecome
<1>3. reader' \in [Readers -> Reader] /\ \A r \in Readers : reader'[r] = reader[r] \/ reader'[r] = NoReader
  BY Facts DEF Done, Reader, NoReader
<1>4. ASSUME NEW r \in Readers PROVE ReaderOK(r)'
  BY <1>2, <1>3, Facts DEF ReaderOK, NoReader
<1>5. ASSUME NEW e \in Intents PROVE HandlerOK(e)'
  BY <1>1, Facts DEF HandlerOK, Known, RowMayBecome
<1> QED
  BY <1>3, <1>4, <1>5, Facts DEF PartiesOK

(* No money moves: the paid rows are the same and say the same.            *)
LEMMA MoneySame ==
    ASSUME DepositInv, UNCHANGED <<wallets, entries>>,
           \A e \in Intents :
              /\ deposits'[e].status = "paid" <=> deposits[e].status = "paid"
              /\ deposits[e].status = "paid" =>
                    /\ deposits'[e].trade_id = deposits[e].trade_id
                    /\ deposits'[e].expected = deposits[e].expected
    PROVE  MoneyOK'
<1>1. PaidDeposits' = PaidDeposits
  BY DEF PaidDeposits
<1>2. \A e \in PaidDeposits : PaymentOf(e)' = PaymentOf(e)
  BY DEF PaidDeposits, PaymentOf
<1> QED
  BY <1>1, <1>2, Facts DEF MoneyOK, Ledger

(* The credit is new, since no paid row has this payment.                  *)
LEMMA MoneyPaid ==
    ASSUME DepositInv, NEW d \in Intents, NEW deposit \in Deposit, NEW txid \in Txids \cup {None},
           PayIn(d, deposit, txid), deposits[d].status # "paid",
           \A e \in PaidDeposits : deposits[e].trade_id # deposit.trade_id
    PROVE  MoneyOK'
<1> DEFINE new == Entry(Key("credit", deposit.trade_id), Payer[d], deposit.expected, 0)
<1>1. Payer[d] \in Users /\ deposit.expected \in Nat
  BY DepositsAssumption DEF Deposit
<1>2. Paid(deposit, txid) \in Deposit /\ Paid(deposit, txid).status = "paid"
      /\ Paid(deposit, txid).trade_id = deposit.trade_id
      /\ Paid(deposit, txid).expected = deposit.expected
  BY DEF Paid, WithTxid, Deposit
<1>3. /\ deposits'[d] = Paid(deposit, txid)
      /\ \A e \in Intents : e # d => deposits'[e] = deposits[e]
  BY <1>2, Written DEF PayIn
<1>4. new \notin entries
  <2> SUFFICES ASSUME NEW e \in PaidDeposits, new = PaymentOf(e) PROVE FALSE
    BY Facts DEF Ledger
  <2>1. new.key = PaymentOf(e).key
    OBVIOUS
  <2>2. deposit.trade_id = deposits[e].trade_id
    BY <2>1 DEF PaymentOf, Entry, Key
  <2> QED
    BY <2>2
<1>5. Post(new)
  BY <1>4 DEF PayIn, Credit
<1>6. PaidDeposits' = PaidDeposits \cup {d}
  BY <1>2, <1>3 DEF PaidDeposits
<1>7. /\ PaymentOf(d)' = new
      /\ \A e \in PaidDeposits : PaymentOf(e)' = PaymentOf(e)
  BY <1>2, <1>3 DEF PaymentOf, PaidDeposits
<1>8. Ledger'
  BY <1>5, <1>6, <1>7, Facts DEF Ledger, Post
<1>9. wallets' \in [Users -> Balances]
  <2>1. wallets' = [wallets EXCEPT ![Payer[d]].available = @ + deposit.expected,
                                   ![Payer[d]].frozen = @ + 0]
    BY <1>5 DEF Post, Entry
  <2> QED
    BY <1>1, <2>1, Facts DEF Balances
<1> QED
  BY <1>8, <1>9 DEF MoneyOK

(* A decided row keeps its payment, and an answer names a settled one.     *)
LEMMA AnswersSafe ==
    ASSUME DepositInv,
           \/ acknowledged' = acknowledged
           \/ acknowledged' = acknowledged \cup {None}
           \/ \E d \in Intents :
                /\ acknowledged' = acknowledged \cup {deposits'[d].trade_id}
                /\ deposits'[d].trade_id \in Intents
                /\ deposits'[d].status \in {"paid", "failed"},
           \A e \in Intents : deposits[e].status \in {"paid", "failed"} =>
                /\ deposits'[e].status = deposits[e].status
                /\ deposits'[e].trade_id = deposits[e].trade_id
    PROVE  AnswersOK'
<1>1. acknowledged \subseteq Intents \cup {None} /\ AcknowledgedIsDecided
  BY Facts
<1>2. \A payment : Settled(payment) => Settled(payment)'
  BY DEF Settled, Decided
<1>3. ASSUME NEW payment, payment \in acknowledged' \ {None}
      PROVE  Settled(payment)'
  <2>1. CASE payment \in acknowledged
    BY <1>1, <1>2, <1>3, <2>1 DEF AcknowledgedIsDecided
  <2>2. CASE payment \notin acknowledged
    <3>1. PICK d \in Intents :
            deposits'[d].trade_id = payment /\ deposits'[d].status \in {"paid", "failed"}
      BY <1>3, <2>2
    <3> QED
      BY <3>1 DEF Settled, Decided
  <2> QED
    BY <2>1, <2>2
<1>4. acknowledged' \subseteq Intents \cup {None}
  BY <1>1
<1> QED
  BY <1>3, <1>4 DEF AnswersOK, AcknowledgedIsDecided

(* "ok" is answered for the payment the row is bound to.                   *)
Answers(new) ==
    /\ acknowledged' = acknowledged \cup {new.trade_id}
    /\ new.trade_id # None

-----------------------------------------------------------------------------
(* The steps of a handler, a reader and the gateway that write no row.     *)
LEMMA OutsideSafe ==
    ASSUME DepositInv,
           \/ \E d \in Intents :
                \/ PostDeposit(d) \/ Reply(d) \/ HandlerStops(d)
                \/ \E actual \in Actuals : GatewayAccepts(d, actual)
                \/ \E status \in {"paid", "expired"} : GatewayProceeds(d, status)
           \/ \E r \in Readers :
                (\E d \in Intents : AskStatus(r, d)) \/ StatusReply(r) \/ ReaderStops(r)
    PROVE  DepositInv'
<1>1. UNCHANGED <<money, deposits, acknowledged>>
  BY DEF PostDeposit, Reply, HandlerStops, GatewayAccepts, GatewayProceeds, AskStatus,
         StatusReply, ReaderStops
<1>2. MoneyOK' /\ AnswersOK'
  <2>1. UNCHANGED <<wallets, entries>>
    BY <1>1 DEF money
  <2> QED
    BY <1>1, <2>1, MoneySame, AnswersSafe
<1>3. /\ handler' \in [Intents -> HandlerPcs]
      /\ gateway' \in [Intents -> Payment]
      /\ reader' \in [Readers -> Reader]
      /\ \A p \in Intents : Known(p) => Known(p)'
      /\ \A d \in Intents : HandlerOK(d)'
      /\ \A r \in Readers : ReaderOK(r)'
  <2>1. ASSUME NEW d \in Intents, PostDeposit(d) \/ Reply(d) \/ HandlerStops(d)
        PROVE  <1>3
    <3>1. CASE PostDeposit(d)
      BY <1>1, <3>1, Facts DEF PostDeposit, HandlerPcs, Payment, HandlerOK, ReaderOK, Known
    <3>2. CASE Reply(d) \/ HandlerStops(d)
      BY <1>1, <3>2, Facts
         DEF Reply, HandlerStops, HandlerPcs, Payment, HandlerOK, ReaderOK, Known
    <3> QED
      BY <2>1, <3>1, <3>2
  <2>2. ASSUME NEW d \in Intents, NEW actual \in Actuals, GatewayAccepts(d, actual)
        PROVE  <1>3
    BY <1>1, <2>2, Facts, DepositsAssumption
       DEF GatewayAccepts, HandlerPcs, Payment, HandlerOK, ReaderOK, Known
  <2>3. ASSUME NEW d \in Intents, NEW status \in {"paid", "expired"}, GatewayProceeds(d, status)
        PROVE  <1>3
    BY <1>1, <2>3, Facts DEF GatewayProceeds, HandlerPcs, Payment, HandlerOK, ReaderOK, Known
  <2>4. ASSUME NEW r \in Readers, NEW d \in Intents, AskStatus(r, d)
        PROVE  <1>3
    BY <1>1, <2>4, Facts DEF AskStatus, Reader, HandlerOK, ReaderOK, Known, NoReader
  <2>5. ASSUME NEW r \in Readers, StatusReply(r)
        PROVE  <1>3
    <3> DEFINE status == gateway[deposits[reader[r].deposit].trade_id].status
    <3>1. /\ reader[r].deposit \in Intents /\ reader[r].pc = "asking"
          /\ deposits[reader[r].deposit].trade_id # None
      BY <2>5, Facts DEF StatusReply, ReaderOK
    <3>2. status \in {"waiting", "paid", "expired"}
      BY <3>1, Facts DEF RowOK, Known
    <3>3. reader' = [reader EXCEPT ![r] = [@ EXCEPT !.pc = "answered", !.answer = status]]
          /\ UNCHANGED <<handler, gateway>>
      BY <2>5 DEF StatusReply
    <3> HIDE DEF status
    <3>4. /\ reader' \in [Readers -> Reader]
          /\ reader'[r].deposit = reader[r].deposit
          /\ \A q \in Readers : q # r => reader'[q] = reader[q]
      <4> DEFINE new == [reader[r] EXCEPT !.pc = "answered", !.answer = status]
      <4>1. new \in Reader /\ new.deposit = reader[r].deposit
        <5>1. reader[r] \in Reader
          BY Facts
        <5> QED
          BY <3>2, <5>1 DEF Reader
      <4> HIDE DEF new
      <4>2. reader' = [reader EXCEPT ![r] = new]
        BY <3>3 DEF new
      <4> QED
        BY <4>1, <4>2, Facts
    <3>5. \A q \in Readers : ReaderOK(q)'
      BY <1>1, <3>1, <3>4, Facts DEF ReaderOK
    <3> QED
      BY <1>1, <3>3, <3>4, <3>5, Facts DEF HandlerOK, Known
  <2>6. ASSUME NEW r \in Readers, ReaderStops(r)
        PROVE  <1>3
    BY <1>1, <2>6, Facts DEF ReaderStops, Done, Reader, HandlerOK, ReaderOK, Known, NoReader
  <2> QED
    BY <2>1, <2>2, <2>3, <2>4, <2>5, <2>6
<1>4. TableOK'
  <2> SUFFICES ASSUME NEW d \in Intents PROVE RowOK(d)'
    BY <1>1, Facts DEF TableOK, Unique
  <2>1. deposits[d].trade_id # None => deposits[d].trade_id \in Intents
    BY Facts DEF Deposit
  <2> QED
    BY <1>1, <1>3, <2>1, Facts DEF RowOK
<1> QED
  BY <1>2, <1>3, <1>4 DEF DepositInv, PartiesOK

LEMMA PrepareSafe ==
    ASSUME DepositInv, NEW d \in Intents, Prepare(d)
    PROVE  DepositInv'
<1> DEFINE new == [NoDeposit EXCEPT !.status = "created", !.expected = Amount[d]]
<1>1. /\ deposits[d] = NoDeposit /\ SetDeposit(d, new)
      /\ UNCHANGED <<wallets, entries, reader, gateway, acknowledged>>
      /\ handler' = [handler EXCEPT ![d] = "posting"]
  BY Facts DEF Prepare, RowOK, money
<1>2. /\ new \in Deposit /\ new.status = "created" /\ new.trade_id = None /\ new.expected > 0
  <2>1. PICK amount \in Nat \ {0} : amount = Amount[d]
    BY DepositsAssumption
  <2>2. new = [NoDeposit EXCEPT !.status = "created", !.expected = amount]
    BY <2>1
  <2>3. NoDeposit \in Deposit /\ NoDeposit.trade_id = None
    BY DEF NoDeposit, Deposit
  <2>4. /\ new \in Deposit /\ new.status = "created" /\ new.expected = amount
        /\ new.trade_id = NoDeposit.trade_id
    BY <2>2, <2>3 DEF Deposit
  <2> QED
    BY <2>1, <2>3, <2>4
<1>3. /\ deposits'[d] = new
      /\ \A e \in Intents : e # d => deposits'[e] = deposits[e]
  BY <1>1, <1>2, Written
<1>4. deposits[d].trade_id = None /\ deposits[d].status = "absent"
  BY <1>1 DEF NoDeposit
<1> HIDE DEF new
<1>5. TableOK'
  BY <1>1, <1>2, <1>4, RowSafe DEF RowMayBecome
<1>6. MoneyOK' /\ AnswersOK'
  BY <1>1, <1>2, <1>3, <1>4, MoneySame, AnswersSafe
<1>7. PartiesOK'
  <2>1. \A e \in Intents : HandlerOK(e)'
    BY <1>1, <1>2, <1>3, <1>4, Facts DEF HandlerOK, Known
  <2>2. \A r \in Readers : ReaderOK(r)'
    BY <1>1, <1>3, <1>4, Facts DEF ReaderOK
  <2> QED
    BY <1>1, <2>1, <2>2, Facts DEF PartiesOK, HandlerPcs
<1> QED
  BY <1>5, <1>6, <1>7 DEF DepositInv

LEMMA BindReplySafe ==
    ASSUME DepositInv, NEW d \in Intents, BindReply(d)
    PROVE  DepositInv'
<1> DEFINE new == Bound(deposits[d], d, gateway[d].actual)
<1>1. /\ SetDeposit(d, new) /\ CanBind(deposits[d], d, gateway[d].actual)
      /\ UNCHANGED <<wallets, entries, reader, gateway, acknowledged>>
      /\ handler' = [handler EXCEPT ![d] = "idle"]
  BY DEF BindReply, money
<1>2. /\ Known(d) /\ gateway[d].actual > 0 /\ gateway[d].actual \in Nat
      /\ deposits[d] \in Deposit /\ deposits[d].status # "absent" /\ d # None
  BY Facts DEF BindReply, HandlerOK, Payment
<1>3. /\ new \in Deposit /\ new.status = deposits[d].status
      /\ new.trade_id = d /\ new.expected = gateway[d].actual /\ new.txid = deposits[d].txid
  BY <1>2 DEF Bound, Deposit
<1>4. /\ deposits'[d] = new
      /\ \A e \in Intents : e # d => deposits'[e] = deposits[e]
  BY <1>1, <1>3, Written
<1> HIDE DEF new
<1>5. RowMayBecome(d, new)
  BY <1>1, <1>2, <1>3 DEF RowMayBecome, CanBind
<1>6. TableOK'
  BY <1>1, <1>3, <1>5, RowSafe
<1>7. deposits[d].status \in {"paid", "failed"} =>
        new.trade_id = deposits[d].trade_id /\ new.expected = deposits[d].expected
  BY <1>1, <1>3, Facts DEF RowOK, CanBind
<1>8. MoneyOK' /\ AnswersOK'
  BY <1>1, <1>3, <1>4, <1>7, MoneySame, AnswersSafe
<1>9. PartiesOK'
  <2>1. \A e \in Intents : HandlerOK(e)'
    BY <1>1, <1>2, <1>3, <1>4, Facts DEF HandlerOK, Known
  <2>2. \A r \in Readers : ReaderOK(r)'
    BY <1>1, <1>2, <1>3, <1>4, Facts DEF ReaderOK
  <2> QED
    BY <1>1, <2>1, <2>2, Facts DEF PartiesOK, HandlerPcs
<1> QED
  BY <1>6, <1>8, <1>9 DEF DepositInv

-----------------------------------------------------------------------------
(* A callback brings a row that may take the place of the stored one.      *)
LEMMA MatchedFacts ==
    ASSUME DepositInv, NEW d \in Intents, NEW c \in Callbacks(d), Matches(d, c)
    PROVE  /\ c.actual \in Nat /\ c.trx \in BOOLEAN /\ c.txid \in Txids \cup {None}
           /\ deposits[d].status # "absent" /\ deposits[d] \in Deposit
           /\ Matched(d, c) \in Deposit
           /\ Matched(d, c).status = deposits[d].status
           /\ Matched(d, c).txid = deposits[d].txid
           /\ Matched(d, c).trade_id = c.trade_id /\ c.trade_id # None
           /\ deposits[d].trade_id # None => deposits[d].trade_id = c.trade_id
           /\ Acknowledge(c) => acknowledged' = acknowledged \cup {c.trade_id}
           /\ Matched(d, c).expected > 0
           /\ \/ /\ Matched(d, c).trade_id = deposits[d].trade_id
                 /\ Matched(d, c).expected = deposits[d].expected
              \/ /\ deposits[d].trade_id = None
                 /\ Unused(Matched(d, c).trade_id) /\ Known(Matched(d, c).trade_id)
<1>1. /\ c.trade_id \in Intents /\ c.trade_id # None /\ c.actual \in Nat /\ c.actual > 0
      /\ c.trx \in BOOLEAN /\ c.txid \in Txids \cup {None}
  <2>1. /\ c.trade_id \in {d, None} \cup (IF Foreign THEN Intents ELSE {})
        /\ c.actual \in Actuals /\ c.trx \in BOOLEAN /\ c.txid \in Txids \cup {None}
        /\ c.trade_id # None
    BY DEF Callbacks, Matches, Placed
  <2>2. Actuals \subseteq Nat \ {0}
    BY DepositsAssumption
  <2>3. c.trade_id \in Intents
    BY <2>1
  <2>4. c.actual \in Nat /\ c.actual > 0
    <3>1. \A n \in Actuals : n \in Nat /\ n > 0
      BY <2>2
    <3> QED
      BY <2>1, <3>1, Zenon
  <2> QED
    BY <2>1, <2>3, <2>4
<1>2. deposits[d].status # "absent" /\ deposits[d] \in Deposit /\ deposits[d].expected > 0
  BY Facts DEF Matches, RowOK
<1>3. Matched(d, c).trade_id = c.trade_id
  BY <1>2 DEF Matches, Matched, Bound, Deposit
<1>4. /\ deposits[d].trade_id # None => deposits[d].trade_id = c.trade_id
      /\ Acknowledge(c) => acknowledged' = acknowledged \cup {c.trade_id}
  BY DEF Matches, Acknowledge
<1>5. CASE deposits[d].trade_id = None
  <2>1. /\ Matched(d, c) = Bound(deposits[d], c.trade_id, c.actual)
        /\ CanBind(deposits[d], c.trade_id, c.actual)
        /\ Known(c.trade_id)
    BY <1>1, <1>5 DEF Matches, Matched, Known
  <2>2. /\ Matched(d, c) \in Deposit /\ Matched(d, c).expected = c.actual
        /\ Matched(d, c).status = deposits[d].status /\ Matched(d, c).txid = deposits[d].txid
    BY <1>1, <1>2, <2>1 DEF Bound, Deposit
  <2> QED
    BY <1>1, <1>2, <1>3, <1>4, <1>5, <2>1, <2>2 DEF CanBind
<1>6. CASE deposits[d].trade_id # None
  BY <1>1, <1>2, <1>3, <1>4, <1>6 DEF Matched
<1> QED
  BY <1>5, <1>6

(* A row write that moves no money.                                        *)
LEMMA UnpaidSafe ==
    ASSUME DepositInv, NEW d \in Intents, NEW new \in Deposit, SetDeposit(d, new),
           RowMayBecome(d, new), deposits[d].status # "absent",
           UNCHANGED <<wallets, entries, handler, gateway>>,
           \/ UNCHANGED reader
           \/ \E r \in Readers : Done(r),
           \/ UNCHANGED acknowledged
           \/ Answers(new) /\ new.status \in {"paid", "failed"},
           deposits[d].status \in {"paid", "failed"} =>
              new.status = deposits[d].status /\ new.trade_id = deposits[d].trade_id,
           new.status = "paid" =>
              /\ deposits[d].status = "paid"
              /\ new.trade_id = deposits[d].trade_id /\ new.expected = deposits[d].expected
    PROVE  DepositInv'
<1>1. /\ deposits'[d] = new
      /\ \A e \in Intents : e # d => deposits'[e] = deposits[e]
  BY Written
<1>2. TableOK'
  BY RowSafe
<1>3. PartiesOK'
  BY PartiesSafe
<1>4. MoneyOK'
  BY <1>1, MoneySame
<1>5. AnswersOK'
  <2>1. new.trade_id \in Intents \cup {None}
    BY DEF Deposit
  <2> QED
    BY <1>1, <2>1, AnswersSafe DEF Answers
<1> QED
  BY <1>2, <1>3, <1>4, <1>5 DEF DepositInv

LEMMA TxidFacts ==
    ASSUME NEW deposit \in Deposit, NEW txid \in Txids \cup {None}
    PROVE  /\ WithTxid(deposit, txid) \in Deposit /\ Paid(deposit, txid) \in Deposit
           /\ WithTxid(deposit, txid).status = deposit.status
           /\ Paid(deposit, txid).status = "paid"
           /\ WithTxid(deposit, txid).trade_id = deposit.trade_id
           /\ Paid(deposit, txid).trade_id = deposit.trade_id
           /\ WithTxid(deposit, txid).expected = deposit.expected
           /\ Paid(deposit, txid).expected = deposit.expected
           /\ deposit.txid # None => /\ WithTxid(deposit, txid).txid = deposit.txid
                                     /\ Paid(deposit, txid).txid = deposit.txid
BY DEF WithTxid, Paid, Deposit

LEMMA CallbackUnpaidSafe ==
    ASSUME DepositInv, NEW d \in Intents, NEW c \in Callbacks(d),
           CallbackRepeats(d, c) \/ CallbackFails(d, c) \/ CallbackParked(d, c)
    PROVE  DepositInv'
<1>1. CASE CallbackRepeats(d, c)
  <2> DEFINE new == WithTxid(deposits[d], c.txid)
  <2>1. /\ SetDeposit(d, new) /\ deposits[d].status = "paid" /\ Acknowledge(c)
        /\ UNCHANGED <<wallets, entries, handler, reader, gateway>> /\ Matches(d, c)
    BY <1>1 DEF CallbackRepeats, money, outside
  <2>2. /\ deposits[d] \in Deposit /\ c.txid \in Txids \cup {None}
        /\ RowOK(d) /\ deposits[d].trade_id = c.trade_id /\ c.trade_id # None
        /\ acknowledged' = acknowledged \cup {c.trade_id}
    BY <2>1, MatchedFacts, Facts DEF RowOK
  <2>3. /\ new \in Deposit /\ new.status = "paid"
        /\ new.trade_id = deposits[d].trade_id /\ new.expected = deposits[d].expected
    BY <2>1, <2>2, TxidFacts
  <2> HIDE DEF new
  <2>4. RowMayBecome(d, new)
    BY <2>1, <2>2, <2>3 DEF RowMayBecome, RowOK
  <2>5. Answers(new)
    BY <2>2, <2>3 DEF Answers
  <2> QED
    BY <2>1, <2>3, <2>4, <2>5, UnpaidSafe
<1>2. CASE CallbackFails(d, c)
  <2> DEFINE m == Matched(d, c)
             new == [m EXCEPT !.status = "failed"]
  <2>1. /\ SetDeposit(d, new) /\ deposits[d].status \in {"created", "expired"} /\ Acknowledge(c)
        /\ UNCHANGED <<wallets, entries, handler, reader, gateway>> /\ Matches(d, c)
    BY <1>2 DEF CallbackFails, money, outside, Payable
  <2>2. /\ m \in Deposit /\ m.trade_id # None /\ m.expected > 0
        /\ \/ m.trade_id = deposits[d].trade_id
           \/ deposits[d].trade_id = None /\ Unused(m.trade_id) /\ Known(m.trade_id)
        /\ acknowledged' = acknowledged \cup {m.trade_id}
    BY <2>1, MatchedFacts
  <2> HIDE DEF m
  <2>3. /\ new \in Deposit /\ new.status = "failed"
        /\ new.trade_id = m.trade_id /\ new.expected = m.expected
    BY <2>2 DEF Deposit
  <2> HIDE DEF new
  <2>4. RowMayBecome(d, new)
    BY <2>2, <2>3 DEF RowMayBecome
  <2>5. Answers(new)
    BY <2>2, <2>3 DEF Answers
  <2> QED
    BY <2>1, <2>3, <2>4, <2>5, UnpaidSafe
<1>3. CASE CallbackParked(d, c)
  <2>1. /\ deposits[d].status = "failed" /\ Acknowledge(c) /\ Matches(d, c)
        /\ UNCHANGED <<wallets, entries, deposits, handler, reader, gateway>>
    BY <1>3 DEF CallbackParked, money, outside
  <2>2. TableOK' /\ PartiesOK'
    BY <2>1 DEF DepositInv, TableOK, Unique, RowOK, Known, PartiesOK, HandlerOK, ReaderOK
  <2>3. /\ acknowledged' = acknowledged \cup {deposits'[d].trade_id}
        /\ deposits'[d].trade_id \in Intents /\ deposits'[d].status \in {"paid", "failed"}
    BY <2>1, MatchedFacts, Facts DEF RowOK, Deposit
  <2> QED
    BY <2>1, <2>2, <2>3, MoneySame, AnswersSafe DEF DepositInv
<1> QED
  BY <1>1, <1>2, <1>3

(* An "ok" that names no payment.                                          *)
LEMMA CallbackIgnoredSafe ==
    ASSUME DepositInv, NEW c, CallbackIgnored(c)
    PROVE  DepositInv'
<1>1. /\ acknowledged' = acknowledged \cup {None}
      /\ UNCHANGED <<wallets, entries, deposits, handler, reader, gateway>>
  BY DEF CallbackIgnored, Acknowledge, money, outside
<1>2. TableOK' /\ PartiesOK'
  BY <1>1 DEF DepositInv, TableOK, Unique, RowOK, Known, PartiesOK, HandlerOK, ReaderOK
<1> QED
  BY <1>1, <1>2, MoneySame, AnswersSafe DEF DepositInv

LEMMA ReconcileExpiredSafe ==
    ASSUME DepositInv, NEW r \in Readers, NEW d \in Intents, ReconcileExpired(r, d)
    PROVE  DepositInv'
<1> DEFINE new == [deposits[d] EXCEPT !.status = "expired"]
<1>1. /\ SetDeposit(d, new) /\ deposits[d].status = "created" /\ Done(r)
      /\ UNCHANGED <<wallets, entries, handler, gateway, acknowledged>>
  BY DEF ReconcileExpired, money
<1>2. deposits[d] \in Deposit /\ deposits[d].expected > 0
  BY <1>1, Facts DEF RowOK
<1>3. /\ new \in Deposit /\ new.status = "expired"
      /\ new.trade_id = deposits[d].trade_id /\ new.expected = deposits[d].expected
  BY <1>2 DEF Deposit
<1> HIDE DEF new
<1>4. RowMayBecome(d, new)
  BY <1>2, <1>3 DEF RowMayBecome
<1>5. UNCHANGED reader \/ \E q \in Readers : Done(q)
  BY <1>1
<1>6. /\ deposits[d].status # "absent"
      /\ deposits[d].status \in {"paid", "failed"} =>
            new.status = deposits[d].status /\ new.trade_id = deposits[d].trade_id
      /\ new.status = "paid" =>
            /\ deposits[d].status = "paid"
            /\ new.trade_id = deposits[d].trade_id /\ new.expected = deposits[d].expected
  BY <1>1, <1>3
<1>7. /\ UNCHANGED <<wallets, entries, handler, gateway>>
      /\ \/ UNCHANGED acknowledged
         \/ Answers(new) /\ new.status \in {"paid", "failed"}
  BY <1>1
<1> QED
  BY <1>1, <1>3, <1>4, <1>5, <1>6, <1>7, UnpaidSafe, Zenon

(* A credit, from either side.                                             *)
LEMMA PayInSafe ==
    ASSUME DepositInv, NEW d \in Intents, NEW deposit \in Deposit, NEW txid \in Txids \cup {None},
           PayIn(d, deposit, txid), deposit.status = deposits[d].status,
           \/ deposit.trade_id = deposits[d].trade_id
           \/ /\ deposits[d].trade_id = None
              /\ Unused(deposit.trade_id) /\ Known(deposit.trade_id),
           deposit.expected > 0, UNCHANGED <<handler, gateway>>,
           \/ UNCHANGED reader
           \/ \E r \in Readers : Done(r),
           \/ acknowledged' = acknowledged
           \/ acknowledged' = acknowledged \cup {deposit.trade_id}
    PROVE  DepositInv'
<1> DEFINE new == Paid(deposit, txid)
<1>1. /\ SetDeposit(d, new) /\ deposit.trade_id # None
      /\ deposits[d].status \in {"created", "expired"}
  BY DEF PayIn, Payable
<1>2. /\ new \in Deposit /\ new.status = "paid"
      /\ new.trade_id = deposit.trade_id /\ new.expected = deposit.expected
  BY TxidFacts
<1>3. MoneyOK'
  <2>1. \A e \in PaidDeposits : deposits[e].trade_id # deposit.trade_id
    BY <1>1, Facts DEF PaidDeposits, Unique, Unused
  <2> QED
    BY <1>1, <2>1, MoneyPaid
<1> HIDE DEF new
<1>4. /\ deposits'[d] = new
      /\ \A e \in Intents : e # d => deposits'[e] = deposits[e]
  BY <1>1, <1>2, Written
<1>5. RowMayBecome(d, new)
  BY <1>1, <1>2 DEF RowMayBecome
<1>6. TableOK' /\ PartiesOK'
  BY <1>1, <1>2, <1>5, RowSafe, PartiesSafe
<1>7. AnswersOK'
  <2>1. new.trade_id \in Intents
    BY <1>1, <1>2 DEF Deposit
  <2> QED
    BY <1>1, <1>2, <1>4, <2>1, AnswersSafe
<1> QED
  BY <1>3, <1>6, <1>7 DEF DepositInv

LEMMA CreditSafe ==
    ASSUME DepositInv, NEW d \in Intents,
           \/ \E c \in Callbacks(d) : CallbackPaysIn(d, c)
           \/ \E r \in Readers : ReconcilePaid(r, d)
    PROVE  DepositInv'
<1>1. ASSUME NEW c \in Callbacks(d), CallbackPaysIn(d, c)
      PROVE  DepositInv'
  <2>1. /\ PayIn(d, Matched(d, c), c.txid) /\ Matches(d, c) /\ Acknowledge(c)
        /\ UNCHANGED <<handler, reader, gateway>>
    BY <1>1 DEF CallbackPaysIn, outside
  <2>2. /\ Matched(d, c) \in Deposit /\ Matched(d, c).status = deposits[d].status
        /\ Matched(d, c).expected > 0 /\ c.txid \in Txids \cup {None}
        /\ \/ Matched(d, c).trade_id = deposits[d].trade_id
           \/ /\ deposits[d].trade_id = None
              /\ Unused(Matched(d, c).trade_id) /\ Known(Matched(d, c).trade_id)
        /\ acknowledged' = acknowledged \cup {Matched(d, c).trade_id}
    BY <2>1, MatchedFacts
  <2> QED
    BY <2>1, <2>2, PayInSafe
<1>2. ASSUME NEW r \in Readers, ReconcilePaid(r, d)
      PROVE  DepositInv'
  <2>1. /\ PayIn(d, deposits[d], None) /\ Done(r)
        /\ UNCHANGED <<handler, gateway, acknowledged>>
    BY <1>2 DEF ReconcilePaid
  <2>2. deposits[d] \in Deposit /\ deposits[d].expected > 0
    BY <2>1, Facts DEF RowOK, PayIn, Payable
  <2> QED
    BY <2>1, <2>2, PayInSafe
<1> QED
  BY <1>1, <1>2

LEMMA NextSafe == DepositInv /\ [Next]_vars => DepositInv'
<1> SUFFICES ASSUME DepositInv, [Next]_vars PROVE DepositInv'
  OBVIOUS
<1>1. CASE UNCHANGED vars
  BY <1>1 DEF vars, DepositInv, TableOK, Unique, RowOK, Known, PartiesOK, HandlerOK, ReaderOK,
              MoneyOK, Ledger, PaidDeposits, PaymentOf, AnswersOK, AcknowledgedIsDecided,
              Settled, Decided
<1>2. ASSUME NEW d \in Intents, Prepare(d) \/ BindReply(d)
      PROVE  DepositInv'
  BY <1>2, PrepareSafe, BindReplySafe
<1>3. ASSUME NEW d \in Intents, NEW c \in Callbacks(d),
             \/ CallbackPaysIn(d, c) \/ CallbackRepeats(d, c)
             \/ CallbackFails(d, c) \/ CallbackParked(d, c)
      PROVE  DepositInv'
  BY <1>3, CallbackUnpaidSafe, CreditSafe
<1>4. ASSUME NEW r \in Readers, NEW d \in Intents, ReconcilePaid(r, d) \/ ReconcileExpired(r, d)
      PROVE  DepositInv'
  BY <1>4, ReconcileExpiredSafe, CreditSafe
<1>5. ASSUME NEW c, CallbackIgnored(c)
      PROVE  DepositInv'
  BY <1>5, CallbackIgnoredSafe
<1> QED
  BY <1>1, <1>2, <1>3, <1>4, <1>5, OutsideSafe DEF Next

LEMMA InvariantHolds == Spec => []DepositInv
BY InitCorrect, NextSafe, PTL DEF Spec

(* The table and what each party remembers keep their shape, and a deposit *)
(* that exists has a positive amount to pay.                               *)
THEOREM TypeCorrect == Spec => []TypeOK
<1>1. DepositInv => TypeOK
  BY DEF DepositInv, TypeOK, TableOK, PartiesOK, MoneyOK, AnswersOK, RowOK, HandlerPcs, Reader,
         Payment
<1> QED
  BY InvariantHolds, <1>1, PTL

(* However many callbacks, replies and status answers prove a payment, the *)
(* ledger has one credit for it, to the payer of the deposit bound to it   *)
(* (mark_paid, credit, the unique trade_id).                               *)
THEOREM CreditsAreUnique == Spec => []CreditedExactlyOnce
<1>1. DepositInv => CreditedExactlyOnce
  BY DEF DepositInv, MoneyOK, Ledger, PaidDeposits, TableOK, Unique, CreditedExactlyOnce
<1> QED
  BY InvariantHolds, <1>1, PTL

(* Of all the ways to be answered "ok" (handle), a success callback that   *)
(* names its payment has only those that leave this payment bound to a     *)
(* deposit and the deposit paid or parked, and that stays so: whatever     *)
(* other callbacks are ignored, mispaired, repeated or late.               *)
THEOREM AcknowledgementsAreFinal == Spec => []AcknowledgedIsDecided
<1>1. DepositInv => AcknowledgedIsDecided
  BY DEF DepositInv, AnswersOK
<1> QED
  BY InvariantHolds, <1>1, PTL

-----------------------------------------------------------------------------
(* What DecisionsStand asks of the row of one deposit.                     *)
Stands(old, new) ==
    /\ old.status \in {"paid", "failed"} => new.status = old.status
    /\ old.trade_id # None => new.trade_id = old.trade_id /\ new.expected = old.expected
    /\ old.txid # None => new.txid = old.txid

(* The actions that write a row.                                           *)
LEMMA RowsWritten ==
    ASSUME Next
    PROVE  \/ UNCHANGED deposits
           \/ \E e \in Intents :
                \/ Prepare(e) \/ BindReply(e)
                \/ \E c \in Callbacks(e) :
                     \/ CallbackRepeats(e, c) \/ CallbackFails(e, c) \/ CallbackPaysIn(e, c)
                \/ \E r \in Readers : ReconcilePaid(r, e) \/ ReconcileExpired(r, e)
BY DEF Next, PostDeposit, Reply, HandlerStops, GatewayAccepts, GatewayProceeds, AskStatus,
       StatusReply, ReaderStops, CallbackParked, CallbackIgnored

LEMMA RowsStand ==
    ASSUME DepositInv, Next, NEW d \in Intents
    PROVE  Stands(deposits[d], deposits'[d])
<1>1. ASSUME NEW e \in Intents, NEW new \in Deposit, SetDeposit(e, new),
             Stands(deposits[e], new)
      PROVE  Stands(deposits[d], deposits'[d])
  <2>1. /\ deposits'[e] = new
        /\ d # e => deposits'[d] = deposits[d]
    BY <1>1, Written
  <2> QED
    BY <1>1, <2>1 DEF Stands
<1>2. ASSUME UNCHANGED deposits PROVE Stands(deposits[d], deposits'[d])
  BY <1>2 DEF Stands
<1>3. ASSUME NEW e \in Intents, Prepare(e) PROVE Stands(deposits[d], deposits'[d])
  <2> DEFINE new == [NoDeposit EXCEPT !.status = "created", !.expected = Amount[e]]
  <2>1. SetDeposit(e, new) /\ deposits[e] = NoDeposit
    BY <1>3, Facts DEF Prepare, RowOK
  <2>2. Amount[e] \in Nat
    BY DepositsAssumption
  <2>3. new \in Deposit
    <3>1. NoDeposit \in Deposit
      BY DEF NoDeposit, Deposit
    <3> QED
      BY <2>2, <3>1 DEF Deposit
  <2>4. Stands(deposits[e], new)
    BY <2>1 DEF Stands, NoDeposit
  <2> QED
    BY <1>1, <2>1, <2>3, <2>4
<1>4. ASSUME NEW e \in Intents, BindReply(e) PROVE Stands(deposits[d], deposits'[d])
  <2> DEFINE new == Bound(deposits[e], e, gateway[e].actual)
  <2>1. /\ SetDeposit(e, new) /\ CanBind(deposits[e], e, gateway[e].actual)
        /\ deposits[e] \in Deposit /\ gateway[e].actual \in Nat
    BY <1>4, Facts DEF BindReply, Payment
  <2>2. /\ new \in Deposit /\ new.status = deposits[e].status /\ new.txid = deposits[e].txid
        /\ new.trade_id = e /\ new.expected = gateway[e].actual
    BY <2>1 DEF Bound, Deposit
  <2>3. Stands(deposits[e], new)
    BY <2>1, <2>2 DEF Stands, CanBind
  <2> QED
    BY <1>1, <2>1, <2>2, <2>3
<1>5. ASSUME NEW e \in Intents, NEW c \in Callbacks(e), CallbackRepeats(e, c)
      PROVE  Stands(deposits[d], deposits'[d])
  <2> DEFINE new == WithTxid(deposits[e], c.txid)
  <2>1. SetDeposit(e, new) /\ deposits[e] \in Deposit /\ c.txid \in Txids \cup {None}
    BY <1>5, MatchedFacts DEF CallbackRepeats
  <2>2. new \in Deposit /\ Stands(deposits[e], new)
    BY <2>1, TxidFacts DEF Stands
  <2> QED
    BY <1>1, <2>1, <2>2
<1>6. ASSUME NEW e \in Intents, NEW c \in Callbacks(e),
             CallbackFails(e, c) \/ CallbackPaysIn(e, c)
      PROVE  Stands(deposits[d], deposits'[d])
  <2> DEFINE m == Matched(e, c)
  <2>1. /\ m \in Deposit /\ m.txid = deposits[e].txid /\ c.txid \in Txids \cup {None}
        /\ deposits[e].trade_id # None =>
              m.trade_id = deposits[e].trade_id /\ m.expected = deposits[e].expected
    BY <1>6, MatchedFacts DEF CallbackFails, CallbackPaysIn
  <2>2. deposits[e].status \in Payable
    BY <1>6, MatchedFacts DEF CallbackFails, CallbackPaysIn, PayIn
  <2> HIDE DEF m
  <2>3. CASE CallbackFails(e, c)
    <3> DEFINE new == [m EXCEPT !.status = "failed"]
    <3>1. SetDeposit(e, new)
      BY <2>3 DEF CallbackFails, m
    <3>2. new \in Deposit /\ Stands(deposits[e], new)
      BY <2>1, <2>2 DEF Stands, Payable, Deposit
    <3> QED
      BY <1>1, <3>1, <3>2
  <2>4. CASE CallbackPaysIn(e, c)
    <3>1. SetDeposit(e, Paid(m, c.txid))
      BY <2>4 DEF CallbackPaysIn, PayIn, m
    <3>2. Paid(m, c.txid) \in Deposit /\ Stands(deposits[e], Paid(m, c.txid))
      BY <2>1, <2>2, TxidFacts DEF Stands, Payable
    <3> QED
      BY <1>1, <3>1, <3>2
  <2> QED
    BY <1>6, <2>3, <2>4
<1>7. ASSUME NEW r \in Readers, NEW e \in Intents, ReconcilePaid(r, e)
      PROVE  Stands(deposits[d], deposits'[d])
  <2> DEFINE new == Paid(deposits[e], None)
  <2>1. SetDeposit(e, new) /\ deposits[e] \in Deposit /\ deposits[e].status \in Payable
    BY <1>7, Facts DEF ReconcilePaid, PayIn
  <2>2. new \in Deposit /\ Stands(deposits[e], new)
    BY <2>1, TxidFacts DEF Stands, Payable
  <2> QED
    BY <1>1, <2>1, <2>2
<1>8. ASSUME NEW r \in Readers, NEW e \in Intents, ReconcileExpired(r, e)
      PROVE  Stands(deposits[d], deposits'[d])
  <2> DEFINE new == [deposits[e] EXCEPT !.status = "expired"]
  <2>1. SetDeposit(e, new) /\ deposits[e] \in Deposit /\ deposits[e].status = "created"
    BY <1>8, Facts DEF ReconcileExpired
  <2>2. new \in Deposit /\ Stands(deposits[e], new)
    BY <2>1 DEF Stands, Deposit
  <2> QED
    BY <1>1, <2>1, <2>2
<1> QED
  BY <1>2, <1>3, <1>4, <1>5, <1>6, <1>7, <1>8, RowsWritten

(* Paid and failed are final, and the payment, the amount and the          *)
(* transaction number of a deposit are written once, whichever side is     *)
(* late (the checks under the row lock after each answer).                 *)
THEOREM DecisionsAreFinal == Spec => DecisionsStand
<1> DEFINE Stand ==
      \A d \in Intents :
        /\ deposits[d].status \in {"paid", "failed"} => deposits'[d].status = deposits[d].status
        /\ deposits[d].trade_id # None =>
             /\ deposits'[d].trade_id = deposits[d].trade_id
             /\ deposits'[d].expected = deposits[d].expected
        /\ deposits[d].txid # None => deposits'[d].txid = deposits[d].txid
<1>1. DepositInv /\ [Next]_vars => [Stand]_vars
  BY RowsStand DEF Stands
<1> QED
  BY InvariantHolds, <1>1, PTL DEF Spec, DecisionsStand

-----------------------------------------------------------------------------
(* No deposit is bound to another one's payment (match_callback,           *)
(* submit_deposit).                                                        *)
RightlyPaired == \A d \in Intents : ~Mispaired(d)

(* Without callbacks that name another payment a row is bound to its own.  *)
LEMMA PairingSafe ==
    ASSUME ~Foreign, DepositInv, RightlyPaired, Next
    PROVE  RightlyPaired'
<1>1. ASSUME NEW e \in Intents, NEW new \in Deposit, SetDeposit(e, new),
             new.trade_id = deposits[e].trade_id \/ new.trade_id = e
      PROVE  RightlyPaired'
  <2>1. /\ deposits'[e] = new
        /\ \A d \in Intents : d # e => deposits'[d] = deposits[d]
    BY <1>1, Written
  <2> QED
    BY <1>1, <2>1 DEF RightlyPaired, Mispaired
<1>2. ASSUME UNCHANGED deposits PROVE RightlyPaired'
  BY <1>2 DEF RightlyPaired, Mispaired
<1>3. ASSUME NEW e \in Intents, Prepare(e) PROVE RightlyPaired'
  <2> DEFINE new == [NoDeposit EXCEPT !.status = "created", !.expected = Amount[e]]
  <2>1. SetDeposit(e, new) /\ deposits[e] = NoDeposit
    BY <1>3, Facts DEF Prepare, RowOK
  <2>2. Amount[e] \in Nat
    BY DepositsAssumption
  <2>3. new \in Deposit
    <3>1. NoDeposit \in Deposit
      BY DEF NoDeposit, Deposit
    <3> QED
      BY <2>2, <3>1 DEF Deposit
  <2>4. new.trade_id = deposits[e].trade_id
    BY <2>1 DEF NoDeposit
  <2> QED
    BY <1>1, <2>1, <2>3, <2>4
<1>4. ASSUME NEW e \in Intents, BindReply(e) PROVE RightlyPaired'
  <2> DEFINE new == Bound(deposits[e], e, gateway[e].actual)
  <2>1. SetDeposit(e, new) /\ deposits[e] \in Deposit /\ gateway[e].actual \in Nat
    BY <1>4, Facts DEF BindReply, Payment
  <2>2. new \in Deposit /\ new.trade_id = e
    BY <2>1 DEF Bound, Deposit
  <2> QED
    BY <1>1, <2>1, <2>2
<1>5. ASSUME NEW e \in Intents, NEW c \in Callbacks(e), CallbackRepeats(e, c)
      PROVE  RightlyPaired'
  <2> DEFINE new == WithTxid(deposits[e], c.txid)
  <2>1. SetDeposit(e, new) /\ deposits[e] \in Deposit /\ c.txid \in Txids \cup {None}
    BY <1>5, MatchedFacts DEF CallbackRepeats
  <2>2. new \in Deposit /\ new.trade_id = deposits[e].trade_id
    BY <2>1, TxidFacts
  <2> QED
    BY <1>1, <2>1, <2>2
<1>6. ASSUME NEW e \in Intents, NEW c \in Callbacks(e),
             CallbackFails(e, c) \/ CallbackPaysIn(e, c)
      PROVE  RightlyPaired'
  <2> DEFINE m == Matched(e, c)
  <2>1. /\ m \in Deposit /\ m.trade_id = c.trade_id /\ c.trade_id # None
        /\ c.txid \in Txids \cup {None}
    BY <1>6, MatchedFacts DEF CallbackFails, CallbackPaysIn
  <2>2. m.trade_id = e
    BY <2>1 DEF Callbacks
  <2> HIDE DEF m
  <2>3. CASE CallbackFails(e, c)
    <3> DEFINE new == [m EXCEPT !.status = "failed"]
    <3>1. SetDeposit(e, new)
      BY <2>3 DEF CallbackFails, m
    <3>2. new \in Deposit /\ new.trade_id = e
      BY <2>1, <2>2 DEF Deposit
    <3> QED
      BY <1>1, <3>1, <3>2
  <2>4. CASE CallbackPaysIn(e, c)
    <3>1. SetDeposit(e, Paid(m, c.txid))
      BY <2>4 DEF CallbackPaysIn, PayIn, m
    <3>2. Paid(m, c.txid) \in Deposit /\ Paid(m, c.txid).trade_id = e
      BY <2>1, <2>2, TxidFacts
    <3> QED
      BY <1>1, <3>1, <3>2
  <2> QED
    BY <1>6, <2>3, <2>4
<1>7. ASSUME NEW r \in Readers, NEW e \in Intents, ReconcilePaid(r, e)
      PROVE  RightlyPaired'
  <2> DEFINE new == Paid(deposits[e], None)
  <2>1. SetDeposit(e, new) /\ deposits[e] \in Deposit
    BY <1>7, Facts DEF ReconcilePaid, PayIn
  <2>2. new \in Deposit /\ new.trade_id = deposits[e].trade_id
    BY <2>1, TxidFacts
  <2> QED
    BY <1>1, <2>1, <2>2
<1>8. ASSUME NEW r \in Readers, NEW e \in Intents, ReconcileExpired(r, e)
      PROVE  RightlyPaired'
  <2> DEFINE new == [deposits[e] EXCEPT !.status = "expired"]
  <2>1. SetDeposit(e, new) /\ deposits[e] \in Deposit
    BY <1>8, Facts DEF ReconcileExpired
  <2>2. new \in Deposit /\ new.trade_id = deposits[e].trade_id
    BY <2>1 DEF Deposit
  <2> QED
    BY <1>1, <2>1, <2>2
<1> QED
  BY <1>2, <1>3, <1>4, <1>5, <1>6, <1>7, <1>8, RowsWritten

(* PaymentsAreDecided excepts a payment whose order was bound to another   *)
(* one.  That takes a signed callback that pairs them wrongly: when the    *)
(* gateway sends none (Foreign is FALSE), the exception is never met,      *)
(* whatever else it sends and repeats (match_callback, _bind_transaction). *)
THEOREM PairingsAreRight ==
    ASSUME ~Foreign
    PROVE  Spec => []RightlyPaired
<1>1. DepositsInit => RightlyPaired
  BY DEF DepositsInit, NoDeposit, RightlyPaired, Mispaired
<1>2. DepositInv /\ RightlyPaired /\ [Next]_vars => RightlyPaired'
  <2>1. CASE UNCHANGED vars
    BY <2>1 DEF vars, RightlyPaired, Mispaired
  <2> QED
    BY <2>1, PairingSafe
<1> QED
  BY <1>1, <1>2, InvariantHolds, PTL DEF Spec
=============================================================================
