------------------------------ MODULE Deposits ------------------------------
(***************************************************************************)
(* TRX top-ups through the GMPay gateway (services/deposit.py, the chat    *)
(* commands of handlers/deposit.py and the callback of web/gmpay.py).      *)
(*                                                                         *)
(* Three parties write one deposit row, each in a transaction under its    *)
(* row lock: the chat handler that created the intent and posted it to the *)
(* gateway, the gateway's payment callback, and /deposit_status, which     *)
(* asks the gateway between two transactions.  A callback that is answered *)
(* other than "ok" (400, 401, 413, 503), and a reply whose check fails, is *)
(* rolled back and changes nothing: there is no action for it.  Each way a *)
(* callback may be answered "ok" is an action.  The gateway's number for   *)
(* the payment of deposit d is d itself.                                   *)
(***************************************************************************)
EXTENDS Wallet

CONSTANTS
    Intents,        \* the /deposit messages: each makes one merchant order
    Payer,          \* deposit -> its user
    Amount,         \* deposit -> the amount asked for
    Actuals,        \* amounts the gateway may ask for or report as paid
    Txids,          \* block transaction numbers
    Readers,        \* concurrent /deposit_status commands
    Foreign,        \* may a callback pair an order with another one's payment
    None            \* an absent value

ASSUME DepositsAssumption ==
    /\ Payer \in [Intents -> Users]
    /\ Amount \in [Intents -> Nat \ {0}]
    /\ Actuals \subseteq Nat \ {0}
    /\ Foreign \in BOOLEAN
    /\ None \notin Intents \cup Txids

VARIABLES
    deposits,       \* the deposit_orders table
    handler,        \* deposit -> progress of the handler that created it
    reader,         \* reader -> progress of a status command
    gateway,        \* payment -> what the gateway knows
    acknowledged    \* payments whose success was answered "ok"; None: any other "ok"

vars == <<wallets, entries, deposits, handler, reader, gateway, acknowledged>>

Payable == {"created", "expired"}

NoDeposit == [status |-> "absent", trade_id |-> None, expected |-> 0, txid |-> None]
NoReader == [pc |-> "idle", deposit |-> None, answer |-> "none"]
NoPayment == [status |-> "none", actual |-> 0]

DepositsInit ==
    /\ wallets = [u \in Users |-> EmptyWallet]
    /\ entries = {}
    /\ deposits = [d \in Intents |-> NoDeposit]
    /\ handler = [d \in Intents |-> "idle"]
    /\ reader = [r \in Readers |-> NoReader]
    /\ gateway = [d \in Intents |-> NoPayment]
    /\ acknowledged = {}

SetDeposit(d, deposit) == deposits' = [deposits EXCEPT ![d] = deposit]
money == <<wallets, entries>>
outside == <<handler, reader, gateway>>

-----------------------------------------------------------------------------
(* _bind_transaction: the gateway's number and amount are stored once, a   *)
(* second time they must be the same; trade_id is unique in the table.     *)
Unused(trade) == \A d \in Intents : deposits[d].trade_id # trade

CanBind(deposit, trade, actual) ==
    \/ deposit.trade_id = None /\ Unused(trade)
    \/ deposit.trade_id = trade /\ deposit.expected = actual

Bound(deposit, trade, actual) ==
    [deposit EXCEPT !.trade_id = trade, !.expected = actual]

(* prepare_deposit, committed by the handler: only the handler whose       *)
(* insert created the row goes on to the gateway; the message delivered    *)
(* again finds the row and only shows it.                                  *)
Prepare(d) ==
    /\ deposits[d].status = "absent"
    /\ SetDeposit(d, [NoDeposit EXCEPT !.status = "created", !.expected = Amount[d]])
    /\ handler' = [handler EXCEPT ![d] = "posting"]
    /\ UNCHANGED <<money, reader, gateway, acknowledged>>

(* submit_deposit: the POST is sent outside any transaction ... *)
PostDeposit(d) ==
    /\ handler[d] = "posting"
    /\ handler' = [handler EXCEPT ![d] = "sent"]
    /\ gateway' = [gateway EXCEPT ![d].status = "posted"]
    /\ UNCHANGED <<money, deposits, reader, acknowledged>>

Reply(d) ==
    /\ handler[d] = "sent"
    /\ gateway[d].status # "posted"
    /\ handler' = [handler EXCEPT ![d] = "answered"]
    /\ UNCHANGED <<money, deposits, reader, gateway, acknowledged>>

(* ... and its reply merged under the lock with what a callback stored.    *)
BindReply(d) ==
    /\ handler[d] = "answered"
    /\ CanBind(deposits[d], d, gateway[d].actual)
    /\ SetDeposit(d, Bound(deposits[d], d, gateway[d].actual))
    /\ handler' = [handler EXCEPT ![d] = "idle"]
    /\ UNCHANGED <<money, reader, gateway, acknowledged>>

(* The handler ends before: an error, a timeout, a foreign reply, a crash. *)
(* The intent stays as it is.                                              *)
HandlerStops(d) ==
    /\ handler[d] # "idle"
    /\ handler' = [handler EXCEPT ![d] = "idle"]
    /\ UNCHANGED <<money, deposits, reader, gateway, acknowledged>>

-----------------------------------------------------------------------------
(* mark_paid for a deposit record that may just have been bound in the     *)
(* same transaction: the same transaction number may come again, another   *)
(* one may not.                                                            *)
SameTxid(deposit, txid) == txid = None \/ deposit.txid = None \/ txid = deposit.txid

WithTxid(deposit, txid) == IF deposit.txid = None THEN [deposit EXCEPT !.txid = txid] ELSE deposit

Paid(deposit, txid) == [WithTxid(deposit, txid) EXCEPT !.status = "paid"]

(* Fault: the row is not marked, so the next proof pays in again. *)
PayInUnmarked(d, deposit, txid) ==
    /\ deposit.status \in Payable
    /\ deposit.trade_id # None
    /\ SameTxid(deposit, txid)
    /\ Credit(Payer[d], deposit.expected, deposit.trade_id)
    /\ SetDeposit(d, WithTxid(deposit, txid))

PayIn(d, deposit, txid) ==
    /\ deposit.status \in Payable
    /\ deposit.trade_id # None
    /\ SameTxid(deposit, txid)
    /\ Credit(Payer[d], deposit.expected, deposit.trade_id)
    /\ SetDeposit(d, Paid(deposit, txid))

-----------------------------------------------------------------------------
(* The callback for merchant order d (GmpayWebhookView.handle after its    *)
(* signature check): it says whether this is a success (status 2), names   *)
(* the payment (None when its trade_id is missing or malformed), what was  *)
(* asked (right or not), what was paid, the coin and perhaps the           *)
(* transaction.                                                            *)
Callbacks(d) ==
    [success : BOOLEAN, trade_id : {d, None} \cup IF Foreign THEN Intents ELSE {},
     amount_agrees : BOOLEAN, actual : Actuals, trx : BOOLEAN, txid : Txids \cup {None}]

(* A success that names its payment: only these reach the deposits.        *)
Placed(c) == c.success /\ c.trade_id # None

Acknowledge(c) ==
    acknowledged' = acknowledged \cup {IF Placed(c) THEN c.trade_id ELSE None}

(* Answered "ok" before the deposits are looked at, and before the rest of *)
(* the callback is read: the status is not 2, or there is no payment to    *)
(* look for and a repetition would not help.                               *)
CallbackIgnored(c) ==
    /\ ~Placed(c)
    /\ Acknowledge(c)
    /\ UNCHANGED <<money, deposits, outside>>

(* Fault: a callback never binds, only the reply does. *)
MatchesBound(d, c) ==
    /\ Placed(c) /\ gateway[c.trade_id].status = "paid"
    /\ deposits[d].status # "absent"
    /\ c.amount_agrees
    /\ deposits[d].trade_id = c.trade_id

(* match_callback: an unbound deposit is bound to what the callback says.  *)
Matches(d, c) ==
    /\ Placed(c) /\ gateway[c.trade_id].status = "paid"
    /\ deposits[d].status # "absent"
    /\ c.amount_agrees
    /\ IF deposits[d].trade_id = None THEN c.trx /\ CanBind(deposits[d], c.trade_id, c.actual)
                                      ELSE deposits[d].trade_id = c.trade_id

Matched(d, c) ==
    IF deposits[d].trade_id = None THEN Bound(deposits[d], c.trade_id, c.actual)
                                   ELSE deposits[d]

Accords(deposit, c) == c.trx /\ c.actual = deposit.expected

CallbackPaysIn(d, c) ==
    /\ Matches(d, c) /\ Accords(Matched(d, c), c)
    /\ PayIn(d, Matched(d, c), c.txid)
    /\ Acknowledge(c)
    /\ UNCHANGED outside

(* Paid before: only a missing transaction number is filled in. *)
CallbackRepeats(d, c) ==
    /\ Matches(d, c) /\ Accords(deposits[d], c)
    /\ deposits[d].status = "paid"
    /\ SameTxid(deposits[d], c.txid)
    /\ SetDeposit(d, WithTxid(deposits[d], c.txid))
    /\ Acknowledge(c)
    /\ UNCHANGED <<money, outside>>

(* The wrong coin or amount parks an unpaid deposit for a human.           *)
CallbackFails(d, c) ==
    /\ Matches(d, c) /\ ~Accords(Matched(d, c), c)
    /\ deposits[d].status \in Payable
    /\ SetDeposit(d, [Matched(d, c) EXCEPT !.status = "failed"])
    /\ Acknowledge(c)
    /\ UNCHANGED <<money, outside>>

(* Fault: a callback that matches is acknowledged before it is applied. *)
CallbackParkedEarly(d, c) ==
    /\ Matches(d, c)
    /\ Acknowledge(c)
    /\ UNCHANGED <<money, deposits, outside>>

(* A parked deposit is not looked at again, but the callback is answered.  *)
CallbackParked(d, c) ==
    /\ Matches(d, c)
    /\ deposits[d].status = "failed"
    /\ Acknowledge(c)
    /\ UNCHANGED <<money, deposits, outside>>

-----------------------------------------------------------------------------
(* reconcile_deposit: the row is read, the gateway asked, the row locked   *)
(* and read again before the answer is used.                               *)
AskStatus(r, d) ==
    /\ reader[r] = NoReader
    /\ deposits[d].status \in Payable /\ deposits[d].trade_id # None
    /\ reader' = [reader EXCEPT ![r] = [@ EXCEPT !.pc = "asking", !.deposit = d]]
    /\ UNCHANGED <<money, deposits, handler, gateway, acknowledged>>

StatusReply(r) ==
    /\ reader[r].pc = "asking"
    /\ reader' = [reader EXCEPT ![r] = [@ EXCEPT !.pc = "answered",
                    !.answer = gateway[deposits[reader[r].deposit].trade_id].status]]
    /\ UNCHANGED <<money, deposits, handler, gateway, acknowledged>>

Done(r) == reader' = [reader EXCEPT ![r] = NoReader]

ReconcilePaid(r, d) ==
    /\ reader[r] = [pc |-> "answered", deposit |-> d, answer |-> "paid"]
    /\ PayIn(d, deposits[d], None)
    /\ Done(r)
    /\ UNCHANGED <<handler, gateway, acknowledged>>

(* Fault: the answer is applied to whatever the row has become. *)
ReconcileExpiredStale(r, d) ==
    /\ reader[r] = [pc |-> "answered", deposit |-> d, answer |-> "expired"]
    /\ SetDeposit(d, [deposits[d] EXCEPT !.status = "expired"])
    /\ Done(r)
    /\ UNCHANGED <<money, handler, gateway, acknowledged>>

ReconcileExpired(r, d) ==
    /\ reader[r] = [pc |-> "answered", deposit |-> d, answer |-> "expired"]
    /\ deposits[d].status = "created"
    /\ SetDeposit(d, [deposits[d] EXCEPT !.status = "expired"])
    /\ Done(r)
    /\ UNCHANGED <<money, handler, gateway, acknowledged>>

(* Any other answer, an answer that comes too late, or none.               *)
ReaderStops(r) ==
    /\ reader[r].pc # "idle"
    /\ Done(r)
    /\ UNCHANGED <<money, deposits, handler, gateway, acknowledged>>

-----------------------------------------------------------------------------
(* The gateway: a posted order gets an amount to pay, is paid or expires,  *)
(* and may still be paid after it expired.                                 *)
GatewayAccepts(d, actual) ==
    /\ gateway[d].status = "posted"
    /\ gateway' = [gateway EXCEPT ![d] = [status |-> "waiting", actual |-> actual]]
    /\ UNCHANGED <<money, deposits, handler, reader, acknowledged>>

GatewayProceeds(d, status) ==
    /\ \/ gateway[d].status = "waiting" /\ status \in {"paid", "expired"}
       \/ gateway[d].status = "expired" /\ status = "paid"
    /\ gateway' = [gateway EXCEPT ![d].status = status]
    /\ UNCHANGED <<money, deposits, handler, reader, acknowledged>>

Next ==
    \/ \E d \in Intents :
        \/ Prepare(d)
        \/ PostDeposit(d)
        \/ Reply(d)
        \/ BindReply(d)
        \/ HandlerStops(d)
        \/ \E actual \in Actuals : GatewayAccepts(d, actual)
        \/ \E status \in {"paid", "expired"} : GatewayProceeds(d, status)
    \/ \E d \in Intents : \E c \in Callbacks(d) :
        \/ CallbackPaysIn(d, c)
        \/ CallbackRepeats(d, c)
        \/ CallbackFails(d, c)
        \/ CallbackParked(d, c)
    \/ \E c \in [success : BOOLEAN, trade_id : Intents \cup {None}] : CallbackIgnored(c)
    \/ \E r \in Readers :
        \/ \E d \in Intents : AskStatus(r, d) \/ ReconcilePaid(r, d) \/ ReconcileExpired(r, d)
        \/ StatusReply(r)
        \/ ReaderStops(r)

Spec == DepositsInit /\ [][Next]_vars

-----------------------------------------------------------------------------
Deposit == [status : {"absent", "created", "paid", "expired", "failed"},
            trade_id : Intents \cup {None}, expected : Nat, txid : Txids \cup {None}]

(* The shape of the table and of what each party remembers; a deposit      *)
(* always has a positive amount to pay.                                    *)
TypeOK ==
    /\ wallets \in [Users -> Balances]
    /\ deposits \in [Intents -> Deposit]
    /\ \A d \in Intents : deposits[d].status # "absent" => deposits[d].expected > 0
    /\ handler \in [Intents -> {"idle", "posting", "sent", "answered"}]
    /\ reader \in [Readers -> [pc : {"idle", "asking", "answered"},
                               deposit : Intents \cup {None},
                               answer : {"none", "waiting", "paid", "expired"}]]
    /\ gateway \in [Intents -> [status : {"none", "posted", "waiting", "paid", "expired"},
                                actual : Nat]]
    /\ acknowledged \subseteq Intents \cup {None}

(* The ledger has one credit for each paid deposit, to its payer and over  *)
(* the amount stored in its row (what the gateway's reply asked for, or    *)
(* what the callback that bound the row says was paid), and no other       *)
(* entry: however often and from whichever side the proof of a payment     *)
(* arrives.                                                                *)
PaymentOf(d) == Entry(Key("credit", deposits[d].trade_id), Payer[d], deposits[d].expected, 0)

CreditedExactlyOnce ==
    /\ entries = {PaymentOf(d) : d \in {i \in Intents : deposits[i].status = "paid"}}
    /\ \A d, e \in Intents :
          deposits[d].trade_id = deposits[e].trade_id /\ deposits[d].trade_id # None => d = e

(* Paid, or parked for a human: the deposit bound to this payment.         *)
Decided(d) == deposits[d].status \in {"paid", "failed"}

Settled(payment) == \E d \in Intents : deposits[d].trade_id = payment /\ Decided(d)

(* The gateway stops repeating a success callback once it is answered      *)
(* "ok": by then the payment it names is in a wallet, or parked for a      *)
(* human.  Only an "ok" to a callback that is no success, or names no      *)
(* payment, decides nothing.                                               *)
AcknowledgedIsDecided ==
    \A payment \in acknowledged \ {None} : Settled(payment)

(* What is decided stays decided, whichever reply, callback or status      *)
(* answer comes late; the payment a deposit is bound to, its amount and    *)
(* its transaction number are never replaced.                              *)
DecisionsStand ==
    [][\A d \in Intents :
        /\ deposits[d].status \in {"paid", "failed"} => deposits'[d].status = deposits[d].status
        /\ deposits[d].trade_id # None =>
             /\ deposits'[d].trade_id = deposits[d].trade_id
             /\ deposits'[d].expected = deposits[d].expected
        /\ deposits[d].txid # None => deposits'[d].txid = deposits[d].txid]_vars

(* Fairness: the gateway repeats the true success callback of a payment    *)
(* until it is answered "ok".                                              *)
TrueCallback(d) ==
    LET c == [success |-> TRUE, trade_id |-> d, amount_agrees |-> TRUE,
              actual |-> gateway[d].actual, trx |-> TRUE, txid |-> None]
    IN  /\ d \notin acknowledged
        /\ \/ CallbackPaysIn(d, c)
           \/ CallbackRepeats(d, c)
           \/ CallbackFails(d, c)
           \/ CallbackParked(d, c)

FairSpec == Spec /\ \A d \in Intents : WF_vars(TrueCallback(d))

(* The order that asked for this payment was bound to another payment, by  *)
(* a signed callback that paired the two wrongly.                          *)
Mispaired(d) == deposits[d].trade_id \notin {None, d}

(* A payment is not lost: also when the handler died before it stored the  *)
(* gateway's reply, or the deposit expired first, it is credited or parked *)
(* for a human.  Only a gateway that pairs its order with another payment  *)
(* takes this away: the payment's own callback is then refused (400) for   *)
(* as long as it comes, so the gateway still shows it as unanswered.       *)
PaymentsAreDecided ==
    \A d \in Intents : gateway[d].status = "paid" ~> Settled(d) \/ Mispaired(d)
=============================================================================
