------------------------------- MODULE Wallet -------------------------------
(***************************************************************************)
(* The user ledger (services/wallet.py, models/wallet.py).                 *)
(*                                                                         *)
(* A wallet row holds a user's available and frozen balance; every change  *)
(* of a balance writes one ledger entry, whose key is the table's primary  *)
(* key.  Each operator below is what one call of the service does inside   *)
(* the caller's transaction, under the row lock lock_wallet takes; a call  *)
(* that raises makes the whole transaction roll back, so its operator is   *)
(* disabled.  A wallet row that does not exist yet is one with two zero    *)
(* balances: lock_wallet inserts it with these.                            *)
(***************************************************************************)
EXTENDS Integers, FiniteSetsExt

CONSTANT Users          \* the users that own a wallet

VARIABLES
    wallets,            \* user -> available and frozen balance
    entries             \* the set of ledger entries

Balances == [available : Nat, frozen : Nat]

EmptyWallet == [available |-> 0, frozen |-> 0]

(* The key of an entry: what moved and the order or payment it moved for. *)
Key(kind, reference) == <<kind, reference>>

Entry(key, user, available, frozen) ==
    [key |-> key, user |-> user,
     available_delta |-> available, frozen_delta |-> frozen]

Posted(key) == \E e \in entries : e.key = key

(* Fault: the balance moves without an entry. *)
PostUnrecorded(entry) ==
    /\ ~Posted(entry.key)
    /\ UNCHANGED entries
    /\ wallets' = [wallets EXCEPT
                     ![entry.user].available = @ + entry.available_delta,
                     ![entry.user].frozen    = @ + entry.frozen_delta]

(* A row is updated and its entry inserted; a second entry under the same  *)
(* key violates the primary key.                                           *)
Post(entry) ==
    /\ ~Posted(entry.key)
    /\ entries' = entries \cup {entry}
    /\ wallets' = [wallets EXCEPT
                     ![entry.user].available = @ + entry.available_delta,
                     ![entry.user].frozen    = @ + entry.frozen_delta]

(* credit: a payment proof is applied once; the same proof for the same    *)
(* user and amount is a no-op, for another user or amount an error.        *)
Credit(user, amount, reference) ==
    LET key == Key("credit", reference)
        new == Entry(key, user, amount, 0)
    IN  \/ Post(new)
        \/ new \in entries /\ UNCHANGED <<wallets, entries>>

(* hold: moves the price of an order from available to frozen. *)
Hold(user, order, amount) ==
    /\ wallets[user].available >= amount
    /\ Post(Entry(Key("hold", order), user, -amount, amount))

(* settle: the frozen price leaves the wallet (capture) or returns to the  *)
(* available balance (release).                                            *)
Capture(user, order, amount) ==
    /\ wallets[user].frozen >= amount
    /\ Post(Entry(Key("capture", order), user, 0, -amount))

Release(user, order, amount) ==
    /\ wallets[user].frozen >= amount
    /\ Post(Entry(Key("release", order), user, amount, -amount))

-----------------------------------------------------------------------------
EntriesOf(user) == {e \in entries : e.user = user}

(* The ledger accounts for every balance: what a wallet holds is what its  *)
(* entries add up to, and no balance ever becomes negative (the CHECK      *)
(* constraints of the wallets table never fire).                           *)
LedgerBalances ==
    \A u \in Users :
        /\ wallets[u].available =
             MapThenSumSet(LAMBDA e : e.available_delta, EntriesOf(u))
        /\ wallets[u].frozen =
             MapThenSumSet(LAMBDA e : e.frozen_delta, EntriesOf(u))
        /\ wallets[u].available >= 0
        /\ wallets[u].frozen >= 0
=============================================================================
