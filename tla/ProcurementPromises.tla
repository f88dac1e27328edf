------------------------ MODULE ProcurementPromises ------------------------
(***************************************************************************)
(* What follows from the safety of purchasing.                             *)
(*                                                                         *)
(* Part 1: the balances are the sums of the ledger's entries.  Part 2: the *)
(* actions are looked at once, to show that every step is an OrderStep for *)
(* every order.  Part 3, proved of OrderStep: an order stays in the queue, *)
(* is in the ledger as its row says, tells the user what became of it,     *)
(* tries each provider once and is written by the holder of its lease      *)
(* only.  Part 4: the POSTs of an attempt stay within the budget it has    *)
(* counted.  Part 5: the escrow refinement, a purchase at a time.          *)
(***************************************************************************)
EXTENDS ProcurementSafety, FiniteSetTheorems, WellFoundedInduction

-----------------------------------------------------------------------------
(* Part 1.  The ledger.  Sums over finite sets are defined by recursion on *)
(* the set; what is known of all its subsets follows from the strict       *)
(* subsets of a finite set being well founded.                             *)

(* What a sum over a set is, as MapThenSumSet computes it: the value at the *)
(* set of a function that takes one chosen element off at a time.           *)
Chosen(s) == CHOOSE x \in s : TRUE

IsSum(g, f, T) ==
    g = [s \in SUBSET T |->
            IF s = {} THEN 0 ELSE f[Chosen(s)] + g[s \ {Chosen(s)}]]

(* Induction over the subsets of a finite set, for a set of them. *)
LEMMA SubsetInduction ==
    ASSUME NEW S, IsFiniteSet(S), NEW Good,
           ASSUME NEW T \in SUBSET S, \A U \in SUBSET T : U # T => U \in Good
           PROVE  T \in Good
    PROVE  \A T \in SUBSET S : T \in Good
<1> DEFINE Bad == {T \in SUBSET S : T \notin Good}
<1> SUFFICES ASSUME Bad # {} PROVE FALSE
  OBVIOUS
<1>1. IsWellFoundedOn(StrictSubsetOrdering(S), SUBSET S)
  <2>1. FiniteSubsetsOf(S) = SUBSET S
    BY FS_FiniteSubsetsOfFinite
  <2>2. IsWellFoundedOn(StrictSubsetOrdering(S), FiniteSubsetsOf(S))
    BY FS_StrictSubsetOrderingWellFounded
  <2> QED
    BY <2>1, <2>2
<1>2. PICK T \in Bad : \A U \in Bad : ~(<<U, T>> \in StrictSubsetOrdering(S))
  <2>1. Bad \subseteq SUBSET S
    OBVIOUS
  <2> HIDE DEF Bad
  <2> QED
    BY <1>1, <2>1, WFMin
<1>3. \A U \in SUBSET T : U # T => U \in Good
  BY <1>2 DEF StrictSubsetOrdering
<1> QED
  BY <1>2, <1>3

(* The element taken off is one of the set.                                *)
LEMMA ChosenFacts ==
    ASSUME NEW s, s # {}
    PROVE  Chosen(s) \in s
BY DEF Chosen

(* What IsSum says of one set.                                             *)
LEMMA SumAt ==
    ASSUME NEW T, NEW f, NEW g, IsSum(g, f, T), NEW s \in SUBSET T
    PROVE  /\ s = {} => g[s] = 0
           /\ s # {} => g[s] = f[Chosen(s)] + g[s \ {Chosen(s)}]
BY DEF IsSum

(* Sums over finite sets of integers are integers ... *)
LEMMA SumType ==
    ASSUME NEW S, IsFiniteSet(S), NEW f, \A x \in S : f[x] \in Int,
           NEW g, IsSum(g, f, S)
    PROVE  \A T \in SUBSET S : g[T] \in Int
<1> DEFINE Good == {T \in SUBSET S : g[T] \in Int}
<1>1. ASSUME NEW T \in SUBSET S, \A U \in SUBSET T : U # T => U \in Good
      PROVE  T \in Good
  <2>1. CASE T = {}
    <3>1. g[T] = 0
      BY <2>1, SumAt
    <3> QED
      BY <3>1
  <2>2. CASE T # {}
    <3>1. Chosen(T) \in T
      BY <2>2, ChosenFacts
    <3>2. g[T \ {Chosen(T)}] \in Int
      BY <1>1, <3>1
    <3>3. g[T] = f[Chosen(T)] + g[T \ {Chosen(T)}]
      BY <2>2, SumAt
    <3> QED
      BY <3>1, <3>2, <3>3
  <2> QED
    BY <2>1, <2>2
<1> HIDE DEF Good
<1>2. \A T \in SUBSET S : T \in Good
  BY <1>1, SubsetInduction
<1> QED
  BY <1>2 DEF Good

(* ... do not depend on what else is summed up ... *)
LEMMA SumsAgree ==
    ASSUME NEW S, IsFiniteSet(S), NEW f,
           NEW A, NEW g, IsSum(g, f, A), S \subseteq A,
           NEW B, NEW h, IsSum(h, f, B), S \subseteq B
    PROVE  g[S] = h[S]
<1> DEFINE Good == {T \in SUBSET S : g[T] = h[T]}
<1>1. ASSUME NEW T \in SUBSET S, \A U \in SUBSET T : U # T => U \in Good
      PROVE  T \in Good
  <2>1. CASE T = {}
    <3>1. g[T] = 0
      <4>1. T \in SUBSET A
        OBVIOUS
      <4> QED
        BY <2>1, <4>1, SumAt
    <3>2. h[T] = 0
      <4>1. T \in SUBSET B
        OBVIOUS
      <4> QED
        BY <2>1, <4>1, SumAt
    <3> QED
      BY <3>1, <3>2
  <2>2. CASE T # {}
    <3>1. Chosen(T) \in T
      BY <2>2, ChosenFacts
    <3>2. g[T \ {Chosen(T)}] = h[T \ {Chosen(T)}]
      BY <1>1, <3>1
    <3>3. /\ g[T] = f[Chosen(T)] + g[T \ {Chosen(T)}]
          /\ h[T] = f[Chosen(T)] + h[T \ {Chosen(T)}]
      <4>1. T \in SUBSET A /\ T \in SUBSET B
        OBVIOUS
      <4>2. g[T] = f[Chosen(T)] + g[T \ {Chosen(T)}]
        BY <2>2, <4>1, SumAt
      <4>3. h[T] = f[Chosen(T)] + h[T \ {Chosen(T)}]
        BY <2>2, <4>1, SumAt
      <4> QED
        BY <4>2, <4>3
    <3> QED
      BY <3>2, <3>3
  <2> QED
    BY <2>1, <2>2
<1> HIDE DEF Good
<1>2. \A T \in SUBSET S : T \in Good
  BY <1>1, SubsetInduction
<1> QED
  BY <1>2 DEF Good

(* ... exist ... *)
LEMMA SumExists ==
    ASSUME NEW S, IsFiniteSet(S), NEW f
    PROVE  \E g : IsSum(g, f, S)
<1> DEFINE Good == {T \in SUBSET S : \E g : IsSum(g, f, T)}
           G(T) == CHOOSE g : IsSum(g, f, T)
<1>1. ASSUME NEW T \in SUBSET S, \A U \in SUBSET T : U # T => U \in Good
      PROVE  T \in Good
  <2>0. PICK h : h = [s \in SUBSET T |->
                        IF s = {} THEN 0
                        ELSE f[Chosen(s)] + G(s \ {Chosen(s)})[s \ {Chosen(s)}]]
    OBVIOUS
  <2>1. \A U \in SUBSET T : U # T => IsSum(G(U), f, U)
    BY <1>1
  <2>2. ASSUME NEW s \in SUBSET T, s # T PROVE h[s] = G(s)[s]
    <3>1. IsSum(G(s), f, s)
      BY <2>1, <2>2
    <3>2. CASE s = {}
      BY <2>0, <3>1, <3>2, SumAt
    <3>3. CASE s # {}
      <4> DEFINE V == s \ {Chosen(s)}
      <4>1. Chosen(s) \in s /\ V \in SUBSET T /\ V # T /\ V \in SUBSET S
        BY <3>3, ChosenFacts
      <4>2. IsSum(G(V), f, V)
        BY <2>1, <4>1
      <4>3. IsFiniteSet(V)
        BY <4>1, FS_Subset
      <4>4. G(V)[V] = G(s)[V]
        <5> HIDE DEF G, V
        <5>1. V \subseteq V
          OBVIOUS
        <5>2. V \subseteq s
          BY DEF V
        <5> QED
          BY <3>1, <4>2, <4>3, <5>1, <5>2, SumsAgree
      <4>5. G(s)[s] = f[Chosen(s)] + G(s)[V]
        BY <3>1, <3>3, SumAt
      <4>6. h[s] = f[Chosen(s)] + G(V)[V]
        BY <2>0, <3>3
      <4> QED
        BY <4>4, <4>5, <4>6
    <3> QED
      BY <3>2, <3>3
  <2>3. ASSUME NEW s \in SUBSET T, s # {}
        PROVE  G(s \ {Chosen(s)})[s \ {Chosen(s)}] = h[s \ {Chosen(s)}]
    <3>1. s \ {Chosen(s)} \in SUBSET T /\ s \ {Chosen(s)} # T
      BY <2>3, ChosenFacts
    <3> QED
      BY <2>2, <3>1
  <2>4. h = [s \in SUBSET T |->
               IF s = {} THEN 0 ELSE f[Chosen(s)] + h[s \ {Chosen(s)}]]
    <3> HIDE DEF G
    <3> QED
      BY <2>0, <2>3
  <2> QED
    BY <2>4 DEF IsSum
<1> HIDE DEF Good
<1>2. \A T \in SUBSET S : T \in Good
  BY <1>1, SubsetInduction
<1> QED
  BY <1>2 DEF Good

(* ... and do not depend on the order of the elements. *)
LEMMA AnyFirst ==
    ASSUME NEW S, IsFiniteSet(S), NEW f, \A x \in S : f[x] \in Int,
           NEW g, IsSum(g, f, S), NEW V \in SUBSET S, NEW y \in V
    PROVE  g[V] = f[y] + g[V \ {y}]
<1> DEFINE Good == {T \in SUBSET S : \A x \in T : g[T] = f[x] + g[T \ {x}]}
<1>1. ASSUME NEW T \in SUBSET S, \A U \in SUBSET T : U # T => U \in Good
      PROVE  T \in Good
  <2> SUFFICES ASSUME NEW x \in T PROVE g[T] = f[x] + g[T \ {x}]
    OBVIOUS
  <2> DEFINE c == Chosen(T)
             both == T \ {c, x}
  <2>0. T # {}
    OBVIOUS
  <2>1. c \in T
    BY <2>0, ChosenFacts
  <2>2. g[T] = f[c] + g[T \ {c}]
    BY <2>0, SumAt
  <2>3. CASE x = c
    BY <2>2, <2>3
  <2>4. CASE x # c
    <3>1. T \ {c} \in Good /\ T \ {x} \in Good
      BY <1>1, <2>1
    <3>2. g[T \ {c}] = f[x] + g[both]
      <4>1. (T \ {c}) \ {x} = both /\ x \in T \ {c}
        BY <2>4
      <4> QED
        BY <3>1, <4>1
    <3>3. g[T \ {x}] = f[c] + g[both]
      <4>1. (T \ {x}) \ {c} = both /\ c \in T \ {x}
        BY <2>1, <2>4
      <4> QED
        BY <3>1, <4>1
    <3>4. f[x] \in Int /\ f[c] \in Int /\ g[both] \in Int
      <4>1. both \in SUBSET S
        OBVIOUS
      <4> QED
        BY <2>1, <4>1, SumType
    <3> QED
      BY <2>2, <3>2, <3>3, <3>4
  <2> QED
    BY <2>3, <2>4
<1> HIDE DEF Good
<1>2. \A T \in SUBSET S : T \in Good
  BY <1>1, SubsetInduction
<1> QED
  BY <1>2 DEF Good

(* So one more element adds its value. *)
LEMMA SumGrows ==
    ASSUME NEW S, IsFiniteSet(S), NEW x, x \notin S,
           NEW f, \A y \in S \cup {x} : f[y] \in Int,
           NEW g, IsSum(g, f, S), NEW h, IsSum(h, f, S \cup {x})
    PROVE  h[S \cup {x}] = g[S] + f[x] /\ g[S] \in Int
<1> DEFINE V == S \cup {x}
<1>1. IsFiniteSet(V)
  BY FS_AddElement
<1>2. /\ S \in SUBSET V /\ S \in SUBSET S /\ V \in SUBSET V /\ x \in V /\ V \ {x} = S
      /\ IsSum(h, f, V) /\ \A y \in V : f[y] \in Int
      /\ \A y \in S : f[y] \in Int
  OBVIOUS
<1> HIDE DEF V
<1>3. h[V] = f[x] + h[S]
  <2>2. h[V] = f[x] + h[V \ {x}]
    BY <1>1, <1>2, AnyFirst
  <2> QED
    BY <1>2, <2>2
<1>4. g[S] = h[S]
  BY <1>2, SumsAgree
<1>5. g[S] \in Int /\ f[x] \in Int
  BY <1>2, SumType
<1> QED
  BY <1>3, <1>4, <1>5 DEF V

-----------------------------------------------------------------------------
(* The two sums of LedgerBalances. *)
AvailableSum(T) == MapThenSumSet(LAMBDA e : e.available_delta, T)
FrozenSum(T) == MapThenSumSet(LAMBDA e : e.frozen_delta, T)

(* MapThenSumSet computes such a sum: of the available amounts ...         *)
LEMMA AvailableIsSum ==
    ASSUME NEW T, IsFiniteSet(T), NEW f, \A e \in T : f[e] = e.available_delta
    PROVE  \E g : IsSum(g, f, T) /\ AvailableSum(T) = g[T]
<1> DEFINE Sums(g) ==
        g = [s \in SUBSET T |->
                IF s = {} THEN 0
                ELSE (CHOOSE x \in s : TRUE).available_delta
                       + g[s \ {CHOOSE x \in s : TRUE}]]
<1>1. \A s \in SUBSET T : s # {} =>
         f[Chosen(s)] = (CHOOSE x \in s : TRUE).available_delta
  BY ChosenFacts DEF Chosen
<1>2. \A g : IsSum(g, f, T) <=> Sums(g)
  BY <1>1 DEF IsSum, Chosen
<1>3. \E g : Sums(g)
  <2>1. \E g : IsSum(g, f, T)
    BY SumExists
  <2> HIDE DEF Sums
  <2> QED
    BY <1>2, <2>1
<1>4. \E g : Sums(g) /\ AvailableSum(T) = g[T]
  BY <1>3 DEF AvailableSum, MapThenSumSet, MapThenFoldSet
<1> QED
  BY <1>2, <1>4

(* ... and of the frozen ones.                                             *)
LEMMA FrozenIsSum ==
    ASSUME NEW T, IsFiniteSet(T), NEW f, \A e \in T : f[e] = e.frozen_delta
    PROVE  \E g : IsSum(g, f, T) /\ FrozenSum(T) = g[T]
<1> DEFINE Sums(g) ==
        g = [s \in SUBSET T |->
                IF s = {} THEN 0
                ELSE (CHOOSE x \in s : TRUE).frozen_delta
                       + g[s \ {CHOOSE x \in s : TRUE}]]
<1>1. \A s \in SUBSET T : s # {} =>
         f[Chosen(s)] = (CHOOSE x \in s : TRUE).frozen_delta
  BY ChosenFacts DEF Chosen
<1>2. \A g : IsSum(g, f, T) <=> Sums(g)
  BY <1>1 DEF IsSum, Chosen
<1>3. \E g : Sums(g)
  <2>1. \E g : IsSum(g, f, T)
    BY SumExists
  <2> HIDE DEF Sums
  <2> QED
    BY <1>2, <2>1
<1>4. \E g : Sums(g) /\ FrozenSum(T) = g[T]
  BY <1>3 DEF FrozenSum, MapThenSumSet, MapThenFoldSet
<1> QED
  BY <1>2, <1>4

(* Of no entries both sums are zero.                                       *)
LEMMA SumsOfNone == AvailableSum({}) = 0 /\ FrozenSum({}) = 0
<1>1. IsFiniteSet({})
  BY FS_EmptySet
<1> DEFINE f == [e \in {} |-> 0]
<1>2. PICK g : IsSum(g, f, {}) /\ AvailableSum({}) = g[{}]
  BY <1>1, AvailableIsSum
<1>3. PICK h : IsSum(h, f, {}) /\ FrozenSum({}) = h[{}]
  BY <1>1, FrozenIsSum
<1>4. g[{}] = 0 /\ h[{}] = 0
  BY <1>2, <1>3, SumAt
<1> QED
  BY <1>2, <1>3, <1>4

(* A new entry adds its own part to the available sum ...                  *)
LEMMA AvailableGrows ==
    ASSUME NEW T, IsFiniteSet(T), NEW x, x \notin T,
           \A e \in T \cup {x} : e.available_delta \in Int
    PROVE  /\ AvailableSum(T) \in Int
           /\ AvailableSum(T \cup {x}) = AvailableSum(T) + x.available_delta
<1>1. PICK f : f = [e \in T \cup {x} |-> e.available_delta]
  OBVIOUS
<1>2. /\ \A e \in T : f[e] = e.available_delta
      /\ \A e \in T \cup {x} : f[e] = e.available_delta
      /\ \A e \in T \cup {x} : f[e] \in Int
  BY <1>1
<1>3. PICK g : IsSum(g, f, T) /\ AvailableSum(T) = g[T]
  BY <1>2, AvailableIsSum
<1>4. PICK h : IsSum(h, f, T \cup {x}) /\ AvailableSum(T \cup {x}) = h[T \cup {x}]
  <2>1. IsFiniteSet(T \cup {x})
    BY FS_AddElement
  <2> QED
    BY <1>2, <2>1, AvailableIsSum
<1>5. h[T \cup {x}] = g[T] + f[x] /\ g[T] \in Int
  BY <1>2, <1>3, <1>4, SumGrows
<1> QED
  BY <1>2, <1>3, <1>4, <1>5

(* ... and to the frozen one.                                              *)
LEMMA FrozenGrows ==
    ASSUME NEW T, IsFiniteSet(T), NEW x, x \notin T,
           \A e \in T \cup {x} : e.frozen_delta \in Int
    PROVE  /\ FrozenSum(T) \in Int
           /\ FrozenSum(T \cup {x}) = FrozenSum(T) + x.frozen_delta
<1>1. PICK f : f = [e \in T \cup {x} |-> e.frozen_delta]
  OBVIOUS
<1>2. /\ \A e \in T : f[e] = e.frozen_delta
      /\ \A e \in T \cup {x} : f[e] = e.frozen_delta
      /\ \A e \in T \cup {x} : f[e] \in Int
  BY <1>1
<1>3. PICK g : IsSum(g, f, T) /\ FrozenSum(T) = g[T]
  BY <1>2, FrozenIsSum
<1>4. PICK h : IsSum(h, f, T \cup {x}) /\ FrozenSum(T \cup {x}) = h[T \cup {x}]
  <2>1. IsFiniteSet(T \cup {x})
    BY FS_AddElement
  <2> QED
    BY <1>2, <2>1, FrozenIsSum
<1>5. h[T \cup {x}] = g[T] + f[x] /\ g[T] \in Int
  BY <1>2, <1>3, <1>4, SumGrows
<1> QED
  BY <1>2, <1>3, <1>4, <1>5

(* The entries of a user are finitely many, and their amounts are numbers. *)
EntriesOK ==
    \A u \in Users : /\ IsFiniteSet(EntriesOf(u))
                     /\ \A e \in EntriesOf(u) : e.available_delta \in Int /\ e.frozen_delta \in Int

(* LedgerBalances in terms of the two sums.                                *)
LEMMA BalancesAreSums ==
    LedgerBalances <=>
        \A u \in Users : /\ wallets[u].available = AvailableSum(EntriesOf(u))
                         /\ wallets[u].frozen = FrozenSum(EntriesOf(u))
                         /\ wallets[u].available >= 0 /\ wallets[u].frozen >= 0
BY DEF LedgerBalances, AvailableSum, FrozenSum

(* A posted entry moves the balance by its own amounts: the sums agree.    *)
LEMMA PostBalances ==
    ASSUME LedgerBalances, EntriesOK,
           wallets \in [Users -> Balances], wallets' \in [Users -> Balances],
           NEW key, NEW u \in Users, NEW x \in Int, NEW y \in Int,
           Post(Entry(key, u, x, y))
    PROVE  (LedgerBalances /\ EntriesOK)'
<1> DEFINE new == Entry(key, u, x, y)
<1>1. /\ new \notin entries /\ entries' = entries \cup {new}
      /\ new.user = u /\ new.available_delta = x /\ new.frozen_delta = y
  BY DEF Post, Posted, Entry
<1>2. /\ EntriesOf(u)' = EntriesOf(u) \cup {new} /\ new \notin EntriesOf(u)
      /\ \A v \in Users : v # u => EntriesOf(v)' = EntriesOf(v)
  BY <1>1 DEF EntriesOf
<1>3. /\ wallets'[u].available = wallets[u].available + x
      /\ wallets'[u].frozen = wallets[u].frozen + y
      /\ \A v \in Users : v # u => wallets'[v] = wallets[v]
  BY <1>1 DEF Post, Balances
<1>4. \A v \in Users : wallets'[v].available >= 0 /\ wallets'[v].frozen >= 0
  BY DEF Balances
<1> HIDE DEF new
<1>5. EntriesOK'
  <2>1. IsFiniteSet(EntriesOf(u) \cup {new})
    BY FS_AddElement DEF EntriesOK
  <2> QED
    BY <1>1, <1>2, <2>1 DEF EntriesOK
<1>6. /\ AvailableSum(EntriesOf(u) \cup {new}) = AvailableSum(EntriesOf(u)) + x
      /\ FrozenSum(EntriesOf(u) \cup {new}) = FrozenSum(EntriesOf(u)) + y
  <2>1. /\ IsFiniteSet(EntriesOf(u))
        /\ \A e \in EntriesOf(u) \cup {new} : e.available_delta \in Int
        /\ \A e \in EntriesOf(u) \cup {new} : e.frozen_delta \in Int
    BY <1>1 DEF EntriesOK
  <2> QED
    BY <1>1, <1>2, <2>1, AvailableGrows, FrozenGrows
<1>7. \A v \in Users :
         /\ wallets[v].available = AvailableSum(EntriesOf(v))
         /\ wallets[v].frozen = FrozenSum(EntriesOf(v))
  BY BalancesAreSums
<1>8. \A v \in Users :
         /\ wallets'[v].available = AvailableSum(EntriesOf(v)')
         /\ wallets'[v].frozen = FrozenSum(EntriesOf(v)')
  BY <1>2, <1>3, <1>6, <1>7
<1>9. (\A v \in Users : /\ wallets[v].available = AvailableSum(EntriesOf(v))
                        /\ wallets[v].frozen = FrozenSum(EntriesOf(v))
                        /\ wallets[v].available >= 0 /\ wallets[v].frozen >= 0)'
  BY <1>4, <1>8
<1>10. LedgerBalances'
  BY <1>9 DEF LedgerBalances, AvailableSum, FrozenSum
<1> QED
  BY <1>5, <1>10

-----------------------------------------------------------------------------
(* What a step does to the wallets: nothing, or one entry of one order.    *)
MoneyStep ==
    \/ UNCHANGED money
    \/ \E o \in Orders, kind \in {"hold", "capture", "release"}, x \in Int, y \in Int :
          Post(Entry(Key(kind, o), Owner[o], x, y))

(* The three operations of wallet.py on an order are such entries.         *)
LEMMA MoneyPosts ==
    ASSUME NEW o \in Orders,
           \/ Hold(Owner[o], o, Price[o])
           \/ Capture(Owner[o], o, Price[o])
           \/ Release(Owner[o], o, Price[o])
    PROVE  MoneyStep
<1>1. Price[o] \in Int /\ -Price[o] \in Int /\ 0 \in Int
  BY OrdersAssumption
<1> QED
  BY <1>1 DEF MoneyStep, Hold, Capture, Release

(* Every transaction of a pass takes, returns or leaves the frozen price.  *)
LEMMA TransactionsPost ==
    ASSUME NEW w \in Workers, NEW o \in Orders, Transactions(w, o)
    PROVE  MoneyStep
<1>1. \/ UNCHANGED money
      \/ NoAffordableOffer(w, o) \/ NoProviderLeft(w, o)
      \/ \E k \in Seqs : ApplySuccess(w, o, k)
  BY DEF Transactions, Claim, StartQuoting, RequoteLater, StartPurchase, ResumeLookup,
         ResumeSubmission, ExhaustSubmissions, ApplyFailed, ApplyPending, ApplyReviewing,
         ApplyChanged, ErrorRejected, ErrorReview, ErrorRetry
<1>2. \/ UNCHANGED money
      \/ Capture(Owner[o], o, Price[o]) \/ Release(Owner[o], o, Price[o])
  BY <1>1 DEF NoAffordableOffer, NoProviderLeft, ReleaseOrder, ApplySuccess, CompletePurchase
<1> QED
  BY <1>2, MoneyPosts DEF MoneyStep

(* And so does every step.                                                 *)
LEMMA NextPosts ==
    ASSUME [Next]_vars
    PROVE  MoneyStep
<1>1. ASSUME NEW o \in Orders, UserActions(o) PROVE MoneyStep
  BY <1>1, MoneyPosts DEF UserActions, Reserve, Cancel, ReleaseOrder
<1>2. ASSUME NEW w \in Workers, NEW o \in Orders, Transactions(w, o) PROVE MoneyStep
  BY <1>2, TransactionsPost
<1>3. ASSUME NEW w \in Workers, Calls(w) \/ LoseLease(w) \/ SkipSettled(w) \/ Crash(w)
      PROVE  MoneyStep
  BY <1>3 DEF MoneyStep, money, tables, Calls, NeedsReview, LookupFound, LookupMissed, SendPost,
              PostNotSent, LookupFailed, PostAnswered, PostRejected, PostUnclear,
              LoseLease, SkipSettled, Crash
<1>4. ASSUME Environment PROVE MoneyStep
  BY <1>4 DEF MoneyStep, money, tables, Environment, FallDue, LeaseExpires, PostArrives,
              StrayLost, Wake, UpstreamProceeds, Restart
<1>5. CASE UNCHANGED vars
  BY <1>5 DEF MoneyStep, money, vars
<1> QED
  BY <1>1, <1>2, <1>3, <1>4, <1>5 DEF Next

(* The ledger invariant: the balances are the sums, which are of finitely  *)
(* many numbers.                                                           *)
LedgerInv == LedgerBalances /\ EntriesOK

(* Every user starts with one credit, the whole of the balance.            *)
LEMMA LedgerInit == ProcurementInit => LedgerInv
<1> SUFFICES ASSUME ProcurementInit PROVE LedgerInv
  OBVIOUS
<1> DEFINE first(u) == Entry(Key("credit", u), u, Deposited[u], 0)
<1>1. \A u \in Users : /\ EntriesOf(u) = {first(u)}
                       /\ wallets[u].available = Deposited[u] /\ wallets[u].frozen = 0
  BY DEF ProcurementInit, RentalInit, EntriesOf, Entry
<1>2. \A u \in Users : first(u).available_delta = Deposited[u] /\ first(u).frozen_delta = 0
  BY DEF Entry
<1>3. \A u \in Users : Deposited[u] \in Nat
  BY OrdersAssumption
<1> HIDE DEF first
<1>4. \A u \in Users : IsFiniteSet({first(u)})
  BY FS_Singleton
<1>5. EntriesOK
  BY <1>1, <1>2, <1>3, <1>4 DEF EntriesOK
<1>6. ASSUME NEW u \in Users
      PROVE  AvailableSum({first(u)}) = Deposited[u] /\ FrozenSum({first(u)}) = 0
  <2>1. /\ IsFiniteSet({}) /\ first(u) \notin {}
        /\ \A e \in {} \cup {first(u)} : e.available_delta \in Int
        /\ \A e \in {} \cup {first(u)} : e.frozen_delta \in Int
    BY <1>2, <1>3, FS_EmptySet
  <2>2. /\ AvailableSum({} \cup {first(u)}) = AvailableSum({}) + Deposited[u]
        /\ FrozenSum({} \cup {first(u)}) = FrozenSum({}) + 0
    BY <1>2, <2>1, AvailableGrows, FrozenGrows
  <2>3. {} \cup {first(u)} = {first(u)}
    OBVIOUS
  <2> QED
    BY <1>3, <2>2, <2>3, SumsOfNone
<1>7. LedgerBalances
  BY <1>1, <1>3, <1>6, BalancesAreSums
<1> QED
  BY <1>5, <1>7 DEF LedgerInv

(* A step keeps the balances the sums of the entries.                      *)
LEMMA LedgerNext ==
    ASSUME LedgerInv, wallets \in [Users -> Balances], wallets' \in [Users -> Balances],
           [Next]_vars
    PROVE  LedgerInv'
<1>1. CASE UNCHANGED money
  <2>1. wallets' = wallets /\ \A u \in Users : EntriesOf(u)' = EntriesOf(u)
    BY <1>1 DEF EntriesOf, money
  <2>2. (\A u \in Users : /\ wallets[u].available = AvailableSum(EntriesOf(u))
                         /\ wallets[u].frozen = FrozenSum(EntriesOf(u))
                         /\ wallets[u].available >= 0 /\ wallets[u].frozen >= 0)'
    BY <2>1, BalancesAreSums DEF LedgerInv
  <2>3. LedgerBalances'
    BY <2>2 DEF LedgerBalances, AvailableSum, FrozenSum
  <2>4. EntriesOK'
    BY <2>1 DEF EntriesOK, LedgerInv
  <2> QED
    BY <2>3, <2>4 DEF LedgerInv
<1>2. ASSUME NEW o \in Orders, NEW kind \in {"hold", "capture", "release"},
             NEW x \in Int, NEW y \in Int, Post(Entry(Key(kind, o), Owner[o], x, y))
      PROVE  LedgerInv'
  <2>1. PICK key : key = Key(kind, o)
    OBVIOUS
  <2>2. PICK u \in Users : u = Owner[o]
    BY OrdersAssumption
  <2>3. Post(Entry(key, u, x, y))
    BY <1>2, <2>1, <2>2
  <2> QED
    BY <2>3, PostBalances DEF LedgerInv
<1> QED
  BY <1>1, <1>2, NextPosts DEF MoneyStep

(* Whatever is reserved, cancelled, bought, crashed or tried again: what a *)
(* wallet shows is what its entries add up to, and no balance is negative. *)
THEOREM BalancesAreExplained == Spec => []LedgerBalances
<1>1. ProcurementInit => LedgerInv
  BY LedgerInit
<1>2. /\ TypeOK => wallets \in [Users -> Balances]
      /\ TypeOK' => wallets' \in [Users -> Balances]
  BY DEF TypeOK
<1>3. LedgerInv /\ TypeOK /\ TypeOK' /\ [Next]_vars => LedgerInv'
  BY <1>2, LedgerNext
<1>4. LedgerInv => LedgerBalances
  BY DEF LedgerInv
<1> QED
  BY <1>1, <1>3, <1>4, TypeCorrect, PTL DEF Spec

-----------------------------------------------------------------------------
(* Part 2.  What each step is for an order.                                *)

USE OrdersAssumption, ProcurementAssumption

(* A ledger operation enters its own kind for its own order.               *)
LEMMA PostEnters ==
    ASSUME NEW o \in Orders, NEW kind \in {"hold", "capture", "release"},
           NEW u, NEW x, NEW y, Post(Entry(Key(kind, o), u, x, y))
    PROVE  /\ Enters(o, {kind})
           /\ \A p \in Orders : p # o => Enters(p, {})
<1> DEFINE new == Entry(Key(kind, o), u, x, y)
<1>1. entries' = entries \cup {new}
  BY DEF Post
<1>2. new.key = Key(kind, o)
  BY DEF Entry
<1> HIDE DEF new
<1>3. \A key : Posted(key)' <=> Posted(key) \/ key = Key(kind, o)
  BY <1>1, <1>2 DEF Posted
<1>4. \A k, p : Key(k, p) = Key(kind, o) <=> k = kind /\ p = o
  BY DEF Key
<1> QED
  BY <1>3, <1>4 DEF Enters, EntryKinds

(* So each operation of wallet.py enters one kind of entry. *)
LEMMA MoneyEnters ==
    ASSUME NEW o \in Orders
    PROVE  /\ Hold(Owner[o], o, Price[o]) =>
                 Enters(o, {"hold"}) /\ \A p \in Orders : p # o => Enters(p, {})
           /\ Capture(Owner[o], o, Price[o]) =>
                 Enters(o, {"capture"}) /\ \A p \in Orders : p # o => Enters(p, {})
           /\ Release(Owner[o], o, Price[o]) =>
                 Enters(o, {"release"}) /\ \A p \in Orders : p # o => Enters(p, {})
BY PostEnters DEF Hold, Capture, Release

(* A step that writes no entry enters none. *)
LEMMA NothingEnters ==
    ASSUME entries' = entries
    PROVE  \A p \in Orders : Enters(p, {})
BY DEF Enters, EntryKinds, Posted

(* An order whose rows a step does not write rests.                        *)
LEMMA OtherRests ==
    ASSUME NEW p \in Orders, orders'[p] = orders[p], attempts'[p] = attempts[p],
           notes'[p] = notes[p], Enters(p, {})
    PROVE  OrderStep(p)
BY DEF OrderStep, Rests, StaysQueued, Tells

(* A step that writes one order, and of it neither attempts nor events.    *)
LEMMA RestsStep ==
    ASSUME PurchaseInv, NEW o \in Orders, NEW r \in Order, SetOrder(o, r),
           UNCHANGED <<entries, attempts, notes>>,
           r.wallet_state = orders[o].wallet_state,
           \/ orders[o].wallet_state # "held"
           \/ r.next_run_at # "none" \/ r.next_run_at = orders[o].next_run_at
    PROVE  \A p \in Orders : OrderStep(p)
<1>1. orders'[o] = r /\ \A p \in Orders : p # o => orders'[p] = orders[p]
  BY SetOrderFacts, InvFacts
<1>2. \A p \in Orders : Enters(p, {})
  BY NothingEnters
<1>3. \A p \in Orders : p # o => OrderStep(p)
  BY <1>1, <1>2, OtherRests
<1>4. OrderStep(o)
  BY <1>1, <1>2 DEF OrderStep, Rests, StaysQueued, Tells
<1> QED
  BY <1>3, <1>4

(* A step that leaves the tables as they are.                              *)
LEMMA StillRests ==
    ASSUME UNCHANGED <<entries, orders, attempts, notes>>
    PROVE  \A p \in Orders : OrderStep(p)
BY NothingEnters, OtherRests

(* The money goes back, and the user hears of it.                          *)
LEMMA RefundStep ==
    ASSUME PurchaseInv, NEW o \in Orders, ReleaseOrder(o),
           NEW r \in Order, SetOrder(o, r), r.wallet_state = "released",
           attempts' = attempts
    PROVE  \A p \in Orders : OrderStep(p)
<1>1. orders'[o] = r /\ \A p \in Orders : p # o => orders'[p] = orders[p]
  BY SetOrderFacts, InvFacts
<1>2. /\ orders[o].wallet_state = "held" /\ Release(Owner[o], o, Price[o])
      /\ Notify(o, "refunded") /\ "refunded" \in Events
  BY DEF ReleaseOrder, Events
<1>3. notes'[o] = notes[o] \cup {"refunded"} /\ \A p \in Orders : p # o => notes'[p] = notes[p]
  BY <1>2, NotifyFacts, InvFacts
<1>4. Enters(o, {"release"}) /\ \A p \in Orders : p # o => Enters(p, {})
  BY <1>2, MoneyEnters
<1>5. OrderStep(o)
  BY <1>1, <1>2, <1>3, <1>4 DEF OrderStep, Refunds, WalletGoes, Tells
<1> QED
  BY <1>1, <1>3, <1>4, <1>5, OtherRests

-----------------------------------------------------------------------------
(* What the users do to the orders. *)
LEMMA UserOrderStep ==
    ASSUME PurchaseInv, NEW o \in Orders, UserActions(o)
    PROVE  \A p \in Orders : OrderStep(p)
<1>1. TypeOK /\ orders[o] \in Order
  BY InvFacts, TypeFacts
<1>2. CASE Reserve(o) /\ UNCHANGED <<world, worker>>
  <2>1. /\ orders[o] = NoOrder /\ SetOrder(o, ReservedOrder)
        /\ Hold(Owner[o], o, Price[o]) /\ UNCHANGED <<attempts, notes>>
    BY <1>2 DEF Reserve, SetOrder
  <2>2. /\ orders'[o].wallet_state = "held" /\ orders'[o].next_run_at = "due"
        /\ orders[o].wallet_state = "none"
        /\ \A p \in Orders : p # o => orders'[p] = orders[p]
    BY <1>1, <2>1, NewRows, SetOrderFacts
  <2>3. Enters(o, {"hold"}) /\ \A p \in Orders : p # o => Enters(p, {})
    BY <2>1, MoneyEnters
  <2>4. OrderStep(o)
    BY <2>1, <2>2, <2>3 DEF OrderStep, Opens, WalletGoes, Tells
  <2> QED
    BY <2>1, <2>2, <2>3, <2>4, OtherRests
<1>3. CASE Cancel(o) /\ UNCHANGED <<world, worker>>
  <2>1. /\ ReleaseOrder(o) /\ SetOrder(o, Released(orders[o])) /\ attempts' = attempts
    BY <1>3 DEF Cancel, SetOrder
  <2>2. "none" \in {"none", "due", "later"}
    OBVIOUS
  <2>3. Released(orders[o]) \in Order /\ Released(orders[o]).wallet_state = "released"
    BY <1>1, <2>2, OrderUpdates
  <2> QED
    BY <2>1, <2>3, RefundStep
<1> QED
  BY <1>2, <1>3 DEF UserActions

(* The upstream and the clock leave the rows to the workers. *)
LEMMA EnvironmentOrderStep ==
    ASSUME PurchaseInv, Environment
    PROVE  \A p \in Orders : OrderStep(p)
<1>1. ASSUME NEW o \in Orders
      PROVE  /\ orders[o] \in Order
             /\ "due" \in {"none", "due", "later"} /\ "expired" \in {"none", "live", "expired"}
  BY InvFacts, TypeFacts
<1>2. ASSUME NEW o \in Orders, NEW k \in Seqs, Wake(o, k) PROVE \A p \in Orders : OrderStep(p)
  <2> DEFINE r == [orders[o] EXCEPT !.next_run_at = "due"]
  <2>1. SetOrder(o, r) /\ UNCHANGED <<entries, attempts, notes>>
    BY <1>2 DEF Wake, money
  <2>2. r \in Order /\ r.wallet_state = orders[o].wallet_state /\ r.next_run_at = "due"
    BY <1>1 DEF Order
  <2> HIDE DEF r
  <2> QED
    BY <2>1, <2>2, RestsStep
<1>3. ASSUME NEW o \in Orders, FallDue(o) PROVE \A p \in Orders : OrderStep(p)
  <2> DEFINE r == [orders[o] EXCEPT !.next_run_at = "due"]
  <2>1. SetOrder(o, r) /\ UNCHANGED <<entries, attempts, notes>>
    BY <1>3 DEF FallDue, money
  <2>2. r \in Order /\ r.wallet_state = orders[o].wallet_state /\ r.next_run_at = "due"
    BY <1>1 DEF Order
  <2> HIDE DEF r
  <2> QED
    BY <2>1, <2>2, RestsStep
<1>4. ASSUME NEW o \in Orders, LeaseExpires(o) PROVE \A p \in Orders : OrderStep(p)
  <2> DEFINE r == [orders[o] EXCEPT !.lease_until = "expired"]
  <2>1. SetOrder(o, r) /\ UNCHANGED <<entries, attempts, notes>>
    BY <1>4 DEF LeaseExpires, money
  <2>2. /\ r \in Order /\ r.wallet_state = orders[o].wallet_state
        /\ r.next_run_at = orders[o].next_run_at
    BY <1>1 DEF Order
  <2> HIDE DEF r
  <2> QED
    BY <2>1, <2>2, RestsStep
<1>5. ASSUME NEW o \in Orders, NEW k \in Seqs,
             \/ PostArrives(o, k) \/ StrayLost(o, k)
             \/ \E state \in UpstreamStates : UpstreamProceeds(o, k, state)
      PROVE  \A p \in Orders : OrderStep(p)
  BY <1>5, StillRests DEF PostArrives, StrayLost, UpstreamProceeds, tables
<1>6. ASSUME NEW providers \in Configurations, Restart(providers)
      PROVE  \A p \in Orders : OrderStep(p)
  BY <1>6, StillRests DEF Restart, tables
<1> QED
  BY <1>2, <1>3, <1>4, <1>5, <1>6 DEF Environment

-----------------------------------------------------------------------------
(* A pass that moves on or ends under its lease writes.                    *)
LEMMA Writing ==
    ASSUME PurchaseInv, NEW w \in Workers, NEW o \in Orders,
           worker[w].pc # "idle", worker[w].order = o, orders[o].lease_token = w,
           worker'[w].pc # worker[w].pc
    PROVE  Writes(w, o)
BY DEF Writes, At, OrderOf, Holds

(* A call, a crash or a lost lease writes no row but the lease. *)
LEMMA PassOrderStep ==
    ASSUME PurchaseInv, NEW w \in Workers,
           Calls(w) \/ LoseLease(w) \/ Crash(w) \/ SkipSettled(w)
    PROVE  \A p \in Orders : OrderStep(p)
<1>1. CASE Calls(w)
  <2>1. UNCHANGED tables
    BY <1>1 DEF Calls, NeedsReview, LookupFound, LookupMissed, SendPost, PostNotSent,
                LookupFailed, PostAnswered, PostRejected, PostUnclear
  <2> QED
    BY <2>1, StillRests DEF tables
<1>2. CASE LoseLease(w) \/ Crash(w)
  BY <1>2, StillRests DEF LoseLease, Crash, tables, money
<1>3. CASE SkipSettled(w)
  <2> DEFINE o == worker[w].order
  <2>1. /\ o \in Orders /\ orders[o].wallet_state # "held"
        /\ SetOrder(o, Finished(orders[o], "none"))
        /\ UNCHANGED <<entries, attempts, notes>>
    BY <1>3, InvFacts DEF SkipSettled, PassOK, OrderOf, IsHeld, money
  <2>2. orders[o] \in Order /\ "none" \in {"none", "due", "later"}
    BY <2>1, InvFacts, TypeFacts
  <2>3. /\ Finished(orders[o], "none") \in Order
        /\ Finished(orders[o], "none").wallet_state = orders[o].wallet_state
    BY <2>2, OrderUpdates
  <2> QED
    BY <2>1, <2>3, RestsStep
<1> QED
  BY <1>1, <1>2, <1>3

(* The transactions that begin a pass, or put it off. *)
LEMMA BeginOrderStep ==
    ASSUME PurchaseInv, NEW w \in Workers, NEW o \in Orders,
           Claim(w, o) \/ StartQuoting(w, o) \/ RequoteLater(w, o)
    PROVE  \A p \in Orders : OrderStep(p)
<1>1. orders[o] \in Order /\ "later" \in {"none", "due", "later"}
  BY InvFacts, TypeFacts
<1>2. CASE Claim(w, o)
  <2> DEFINE r == [orders[o] EXCEPT !.lease_token = w, !.lease_until = "live"]
  <2>1. SetOrder(o, r) /\ UNCHANGED <<entries, attempts, notes>>
    BY <1>2 DEF Claim, money
  <2>2. /\ r \in Order /\ r.wallet_state = orders[o].wallet_state
        /\ r.next_run_at = orders[o].next_run_at
    BY <1>1 DEF Order
  <2> HIDE DEF r
  <2> QED
    BY <2>1, <2>2, RestsStep
<1>3. CASE StartQuoting(w, o)
  BY <1>3, StillRests DEF StartQuoting, money
<1>4. CASE RequoteLater(w, o)
  <2>1. /\ SetOrder(o, Finished(Retried(orders[o]), "later"))
        /\ UNCHANGED <<entries, attempts, notes>>
    BY <1>4 DEF RequoteLater, money
  <2>2. LET r == Finished(Retried(orders[o]), "later")
        IN  /\ r \in Order /\ r.wallet_state = orders[o].wallet_state
            /\ r.next_run_at # "none"
    BY <1>1, OrderUpdates
  <2> QED
    BY <2>1, <2>2, RestsStep
<1> QED
  BY <1>2, <1>3, <1>4

(* The transactions that give the money back. *)
LEMMA ReleaseOrderStep ==
    ASSUME PurchaseInv, NEW w \in Workers, NEW o \in Orders,
           NoAffordableOffer(w, o) \/ NoProviderLeft(w, o)
    PROVE  \A p \in Orders : OrderStep(p)
<1>1. orders[o] \in Order /\ "none" \in {"none", "due", "later"}
  BY InvFacts, TypeFacts
<1>2. CASE NoAffordableOffer(w, o)
  <2>1. /\ SetOrder(o, Finished(Released(Retried(orders[o])), "none"))
        /\ ReleaseOrder(o) /\ attempts' = attempts
    BY <1>2 DEF NoAffordableOffer
  <2>2. LET r == Finished(Released(Retried(orders[o])), "none")
        IN  r \in Order /\ r.wallet_state = "released"
    BY <1>1, OrderUpdates
  <2> QED
    BY <2>1, <2>2, RefundStep
<1>3. CASE NoProviderLeft(w, o)
  <2>1. /\ SetOrder(o, Finished(Released(orders[o]), "none"))
        /\ ReleaseOrder(o) /\ attempts' = attempts
    BY <1>3 DEF NoProviderLeft
  <2>2. LET r == Finished(Released(orders[o]), "none")
        IN  r \in Order /\ r.wallet_state = "released"
    BY <1>1, OrderUpdates
  <2> QED
    BY <2>1, <2>2, RefundStep
<1> QED
  BY <1>2, <1>3

(* A new purchase, of a provider not asked before. *)
LEMMA PurchaseOrderStep ==
    ASSUME PurchaseInv, NEW w \in Workers, NEW o \in Orders, NEW q \in Providers,
           StartPurchase(w, o, q)
    PROVE  \A p \in Orders : OrderStep(p)
<1>1. TypeOK /\ orders[o] \in Order /\ attempts \in [Orders -> Seq(Attempt)]
  BY InvFacts, TypeFacts
<1>2. /\ worker[w].pc = "quoting" /\ worker[w].order = o /\ orders[o].lease_token = w
      /\ worker[w].seq = Len(attempts[o]) + 1 /\ q \notin worker[w].excluded
      /\ orders[o].wallet_state = "held" /\ SetOrder(o, Begun(orders[o]))
      /\ attempts' = [attempts EXCEPT ![o] = Append(@, NewAttempt(q))]
      /\ worker' = [worker EXCEPT ![w] = [@ EXCEPT !.pc = "calling", !.first = TRUE, !.excluded = {}]]
      /\ UNCHANGED <<entries, notes>>
  BY DEF StartPurchase, Choosing, At, OrderOf, Holds, Candidates, CanBegin, money
<1>3. "none" \in {"none", "due", "later"}
  OBVIOUS
<1>4. /\ Begun(orders[o]) \in Order /\ Begun(orders[o]).wallet_state = "held"
      /\ Begun(orders[o]).next_run_at = orders[o].next_run_at
  BY <1>1, <1>2, <1>3, OrderUpdates
<1>5. /\ orders'[o] = Begun(orders[o])
      /\ \A p \in Orders : p # o => orders'[p] = orders[p]
  BY <1>1, <1>2, <1>4, SetOrderFacts
<1>6. /\ attempts'[o] = Append(attempts[o], NewAttempt(q))
      /\ \A p \in Orders : p # o => attempts'[p] = attempts[p]
  BY <1>1, <1>2
<1>7. \A p \in Orders : Enters(p, {})
  BY <1>2, NothingEnters
<1>8. worker'[w].pc = "calling"
  BY <1>1, <1>2, PurchaseFacts
<1>9. Writes(w, o)
  BY <1>2, <1>8, Writing
<1>10. Buys(w, o, q)
  BY <1>2, <1>4, <1>5, <1>6, <1>7, <1>9 DEF Buys, At, WalletGoes, StaysQueued, Tells
<1>11. OrderStep(o)
  BY <1>10 DEF OrderStep
<1> QED
  BY <1>2, <1>5, <1>6, <1>7, <1>11, OtherRests

(* A worker writes the open attempt of the order it has the lease of, and  *)
(* tells the user when that puts it under review.                          *)
LEMMA RecordStep ==
    ASSUME PurchaseInv, NEW w \in Workers, NEW o \in Orders, NEW k,
           Writes(w, o), orders[o].wallet_state = "held",
           Len(attempts[o]) > 0, k = Len(attempts[o]),
           NEW a \in Attempt, SetAttempt(o, k, a),
           a.provider = attempts[o][k].provider, a.state # "succeeded",
           orders'[o].wallet_state = "held", StaysQueued(o),
           \A p \in Orders : p # o => orders'[p] = orders[p],
           entries' = entries,
           \/ a.state = "reviewing" /\ Notify(o, "review")
           \/ a.state # "reviewing" /\ notes' = notes
    PROVE  \A p \in Orders : OrderStep(p)
<1>1. /\ attempts'[o] = [attempts[o] EXCEPT ![k] = a]
      /\ \A p \in Orders : p # o => attempts'[p] = attempts[p]
  BY InvFacts, TypeFacts DEF SetAttempt
<1>2. \A p \in Orders : Enters(p, {})
  BY NothingEnters
<1>3. /\ Tells(o, IF a.state = "reviewing" THEN {"review"} ELSE {})
      /\ \A p \in Orders : p # o => notes'[p] = notes[p]
  <2>1. CASE a.state = "reviewing" /\ Notify(o, "review")
    <3>1. "review" \in Events
      BY DEF Events
    <3> QED
      BY <2>1, <3>1, InvFacts, NotifyFacts DEF Tells
  <2>2. CASE a.state # "reviewing" /\ notes' = notes
    BY <2>2 DEF Tells
  <2> QED
    BY <2>1, <2>2
<1>4. Records(w, o, a)
  BY <1>1, <1>2, <1>3 DEF Records, WritesLast, WalletGoes
<1>5. OrderStep(o)
  BY <1>4 DEF OrderStep
<1> QED
  BY <1>1, <1>2, <1>3, <1>5, OtherRests

(* A pass that finds an open attempt. *)
LEMMA ResumeOrderStep ==
    ASSUME PurchaseInv, NEW w \in Workers, NEW o \in Orders, NEW k \in Seqs,
           ResumeLookup(w, o, k) \/ ResumeSubmission(w, o, k) \/ ExhaustSubmissions(w, o, k)
    PROVE  \A p \in Orders : OrderStep(p)
<1>1. /\ worker[w].pc = "claimed" /\ worker[w].order = o /\ orders[o].lease_token = w
      /\ orders[o].wallet_state = "held" /\ attempts[o][k].state \notin Concluded
      /\ Len(attempts[o]) > 0 /\ k = Len(attempts[o])
      /\ orders' = orders /\ entries' = entries
  BY DEF ResumeLookup, ResumeSubmission, ExhaustSubmissions, Resume, At, OrderOf, Holds,
         IsHeld, HasOpen, money
<1>2. k \in 1..Len(attempts[o]) /\ attempts[o][k] \in Attempt
  BY <1>1, InvFacts, TypeFacts DEF Seqs
<1>3. attempts[o][k].state # "succeeded"
  BY <1>1, <1>2, InvFacts DEF AttemptsOK
<1>4. ASSUME NEW a \in Attempt, Call(w, k, a) PROVE Writes(w, o)
  <2>1. worker'[w].pc = "calling"
    BY <1>4, InvFacts, CallFacts DEF Seqs
  <2> QED
    BY <1>1, <2>1, Writing
<1>5. CASE ResumeLookup(w, o, k)
  BY <1>1, <1>5, StillRests DEF ResumeLookup
<1>6. CASE ResumeSubmission(w, o, k)
  <2> DEFINE a == [attempts[o][k] EXCEPT !.submit_attempts = @ + 1]
  <2>1. /\ Call(w, k, a) /\ SetAttempt(o, k, a) /\ notes' = notes
        /\ attempts[o][k].submit_attempts < MaxSubmitAttempts
        /\ attempts[o][k].state # "reviewing"
    BY <1>6 DEF ResumeSubmission
  <2>2. /\ a \in Attempt /\ a.state = attempts[o][k].state
        /\ a.provider = attempts[o][k].provider
    BY <1>2, <2>1, SubmitUpdates
  <2> HIDE DEF a
  <2>3. Writes(w, o)
    BY <1>4, <2>1, <2>2
  <2> QED
    BY <1>1, <1>3, <2>1, <2>2, <2>3, RecordStep DEF StaysQueued
<1>7. CASE ExhaustSubmissions(w, o, k)
  <2> DEFINE a == [attempts[o][k] EXCEPT !.state = "reviewing"]
  <2>1. Call(w, k, a) /\ SetAttempt(o, k, a) /\ Notify(o, "review")
    BY <1>7 DEF ExhaustSubmissions
  <2>2. /\ a \in Attempt /\ a.state = "reviewing"
        /\ a.provider = attempts[o][k].provider
    BY <1>2 DEF Attempt, AttemptStates
  <2> HIDE DEF a
  <2>3. Writes(w, o)
    BY <1>4, <2>1, <2>2
  <2> QED
    BY <1>1, <2>1, <2>2, <2>3, RecordStep DEF StaysQueued
<1> QED
  BY <1>5, <1>6, <1>7

-----------------------------------------------------------------------------
(* The holder of the lease commits the outcome for the last attempt of an  *)
(* order that is still held.                                               *)
LEMMA OutcomeHeld ==
    ASSUME PurchaseInv, NEW w \in Workers, NEW o \in Orders, NEW k \in Seqs, NEW result,
           Outcome(w, o, k, result)
    PROVE  /\ orders[o] \in Order /\ attempts[o][k] \in Attempt
           /\ orders[o].wallet_state = "held"
           /\ Len(attempts[o]) > 0 /\ k = Len(attempts[o])
           /\ Writes(w, o)
<1>1. /\ worker[w].pc = "result" /\ worker[w].order = o /\ worker[w].seq = k
      /\ orders[o].lease_token = w /\ orders[o] \in Order
      /\ k \in 1..Len(attempts[o]) /\ attempts[o][k] \in Attempt
      /\ worker'[w].pc = "idle"
  BY OutcomeFacts, InvFacts
<1>2. orders[o].status = "delegating" /\ k = Len(attempts[o])
  BY <1>1, InvFacts DEF HolderOK, HolderOf, At, Holds, OrderOf
<1>3. orders[o].wallet_state = "held"
  BY <1>2, InvFacts DEF StatusOK
<1>4. Writes(w, o)
  BY <1>1, Writing
<1> QED
  BY <1>1, <1>2, <1>3, <1>4

(* An outcome that leaves the money frozen is recorded and queued. *)
LEMMA OutcomeRecords ==
    ASSUME PurchaseInv, NEW w \in Workers, NEW o \in Orders, NEW k \in Seqs, NEW result,
           Outcome(w, o, k, result),
           NEW r \in Order, SetOrder(o, r), r.next_run_at = "later",
           r.wallet_state = orders[o].wallet_state,
           NEW a \in Attempt, SetAttempt(o, k, a),
           a.provider = attempts[o][k].provider, a.state # "succeeded",
           entries' = entries,
           \/ a.state = "reviewing" /\ Notify(o, "review")
           \/ a.state # "reviewing" /\ notes' = notes
    PROVE  \A p \in Orders : OrderStep(p)
<1>1. /\ orders[o].wallet_state = "held" /\ Len(attempts[o]) > 0
      /\ k = Len(attempts[o]) /\ Writes(w, o)
  BY OutcomeHeld
<1>2. orders'[o] = r /\ \A p \in Orders : p # o => orders'[p] = orders[p]
  BY SetOrderFacts, InvFacts
<1>3. StaysQueued(o) /\ orders'[o].wallet_state = "held"
  BY <1>1, <1>2 DEF StaysQueued
<1> QED
  BY <1>1, <1>2, <1>3, RecordStep

(* The outcomes of _apply but success. *)
LEMMA ApplyOrderStep ==
    ASSUME PurchaseInv, NEW w \in Workers, NEW o \in Orders, NEW k \in Seqs,
           \/ ApplyFailed(w, o, k) \/ ApplyPending(w, o, k)
           \/ ApplyReviewing(w, o, k) \/ ApplyChanged(w, o, k)
    PROVE  \A p \in Orders : OrderStep(p)
<1>1. ASSUME NEW result, Outcome(w, o, k, result)
      PROVE  orders[o] \in Order /\ attempts[o][k] \in Attempt
  BY <1>1, OutcomeHeld
<1>2. /\ "failed" \in AttemptStates /\ "pending" \in AttemptStates
      /\ "reviewing" \in AttemptStates /\ "later" \in {"none", "due", "later"}
  BY DEF AttemptStates, Concluded
<1>3. CASE ApplyFailed(w, o, k)
  <2> DEFINE r == Finished(Answered(orders[o]), "later")
             a == Numbered(attempts[o][k], "failed")
  <2>1. /\ Outcome(w, o, k, "failed")
        /\ SetOrder(o, r) /\ SetAttempt(o, k, a)
        /\ UNCHANGED <<entries, notes>>
    BY <1>3 DEF ApplyFailed, money
  <2>2. /\ r \in Order /\ r.next_run_at = "later"
        /\ r.wallet_state = orders[o].wallet_state
    BY <1>1, <1>2, <2>1, OrderUpdates
  <2>3. /\ a \in Attempt /\ a.state = "failed"
        /\ a.provider = attempts[o][k].provider
    BY <1>1, <1>2, <2>1, AttemptUpdates
  <2> HIDE DEF r, a
  <2> QED
    BY <2>1, <2>2, <2>3, OutcomeRecords
<1>4. CASE ApplyPending(w, o, k)
  <2> DEFINE r == Finished(Answered(orders[o]), "later")
             a == Numbered(attempts[o][k], "pending")
  <2>1. /\ Outcome(w, o, k, "pending")
        /\ SetOrder(o, r) /\ SetAttempt(o, k, a)
        /\ UNCHANGED <<entries, notes>>
    BY <1>4 DEF ApplyPending, money
  <2>2. /\ r \in Order /\ r.next_run_at = "later"
        /\ r.wallet_state = orders[o].wallet_state
    BY <1>1, <1>2, <2>1, OrderUpdates
  <2>3. /\ a \in Attempt /\ a.state = "pending"
        /\ a.provider = attempts[o][k].provider
    BY <1>1, <1>2, <2>1, AttemptUpdates
  <2> HIDE DEF r, a
  <2> QED
    BY <2>1, <2>2, <2>3, OutcomeRecords
<1>5. CASE ApplyReviewing(w, o, k)
  <2> DEFINE r == Finished(Answered(orders[o]), "later")
             a == Numbered(attempts[o][k], "reviewing")
  <2>1. /\ Outcome(w, o, k, "reviewing")
        /\ SetOrder(o, r) /\ SetAttempt(o, k, a)
        /\ Notify(o, "review") /\ entries' = entries
    BY <1>5 DEF ApplyReviewing, money
  <2>2. /\ r \in Order /\ r.next_run_at = "later"
        /\ r.wallet_state = orders[o].wallet_state
    BY <1>1, <1>2, <2>1, OrderUpdates
  <2>3. /\ a \in Attempt /\ a.state = "reviewing"
        /\ a.provider = attempts[o][k].provider
    BY <1>1, <1>2, <2>1, AttemptUpdates
  <2> HIDE DEF r, a
  <2> QED
    BY <2>1, <2>2, <2>3, OutcomeRecords
<1>6. CASE ApplyChanged(w, o, k)
  <2> DEFINE r == Finished(orders[o], "later")
             a == [attempts[o][k] EXCEPT !.state = "reviewing"]
  <2>1. /\ Outcome(w, o, k, "changed")
        /\ SetOrder(o, r) /\ SetAttempt(o, k, a)
        /\ Notify(o, "review") /\ entries' = entries
    BY <1>6 DEF ApplyChanged, money
  <2>2. /\ r \in Order /\ r.next_run_at = "later"
        /\ r.wallet_state = orders[o].wallet_state
    BY <1>1, <1>2, <2>1, OrderUpdates
  <2>3. /\ a \in Attempt /\ a.state = "reviewing"
        /\ a.provider = attempts[o][k].provider
    BY <1>1, <1>2, <2>1, AttemptUpdates
  <2> HIDE DEF r, a
  <2> QED
    BY <2>1, <2>2, <2>3, OutcomeRecords
<1> QED
  BY <1>3, <1>4, <1>5, <1>6

(* The outcomes of _error. *)
LEMMA ErrorOrderStep ==
    ASSUME PurchaseInv, NEW w \in Workers, NEW o \in Orders, NEW k \in Seqs,
           ErrorRejected(w, o, k) \/ ErrorReview(w, o, k) \/ ErrorRetry(w, o, k)
    PROVE  \A p \in Orders : OrderStep(p)
<1>1. ASSUME NEW result, Outcome(w, o, k, result)
      PROVE  orders[o] \in Order /\ attempts[o][k] \in Attempt
  BY <1>1, OutcomeHeld
<1>2. /\ "rejected" \in AttemptStates /\ "reviewing" \in AttemptStates
      /\ "later" \in {"none", "due", "later"}
  BY DEF AttemptStates, Concluded
<1>3. CASE ErrorRejected(w, o, k)
  <2> DEFINE r == Finished(Retried(orders[o]), "later")
             a == [attempts[o][k] EXCEPT !.state = "rejected"]
  <2>1. /\ Outcome(w, o, k, "rejected")
        /\ SetOrder(o, r) /\ SetAttempt(o, k, a)
        /\ UNCHANGED <<entries, notes>>
    BY <1>3 DEF ErrorRejected, money
  <2>2. /\ r \in Order /\ r.next_run_at = "later"
        /\ r.wallet_state = orders[o].wallet_state
    BY <1>1, <1>2, <2>1, OrderUpdates
  <2>3. /\ a \in Attempt /\ a.state = "rejected"
        /\ a.provider = attempts[o][k].provider
    BY <1>1, <1>2, <2>1, AttemptUpdates
  <2> HIDE DEF r, a
  <2> QED
    BY <2>1, <2>2, <2>3, OutcomeRecords
<1>4. CASE ErrorReview(w, o, k)
  <2> DEFINE r == Finished(Retried(orders[o]), "later")
             a == [attempts[o][k] EXCEPT !.state = "reviewing"]
  <2>1. /\ Outcome(w, o, k, "refused") \/ Outcome(w, o, k, "rejected")
        /\ SetOrder(o, r) /\ SetAttempt(o, k, a)
        /\ Notify(o, "review") /\ entries' = entries
    BY <1>4 DEF ErrorReview, money
  <2>2. /\ r \in Order /\ r.next_run_at = "later"
        /\ r.wallet_state = orders[o].wallet_state
    BY <1>1, <1>2, <2>1, OrderUpdates
  <2>3. /\ a \in Attempt /\ a.state = "reviewing"
        /\ a.provider = attempts[o][k].provider
    BY <1>1, <1>2, <2>1, AttemptUpdates
  <2> HIDE DEF r, a
  <2> QED
    BY <2>1, <2>2, <2>3, OutcomeRecords
<1>5. CASE ErrorRetry(w, o, k)
  <2> DEFINE r == Finished(Retried(orders[o]), "later")
  <2>1. /\ Outcome(w, o, k, "unclear") /\ SetOrder(o, r)
        /\ UNCHANGED <<entries, attempts, notes>>
    BY <1>5 DEF ErrorRetry, money
  <2>2. /\ r \in Order /\ r.next_run_at = "later"
        /\ r.wallet_state = orders[o].wallet_state
    BY <1>1, <1>2, <2>1, OrderUpdates
  <2> HIDE DEF r
  <2> QED
    BY <2>1, <2>2, RestsStep
<1> QED
  BY <1>3, <1>4, <1>5

(* The price is taken.                                                     *)
LEMMA SuccessOrderStep ==
    ASSUME PurchaseInv, NEW w \in Workers, NEW o \in Orders, NEW k \in Seqs,
           ApplySuccess(w, o, k)
    PROVE  \A p \in Orders : OrderStep(p)
<1> DEFINE r == Finished(Answered(Completed(orders[o])), "none")
           a == Numbered(attempts[o][k], "succeeded")
<1>1. /\ Outcome(w, o, k, "success") /\ SetOrder(o, r) /\ SetAttempt(o, k, a)
      /\ Capture(Owner[o], o, Price[o]) /\ Notify(o, "fulfilled")
      /\ "fulfilled" \in Events /\ "none" \in {"none", "due", "later"}
      /\ "succeeded" \in AttemptStates
  BY DEF ApplySuccess, CompletePurchase, Events, AttemptStates
<1>2. /\ orders[o] \in Order /\ attempts[o][k] \in Attempt
      /\ orders[o].wallet_state = "held"
      /\ Len(attempts[o]) > 0 /\ k = Len(attempts[o]) /\ Writes(w, o)
  BY <1>1, OutcomeHeld
<1>3. r \in Order /\ r.wallet_state = "captured"
  BY <1>1, <1>2, OrderUpdates
<1>4. /\ a \in Attempt /\ a.state = "succeeded"
      /\ a.provider = attempts[o][k].provider
  BY <1>1, <1>2, AttemptUpdates
<1> HIDE DEF r, a
<1>5. orders'[o] = r /\ \A p \in Orders : p # o => orders'[p] = orders[p]
  BY <1>1, <1>3, SetOrderFacts, InvFacts
<1>6. /\ attempts'[o] = [attempts[o] EXCEPT ![k] = a]
      /\ \A p \in Orders : p # o => attempts'[p] = attempts[p]
  BY <1>1, InvFacts, TypeFacts DEF SetAttempt
<1>7. Enters(o, {"capture"}) /\ \A p \in Orders : p # o => Enters(p, {})
  BY <1>1, MoneyEnters
<1>8. /\ notes'[o] = notes[o] \cup {"fulfilled"}
      /\ \A p \in Orders : p # o => notes'[p] = notes[p]
  BY <1>1, NotifyFacts, InvFacts
<1>9. Charges(w, o, a)
  BY <1>2, <1>3, <1>4, <1>5, <1>6, <1>7, <1>8 DEF Charges, WritesLast, WalletGoes, Tells
<1>10. OrderStep(o)
  BY <1>4, <1>9 DEF OrderStep
<1> QED
  BY <1>5, <1>6, <1>7, <1>8, <1>10, OtherRests

-----------------------------------------------------------------------------
(* Whatever happens, it is one of these things for each order.             *)
LEMMA EveryStep ==
    ASSUME PurchaseInv, [Next]_vars
    PROVE  \A p \in Orders : OrderStep(p)
<1>1. ASSUME NEW w \in Workers, NEW o \in Orders, Transactions(w, o)
      PROVE  \A p \in Orders : OrderStep(p)
  <2>1. CASE Claim(w, o) \/ StartQuoting(w, o) \/ RequoteLater(w, o)
    BY <2>1, BeginOrderStep
  <2>2. CASE NoAffordableOffer(w, o) \/ NoProviderLeft(w, o)
    BY <2>2, ReleaseOrderStep
  <2>3. ASSUME NEW q \in Providers, StartPurchase(w, o, q) PROVE \A p \in Orders : OrderStep(p)
    BY <2>3, PurchaseOrderStep
  <2>4. ASSUME NEW k \in Seqs,
               ResumeLookup(w, o, k) \/ ResumeSubmission(w, o, k) \/ ExhaustSubmissions(w, o, k)
        PROVE  \A p \in Orders : OrderStep(p)
    BY <2>4, ResumeOrderStep
  <2>5. ASSUME NEW k \in Seqs, ApplySuccess(w, o, k) PROVE \A p \in Orders : OrderStep(p)
    BY <2>5, SuccessOrderStep
  <2>6. ASSUME NEW k \in Seqs,
               \/ ApplyFailed(w, o, k) \/ ApplyPending(w, o, k)
               \/ ApplyReviewing(w, o, k) \/ ApplyChanged(w, o, k)
        PROVE  \A p \in Orders : OrderStep(p)
    BY <2>6, ApplyOrderStep
  <2>7. ASSUME NEW k \in Seqs,
               ErrorRejected(w, o, k) \/ ErrorReview(w, o, k) \/ ErrorRetry(w, o, k)
        PROVE  \A p \in Orders : OrderStep(p)
    BY <2>7, ErrorOrderStep
  <2> QED
    BY <1>1, <2>1, <2>2, <2>3, <2>4, <2>5, <2>6, <2>7 DEF Transactions
<1>2. CASE UNCHANGED vars
  BY <1>2, StillRests DEF vars
<1> QED
  BY <1>1, <1>2, UserOrderStep, PassOrderStep, EnvironmentOrderStep DEF Next

-----------------------------------------------------------------------------
(* Part 3.  What an OrderStep keeps.                                       *)

(* Attempts are only ever added, and none changes its provider.            *)
LEMMA AttemptsGrow ==
    ASSUME PurchaseInv, NEW o \in Orders, OrderStep(o)
    PROVE  /\ \/ Len(attempts'[o]) = Len(attempts[o])
              \/ /\ Len(attempts'[o]) = Len(attempts[o]) + 1
                 /\ \E w \in Workers, p \in Providers : Buys(w, o, p)
           /\ \A k \in 1..Len(attempts[o]) :
                 attempts'[o][k].provider = attempts[o][k].provider
<1>1. attempts[o] \in Seq(Attempt)
  BY InvFacts, TypeFacts
<1>2. CASE attempts'[o] = attempts[o]
  BY <1>2
<1>3. ASSUME NEW w \in Workers, NEW p \in Providers, Buys(w, o, p)
      PROVE  /\ Len(attempts'[o]) = Len(attempts[o]) + 1
             /\ \A k \in 1..Len(attempts[o]) : attempts'[o][k] = attempts[o][k]
  <2>1. attempts'[o] = Append(attempts[o], NewAttempt(p)) /\ NewAttempt(p) \in Attempt
    BY <1>3, NewRows DEF Buys
  <2> QED
    BY <1>1, <2>1
<1>4. ASSUME NEW w \in Workers, NEW a \in Attempt, WritesLast(w, o, a)
      PROVE  /\ Len(attempts'[o]) = Len(attempts[o])
             /\ \A k \in 1..Len(attempts[o]) :
                   attempts'[o][k].provider = attempts[o][k].provider
  BY <1>1, <1>4 DEF WritesLast
<1> QED
  BY <1>2, <1>3, <1>4 DEF OrderStep, Rests, Opens, Refunds, Records, Charges

(* At the start there is nothing to keep. *)
LEMMA InitPromises ==
    ASSUME ProcurementInit
    PROVE  HeldOrdersStayScheduled /\ UserIsTold /\ LedgerMatchesOrders
<1>1. \A o \in Orders : /\ orders[o].wallet_state = "none"
                        /\ attempts[o] = <<>> /\ notes[o] = {}
  BY DEF ProcurementInit, RentalInit, NoOrder
<1>2. \A e \in entries : \E u \in Users : e.key = Key("credit", u)
  BY DEF ProcurementInit, RentalInit, Entry
<1>3. \A o \in Orders : EntryKinds(o) = {}
  BY <1>2 DEF EntryKinds, Posted, Key
<1> QED
  BY <1>1, <1>3 DEF HeldOrdersStayScheduled, UserIsTold, LedgerMatchesOrders

(* Held orders stay queued in an OrderStep ... *)
LEMMA ScheduledStep ==
    ASSUME HeldOrdersStayScheduled, \A p \in Orders : OrderStep(p)
    PROVE  HeldOrdersStayScheduled'
<1> SUFFICES ASSUME NEW o \in Orders, orders'[o].wallet_state = "held"
             PROVE  orders'[o].next_run_at # "none"
  BY DEF HeldOrdersStayScheduled
<1>1. /\ OrderStep(o)
      /\ orders[o].wallet_state = "held" => orders[o].next_run_at # "none"
  BY DEF HeldOrdersStayScheduled
<1> QED
  BY <1>1 DEF OrderStep, Rests, Opens, Refunds, Buys, Records, Charges, WalletGoes, StaysQueued

(* ... and the ledger keeps up with the money. *)
LEMMA LedgerStep ==
    ASSUME LedgerMatchesOrders, \A p \in Orders : OrderStep(p)
    PROVE  LedgerMatchesOrders'
<1> DEFINE Kinds(state) == CASE state = "none"     -> {}
                             [] state = "held"     -> {"hold"}
                             [] state = "captured" -> {"hold", "capture"}
                             [] state = "released" -> {"hold", "release"}
<1>1. /\ Kinds("none") = {} /\ Kinds("held") = {"hold"}
      /\ Kinds("captured") = {"hold", "capture"} /\ Kinds("released") = {"hold", "release"}
  OBVIOUS
<1>2. /\ \A o \in Orders : EntryKinds(o) = Kinds(orders[o].wallet_state)
      /\ LedgerMatchesOrders' <=>
            \A o \in Orders : EntryKinds(o)' = Kinds(orders'[o].wallet_state)
  BY DEF LedgerMatchesOrders
<1> HIDE DEF Kinds
<1>3. ASSUME NEW o \in Orders PROVE EntryKinds(o)' = Kinds(orders'[o].wallet_state)
  <2>1. OrderStep(o) /\ EntryKinds(o) = Kinds(orders[o].wallet_state)
    BY <1>2
  <2>2. CASE Rests(o)
    BY <2>1, <2>2 DEF Rests, Enters
  <2>3. CASE Opens(o)
    BY <1>1, <2>1, <2>3 DEF Opens, Enters, WalletGoes
  <2>4. CASE Refunds(o)
    BY <1>1, <2>1, <2>4 DEF Refunds, Enters, WalletGoes
  <2>5. ASSUME NEW w \in Workers, NEW p \in Providers, Buys(w, o, p)
        PROVE  EntryKinds(o)' = Kinds(orders'[o].wallet_state)
    BY <1>1, <2>1, <2>5 DEF Buys, Enters, WalletGoes
  <2>6. ASSUME NEW w \in Workers, NEW a \in Attempt, Records(w, o, a)
        PROVE  EntryKinds(o)' = Kinds(orders'[o].wallet_state)
    BY <1>1, <2>1, <2>6 DEF Records, Enters, WalletGoes
  <2>7. ASSUME NEW w \in Workers, NEW a \in Attempt, Charges(w, o, a)
        PROVE  EntryKinds(o)' = Kinds(orders'[o].wallet_state)
    BY <1>1, <2>1, <2>7 DEF Charges, Enters, WalletGoes
  <2> QED
    BY <2>1, <2>2, <2>3, <2>4, <2>5, <2>6, <2>7 DEF OrderStep
<1> QED
  BY <1>2, <1>3

(* What the events of an order say of it. *)
LEMMA ToldStep ==
    ASSUME PurchaseInv, UserIsTold, \A p \in Orders : OrderStep(p)
    PROVE  UserIsTold'
<1> DEFINE Told(o) ==
              /\ orders[o].wallet_state = "captured" <=> "fulfilled" \in notes[o]
              /\ orders[o].wallet_state = "released" <=> "refunded" \in notes[o]
           Warned(o) == \A k \in 1..Len(attempts[o]) :
              attempts[o][k].state = "reviewing" => "review" \in notes[o]
<1>1. UserIsTold <=> \A o \in Orders : Told(o) /\ Warned(o)
  BY DEF UserIsTold
<1>2. UserIsTold' <=> \A o \in Orders : Told(o)' /\ Warned(o)'
  BY DEF UserIsTold
<1>3. ASSUME NEW o \in Orders PROVE Told(o)' /\ Warned(o)'
  <2>1. OrderStep(o) /\ Told(o) /\ Warned(o) /\ attempts[o] \in Seq(Attempt)
    BY <1>1, InvFacts, TypeFacts
  <2>2. CASE Rests(o)
    BY <2>1, <2>2 DEF Rests, Tells
  <2>3. CASE Opens(o)
    BY <2>1, <2>3 DEF Opens, Tells, WalletGoes
  <2>4. CASE Refunds(o)
    BY <2>1, <2>4 DEF Refunds, Tells, WalletGoes
  <2>5. ASSUME NEW w \in Workers, NEW p \in Providers, Buys(w, o, p)
        PROVE  Told(o)' /\ Warned(o)'
    <3>1. /\ attempts'[o] = Append(attempts[o], NewAttempt(p))
          /\ WalletGoes(o, "held", "held") /\ notes'[o] = notes[o]
          /\ NewAttempt(p) \in Attempt /\ NewAttempt(p).state = "submitting"
      BY <2>5, NewRows DEF Buys, Tells
    <3>2. Told(o)'
      BY <2>1, <3>1 DEF WalletGoes
    <3>3. Warned(o)'
      BY <2>1, <3>1
    <3> QED
      BY <3>2, <3>3
  <2>6. ASSUME NEW w \in Workers, NEW a \in Attempt, Records(w, o, a)
        PROVE  Told(o)' /\ Warned(o)'
    <3>1. /\ attempts'[o] = [attempts[o] EXCEPT ![Len(attempts[o])] = a]
          /\ WalletGoes(o, "held", "held") /\ Len(attempts[o]) > 0
          /\ notes'[o] = notes[o] \cup (IF a.state = "reviewing" THEN {"review"} ELSE {})
      BY <2>6 DEF Records, WritesLast, Tells
    <3>2. Told(o)'
      BY <2>1, <3>1 DEF WalletGoes
    <3>3. Warned(o)'
      BY <2>1, <3>1
    <3> QED
      BY <3>2, <3>3
  <2>7. ASSUME NEW w \in Workers, NEW a \in Attempt, Charges(w, o, a)
        PROVE  Told(o)' /\ Warned(o)'
    <3>1. /\ attempts'[o] = [attempts[o] EXCEPT ![Len(attempts[o])] = a]
          /\ WalletGoes(o, "held", "captured") /\ Len(attempts[o]) > 0
          /\ notes'[o] = notes[o] \cup {"fulfilled"} /\ a.state = "succeeded"
      BY <2>7 DEF Charges, WritesLast, Tells
    <3>2. Told(o)'
      BY <2>1, <3>1 DEF WalletGoes
    <3>3. Warned(o)'
      BY <2>1, <3>1
    <3> QED
      BY <3>2, <3>3
  <2> QED
    BY <2>1, <2>2, <2>3, <2>4, <2>5, <2>6, <2>7 DEF OrderStep
<1> QED
  BY <1>2, <1>3

-----------------------------------------------------------------------------
(* Frozen money is never forgotten: whatever ends a pass, the order stays  *)
(* in the queue until it is settled (_finish is never given NULL before).  *)
THEOREM FrozenMoneyStaysQueued == Spec => []HeldOrdersStayScheduled
<1>1. ProcurementInit => HeldOrdersStayScheduled
  BY InitPromises
<1>2. PurchaseInv /\ HeldOrdersStayScheduled /\ [Next]_vars => HeldOrdersStayScheduled'
  BY EveryStep, ScheduledStep
<1> QED
  BY <1>1, <1>2, InvariantHolds, PTL DEF Spec

(* The ledger has exactly the entries the order's wallet_state stands for: *)
(* one hold per reservation, one capture or release per settlement, and    *)
(* never both.                                                             *)
THEOREM LedgerTellsOrders == Spec => []LedgerMatchesOrders
<1>1. ProcurementInit => LedgerMatchesOrders
  BY InitPromises
<1>2. PurchaseInv /\ LedgerMatchesOrders /\ [Next]_vars => LedgerMatchesOrders'
  BY EveryStep, LedgerStep
<1> QED
  BY <1>1, <1>2, InvariantHolds, PTL DEF Spec

(* The users are told, in every state that can be reached. *)
LEMMA ToldHolds == Spec => [](PurchaseInv /\ UserIsTold)
<1>1. ProcurementInit => UserIsTold
  BY InitPromises
<1>2. PurchaseInv /\ UserIsTold /\ [Next]_vars => UserIsTold'
  BY EveryStep, ToldStep
<1> QED
  BY <1>1, <1>2, InvariantHolds, PTL DEF Spec

(* The user hears of every settlement, of no other, and of every review.   *)
THEOREM UsersHear == Spec => []UserIsTold
BY ToldHolds, PTL

(* Once the user was told how it ended, no pass tells anything else.       *)
THEOREM SettlementIsTheLastWord == Spec => SettledOrdersStaySilent
<1> DEFINE Silent == \A o \in Orders :
              notes[o] \cap {"fulfilled", "refunded"} # {} => notes'[o] = notes[o]
<1>1. (PurchaseInv /\ UserIsTold) /\ [Next]_vars => [Silent]_vars
  <2> SUFFICES ASSUME PurchaseInv, UserIsTold, [Next]_vars,
                      NEW o \in Orders, notes[o] \cap {"fulfilled", "refunded"} # {}
               PROVE  notes'[o] = notes[o]
    OBVIOUS
  <2>1. OrderStep(o)
    BY EveryStep
  <2>2. orders[o].wallet_state \in {"captured", "released"}
    BY DEF UserIsTold
  <2> QED
    BY <2>1, <2>2 DEF OrderStep, Opens, Refunds, Buys, Records, Charges, WalletGoes, Rests, Tells
<1> QED
  BY ToldHolds, <1>1, PTL DEF Spec, SettledOrdersStaySilent

(* Every write to an attempt comes from the pass that holds the token      *)
(* _locked compares: a worker that was overtaken writes nothing.           *)
THEOREM WritersHoldTheLease == Spec => OnlyLeaseHolderWrites
<1> DEFINE Fenced == \A o \in Orders : attempts'[o] # attempts[o] =>
              \E w \in Workers : orders[o].lease_token = w /\ OrderOf(w) = o
                                 /\ worker'[w] # worker[w]
<1>1. PurchaseInv /\ [Next]_vars => [Fenced]_vars
  <2> SUFFICES ASSUME PurchaseInv, [Next]_vars,
                      NEW o \in Orders, attempts'[o] # attempts[o]
               PROVE  \E w \in Workers : orders[o].lease_token = w /\ OrderOf(w) = o
                                         /\ worker'[w] # worker[w]
    OBVIOUS
  <2>1. OrderStep(o)
    BY EveryStep
  <2>2. PICK w \in Workers : Writes(w, o)
    BY <2>1 DEF OrderStep, Rests, Opens, Refunds, Buys, Records, Charges, WritesLast
  <2> QED
    BY <2>2 DEF Writes, Holds
<1> QED
  BY InvariantHolds, <1>1, PTL DEF Spec, OnlyLeaseHolderWrites

-----------------------------------------------------------------------------
(* A call either ends with a result or moves on to the POST.               *)
LEMMA CallMoves ==
    ASSUME PurchaseInv, NEW w \in Workers, Calls(w)
    PROVE  \/ \E result \in Results : Got(w, result)
           \/ \E pc \in {"posting", "waiting"} :
                 worker' = [worker EXCEPT ![w] = [@ EXCEPT !.pc = pc]]
<1>1. CASE NeedsReview(w) \/ PostNotSent(w)
  BY <1>1 DEF NeedsReview, PostNotSent, Results
<1>2. CASE LookupMissed(w) \/ SendPost(w)
  BY <1>2 DEF LookupMissed, SendPost, Results, Answers
<1>3. CASE LookupFound(w)
  <2>1. TheUpstream(w).state \in UpstreamStates
    BY <1>3, InvFacts, CallerFacts DEF LookupFound, At, TheUpstream, OrderOf, Purchase
  <2> QED
    BY <1>3, <2>1 DEF LookupFound, UpstreamStates, Results, Answers
<1>4. ASSUME NEW result \in Results,
             \/ LookupFailed(w, result) \/ PostAnswered(w, result)
             \/ PostRejected(w, result) \/ PostUnclear(w, result)
      PROVE  Got(w, result)
  BY <1>4 DEF LookupFailed, PostAnswered, PostRejected, PostUnclear
<1> QED
  BY <1>1, <1>2, <1>3, <1>4 DEF Calls

(* A worker that compares offers after a step did so before, and stood     *)
(* still, or has just read which providers failed.                         *)
LEMMA Quoting ==
    ASSUME PurchaseInv, [Next]_vars, NEW v \in Workers, worker'[v].pc = "quoting"
    PROVE  worker'[v] = worker[v] \/ StartQuoting(v, OrderOf(v))
<1>1. TypeOK
  BY InvFacts
<1> USE <1>1
<1>2. ASSUME NEW w \in Workers,
             \/ /\ \A u \in Workers : u # w => worker'[u] = worker[u]
                /\ worker'[w].pc # "quoting"
             \/ worker' = worker
      PROVE  worker'[v] = worker[v]
  BY <1>2
<1>3. ASSUME NEW w \in Workers, Leave(w) PROVE worker'[v] = worker[v]
  BY <1>2, <1>3, LeaveFacts
<1>4. ASSUME NEW w \in Workers, NEW result \in Results, Got(w, result)
      PROVE  worker'[v] = worker[v]
  BY <1>2, <1>4, GotFacts
<1>5. ASSUME NEW w \in Workers, NEW o \in Orders, Transactions(w, o)
      PROVE  worker'[v] = worker[v] \/ StartQuoting(v, OrderOf(v))
  <2>1. CASE Claim(w, o)
    <3>1. worker' = [worker EXCEPT ![w] = [Idle EXCEPT !.pc = "claimed", !.order = o]]
      BY <2>1 DEF Claim
    <3> QED
      BY <1>2, <3>1, ClaimFacts
  <2>2. CASE StartQuoting(w, o)
    <3>1. /\ worker' = [worker EXCEPT
                ![w] = [@ EXCEPT !.pc = "quoting", !.seq = Len(attempts[o]) + 1,
                                 !.excluded = Excluded(o)]]
          /\ OrderOf(w) = o
      BY <2>2 DEF StartQuoting
    <3>2. v # w => worker'[v] = worker[v]
      BY <3>1, QuotingFacts
    <3> QED
      BY <2>2, <3>1, <3>2
  <2>3. CASE RequoteLater(w, o) \/ NoAffordableOffer(w, o) \/ NoProviderLeft(w, o)
    BY <1>3, <2>3 DEF RequoteLater, NoAffordableOffer, NoProviderLeft
  <2>4. ASSUME NEW p \in Providers, StartPurchase(w, o, p) PROVE worker'[v] = worker[v]
    <3>1. worker' = [worker EXCEPT
              ![w] = [@ EXCEPT !.pc = "calling", !.first = TRUE, !.excluded = {}]]
      BY <2>4 DEF StartPurchase
    <3> QED
      BY <1>2, <3>1, PurchaseFacts
  <2>5. ASSUME NEW k \in Seqs,
               ResumeLookup(w, o, k) \/ ResumeSubmission(w, o, k) \/ ExhaustSubmissions(w, o, k)
        PROVE  worker'[v] = worker[v]
    <3>1. \E a : Call(w, k, a)
      BY <2>5 DEF ResumeLookup, ResumeSubmission, ExhaustSubmissions
    <3> QED
      BY <1>1, <1>2, <3>1 DEF Call, TypeOK, Pass
  <2>6. ASSUME NEW k \in Seqs,
               \/ ApplySuccess(w, o, k) \/ ApplyFailed(w, o, k) \/ ApplyPending(w, o, k)
               \/ ApplyReviewing(w, o, k) \/ ApplyChanged(w, o, k)
               \/ ErrorRejected(w, o, k) \/ ErrorReview(w, o, k) \/ ErrorRetry(w, o, k)
        PROVE  worker'[v] = worker[v]
    <3>1. Leave(w)
      BY <2>6 DEF ApplySuccess, ApplyFailed, ApplyPending, ApplyReviewing, ApplyChanged,
                  ErrorRejected, ErrorReview, ErrorRetry, Outcome
    <3> QED
      BY <1>3, <3>1
  <2> QED
    BY <1>5, <2>1, <2>2, <2>3, <2>4, <2>5, <2>6 DEF Transactions
<1>6. ASSUME NEW w \in Workers, Calls(w) PROVE worker'[v] = worker[v]
  <2>1. \/ \E result \in Results : Got(w, result)
        \/ \E pc \in {"posting", "waiting"} : worker' = [worker EXCEPT ![w] = [@ EXCEPT !.pc = pc]]
    BY <1>6, CallMoves
  <2>2. CASE \E result \in Results : Got(w, result)
    BY <1>4, <2>2
  <2>3. ASSUME NEW pc \in {"posting", "waiting"}, worker' = [worker EXCEPT ![w] = [@ EXCEPT !.pc = pc]]
        PROVE  worker'[v] = worker[v]
    BY <1>2, <2>3, PostingFacts
  <2> QED
    BY <2>1, <2>2, <2>3
<1>7. ASSUME NEW w \in Workers, LoseLease(w) \/ SkipSettled(w) \/ Crash(w)
      PROVE  worker'[v] = worker[v]
  BY <1>3, <1>7 DEF LoseLease, SkipSettled, Crash
<1>8. ASSUME NEW providers \in Configurations, Restart(providers) PROVE FALSE
  BY <1>8, NewRows DEF Restart
<1>9. ASSUME Environment PROVE worker' = worker
  BY <1>8, <1>9 DEF Environment, FallDue, LeaseExpires, PostArrives, StrayLost, Wake,
                    UpstreamProceeds
<1>10. ASSUME NEW o \in Orders, UserActions(o) PROVE worker' = worker
  BY <1>10 DEF UserActions
<1> QED
  BY <1>5, <1>6, <1>7, <1>9, <1>10 DEF Next, vars

(* Every provider of an attempt that is no longer open is known as tried.  *)
LEMMA QuotingKnows ==
    ASSUME PurchaseInv, NEW w \in Workers, NEW o \in Orders, StartQuoting(w, o)
    PROVE  /\ worker'[w].order = o /\ attempts' = attempts
           /\ worker'[w].seq = Len(attempts[o]) + 1
           /\ \A k \in 1..Len(attempts[o]) : attempts[o][k].provider \in worker'[w].excluded
<1>1. /\ worker' = [worker EXCEPT
            ![w] = [@ EXCEPT !.pc = "quoting", !.seq = Len(attempts[o]) + 1,
                             !.excluded = Excluded(o)]]
      /\ worker[w].order = o /\ attempts' = attempts /\ ~HasOpen(o)
  BY DEF StartQuoting, OrderOf
<1>2. worker'[w].order = o /\ worker'[w].seq = Len(attempts[o]) + 1
  BY <1>1, InvFacts, QuotingFacts
<1>3. worker'[w].excluded = Excluded(o)
  BY <1>1, InvFacts DEF TypeOK, Pass
<1>4. \A k \in 1..Len(attempts[o]) : attempts[o][k].state \in Concluded
  <2>1. Len(attempts[o]) \in Nat
    BY InvFacts, TypeFacts
  <2> QED
    BY <1>1, <2>1, InvFacts DEF HasOpen, AttemptsOK
<1> QED
  BY <1>1, <1>2, <1>3, <1>4 DEF Excluded

(* Whoever compares offers keeps knowing the providers already asked. *)
LEMMA AskedStep ==
    ASSUME PurchaseInv, AskedOK, [Next]_vars
    PROVE  AskedOK'
<1> SUFFICES ASSUME NEW w \in Workers, worker'[w].pc = "quoting"
             PROVE  LET o == worker'[w].order
                    IN  /\ worker'[w].seq <= Len(attempts'[o]) + 1
                        /\ \A k \in 1..Len(attempts'[o]) : k < worker'[w].seq =>
                              attempts'[o][k].provider \in worker'[w].excluded
  BY DEF AskedOK, AskedOf, At, OrderOf
<1>1. CASE worker'[w] = worker[w]
  <2>1. PICK o \in Orders : worker[w].order = o
    BY <1>1, InvFacts DEF PassOK, OrderOf
  <2>2. worker[w].seq \in Int /\ Len(attempts[o]) \in Nat
    BY InvFacts, TypeFacts DEF Pass
  <2>3. /\ worker[w].seq <= Len(attempts[o]) + 1
        /\ \A k \in 1..Len(attempts[o]) : k < worker[w].seq =>
              attempts[o][k].provider \in worker[w].excluded
    BY <1>1, <2>1 DEF AskedOK, AskedOf, At, OrderOf
  <2>4. /\ Len(attempts'[o]) = Len(attempts[o]) \/ Len(attempts'[o]) = Len(attempts[o]) + 1
        /\ \A k \in 1..Len(attempts[o]) :
              attempts'[o][k].provider = attempts[o][k].provider
    BY EveryStep, AttemptsGrow
  <2>5. worker[w].seq <= Len(attempts'[o]) + 1
    BY <2>2, <2>3, <2>4
  <2>6. ASSUME NEW k \in 1..Len(attempts'[o]), k < worker[w].seq
        PROVE  attempts'[o][k].provider \in worker[w].excluded
    <3>1. k \in 1..Len(attempts[o])
      BY <2>2, <2>3, <2>4, <2>6
    <3> QED
      BY <2>3, <2>4, <2>6, <3>1
  <2> QED
    BY <1>1, <2>1, <2>5, <2>6
<1>2. CASE StartQuoting(w, OrderOf(w))
  <2>1. OrderOf(w) \in Orders
    BY <1>2, InvFacts DEF PassOK, StartQuoting, At
  <2>2. Len(attempts[OrderOf(w)]) \in Nat
    BY <2>1, InvFacts, TypeFacts
  <2> QED
    BY <1>2, <2>1, <2>2, QuotingKnows
<1> QED
  BY <1>1, <1>2, Quoting

(* So a new attempt never repeats a provider. *)
LEMMA TriedOnceStep ==
    ASSUME PurchaseInv, AskedOK, EachProviderTriedOnce, [Next]_vars
    PROVE  EachProviderTriedOnce'
<1>1. ASSUME NEW o \in Orders
      PROVE  /\ OrderStep(o) /\ attempts[o] \in Seq(Attempt) /\ Len(attempts[o]) \in Nat
             /\ Len(attempts'[o]) = Len(attempts[o]) \/ Len(attempts'[o]) = Len(attempts[o]) + 1
             /\ \A i \in 1..Len(attempts[o]) :
                   attempts'[o][i].provider = attempts[o][i].provider
  BY EveryStep, AttemptsGrow, InvFacts, TypeFacts
<1>2. ASSUME NEW o \in Orders, NEW j \in 1..Len(attempts[o]), NEW k \in 1..Len(attempts[o]),
             attempts'[o][j].provider = attempts'[o][k].provider
      PROVE  j = k
  BY <1>1, <1>2 DEF EachProviderTriedOnce
<1>3. ASSUME NEW o \in Orders, NEW j \in 1..Len(attempts[o]), NEW k \in 1..Len(attempts'[o]),
             k \notin 1..Len(attempts[o])
      PROVE  attempts'[o][j].provider # attempts'[o][k].provider
  <2>1. k = Len(attempts[o]) + 1 /\ Len(attempts'[o]) # Len(attempts[o])
    BY <1>1, <1>3
  <2>2. PICK w \in Workers, p \in Providers : Buys(w, o, p)
    BY <1>1, <2>1, AttemptsGrow
  <2>3. /\ attempts'[o] = Append(attempts[o], NewAttempt(p))
        /\ p \notin worker[w].excluded /\ NewAttempt(p).provider = p
        /\ NewAttempt(p) \in Attempt
    BY <2>2, NewRows DEF Buys
  <2>4. attempts'[o][k].provider = p
    BY <1>1, <2>1, <2>3
  <2>5. /\ worker[w].seq = Len(attempts[o]) + 1 /\ worker[w].order = o /\ At(w, "quoting")
    BY <2>2 DEF Buys, Writes, OrderOf
  <2>6. attempts[o][j].provider \in worker[w].excluded
    <3>1. AskedOf(w)
      BY DEF AskedOK
    <3> QED
      BY <1>1, <2>5, <3>1 DEF AskedOf, OrderOf
  <2> QED
    BY <1>1, <2>3, <2>4, <2>6
<1>4. ASSUME NEW o \in Orders, NEW j \in 1..Len(attempts'[o]), NEW k \in 1..Len(attempts'[o]),
             attempts'[o][j].provider = attempts'[o][k].provider
      PROVE  j = k
  <2>1. CASE j \in 1..Len(attempts[o]) /\ k \in 1..Len(attempts[o])
    BY <1>2, <1>4, <2>1
  <2>2. CASE j \notin 1..Len(attempts[o]) /\ k \notin 1..Len(attempts[o])
    <3>1. /\ Len(attempts[o]) \in Nat
          /\ Len(attempts'[o]) = Len(attempts[o]) \/ Len(attempts'[o]) = Len(attempts[o]) + 1
      BY <1>1
    <3> QED
      BY <2>2, <3>1
  <2> QED
    BY <1>3, <1>4, <2>1, <2>2
<1> QED
  BY <1>4 DEF EachProviderTriedOnce

(* An order asks every provider at most once: whoever failed for it, or    *)
(* turned it down, is out, also when two workers work on it in turn.       *)
THEOREM ProvidersAreTriedOnce == Spec => []EachProviderTriedOnce
<1>1. ProcurementInit => AskedOK /\ EachProviderTriedOnce
  <2>1. ASSUME ProcurementInit
        PROVE  /\ \A o \in Orders : attempts[o] = <<>>
               /\ \A w \in Workers : worker[w].pc = "idle"
    BY <2>1, NewRows DEF ProcurementInit, RentalInit
  <2> QED
    BY <2>1 DEF AskedOK, AskedOf, At, EachProviderTriedOnce
<1>2. PurchaseInv /\ (AskedOK /\ EachProviderTriedOnce) /\ [Next]_vars
         => (AskedOK /\ EachProviderTriedOnce)'
  BY AskedStep, TriedOnceStep
<1> QED
  BY <1>1, <1>2, InvariantHolds, PTL DEF Spec

-----------------------------------------------------------------------------
(* Part 4.  The budget of the POSTs.                                       *)

(* What the passes know of their attempt.                                  *)
LEMMA BudgetFacts ==
    ASSUME BudgetInv
    PROVE  PurchaseInv /\ MemoryOK /\ BudgetOK /\ TypeOK
BY InvFacts DEF BudgetInv

(* A resumed attempt: the worker has read its state and number. *)
LEMMA CallMemory ==
    ASSUME TypeOK, NEW w \in Workers, NEW k, NEW a \in Attempt, Call(w, k, a)
    PROVE  /\ \A v \in Workers : v # w => worker'[v] = worker[v]
           /\ worker'[w].pc = "calling" /\ ~worker'[w].first
           /\ worker'[w].order = worker[w].order /\ worker'[w].seq = k
           /\ worker'[w].known = a.upstream_order_id
           /\ worker'[w].reviewing = (a.state = "reviewing")
BY DEF Call, TypeOK, Pass

(* A call that moves on. *)
LEMMA PcMemory ==
    ASSUME TypeOK, NEW w \in Workers, NEW pc,
           worker' = [worker EXCEPT ![w] = [@ EXCEPT !.pc = pc]]
    PROVE  /\ \A v \in Workers : v # w => worker'[v] = worker[v]
           /\ worker'[w].pc = pc /\ worker'[w].first = worker[w].first
           /\ worker'[w].order = worker[w].order /\ worker'[w].seq = worker[w].seq
           /\ worker'[w].known = worker[w].known
           /\ worker'[w].reviewing = worker[w].reviewing
BY DEF TypeOK, Pass

(* A call that has a result. *)
LEMMA GotMemory ==
    ASSUME TypeOK, NEW w \in Workers, NEW result, Got(w, result)
    PROVE  /\ \A v \in Workers : v # w => worker'[v] = worker[v]
           /\ worker'[w].pc = "result" /\ ~worker'[w].known /\ ~worker'[w].reviewing
BY DEF TypeOK, Pass, Got

(* A worker that turns to comparing offers. *)
LEMMA QuotingMemory ==
    ASSUME TypeOK, NEW w \in Workers, NEW o, StartQuoting(w, o)
    PROVE  /\ \A v \in Workers : v # w => worker'[v] = worker[v]
           /\ worker'[w].pc = "quoting" /\ worker[w].pc = "claimed"
           /\ worker'[w].known = worker[w].known
           /\ worker'[w].reviewing = worker[w].reviewing
BY DEF TypeOK, Pass, StartQuoting, At

(* A first submission. *)
LEMMA PurchaseMemory ==
    ASSUME TypeOK, NEW w \in Workers, NEW o, NEW p, StartPurchase(w, o, p)
    PROVE  /\ \A v \in Workers : v # w => worker'[v] = worker[v]
           /\ worker'[w].pc = "calling" /\ worker[w].pc = "quoting"
           /\ worker'[w].order = o /\ worker'[w].seq = Len(attempts[o]) + 1
           /\ worker'[w].known = worker[w].known
           /\ worker'[w].reviewing = worker[w].reviewing
BY DEF TypeOK, Pass, StartPurchase, Choosing, At, OrderOf

(* A worker that begins or ends a pass remembers nothing. *)
LEMMA IdleMemory ==
    ASSUME TypeOK, NEW w \in Workers,
           \/ Leave(w)
           \/ \E o : worker' = [worker EXCEPT ![w] = [Idle EXCEPT !.pc = "claimed", !.order = o]]
    PROVE  /\ \A v \in Workers : v # w => worker'[v] = worker[v]
           /\ worker'[w].pc \in {"idle", "claimed"}
           /\ ~worker'[w].known /\ ~worker'[w].reviewing
<1>1. CASE Leave(w)
  BY <1>1 DEF TypeOK, Leave, Idle
<1>2. ASSUME NEW o, worker' = [worker EXCEPT ![w] = [Idle EXCEPT !.pc = "claimed", !.order = o]]
      PROVE  /\ \A v \in Workers : v # w => worker'[v] = worker[v]
             /\ worker'[w].pc \in {"idle", "claimed"}
             /\ ~worker'[w].known /\ ~worker'[w].reviewing
  <2>1. LET r == [Idle EXCEPT !.pc = "claimed", !.order = o]
        IN  r.pc = "claimed" /\ ~r.known /\ ~r.reviewing
    BY DEF Idle
  <2> QED
    BY <1>2, <2>1 DEF TypeOK
<1> QED
  BY <1>1, <1>2

-----------------------------------------------------------------------------
(* The purchase a step is about keeps its count of POSTs.                  *)
PostsKept ==
    \A p \in Orders, j \in Seqs : upstream'[p][j].posts = upstream[p][j].posts

(* It does so whatever else becomes of that purchase. *)
LEMMA OnePurchase ==
    ASSUME TypeOK, NEW o \in Orders, NEW k \in Seqs, NEW u \in Purchase,
           upstream' = [upstream EXCEPT ![o][k] = u],
           u.posts = upstream[o][k].posts
    PROVE  PostsKept
BY SetUpstreamFacts DEF PostsKept

(* The upstream and the clock post nothing. *)
LEMMA EnvironmentPosts ==
    ASSUME TypeOK, Environment
    PROVE  PostsKept
<1>1. upstream \in [Orders -> [Seqs -> Purchase]]
  BY DEF TypeOK
<1>2. CASE upstream' = upstream
  BY <1>2 DEF PostsKept
<1>3. ASSUME NEW o \in Orders, NEW k \in Seqs, PostArrives(o, k) PROVE PostsKept
  BY <1>1, <1>3 DEF PostArrives, PostsKept, Purchase
<1>4. ASSUME NEW o \in Orders, NEW k \in Seqs, StrayLost(o, k) PROVE PostsKept
  BY <1>1, <1>4 DEF StrayLost, PostsKept, Purchase
<1>5. ASSUME NEW o \in Orders, NEW k \in Seqs, NEW state \in UpstreamStates,
             UpstreamProceeds(o, k, state)
      PROVE  PostsKept
  BY <1>1, <1>5 DEF UpstreamProceeds, PostsKept, Purchase
<1>6. ASSUME NEW providers \in Configurations, Restart(providers) PROVE PostsKept
  <2>1. \A u \in Purchase : Abandoned(u).posts = u.posts
    BY DEF Abandoned, Purchase
  <2> QED
    BY <1>1, <1>6, <2>1 DEF Restart, PostsKept
<1> QED
  BY <1>2, <1>3, <1>4, <1>5, <1>6 DEF Environment, FallDue, LeaseExpires, Wake, world

(* A POST that is given up was counted when it left. *)
LEMMA AbandonedPosts ==
    ASSUME PurchaseInv, NEW w \in Workers, worker[w].pc = "waiting",
           SetUpstream(w, Abandoned(TheUpstream(w)))
    PROVE  PostsKept
<1>1. /\ worker[w].order \in Orders /\ worker[w].seq \in Seqs
      /\ TheUpstream(w) = upstream[worker[w].order][worker[w].seq]
      /\ TheUpstream(w) \in Purchase
  BY InvFacts, CallerFacts DEF TheUpstream, OrderOf
<1>2. Abandoned(TheUpstream(w)) \in Purchase /\ Abandoned(TheUpstream(w)).posts = TheUpstream(w).posts
  <2>1. \A u \in Purchase : Abandoned(u) \in Purchase /\ Abandoned(u).posts = u.posts
    BY DEF Abandoned, Purchase
  <2> QED
    BY <1>1, <2>1
<1> QED
  BY <1>1, <1>2, InvFacts, OnePurchase DEF SetUpstream, OrderOf

-----------------------------------------------------------------------------
(* One worker moves on, and is no payer it was not before.                 *)
PayersKept ==
    /\ MemoryOK'
    /\ \A v \in Workers, p \in Orders, j \in Seqs : Payer(v, p, j)' => Payer(v, p, j)

(* It is enough to look at the worker that moves. *)
LEMMA OneMoves ==
    ASSUME MemoryOK, NEW w \in Workers,
           \A v \in Workers : v # w => worker'[v] = worker[v],
           MemoryOf(w)',
           \A p \in Orders, j \in Seqs : Payer(w, p, j)' => Payer(w, p, j)
    PROVE  PayersKept
<1>1. \A v \in Workers : v # w => MemoryOf(v)'
  BY DEF MemoryOK, MemoryOf
<1>2. \A v \in Workers, p \in Orders, j \in Seqs : v # w /\ Payer(v, p, j)' => Payer(v, p, j)
  BY DEF Payer, OrderOf
<1> QED
  BY <1>1, <1>2 DEF PayersKept, MemoryOK

(* When no worker moves there is nothing to look at. *)
LEMMA NobodyMoves ==
    ASSUME MemoryOK, worker' = worker
    PROVE  PayersKept
BY DEF PayersKept, MemoryOK, MemoryOf, Payer, OrderOf

(* A worker that begins or ends a pass posts nothing. *)
LEMMA LeavingPays ==
    ASSUME TypeOK, MemoryOK, NEW w \in Workers,
           \/ Leave(w)
           \/ \E o : worker' = [worker EXCEPT ![w] = [Idle EXCEPT !.pc = "claimed", !.order = o]]
    PROVE  PayersKept
BY IdleMemory, OneMoves DEF MemoryOf, Payer

(* Nor does one that has its result. *)
LEMMA GettingPays ==
    ASSUME TypeOK, MemoryOK, NEW w \in Workers, NEW result, Got(w, result)
    PROVE  PayersKept
BY GotMemory, OneMoves DEF MemoryOf, Payer

(* The attempts keep the POSTs they have paid for.                         *)
SubmitsKept ==
    \A p \in Orders :
        /\ Len(attempts'[p]) = Len(attempts[p])
        /\ \A j \in 1..Len(attempts[p]) :
              attempts'[p][j].submit_attempts = attempts[p][j].submit_attempts

(* An outcome leaves the number of submissions as it is. *)
LEMMA SubmitsStay ==
    ASSUME PurchaseInv, NEW o \in Orders, NEW k \in 1..Len(attempts[o]), NEW a \in Attempt,
           \/ SetAttempt(o, k, a) /\ a.submit_attempts = attempts[o][k].submit_attempts
           \/ attempts' = attempts
    PROVE  SubmitsKept
<1>1. attempts \in [Orders -> Seq(Attempt)]
  BY InvFacts, TypeFacts
<1>2. CASE SetAttempt(o, k, a) /\ a.submit_attempts = attempts[o][k].submit_attempts
  <2>1. attempts' = [attempts EXCEPT ![o][k] = a]
    BY <1>2 DEF SetAttempt
  <2>2. /\ \A p \in Orders : Len(attempts'[p]) = Len(attempts[p])
        /\ \A p \in Orders : \A j \in 1..Len(attempts[p]) :
              attempts'[p][j] = IF p = o /\ j = k THEN a ELSE attempts[p][j]
    BY <1>1, <2>1, SetAttemptFacts
  <2> QED
    BY <1>2, <2>2 DEF SubmitsKept
<1>3. CASE attempts' = attempts
  BY <1>3 DEF SubmitsKept
<1> QED
  BY <1>2, <1>3

(* What fits into the budget fits with fewer payers, and with none.        *)
LEMMA FewerFit ==
    ASSUME NEW p \in Nat, NEW c \in Nat, NEW d \in Nat, NEW m \in Nat, d <= c, p + c <= m
    PROVE  p + d <= m /\ p <= m
OBVIOUS

(* An attempt with no more payers than before is paid for as before.       *)
LEMMA FewerPayers ==
    ASSUME BudgetInv, NEW o \in Orders, NEW k \in Seqs,
           Payers(o, k)' \in SUBSET Payers(o, k),
           upstream'[o][k].posts = upstream[o][k].posts,
           \/ k > Len(attempts[o]) /\ k > Len(attempts'[o])
           \/ /\ k <= Len(attempts[o]) /\ k <= Len(attempts'[o])
              /\ attempts'[o][k].submit_attempts = attempts[o][k].submit_attempts
    PROVE  PaidFor(o, k)'
<1> DEFINE S == Payers(o, k)
           T == Payers(o, k)'
<1>1. PaidFor(o, k)
  BY DEF BudgetInv, BudgetOK
<1>2. /\ IsFiniteSet(S)
      /\ k > Len(attempts[o]) => upstream[o][k].posts = 0
      /\ k <= Len(attempts[o]) =>
            upstream[o][k].posts + Cardinality(S) <= attempts[o][k].submit_attempts
  BY <1>1 DEF PaidFor
<1>3. IsFiniteSet(T) /\ Cardinality(T) <= Cardinality(S)
  BY <1>2, FS_Subset
<1>4. Cardinality(T) \in Nat /\ Cardinality(S) \in Nat
  BY <1>2, <1>3, FS_CardinalityType
<1> HIDE DEF S, T
<1>5. /\ upstream[o][k].posts \in Nat /\ Len(attempts[o]) \in Nat /\ k \in Nat \ {0}
      /\ k <= Len(attempts[o]) => attempts[o][k].submit_attempts \in Nat
      /\ Len(attempts'[o]) \in Int
  <2>1. upstream[o][k].posts \in Nat /\ Len(attempts[o]) \in Nat /\ k \in Nat \ {0}
    BY BudgetFacts, InvFacts, TypeFacts DEF Seqs, Purchase
  <2>2. ASSUME k <= Len(attempts[o]) PROVE attempts[o][k].submit_attempts \in Nat
    BY <2>1, <2>2, BudgetFacts, InvFacts, TypeFacts DEF Attempt
  <2>3. Len(attempts'[o]) \in Int
    OBVIOUS
  <2> QED
    BY <2>1, <2>2, <2>3
<1>6. /\ k > Len(attempts'[o]) => upstream'[o][k].posts = 0
      /\ k <= Len(attempts'[o]) =>
            upstream'[o][k].posts + Cardinality(T) <= attempts'[o][k].submit_attempts
  <2>1. CASE k > Len(attempts[o]) /\ k > Len(attempts'[o])
    BY <1>2, <1>5, <2>1
  <2>2. CASE k <= Len(attempts[o]) /\ k <= Len(attempts'[o])
             /\ attempts'[o][k].submit_attempts = attempts[o][k].submit_attempts
    <3>1. upstream[o][k].posts + Cardinality(S) <= attempts'[o][k].submit_attempts
      BY <1>2, <2>2
    <3>2. attempts'[o][k].submit_attempts \in Nat
      BY <1>5, <2>2
    <3>3. upstream[o][k].posts + Cardinality(T) <= attempts'[o][k].submit_attempts
      BY <1>3, <1>4, <1>5, <3>1, <3>2, FewerFit
    <3> QED
      BY <1>5, <2>2, <3>3
  <2> QED
    BY <2>1, <2>2
<1> QED
  BY <1>3, <1>6 DEF PaidFor, T

(* Nothing is spent by a step that posts nothing and lets nobody post.     *)
LEMMA NothingSpent ==
    ASSUME BudgetInv, PayersKept, PostsKept, SubmitsKept
    PROVE  MemoryOK' /\ BudgetOK'
<1>1. ASSUME NEW o \in Orders, NEW k \in Seqs PROVE PaidFor(o, k)'
  <2>1. Payers(o, k)' \in SUBSET Payers(o, k)
    BY DEF PayersKept, Payers
  <2>2. /\ upstream'[o][k].posts = upstream[o][k].posts
        /\ Len(attempts'[o]) = Len(attempts[o]) /\ Len(attempts[o]) \in Nat
        /\ k \in Nat \ {0}
        /\ k <= Len(attempts[o]) =>
              attempts'[o][k].submit_attempts = attempts[o][k].submit_attempts
    BY BudgetFacts, InvFacts, TypeFacts DEF PostsKept, SubmitsKept, Seqs
  <2>3. k > Len(attempts[o]) \/ k <= Len(attempts[o])
    BY <2>2
  <2> QED
    BY <2>1, <2>2, <2>3, FewerPayers
<1> QED
  BY <1>1 DEF BudgetOK, PayersKept

-----------------------------------------------------------------------------
(* The POST leaves: its worker has paid, and pays once.                    *)
LEMMA SendSpends ==
    ASSUME BudgetInv, NEW w \in Workers, SendPost(w)
    PROVE  MemoryOK' /\ BudgetOK'
<1>0. PICK o \in Orders, k \in Seqs : o = worker[w].order /\ k = worker[w].seq
  <2>1. worker[w].pc \in {"calling", "posting"}
    BY DEF SendPost, Posts, At
  <2> QED
    BY <2>1, BudgetFacts, InvFacts, CallerFacts
<1>1. /\ Posts(w) /\ upstream' = [upstream EXCEPT
            ![o][k] = [upstream[o][k] EXCEPT !.posts = @ + 1]]
      /\ worker' = [worker EXCEPT ![w] = [@ EXCEPT !.pc = "waiting"]]
      /\ attempts' = attempts /\ worker[w].pc \in {"calling", "posting"}
  BY <1>0 DEF SendPost, SetUpstream, OrderOf, TheUpstream, tables, Posts, At
<1>2. o \in Orders /\ k \in Seqs /\ upstream[o][k] \in Purchase /\ k \in 1..Len(attempts[o])
  BY <1>0, <1>1, BudgetFacts, InvFacts, CallerFacts
<1>3. /\ \A v \in Workers : v # w => worker'[v] = worker[v]
      /\ worker'[w].pc = "waiting" /\ worker'[w].first = worker[w].first
      /\ worker'[w].known = worker[w].known /\ worker'[w].reviewing = worker[w].reviewing
  BY <1>1, BudgetFacts, PcMemory
<1>4. Payer(w, o, k)
  <2>1. MemoryOf(w)
    BY BudgetFacts DEF MemoryOK
  <2>2. worker[w].first \in BOOLEAN /\ worker[w].known \in BOOLEAN /\ worker[w].reviewing \in BOOLEAN
    BY BudgetFacts DEF TypeOK, Pass
  <2>3. ~worker[w].known /\ ~worker[w].reviewing
    BY <1>1, <2>1, <2>2 DEF Posts, LooksUp, At, MemoryOf
  <2> QED
    BY <1>0, <1>1, <2>3 DEF Payer, OrderOf
<1>5. PayersKept
  <2>1. MemoryOf(w)
    BY BudgetFacts DEF MemoryOK
  <2> QED
    BY <1>3, <2>1, BudgetFacts, OneMoves DEF MemoryOf, Payer
<1>6. /\ upstream'[o][k].posts = upstream[o][k].posts + 1
      /\ \A p \in Orders, j \in Seqs :
            p # o \/ j # k => upstream'[p][j] = upstream[p][j]
  <2>1. \A x \in Purchase : LET y == [x EXCEPT !.posts = @ + 1]
                            IN  y \in Purchase /\ y.posts = x.posts + 1
    BY DEF Purchase
  <2>2. PICK u \in Purchase : /\ u = [upstream[o][k] EXCEPT !.posts = @ + 1]
                              /\ u.posts = upstream[o][k].posts + 1
    BY <1>2, <2>1
  <2>3. upstream' = [upstream EXCEPT ![o][k] = u]
    BY <1>1, <2>2
  <2>4. TypeOK
    BY BudgetFacts
  <2>5. upstream'[o][k] = u
    BY <2>3, <2>4, SetUpstreamFacts
  <2>6. \A p \in Orders, j \in Seqs : (p # o \/ j # k) => upstream'[p][j] = upstream[p][j]
    BY <2>3, <2>4, SetUpstreamFacts
  <2> QED
    BY <2>2, <2>5, <2>6
<1>7. /\ upstream[o][k].posts \in Nat /\ Len(attempts[o]) \in Nat
      /\ attempts[o][k].submit_attempts \in Nat
  BY <1>2, BudgetFacts, InvFacts, TypeFacts DEF Purchase, Attempt
<1>8. PaidFor(o, k)'
  <2> DEFINE S == Payers(o, k)
             T == Payers(o, k)'
  <2>1. /\ IsFiniteSet(S) /\ k <= Len(attempts[o]) /\ w \in S
        /\ upstream[o][k].posts + Cardinality(S) <= attempts[o][k].submit_attempts
    <3>1. PaidFor(o, k) /\ k <= Len(attempts[o])
      BY <1>2, <1>7, BudgetFacts DEF BudgetOK
    <3> QED
      BY <1>4, <3>1 DEF PaidFor, Payers
  <2>2. T \in SUBSET (S \ {w})
    BY <1>3, <1>5, <1>2 DEF PayersKept, Payers, Payer
  <2> HIDE DEF S, T
  <2>3. IsFiniteSet(S \ {w}) /\ Cardinality(S \ {w}) = Cardinality(S) - 1
    BY <2>1, FS_RemoveElement
  <2>4. IsFiniteSet(T) /\ Cardinality(T) <= Cardinality(S \ {w})
    BY <2>2, <2>3, FS_Subset
  <2>5. Cardinality(T) \in Nat /\ Cardinality(S) \in Nat
    BY <2>1, <2>4, FS_CardinalityType
  <2>6. /\ upstream'[o][k].posts + Cardinality(T) <= attempts'[o][k].submit_attempts
        /\ k <= Len(attempts'[o])
    <3>1. /\ attempts'[o] = attempts[o] /\ upstream'[o][k].posts = upstream[o][k].posts + 1
          /\ k <= Len(attempts[o])
          /\ upstream[o][k].posts + Cardinality(S) <= attempts[o][k].submit_attempts
      BY <1>1, <1>6, <2>1
    <3>2. Cardinality(T) + 1 <= Cardinality(S)
      BY <2>3, <2>4, <2>5
    <3>3. \A a, b, c, d \in Nat : c + 1 <= d /\ a + d <= b => a + 1 + c <= b
      OBVIOUS
    <3>4. upstream[o][k].posts \in Nat /\ attempts[o][k].submit_attempts \in Nat
      BY <1>7
    <3>5. upstream[o][k].posts + 1 + Cardinality(T) <= attempts[o][k].submit_attempts
      BY <2>5, <3>1, <3>2, <3>3, <3>4
    <3> QED
      BY <3>1, <3>5
  <2>7. ~(k > Len(attempts'[o]))
    BY <1>1, <1>2, <1>7
  <2> QED
    BY <2>4, <2>6, <2>7 DEF PaidFor, T
<1>9. ASSUME NEW p \in Orders, NEW j \in Seqs, p # o \/ j # k
      PROVE  PaidFor(p, j)'
  <2>1. PaidFor(p, j) /\ upstream'[p][j] = upstream[p][j]
    BY <1>6, <1>9, BudgetFacts DEF BudgetOK
  <2>2. Payers(p, j)' \in SUBSET Payers(p, j)
    BY <1>5 DEF PayersKept, Payers
  <2>3. attempts' = attempts /\ (j > Len(attempts[p]) \/ j <= Len(attempts[p]))
    BY <1>1, BudgetFacts, InvFacts, TypeFacts DEF Seqs
  <2> QED
    BY <2>1, <2>2, <2>3, FewerPayers
<1> QED
  BY <1>5, <1>8, <1>9 DEF BudgetOK, PayersKept

-----------------------------------------------------------------------------
(* A transaction that lets its worker post has paid for that POST.         *)
LEMMA OneMorePayer ==
    ASSUME BudgetInv, NEW w \in Workers, NEW o \in Orders, NEW k \in Seqs,
           \A v \in Workers : v # w => worker'[v] = worker[v],
           upstream'[o][k].posts = upstream[o][k].posts,
           Len(attempts'[o]) \in Nat, k <= Len(attempts'[o]),
           \/ /\ k = Len(attempts[o]) + 1
              /\ attempts'[o][k].submit_attempts = 1
           \/ /\ k <= Len(attempts[o])
              /\ attempts'[o][k].submit_attempts = attempts[o][k].submit_attempts + 1
    PROVE  PaidFor(o, k)'
<1> DEFINE S == Payers(o, k)
           T == Payers(o, k)'
<1>1. PaidFor(o, k)
  BY DEF BudgetInv, BudgetOK
<1>2. /\ IsFiniteSet(S)
      /\ k > Len(attempts[o]) => upstream[o][k].posts = 0
      /\ k <= Len(attempts[o]) =>
            upstream[o][k].posts + Cardinality(S) <= attempts[o][k].submit_attempts
  BY <1>1 DEF PaidFor
<1>3. T \in SUBSET (S \cup {w})
  BY DEF Payers, Payer, OrderOf
<1>4. k > Len(attempts[o]) => S = {}
  <2> SUFFICES ASSUME NEW v \in Workers, Payer(v, o, k), k > Len(attempts[o]) PROVE FALSE
    BY DEF Payers
  <2>1. k \in 1..Len(attempts[o])
    BY BudgetFacts, InvFacts DEF Payer, PassOK, OrderOf
  <2>2. Len(attempts[o]) \in Nat
    BY BudgetFacts, InvFacts, TypeFacts
  <2> QED
    BY <2>1, <2>2
<1>5. /\ upstream[o][k].posts \in Nat /\ Len(attempts[o]) \in Nat /\ k \in Nat \ {0}
      /\ k <= Len(attempts[o]) => attempts[o][k].submit_attempts \in Nat
  BY BudgetFacts, InvFacts, TypeFacts DEF Seqs, Purchase, Attempt
<1>6. Cardinality({}) = 0 /\ Cardinality(S) \in Nat
  BY <1>2, FS_EmptySet, FS_CardinalityType
<1> HIDE DEF S, T
<1>7. /\ IsFiniteSet(S \cup {w})
      /\ Cardinality(S \cup {w}) = Cardinality(S) \/ Cardinality(S \cup {w}) = Cardinality(S) + 1
  BY <1>2, FS_AddElement
<1>8. IsFiniteSet(T) /\ Cardinality(T) <= Cardinality(S \cup {w})
  BY <1>3, <1>7, FS_Subset
<1>9. Cardinality(T) \in Nat /\ Cardinality(T) <= Cardinality(S) + 1
  BY <1>6, <1>7, <1>8, FS_CardinalityType
<1>10. upstream[o][k].posts + Cardinality(T) <= attempts'[o][k].submit_attempts
  <2>1. CASE k = Len(attempts[o]) + 1 /\ attempts'[o][k].submit_attempts = 1
    <3>1. upstream[o][k].posts = 0 /\ Cardinality(S) = 0
      <4>1. k > Len(attempts[o])
        BY <1>5, <2>1
      <4> QED
        BY <1>2, <1>4, <1>6, <4>1
    <3> QED
      BY <1>9, <2>1, <3>1
  <2>2. CASE /\ k <= Len(attempts[o])
             /\ attempts'[o][k].submit_attempts = attempts[o][k].submit_attempts + 1
    <3>1. \A a, b, c, d \in Nat : c <= d + 1 /\ a + d <= b => a + c <= b + 1
      OBVIOUS
    <3>2. /\ upstream[o][k].posts \in Nat /\ attempts[o][k].submit_attempts \in Nat
          /\ upstream[o][k].posts + Cardinality(S) <= attempts[o][k].submit_attempts
      BY <1>2, <1>5, <2>2
    <3>3. upstream[o][k].posts + Cardinality(T) <= attempts[o][k].submit_attempts + 1
      BY <1>6, <1>9, <3>1, <3>2
    <3> QED
      BY <2>2, <3>3
  <2> QED
    BY <2>1, <2>2
<1>11. ~(k > Len(attempts'[o]))
  BY <1>5
<1> QED
  BY <1>8, <1>10, <1>11 DEF PaidFor, T

(* A resumed submission counts one more, and its worker is one more payer. *)
LEMMA SubmissionSpends ==
    ASSUME BudgetInv, NEW w \in Workers, NEW o \in Orders, NEW k \in Seqs,
           ResumeSubmission(w, o, k)
    PROVE  MemoryOK' /\ BudgetOK'
<1> DEFINE a == [attempts[o][k] EXCEPT !.submit_attempts = @ + 1]
<1>1. /\ worker[w].pc = "claimed" /\ worker[w].order = o /\ k = Len(attempts[o])
      /\ Len(attempts[o]) > 0 /\ attempts' = [attempts EXCEPT ![o][k] = a]
      /\ attempts[o][k].submit_attempts < MaxSubmitAttempts
      /\ Call(w, k, a) /\ upstream' = upstream
  BY DEF ResumeSubmission, Resume, At, OrderOf, HasOpen, SetAttempt, world
<1>2. k \in 1..Len(attempts[o]) /\ attempts[o][k] \in Attempt /\ attempts \in [Orders -> Seq(Attempt)]
  BY <1>1, BudgetFacts, InvFacts, TypeFacts DEF Seqs
<1>3. a \in Attempt /\ a.submit_attempts = attempts[o][k].submit_attempts + 1
  <2>1. \A x \in Attempt : [x EXCEPT !.submit_attempts = @ + 1].submit_attempts = x.submit_attempts + 1
    BY DEF Attempt
  <2> QED
    BY <1>1, <1>2, <2>1, SubmitUpdates
<1> HIDE DEF a
<1>4. /\ \A v \in Workers : v # w => worker'[v] = worker[v]
      /\ worker'[w].pc = "calling" /\ ~worker'[w].first
      /\ worker'[w].order = o /\ worker'[w].seq = k
  BY <1>1, <1>3, BudgetFacts, CallMemory
<1>5. /\ \A p \in Orders : Len(attempts'[p]) = Len(attempts[p])
      /\ \A p \in Orders : \A j \in 1..Len(attempts[p]) :
            attempts'[p][j] = IF p = o /\ j = k THEN a ELSE attempts[p][j]
  BY <1>1, <1>2, <1>3, SetAttemptFacts
<1>6. MemoryOK'
  <2>1. \A v \in Workers : MemoryOf(v)
    BY BudgetFacts DEF MemoryOK
  <2>2. \A v \in Workers : MemoryOf(v)'
    BY <1>4, <2>1 DEF MemoryOf
  <2> QED
    BY <2>2 DEF MemoryOK
<1>7. PaidFor(o, k)'
  <2>1. /\ attempts'[o][k].submit_attempts = attempts[o][k].submit_attempts + 1
        /\ Len(attempts'[o]) \in Nat
        /\ k <= Len(attempts'[o]) /\ k <= Len(attempts[o])
    BY <1>2, <1>3, <1>5
  <2> QED
    BY <1>1, <1>4, <2>1, OneMorePayer
<1>8. ASSUME NEW p \in Orders, NEW j \in Seqs, p # o \/ j # k PROVE PaidFor(p, j)'
  <2>1. Payers(p, j)' \in SUBSET Payers(p, j)
    BY <1>4, <1>8 DEF Payers, Payer, OrderOf
  <2>2. /\ Len(attempts'[p]) = Len(attempts[p]) /\ Len(attempts[p]) \in Nat
        /\ j \in Nat \ {0} /\ upstream'[p][j].posts = upstream[p][j].posts
    BY <1>1, <1>5, BudgetFacts, InvFacts, TypeFacts DEF Seqs
  <2>3. j <= Len(attempts[p]) => attempts'[p][j] = attempts[p][j]
    BY <1>5, <1>8, <2>2
  <2>4. j > Len(attempts[p]) \/ j <= Len(attempts[p])
    BY <2>2
  <2> QED
    BY <2>1, <2>2, <2>3, <2>4, FewerPayers
<1> QED
  BY <1>6, <1>7, <1>8 DEF BudgetOK

(* A new attempt starts with one submission and one payer. *)
LEMMA PurchaseSpends ==
    ASSUME BudgetInv, NEW w \in Workers, NEW o \in Orders, NEW q \in Providers,
           StartPurchase(w, o, q)
    PROVE  MemoryOK' /\ BudgetOK'
<1>1. PICK k \in Seqs : k = Len(attempts[o]) + 1
  BY DEF StartPurchase
<1>2. /\ attempts' = [attempts EXCEPT ![o] = Append(@, NewAttempt(q))] /\ upstream' = upstream
      /\ NewAttempt(q) \in Attempt /\ NewAttempt(q).submit_attempts = 1
      /\ attempts \in [Orders -> Seq(Attempt)] /\ Len(attempts[o]) \in Nat
  BY NewRows, BudgetFacts, InvFacts, TypeFacts DEF StartPurchase, world, NewAttempt
<1>3. /\ \A v \in Workers : v # w => worker'[v] = worker[v]
      /\ worker'[w].pc = "calling" /\ worker[w].pc = "quoting"
      /\ worker'[w].order = o /\ worker'[w].seq = k
      /\ worker'[w].known = worker[w].known
      /\ worker'[w].reviewing = worker[w].reviewing
  BY <1>1, BudgetFacts, PurchaseMemory
<1>4. /\ Len(attempts'[o]) = k /\ attempts'[o][k] = NewAttempt(q)
      /\ \A j \in 1..Len(attempts[o]) : attempts'[o][j] = attempts[o][j]
      /\ \A p \in Orders : p # o => attempts'[p] = attempts[p]
  BY <1>1, <1>2, AppendFacts
<1>5. MemoryOK'
  <2>1. \A v \in Workers : MemoryOf(v)
    BY BudgetFacts DEF MemoryOK
  <2>2. \A v \in Workers : MemoryOf(v)'
    BY <1>3, <2>1 DEF MemoryOf
  <2> QED
    BY <2>2 DEF MemoryOK
<1>6. PaidFor(o, k)'
  <2>1. /\ attempts'[o][k].submit_attempts = 1
        /\ Len(attempts'[o]) \in Nat /\ k <= Len(attempts'[o])
    BY <1>1, <1>2, <1>4
  <2> QED
    BY <1>1, <1>2, <1>3, <2>1, OneMorePayer
<1>7. ASSUME NEW p \in Orders, NEW j \in Seqs, p # o \/ j # k PROVE PaidFor(p, j)'
  <2>1. Payers(p, j)' \in SUBSET Payers(p, j)
    BY <1>3, <1>7 DEF Payers, Payer, OrderOf
  <2>2. Len(attempts[p]) \in Nat /\ j \in Nat \ {0} /\ upstream'[p][j].posts = upstream[p][j].posts
    BY <1>2, BudgetFacts, InvFacts, TypeFacts DEF Seqs
  <2>3. CASE p # o
    <3>1. attempts'[p] = attempts[p] /\ (j > Len(attempts[p]) \/ j <= Len(attempts[p]))
      BY <1>4, <2>2, <2>3
    <3> QED
      BY <2>1, <2>2, <3>1, FewerPayers
  <2>4. CASE p = o /\ j <= Len(attempts[o])
    <3>1. j \in 1..Len(attempts[o]) /\ j <= Len(attempts'[o])
      BY <1>1, <1>4, <2>2, <2>4
    <3> QED
      BY <1>4, <2>1, <2>2, <2>4, <3>1, FewerPayers
  <2>5. CASE p = o /\ j > Len(attempts[o])
    <3>1. j > Len(attempts'[o])
      BY <1>1, <1>2, <1>4, <1>7, <2>2, <2>5
    <3> QED
      BY <2>1, <2>2, <2>5, <3>1, FewerPayers
  <2> QED
    BY <2>2, <2>3, <2>4, <2>5
<1> QED
  BY <1>5, <1>6, <1>7 DEF BudgetOK

-----------------------------------------------------------------------------
(* Every other step posts nothing and lets nobody post. *)
LEMMA OutcomeSpends ==
    ASSUME BudgetInv, NEW w \in Workers, NEW o \in Orders, NEW k \in Seqs, NEW result,
           Outcome(w, o, k, result), NEW a \in Attempt,
           \/ SetAttempt(o, k, a) /\ a.submit_attempts = attempts[o][k].submit_attempts
           \/ attempts' = attempts
    PROVE  MemoryOK' /\ BudgetOK'
<1>1. /\ Leave(w) /\ upstream' = upstream /\ k \in 1..Len(attempts[o])
  BY BudgetFacts, InvFacts, OutcomeFacts DEF Outcome
<1>2. PayersKept
  BY <1>1, BudgetFacts, LeavingPays
<1>3. PostsKept
  BY <1>1 DEF PostsKept
<1>4. SubmitsKept
  BY <1>1, BudgetFacts, SubmitsStay
<1> QED
  BY <1>2, <1>3, <1>4, NothingSpent

(* The outcomes of a call. *)
LEMMA OutcomesSpend ==
    ASSUME BudgetInv, NEW w \in Workers, NEW o \in Orders, NEW k \in Seqs,
           \/ ApplySuccess(w, o, k) \/ ApplyFailed(w, o, k) \/ ApplyPending(w, o, k)
           \/ ApplyReviewing(w, o, k) \/ ApplyChanged(w, o, k)
           \/ ErrorRejected(w, o, k) \/ ErrorReview(w, o, k) \/ ErrorRetry(w, o, k)
    PROVE  MemoryOK' /\ BudgetOK'
<1>1. \A x \in Attempt, state \in AttemptStates :
         /\ Numbered(x, state) \in Attempt
         /\ Numbered(x, state).submit_attempts = x.submit_attempts
         /\ [x EXCEPT !.state = state] \in Attempt
         /\ [x EXCEPT !.state = state].submit_attempts = x.submit_attempts
  BY DEF Attempt, Numbered
<1>2. {"succeeded", "failed", "pending", "reviewing", "rejected"} \subseteq AttemptStates
  BY DEF AttemptStates, Concluded
<1>3. /\ \E result : Outcome(w, o, k, result)
      /\ \/ attempts' = attempts
         \/ \E state \in AttemptStates :
               \/ SetAttempt(o, k, Numbered(attempts[o][k], state))
               \/ SetAttempt(o, k, [attempts[o][k] EXCEPT !.state = state])
  BY <1>2 DEF ApplySuccess, ApplyFailed, ApplyPending, ApplyReviewing, ApplyChanged,
              ErrorRejected, ErrorReview, ErrorRetry
<1>4. PICK result : Outcome(w, o, k, result)
  BY <1>3
<1>5. attempts[o][k] \in Attempt
  BY <1>4, BudgetFacts, InvFacts, OutcomeFacts
<1>6. CASE attempts' = attempts
  BY <1>4, <1>5, <1>6, OutcomeSpends
<1>7. ASSUME NEW state \in AttemptStates,
             \/ SetAttempt(o, k, Numbered(attempts[o][k], state))
             \/ SetAttempt(o, k, [attempts[o][k] EXCEPT !.state = state])
      PROVE  MemoryOK' /\ BudgetOK'
  <2>1. PICK a \in Attempt : /\ SetAttempt(o, k, a)
                             /\ a.submit_attempts = attempts[o][k].submit_attempts
    BY <1>1, <1>5, <1>7
  <2> QED
    BY <1>4, <2>1, OutcomeSpends
<1> QED
  BY <1>3, <1>6, <1>7

(* A pass that only looks, or has used up its submissions. *)
LEMMA ResumesSpend ==
    ASSUME BudgetInv, NEW w \in Workers, NEW o \in Orders, NEW k \in Seqs,
           ResumeLookup(w, o, k) \/ ExhaustSubmissions(w, o, k)
    PROVE  MemoryOK' /\ BudgetOK'
<1>1. /\ worker[w].order = o /\ k = Len(attempts[o]) /\ Len(attempts[o]) > 0
      /\ upstream' = upstream
  BY DEF ResumeLookup, ExhaustSubmissions, Resume, At, OrderOf, HasOpen, world
<1>2. k \in 1..Len(attempts[o]) /\ attempts[o][k] \in Attempt
  BY <1>1, BudgetFacts, InvFacts, TypeFacts DEF Seqs
<1>3. PICK a \in Attempt :
         /\ Call(w, k, a) /\ (a.upstream_order_id \/ a.state = "reviewing")
         /\ \/ SetAttempt(o, k, a) /\ a.submit_attempts = attempts[o][k].submit_attempts
            \/ attempts' = attempts
  <2>1. \A x \in Attempt : LET y == [x EXCEPT !.state = "reviewing"]
                           IN  /\ y \in Attempt /\ y.state = "reviewing"
                               /\ y.submit_attempts = x.submit_attempts
    BY DEF Attempt, AttemptStates
  <2>2. CASE ResumeLookup(w, o, k)
    BY <1>2, <2>2 DEF ResumeLookup
  <2>3. CASE ExhaustSubmissions(w, o, k)
    <3>1. LET y == [attempts[o][k] EXCEPT !.state = "reviewing"]
          IN  Call(w, k, y) /\ SetAttempt(o, k, y)
      BY <2>3 DEF ExhaustSubmissions
    <3> QED
      BY <1>2, <2>1, <3>1
  <2> QED
    BY <2>2, <2>3
<1>4. /\ \A v \in Workers : v # w => worker'[v] = worker[v]
      /\ worker'[w].pc = "calling" /\ ~worker'[w].first
      /\ worker'[w].known \/ worker'[w].reviewing
  <2>1. /\ \A v \in Workers : v # w => worker'[v] = worker[v]
        /\ worker'[w].pc = "calling" /\ ~worker'[w].first
        /\ worker'[w].known = a.upstream_order_id
        /\ worker'[w].reviewing = (a.state = "reviewing")
    BY <1>3, BudgetFacts, CallMemory
  <2> QED
    BY <1>3, <2>1
<1>5. MemoryOf(w)' /\ \A p \in Orders, j \in Seqs : ~Payer(w, p, j)'
  BY <1>4 DEF MemoryOf, Payer
<1>6. PayersKept
  BY <1>4, <1>5, BudgetFacts, OneMoves
<1>7. PostsKept
  BY <1>1 DEF PostsKept
<1>8. SubmitsKept
  BY <1>2, <1>3, BudgetFacts, SubmitsStay
<1> QED
  BY <1>6, <1>7, <1>8, NothingSpent

(* All the transactions of a pass. *)
LEMMA TransactionsSpend ==
    ASSUME BudgetInv, NEW w \in Workers, NEW o \in Orders, Transactions(w, o)
    PROVE  MemoryOK' /\ BudgetOK'
<1>1. ASSUME attempts' = attempts, upstream' = upstream, PayersKept
      PROVE  MemoryOK' /\ BudgetOK'
  <2>1. SubmitsKept /\ PostsKept
    BY <1>1 DEF SubmitsKept, PostsKept
  <2> QED
    BY <1>1, <2>1, NothingSpent
<1>2. CASE RequoteLater(w, o) \/ NoAffordableOffer(w, o) \/ NoProviderLeft(w, o)
  <2>1. Leave(w) /\ attempts' = attempts /\ upstream' = upstream
    BY <1>2 DEF RequoteLater, NoAffordableOffer, NoProviderLeft, world
  <2> QED
    BY <1>1, <2>1, BudgetFacts, LeavingPays
<1>3. CASE Claim(w, o)
  <2>1. /\ worker' = [worker EXCEPT ![w] = [Idle EXCEPT !.pc = "claimed", !.order = o]]
        /\ attempts' = attempts /\ upstream' = upstream
    BY <1>3 DEF Claim, world
  <2> QED
    BY <1>1, <2>1, BudgetFacts, LeavingPays
<1>4. CASE StartQuoting(w, o)
  <2>1. attempts' = attempts /\ upstream' = upstream
    BY <1>4 DEF StartQuoting, world
  <2>2. /\ \A v \in Workers : v # w => worker'[v] = worker[v]
        /\ worker'[w].pc = "quoting" /\ worker[w].pc = "claimed"
        /\ worker'[w].known = worker[w].known
        /\ worker'[w].reviewing = worker[w].reviewing
    BY <1>4, BudgetFacts, QuotingMemory
  <2>3. MemoryOf(w)
    BY BudgetFacts DEF MemoryOK
  <2>4. MemoryOf(w)' /\ \A p \in Orders, j \in Seqs : ~Payer(w, p, j)'
    BY <2>2, <2>3 DEF MemoryOf, Payer
  <2>5. PayersKept
    BY <2>2, <2>4, BudgetFacts, OneMoves
  <2> QED
    BY <1>1, <2>1, <2>5
<1>5. ASSUME NEW q \in Providers, StartPurchase(w, o, q) PROVE MemoryOK' /\ BudgetOK'
  BY <1>5, PurchaseSpends
<1>6. ASSUME NEW k \in Seqs, ResumeSubmission(w, o, k) PROVE MemoryOK' /\ BudgetOK'
  BY <1>6, SubmissionSpends
<1>7. ASSUME NEW k \in Seqs, ResumeLookup(w, o, k) \/ ExhaustSubmissions(w, o, k)
      PROVE  MemoryOK' /\ BudgetOK'
  BY <1>7, ResumesSpend
<1>8. ASSUME NEW k \in Seqs,
             \/ ApplySuccess(w, o, k) \/ ApplyFailed(w, o, k) \/ ApplyPending(w, o, k)
             \/ ApplyReviewing(w, o, k) \/ ApplyChanged(w, o, k)
             \/ ErrorRejected(w, o, k) \/ ErrorReview(w, o, k) \/ ErrorRetry(w, o, k)
      PROVE  MemoryOK' /\ BudgetOK'
  BY <1>8, OutcomesSpend
<1> QED
  BY <1>2, <1>3, <1>4, <1>5, <1>6, <1>7, <1>8 DEF Transactions

(* All steps of the calls. *)
LEMMA CallsSpend ==
    ASSUME BudgetInv, NEW w \in Workers, Calls(w)
    PROVE  MemoryOK' /\ BudgetOK'
<1>1. SubmitsKept \/ SendPost(w)
  BY DEF Calls, NeedsReview, LookupFound, LookupMissed, PostNotSent, LookupFailed, PostAnswered,
         PostRejected, PostUnclear, tables, SubmitsKept
<1>2. CASE SendPost(w)
  BY <1>2, SendSpends
<1>3. CASE LookupMissed(w)
  <2>1. /\ At(w, "calling") /\ SubmitsKept /\ PostsKept
        /\ \/ Got(w, "refused")
           \/ /\ ~worker[w].reviewing /\ ~worker[w].known
              /\ worker' = [worker EXCEPT ![w] = [@ EXCEPT !.pc = "posting"]]
    BY <1>3 DEF LookupMissed, tables, world, SubmitsKept, PostsKept
  <2>2. CASE Got(w, "refused")
    BY <2>1, <2>2, BudgetFacts, GettingPays, NothingSpent
  <2>3. CASE /\ ~worker[w].reviewing /\ ~worker[w].known
             /\ worker' = [worker EXCEPT ![w] = [@ EXCEPT !.pc = "posting"]]
    <3>1. /\ \A v \in Workers : v # w => worker'[v] = worker[v]
          /\ worker'[w].pc = "posting" /\ worker'[w].order = worker[w].order
          /\ worker'[w].seq = worker[w].seq
          /\ worker'[w].known = worker[w].known
          /\ worker'[w].reviewing = worker[w].reviewing
      BY <2>3, BudgetFacts, PcMemory
    <3>2. MemoryOf(w)' /\ \A p \in Orders, j \in Seqs : Payer(w, p, j)' => Payer(w, p, j)
      BY <2>1, <2>3, <3>1 DEF MemoryOf, Payer, OrderOf, At
    <3>3. PayersKept
      BY <3>1, <3>2, BudgetFacts, OneMoves
    <3> QED
      BY <2>1, <3>3, NothingSpent
  <2> QED
    BY <2>1, <2>2, <2>3
<1>4. CASE NeedsReview(w) \/ LookupFound(w) \/ PostNotSent(w)
  <2>1. (\E result : Got(w, result)) /\ SubmitsKept /\ PostsKept
    BY <1>4 DEF NeedsReview, LookupFound, PostNotSent, tables, world, SubmitsKept, PostsKept
  <2> QED
    BY <2>1, BudgetFacts, GettingPays, NothingSpent
<1>5. ASSUME NEW result \in Results,
             LookupFailed(w, result) \/ PostAnswered(w, result) \/ PostRejected(w, result)
      PROVE  MemoryOK' /\ BudgetOK'
  <2>1. Got(w, result) /\ SubmitsKept /\ PostsKept
    BY <1>5 DEF LookupFailed, PostAnswered, PostRejected, tables, world, SubmitsKept, PostsKept
  <2> QED
    BY <2>1, BudgetFacts, GettingPays, NothingSpent
<1>6. ASSUME NEW result \in Results, PostUnclear(w, result)
      PROVE  MemoryOK' /\ BudgetOK'
  <2>1. /\ Got(w, result) /\ SubmitsKept /\ worker[w].pc = "waiting"
        /\ SetUpstream(w, Abandoned(TheUpstream(w)))
    BY <1>6 DEF PostUnclear, tables, SubmitsKept, At
  <2>2. PostsKept
    BY <2>1, BudgetFacts, AbandonedPosts
  <2> QED
    BY <2>1, <2>2, BudgetFacts, GettingPays, NothingSpent
<1> QED
  BY <1>2, <1>3, <1>4, <1>5, <1>6 DEF Calls

(* Every step keeps the budget. *)
LEMMA BudgetStep ==
    ASSUME BudgetInv, [Next]_vars
    PROVE  MemoryOK' /\ BudgetOK'
<1>1. ASSUME NEW w \in Workers, NEW o \in Orders, Transactions(w, o) PROVE MemoryOK' /\ BudgetOK'
  BY <1>1, TransactionsSpend
<1>2. ASSUME NEW w \in Workers, Calls(w) PROVE MemoryOK' /\ BudgetOK'
  BY <1>2, CallsSpend
<1>3. ASSUME NEW w \in Workers, LoseLease(w) \/ SkipSettled(w) \/ Crash(w)
      PROVE  MemoryOK' /\ BudgetOK'
  <2>1. Leave(w) /\ SubmitsKept
    BY <1>3 DEF LoseLease, SkipSettled, Crash, tables, SubmitsKept
  <2>2. \/ upstream' = upstream
        \/ worker[w].pc = "waiting" /\ SetUpstream(w, Abandoned(TheUpstream(w)))
    BY <1>3 DEF LoseLease, SkipSettled, Crash, world, At
  <2>3. PostsKept
    BY <2>2, BudgetFacts, AbandonedPosts DEF PostsKept
  <2>4. PayersKept
    BY <2>1, BudgetFacts, LeavingPays
  <2> QED
    BY <2>1, <2>3, <2>4, NothingSpent
<1>4. CASE Environment
  <2>1. SubmitsKept
    <3>1. attempts' = attempts
      BY <1>4 DEF Environment, FallDue, LeaseExpires, PostArrives, StrayLost, Wake,
                  UpstreamProceeds, Restart, tables
    <3> QED
      BY <3>1 DEF SubmitsKept
  <2>2. PostsKept
    BY <1>4, BudgetFacts, EnvironmentPosts
  <2>3. PayersKept
    <3>1. CASE worker' = worker
      BY <3>1, BudgetFacts, NobodyMoves
    <3>2. ASSUME NEW providers \in Configurations, Restart(providers) PROVE PayersKept
      <4>1. \A w \in Workers : worker'[w] = Idle
        BY <3>2 DEF Restart
      <4> QED
        BY <4>1 DEF PayersKept, MemoryOK, MemoryOf, Payer, Idle
    <3> QED
      BY <1>4, <3>1, <3>2 DEF Environment, FallDue, LeaseExpires, PostArrives, StrayLost, Wake,
                              UpstreamProceeds
  <2> QED
    BY <2>1, <2>2, <2>3, NothingSpent
<1>5. CASE UNCHANGED vars \/ \E o \in Orders : UserActions(o)
  <2>1. SubmitsKept /\ PostsKept /\ worker' = worker
    BY <1>5 DEF vars, UserActions, Reserve, Cancel, world, SubmitsKept, PostsKept
  <2> QED
    BY <2>1, BudgetFacts, NobodyMoves, NothingSpent
<1> QED
  BY <1>1, <1>2, <1>3, <1>4, <1>5 DEF Next

(* What is within what was counted is within the limit of the count.       *)
LEMMA WithinBudget ==
    ASSUME NEW p, NEW s, NEW m, p \in Nat, m \in Nat, s \in 1..m, p <= s, s <= m
    PROVE  p <= m
OBVIOUS

(* However often workers crash, are overtaken or try again, no purchase is *)
(* posted more than max_submit_attempts times: every POST was counted in   *)
(* submit_attempts, and committed, before it could leave.                  *)
THEOREM PostsAreBudgeted == Spec => []PostsWithinBudget
<1>1. ProcurementInit => BudgetInv
  <2> SUFFICES ASSUME ProcurementInit PROVE BudgetInv
    OBVIOUS
  <2>1. PurchaseInv
    BY InitSafe
  <2>2. /\ \A w \in Workers : worker[w] = Idle
        /\ \A o \in Orders, k \in Seqs : upstream[o][k].posts = 0
        /\ \A o \in Orders : attempts[o] = <<>>
    BY DEF ProcurementInit, RentalInit, Unknown
  <2>3. MemoryOK /\ \A o \in Orders, k \in Seqs : Payers(o, k) = {}
    BY <2>2 DEF MemoryOK, MemoryOf, Payers, Payer, Idle
  <2>4. \A o \in Orders, k \in Seqs : ~(k <= Len(attempts[o]))
    BY <2>2 DEF Seqs
  <2>5. BudgetOK
    BY <2>2, <2>3, <2>4, FS_EmptySet DEF BudgetOK, PaidFor
  <2> QED
    BY <2>1, <2>3, <2>5 DEF BudgetInv
<1>2. BudgetInv => PostsWithinBudget
  <2> SUFFICES ASSUME BudgetInv, NEW o \in Orders, NEW k \in Seqs
               PROVE  upstream[o][k].posts <= MaxSubmitAttempts
    BY DEF PostsWithinBudget
  <2>1. PaidFor(o, k) /\ upstream[o][k].posts \in Nat /\ k \in Nat \ {0} /\ Len(attempts[o]) \in Nat
    BY BudgetFacts, InvFacts, TypeFacts DEF BudgetOK, Purchase, Seqs
  <2>2. CASE k <= Len(attempts[o])
    <3>1. k \in 1..Len(attempts[o])
      BY <2>1, <2>2
    <3>2. attempts[o][k].submit_attempts \in 1..MaxSubmitAttempts
      BY <3>1, BudgetFacts, InvFacts, TypeFacts DEF Attempt
    <3>3. /\ upstream[o][k].posts + Cardinality(Payers(o, k)) <= attempts[o][k].submit_attempts
          /\ Cardinality(Payers(o, k)) \in Nat
      <4>1. IsFiniteSet(Payers(o, k))
        BY <2>1 DEF PaidFor
      <4> QED
        BY <2>1, <2>2, <4>1, FS_CardinalityType DEF PaidFor
    <3>4. upstream[o][k].posts <= attempts[o][k].submit_attempts
      BY <2>1, <3>2, <3>3, FewerFit
    <3>5. attempts[o][k].submit_attempts <= MaxSubmitAttempts
      BY <3>2
    <3> QED
      BY <2>1, <3>2, <3>4, <3>5, WithinBudget
  <2>3. CASE k > Len(attempts[o])
    BY <2>1, <2>3 DEF PaidFor
  <2> QED
    BY <2>1, <2>2, <2>3
<1>3. BudgetInv /\ [Next]_vars => BudgetInv'
  BY BudgetStep, NextSafe DEF BudgetInv
<1> QED
  BY <1>1, <1>2, <1>3, PTL DEF Spec

-----------------------------------------------------------------------------
(* Part 5.  The escrow.                                                    *)

(* A step moves the money of one order, or its goods.         *)
MoneyStays(o) == orders'[o].wallet_state = orders[o].wallet_state
GoodsStay(o) == Goods(o)' = Goods(o)

GoodsGo(o, from, to) == Goods(o) = from /\ Goods(o)' = to

EscrowStep(o) ==
    \/ MoneyStays(o) /\ GoodsStay(o)
    \/ WalletGoes(o, "none", "held") /\ GoodsStay(o)
    \/ WalletGoes(o, "held", "captured") /\ GoodsGo(o, "delivered", "delivered")
    \/ WalletGoes(o, "held", "released") /\ GoodsGo(o, "none", "none")
    \/ WalletGoes(o, "held", "held") /\ GoodsGo(o, "none", "ordered")
    \/ MoneyStays(o) /\ GoodsGo(o, "ordered", "delivered")
    \/ MoneyStays(o) /\ GoodsGo(o, "ordered", "none")

Escrows == [o \in Orders |-> orders[o].wallet_state]
AllGoods == [o \in Orders |-> Goods(o)]

(* A step that is one for an order, and none for the others, is an escrow step. *)
LEMMA EscrowMoves ==
    ASSUME NEW o \in Orders, EscrowStep(o),
           \A p \in Orders : p # o => MoneyStays(p) /\ GoodsStay(p)
    PROVE  [EscrowOf!Next]_<<Escrows, AllGoods>>
<1>1. ASSUME MoneyStays(o) PROVE Escrows' = Escrows
  BY <1>1 DEF MoneyStays, Escrows
<1>2. ASSUME GoodsStay(o) PROVE AllGoods' = AllGoods
  BY <1>2 DEF GoodsStay, AllGoods
<1>3. ASSUME NEW to, orders'[o].wallet_state = to PROVE Escrows' = [Escrows EXCEPT ![o] = to]
  BY <1>3 DEF MoneyStays, Escrows
<1>4. ASSUME NEW to, Goods(o)' = to PROVE AllGoods' = [AllGoods EXCEPT ![o] = to]
  BY <1>4 DEF GoodsStay, AllGoods
<1>5. Escrows[o] = orders[o].wallet_state /\ AllGoods[o] = Goods(o)
  BY DEF Escrows, AllGoods
<1>6. CASE MoneyStays(o) /\ GoodsStay(o)
  BY <1>1, <1>2, <1>6
<1>7. CASE WalletGoes(o, "none", "held") /\ GoodsStay(o)
  <2>1. EscrowOf!Freeze(o)
    BY <1>2, <1>3, <1>5, <1>7 DEF EscrowOf!Freeze, WalletGoes, Escrows, AllGoods
  <2> QED
    BY <2>1 DEF EscrowOf!Next
<1>8. CASE WalletGoes(o, "held", "captured") /\ GoodsGo(o, "delivered", "delivered")
  <2>1. EscrowOf!Charge(o)
    BY <1>2, <1>3, <1>5, <1>8 DEF EscrowOf!Charge, WalletGoes, GoodsGo, GoodsStay, Escrows, AllGoods
  <2> QED
    BY <2>1 DEF EscrowOf!Next
<1>9. CASE WalletGoes(o, "held", "released") /\ GoodsGo(o, "none", "none")
  <2>1. EscrowOf!Refund(o)
    BY <1>2, <1>3, <1>5, <1>9 DEF EscrowOf!Refund, WalletGoes, GoodsGo, GoodsStay, Escrows, AllGoods
  <2> QED
    BY <2>1 DEF EscrowOf!Next
<1>10. CASE WalletGoes(o, "held", "held") /\ GoodsGo(o, "none", "ordered")
  <2>1. EscrowOf!Buy(o)
    BY <1>1, <1>4, <1>5, <1>10 DEF EscrowOf!Buy, WalletGoes, GoodsGo, MoneyStays, Escrows, AllGoods
  <2> QED
    BY <2>1 DEF EscrowOf!Next
<1>11. CASE MoneyStays(o) /\ GoodsGo(o, "ordered", "delivered")
  <2>1. EscrowOf!Deliver(o)
    BY <1>1, <1>4, <1>5, <1>11 DEF EscrowOf!Deliver, GoodsGo, Escrows, AllGoods
  <2> QED
    BY <2>1 DEF EscrowOf!Next
<1>12. CASE MoneyStays(o) /\ GoodsGo(o, "ordered", "none")
  <2>1. EscrowOf!Fail(o)
    BY <1>1, <1>4, <1>5, <1>12 DEF EscrowOf!Fail, GoodsGo, Escrows, AllGoods
  <2> QED
    BY <2>1 DEF EscrowOf!Next
<1> QED
  BY <1>6, <1>7, <1>8, <1>9, <1>10, <1>11, <1>12 DEF EscrowStep

-----------------------------------------------------------------------------
(* At most one purchase of an order may be delivered, and it is its goods. *)
GoodsOf(o, k) ==
    IF upstream[o][k].state = "success" THEN "delivered"
    ELSE IF MayDeliver(o, k) THEN "ordered" ELSE "none"

Alone(o, k) == \A j \in Seqs : j # k => ~MayDeliver(o, j)

(* If only one purchase may be delivered, the goods are that purchase ... *)
LEMMA AloneGoods ==
    ASSUME NEW o \in Orders, NEW k \in Seqs, Alone(o, k)
    PROVE  Goods(o) = GoodsOf(o, k)
<1>1. \A j \in Seqs : upstream[o][j].state = "success" => MayDeliver(o, j)
  BY DEF MayDeliver
<1>2. \A j \in Seqs : j # k => ~MayDeliver(o, j) /\ upstream[o][j].state # "success"
  BY <1>1 DEF Alone
<1>3. CASE upstream[o][k].state = "success"
  BY <1>1, <1>3 DEF Goods, GoodsOf
<1>4. CASE upstream[o][k].state # "success" /\ MayDeliver(o, k)
  BY <1>2, <1>4 DEF Goods, GoodsOf
<1>5. CASE upstream[o][k].state # "success" /\ ~MayDeliver(o, k)
  BY <1>2, <1>5 DEF Goods, GoodsOf
<1> QED
  BY <1>3, <1>4, <1>5

(* ... after the step as well. *)
LEMMA AloneGoodsNext ==
    ASSUME NEW o \in Orders, NEW k \in Seqs, Alone(o, k)'
    PROVE  Goods(o)' = GoodsOf(o, k)'
<1>1. \A j \in Seqs : upstream'[o][j].state = "success" => MayDeliver(o, j)'
  BY DEF MayDeliver
<1>2. \A j \in Seqs : j # k => ~MayDeliver(o, j)' /\ upstream'[o][j].state # "success"
  BY <1>1 DEF Alone
<1>3. CASE upstream'[o][k].state = "success"
  BY <1>1, <1>3 DEF Goods, GoodsOf
<1>4. CASE upstream'[o][k].state # "success" /\ MayDeliver(o, k)'
  BY <1>2, <1>4 DEF Goods, GoodsOf
<1>5. CASE upstream'[o][k].state # "success" /\ ~MayDeliver(o, k)'
  BY <1>2, <1>5 DEF Goods, GoodsOf
<1> QED
  BY <1>3, <1>4, <1>5

(* Whoever may still post finds the money held and nothing else bought. *)
LEMMA OpenIsAlone ==
    ASSUME PurchaseInv, NEW o \in Orders, NEW k \in Seqs,
           k <= Len(attempts[o]), attempts[o][k].state \notin Concluded
    PROVE  Alone(o, k)
<1>1. k \in 1..Len(attempts[o]) /\ Len(attempts[o]) \in Nat
  BY InvFacts, TypeFacts DEF Seqs
<1>2. k = Len(attempts[o])
  BY <1>1, InvFacts DEF AttemptsOK
<1>3. ASSUME NEW j \in Seqs, j # k, MayDeliver(o, j) PROVE FALSE
  <2>1. j <= Len(attempts[o]) /\ attempts[o][j].state \notin Concluded
    BY <1>3, NothingDelivers
  <2>2. j \in 1..Len(attempts[o]) /\ j < Len(attempts[o])
    BY <1>1, <1>2, <1>3, <2>1 DEF Seqs
  <2> QED
    BY <2>1, <2>2, InvFacts DEF AttemptsOK
<1> QED
  BY <1>3 DEF Alone

(* Whoever may still post for an order is about its only live purchase. *)
LEMMA PosterIsAlone ==
    ASSUME PurchaseInv, NEW w \in Workers, NEW o \in Orders, NEW k \in Seqs,
           Engaged(w, o, k), upstream[o][k].state = "none"
    PROVE  Alone(o, k) /\ orders[o].wallet_state = "held"
<1>1. k \in 1..Len(attempts[o]) /\ Len(attempts[o]) \in Nat /\ Agrees(o, k)
  BY InvFacts, TypeFacts DEF Engaged, PassOK, OrderOf, UpstreamOK
<1>2. k <= Len(attempts[o]) /\ Len(attempts[o]) > 0
  BY <1>1
<1>3. attempts[o][k].state \notin Concluded \cup {"succeeded"}
  BY <1>1, <1>2 DEF Agrees, Concluded
<1>4. Alone(o, k)
  BY <1>2, <1>3, OpenIsAlone
<1>5. k = Len(attempts[o]) /\ orders[o].wallet_state # "released"
  BY <1>1, <1>3, InvFacts DEF AttemptsOK
<1>6. orders[o].wallet_state # "captured"
  BY <1>1, <1>3, <1>5, InvFacts DEF AttemptsOK
<1>7. orders[o].wallet_state # "none"
  BY <1>2, InvFacts DEF StatusOK
<1>8. orders[o].wallet_state \in WalletStates
  BY InvFacts, TypeFacts DEF Order
<1> QED
  BY <1>4, <1>5, <1>6, <1>7, <1>8 DEF WalletStates

-----------------------------------------------------------------------------
(* What may be delivered stays what it was. *)
LEMMA SameGoods ==
    ASSUME NEW o \in Orders,
           \A k \in Seqs :
              /\ upstream'[o][k].state = "success" <=> upstream[o][k].state = "success"
              /\ MayDeliver(o, k)' <=> MayDeliver(o, k)
    PROVE  GoodsStay(o)
<1>1. (\E k \in Seqs : upstream'[o][k].state = "success")
         <=> \E k \in Seqs : upstream[o][k].state = "success"
  OBVIOUS
<1>2. (\A k \in Seqs : ~MayDeliver(o, k)') <=> \A k \in Seqs : ~MayDeliver(o, k)
  OBVIOUS
<1> QED
  BY <1>1, <1>2 DEF GoodsStay, Goods

(* Nobody begins or stops to wait for an answer. *)
LEMMA NobodyWaits ==
    ASSUME upstream' = upstream,
           \A v \in Workers : \/ worker'[v] = worker[v]
                              \/ worker[v].pc # "waiting" /\ worker'[v].pc # "waiting"
    PROVE  \A p \in Orders : GoodsStay(p)
<1>1. \A v \in Workers, p \in Orders, k \in Seqs : WaitsFor(v, p, k)' <=> WaitsFor(v, p, k)
  BY DEF WaitsFor, At, OrderOf
<1>2. \A p \in Orders, k \in Seqs : MayDeliver(p, k)' <=> MayDeliver(p, k)
  BY <1>1 DEF MayDeliver, InFlight
<1> QED
  BY <1>2, SameGoods

(* One purchase changes, and nothing else may be delivered for its order.  *)
LEMMA OneSlot ==
    ASSUME NEW o \in Orders, NEW k \in Seqs, orders' = orders, Alone(o, k),
           \A p \in Orders, j \in Seqs : p # o \/ j # k =>
              /\ upstream'[p][j].state = upstream[p][j].state
              /\ MayDeliver(p, j)' <=> MayDeliver(p, j),
           \/ GoodsOf(o, k)' = GoodsOf(o, k)
           \/ /\ GoodsOf(o, k) = "none" /\ GoodsOf(o, k)' = "ordered"
              /\ orders[o].wallet_state = "held"
           \/ GoodsOf(o, k) = "ordered" /\ GoodsOf(o, k)' \in {"delivered", "none"}
    PROVE  [EscrowOf!Next]_<<Escrows, AllGoods>>
<1>1. Alone(o, k)'
  BY DEF Alone
<1>2. Goods(o) = GoodsOf(o, k) /\ Goods(o)' = GoodsOf(o, k)'
  BY <1>1, AloneGoods, AloneGoodsNext
<1>3. \A p \in Orders : p # o => MoneyStays(p) /\ GoodsStay(p)
  BY SameGoods DEF MoneyStays
<1>4. EscrowStep(o)
  BY <1>2 DEF EscrowStep, MoneyStays, GoodsStay, GoodsGo, WalletGoes
<1> QED
  BY <1>3, <1>4, EscrowMoves

(* A step that moves neither money nor goods stutters. *)
LEMMA AllStay ==
    ASSUME \A p \in Orders : MoneyStays(p) /\ GoodsStay(p)
    PROVE  [EscrowOf!Next]_<<Escrows, AllGoods>>
BY DEF MoneyStays, GoodsStay, Escrows, AllGoods

-----------------------------------------------------------------------------
(* The money moves for one order, while the goods stay. *)
LengthsOK == \A o \in Orders : Len(attempts[o]) \in 0..MaxAttempts

(* What the safety of purchasing says of the money, before the step ... *)
LEMMA InvMoney ==
    PurchaseInv => NoRefundWhileUpstreamMayDeliver /\ ChargedOnlyForDelivery /\ LengthsOK
<1>1. PurchaseInv => LengthsOK
  BY InvFacts, TypeFacts DEF LengthsOK
<1> QED
  BY <1>1, RefundSafe, ChargeEarned

(* ... and after it. *)
LEMMA NextMoney ==
    PurchaseInv' => /\ NoRefundWhileUpstreamMayDeliver'
                    /\ ChargedOnlyForDelivery' /\ LengthsOK'
BY InvMoney, PTL

(* A change of one row is a step of the escrow, as safety leaves it no other. *)
LEMMA MoneyMoves ==
    ASSUME PurchaseInv, [Next]_vars, NEW o \in Orders,
           \A p \in Orders : p # o => orders'[p] = orders[p],
           \A p \in Orders : GoodsStay(p)
    PROVE  [EscrowOf!Next]_<<Escrows, AllGoods>>
<1>1. PurchaseInv' /\ OrderStep(o)
  BY NextSafe, EveryStep
<1>2. NoRefundWhileUpstreamMayDeliver' /\ ChargedOnlyForDelivery' /\ LengthsOK'
  BY <1>1, NextMoney
<1>3. ASSUME orders'[o].wallet_state = "released" PROVE Goods(o)' = "none"
  <2>1. \A k \in Seqs : ~MayDeliver(o, k)'
    BY <1>2, <1>3 DEF NoRefundWhileUpstreamMayDeliver
  <2>2. \A k \in Seqs : upstream'[o][k].state # "success"
    BY <2>1 DEF MayDeliver
  <2> QED
    BY <2>1, <2>2 DEF Goods
<1>4. ASSUME orders'[o].wallet_state = "captured" PROVE Goods(o)' = "delivered"
  <2>1. /\ Len(attempts'[o]) > 0 /\ upstream'[o][Len(attempts'[o])].state = "success"
    BY <1>2, <1>4 DEF ChargedOnlyForDelivery
  <2>2. Len(attempts'[o]) \in Seqs
    BY <1>2, <2>1, ProcurementAssumption DEF LengthsOK, Seqs
  <2> QED
    BY <2>1, <2>2 DEF Goods, MayDeliver
<1>5. EscrowStep(o)
  <2>1. MoneyStays(o) \/ WalletGoes(o, "none", "held") \/ WalletGoes(o, "held", "captured")
           \/ WalletGoes(o, "held", "released")
    BY <1>1 DEF OrderStep, Rests, Opens, Refunds, Buys, Records, Charges, WalletGoes, MoneyStays
  <2>2. CASE WalletGoes(o, "held", "captured")
    BY <1>4, <2>2 DEF EscrowStep, WalletGoes, GoodsGo, GoodsStay
  <2>3. CASE WalletGoes(o, "held", "released")
    BY <1>3, <2>3 DEF EscrowStep, WalletGoes, GoodsGo, GoodsStay
  <2> QED
    BY <2>1, <2>2, <2>3 DEF EscrowStep
<1>6. \A p \in Orders : p # o => MoneyStays(p) /\ GoodsStay(p)
  BY DEF MoneyStays
<1> QED
  BY <1>5, <1>6, EscrowMoves

-----------------------------------------------------------------------------
(* The calls.  At most the caller begins or stops to wait, for its own     *)
(* purchase.                                                               *)
Elsewhere(o, k) ==
    \A p \in Orders, j \in Seqs : p # o \/ j # k =>
        /\ upstream'[p][j].state = upstream[p][j].state
        /\ MayDeliver(p, j)' <=> MayDeliver(p, j)

(* The caller touches its own purchase only. *)
LEMMA CallerElsewhere ==
    ASSUME NEW w \in Workers, NEW o \in Orders, NEW k \in Seqs,
           OrderOf(w) = o, worker[w].seq = k,
           \A v \in Workers : v # w => worker'[v] = worker[v],
           \/ worker'[w].pc # "waiting"
           \/ worker'[w].order = o /\ worker'[w].seq = k,
           \A p \in Orders, j \in Seqs :
              p # o \/ j # k => upstream'[p][j] = upstream[p][j]
    PROVE  Elsewhere(o, k)
<1>1. \A v \in Workers, p \in Orders, j \in Seqs :
         p # o \/ j # k => (WaitsFor(v, p, j)' <=> WaitsFor(v, p, j))
  BY DEF WaitsFor, At, OrderOf
<1> QED
  BY <1>1 DEF Elsewhere, MayDeliver, InFlight

(* If that purchase is as live as before, nothing has moved. *)
LEMMA EverythingStays ==
    ASSUME orders' = orders, NEW o \in Orders, NEW k \in Seqs, Elsewhere(o, k),
           upstream'[o][k].state = "success" <=> upstream[o][k].state = "success",
           MayDeliver(o, k)' <=> MayDeliver(o, k)
    PROVE  [EscrowOf!Next]_<<Escrows, AllGoods>>
<1>1. \A p \in Orders : GoodsStay(p)
  BY SameGoods DEF Elsewhere
<1> QED
  BY <1>1, AllStay DEF MoneyStays

(* A lookup, a review or a POST that stayed home: nobody waits for it.      *)
LEMMA LookupEscrow ==
    ASSUME PurchaseInv, NEW w \in Workers,
           \/ NeedsReview(w) \/ LookupFound(w) \/ LookupMissed(w) \/ PostNotSent(w)
           \/ \E result \in Results : LookupFailed(w, result)
    PROVE  [EscrowOf!Next]_<<Escrows, AllGoods>>
<1>1. /\ worker[w].pc \in {"calling", "posting"}
      /\ orders' = orders /\ upstream' = upstream
  BY DEF NeedsReview, LookupFound, LookupMissed, PostNotSent, LookupFailed, Posts,
         At, tables, world
<1>2. TypeOK
  BY InvFacts
<1>3. \/ \E result : Got(w, result)
      \/ worker' = [worker EXCEPT ![w] = [@ EXCEPT !.pc = "posting"]]
  BY DEF NeedsReview, LookupFound, LookupMissed, PostNotSent, LookupFailed
<1>4. /\ \A v \in Workers : v # w => worker'[v] = worker[v]
      /\ worker'[w].pc \in {"posting", "result"}
  BY <1>2, <1>3, GotMemory, PcMemory
<1>5. \A v \in Workers : \/ worker'[v] = worker[v]
                         \/ worker[v].pc # "waiting" /\ worker'[v].pc # "waiting"
  BY <1>1, <1>4
<1>6. \A p \in Orders : GoodsStay(p)
  BY <1>1, <1>5, NobodyWaits
<1> QED
  BY <1>1, <1>6, AllStay DEF MoneyStays

(* The purchase a step of a worker writes, and no other.                   *)
LEMMA OneRow ==
    ASSUME TypeOK, NEW w \in Workers, NEW o \in Orders, NEW k \in Seqs,
           OrderOf(w) = o, worker[w].seq = k, NEW u \in Purchase, SetUpstream(w, u)
    PROVE  /\ upstream'[o][k] = u
           /\ \A p \in Orders, j \in Seqs :
                 p # o \/ j # k => upstream'[p][j] = upstream[p][j]
BY SetUpstreamStep DEF OrderOf

(* The POST leaves: for a new purchase the goods are ordered.              *)
LEMMA SendEscrow ==
    ASSUME PurchaseInv, NEW w \in Workers, SendPost(w)
    PROVE  [EscrowOf!Next]_<<Escrows, AllGoods>>
<1>1. PICK o \in Orders, k \in Seqs :
         /\ OrderOf(w) = o /\ worker[w].seq = k
         /\ Engaged(w, o, k) /\ upstream[o][k] \in Purchase
         /\ TheUpstream(w) = upstream[o][k]
  BY InvFacts, CallerFacts DEF SendPost, Posts, At, OrderOf, Engaged, TheUpstream
<1>2. TypeOK /\ orders' = orders
  BY InvFacts DEF SendPost, tables
<1>3. /\ \A v \in Workers : v # w => worker'[v] = worker[v]
      /\ worker'[w].pc = "waiting" /\ worker'[w].order = o /\ worker'[w].seq = k
  BY <1>1, <1>2, PcMemory DEF SendPost, OrderOf
<1>4. PICK u \in Purchase :
         /\ u.state = upstream[o][k].state /\ u.stray = upstream[o][k].stray
         /\ SetUpstream(w, u)
  <2>1. \A r \in Purchase : LET v == [r EXCEPT !.posts = @ + 1]
                            IN  v \in Purchase /\ v.state = r.state /\ v.stray = r.stray
    BY DEF Purchase
  <2> QED
    BY <1>1, <2>1 DEF SendPost
<1>5. /\ upstream'[o][k] = u
      /\ \A p \in Orders, j \in Seqs : p # o \/ j # k => upstream'[p][j] = upstream[p][j]
  BY <1>1, <1>2, <1>4, OneRow
<1>6. Elsewhere(o, k)
  BY <1>1, <1>3, <1>5, CallerElsewhere
<1>7. WaitsFor(w, o, k)'
  BY <1>3 DEF WaitsFor, At, OrderOf
<1>8. CASE upstream[o][k].state = "none"
  <2>1. Alone(o, k) /\ orders[o].wallet_state = "held"
    BY <1>1, <1>8, PosterIsAlone
  <2>2. GoodsOf(o, k) \in {"none", "ordered"}
    BY <1>8 DEF GoodsOf
  <2>3. MayDeliver(o, k)' /\ upstream'[o][k].state # "success"
    BY <1>4, <1>5, <1>7, <1>8 DEF MayDeliver, InFlight
  <2>4. GoodsOf(o, k)' = "ordered"
    BY <2>3 DEF GoodsOf
  <2> QED
    BY <1>2, <1>6, <2>1, <2>2, <2>4, OneSlot DEF Elsewhere
<1>9. CASE upstream[o][k].state # "none"
  <2>1. MayDeliver(o, k)' <=> MayDeliver(o, k)
    BY <1>4, <1>5, <1>9 DEF MayDeliver
  <2> QED
    BY <1>2, <1>4, <1>5, <1>6, <2>1, EverythingStays
<1> QED
  BY <1>8, <1>9

(* Giving up a POST changes no outcome. *)
LEMMA AbandonedKeeps ==
    \A u \in Purchase :
        /\ Abandoned(u) \in Purchase /\ Abandoned(u).state = u.state
        /\ Abandoned(u).stray <=> u.stray \/ u.state = "none"
BY DEF Abandoned, Purchase

(* The worker stops to wait, with an answer or without.                    *)
LEMMA AnswerEscrow ==
    ASSUME PurchaseInv, NEW w \in Workers, At(w, "waiting"), orders' = orders,
           \A v \in Workers : v # w => worker'[v] = worker[v],
           worker'[w].pc # "waiting",
           \/ upstream' = upstream
           \/ SetUpstream(w, Abandoned(TheUpstream(w)))
    PROVE  [EscrowOf!Next]_<<Escrows, AllGoods>>
<1>1. PICK o \in Orders, k \in Seqs :
         /\ OrderOf(w) = o /\ worker[w].seq = k
         /\ Engaged(w, o, k) /\ upstream[o][k] \in Purchase
         /\ TheUpstream(w) = upstream[o][k]
  BY InvFacts, CallerFacts DEF At, OrderOf, Engaged, TheUpstream
<1>2. TypeOK
  BY InvFacts
<1>3. WaitsFor(w, o, k)
  BY <1>1 DEF WaitsFor
<1>4. MayDeliver(o, k) <=> upstream[o][k].state # "failed"
  <2>1. upstream[o][k].state \in UpstreamStates
    BY <1>1 DEF Purchase
  <2> QED
    BY <1>3, <2>1 DEF MayDeliver, InFlight, UpstreamStates
<1>5. CASE upstream' = upstream
  <2>1. Elsewhere(o, k)
    BY <1>1, <1>5, CallerElsewhere
  <2>2. CASE upstream[o][k].state = "none"
    <3>1. Alone(o, k) /\ GoodsOf(o, k) = "ordered"
      BY <1>1, <1>4, <2>2, PosterIsAlone DEF GoodsOf
    <3>2. upstream'[o][k].state # "success"
      BY <1>5, <2>2
    <3>3. GoodsOf(o, k)' \in {"ordered", "none"}
      BY <3>2 DEF GoodsOf
    <3> QED
      BY <2>1, <3>1, <3>3, OneSlot DEF Elsewhere
  <2>3. CASE upstream[o][k].state # "none"
    <3>1. MayDeliver(o, k)' <=> MayDeliver(o, k)
      BY <1>5, <2>3 DEF MayDeliver
    <3> QED
      BY <1>5, <2>1, <3>1, EverythingStays
  <2> QED
    BY <2>2, <2>3
<1>6. CASE SetUpstream(w, Abandoned(TheUpstream(w)))
  <2>1. PICK u \in Purchase :
           /\ u.state = upstream[o][k].state
           /\ u.stray <=> upstream[o][k].stray \/ upstream[o][k].state = "none"
           /\ SetUpstream(w, u)
    BY <1>1, <1>6, AbandonedKeeps
  <2>2. /\ upstream'[o][k] = u
        /\ \A p \in Orders, j \in Seqs : p # o \/ j # k => upstream'[p][j] = upstream[p][j]
    BY <1>1, <1>2, <2>1, OneRow
  <2>3. Elsewhere(o, k)
    BY <1>1, <2>2, CallerElsewhere
  <2>4. MayDeliver(o, k)' <=> MayDeliver(o, k)
    BY <1>3, <2>1, <2>2 DEF MayDeliver, InFlight
  <2> QED
    BY <2>1, <2>2, <2>3, <2>4, EverythingStays
<1> QED
  BY <1>5, <1>6

(* All steps of the calls. *)
LEMMA CallsEscrow ==
    ASSUME PurchaseInv, NEW w \in Workers, Calls(w)
    PROVE  [EscrowOf!Next]_<<Escrows, AllGoods>>
<1>1. CASE \/ NeedsReview(w) \/ LookupFound(w) \/ LookupMissed(w) \/ PostNotSent(w)
           \/ \E result \in Results : LookupFailed(w, result)
  BY <1>1, LookupEscrow
<1>2. CASE SendPost(w)
  BY <1>2, SendEscrow
<1>3. ASSUME NEW result \in Results,
             PostAnswered(w, result) \/ PostRejected(w, result) \/ PostUnclear(w, result)
      PROVE  [EscrowOf!Next]_<<Escrows, AllGoods>>
  <2>1. /\ At(w, "waiting") /\ Got(w, result) /\ orders' = orders
        /\ upstream' = upstream \/ SetUpstream(w, Abandoned(TheUpstream(w)))
    BY <1>3 DEF PostAnswered, PostRejected, PostUnclear, tables, world
  <2>2. /\ \A v \in Workers : v # w => worker'[v] = worker[v]
        /\ worker'[w].pc # "waiting"
    BY <2>1, InvFacts, GotMemory
  <2> QED
    BY <2>1, <2>2, AnswerEscrow
<1> QED
  BY <1>1, <1>2, <1>3 DEF Calls

(* A worker is given up: what it waited for stays on the wire.             *)
LEMMA CrashEscrow ==
    ASSUME PurchaseInv, NEW w \in Workers, Crash(w) \/ LoseLease(w)
    PROVE  [EscrowOf!Next]_<<Escrows, AllGoods>>
<1>1. orders' = orders /\ Leave(w)
  BY DEF Crash, LoseLease, tables
<1>2. /\ \A v \in Workers : v # w => worker'[v] = worker[v]
      /\ worker'[w].pc # "waiting"
  BY <1>1, InvFacts, LeaveFacts
<1>3. CASE At(w, "waiting")
  <2>1. upstream' = upstream \/ SetUpstream(w, Abandoned(TheUpstream(w)))
    BY <1>3 DEF Crash, LoseLease, world
  <2> QED
    BY <1>1, <1>2, <1>3, <2>1, AnswerEscrow
<1>4. CASE ~At(w, "waiting")
  <2>1. upstream' = upstream
    BY <1>4 DEF Crash, LoseLease, world
  <2>2. \A v \in Workers : \/ worker'[v] = worker[v]
                           \/ worker[v].pc # "waiting" /\ worker'[v].pc # "waiting"
    BY <1>2, <1>4 DEF At
  <2>3. \A p \in Orders : GoodsStay(p)
    BY <2>1, <2>2, NobodyWaits
  <2> QED
    BY <1>1, <2>3, AllStay DEF MoneyStays
<1> QED
  BY <1>3, <1>4

(* A restart gives up every call: what was on the wire may still arrive. *)
LEMMA RestartEscrow ==
    ASSUME PurchaseInv, NEW providers \in Configurations, Restart(providers)
    PROVE  [EscrowOf!Next]_<<Escrows, AllGoods>>
<1>1. upstream \in [Orders -> [Seqs -> Purchase]] /\ orders' = orders
  BY InvFacts DEF TypeOK, Restart, tables
<1>2. \A v \in Workers : worker'[v].pc = "idle"
  BY DEF Restart, Idle
<1>3. ASSUME NEW p \in Orders, NEW j \in Seqs
      PROVE  /\ upstream'[p][j].state = upstream[p][j].state
             /\ MayDeliver(p, j)' <=> MayDeliver(p, j)
  <2>1. ~\E v \in Workers : WaitsFor(v, p, j)'
    BY <1>2 DEF WaitsFor, At
  <2>2. upstream[p][j] \in Purchase
    BY <1>1
  <2>3. upstream'[p][j] = IF \E v \in Workers : WaitsFor(v, p, j)
                          THEN Abandoned(upstream[p][j]) ELSE upstream[p][j]
    BY DEF Restart
  <2>4. /\ upstream'[p][j].state = upstream[p][j].state
        /\ upstream[p][j].state = "none" =>
             (upstream'[p][j].stray <=> InFlight(p, j))
    BY <2>2, <2>3, AbandonedKeeps DEF InFlight, Purchase
  <2> QED
    BY <2>1, <2>4 DEF MayDeliver, InFlight
<1>4. \A p \in Orders : GoodsStay(p)
  BY <1>3, SameGoods
<1> QED
  BY <1>1, <1>4, AllStay DEF MoneyStays

-----------------------------------------------------------------------------
(* A transaction of a worker writes the row of its own order only, and is  *)
(* neither begun nor ended by a worker that waits.                         *)
LEMMA PassMoves ==
    ASSUME TypeOK, NEW w \in Workers, NEW o \in Orders, Transactions(w, o)
    PROVE  /\ worker[w].pc # "waiting" /\ worker'[w].pc # "waiting"
           /\ \A v \in Workers : v # w => worker'[v] = worker[v]
           /\ upstream' = upstream
           /\ \A p \in Orders : p # o => orders'[p] = orders[p]
<1>1. orders \in [Orders -> Order]
  BY DEF TypeOK
<1>2. ASSUME orders' = orders \/ \E r : SetOrder(o, r)
      PROVE  \A p \in Orders : p # o => orders'[p] = orders[p]
  BY <1>1, <1>2 DEF SetOrder
<1>3. CASE Claim(w, o)
  <2>1. /\ worker' = [worker EXCEPT ![w] = [Idle EXCEPT !.pc = "claimed", !.order = o]]
        /\ upstream' = upstream /\ worker[w].pc # "waiting" /\ \E r : SetOrder(o, r)
    BY <1>3 DEF Claim, At, world
  <2> QED
    BY <1>2, <2>1, IdleMemory
<1>4. CASE StartQuoting(w, o)
  <2>1. upstream' = upstream /\ orders' = orders
    BY <1>4 DEF StartQuoting, world
  <2> QED
    BY <1>2, <1>4, <2>1, QuotingMemory
<1>5. CASE RequoteLater(w, o) \/ NoAffordableOffer(w, o) \/ NoProviderLeft(w, o)
  <2>1. /\ Leave(w) /\ upstream' = upstream /\ worker[w].pc # "waiting"
        /\ \E r : SetOrder(o, r)
    BY <1>5 DEF RequoteLater, NoAffordableOffer, NoProviderLeft, Choosing, At, world
  <2> QED
    BY <1>2, <2>1, IdleMemory
<1>6. ASSUME NEW p \in Providers, StartPurchase(w, o, p)
      PROVE  /\ worker[w].pc # "waiting" /\ worker'[w].pc # "waiting"
             /\ \A v \in Workers : v # w => worker'[v] = worker[v]
             /\ upstream' = upstream
             /\ \A q \in Orders : q # o => orders'[q] = orders[q]
  <2>1. upstream' = upstream /\ \E r : SetOrder(o, r)
    BY <1>6 DEF StartPurchase, world
  <2> QED
    BY <1>2, <1>6, <2>1, PurchaseMemory
<1>7. ASSUME NEW k \in Seqs,
             ResumeLookup(w, o, k) \/ ResumeSubmission(w, o, k) \/ ExhaustSubmissions(w, o, k)
      PROVE  /\ worker[w].pc # "waiting" /\ worker'[w].pc # "waiting"
             /\ \A v \in Workers : v # w => worker'[v] = worker[v]
             /\ upstream' = upstream
             /\ \A q \in Orders : q # o => orders'[q] = orders[q]
  <2>1. /\ \E a : Call(w, k, a)
        /\ worker[w].pc # "waiting" /\ upstream' = upstream /\ orders' = orders
    BY <1>7 DEF ResumeLookup, ResumeSubmission, ExhaustSubmissions, Resume, At, world
  <2>2. /\ worker'[w].pc = "calling"
        /\ \A v \in Workers : v # w => worker'[v] = worker[v]
    BY <2>1 DEF Call, TypeOK, Pass
  <2> QED
    BY <1>2, <2>1, <2>2
<1>8. ASSUME NEW k \in Seqs,
             \/ ApplySuccess(w, o, k) \/ ApplyFailed(w, o, k) \/ ApplyPending(w, o, k)
             \/ ApplyReviewing(w, o, k) \/ ApplyChanged(w, o, k)
             \/ ErrorRejected(w, o, k) \/ ErrorReview(w, o, k) \/ ErrorRetry(w, o, k)
      PROVE  /\ worker[w].pc # "waiting" /\ worker'[w].pc # "waiting"
             /\ \A v \in Workers : v # w => worker'[v] = worker[v]
             /\ upstream' = upstream
             /\ \A q \in Orders : q # o => orders'[q] = orders[q]
  <2>1. /\ \E result : Outcome(w, o, k, result)
        /\ \E r : SetOrder(o, r)
    BY <1>8 DEF ApplySuccess, ApplyFailed, ApplyPending, ApplyReviewing, ApplyChanged,
                ErrorRejected, ErrorReview, ErrorRetry
  <2>2. Leave(w) /\ worker[w].pc # "waiting" /\ upstream' = upstream
    BY <2>1 DEF Outcome, At, world
  <2> QED
    BY <1>2, <2>1, <2>2, IdleMemory
<1> QED
  BY <1>3, <1>4, <1>5, <1>6, <1>7, <1>8 DEF Transactions

(* All transactions of a pass move money at most. *)
LEMMA TransactionsEscrow ==
    ASSUME PurchaseInv, [Next]_vars, NEW w \in Workers, NEW o \in Orders, Transactions(w, o)
    PROVE  [EscrowOf!Next]_<<Escrows, AllGoods>>
<1>1. /\ worker[w].pc # "waiting" /\ worker'[w].pc # "waiting"
      /\ \A v \in Workers : v # w => worker'[v] = worker[v]
      /\ upstream' = upstream
      /\ \A p \in Orders : p # o => orders'[p] = orders[p]
  BY InvFacts, PassMoves
<1>2. \A p \in Orders : GoodsStay(p)
  BY <1>1, NobodyWaits
<1> QED
  BY <1>1, <1>2, MoneyMoves

(* A pass that finds its order settled moves nothing. *)
LEMMA SkipEscrow ==
    ASSUME PurchaseInv, [Next]_vars, NEW w \in Workers, SkipSettled(w)
    PROVE  [EscrowOf!Next]_<<Escrows, AllGoods>>
<1>1. /\ worker[w].pc # "waiting" /\ upstream' = upstream /\ Leave(w)
      /\ OrderOf(w) \in Orders
  BY InvFacts DEF SkipSettled, PassOK, world
<1>2. PICK o \in Orders : OrderOf(w) = o
  BY <1>1
<1>3. \A p \in Orders : p # o => orders'[p] = orders[p]
  BY <1>2, InvFacts DEF SkipSettled, SetOrder, TypeOK
<1>4. /\ \A v \in Workers : v # w => worker'[v] = worker[v]
      /\ worker'[w].pc # "waiting"
  BY <1>1, InvFacts, LeaveFacts
<1>5. \A p \in Orders : GoodsStay(p)
  BY <1>1, <1>4, NobodyWaits
<1> QED
  BY <1>3, <1>5, MoneyMoves

(* A row changes outside of any pass: the user, the clock, a webhook.      *)
LEMMA RowEscrow ==
    ASSUME PurchaseInv, [Next]_vars, NEW o \in Orders,
           \/ UserActions(o) \/ FallDue(o) \/ LeaseExpires(o)
           \/ \E k \in Seqs : Wake(o, k)
    PROVE  [EscrowOf!Next]_<<Escrows, AllGoods>>
<1>1. /\ worker' = worker /\ upstream' = upstream
      /\ \E r : orders' = [orders EXCEPT ![o] = r]
  BY DEF UserActions, Reserve, Cancel, FallDue, LeaseExpires, Wake, SetOrder, world
<1>2. \A p \in Orders : p # o => orders'[p] = orders[p]
  BY <1>1, InvFacts DEF TypeOK
<1>3. \A p \in Orders : GoodsStay(p)
  BY <1>1, NobodyWaits
<1> QED
  BY <1>2, <1>3, MoneyMoves

-----------------------------------------------------------------------------
(* The upstream.  Nobody begins or stops to wait.                          *)
LEMMA MarketElsewhere ==
    ASSUME NEW o \in Orders, NEW k \in Seqs, worker' = worker,
           \A p \in Orders, j \in Seqs :
              p # o \/ j # k => upstream'[p][j] = upstream[p][j]
    PROVE  Elsewhere(o, k) /\ (InFlight(o, k)' <=>
              upstream'[o][k].stray \/ \E w \in Workers : WaitsFor(w, o, k))
<1>1. \A v \in Workers, p \in Orders, j \in Seqs :
         WaitsFor(v, p, j)' <=> WaitsFor(v, p, j)
  BY DEF WaitsFor, At, OrderOf
<1> QED
  BY <1>1 DEF Elsewhere, MayDeliver, InFlight

(* A purchase that may be delivered is the only one of its order. *)
LEMMA DeliverableIsAlone ==
    ASSUME PurchaseInv, NEW o \in Orders, NEW k \in Seqs, MayDeliver(o, k)
    PROVE  Alone(o, k)
BY NothingDelivers, OpenIsAlone

(* A late POST arrives: the goods were ordered already. *)
LEMMA ArrivalEscrow ==
    ASSUME PurchaseInv, NEW o \in Orders, NEW k \in Seqs, PostArrives(o, k)
    PROVE  [EscrowOf!Next]_<<Escrows, AllGoods>>
<1>1. orders' = orders /\ worker' = worker /\ MayDeliver(o, k) /\ upstream[o][k].state = "none"
  BY DEF PostArrives, tables, MayDeliver, InFlight
<1>2. /\ upstream'[o][k].state = "processing"
      /\ \A p \in Orders, j \in Seqs : p # o \/ j # k => upstream'[p][j] = upstream[p][j]
  BY InvFacts, ArriveFacts
<1>3. Elsewhere(o, k) /\ MayDeliver(o, k)'
  BY <1>1, <1>2, MarketElsewhere DEF MayDeliver
<1> QED
  BY <1>1, <1>2, <1>3, EverythingStays

(* A late POST is lost: there may be nothing to deliver any more. *)
LEMMA LossEscrow ==
    ASSUME PurchaseInv, NEW o \in Orders, NEW k \in Seqs, StrayLost(o, k)
    PROVE  [EscrowOf!Next]_<<Escrows, AllGoods>>
<1>1. orders' = orders /\ worker' = worker /\ upstream[o][k].stray
  BY DEF StrayLost, tables
<1>2. /\ upstream'[o][k].state = upstream[o][k].state
      /\ \A p \in Orders, j \in Seqs : p # o \/ j # k => upstream'[p][j] = upstream[p][j]
  BY InvFacts, StrayLostFacts
<1>3. Elsewhere(o, k)
  BY <1>1, <1>2, MarketElsewhere
<1>4. CASE upstream[o][k].state = "none"
  <2>1. MayDeliver(o, k)
    BY <1>1, <1>4 DEF MayDeliver, InFlight
  <2>2. Alone(o, k) /\ GoodsOf(o, k) = "ordered"
    BY <1>4, <2>1, DeliverableIsAlone DEF GoodsOf
  <2>3. upstream'[o][k].state # "success"
    BY <1>2, <1>4
  <2>4. GoodsOf(o, k)' \in {"ordered", "none"}
    BY <2>3 DEF GoodsOf
  <2> QED
    BY <1>1, <1>3, <2>2, <2>4, OneSlot DEF Elsewhere
<1>5. CASE upstream[o][k].state # "none"
  <2>1. MayDeliver(o, k)' <=> MayDeliver(o, k)
    BY <1>2, <1>5 DEF MayDeliver
  <2> QED
    BY <1>1, <1>2, <1>3, <2>1, EverythingStays
<1> QED
  BY <1>4, <1>5

(* The upstream delivers, or gives up, the one live purchase. *)
LEMMA ProgressEscrow ==
    ASSUME PurchaseInv, NEW o \in Orders, NEW k \in Seqs, NEW state \in UpstreamStates,
           UpstreamProceeds(o, k, state)
    PROVE  [EscrowOf!Next]_<<Escrows, AllGoods>>
<1>1. orders' = orders /\ worker' = worker
  BY DEF UpstreamProceeds, tables
<1>2. /\ upstream'[o][k].state = state
      /\ \A p \in Orders, j \in Seqs : p # o \/ j # k => upstream'[p][j] = upstream[p][j]
  BY InvFacts, ProceedsFacts
<1>3. Elsewhere(o, k)
  BY <1>1, <1>2, MarketElsewhere
<1>4. MayDeliver(o, k) /\ upstream[o][k].state # "success"
  BY DEF UpstreamProceeds, MayDeliver
<1>5. Alone(o, k) /\ GoodsOf(o, k) = "ordered"
  BY <1>4, DeliverableIsAlone DEF GoodsOf
<1>6. GoodsOf(o, k)' \in {"delivered", "ordered", "none"}
  BY DEF GoodsOf
<1> QED
  BY <1>1, <1>3, <1>5, <1>6, OneSlot DEF Elsewhere

-----------------------------------------------------------------------------
(* Every step of the worker is a step of the escrow, or none.              *)
LEMMA EscrowStart == ProcurementInit => EscrowOf!Init
<1> SUFFICES ASSUME ProcurementInit PROVE EscrowOf!Init
  OBVIOUS
<1>1. \A o \in Orders : orders[o].wallet_state = "none"
  BY DEF ProcurementInit, RentalInit, NoOrder
<1>2. /\ \A w \in Workers : worker[w].pc = "idle"
      /\ \A o \in Orders, k \in Seqs : upstream[o][k].state = "none" /\ ~upstream[o][k].stray
  BY DEF ProcurementInit, Idle, Unknown
<1>3. \A o \in Orders, k \in Seqs : ~MayDeliver(o, k) /\ upstream[o][k].state # "success"
  BY <1>2 DEF MayDeliver, InFlight, WaitsFor, At
<1>4. \A o \in Orders : Goods(o) = "none"
  BY <1>3 DEF Goods
<1> QED
  BY <1>1, <1>4 DEF EscrowOf!Init

(* Every step of the rental bot is one of the escrow, or none. *)
LEMMA EscrowNext ==
    ASSUME PurchaseInv, [Next]_vars
    PROVE  [EscrowOf!Next]_<<Escrows, AllGoods>>
<1>1. ASSUME NEW o \in Orders, UserActions(o) PROVE [EscrowOf!Next]_<<Escrows, AllGoods>>
  BY <1>1, RowEscrow
<1>2. ASSUME NEW w \in Workers, NEW o \in Orders, Transactions(w, o)
      PROVE  [EscrowOf!Next]_<<Escrows, AllGoods>>
  BY <1>2, TransactionsEscrow
<1>3. ASSUME NEW w \in Workers, Calls(w) \/ LoseLease(w) \/ SkipSettled(w) \/ Crash(w)
      PROVE  [EscrowOf!Next]_<<Escrows, AllGoods>>
  BY <1>3, CallsEscrow, SkipEscrow, CrashEscrow
<1>4. ASSUME Environment PROVE [EscrowOf!Next]_<<Escrows, AllGoods>>
  <2>1. ASSUME NEW o \in Orders, FallDue(o) \/ LeaseExpires(o) \/ \E k \in Seqs : Wake(o, k)
        PROVE  [EscrowOf!Next]_<<Escrows, AllGoods>>
    BY <2>1, RowEscrow
  <2>2. ASSUME NEW o \in Orders, NEW k \in Seqs, PostArrives(o, k) \/ StrayLost(o, k)
        PROVE  [EscrowOf!Next]_<<Escrows, AllGoods>>
    BY <2>2, ArrivalEscrow, LossEscrow
  <2>3. ASSUME NEW o \in Orders, NEW k \in Seqs, NEW state \in UpstreamStates,
               UpstreamProceeds(o, k, state)
        PROVE  [EscrowOf!Next]_<<Escrows, AllGoods>>
    BY <2>3, ProgressEscrow
  <2>4. ASSUME NEW providers \in Configurations, Restart(providers)
        PROVE  [EscrowOf!Next]_<<Escrows, AllGoods>>
    BY <2>4, RestartEscrow
  <2> QED
    BY <1>4, <2>1, <2>2, <2>3, <2>4 DEF Environment
<1>5. CASE UNCHANGED vars
  <2>1. worker' = worker /\ upstream' = upstream /\ orders' = orders
    BY <1>5 DEF vars
  <2>2. \A p \in Orders : GoodsStay(p)
    BY <2>1, NobodyWaits
  <2> QED
    BY <2>1, <2>2, AllStay DEF MoneyStays
<1> QED
  BY <1>1, <1>2, <1>3, <1>4, <1>5 DEF Next

(* Whatever the workers, the upstream and the crashes do: the price is     *)
(* frozen before anything is bought, taken only when the goods have        *)
(* arrived, and given back only when they cannot.                          *)
THEOREM EscrowIsKept == Spec => ImplementsEscrow
<1>1. ProcurementInit => EscrowOf!Init
  BY EscrowStart
<1>2. PurchaseInv /\ [Next]_vars => [EscrowOf!Next]_<<Escrows, AllGoods>>
  BY EscrowNext
<1> QED
  BY <1>1, <1>2, InvariantHolds, PTL
     DEF Spec, ImplementsEscrow, EscrowOf!Spec, Escrows, AllGoods
=============================================================================
