------------------------- MODULE BlockCommitProofs -------------------------
(***************************************************************************)
(* Proofs about BlockCommit: what a block's execution does to the accounts *)
(* and what a chain on disk says about them, whatever the moment of a      *)
(* crash.                                                                  *)
(***************************************************************************)
EXTENDS BlockCommit, SumLemmas

(* Transactions, blocks, pools *)

LEMMA MinPair ==
    ASSUME NEW x \in Int, NEW y \in Int
    PROVE  Min({x, y}) = IF x <= y THEN x ELSE y
<1> DEFINE m == IF x <= y THEN x ELSE y
<1>1. m \in {x, y} /\ \A z \in {x, y} : m <= z
  OBVIOUS
<1>2. \A w \in {x, y} : (\A z \in {x, y} : w <= z) => w = m
  OBVIOUS
<1> HIDE DEF m
<1>3. Min({x, y}) = m
  BY <1>1, <1>2 DEF Min
<1> QED
  BY <1>3 DEF m

LEMMA MaxPair ==
    ASSUME NEW x \in Int, NEW y \in Int
    PROVE  Max({x, y}) = IF x >= y THEN x ELSE y
<1> DEFINE m == IF x >= y THEN x ELSE y
<1>1. m \in {x, y} /\ \A z \in {x, y} : m >= z
  OBVIOUS
<1>2. \A w \in {x, y} : (\A z \in {x, y} : w >= z) => w = m
  OBVIOUS
<1> HIDE DEF m
<1>3. Max({x, y}) = m
  BY <1>1, <1>2 DEF Max
<1> QED
  BY <1>3 DEF m

LEMMA TxFields ==
    ASSUME NEW tx \in Tx
    PROVE  /\ tx.from \in Address /\ tx.to \in Address /\ tx.reverts \in BOOLEAN
           /\ tx.nonce \in Nat /\ tx.tip \in Nat /\ tx.fee \in Nat /\ tx.gas \in Nat
           /\ tx.used \in Nat /\ tx.value \in Nat /\ tx.used <= tx.gas
  BY BlockCommitConstants

LEMMA TimesMonotone ==
    ASSUME NEW a \in Nat, NEW b \in Nat, NEW c \in Nat, NEW d \in Nat, a <= b, c <= d
    PROVE  a * c <= b * d /\ a * c \in Nat /\ b * d \in Nat
<1>1. a * c <= b * c
  OBVIOUS
<1>2. b * c <= b * d
  OBVIOUS
<1>3. a * c \in Nat /\ b * c \in Nat /\ b * d \in Nat
  OBVIOUS
<1> QED
  BY <1>1, <1>2, <1>3

LEMMA TipFacts ==
    ASSUME NEW tx \in Tx, NEW base \in Nat
    PROVE  /\ Tip(tx, base) \in Nat
           /\ base <= tx.fee => base + Tip(tx, base) <= tx.fee
           /\ base > tx.fee => Tip(tx, base) = 0
<1>1. tx.tip \in Nat /\ tx.fee \in Nat
  BY TxFields
<1>2. SatSub(tx.fee, base) \in Nat /\ (base <= tx.fee => SatSub(tx.fee, base) = tx.fee - base)
      /\ (base > tx.fee => SatSub(tx.fee, base) = 0)
  BY <1>1 DEF SatSub
<1>3. Tip(tx, base) = IF tx.tip <= SatSub(tx.fee, base) THEN tx.tip ELSE SatSub(tx.fee, base)
  BY <1>1, <1>2, MinPair DEF Tip
<1> QED
  BY <1>1, <1>2, <1>3

(* The fee a sender pays is what is burnt and what the coinbase gets. *)
LEMMA FeeSplit ==
    ASSUME NEW tx \in Tx, NEW base \in Nat
    PROVE  /\ FeePaid(tx, base) \in Nat /\ Tip(tx, base) * tx.used \in Nat /\ BurntBy(tx, base) \in Nat
           /\ FeePaid(tx, base) <= tx.fee * tx.gas /\ tx.fee * tx.gas \in Nat
           /\ FeePaid(tx, base) = Tip(tx, base) * tx.used + BurntBy(tx, base)
<1> DEFINE u == tx.used
           tip == Tip(tx, base)
           cap == tx.fee * tx.gas
           low == u * base
           all == u * (base + tip)
           got == tip * u
<1>1. u \in Nat /\ tip \in Nat /\ tx.fee \in Nat /\ tx.gas \in Nat /\ u <= tx.gas
  BY TxFields, TipFacts
<1>2. cap \in Nat /\ low \in Nat /\ all \in Nat /\ got \in Nat
  BY <1>1
<1>3. all = low + got
  BY <1>1
<1>4. /\ FeePaid(tx, base) = IF cap <= all THEN cap ELSE all
      /\ BurntBy(tx, base) = IF cap <= low THEN cap ELSE low
  BY <1>2, MinPair DEF FeePaid, BurntBy, EffectivePrice
<1>5. CASE base <= tx.fee
  <2>1. base + tip <= tx.fee /\ base + tip \in Nat
    BY <1>1, <1>5, TipFacts
  <2>2. all <= tx.gas * tx.fee
    BY <1>1, <2>1, TimesMonotone
  <2>3. tx.gas * tx.fee = cap
    BY <1>1
  <2>4. all <= cap
    BY <2>2, <2>3
  <2> HIDE DEF u, tip, cap, low, all, got
  <2>5. FeePaid(tx, base) = all /\ BurntBy(tx, base) = low
    BY <1>2, <1>3, <1>4, <2>4
  <2> QED
    BY <1>2, <1>3, <2>4, <2>5 DEF cap, got, tip, u
<1>6. CASE base > tx.fee
  <2>1. tip = 0
    BY <1>6, TipFacts
  <2>2. all = low /\ got = 0
    BY <1>1, <2>1
  <2> HIDE DEF u, tip, cap, low, all, got
  <2>3. /\ FeePaid(tx, base) = BurntBy(tx, base) /\ FeePaid(tx, base) \in Nat
        /\ FeePaid(tx, base) <= cap /\ got = 0
    BY <1>2, <1>4, <2>2
  <2> QED
    BY <1>2, <2>3 DEF cap, got, tip, u
<1> QED
  BY <1>1, <1>5, <1>6
-----------------------------------------------------------------------------
(* Accounts *)

States == [Address -> Account]
Money(st) == SumFunctionOnSet([a \in Address |-> st[a].balance], Address)

LEMMA AddressFinite == IsFiniteSet(Address)
  BY MempoolConstants

LEMMA MoneyType == ASSUME NEW st \in States PROVE Money(st) \in Nat
<1> DEFINE f == [a \in Address |-> st[a].balance]
<1>1. \A a \in Address : f[a] \in Nat
  BY DEF States, Account
<1> HIDE DEF f
<1>2. SumFunctionOnSet(f, Address) \in Nat
  BY <1>1, AddressFinite, SumNat
<1> QED
  BY <1>2 DEF Money, f

LEMMA MoneyUpdate ==
    ASSUME NEW s \in States, NEW t \in States, NEW a \in Address,
           \A b \in Address \ {a} : t[b].balance = s[b].balance
    PROVE  Money(t) = Money(s) + t[a].balance - s[a].balance
<1> DEFINE f == [b \in Address |-> s[b].balance]
           g == [b \in Address |-> t[b].balance]
<1>1. /\ \A b \in Address : f[b] \in Int /\ g[b] \in Int
      /\ \A b \in Address \ {a} : g[b] = f[b]
      /\ f[a] = s[a].balance /\ g[a] = t[a].balance
  BY DEF States, Account
<1> HIDE DEF f, g
<1>2. SumFunctionOnSet(g, Address) = SumFunctionOnSet(f, Address) + g[a] - f[a]
  BY <1>1, AddressFinite, SumUpdate
<1> QED
  BY <1>1, <1>2 DEF Money, f, g

LEMMA CreditFacts ==
    ASSUME NEW st \in States, NEW a \in Address, NEW amount \in Nat
    PROVE  LET t == Credit(st, a, amount) IN
           /\ t \in States
           /\ \A b \in Address : t[b].nonce = st[b].nonce
           /\ \A b \in Address \ {a} : t[b] = st[b]
           /\ Money(t) = Money(st) + amount
<1> DEFINE r == [st[a] EXCEPT !.balance = @ + amount]
           t == [st EXCEPT ![a] = r]
<1>1. st[a] \in Account /\ st[a].balance \in Nat
  BY DEF States, Account
<1>2. r \in Account /\ r.nonce = st[a].nonce /\ r.balance = st[a].balance + amount
  BY <1>1 DEF Account
<1>3. Credit(st, a, amount) = t
  BY DEF Credit, States
<1> HIDE DEF r
<1>4. t \in States /\ t[a] = r /\ \A b \in Address \ {a} : t[b] = st[b]
  BY <1>2 DEF States
<1> HIDE DEF t
<1>5. Money(t) = Money(st) + t[a].balance - st[a].balance
  BY <1>4, MoneyUpdate
<1>6. Money(t) = Money(st) + amount
  BY <1>1, <1>2, <1>4, <1>5, MoneyType
<1> QED
  BY <1>2, <1>3, <1>4, <1>6

(* The same, with what t is to st as one fact. *)
Credited(st, t, a, amount) ==
    /\ t \in States
    /\ \A b \in Address : t[b].nonce = st[b].nonce
    /\ \A b \in Address \ {a} : t[b] = st[b]
    /\ Money(t) = Money(st) + amount

LEMMA CreditIs ==
    ASSUME NEW st \in States, NEW a \in Address, NEW amount \in Nat
    PROVE  Credited(st, Credit(st, a, amount), a, amount)
  BY CreditFacts DEF Credited

(* One transaction: the sender's nonce moves by one, nobody else's does,   *)
(* who takes no part keeps what he has, only the burnt fee is gone.        *)
LEMMA ApplyTxFacts ==
    ASSUME NEW st \in States, NEW tx \in Tx, Preflight(st, tx), NEW base \in Nat, NEW coinbase \in Address
    PROVE  LET t == ApplyTx(st, tx, base, coinbase) IN
           /\ t \in States
           /\ \A a \in Address : t[a].nonce = IF a = tx.from THEN st[a].nonce + 1 ELSE st[a].nonce
           /\ \A a \in Address :
                (a # tx.from /\ a # coinbase /\ (tx.reverts \/ a # tx.to)) => t[a] = st[a]
           /\ Money(t) + BurntBy(tx, base) = Money(st)
<1> DEFINE from == tx.from
           fee == FeePaid(tx, base)
           tips == Tip(tx, base) * tx.used
           burnt == BurntBy(tx, base)
           r == [nonce |-> st[from].nonce + 1, balance |-> st[from].balance - fee - tx.value]
           paid == [st EXCEPT ![from] = r]
           to == IF tx.reverts THEN from ELSE tx.to
           moved == Credit(paid, to, tx.value)
           t == Credit(moved, coinbase, tips)
<1>1. from \in Address /\ to \in Address /\ tx.value \in Nat /\ tx.reverts \in BOOLEAN
  BY TxFields
<1>2. /\ fee \in Nat /\ tips \in Nat /\ burnt \in Nat /\ fee = tips + burnt
      /\ fee <= tx.fee * tx.gas /\ tx.fee * tx.gas \in Nat
  BY FeeSplit
<1>3. st[from] \in Account /\ st[from].balance \in Nat /\ st[from].nonce \in Nat
  BY <1>1 DEF States, Account
<1>4. tx.fee * tx.gas + tx.value <= st[from].balance
  BY DEF Preflight, SlotCost
<1>5. r \in Account /\ r.nonce = st[from].nonce + 1 /\ r.balance = st[from].balance - fee - tx.value
  <2> HIDE DEF fee
  <2>1. st[from].balance - fee - tx.value \in Nat
    BY <1>1, <1>2, <1>3, <1>4
  <2> QED
    BY <1>3, <2>1 DEF Account
<1>6. ApplyTx(st, tx, base, coinbase) = t
  <2> HIDE DEF fee
  <2>1. [st EXCEPT ![from].balance = @ - fee - tx.value, ![from].nonce = @ + 1] = paid
    BY <1>1, <1>3 DEF States, Account
  <2> QED
    BY <2>1, Zenon DEF ApplyTx, fee
<1> HIDE DEF r, fee, tips, burnt
<1>7. paid \in States /\ paid[from] = r /\ \A a \in Address \ {from} : paid[a] = st[a]
  BY <1>1, <1>5 DEF States
<1> HIDE DEF paid, to
<1>8. Money(paid) = Money(st) + r.balance - st[from].balance
  BY <1>1, <1>7, MoneyUpdate
<1>9. /\ moved \in States /\ \A a \in Address : moved[a].nonce = paid[a].nonce
      /\ \A a \in Address \ {to} : moved[a] = paid[a]
      /\ Money(moved) = Money(paid) + tx.value
  <2>1. paid \in States /\ to \in Address /\ tx.value \in Nat
    BY <1>1, <1>7
  <2>2. Credited(paid, moved, to, tx.value)
    BY <2>1, CreditIs
  <2> HIDE DEF moved
  <2> QED
    BY <2>2 DEF Credited
<1> HIDE DEF moved
<1>10. /\ t \in States /\ \A a \in Address : t[a].nonce = moved[a].nonce
       /\ \A a \in Address \ {coinbase} : t[a] = moved[a]
       /\ Money(t) = Money(moved) + tips
  BY <1>2, <1>9, CreditFacts
<1> HIDE DEF t
<1>11. Money(t) + burnt = Money(st)
  <2>1. Money(st) \in Nat /\ Money(paid) \in Nat /\ Money(moved) \in Nat /\ Money(t) \in Nat
    BY <1>7, <1>9, <1>10, MoneyType
  <2> QED
    BY <1>1, <1>2, <1>3, <1>5, <1>8, <1>9, <1>10, <2>1
<1>12. \A a \in Address : t[a].nonce = IF a = from THEN st[a].nonce + 1 ELSE st[a].nonce
  BY <1>5, <1>7, <1>9, <1>10
<1>13. \A a \in Address : (a # from /\ a # coinbase /\ (tx.reverts \/ a # tx.to)) => t[a] = st[a]
  BY <1>1, <1>7, <1>9, <1>10 DEF to
<1> QED
  BY <1>6, <1>10, <1>11, <1>12, <1>13 DEF burnt
-----------------------------------------------------------------------------
(* The transactions of a block, one after the other *)

Results == [ok : BOOLEAN, view : States]
BodyOK(b) == b.txs \in Seq(Tx) /\ b.base_fee \in Nat /\ b.coinbase \in Address

RunValue(g, st, b, n) ==
    IF n = 0 THEN [ok |-> TRUE, view |-> st]
    ELSE ExecuteTx(g[n - 1], b.txs[n], b.base_fee, b.coinbase)
IsRun(g, st, b) == g = [n \in 0..Len(b.txs) |-> RunValue(g, st, b, n)]
RunOf(st, b) == CHOOSE g : IsRun(g, st, b)

Burns(b) == [i \in DOMAIN b.txs |-> BurntBy(b.txs[i], b.base_fee)]
Takers(b, i) == {b.txs[i].from} \cup (IF b.txs[i].reverts THEN {} ELSE {b.txs[i].to})

(* What the first n transactions of a block amount to. *)
Prefix(view, st, b, n) ==
    /\ \A a \in Address : st[a].nonce <= view[a].nonce
    /\ \A i \in 1..n : /\ st[b.txs[i].from].nonce <= b.txs[i].nonce
                       /\ b.txs[i].nonce < view[b.txs[i].from].nonce
    /\ \A i, j \in 1..n : i < j /\ b.txs[i].from = b.txs[j].from => b.txs[i].nonce < b.txs[j].nonce
    /\ \A a \in Address : (a # b.coinbase /\ \A i \in 1..n : a \notin Takers(b, i)) => view[a] = st[a]
    /\ Money(view) + SumFunctionOnSet(Burns(b), 1..n) = Money(st)

LEMMA ExecuteTxFacts ==
    ASSUME NEW r \in Results, NEW tx \in Tx, NEW base \in Nat, NEW coinbase \in Address
    PROVE  LET q == ExecuteTx(r, tx, base, coinbase) IN
           /\ q \in Results
           /\ q.ok => r.ok /\ Preflight(r.view, tx) /\ q.view = ApplyTx(r.view, tx, base, coinbase)
<1>1. r.ok \in BOOLEAN /\ r.view \in States
  BY DEF Results
<1>2. CASE r.ok /\ Preflight(r.view, tx)
  <2>1. ApplyTx(r.view, tx, base, coinbase) \in States
    BY <1>1, <1>2, ApplyTxFacts
  <2>2. ExecuteTx(r, tx, base, coinbase)
            = [ok |-> TRUE, view |-> ApplyTx(r.view, tx, base, coinbase)]
    BY <1>2 DEF ExecuteTx
  <2> QED
    BY <1>2, <2>1, <2>2 DEF Results
<1>3. CASE ~ (r.ok /\ Preflight(r.view, tx))
  <2>1. ExecuteTx(r, tx, base, coinbase) = [ok |-> FALSE, view |-> r.view]
    BY <1>3 DEF ExecuteTx
  <2> QED
    BY <1>1, <2>1 DEF Results
<1> QED
  BY <1>2, <1>3

LEMMA RunExists ==
    ASSUME NEW st \in States, NEW b, BodyOK(b)
    PROVE  IsRun(RunOf(st, b), st, b)
<1> DEFINE m == Len(b.txs)
           first == [ok |-> TRUE, view |-> st]
           step == [p \in (1..m) \X Results |-> ExecuteTx(p[2], b.txs[p[1]], b.base_fee, b.coinbase)]
<1>1. m \in Nat /\ \A n \in 1..m : b.txs[n] \in Tx
  BY DEF BodyOK
<1>2. first \in Results
  BY DEF Results
<1>3. step \in [(1..m) \X Results -> Results]
  <2>1. \A n \in 1..m, r \in Results : ExecuteTx(r, b.txs[n], b.base_fee, b.coinbase) \in Results
    BY <1>1, ExecuteTxFacts DEF BodyOK
  <2> QED
    BY <2>1
<1>4. \A n \in 1..m, r \in Results :
        step[<<n, r>>] = ExecuteTx(r, b.txs[n], b.base_fee, b.coinbase)
  OBVIOUS
<1> HIDE DEF step, first, m
<1>5. PICK g : IsRecursion(g, m, Results, first, step)
  BY <1>1, <1>2, <1>3, RecursionExists
<1>6. \A n \in 0..m : g[n] = RunValue(g, st, b, n)
  <2> TAKE n \in 0..m
  <2>1. CASE n = 0
    BY <1>5, <2>1 DEF RunValue, first, IsRecursion
  <2>2. CASE n # 0
    <3>1. n \in 1..m /\ n - 1 \in 0..m
      BY <1>1, <2>2
    <3>2. g[n - 1] \in Results /\ g[n] = step[<<n, g[n - 1]>>]
      BY <1>5, <3>1 DEF IsRecursion
    <3> QED
      BY <1>4, <2>2, <3>1, <3>2 DEF RunValue
  <2> QED
    BY <2>1, <2>2
<1>7. g = [n \in 0..m |-> RunValue(g, st, b, n)]
  BY <1>5, <1>6 DEF IsRecursion
<1>8. IsRun(g, st, b)
  BY <1>7 DEF IsRun, m
<1> QED
  BY <1>8, Zenon DEF RunOf

LEMMA RunIs ==
    ASSUME NEW st, NEW b PROVE ExecuteTxs(st, b) = RunOf(st, b)[Len(b.txs)]
  BY Zenon DEF ExecuteTxs, RunOf, IsRun, RunValue

LEMMA RunStep ==
    ASSUME NEW g, NEW st, NEW b, IsRun(g, st, b), NEW n \in 0..Len(b.txs)
    PROVE  g[n] = RunValue(g, st, b, n)
<1> DEFINE h == [i \in 0..Len(b.txs) |-> RunValue(g, st, b, i)]
<1>1. g = h
  BY DEF IsRun
<1>2. h[n] = RunValue(g, st, b, n)
  OBVIOUS
<1> HIDE DEF h
<1> QED
  BY <1>1, <1>2

LEMMA BurnsType ==
    ASSUME NEW b, BodyOK(b)
    PROVE  /\ Len(b.txs) \in Nat /\ DOMAIN b.txs = 1..Len(b.txs)
           /\ \A i \in 1..Len(b.txs) : b.txs[i] \in Tx /\ Burns(b)[i] \in Nat
                                        /\ Burns(b)[i] = BurntBy(b.txs[i], b.base_fee)
<1>1. /\ Len(b.txs) \in Nat /\ DOMAIN b.txs = 1..Len(b.txs)
      /\ \A i \in 1..Len(b.txs) : b.txs[i] \in Tx
  BY DEF BodyOK
<1>2. \A i \in 1..Len(b.txs) : BurntBy(b.txs[i], b.base_fee) \in Nat
  BY <1>1, FeeSplit DEF BodyOK
<1> QED
  BY <1>1, <1>2 DEF Burns

LEMMA PrefixStep ==
    ASSUME NEW st \in States, NEW b, BodyOK(b), NEW n \in 1..Len(b.txs), NEW view \in States,
           Prefix(view, st, b, n - 1), Preflight(view, b.txs[n])
    PROVE  Prefix(ApplyTx(view, b.txs[n], b.base_fee, b.coinbase), st, b, n)
<1> DEFINE tx == b.txs[n]
           t == ApplyTx(view, tx, b.base_fee, b.coinbase)
<1>1. /\ tx \in Tx /\ b.base_fee \in Nat /\ b.coinbase \in Address /\ n \in Nat
      /\ \A i \in 1..n : b.txs[i] \in Tx
  BY BurnsType DEF BodyOK
<1>2. /\ t \in States
      /\ \A a \in Address : t[a].nonce = IF a = tx.from THEN view[a].nonce + 1 ELSE view[a].nonce
      /\ \A a \in Address :
            (a # tx.from /\ a # b.coinbase /\ (tx.reverts \/ a # tx.to)) => t[a] = view[a]
      /\ Money(t) + BurntBy(tx, b.base_fee) = Money(view)
  BY <1>1, ApplyTxFacts
<1>3. tx.from \in Address /\ tx.nonce = view[tx.from].nonce /\ tx.reverts \in BOOLEAN
  BY <1>1, TxFields DEF Preflight
<1>4. \A a \in Address : view[a].nonce \in Nat /\ st[a].nonce \in Nat
  BY DEF States, Account
<1>5. \A i \in 1..n : b.txs[i].from \in Address /\ b.txs[i].nonce \in Nat
  BY <1>1, TxFields
<1>6. \A i \in 1..n : i \in 1..(n - 1) \/ i = n
  OBVIOUS
<1> HIDE DEF t
<1>7. \A a \in Address : st[a].nonce <= t[a].nonce
  BY <1>2, <1>4 DEF Prefix
<1>8. \A i \in 1..n : /\ st[b.txs[i].from].nonce <= b.txs[i].nonce
                      /\ b.txs[i].nonce < t[b.txs[i].from].nonce
  <2> TAKE i \in 1..n
  <2>1. CASE i = n
    BY <1>2, <1>3, <1>4, <2>1 DEF Prefix
  <2>2. CASE i \in 1..(n - 1)
    <3> DEFINE a == b.txs[i].from
               k == b.txs[i].nonce
    <3>1. a \in Address /\ k \in Nat /\ view[a].nonce \in Nat
      BY <1>4, <1>5
    <3>2. st[a].nonce <= k /\ k < view[a].nonce
      BY <2>2 DEF Prefix
    <3>3. t[a].nonce = view[a].nonce \/ t[a].nonce = view[a].nonce + 1
      BY <1>2, <3>1
    <3> HIDE DEF a, k
    <3>4. st[a].nonce <= k /\ k < t[a].nonce
      BY <3>1, <3>2, <3>3
    <3> QED
      BY <3>4 DEF a, k
  <2> QED
    BY <1>6, <2>1, <2>2
<1>9. ASSUME NEW i \in 1..n, NEW j \in 1..n, i < j, b.txs[i].from = b.txs[j].from
      PROVE  b.txs[i].nonce < b.txs[j].nonce
  <2>1. i \in 1..(n - 1)
    BY <1>9
  <2>2. CASE j = n
    BY <1>3, <1>9, <2>1, <2>2 DEF Prefix
  <2>3. CASE j \in 1..(n - 1)
    BY <1>9, <2>1, <2>3 DEF Prefix
  <2> QED
    BY <1>6, <2>2, <2>3
<1>10. ASSUME NEW a \in Address, a # b.coinbase, \A i \in 1..n : a \notin Takers(b, i)
       PROVE  t[a] = st[a]
  <2>1. \A i \in 1..(n - 1) : a \notin Takers(b, i)
    BY <1>10
  <2>2. view[a] = st[a]
    BY <1>10, <2>1 DEF Prefix
  <2>3. a \notin Takers(b, n)
    BY <1>10
  <2>4. a # tx.from /\ (tx.reverts \/ a # tx.to)
    BY <1>3, <2>3 DEF Takers
  <2> QED
    BY <1>2, <1>10, <2>2, <2>4
<1>11. Money(t) + SumFunctionOnSet(Burns(b), 1..n) = Money(st)
  <2> DEFINE f == Burns(b)
             S == 1..(n - 1)
  <2>1. \A i \in 1..n : f[i] \in Nat
    BY BurnsType
  <2>2. IsFiniteSet(S) /\ n \notin S /\ S \cup {n} = 1..n
    <3>1. n - 1 \in Int /\ 1 \in Int
      BY <1>1
    <3>2. IsFiniteSet(S)
      BY <3>1, FS_Interval
    <3>3. n \notin S /\ S \cup {n} = 1..n
      BY <1>1
    <3> QED
      BY <3>2, <3>3
  <2>3. f[n] = BurntBy(tx, b.base_fee) /\ f[n] \in Nat
    BY BurnsType
  <2>4. Money(view) + SumFunctionOnSet(f, S) = Money(st)
    BY DEF Prefix
  <2>5. Money(view) \in Nat /\ Money(t) \in Nat /\ Money(st) \in Nat
    BY <1>2, MoneyType
  <2> HIDE DEF f, S
  <2>6. \A x \in S \cup {n} : f[x] \in Int
    BY <2>1, <2>2
  <2>7. SumFunctionOnSet(f, S \cup {n}) = f[n] + SumFunctionOnSet(f, S)
    BY <2>2, <2>6, SumAdd
  <2>8. SumFunctionOnSet(f, S) \in Int
    BY <2>2, <2>6, SumInt
  <2>9. SumFunctionOnSet(f, 1..n) = f[n] + SumFunctionOnSet(f, S)
    BY <2>2, <2>7, Zenon
  <2>10. Money(t) + SumFunctionOnSet(f, 1..n) = Money(st)
    BY <1>2, <2>3, <2>4, <2>5, <2>8, <2>9
  <2> QED
    BY <2>10 DEF f
<1> QED
  BY <1>7, <1>8, <1>9, <1>10, <1>11 DEF Prefix, t

LEMMA PrefixEmpty ==
    ASSUME NEW st \in States, NEW b PROVE Prefix(st, st, b, 0)
<1>1. SumFunctionOnSet(Burns(b), 1..0) = 0
  <2>1. 1..0 = {}
    OBVIOUS
  <2> QED
    BY <2>1, SumEmpty, Zenon
<1>2. Money(st) \in Nat /\ \A a \in Address : st[a].nonce \in Nat
  BY MoneyType DEF States, Account
<1> QED
  BY <1>1, <1>2 DEF Prefix

(* What the execution of a block's transactions leaves. *)
LEMMA ExecuteFacts ==
    ASSUME NEW st \in States, NEW b, BodyOK(b)
    PROVE  LET r == ExecuteTxs(st, b) IN
           r \in Results /\ (r.ok => Prefix(r.view, st, b, Len(b.txs)))
<1> DEFINE g == RunOf(st, b)
           m == Len(b.txs)
           Good == {n \in 0..m : g[n] \in Results /\ (g[n].ok => Prefix(g[n].view, st, b, n))}
<1>1. IsRun(g, st, b) /\ m \in Nat
  BY RunExists, BurnsType
<1>2. \A n \in 0..m : g[n] = RunValue(g, st, b, n)
  BY <1>1, RunStep
<1> HIDE DEF g
<1>3. 0 \in Good
  <2>0. 0 \in 0..m
    BY <1>1
  <2>1. g[0] = [ok |-> TRUE, view |-> st]
    <3>1. g[0] = RunValue(g, st, b, 0)
      BY <1>2, <2>0
    <3> QED
      BY <3>1 DEF RunValue
  <2>2. g[0] \in Results /\ g[0].view = st
    BY <2>1 DEF Results
  <2>3. Prefix(g[0].view, st, b, 0)
    BY <2>2, PrefixEmpty
  <2> QED
    BY <2>0, <2>2, <2>3
<1>4. ASSUME NEW n \in 1..m, n - 1 \in Good PROVE n \in Good
  <2> DEFINE r == g[n - 1]
             tx == b.txs[n]
  <2>1. r \in Results /\ r.view \in States /\ (r.ok => Prefix(r.view, st, b, n - 1))
    BY <1>4 DEF Results
  <2>2. tx \in Tx /\ b.base_fee \in Nat /\ b.coinbase \in Address /\ n \in 0..m /\ n # 0
    BY <1>1, <1>4, BurnsType DEF BodyOK
  <2>3. g[n] = ExecuteTx(r, tx, b.base_fee, b.coinbase)
    BY <1>2, <2>2 DEF RunValue
  <2> HIDE DEF r, tx
  <2>4. g[n] \in Results
    BY <2>1, <2>2, <2>3, ExecuteTxFacts
  <2>5. ASSUME g[n].ok PROVE Prefix(g[n].view, st, b, n)
    <3>1. r.ok /\ Preflight(r.view, tx) /\ g[n].view = ApplyTx(r.view, tx, b.base_fee, b.coinbase)
      BY <2>1, <2>2, <2>3, <2>5, ExecuteTxFacts
    <3>2. Prefix(ApplyTx(r.view, tx, b.base_fee, b.coinbase), st, b, n)
      BY <1>4, <2>1, <3>1, PrefixStep DEF tx
    <3> QED
      BY <3>1, <3>2
  <2> QED
    BY <2>2, <2>4, <2>5
<1> HIDE DEF Good
<1>5. \A n \in 0..m : n \in Good
  BY <1>1, <1>3, <1>4, IntervalInduction
<1>6. g[m] \in Results /\ (g[m].ok => Prefix(g[m].view, st, b, m))
  <2>1. m \in Good
    BY <1>1, <1>5
  <2> QED
    BY <2>1 DEF Good
<1> QED
  BY <1>6, RunIs DEF g
-----------------------------------------------------------------------------
(* The pool *)

PoolOK(p) ==
    /\ p = [pending |-> p.pending, queued |-> p.queued, known |-> p.known,
            on_chain |-> p.on_chain, pending_max |-> p.pending_max, base_fee |-> p.base_fee]
    /\ IsFiniteSet(p.pending) /\ IsFiniteSet(p.queued)
    /\ \A s \in p.pending : s.tx \in Tx
    /\ p.queued \subseteq Tx
    /\ p.pending_max \in [Address -> Int]

TrackedAt(p, a) ==
    p.pending_max[a] # NoNonce =>
        \E s \in p.pending : s.tx.from = a /\ s.tx.nonce = p.pending_max[a]
Tracked(p) == \A a \in Address : TrackedAt(p, a)

LEMMA MaxIn ==
    ASSUME NEW S \in SUBSET Int, IsFiniteSet(S), S # {}
    PROVE  Max(S) \in S /\ \A x \in S : Max(S) >= x
<1>1. \E m \in S : \A x \in S : m >= x
  BY FiniteMax
<1> QED
  BY <1>1, Zenon DEF Max

LEMMA EmptyPoolOK == PoolOK(EmptyPool) /\ Tracked(EmptyPool)
<1>1. EmptyPool = [pending |-> {}, queued |-> {}, known |-> {}, on_chain |-> EmptyPool.on_chain,
                   pending_max |-> [a \in Address |-> NoNonce], base_fee |-> GenesisBaseFee]
  BY DEF EmptyPool
<1>2. /\ EmptyPool.pending = {} /\ EmptyPool.queued = {} /\ EmptyPool.known = {}
      /\ EmptyPool.pending_max = [a \in Address |-> NoNonce]
      /\ EmptyPool.base_fee = GenesisBaseFee
  BY DEF EmptyPool
<1>3. NoNonce \in Int
  BY DEF NoNonce
<1> QED
  BY <1>1, <1>2, <1>3, FS_EmptySet DEF PoolOK, Tracked, TrackedAt

LEMMA SetOnChainFacts ==
    ASSUME NEW p, PoolOK(p), NEW nonces
    PROVE  LET q == SetOnChain(p, nonces) IN
           /\ PoolOK(q) /\ q.pending = p.pending /\ q.queued = p.queued
           /\ \A a \in Address : q.pending_max[a] =
                 IF a \in DOMAIN nonces /\ p.pending_max[a] <= nonces[a] THEN NoNonce
                 ELSE p.pending_max[a]
<1> DEFINE q == SetOnChain(p, nonces)
           oc == [a \in Address |-> IF a \in DOMAIN nonces THEN nonces[a] ELSE p.on_chain[a]]
           pm == [a \in Address |-> IF a \in DOMAIN nonces /\ p.pending_max[a] <= nonces[a]
                                    THEN NoNonce ELSE p.pending_max[a]]
<1>1. q = [pending |-> p.pending, queued |-> p.queued, known |-> p.known, on_chain |-> oc,
           pending_max |-> pm, base_fee |-> p.base_fee]
  <2>1. q = [p EXCEPT !.on_chain = oc, !.pending_max = pm]
    BY DEF SetOnChain
  <2> HIDE DEF oc, pm, q
  <2> QED
    BY <2>1 DEF PoolOK
<1>2. pm \in [Address -> Int]
  BY DEF PoolOK, NoNonce
<1>3. \A a \in Address : pm[a] =
                 IF a \in DOMAIN nonces /\ p.pending_max[a] <= nonces[a] THEN NoNonce
                 ELSE p.pending_max[a]
  OBVIOUS
<1> HIDE DEF oc, pm, q
<1>4. /\ q.pending = p.pending /\ q.queued = p.queued /\ q.known = p.known /\ q.on_chain = oc
      /\ q.pending_max = pm /\ q.base_fee = p.base_fee
  BY <1>1
<1>5. PoolOK(q)
  BY <1>1, <1>2, <1>4 DEF PoolOK
<1> QED
  BY <1>3, <1>4, <1>5 DEF q

(* What is promoted is pending afterwards, and its last nonce is recorded. *)
LEMMA PromoteFacts ==
    ASSUME NEW p, PoolOK(p), Tracked(p), NEW senders
    PROVE  LET q == PromoteQueued(p, senders) IN PoolOK(q) /\ Tracked(q)
<1> DEFINE q == PromoteQueued(p, senders)
           up == UNION {Promotable(p, a) : a \in senders}
           pend == {s \in p.pending : ~ \E t \in up : SameKey(t, s.tx)} \cup {Slot(p, t) : t \in up}
           of(a) == {t.nonce : t \in {r \in up : r.from = a}}
           pm == [a \in Address |-> IF \E t \in up : t.from = a THEN Max(of(a)) ELSE p.pending_max[a]]
<1>1. up \subseteq p.queued /\ IsFiniteSet(up) /\ up \subseteq Tx
  <2>1. up \subseteq p.queued
    BY DEF Promotable
  <2> HIDE DEF up
  <2> QED
    BY <2>1, FS_Subset DEF PoolOK
<1>2. q = [pending |-> pend, queued |-> p.queued \ up, known |-> p.known, on_chain |-> p.on_chain,
           pending_max |-> pm, base_fee |-> p.base_fee]
  <2>1. q = [p EXCEPT !.queued = p.queued \ up, !.pending = pend, !.pending_max = pm]
    BY DEF PromoteQueued, PoolOK
  <2> HIDE DEF up, pend, pm, q
  <2> QED
    BY <2>1 DEF PoolOK
<1> HIDE DEF up
<1>3. IsFiniteSet(pend) /\ \A s \in pend : s.tx \in Tx
  <2> DEFINE kept == {s \in p.pending : ~ \E t \in up : SameKey(t, s.tx)}
             new == {Slot(p, t) : t \in up}
  <2>1. IsFiniteSet(kept)
    BY FS_Subset DEF PoolOK
  <2>2. IsFiniteSet(new)
    <3> DEFINE f == [t \in up |-> Slot(p, t)]
    <3>1. new = {f[t] : t \in up}
      OBVIOUS
    <3> HIDE DEF f, new
    <3> QED
      BY <1>1, <3>1, ImageFinite
  <2>3. \A t \in up : Slot(p, t).tx = t
    BY DEF Slot
  <2>4. \A s \in pend : s.tx \in Tx
    BY <1>1, <2>3 DEF PoolOK
  <2>5. IsFiniteSet(kept \cup new)
    <3> HIDE DEF kept, new
    <3> QED
      BY <2>1, <2>2, FS_Union
  <2> QED
    BY <2>4, <2>5
<1>4. ASSUME NEW a \in Address, NEW t \in up, t.from = a
      PROVE  Max(of(a)) \in of(a) /\ of(a) \subseteq Nat
  <2>1. of(a) \subseteq Nat
    BY <1>1, TxFields
  <2>2. IsFiniteSet({r \in up : r.from = a})
    BY <1>1, FS_Subset
  <2>3. IsFiniteSet(of(a))
    <3> DEFINE R == {r \in up : r.from = a}
               f == [r \in R |-> r.nonce]
               N == of(a)
    <3>1. N = {f[r] : r \in R}
      OBVIOUS
    <3> HIDE DEF f, N
    <3>2. IsFiniteSet(N)
      BY <2>2, <3>1, ImageFinite
    <3> QED
      BY <3>2 DEF N
  <2>4. of(a) # {}
    BY <1>4
  <2> DEFINE S == of(a)
  <2> HIDE DEF S
  <2>5. S \in SUBSET Int /\ IsFiniteSet(S) /\ S # {}
    BY <2>1, <2>3, <2>4 DEF S
  <2>6. Max(S) \in S
    BY <2>5, MaxIn
  <2> QED
    BY <2>1, <2>6 DEF S
<1>5. pm \in [Address -> Int]
  <2>1. ASSUME NEW a \in Address PROVE pm[a] \in Int
    <3>1. CASE \E t \in up : t.from = a
      <4>1. Max(of(a)) \in of(a) /\ of(a) \subseteq Nat
        BY <1>4, <3>1
      <4>2. pm[a] = Max(of(a))
        BY <3>1
      <4> HIDE DEF of
      <4> QED
        BY <4>1, <4>2
    <3>2. CASE ~ \E t \in up : t.from = a
      BY <3>2 DEF PoolOK
    <3> QED
      BY <3>1, <3>2
  <2>2. pm = [a \in Address |-> pm[a]]
    OBVIOUS
  <2> HIDE DEF pm
  <2> QED
    BY <2>1, <2>2
<1>6. ASSUME NEW a \in Address
      PROVE  pm[a] # NoNonce => \E s \in pend : s.tx.from = a /\ s.tx.nonce = pm[a]
  <2>1. CASE \E t \in up : t.from = a
    <3>1. Max(of(a)) \in of(a) /\ pm[a] = Max(of(a))
      BY <1>4, <2>1
    <3>2. PICK t \in up : t.from = a /\ t.nonce = Max(of(a))
      BY <3>1
    <3>3. Slot(p, t) \in pend /\ Slot(p, t).tx = t
      BY <3>2 DEF Slot
    <3> QED
      BY <3>1, <3>2, <3>3
  <2>2. CASE ~ \E t \in up : t.from = a
    <3>1. pm[a] = p.pending_max[a]
      BY <2>2
    <3>2. \A s \in p.pending : s.tx.from = a => s \in pend
      BY <2>2 DEF SameKey
    <3> QED
      BY <3>1, <3>2 DEF Tracked, TrackedAt
  <2> QED
    BY <2>1, <2>2
<1>7. IsFiniteSet(p.queued \ up) /\ p.queued \ up \subseteq Tx
  BY FS_Subset DEF PoolOK
<1> HIDE DEF pend, pm, q
<1>8. /\ q.pending = pend /\ q.queued = p.queued \ up /\ q.known = p.known
      /\ q.on_chain = p.on_chain /\ q.pending_max = pm /\ q.base_fee = p.base_fee
  BY <1>2
<1>9. PoolOK(q)
  BY <1>2, <1>3, <1>5, <1>7, <1>8 DEF PoolOK
<1>10. Tracked(q)
  BY <1>6, <1>8 DEF Tracked, TrackedAt
<1> QED
  BY <1>9, <1>10 DEF q

LEMMA PutPendingFacts ==
    ASSUME NEW p, PoolOK(p), Tracked(p), NEW tx \in Tx, tx.nonce = NextNonce(p, tx.from)
    PROVE  LET q == PutPending(p, tx) IN PoolOK(q) /\ Tracked(q)
<1> DEFINE a == tx.from
           n == tx.nonce
           q == PutPending(p, tx)
           pend == (p.pending \ PendingAt(p, tx)) \cup {Slot(p, tx)}
           m == Max({p.pending_max[a], n, 0})
           pm == [p.pending_max EXCEPT ![a] = m]
<1>1. a \in Address /\ n \in Nat /\ p.pending_max[a] \in Int
  BY TxFields DEF PoolOK
<1>2. m = n
  <2> DEFINE x == p.pending_max[a]
             S == {x, n, 0}
  <2>1. x <= n
    <3>1. CASE x = NoNonce
      BY <1>1, <3>1 DEF NoNonce
    <3>2. CASE x # NoNonce
      BY <1>1, <3>2 DEF NextNonce
    <3> QED
      BY <3>1, <3>2
  <2> HIDE DEF x, n
  <2>2. n \in S /\ (\A z \in S : n >= z)
    BY <1>1, <2>1 DEF x
  <2>3. \A w \in S : (\A z \in S : w >= z) => w = n
    BY <1>1, <2>1 DEF x
  <2> HIDE DEF S
  <2>4. Max(S) = n
    BY <2>2, <2>3 DEF Max
  <2> QED
    BY <2>4 DEF S, x
<1>3. q = [pending |-> pend, queued |-> p.queued, known |-> p.known, on_chain |-> p.on_chain,
           pending_max |-> pm, base_fee |-> p.base_fee]
  <2> DEFINE r == RecordPending(p, a, n)
  <2>1. r = [p EXCEPT !.pending_max = pm]
    BY DEF RecordPending, PoolOK
  <2> HIDE DEF pm, r
  <2>2. r = [pending |-> p.pending, queued |-> p.queued, known |-> p.known, on_chain |-> p.on_chain,
             pending_max |-> pm, base_fee |-> p.base_fee]
    BY <2>1 DEF PoolOK
  <2>3. q = [r EXCEPT !.pending = (r.pending \ PendingAt(p, tx)) \cup {Slot(p, tx)}]
    BY DEF PutPending, r
  <2>4. r.pending = p.pending
    BY <2>2
  <2> HIDE DEF q
  <2> QED
    BY <2>2, <2>3, <2>4
<1>4. Slot(p, tx).tx = tx
  BY DEF Slot
<1>5. IsFiniteSet(pend) /\ \A s \in pend : s.tx \in Tx
  <2>1. IsFiniteSet(p.pending \ PendingAt(p, tx))
    BY FS_Subset DEF PoolOK
  <2>2. IsFiniteSet(pend)
    BY <2>1, FS_AddElement
  <2> QED
    BY <1>4, <2>2 DEF PoolOK
<1>6. pm \in [Address -> Int] /\ pm[a] = n /\ \A b \in Address \ {a} : pm[b] = p.pending_max[b]
  <2> HIDE DEF m
  <2> QED
    BY <1>1, <1>2 DEF PoolOK
<1>7. ASSUME NEW b \in Address, pm[b] # NoNonce
      PROVE  \E s \in pend : s.tx.from = b /\ s.tx.nonce = pm[b]
  <2>1. CASE b = a
    <3>1. Slot(p, tx) \in pend
      OBVIOUS
    <3> QED
      BY <1>4, <1>6, <2>1, <3>1
  <2>2. CASE b # a
    <3>1. PICK s \in p.pending : s.tx.from = b /\ s.tx.nonce = p.pending_max[b]
      BY <1>6, <1>7, <2>2 DEF Tracked, TrackedAt
    <3>2. s \in pend
      BY <2>2, <3>1 DEF PendingAt, SameKey
    <3> QED
      BY <1>6, <2>2, <3>1, <3>2
  <2> QED
    BY <2>1, <2>2
<1> HIDE DEF pend, pm, q
<1>8. /\ q.pending = pend /\ q.queued = p.queued /\ q.known = p.known
      /\ q.on_chain = p.on_chain /\ q.pending_max = pm /\ q.base_fee = p.base_fee
  BY <1>3
<1>9. PoolOK(q)
  BY <1>3, <1>5, <1>6, <1>8 DEF PoolOK
<1>10. Tracked(q)
  BY <1>7, <1>8 DEF Tracked, TrackedAt
<1> QED
  BY <1>9, <1>10 DEF q

LEMMA InsertFacts ==
    ASSUME NEW p, PoolOK(p), Tracked(p), NEW tx \in Tx
    PROVE  PoolOK(Insert(p, tx)) /\ Tracked(Insert(p, tx))
<1> DEFINE k == (p.known \ ({s.tx.id : s \in PendingAt(p, tx)} \cup {t.id : t \in QueuedAt(p, tx)}))
                \cup {tx.id}
           q == [p EXCEPT !.known = k]
<1>1. q = [pending |-> p.pending, queued |-> p.queued, known |-> k, on_chain |-> p.on_chain,
           pending_max |-> p.pending_max, base_fee |-> p.base_fee]
  <2> HIDE DEF k
  <2> QED
    BY DEF PoolOK
<1>2. Insert(p, tx) = IF tx.nonce = NextNonce(p, tx.from)
                      THEN PromoteQueued(PutPending(q, tx), {tx.from})
                      ELSE [q EXCEPT !.queued = (q.queued \ QueuedAt(p, tx)) \cup {tx}]
  BY DEF Insert
<1> HIDE DEF k, q
<1>3. /\ q.pending = p.pending /\ q.queued = p.queued /\ q.known = k
      /\ q.on_chain = p.on_chain /\ q.pending_max = p.pending_max /\ q.base_fee = p.base_fee
  BY <1>1
<1>4. PoolOK(q) /\ Tracked(q)
  BY <1>1, <1>3 DEF PoolOK, Tracked, TrackedAt
<1>5. CASE tx.nonce = NextNonce(p, tx.from)
  <2>1. tx.nonce = NextNonce(q, tx.from)
    BY <1>3, <1>5 DEF NextNonce
  <2>2. PoolOK(PutPending(q, tx)) /\ Tracked(PutPending(q, tx))
    BY <1>4, <2>1, PutPendingFacts
  <2> DEFINE r == PutPending(q, tx)
  <2> HIDE DEF r
  <2>3. PoolOK(PromoteQueued(r, {tx.from})) /\ Tracked(PromoteQueued(r, {tx.from}))
    BY <2>2, PromoteFacts DEF r
  <2> QED
    BY <1>2, <1>5, <2>3 DEF r
<1>6. CASE tx.nonce # NextNonce(p, tx.from)
  <2> DEFINE qd == (q.queued \ QueuedAt(p, tx)) \cup {tx}
             r == [q EXCEPT !.queued = qd]
  <2>1. IsFiniteSet(qd) /\ qd \subseteq Tx
    <3>1. IsFiniteSet(q.queued \ QueuedAt(p, tx))
      BY <1>4, FS_Subset DEF PoolOK
    <3>2. IsFiniteSet(qd)
      BY <3>1, FS_AddElement
    <3> QED
      BY <1>4, <3>2 DEF PoolOK
  <2>2. Insert(p, tx) = r
    BY <1>2, <1>6
  <2> HIDE DEF qd
  <2>3. r = [pending |-> p.pending, queued |-> qd, known |-> k, on_chain |-> p.on_chain,
             pending_max |-> p.pending_max, base_fee |-> p.base_fee]
    BY <1>1
  <2> HIDE DEF r
  <2>4. /\ r.pending = p.pending /\ r.queued = qd /\ r.known = k
        /\ r.on_chain = p.on_chain /\ r.pending_max = p.pending_max /\ r.base_fee = p.base_fee
    BY <2>3
  <2>5. PoolOK(r) /\ Tracked(r)
    BY <2>1, <2>3, <2>4 DEF PoolOK, Tracked, TrackedAt
  <2> QED
    BY <2>2, <2>5
<1> QED
  BY <1>5, <1>6

LEMMA AddFacts ==
    ASSUME NEW p, PoolOK(p), Tracked(p), NEW tx \in Tx, NEW balance, NEW nonce
    PROVE  LET q == AddTransaction(p, tx, balance, nonce) IN PoolOK(q) /\ Tracked(q)
<1> DEFINE nonces == [a \in {tx.from} |-> nonce]
           q == SetOnChain(p, nonces)
<1> HIDE DEF nonces
<1>1. /\ PoolOK(q) /\ q.pending = p.pending
      /\ \A a \in Address : q.pending_max[a] = NoNonce \/ q.pending_max[a] = p.pending_max[a]
  BY SetOnChainFacts
<1>2. AddTransaction(p, tx, balance, nonce) \in {p, q, Insert(q, tx)}
  BY DEF AddTransaction, nonces
<1> HIDE DEF q
<1>3. Tracked(q)
  BY <1>1 DEF Tracked, TrackedAt
<1>4. PoolOK(Insert(q, tx)) /\ Tracked(Insert(q, tx))
  BY <1>1, <1>3, InsertFacts
<1> QED
  BY <1>1, <1>2, <1>3, <1>4

(* A block is confirmed: what stays pending of a sender is recorded if it  *)
(* is past the sender's last confirmed nonce.                              *)
LEMMA ConfirmFacts ==
    ASSUME NEW p, PoolOK(p), Tracked(p), NEW txs \in SUBSET Tx, IsFiniteSet(txs)
    PROVE  PoolOK(RemoveConfirmed(p, txs)) /\ Tracked(RemoveConfirmed(p, txs))
<1> DEFINE pend == {s \in p.pending : ~ \E tx \in txs : SameKey(s.tx, tx)}
           qd == {t \in p.queued : ~ \E tx \in txs : SameKey(t, tx)}
           k == p.known \ {tx.id : tx \in txs}
           q == [p EXCEPT !.pending = pend, !.queued = qd, !.known = k]
           last == LastConfirmed(txs)
           r == SetOnChain(q, last)
           senders == {tx.from : tx \in txs}
<1>1. q = [pending |-> pend, queued |-> qd, known |-> k, on_chain |-> p.on_chain,
           pending_max |-> p.pending_max, base_fee |-> p.base_fee]
  <2> DEFINE r1 == [p EXCEPT !.pending = pend]
             r2 == [r1 EXCEPT !.queued = qd]
             r3 == [r2 EXCEPT !.known = k]
  <2>1. q = r3
    BY DEF PoolOK
  <2> HIDE DEF pend, qd, k, q
  <2>2. r1 = [pending |-> pend, queued |-> p.queued, known |-> p.known, on_chain |-> p.on_chain,
              pending_max |-> p.pending_max, base_fee |-> p.base_fee]
    BY DEF PoolOK
  <2> HIDE DEF r1
  <2>3. r2 = [pending |-> pend, queued |-> qd, known |-> p.known, on_chain |-> p.on_chain,
              pending_max |-> p.pending_max, base_fee |-> p.base_fee]
    BY <2>2
  <2> HIDE DEF r2
  <2> QED
    BY <2>1, <2>3
<1>2. RemoveConfirmed(p, txs) = PromoteQueued(r, senders)
  BY Zenon DEF RemoveConfirmed
<1>3. IsFiniteSet(pend) /\ IsFiniteSet(qd) /\ qd \subseteq Tx /\ \A s \in pend : s.tx \in Tx
  BY FS_Subset DEF PoolOK
<1>4. ASSUME NEW tx \in txs
      PROVE  tx.from \in DOMAIN last /\ tx.nonce \in Nat /\ last[tx.from] \in Nat /\ tx.nonce < last[tx.from]
  <2> DEFINE a == tx.from
             R == {t \in txs : t.from = a}
             S == {t.nonce : t \in R}
             f == [t \in R |-> t.nonce]
  <2>1. last[a] = Max(S) + 1 /\ a \in DOMAIN last
    BY DEF LastConfirmed
  <2>2. IsFiniteSet(R)
    BY FS_Subset
  <2>3. S = {f[t] : t \in R} /\ S \subseteq Nat /\ tx.nonce \in S
    BY TxFields
  <2> HIDE DEF R, f, S
  <2>4. IsFiniteSet(S)
    BY <2>2, <2>3, ImageFinite
  <2>5. Max(S) \in S /\ \A x \in S : Max(S) >= x
    BY <2>3, <2>4, MaxIn
  <2>6. Max(S) \in Nat /\ tx.nonce \in Nat /\ tx.nonce <= Max(S)
    BY <2>3, <2>5
  <2> HIDE DEF a, last
  <2>7. last[a] \in Nat /\ tx.nonce < last[a]
    BY <2>1, <2>6
  <2> QED
    BY <2>1, <2>6, <2>7 DEF a
<1>5. ASSUME NEW s \in p.pending, s \notin pend
      PROVE  s.tx.from \in DOMAIN last /\ s.tx.nonce \in Nat /\ last[s.tx.from] \in Nat
             /\ s.tx.nonce < last[s.tx.from]
  <2>1. PICK tx \in txs : SameKey(s.tx, tx)
    BY <1>5
  <2> QED
    BY <1>4, <2>1 DEF SameKey
<1> HIDE DEF q, pend, qd, k, last
<1>6. /\ q.pending = pend /\ q.queued = qd /\ q.known = k
      /\ q.on_chain = p.on_chain /\ q.pending_max = p.pending_max /\ q.base_fee = p.base_fee
  BY <1>1
<1>7. PoolOK(q)
  BY <1>1, <1>3, <1>6 DEF PoolOK
<1>8. /\ PoolOK(r) /\ r.pending = q.pending
      /\ \A a \in Address : r.pending_max[a] =
            IF a \in DOMAIN last /\ q.pending_max[a] <= last[a] THEN NoNonce ELSE q.pending_max[a]
  BY <1>7, SetOnChainFacts
<1> HIDE DEF r
<1>9. ASSUME NEW a \in Address, r.pending_max[a] # NoNonce
      PROVE  \E s \in r.pending : s.tx.from = a /\ s.tx.nonce = r.pending_max[a]
  <2>1. /\ r.pending_max[a] = p.pending_max[a] /\ p.pending_max[a] # NoNonce
        /\ ~ (a \in DOMAIN last /\ p.pending_max[a] <= last[a])
    BY <1>6, <1>8, <1>9
  <2>2. PICK s \in p.pending : s.tx.from = a /\ s.tx.nonce = p.pending_max[a]
    BY <2>1 DEF Tracked, TrackedAt
  <2>3. s \in pend
    <3> SUFFICES ASSUME s \notin pend PROVE FALSE
      OBVIOUS
    <3>1. /\ a \in DOMAIN last /\ p.pending_max[a] \in Nat /\ last[a] \in Nat
          /\ p.pending_max[a] < last[a]
      BY <1>5, <2>2
    <3> QED
      BY <2>1, <3>1
  <2> QED
    BY <1>6, <1>8, <2>1, <2>2, <2>3
<1>10. Tracked(r)
  BY <1>9 DEF Tracked, TrackedAt
<1>11. PoolOK(PromoteQueued(r, senders)) /\ Tracked(PromoteQueued(r, senders))
  <2> HIDE DEF senders
  <2> QED
    BY <1>8, <1>10, PromoteFacts
<1> QED
  BY <1>2, <1>11

LEMMA BaseFeeFacts ==
    ASSUME NEW p, PoolOK(p), Tracked(p), NEW fee
    PROVE  PoolOK(UpdateBaseFee(p, fee)) /\ Tracked(UpdateBaseFee(p, fee))
<1> DEFINE q == UpdateBaseFee(p, fee)
<1>1. q = [pending |-> p.pending, queued |-> p.queued, known |-> p.known, on_chain |-> p.on_chain,
           pending_max |-> p.pending_max, base_fee |-> fee]
  BY DEF UpdateBaseFee, PoolOK
<1> HIDE DEF q
<1>2. /\ q.pending = p.pending /\ q.queued = p.queued /\ q.known = p.known
      /\ q.on_chain = p.on_chain /\ q.pending_max = p.pending_max /\ q.base_fee = fee
  BY <1>1
<1>3. PoolOK(q) /\ Tracked(q)
  BY <1>1, <1>2 DEF PoolOK, Tracked, TrackedAt
<1> QED
  BY <1>3 DEF q
-----------------------------------------------------------------------------
(* The candidate *)

FitSteps(o, g) == g = [n \in 0..Len(o) |->
    IF n = 0 THEN [gas |-> 0, txs |-> <<>>] ELSE TakeFitting(g[n - 1], o[n].tx)]
FitOf(o) == CHOOSE g : FitSteps(o, g)

LEMMA FittingTyped ==
    ASSUME NEW o, Len(o) \in Nat, \A n \in 1..Len(o) : o[n].tx \in Tx
    PROVE  Fitting(o) \in Seq(Tx)
<1> DEFINE m == Len(o)
           V == [gas : Nat, txs : Seq(Tx)]
           first == [gas |-> 0, txs |-> <<>>]
           step == [p \in (1..m) \X V |-> TakeFitting(p[2], o[p[1]].tx)]
<1>1. first \in V
  OBVIOUS
<1>2. \A n \in 1..m, r \in V : TakeFitting(r, o[n].tx) \in V
  <2> TAKE n \in 1..m, r \in V
  <2> DEFINE tx == o[n].tx
  <2>1. tx \in Tx /\ tx.gas \in Nat /\ r.gas \in Nat /\ r.txs \in Seq(Tx)
    BY TxFields
  <2> HIDE DEF tx
  <2>2. Append(r.txs, tx) \in Seq(Tx) /\ r.gas + tx.gas \in Nat
    BY <2>1
  <2>3. TakeFitting(r, tx) \in V
    BY <2>2 DEF TakeFitting
  <2> QED
    BY <2>3 DEF tx
<1>3. step \in [(1..m) \X V -> V] /\ \A n \in 1..m, r \in V : step[<<n, r>>] = TakeFitting(r, o[n].tx)
  BY <1>2
<1> HIDE DEF step, first, V, m
<1>4. PICK g : IsRecursion(g, m, V, first, step)
  BY <1>1, <1>3, RecursionExists DEF m
<1>5. FitSteps(o, g)
  <2>1. \A n \in 0..m : g[n] = IF n = 0 THEN first ELSE TakeFitting(g[n - 1], o[n].tx)
    <3> TAKE n \in 0..m
    <3>1. CASE n = 0
      BY <1>4, <3>1 DEF IsRecursion
    <3>2. CASE n # 0
      <4>1. n \in 1..m /\ n - 1 \in 0..m
        BY <3>2 DEF m
      <4>2. g[n - 1] \in V /\ g[n] = step[<<n, g[n - 1]>>]
        BY <1>4, <4>1 DEF IsRecursion
      <4> QED
        BY <1>3, <3>2, <4>1, <4>2
    <3> QED
      BY <3>1, <3>2
  <2>2. g = [n \in 0..m |-> IF n = 0 THEN first ELSE TakeFitting(g[n - 1], o[n].tx)]
    BY <1>4, <2>1 DEF IsRecursion
  <2> QED
    BY <2>2, Zenon DEF FitSteps, m, first
<1> DEFINE h == FitOf(o)
<1>6. FitSteps(o, h)
  BY <1>5, Zenon DEF FitOf
<1> HIDE DEF h
<1>7. \A n \in 0..m : h[n] = IF n = 0 THEN first ELSE TakeFitting(h[n - 1], o[n].tx)
  <2> DEFINE k == [n \in 0..m |-> IF n = 0 THEN first ELSE TakeFitting(h[n - 1], o[n].tx)]
  <2>1. h = k
    BY <1>6, Zenon DEF FitSteps, m, first
  <2>2. \A n \in 0..m : k[n] = IF n = 0 THEN first ELSE TakeFitting(h[n - 1], o[n].tx)
    OBVIOUS
  <2> HIDE DEF k
  <2> QED
    BY <2>1, <2>2
<1> DEFINE Good == {n \in 0..m : h[n] \in V}
<1>8. m \in Nat /\ 0 \in 0..m
  BY DEF m
<1>9. 0 \in Good
  BY <1>1, <1>7, <1>8
<1>10. ASSUME NEW n \in 1..m, n - 1 \in Good PROVE n \in Good
  <2>1. n \in 0..m /\ n # 0 /\ h[n - 1] \in V
    BY <1>8, <1>10
  <2>2. TakeFitting(h[n - 1], o[n].tx) \in V
    BY <1>2, <2>1
  <2> QED
    BY <1>7, <2>1, <2>2
<1> HIDE DEF Good
<1>11. \A n \in 0..m : n \in Good
  BY <1>8, <1>9, <1>10, IntervalInduction
<1>12. h[m].txs \in Seq(Tx)
  <2>1. h[m] \in V
    BY <1>8, <1>11 DEF Good
  <2> QED
    BY <2>1 DEF V
<1>13. Fitting(o) = h[m].txs
  BY Zenon DEF Fitting, h, FitOf, FitSteps, m
<1> QED
  BY <1>12, <1>13

SortSteps(s, g) == g = [n \in 0..Len(s) |-> IF n = 0 THEN <<>> ELSE InsertSorted(g[n - 1], s[n])]
SortOf(s) == CHOOSE g : SortSteps(s, g)

LEMMA InsertTyped ==
    ASSUME NEW s \in Seq(Tx), NEW tx \in Tx PROVE InsertSorted(s, tx) \in Seq(Tx)
<1> DEFINE S == {0} \cup {i \in DOMAIN s : ~ Before(tx, s[i])}
           k == Max(S)
<1>1. Len(s) \in Nat /\ DOMAIN s = 1..Len(s) /\ \A i \in 1..Len(s) : s[i] \in Tx
  OBVIOUS
<1>2. S \subseteq 0..Len(s) /\ 0 \in S
  BY <1>1
<1> HIDE DEF S
<1>3. IsFiniteSet(S)
  <2>1. IsFiniteSet(0..Len(s))
    BY <1>1, FS_Interval
  <2> QED
    BY <1>2, <2>1, FS_Subset
<1>4. S \in SUBSET Int /\ S # {}
  BY <1>1, <1>2
<1>5. k \in 0..Len(s)
  BY <1>2, <1>3, <1>4, MaxIn
<1> HIDE DEF k
<1>6. SubSeq(s, 1, k) \in Seq(Tx) /\ SubSeq(s, k + 1, Len(s)) \in Seq(Tx)
  BY <1>1, <1>5
<1>7. <<tx>> \in Seq(Tx)
  OBVIOUS
<1>8. SubSeq(s, 1, k) \o <<tx>> \o SubSeq(s, k + 1, Len(s)) \in Seq(Tx)
  BY <1>6, <1>7
<1> QED
  BY <1>8 DEF InsertSorted, k, S

LEMMA SortTyped ==
    ASSUME NEW s \in Seq(Tx) PROVE SortCandidate(s) \in Seq(Tx)
<1> DEFINE m == Len(s)
           V == Seq(Tx)
           step == [p \in (1..m) \X V |-> InsertSorted(p[2], s[p[1]])]
<1>1. <<>> \in V /\ m \in Nat /\ 0 \in 0..m
  OBVIOUS
<1>2. \A n \in 1..m, r \in V : InsertSorted(r, s[n]) \in V
  BY InsertTyped
<1>3. step \in [(1..m) \X V -> V] /\ \A n \in 1..m, r \in V : step[<<n, r>>] = InsertSorted(r, s[n])
  BY <1>2
<1> HIDE DEF step, V, m
<1>4. PICK g : IsRecursion(g, m, V, <<>>, step)
  BY <1>1, <1>3, RecursionExists
<1>5. SortSteps(s, g)
  <2>1. \A n \in 0..m : g[n] = IF n = 0 THEN <<>> ELSE InsertSorted(g[n - 1], s[n])
    <3> TAKE n \in 0..m
    <3>1. CASE n = 0
      BY <1>4, <3>1 DEF IsRecursion
    <3>2. CASE n # 0
      <4>1. n \in 1..m /\ n - 1 \in 0..m
        BY <1>1, <3>2
      <4>2. g[n - 1] \in V /\ g[n] = step[<<n, g[n - 1]>>]
        BY <1>4, <4>1 DEF IsRecursion
      <4> QED
        BY <1>3, <3>2, <4>1, <4>2
    <3> QED
      BY <3>1, <3>2
  <2>2. g = [n \in 0..m |-> IF n = 0 THEN <<>> ELSE InsertSorted(g[n - 1], s[n])]
    BY <1>4, <2>1 DEF IsRecursion
  <2> QED
    BY <2>2, Zenon DEF SortSteps, m
<1> DEFINE h == SortOf(s)
<1>6. SortSteps(s, h)
  BY <1>5, Zenon DEF SortOf
<1> HIDE DEF h
<1>7. \A n \in 0..m : h[n] = IF n = 0 THEN <<>> ELSE InsertSorted(h[n - 1], s[n])
  <2> DEFINE k == [n \in 0..m |-> IF n = 0 THEN <<>> ELSE InsertSorted(h[n - 1], s[n])]
  <2>1. h = k
    BY <1>6, Zenon DEF SortSteps, m
  <2>2. \A n \in 0..m : k[n] = IF n = 0 THEN <<>> ELSE InsertSorted(h[n - 1], s[n])
    OBVIOUS
  <2> HIDE DEF k
  <2> QED
    BY <2>1, <2>2
<1> DEFINE Good == {n \in 0..m : h[n] \in V}
<1>9. 0 \in Good
  BY <1>1, <1>7
<1>10. ASSUME NEW n \in 1..m, n - 1 \in Good PROVE n \in Good
  <2>1. n \in 0..m /\ n # 0 /\ h[n - 1] \in V
    BY <1>1, <1>10
  <2>2. InsertSorted(h[n - 1], s[n]) \in V
    BY <1>2, <2>1
  <2> QED
    BY <1>7, <2>1, <2>2
<1> HIDE DEF Good
<1>11. \A n \in 0..m : n \in Good
  BY <1>1, <1>9, <1>10, IntervalInduction
<1>12. h[m] \in V
  <2>1. m \in Good
    BY <1>1, <1>11
  <2> QED
    BY <2>1 DEF Good
<1>13. SortCandidate(s) = h[m]
  BY Zenon DEF SortCandidate, h, SortOf, SortSteps, m
<1> QED
  BY <1>12, <1>13 DEF V

LEMMA CandidatesTyped ==
    ASSUME NEW p, PoolOK(p), NEW txs \in Candidates(p) PROVE txs \in Seq(Tx)
<1>1. PICK o \in PriorityOrders(p.pending) : txs = SortCandidate(Fitting(o))
  BY DEF Candidates
<1>2. Cardinality(p.pending) \in Nat
  BY FS_CardinalityType DEF PoolOK
<1>3. o \in [1..Cardinality(p.pending) -> p.pending]
  BY <1>1 DEF PriorityOrders
<1>4. o \in Seq(p.pending)
  BY <1>2, <1>3
<1>5. Len(o) \in Nat /\ \A n \in 1..Len(o) : o[n] \in p.pending
  BY <1>4
<1>6. \A n \in 1..Len(o) : o[n].tx \in Tx
  BY <1>5 DEF PoolOK
<1>7. Fitting(o) \in Seq(Tx)
  BY <1>5, <1>6, FittingTyped
<1> QED
  BY <1>1, <1>7, SortTyped

LEMMA NextBaseFeeTyped ==
    ASSUME NEW fee \in Nat, NEW used \in Nat PROVE NextBaseFee(fee, used) \in Nat
<1> DEFINE target == BlockGasLimit \div 2
           over == Max({1, ((fee * (used - target)) \div target) \div 8})
           under == SatSub(fee, ((fee * (target - used)) \div target) \div 8)
           next == IF used > target THEN fee + over ELSE under
<1>1. target \in Nat \ {0}
  BY MempoolConstants
<1> HIDE DEF target
<1>2. next \in Int
  <2>1. CASE used > target
    <3> DEFINE x == fee * (used - target)
               y == (x \div target) \div 8
    <3>1. x \in Nat
      BY <1>1, <2>1
    <3> HIDE DEF x
    <3>2. y \in Nat
      <4>1. x \div target \in Nat
        BY <1>1, <3>1, DivBounds
      <4> QED
        BY <4>1, DivBounds
    <3> HIDE DEF y
    <3>3. Max({1, y}) \in Int
      BY <3>2, MaxPair
    <3> QED
      BY <2>1, <3>3 DEF y, x
  <2>2. CASE ~ (used > target)
    <3> DEFINE x == fee * (target - used)
               y == (x \div target) \div 8
    <3>1. x \in Nat
      BY <1>1, <2>2
    <3> HIDE DEF x
    <3>2. y \in Nat
      <4>1. x \div target \in Nat
        BY <1>1, <3>1, DivBounds
      <4> QED
        BY <4>1, DivBounds
    <3> HIDE DEF y
    <3>3. SatSub(fee, y) \in Int
      BY <3>2 DEF SatSub
    <3> QED
      BY <2>2, <3>3 DEF y, x
  <2> QED
    BY <2>1, <2>2
<1> HIDE DEF next
<1>3. Max({next, MinBaseFee}) \in Nat
  BY <1>2, MaxPair DEF MinBaseFee
<1> QED
  BY <1>3 DEF NextBaseFee, next, target

LEMMA GasUsedTyped ==
    ASSUME NEW b, b.txs \in Seq(Tx) PROVE GasUsed(b) \in Nat
<1> DEFINE S == DOMAIN b.txs
           f == [i \in S |-> b.txs[i].used]
<1>1. S = 1..Len(b.txs) /\ Len(b.txs) \in Nat /\ \A i \in S : b.txs[i] \in Tx
  OBVIOUS
<1>2. \A i \in S : f[i] \in Nat
  BY <1>1, TxFields
<1>3. IsFiniteSet(S)
  <2>1. IsFiniteSet(1..Len(b.txs))
    BY <1>1, FS_Interval
  <2> QED
    BY <1>1, <2>1
<1> HIDE DEF S, f
<1>4. SumFunctionOnSet(f, S) \in Nat
  BY <1>2, <1>3, SumNat
<1> QED
  BY <1>4 DEF GasUsed, f, S
-----------------------------------------------------------------------------
(* Types *)

DiffOK(d) == /\ d = [a \in DOMAIN d |-> d[a]] /\ DOMAIN d \subseteq Address
             /\ \A a \in DOMAIN d : d[a] \in Account

BuiltOK(b) == BodyOK(b) /\ b.number \in Nat \ {0}
SealedOK(b) == BuiltOK(b) /\ b.gas_used \in Nat

RunJob(pc, diff, block) == [pc |-> pc, diff |-> diff, block |-> block]

JobOK(j) ==
    \/ j = Idle
    \/ j = [pc |-> "built", block |-> j.block] /\ BuiltOK(j.block)
    \/ /\ j = RunJob(j.pc, j.diff, j.block) /\ j.pc \in {"executed", "accounts", "trie", "stored"}
       /\ DiffOK(j.diff) /\ SealedOK(j.block)

BlockOK(b, n) == /\ b.number = n /\ b.txs \in Seq(Tx) /\ b.base_fee \in Nat /\ b.gas_used \in Nat
                 /\ n # 0 => b.coinbase \in Address
ChainOK == /\ DOMAIN chain \subseteq Nat /\ disk_latest \in DOMAIN chain /\ latest_height \in DOMAIN chain
           /\ \A n \in DOMAIN chain : BlockOK(chain[n], n)
JobsOK == job = [c \in Committer |-> job[c]] /\ \A c \in Committer : JobOK(job[c])
ReadingOK == reading # Nothing => reading.tx \in Tx
PrunerOK == \/ pruner = Idle
            \/ pruner = [pc |-> pruner.pc, live |-> pruner.live] /\ pruner.pc \in {"marked", "waiting"}

TypeInv ==
    /\ accounts \in States /\ ChainOK /\ JobsOK
    /\ PoolOK(pool) /\ Tracked(pool)
    /\ ReadingOK /\ PrunerOK /\ crashes \in 0..MaxCrashes

LEMMA JobPc ==
    ASSUME NEW j, JobOK(j)
    PROVE  /\ j.pc \in {"idle", "built", "executed", "accounts", "trie", "stored"}
           /\ j = Idle <=> j.pc = "idle"
           /\ j.pc = "built" => j = [pc |-> "built", block |-> j.block] /\ BuiltOK(j.block)
           /\ j.pc \in {"executed", "accounts", "trie", "stored"} =>
                 /\ j = RunJob(j.pc, j.diff, j.block)
                 /\ DiffOK(j.diff) /\ SealedOK(j.block)
<1>1. Idle.pc = "idle"
  BY DEF Idle
<1>2. CASE j = Idle
  BY <1>1, <1>2
<1>3. CASE j = [pc |-> "built", block |-> j.block] /\ BuiltOK(j.block)
  <2>1. j.pc = "built"
    BY <1>3
  <2> QED
    BY <1>1, <1>3, <2>1
<1>4. CASE /\ j = RunJob(j.pc, j.diff, j.block) /\ j.pc \in {"executed", "accounts", "trie", "stored"}
           /\ DiffOK(j.diff) /\ SealedOK(j.block)
  BY <1>1, <1>4
<1> QED
  BY <1>2, <1>3, <1>4 DEF JobOK

LEMMA RunJobOK ==
    ASSUME NEW pc \in {"executed", "accounts", "trie", "stored"}, NEW diff, DiffOK(diff),
           NEW block, SealedOK(block)
    PROVE  LET j == RunJob(pc, diff, block) IN
           JobOK(j) /\ j.pc = pc /\ j.diff = diff /\ j.block = block
  BY DEF JobOK, RunJob

(* The other calls go on untouched. *)
Others(c) == \A d \in Committer \ {c} : job'[d] = job[d]

LEMMA JobUpdate ==
    ASSUME JobsOK, NEW c \in Committer, NEW j, job' = [job EXCEPT ![c] = j]
    PROVE  /\ job' = [d \in Committer |-> job'[d]] /\ job'[c] = j /\ Others(c)
           /\ JobOK(j) => JobsOK'
<1>1. job = [d \in Committer |-> job[d]]
  BY DEF JobsOK
<1>2. job' = [d \in Committer |-> IF d = c THEN j ELSE job[d]]
  BY <1>1
<1>3. job' = [d \in Committer |-> job'[d]] /\ job'[c] = j /\ Others(c)
  BY <1>2 DEF Others
<1> QED
  BY <1>3 DEF JobsOK, Others

LEMMA InitType == ASSUME Init PROVE TypeInv
<1>1. accounts \in States
  BY BlockCommitConstants DEF Init, States, Account
<1>2. ChainOK
  <2>1. Genesis.number = 0 /\ Genesis.txs = <<>> /\ Genesis.base_fee = GenesisBaseFee /\ Genesis.gas_used = 0
    BY DEF Genesis
  <2>2. DOMAIN chain = {0} /\ chain[0] = Genesis
    BY DEF Init
  <2>3. Genesis.txs \in Seq(Tx)
    BY <2>1
  <2>4. GenesisBaseFee \in Nat
    BY MempoolConstants
  <2>5. disk_latest = 0 /\ latest_height = 0
    BY DEF Init
  <2>6. BlockOK(Genesis, 0)
    BY <2>1, <2>3, <2>4 DEF BlockOK
  <2>7. \A n \in DOMAIN chain : n = 0
    BY <2>2
  <2> QED
    BY <2>2, <2>5, <2>6, <2>7 DEF ChainOK
<1>3. JobsOK
  BY DEF Init, JobsOK, JobOK
<1>4. PoolOK(pool) /\ Tracked(pool)
  BY EmptyPoolOK DEF Init
<1>5. ReadingOK /\ PrunerOK
  BY DEF Init, ReadingOK, PrunerOK
<1>6. crashes \in 0..MaxCrashes
  BY BlockCommitConstants DEF Init
<1> QED
  BY <1>1, <1>2, <1>3, <1>4, <1>5, <1>6 DEF TypeInv

LEMMA TypeOKFollows == ASSUME TypeInv PROVE TypeOK
<1>1. \A c \in Committer : job[c].pc \in {"idle", "built", "executed", "accounts", "trie", "stored"}
  BY JobPc DEF TypeInv, JobsOK
<1>2. {s.tx : s \in pool.pending} \cup pool.queued \subseteq Tx
  BY DEF TypeInv, PoolOK
<1>3. pruner.pc \in {"idle", "marked", "waiting"}
  BY DEF TypeInv, PrunerOK, Idle
<1> QED
  BY <1>1, <1>2, <1>3 DEF TypeInv, TypeOK, ChainOK, BlockOK, States
-----------------------------------------------------------------------------
(* What a step of a call does *)

LEMMA NewBlockOK ==
    ASSUME TypeInv, NEW c \in Committer, NEW txs \in Seq(Tx)
    PROVE  LET b == NewBlock(c, txs) IN
           BuiltOK(b) /\ b.number = latest_height + 1 /\ b.txs = txs
<1> DEFINE parent == chain[latest_height]
           fee == NextBaseFee(parent.base_fee, parent.gas_used)
<1>1. parent.base_fee \in Nat /\ parent.gas_used \in Nat /\ latest_height \in Nat
  BY DEF TypeInv, ChainOK, BlockOK
<1>2. fee \in Nat
  BY <1>1, NextBaseFeeTyped
<1>3. Coinbase[c] \in Address
  BY BlockCommitConstants
<1>4. NewBlock(c, txs) = [number |-> latest_height + 1, txs |-> txs, coinbase |-> Coinbase[c], base_fee |-> fee]
  BY DEF NewBlock
<1> HIDE DEF fee
<1> QED
  BY <1>1, <1>2, <1>3, <1>4 DEF BuiltOK, BodyOK

Start(c) ==
    /\ MayStart(c)
    /\ job'[c].pc = "built" /\ JobOK(job'[c]) /\ job'[c].block.number = latest_height + 1
    /\ Others(c) /\ JobsOK'

LEMMA StartShape ==
    ASSUME TypeInv, Produce \/ Import
    PROVE  /\ \E c \in Committer : Start(c)
           /\ UNCHANGED <<diskVars, pool, retained, CommitFrame>>
<1>1. ASSUME NEW c \in Committer, MayStart(c), NEW txs \in Seq(Tx),
             job' = [job EXCEPT ![c] = [pc |-> "built", block |-> NewBlock(c, txs)]]
      PROVE  Start(c)
  <2> DEFINE b == NewBlock(c, txs)
             j == [pc |-> "built", block |-> b]
  <2>1. BuiltOK(b) /\ b.number = latest_height + 1
    BY NewBlockOK
  <2> HIDE DEF b
  <2>2. j.pc = "built" /\ j.block = b
    OBVIOUS
  <2>3. JobOK(j)
    BY <2>1, <2>2 DEF JobOK
  <2>4. job' = [job EXCEPT ![c] = j]
    BY <1>1 DEF b
  <2> HIDE DEF j
  <2>5. JobsOK
    BY DEF TypeInv
  <2>6. job'[c] = j /\ Others(c) /\ JobsOK'
    BY <2>3, <2>4, <2>5, JobUpdate
  <2> QED
    BY <1>1, <2>1, <2>2, <2>3, <2>6 DEF Start
<1>2. CASE Produce
  <2>1. PICK txs \in Candidates(pool) :
            job' = [job EXCEPT !["producer"] = [pc |-> "built", block |-> NewBlock("producer", txs)]]
    BY <1>2 DEF Produce
  <2>2. MayStart("producer") /\ "producer" \in Committer
    BY <1>2 DEF Produce, MayStart
  <2>3. txs \in Seq(Tx)
    BY CandidatesTyped DEF TypeInv
  <2>4. Start("producer")
    BY <1>1, <2>1, <2>2, <2>3
  <2> QED
    BY <1>2, <2>2, <2>4 DEF Produce
<1>3. CASE Import
  <2>1. PICK txs \in PeerBodies :
            job' = [job EXCEPT !["importer"] = [pc |-> "built", block |-> NewBlock("importer", txs)]]
    BY <1>3 DEF Import
  <2>2. MayStart("importer") /\ "importer" \in Committer
    BY <1>3 DEF Import, MayStart
  <2>3. txs \in Seq(Tx)
    BY BlockCommitConstants
  <2>4. Start("importer")
    BY <1>1, <2>1, <2>2, <2>3
  <2> QED
    BY <1>3, <2>2, <2>4 DEF Import
<1> QED
  BY <1>2, <1>3

LEMMA TakersTouched ==
    ASSUME NEW b, BodyOK(b)
    PROVE  /\ Touched(b) \subseteq Address /\ b.coinbase \in Touched(b)
           /\ \A i \in 1..Len(b.txs) : Takers(b, i) \subseteq Touched(b)
<1>1. DOMAIN b.txs = 1..Len(b.txs) /\ \A i \in 1..Len(b.txs) : b.txs[i] \in Tx
  BY BurnsType
<1>2. \A i \in 1..Len(b.txs) : b.txs[i].from \in Address /\ b.txs[i].to \in Address
  BY <1>1, TxFields
<1>3. Touched(b) = {b.coinbase} \cup UNION {Takers(b, i) : i \in DOMAIN b.txs}
  BY DEF Touched, Takers
<1>4. \A i \in 1..Len(b.txs) : Takers(b, i) \subseteq Address
  BY <1>2 DEF Takers
<1> QED
  BY <1>1, <1>3, <1>4 DEF BodyOK

LEMMA DiffFacts ==
    ASSUME NEW view \in States, NEW b, BodyOK(b)
    PROVE  LET d == StateDiff(view, b)
               final == Credit(view, b.coinbase, BlockReward)
           IN  /\ DiffOK(d) /\ final \in States
               /\ DOMAIN d = Touched(b) /\ \A a \in Touched(b) : d[a] = final[a]
<1> DEFINE final == Credit(view, b.coinbase, BlockReward)
           d == StateDiff(view, b)
<1>1. final \in States
  BY CreditFacts, BlockCommitConstants DEF BodyOK
<1>2. d = [a \in Touched(b) |-> final[a]]
  BY DEF StateDiff
<1> HIDE DEF final, d
<1>3. Touched(b) \subseteq Address
  BY TakersTouched
<1> QED
  BY <1>1, <1>2, <1>3 DEF DiffOK, States, d, final

LEMMA SealedFacts ==
    ASSUME NEW b, BuiltOK(b), NEW d
    PROVE  LET s == Sealed(b, d) IN
           /\ SealedOK(s)
           /\ s.txs = b.txs /\ s.base_fee = b.base_fee /\ s.coinbase = b.coinbase /\ s.number = b.number
<1>1. GasUsed(b) \in Nat
  BY GasUsedTyped DEF BuiltOK, BodyOK
<1> DEFINE s == Sealed(b, d)
<1>2. /\ s.txs = b.txs /\ s.base_fee = b.base_fee /\ s.coinbase = b.coinbase /\ s.number = b.number
      /\ s.gas_used = GasUsed(b)
  BY DEF Sealed
<1> HIDE DEF s
<1>3. SealedOK(s)
  BY <1>1, <1>2 DEF SealedOK, BuiltOK, BodyOK
<1> QED
  BY <1>2, <1>3 DEF s

Executed(c) ==
    LET b == job[c].block
        r == ExecuteTxs(accounts, b)
        d == StateDiff(r.view, b)
    IN  /\ job[c].pc = "built" /\ BuiltOK(b)
        /\ job'[c] = Idle \/ (r.ok /\ job'[c] = RunJob("executed", d, Sealed(b, d)))

(* The call moves on with its diff and its block. *)
Moves(c, from, to) ==
    /\ job[c].pc = from /\ DiffOK(job[c].diff) /\ SealedOK(job[c].block)
    /\ job'[c] = RunJob(to, job[c].diff, job[c].block)

LEMMA ExecuteShape ==
    ASSUME TypeInv, NEW c \in Committer, Execute(c)
    PROVE  /\ Executed(c) /\ Others(c) /\ JobsOK'
           /\ UNCHANGED <<diskVars, pool, retained, CommitFrame>>
<1> DEFINE b == job[c].block
           r == ExecuteTxs(accounts, b)
           d == StateDiff(r.view, b)
           done == RunJob("executed", d, Sealed(b, d))
           j == IF r.ok THEN done ELSE Idle
<1>1. job[c].pc = "built" /\ BuiltOK(b)
  BY JobPc DEF Execute, TypeInv, JobsOK
<1>2. job' = [job EXCEPT ![c] = j]
  BY DEF Execute, RunJob
<1>3. r \in Results
  BY <1>1, ExecuteFacts DEF BuiltOK, TypeInv
<1>4. r.view \in States
  BY <1>3 DEF Results
<1>5. DiffOK(d)
  BY <1>1, <1>4, DiffFacts DEF BuiltOK
<1>6. SealedOK(Sealed(b, d))
  BY <1>1, SealedFacts
<1> HIDE DEF d, b
<1>7. JobOK(done)
  BY <1>5, <1>6, RunJobOK
<1>8. JobOK(j)
  BY <1>7 DEF JobOK
<1>9. JobsOK
  BY DEF TypeInv
<1> HIDE DEF done, r, j
<1>10. job'[c] = j /\ Others(c) /\ JobsOK'
  BY <1>2, <1>8, <1>9, JobUpdate
<1> QED
  BY <1>1, <1>10 DEF Execute, Executed, j, done, r, b, d

LEMMA MovesShape ==
    ASSUME TypeInv, NEW c \in Committer,
           NEW from \in {"executed", "accounts", "trie"}, NEW to \in {"accounts", "trie", "stored"},
           job[c].pc = from, job' = [job EXCEPT ![c].pc = to]
    PROVE  Moves(c, from, to) /\ Others(c) /\ JobsOK'
<1> DEFINE d == job[c].diff
           b == job[c].block
           j == RunJob(to, d, b)
<1>1. job[c] = RunJob(from, d, b) /\ DiffOK(d) /\ SealedOK(b) /\ JobsOK
  BY JobPc DEF TypeInv, JobsOK
<1> HIDE DEF d, b
<1>2. [job[c] EXCEPT !.pc = to] = j
  BY <1>1 DEF RunJob
<1>3. job' = [job EXCEPT ![c] = j]
  BY <1>2
<1>4. JobOK(j)
  BY <1>1, RunJobOK
<1> HIDE DEF j
<1>5. job'[c] = j /\ Others(c) /\ JobsOK'
  BY <1>1, <1>3, <1>4, JobUpdate
<1> QED
  BY <1>1, <1>5 DEF Moves, j, d, b

LEMMA CheckHeadShape ==
    ASSUME TypeInv, NEW c \in Committer, CheckHead(c)
    PROVE  /\ job[c].pc = "executed" /\ Others(c) /\ JobsOK'
           /\ \/ job'[c] = Idle
              \/ latest_height = job[c].block.number - 1 /\ Moves(c, "executed", "accounts")
           /\ UNCHANGED <<diskVars, pool, retained, CommitFrame>>
<1>1. CASE latest_height = job[c].block.number - 1
  <2>1. job[c].pc = "executed" /\ job' = [job EXCEPT ![c].pc = "accounts"]
    BY <1>1 DEF CheckHead
  <2>2. Moves(c, "executed", "accounts") /\ Others(c) /\ JobsOK'
    BY <2>1, MovesShape
  <2> QED
    BY <1>1, <2>1, <2>2 DEF CheckHead
<1>2. CASE latest_height # job[c].block.number - 1
  <2>1. job' = [job EXCEPT ![c] = Idle]
    BY <1>2 DEF CheckHead
  <2>2. JobOK(Idle) /\ JobsOK
    BY DEF JobOK, TypeInv
  <2>3. job'[c] = Idle /\ Others(c) /\ JobsOK'
    BY <2>1, <2>2, JobUpdate
  <2> QED
    BY <2>3 DEF CheckHead
<1> QED
  BY <1>1, <1>2

(* One entry of the diff goes to disk. *)
Wrote(c, a) ==
    LET d == job[c].diff
        rest == [x \in DOMAIN d \ {a} |-> d[x]]
    IN  /\ job[c].pc = "accounts" /\ DiffOK(d) /\ SealedOK(job[c].block) /\ a \in DOMAIN d
        /\ accounts' = [accounts EXCEPT ![a] = d[a]] /\ accounts' \in States
        /\ job'[c] = RunJob("accounts", rest, job[c].block) /\ DiffOK(rest)

LEMMA PutAccountShape ==
    ASSUME TypeInv, NEW c \in Committer, PutAccount(c)
    PROVE  /\ \E a \in Address : Wrote(c, a)
           /\ Others(c) /\ JobsOK'
           /\ UNCHANGED <<chain, disk_latest, nodes, pool, retained, CommitFrame>>
<1> DEFINE d == job[c].diff
           b == job[c].block
<1>1. PICK a \in DOMAIN d : /\ accounts' = [accounts EXCEPT ![a] = d[a]]
                            /\ job' = [job EXCEPT ![c].diff = [x \in DOMAIN @ \ {a} |-> @[x]]]
  BY DEF PutAccount
<1> DEFINE rest == [x \in DOMAIN d \ {a} |-> d[x]]
           j == RunJob("accounts", rest, b)
<1>2. job[c] = RunJob("accounts", d, b) /\ DiffOK(d) /\ SealedOK(b) /\ JobsOK /\ job[c].pc = "accounts"
  BY JobPc DEF TypeInv, JobsOK, PutAccount
<1>3. job' = [job EXCEPT ![c] = [job[c] EXCEPT !.diff = rest]]
  BY <1>1
<1> HIDE DEF d, b
<1>4. DiffOK(rest)
  BY <1>2 DEF DiffOK
<1> HIDE DEF rest
<1>5. [job[c] EXCEPT !.diff = rest] = j
  BY <1>2 DEF RunJob
<1>6. JobOK(j)
  BY <1>2, <1>4, RunJobOK
<1> HIDE DEF j
<1>7. job'[c] = j /\ Others(c) /\ JobsOK'
  BY <1>2, <1>3, <1>5, <1>6, JobUpdate
<1>8. a \in Address /\ accounts' \in States
  BY <1>1, <1>2 DEF TypeInv, States, DiffOK
<1>9. Wrote(c, a)
  BY <1>1, <1>2, <1>4, <1>7, <1>8 DEF Wrote, j, d, b, rest
<1> QED
  BY <1>7, <1>8, <1>9 DEF PutAccount

LEMMA CommitTrieShape ==
    ASSUME TypeInv, NEW c \in Committer, CommitTrie(c)
    PROVE  /\ Moves(c, "accounts", "trie") /\ DOMAIN job[c].diff = {} /\ Others(c) /\ JobsOK'
           /\ UNCHANGED <<accounts, chain, disk_latest, pool, retained, CommitFrame>>
<1>1. job[c].pc = "accounts" /\ job' = [job EXCEPT ![c].pc = "trie"]
  BY DEF CommitTrie
<1> QED
  BY <1>1, MovesShape DEF CommitTrie

LEMMA PutBlockShape ==
    ASSUME TypeInv, NEW c \in Committer, PutBlock(c)
    PROVE  LET b == job[c].block IN
           /\ Moves(c, "trie", "stored") /\ Others(c) /\ JobsOK'
           /\ DOMAIN chain' = DOMAIN chain \cup {b.number} /\ chain'[b.number] = b
           /\ \A n \in DOMAIN chain \ {b.number} : chain'[n] = chain[n]
           /\ disk_latest' = b.number /\ b.number \in Nat \ {0}
           /\ latest_height' = IF latest_height >= b.number THEN latest_height ELSE b.number
           /\ UNCHANGED <<accounts, pool, reading, pruner, crashes>>
<1> DEFINE b == job[c].block
<1>1. job[c].pc = "trie" /\ job' = [job EXCEPT ![c].pc = "stored"]
  BY DEF PutBlock
<1>2. Moves(c, "trie", "stored") /\ Others(c) /\ JobsOK'
  BY <1>1, MovesShape
<1>3. b.number \in Nat \ {0}
  BY <1>2 DEF Moves, SealedOK, BuiltOK
<1>4. latest_height \in Nat
  BY DEF TypeInv, ChainOK
<1>5. Max({latest_height, b.number}) = IF latest_height >= b.number THEN latest_height ELSE b.number
  BY <1>3, <1>4, MaxPair
<1>6. /\ chain' = [n \in DOMAIN chain \cup {b.number} |-> IF n = b.number THEN b ELSE chain[n]]
      /\ disk_latest' = b.number /\ latest_height' = Max({latest_height, b.number})
  BY DEF PutBlock
<1> HIDE DEF b
<1>7. /\ DOMAIN chain' = DOMAIN chain \cup {b.number} /\ chain'[b.number] = b
      /\ \A n \in DOMAIN chain \ {b.number} : chain'[n] = chain[n]
  BY <1>6
<1>8. UNCHANGED <<accounts, pool, reading, pruner, crashes>>
  BY DEF PutBlock
<1> QED
  BY <1>2, <1>3, <1>5, <1>6, <1>7, <1>8 DEF b

LEMMA FinishShape ==
    ASSUME TypeInv, NEW c \in Committer, Finish(c)
    PROVE  /\ job[c].pc = "stored" /\ job'[c] = Idle /\ Others(c) /\ JobsOK'
           /\ PoolOK(pool') /\ Tracked(pool')
           /\ UNCHANGED <<diskVars, CommitFrame>>
<1> DEFINE b == job[c].block
           txs == Range(b.txs)
           p == UpdateBaseFee(pool, b.base_fee)
<1>1. job[c].pc = "stored" /\ job' = [job EXCEPT ![c] = Idle] /\ pool' = RemoveConfirmed(p, txs)
  BY DEF Finish
<1>2. b.txs \in Seq(Tx)
  BY <1>1, JobPc DEF TypeInv, JobsOK, SealedOK, BuiltOK, BodyOK
<1>3. txs \in SUBSET Tx /\ IsFiniteSet(txs)
  <2>1. DOMAIN b.txs = 1..Len(b.txs) /\ Len(b.txs) \in Nat
    BY <1>2
  <2>2. IsFiniteSet(DOMAIN b.txs)
    BY <2>1, FS_Interval
  <2>3. txs = {b.txs[i] : i \in DOMAIN b.txs}
    BY DEF Range
  <2> HIDE DEF txs
  <2>4. IsFiniteSet(txs)
    BY <2>2, <2>3, ImageFinite
  <2> QED
    BY <1>2, <2>3, <2>4
<1>4. PoolOK(p) /\ Tracked(p)
  BY BaseFeeFacts DEF TypeInv
<1> HIDE DEF txs, p
<1>5. PoolOK(pool') /\ Tracked(pool')
  BY <1>1, <1>3, <1>4, ConfirmFacts
<1>6. JobOK(Idle) /\ JobsOK
  BY DEF JobOK, TypeInv
<1>7. job'[c] = Idle /\ Others(c) /\ JobsOK'
  BY <1>1, <1>6, JobUpdate
<1> QED
  BY <1>1, <1>5, <1>7 DEF Finish

LEMMA CrashShape ==
    ASSUME TypeInv, Crash
    PROVE  /\ JobsOK' /\ \A c \in Committer : job'[c] = Idle
           /\ latest_height' = disk_latest /\ crashes' = crashes + 1 /\ crashes < MaxCrashes
           /\ UNCHANGED diskVars
<1>1. job' = [c \in Committer |-> Idle]
  BY DEF Crash
<1>2. \A c \in Committer : job'[c] = Idle
  BY <1>1
<1>3. JobsOK'
  BY <1>1, <1>2 DEF JobsOK, JobOK
<1> QED
  BY <1>2, <1>3 DEF Crash

LEMMA StepType == ASSUME TypeInv, [Next]_vars PROVE TypeInv'
<1>1. CASE ReadSender
  <2>1. PICK tx \in Tx : reading' = [pc |-> "read", tx |-> tx, account |-> accounts[tx.from]]
    BY <1>1 DEF ReadSender
  <2>2. ReadingOK'
    BY <2>1 DEF ReadingOK
  <2> QED
    BY <1>1, <2>2 DEF ReadSender, TypeInv, ChainOK, JobsOK, PrunerOK, diskVars
<1>2. CASE Admit
  <2>1. reading.tx \in Tx
    BY <1>2 DEF Admit, TypeInv, ReadingOK
  <2>2. PoolOK(pool') /\ Tracked(pool')
    BY <1>2, <2>1, AddFacts DEF Admit, TypeInv
  <2>3. ReadingOK'
    BY <1>2 DEF Admit, ReadingOK
  <2> QED
    BY <1>2, <2>2, <2>3 DEF Admit, TypeInv, ChainOK, JobsOK, PrunerOK, diskVars
<1>3. CASE Produce \/ Import
  <2>1. JobsOK' /\ UNCHANGED <<diskVars, pool, retained, CommitFrame>>
    BY <1>3, StartShape DEF Start
  <2> QED
    BY <2>1 DEF TypeInv, ChainOK, ReadingOK, PrunerOK, diskVars, CommitFrame
<1>4. ASSUME NEW c \in Committer, Commit(c) PROVE TypeInv'
  <2>1. CASE Execute(c) \/ CheckHead(c)
    <3>1. JobsOK' /\ UNCHANGED <<diskVars, pool, retained, CommitFrame>>
      BY <2>1, ExecuteShape, CheckHeadShape
    <3> QED
      BY <3>1 DEF TypeInv, ChainOK, ReadingOK, PrunerOK, diskVars, CommitFrame
  <2>2. CASE PutAccount(c)
    <3>1. JobsOK' /\ UNCHANGED <<chain, disk_latest, nodes, pool, retained, CommitFrame>>
      BY <2>2, PutAccountShape
    <3>2. accounts' \in States
      BY <2>2, PutAccountShape DEF Wrote
    <3> QED
      BY <3>1, <3>2 DEF TypeInv, ChainOK, ReadingOK, PrunerOK, CommitFrame
  <2>3. CASE CommitTrie(c)
    <3>1. JobsOK' /\ UNCHANGED <<accounts, chain, disk_latest, pool, retained, CommitFrame>>
      BY <2>3, CommitTrieShape
    <3> QED
      BY <3>1 DEF TypeInv, ChainOK, ReadingOK, PrunerOK, CommitFrame
  <2>4. CASE PutBlock(c)
    <3> DEFINE b == job[c].block
    <3>1. /\ Moves(c, "trie", "stored") /\ JobsOK'
          /\ DOMAIN chain' = DOMAIN chain \cup {b.number} /\ chain'[b.number] = b
          /\ \A n \in DOMAIN chain \ {b.number} : chain'[n] = chain[n]
          /\ disk_latest' = b.number /\ b.number \in Nat \ {0}
          /\ latest_height' = IF latest_height >= b.number THEN latest_height ELSE b.number
          /\ UNCHANGED <<accounts, pool, reading, pruner, crashes>>
      BY <2>4, PutBlockShape
    <3>2. BlockOK(b, b.number)
      BY <3>1 DEF Moves, SealedOK, BuiltOK, BodyOK, BlockOK
    <3> HIDE DEF b
    <3>3. \A n \in DOMAIN chain : BlockOK(chain[n], n)
      BY DEF TypeInv, ChainOK
    <3>4. \A n \in DOMAIN chain' : BlockOK(chain'[n], n)
      BY <3>1, <3>2, <3>3
    <3>5. DOMAIN chain' \subseteq Nat /\ disk_latest' \in DOMAIN chain' /\ latest_height' \in DOMAIN chain'
      BY <3>1 DEF TypeInv, ChainOK
    <3>6. ChainOK'
      BY <3>4, <3>5 DEF ChainOK
    <3> QED
      BY <3>1, <3>6 DEF TypeInv, ReadingOK, PrunerOK
  <2>5. CASE Finish(c)
    <3>1. JobsOK' /\ PoolOK(pool') /\ Tracked(pool') /\ UNCHANGED <<diskVars, CommitFrame>>
      BY <2>5, FinishShape
    <3> QED
      BY <3>1 DEF TypeInv, ChainOK, ReadingOK, PrunerOK, diskVars, CommitFrame
  <2> QED
    BY <1>4, <2>1, <2>2, <2>3, <2>4, <2>5 DEF Commit
<1>5. CASE Prune
  <2>1. PrunerOK'
    <3>1. CASE Mark
      BY <3>1 DEF Mark, PrunerOK
    <3>2. CASE WaitForLock
      <4>1. pruner = [pc |-> pruner.pc, live |-> pruner.live]
        BY <3>2 DEF WaitForLock, TypeInv, PrunerOK, Idle
      <4>2. pruner' = [pc |-> "waiting", live |-> pruner.live]
        BY <3>2, <4>1 DEF WaitForLock
      <4> QED
        BY <4>2 DEF PrunerOK
    <3>3. CASE Sweep
      BY <3>3 DEF Sweep, PrunerOK
    <3> QED
      BY <1>5, <3>1, <3>2, <3>3 DEF Prune
  <2>2. UNCHANGED PruneFrame
    BY <1>5 DEF Prune, Mark, WaitForLock, Sweep
  <2> QED
    BY <2>1, <2>2 DEF TypeInv, ChainOK, JobsOK, ReadingOK, PruneFrame
<1>6. CASE Crash
  <2>1. /\ JobsOK' /\ latest_height' = disk_latest /\ crashes' = crashes + 1 /\ crashes < MaxCrashes
        /\ UNCHANGED diskVars
    BY <1>6, CrashShape
  <2>2. pool' = EmptyPool /\ reading' = Nothing /\ pruner' = Idle
    BY <1>6 DEF Crash
  <2>3. PoolOK(pool') /\ Tracked(pool')
    BY <2>2, EmptyPoolOK
  <2>4. ReadingOK' /\ PrunerOK' /\ ChainOK'
    BY <2>1, <2>2 DEF ReadingOK, PrunerOK, ChainOK, TypeInv, diskVars
  <2>5. crashes' \in 0..MaxCrashes
    BY <2>1, BlockCommitConstants DEF TypeInv
  <2> QED
    BY <2>1, <2>3, <2>4, <2>5 DEF TypeInv, diskVars
<1>7. CASE UNCHANGED vars
  BY <1>7 DEF vars, diskVars, TypeInv, ChainOK, JobsOK, ReadingOK, PrunerOK
<1> QED
  BY <1>1, <1>2, <1>3, <1>4, <1>5, <1>6, <1>7 DEF Next

LEMMA BlockCommitTypeInv == Spec => []TypeInv
  BY InitType, StepType, PTL DEF Spec

(* The variables have the shape the code gives them: balances never go     *)
(* below zero and the two latest pointers name blocks that exist, through  *)
(* overlapping calls of execute_and_commit and crashes.                    *)
THEOREM BlockCommitTypeOK == Spec => []TypeOK
  BY BlockCommitTypeInv, TypeOKFollows, PTL

(* The nonce the pool counts from is the nonce of a pending transaction,   *)
(* through add_transaction with a stale account, remove_confirmed and      *)
(* promote_queued.                                                         *)
THEOREM PoolTrackerMatches == Spec => []TrackerMatchesPool
<1>1. TypeInv => TrackerMatchesPool
  BY DEF TypeInv, Tracked, TrackedAt, TrackerMatchesPool
<1> QED
  BY <1>1, BlockCommitTypeInv, PTL
-----------------------------------------------------------------------------
(* Every step, as far as the disk and the calls are concerned *)

Still == UNCHANGED <<accounts, chain, disk_latest, latest_height, crashes>>

Quiet == Still /\ UNCHANGED job
Starts(c) == Still /\ Start(c)
Ends(c) == /\ Still /\ Others(c) /\ job'[c] = Idle
           /\ job[c].pc \in {"built", "executed", "stored"}
Runs(c) ==
    LET b == job[c].block
        r == ExecuteTxs(accounts, b)
        d == StateDiff(r.view, b)
    IN  /\ Still /\ Others(c) /\ job[c].pc = "built" /\ BuiltOK(b) /\ r.ok
        /\ job'[c] = RunJob("executed", d, Sealed(b, d))
Enters(c) == Still /\ Others(c) /\ Moves(c, "executed", "accounts")
Writes(c) == /\ UNCHANGED <<chain, disk_latest, latest_height, crashes>>
             /\ Others(c) /\ \E a \in Address : Wrote(c, a)
Hashes(c) == Still /\ Others(c) /\ Moves(c, "accounts", "trie") /\ DOMAIN job[c].diff = {}
Stores(c) ==
    LET b == job[c].block IN
    /\ Others(c) /\ Moves(c, "trie", "stored")
    /\ DOMAIN chain' = DOMAIN chain \cup {b.number} /\ chain'[b.number] = b
    /\ \A n \in DOMAIN chain \ {b.number} : chain'[n] = chain[n]
    /\ disk_latest' = b.number
    /\ latest_height' = IF latest_height >= b.number THEN latest_height ELSE b.number
    /\ UNCHANGED <<accounts, crashes>>
Restarts == /\ UNCHANGED <<accounts, chain, disk_latest>> /\ \A c \in Committer : job'[c] = Idle
            /\ latest_height' = disk_latest /\ crashes' = crashes + 1

Calls(c) == Starts(c) \/ Ends(c) \/ Runs(c) \/ Enters(c) \/ Writes(c) \/ Hashes(c) \/ Stores(c)

LEMMA StepShape ==
    ASSUME TypeInv, [Next]_vars
    PROVE  Quiet \/ Restarts \/ \E c \in Committer : Calls(c)
<1>1. CASE ReadSender \/ Admit
  BY <1>1 DEF ReadSender, Admit, Quiet, Still, diskVars
<1>2. CASE Produce \/ Import
  <2>1. PICK c \in Committer : Start(c)
    BY <1>2, StartShape
  <2>2. UNCHANGED <<diskVars, pool, retained, CommitFrame>>
    BY <1>2, StartShape
  <2>3. Starts(c)
    BY <2>1, <2>2 DEF Starts, Still, diskVars, CommitFrame
  <2> QED
    BY <2>3 DEF Calls
<1>3. ASSUME NEW c \in Committer, Commit(c) PROVE Calls(c)
  <2>1. CASE Execute(c)
    <3>1. /\ Executed(c) /\ Others(c) /\ UNCHANGED <<diskVars, pool, retained, CommitFrame>>
      BY <2>1, ExecuteShape
    <3>2. Still
      BY <3>1 DEF Still, diskVars, CommitFrame
    <3>3. Ends(c) \/ Runs(c)
      BY <3>1, <3>2, Zenon DEF Executed, Ends, Runs
    <3> QED
      BY <3>3 DEF Calls
  <2>2. CASE CheckHead(c)
    <3>1. /\ Others(c) /\ (job'[c] = Idle \/ Moves(c, "executed", "accounts")) /\ job[c].pc = "executed"
          /\ UNCHANGED <<diskVars, pool, retained, CommitFrame>>
      BY <2>2, CheckHeadShape
    <3>2. Still
      BY <3>1 DEF Still, diskVars, CommitFrame
    <3> QED
      BY <3>1, <3>2 DEF Calls, Ends, Enters
  <2>3. CASE PutAccount(c)
    <3>1. /\ (\E a \in Address : Wrote(c, a)) /\ Others(c)
          /\ UNCHANGED <<chain, disk_latest, nodes, pool, retained, CommitFrame>>
      BY <2>3, PutAccountShape
    <3>2. Writes(c)
      BY <3>1 DEF Writes, CommitFrame
    <3> QED
      BY <3>2 DEF Calls
  <2>4. CASE CommitTrie(c)
    <3>1. /\ Moves(c, "accounts", "trie") /\ DOMAIN job[c].diff = {} /\ Others(c)
          /\ UNCHANGED <<accounts, chain, disk_latest, pool, retained, CommitFrame>>
      BY <2>4, CommitTrieShape
    <3>2. Hashes(c)
      BY <3>1 DEF Hashes, Still, CommitFrame
    <3> QED
      BY <3>2 DEF Calls
  <2>5. CASE PutBlock(c)
    <3>1. Stores(c)
      BY <2>5, PutBlockShape DEF Stores
    <3> QED
      BY <3>1 DEF Calls
  <2>6. CASE Finish(c)
    <3>1. job[c].pc = "stored" /\ job'[c] = Idle /\ Others(c) /\ UNCHANGED <<diskVars, CommitFrame>>
      BY <2>6, FinishShape
    <3>2. Ends(c)
      BY <3>1 DEF Ends, Still, diskVars, CommitFrame
    <3> QED
      BY <3>2 DEF Calls
  <2> QED
    BY <1>3, <2>1, <2>2, <2>3, <2>4, <2>5, <2>6 DEF Commit
<1>4. CASE Prune
  BY <1>4 DEF Prune, Mark, WaitForLock, Sweep, PruneFrame, Quiet, Still
<1>5. CASE Crash
  BY <1>5, CrashShape DEF Restarts, diskVars
<1>6. CASE UNCHANGED vars
  BY <1>6 DEF vars, diskVars, Quiet, Still
<1> QED
  BY <1>1, <1>2, <1>3, <1>4, <1>5, <1>6 DEF Next

LEMMA RunJobFields ==
    ASSUME NEW pc, NEW diff, NEW block
    PROVE  LET j == RunJob(pc, diff, block) IN j.pc = pc /\ j.diff = diff /\ j.block = block /\ (pc # "idle" => j # Idle)
<1>1. Idle.pc = "idle"
  BY DEF Idle
<1> QED
  BY <1>1 DEF RunJob
-----------------------------------------------------------------------------
(* One call at a time: the calls of execute_and_commit of one process are  *)
(* serialised (MayOverlap = FALSE).                                        *)

OneCall == \A c, d \in Committer : job[c] # Idle /\ job[d] # Idle => c = d
Stack == DOMAIN chain = 0..disk_latest /\ latest_height = disk_latest
OnTop == \A c \in Committer : job[c].pc \in {"built", "executed", "accounts", "trie"}
            => job[c].block.number = disk_latest + 1
SerialInv == OneCall /\ Stack /\ OnTop

LEMMA SerialInit == ASSUME Init PROVE SerialInv
<1>1. \A c \in Committer : job[c] = Idle
  BY DEF Init
<1>2. Idle.pc = "idle"
  BY DEF Idle
<1>3. OneCall /\ OnTop
  BY <1>1, <1>2 DEF OneCall, OnTop
<1>4. DOMAIN chain = {0} /\ disk_latest = 0 /\ latest_height = 0
  BY DEF Init
<1> QED
  BY <1>3, <1>4 DEF SerialInv, Stack

(* When a call steps, the others are idle before and after. *)
LEMMA Alone ==
    ASSUME OneCall, NEW c \in Committer, job[c] # Idle, Others(c)
    PROVE  \A d \in Committer \ {c} : job[d] = Idle /\ job'[d] = Idle
  BY DEF OneCall, Others

LEMMA CallerAlone ==
    ASSUME MayOverlap = FALSE, TypeInv, OneCall, NEW c \in Committer, Calls(c), ~ Ends(c)
    PROVE  /\ \A d \in Committer \ {c} : job[d] = Idle /\ job'[d] = Idle
           /\ OneCall'
<1>1. Idle.pc = "idle"
  BY DEF Idle
<1>2. CASE Starts(c)
  <2>1. (\A d \in Committer : job[d] = Idle) /\ Others(c)
    BY <1>2 DEF Starts, Start, MayStart
  <2> QED
    BY <2>1 DEF Others, OneCall
<1>3. CASE ~ Starts(c)
  <2>1. Others(c) /\ job[c] # Idle
    BY <1>1, <1>3 DEF Calls, Runs, Enters, Writes, Hashes, Stores, Moves, Wrote
  <2>2. \A d \in Committer \ {c} : job[d] = Idle /\ job'[d] = Idle
    BY <2>1, Alone
  <2> QED
    BY <2>2 DEF OneCall
<1> QED
  BY <1>2, <1>3

LEMMA SerialStep ==
    ASSUME MayOverlap = FALSE, TypeInv, SerialInv, [Next]_vars
    PROVE  SerialInv'
<1> USE DEF SerialInv
<1>0. Idle.pc = "idle"
  BY DEF Idle
<1>1. CASE Quiet
  BY <1>1 DEF Quiet, Still, OneCall, Stack, OnTop
<1>2. CASE Restarts
  BY <1>0, <1>2 DEF Restarts, OneCall, Stack, OnTop
<1>3. ASSUME NEW c \in Committer, Calls(c), ~ Ends(c) PROVE SerialInv'
  <2>1. OneCall' /\ \A d \in Committer \ {c} : job'[d] = Idle
    BY <1>3, CallerAlone
  <2>2. CASE Starts(c)
    <3>1. Stack'
      BY <2>2 DEF Starts, Still, Stack
    <3>2. job'[c].block.number = disk_latest' + 1
      BY <2>2 DEF Starts, Start, Still, Stack
    <3> QED
      BY <1>0, <2>1, <3>1, <3>2 DEF OnTop
  <2>3. CASE Runs(c)
    <3>1. Stack' /\ disk_latest' = disk_latest
      BY <2>3 DEF Runs, Still, Stack
    <3>2. job'[c].block.number = job[c].block.number /\ job[c].pc = "built"
      <4> DEFINE b == job[c].block
                 d == StateDiff(ExecuteTxs(accounts, b).view, b)
      <4>1. BuiltOK(b) /\ job'[c] = RunJob("executed", d, Sealed(b, d)) /\ job[c].pc = "built"
        BY <2>3 DEF Runs
      <4> HIDE DEF b, d
      <4>2. Sealed(b, d).number = b.number
        BY <4>1, SealedFacts
      <4> QED
        BY <4>1, <4>2, RunJobFields DEF b
    <3> QED
      BY <1>0, <2>1, <3>1, <3>2 DEF OnTop
  <2>4. CASE Enters(c)
    <3>1. Stack' /\ disk_latest' = disk_latest /\ job'[c].block = job[c].block /\ job[c].pc = "executed"
      BY <2>4, RunJobFields DEF Enters, Still, Stack, Moves
    <3> QED
      BY <1>0, <2>1, <3>1 DEF OnTop
  <2>5. CASE Writes(c)
    <3>1. Stack' /\ disk_latest' = disk_latest /\ job'[c].block = job[c].block /\ job[c].pc = "accounts"
      BY <2>5, RunJobFields DEF Writes, Stack, Wrote
    <3> QED
      BY <1>0, <2>1, <3>1 DEF OnTop
  <2>6. CASE Hashes(c)
    <3>1. Stack' /\ disk_latest' = disk_latest /\ job'[c].block = job[c].block /\ job[c].pc = "accounts"
      BY <2>6, RunJobFields DEF Hashes, Still, Stack, Moves
    <3> QED
      BY <1>0, <2>1, <3>1 DEF OnTop
  <2>7. CASE Stores(c)
    <3> DEFINE b == job[c].block
    <3>1. job[c].pc = "trie" /\ job'[c].pc = "stored"
      BY <2>7, RunJobFields DEF Stores, Moves
    <3>2. b.number = disk_latest + 1 /\ disk_latest \in Nat /\ latest_height = disk_latest
          /\ DOMAIN chain = 0..disk_latest
      BY <3>1 DEF OnTop, TypeInv, ChainOK, Stack
    <3>3. /\ DOMAIN chain' = DOMAIN chain \cup {b.number} /\ disk_latest' = b.number
          /\ latest_height' = IF latest_height >= b.number THEN latest_height ELSE b.number
      BY <2>7 DEF Stores
    <3> HIDE DEF b
    <3>4. (0..disk_latest) \cup {disk_latest + 1} = 0..(disk_latest + 1)
      BY <3>2
    <3>5. Stack'
      BY <3>2, <3>3, <3>4 DEF Stack
    <3> QED
      BY <1>0, <2>1, <3>1, <3>5 DEF OnTop
  <2> QED
    BY <1>3, <2>2, <2>3, <2>4, <2>5, <2>6, <2>7 DEF Calls
<1>4. ASSUME NEW c \in Committer, Ends(c) PROVE SerialInv'
  <2>1. Stack' /\ disk_latest' = disk_latest
    BY <1>4 DEF Ends, Still, Stack
  <2>2. \A d \in Committer : job'[d] = Idle \/ job'[d] = job[d]
    BY <1>4 DEF Ends, Others
  <2> QED
    BY <1>0, <2>1, <2>2 DEF OneCall, OnTop
<1> QED
  BY <1>1, <1>2, <1>3, <1>4, StepShape

LEMMA SerialInvariant == ASSUME MayOverlap = FALSE PROVE Spec => []SerialInv
<1>1. Init => SerialInv
  BY SerialInit
<1>2. TypeInv /\ SerialInv /\ [Next]_vars => SerialInv'
  BY SerialStep
<1> QED
  BY <1>1, <1>2, BlockCommitTypeInv, PTL DEF Spec

(* When calls of execute_and_commit do not overlap, a height that has a    *)
(* block keeps it: put_block never writes over one, also after a restart.  *)
THEOREM BlockHeightWrittenOnce == ASSUME MayOverlap = FALSE PROVE Spec => HeightWrittenOnce
<1>1. ASSUME TypeInv, SerialInv, [Next]_vars, NEW n \in DOMAIN chain
      PROVE  n \in DOMAIN chain' /\ chain'[n] = chain[n]
  <2>1. CASE chain' = chain
    BY <2>1
  <2>2. ASSUME NEW c \in Committer, Stores(c) PROVE n \in DOMAIN chain' /\ chain'[n] = chain[n]
    <3> DEFINE b == job[c].block
    <3>1. job[c].pc = "trie"
      BY <2>2 DEF Stores, Moves
    <3>2. b.number = disk_latest + 1 /\ DOMAIN chain = 0..disk_latest /\ disk_latest \in Nat
      BY <1>1, <3>1 DEF SerialInv, OnTop, Stack, TypeInv, ChainOK
    <3>3. n # b.number
      BY <3>2
    <3> QED
      BY <2>2, <3>3 DEF Stores
  <2> QED
    BY <1>1, <2>1, <2>2, StepShape DEF Quiet, Restarts, Calls, Starts, Ends, Runs, Enters, Writes, Hashes, Still
<1>2. TypeInv /\ SerialInv /\ [Next]_vars =>
        [\A n \in DOMAIN chain : n \in DOMAIN chain' /\ chain'[n] = chain[n]]_vars
  BY <1>1
<1> QED
  BY <1>2, BlockCommitTypeInv, SerialInvariant, PTL DEF Spec, HeightWrittenOnce
-----------------------------------------------------------------------------
(* Nonces: the chain, the block that is being written, the accounts *)

Txs(n) == chain[n].txs

Covered == \A n \in DOMAIN chain : \A i \in DOMAIN Txs(n) :
                Txs(n)[i].nonce < accounts[Txs(n)[i].from].nonce
Distinct == \A n, m \in DOMAIN chain : \A i \in DOMAIN Txs(n), j \in DOMAIN Txs(m) :
                SameKey(Txs(n)[i], Txs(m)[j]) => n = m /\ i = j

(* The nonce an account has when the diff is written. *)
FinalNonce(c, a) == IF a \in DOMAIN job[c].diff THEN job[c].diff[a].nonce ELSE accounts[a].nonce

Rising(b) == \A i, j \in 1..Len(b.txs) :
                i < j /\ b.txs[i].from = b.txs[j].from => b.txs[i].nonce < b.txs[j].nonce
Past(b) == \A n \in DOMAIN chain : \A k \in DOMAIN Txs(n) : \A i \in 1..Len(b.txs) :
                Txs(n)[k].from = b.txs[i].from => Txs(n)[k].nonce < b.txs[i].nonce
Grows(c) == \A a \in DOMAIN job[c].diff : accounts[a].nonce <= job[c].diff[a].nonce
Behind(c) == LET b == job[c].block IN
             \A i \in 1..Len(b.txs) : b.txs[i].nonce < FinalNonce(c, b.txs[i].from)

Ahead(c) == /\ Grows(c) /\ Behind(c) /\ Rising(job[c].block) /\ Past(job[c].block)
            /\ job[c].pc = "trie" => DOMAIN job[c].diff = {}

NonceInv == /\ Covered /\ Distinct
            /\ \A c \in Committer : job[c].pc \in {"executed", "accounts", "trie"} => Ahead(c)

LEMMA PositionsAre ==
    \A p \in Positions : /\ p[1] \in DOMAIN chain /\ p[2] \in DOMAIN Txs(p[1])
                         /\ p = <<p[1], p[2]>> /\ TxAt(p) = Txs(p[1])[p[2]]
  BY DEF Positions, TxAt, Txs

LEMMA NonceImplies == ASSUME NonceInv PROVE AccountsCoverChain /\ NoReplay
<1>1. AccountsCoverChain
  BY PositionsAre DEF AccountsCoverChain, NonceInv, Covered
<1>2. ASSUME NEW p \in Positions, NEW q \in Positions, SameKey(TxAt(p), TxAt(q)) PROVE p = q
  <2>1. p[1] = q[1] /\ p[2] = q[2]
    BY <1>2, PositionsAre DEF NonceInv, Distinct
  <2> QED
    BY <2>1, PositionsAre
<1> QED
  BY <1>1, <1>2 DEF NoReplay

LEMMA NonceInit == ASSUME Init PROVE NonceInv
<1>1. \A c \in Committer : job[c].pc = "idle"
  BY DEF Init, Idle
<1>2. DOMAIN chain = {0} /\ chain[0].txs = <<>>
  BY DEF Init, Genesis
<1>3. \A n \in DOMAIN chain : DOMAIN Txs(n) = {}
  BY <1>2 DEF Txs
<1> QED
  BY <1>1, <1>3 DEF NonceInv, Covered, Distinct

(* The execution of a block: its transactions carry the nonces from its    *)
(* senders' on, and the diff holds the nonces after them.                  *)
LEMMA RunsAhead ==
    ASSUME TypeInv, NonceInv, NEW c \in Committer, Runs(c)
    PROVE  Ahead(c)'
<1> DEFINE b == job[c].block
           r == ExecuteTxs(accounts, b)
           d == StateDiff(r.view, b)
           s == Sealed(b, d)
           m == Len(b.txs)
<1>1. /\ Still /\ BuiltOK(b) /\ r.ok /\ job'[c] = RunJob("executed", d, s) /\ accounts \in States /\ BodyOK(b)
  BY DEF Runs, TypeInv, BuiltOK
<1>2. job'[c].pc = "executed" /\ job'[c].diff = d /\ job'[c].block = s
  BY <1>1, RunJobFields
<1>3. r \in Results /\ Prefix(r.view, accounts, b, m)
  BY <1>1, ExecuteFacts
<1> HIDE DEF r
<1>4. r.view \in States
  BY <1>3 DEF Results
<1> DEFINE final == Credit(r.view, b.coinbase, BlockReward)
<1>5. /\ final \in States /\ DiffOK(d) /\ DOMAIN d = Touched(b)
      /\ \A a \in Touched(b) : d[a] = final[a]
  BY <1>1, <1>4, DiffFacts
<1>6. \A a \in Address : final[a].nonce = r.view[a].nonce
  BY <1>1, <1>4, CreditFacts, BlockCommitConstants DEF BodyOK
<1>7. s.txs = b.txs
  BY <1>1, SealedFacts
<1>8. /\ Touched(b) \subseteq Address
      /\ \A i \in 1..m : b.txs[i] \in Tx /\ b.txs[i].from \in Touched(b)
  BY <1>1, TakersTouched, BurnsType DEF Takers
<1>9. \A a \in Touched(b) : d[a].nonce = r.view[a].nonce
  BY <1>5, <1>6, <1>8
<1> HIDE DEF d, s, final, b, m
<1>10. accounts' = accounts /\ chain' = chain
  BY <1>1 DEF Still
<1>11. Grows(c)'
  BY <1>2, <1>3, <1>5, <1>8, <1>9, <1>10 DEF Grows, Prefix
<1>12. Behind(c)'
  <2>1. \A i \in 1..m : b.txs[i].nonce < d[b.txs[i].from].nonce
    BY <1>3, <1>8, <1>9 DEF Prefix
  <2> QED
    BY <1>2, <1>5, <1>7, <1>8, <2>1 DEF Behind, FinalNonce, m
<1>13. Rising(s)
  BY <1>3, <1>7 DEF Rising, Prefix, m
<1>14. Past(s)
  <2>1. ASSUME NEW n \in DOMAIN chain, NEW k \in DOMAIN Txs(n), NEW i \in 1..m,
               Txs(n)[k].from = b.txs[i].from
        PROVE  Txs(n)[k].nonce < b.txs[i].nonce
    <3> DEFINE a == b.txs[i].from
               x == Txs(n)[k].nonce
               y == b.txs[i].nonce
               z == accounts[a].nonce
    <3>1. x < z
      BY <2>1 DEF NonceInv, Covered
    <3>2. z <= y
      BY <1>3 DEF Prefix
    <3>3. x \in Nat /\ y \in Nat /\ z \in Nat
      <4>1. Txs(n)[k] \in Tx
        BY DEF Txs, TypeInv, ChainOK, BlockOK
      <4>2. y \in Nat /\ a \in Address
        BY <1>8, TxFields
      <4>3. x \in Nat
        BY <4>1, TxFields
      <4> QED
        BY <1>1, <4>2, <4>3 DEF States, Account
    <3> HIDE DEF x, y, z
    <3>4. x < y
      BY <3>1, <3>2, <3>3
    <3> QED
      BY <3>4 DEF x, y
  <2> QED
    BY <1>7, <2>1 DEF Past, m
<1>15. Rising(job[c].block)'
  BY <1>2, <1>13 DEF Rising
<1>16. Past(job[c].block)'
  BY <1>2, <1>10, <1>14 DEF Past, Txs
<1> QED
  BY <1>2, <1>11, <1>12, <1>15, <1>16 DEF Ahead

LEMMA WritesAhead ==
    ASSUME TypeInv, NonceInv, NEW c \in Committer, Writes(c)
    PROVE  Ahead(c)' /\ Covered'
<1> DEFINE d == job[c].diff
           b == job[c].block
<1>1. PICK a \in Address : Wrote(c, a)
  BY DEF Writes
<1> DEFINE rest == [x \in DOMAIN d \ {a} |-> d[x]]
<1>2. /\ job[c].pc = "accounts" /\ DiffOK(d) /\ SealedOK(b) /\ a \in DOMAIN d
      /\ accounts' = [accounts EXCEPT ![a] = d[a]] /\ accounts' \in States /\ accounts \in States
      /\ job'[c] = RunJob("accounts", rest, b)
  BY <1>1 DEF Wrote, TypeInv
<1>3. job'[c].pc = "accounts" /\ job'[c].diff = rest /\ job'[c].block = b
  BY <1>2, RunJobFields
<1>4. Grows(c) /\ Behind(c) /\ Rising(b) /\ Past(b)
  BY <1>2 DEF NonceInv, Ahead
<1>5. DOMAIN rest = DOMAIN d \ {a} /\ \A x \in DOMAIN d \ {a} : rest[x] = d[x]
  OBVIOUS
<1>6. accounts'[a] = d[a] /\ \A x \in Address \ {a} : accounts'[x] = accounts[x]
  BY <1>2 DEF States
<1>7. chain' = chain
  BY DEF Writes
<1> HIDE DEF d, b, rest
<1>8. Grows(c)'
  BY <1>2, <1>3, <1>4, <1>5, <1>6 DEF Grows, d, DiffOK
<1>9. \A x \in Address : FinalNonce(c, x)' = FinalNonce(c, x)
  BY <1>2, <1>3, <1>5, <1>6 DEF FinalNonce, d
<1>10. Behind(c)'
  <2>1. \A i \in 1..Len(b.txs) : b.txs[i].from \in Address
    BY <1>2, BurnsType, TxFields DEF SealedOK, BuiltOK
  <2>2. \A i \in 1..Len(b.txs) : b.txs[i].nonce < FinalNonce(c, b.txs[i].from)
    BY <1>4 DEF Behind, b
  <2>3. \A i \in 1..Len(b.txs) : \A x \in Address : x = b.txs[i].from => b.txs[i].nonce < FinalNonce(c, x)'
    BY <1>9, <2>2
  <2> QED
    BY <1>3, <2>1, <2>3 DEF Behind, FinalNonce
<1>11. Rising(job[c].block)'
  BY <1>3, <1>4 DEF Rising
<1>12. Past(job[c].block)'
  BY <1>3, <1>4, <1>7 DEF Past, Txs
<1>13. \A x \in Address : accounts[x].nonce <= accounts'[x].nonce
  BY <1>2, <1>4, <1>6 DEF Grows, d, States, Account
<1>14. Covered'
  <2>1. ASSUME NEW n \in DOMAIN chain, NEW i \in DOMAIN Txs(n)
        PROVE  Txs(n)[i].nonce < accounts'[Txs(n)[i].from].nonce
    <3> DEFINE tx == Txs(n)[i]
    <3>1. tx \in Tx
      BY DEF Txs, TypeInv, ChainOK, BlockOK
    <3>2. tx.nonce < accounts[tx.from].nonce
      BY DEF NonceInv, Covered
    <3>3. tx.from \in Address /\ tx.nonce \in Nat
      BY <3>1, TxFields
    <3>4. accounts[tx.from].nonce \in Nat /\ accounts'[tx.from].nonce \in Nat
      BY <1>2, <3>3 DEF States, Account
    <3> HIDE DEF tx
    <3>5. tx.nonce < accounts'[tx.from].nonce
      BY <1>13, <3>2, <3>3, <3>4
    <3> QED
      BY <3>5 DEF tx
  <2> QED
    BY <1>7, <2>1 DEF Covered, Txs
<1> QED
  BY <1>3, <1>8, <1>10, <1>11, <1>12, <1>14 DEF Ahead

LEMMA StoresCovered ==
    ASSUME TypeInv, SerialInv, NonceInv, NEW c \in Committer, Stores(c)
    PROVE  Covered' /\ Distinct'
<1> DEFINE b == job[c].block
           h == b.number
<1>1. /\ Moves(c, "trie", "stored") /\ accounts' = accounts
      /\ DOMAIN chain' = DOMAIN chain \cup {h} /\ chain'[h] = b
      /\ \A n \in DOMAIN chain \ {h} : chain'[n] = chain[n]
  BY DEF Stores
<1>2. job[c].pc = "trie" /\ BodyOK(b)
  BY <1>1 DEF Moves, SealedOK, BuiltOK
<1>3. Behind(c) /\ Rising(b) /\ Past(b) /\ DOMAIN job[c].diff = {}
  BY <1>2 DEF NonceInv, Ahead
<1>4. h \notin DOMAIN chain
  BY <1>2 DEF SerialInv, OnTop, Stack, TypeInv, ChainOK
<1>5. DOMAIN b.txs = 1..Len(b.txs) /\ \A i \in 1..Len(b.txs) : b.txs[i] \in Tx
  BY <1>2, BurnsType
<1>6. \A n \in DOMAIN chain : chain'[n].txs = Txs(n)
  BY <1>1, <1>4 DEF Txs
<1>7. chain'[h].txs = b.txs
  BY <1>1 DEF Txs
<1>8. \A i \in 1..Len(b.txs) : b.txs[i].nonce < accounts[b.txs[i].from].nonce
  BY <1>3 DEF Behind, FinalNonce
<1> HIDE DEF b, h
<1>9. Covered'
  <2>1. ASSUME NEW n \in DOMAIN chain', NEW i \in DOMAIN chain'[n].txs
        PROVE  chain'[n].txs[i].nonce < accounts'[chain'[n].txs[i].from].nonce
    <3>1. CASE n = h
      BY <1>1, <1>5, <1>7, <1>8, <2>1, <3>1
    <3>2. CASE n # h
      <4>1. n \in DOMAIN chain /\ i \in DOMAIN Txs(n)
        BY <1>1, <1>6, <2>1, <3>2
      <4>2. Txs(n)[i].nonce < accounts[Txs(n)[i].from].nonce
        BY <4>1 DEF NonceInv, Covered
      <4> QED
        BY <1>1, <1>6, <4>1, <4>2
    <3> QED
      BY <3>1, <3>2
  <2> QED
    BY <2>1 DEF Covered, Txs
<1>10. ASSUME NEW n \in DOMAIN chain, NEW k \in DOMAIN Txs(n), NEW i \in 1..Len(b.txs)
       PROVE  ~ SameKey(Txs(n)[k], b.txs[i]) /\ ~ SameKey(b.txs[i], Txs(n)[k])
  <2>1. Txs(n)[k] \in Tx
    BY DEF Txs, TypeInv, ChainOK, BlockOK
  <2>2. Txs(n)[k].nonce \in Nat /\ b.txs[i].nonce \in Nat
    BY <1>5, <2>1, TxFields
  <2>3. Txs(n)[k].from = b.txs[i].from => Txs(n)[k].nonce < b.txs[i].nonce
    BY <1>3 DEF Past
  <2> QED
    BY <2>2, <2>3 DEF SameKey
<1>11. ASSUME NEW i \in 1..Len(b.txs), NEW j \in 1..Len(b.txs), SameKey(b.txs[i], b.txs[j]) PROVE i = j
  <2>1. b.txs[i].nonce \in Nat /\ b.txs[j].nonce \in Nat
    BY <1>5, TxFields
  <2>2. ~ (i < j) /\ ~ (j < i)
    BY <1>3, <1>11, <2>1 DEF Rising, SameKey
  <2> QED
    BY <2>2
<1>12. Distinct'
  <2>1. ASSUME NEW n \in DOMAIN chain', NEW m \in DOMAIN chain', NEW i \in DOMAIN chain'[n].txs,
               NEW j \in DOMAIN chain'[m].txs, SameKey(chain'[n].txs[i], chain'[m].txs[j])
        PROVE  n = m /\ i = j
    <3>1. CASE n = h /\ m = h
      BY <1>5, <1>7, <1>11, <2>1, <3>1
    <3>2. CASE n = h /\ m # h
      BY <1>1, <1>5, <1>6, <1>7, <1>10, <2>1, <3>2
    <3>3. CASE n # h /\ m = h
      BY <1>1, <1>5, <1>6, <1>7, <1>10, <2>1, <3>3
    <3>4. CASE n # h /\ m # h
      BY <1>1, <1>6, <2>1, <3>4 DEF NonceInv, Distinct
    <3> QED
      BY <3>1, <3>2, <3>3, <3>4
  <2> QED
    BY <2>1 DEF Distinct, Txs
<1> QED
  BY <1>9, <1>12

LEMMA AheadKept ==
    ASSUME NEW c \in Committer, Ahead(c), UNCHANGED <<accounts, chain>>,
           job'[c].diff = job[c].diff, job'[c].block = job[c].block,
           job'[c].pc = "trie" => DOMAIN job[c].diff = {}
    PROVE  Ahead(c)'
<1>1. Grows(c)' /\ Behind(c)'
  BY DEF Ahead, Grows, Behind, FinalNonce
<1>2. Rising(job[c].block)' /\ Past(job[c].block)'
  BY DEF Ahead, Rising, Past, Txs
<1> QED
  BY <1>1, <1>2 DEF Ahead

LEMMA NonceStep ==
    ASSUME MayOverlap = FALSE, TypeInv, SerialInv, NonceInv, [Next]_vars
    PROVE  NonceInv'
<1>0. Idle.pc = "idle"
  BY DEF Idle
<1>1. ASSUME UNCHANGED <<accounts, chain>> PROVE Covered' /\ Distinct'
  BY <1>1 DEF NonceInv, Covered, Distinct, Txs
<1>2. CASE Quiet
  <2>1. UNCHANGED <<accounts, chain, job>>
    BY <1>2 DEF Quiet, Still
  <2>2. \A c \in Committer : job[c].pc \in {"executed", "accounts", "trie"} => Ahead(c)'
    BY <2>1, AheadKept DEF NonceInv, Ahead
  <2> QED
    BY <1>1, <2>1, <2>2 DEF NonceInv
<1>3. CASE Restarts
  BY <1>0, <1>1, <1>3 DEF Restarts, NonceInv
<1>4. ASSUME NEW c \in Committer, Ends(c) PROVE NonceInv'
  <2>1. UNCHANGED <<accounts, chain>> /\ job'[c] = Idle /\ \A d \in Committer \ {c} : job'[d] = job[d]
    BY <1>4 DEF Ends, Still, Others
  <2>2. \A d \in Committer : job'[d].pc \in {"executed", "accounts", "trie"} => Ahead(d)'
    <3> SUFFICES ASSUME NEW d \in Committer, job'[d].pc \in {"executed", "accounts", "trie"}
                 PROVE  Ahead(d)'
      OBVIOUS
    <3>1. d # c /\ job'[d] = job[d]
      BY <1>0, <2>1
    <3>2. Ahead(d)
      BY <3>1 DEF NonceInv
    <3> QED
      BY <2>1, <3>1, <3>2, AheadKept DEF Ahead
  <2> QED
    BY <1>1, <2>1, <2>2 DEF NonceInv
<1>5. ASSUME NEW c \in Committer, Calls(c), ~ Ends(c) PROVE NonceInv'
  <2>1. \A d \in Committer \ {c} : job'[d].pc = "idle"
    BY <1>0, <1>5, CallerAlone DEF SerialInv
  <2>2. SUFFICES /\ Covered' /\ Distinct'
                 /\ job'[c].pc \in {"executed", "accounts", "trie"} => Ahead(c)'
    BY <2>1 DEF NonceInv
  <2>3. CASE Starts(c)
    BY <1>1, <2>3 DEF Starts, Start, Still
  <2>4. CASE Runs(c)
    BY <1>1, <2>4, RunsAhead DEF Runs, Still
  <2>5. CASE Enters(c)
    <3>1. /\ UNCHANGED <<accounts, chain>> /\ job[c].pc = "executed" /\ job'[c].pc = "accounts"
          /\ job'[c].diff = job[c].diff /\ job'[c].block = job[c].block
      BY <2>5, RunJobFields DEF Enters, Still, Moves
    <3>2. Ahead(c)
      BY <3>1 DEF NonceInv
    <3> QED
      BY <1>1, <3>1, <3>2, AheadKept
  <2>6. CASE Writes(c)
    <3>1. Ahead(c)' /\ Covered'
      BY <2>6, WritesAhead
    <3>2. Distinct'
      BY <2>6 DEF Writes, NonceInv, Distinct, Txs
    <3> QED
      BY <3>1, <3>2
  <2>7. CASE Hashes(c)
    <3>1. /\ UNCHANGED <<accounts, chain>> /\ job[c].pc = "accounts" /\ DOMAIN job[c].diff = {}
          /\ job'[c].diff = job[c].diff /\ job'[c].block = job[c].block
      BY <2>7, RunJobFields DEF Hashes, Still, Moves
    <3>2. Ahead(c)
      BY <3>1 DEF NonceInv
    <3> QED
      BY <1>1, <3>1, <3>2, AheadKept
  <2>8. CASE Stores(c)
    <3>1. job'[c].pc = "stored"
      BY <2>8, RunJobFields DEF Stores, Moves
    <3> QED
      BY <2>8, <3>1, StoresCovered
  <2> QED
    BY <1>5, <2>3, <2>4, <2>5, <2>6, <2>7, <2>8 DEF Calls
<1> QED
  BY <1>2, <1>3, <1>4, <1>5, StepShape

LEMMA NonceInvariant == ASSUME MayOverlap = FALSE PROVE Spec => []NonceInv
<1>1. Init => NonceInv
  BY NonceInit
<1>2. TypeInv /\ SerialInv /\ NonceInv /\ [Next]_vars => NonceInv'
  BY NonceStep
<1> QED
  BY <1>1, <1>2, BlockCommitTypeInv, SerialInvariant, PTL DEF Spec

(* A block on disk is never ahead of the accounts, whatever the moment of  *)
(* a crash: put_account for the whole diff comes before put_block.         *)
THEOREM BlocksCovered == ASSUME MayOverlap = FALSE PROVE Spec => []AccountsCoverChain
  BY NonceInvariant, NonceImplies, PTL

(* No signed nonce is executed twice on one chain, also when a crash left  *)
(* part of a diff on disk or an admission read an old account.             *)
THEOREM BlocksNoReplay == ASSUME MayOverlap = FALSE PROVE Spec => []NoReplay
  BY NonceInvariant, NonceImplies, PTL
-----------------------------------------------------------------------------
(* The books: the accounts against the replay of the chain, and the coins *)

GenesisState == [a \in Address |-> [nonce |-> 0, balance |-> GenesisBalance]]

IsReplay(g, ch, h) ==
    g = [n \in 0..h |-> IF n = 0 THEN GenesisState ELSE ApplyBlock(g[n - 1], ch[n])]
ReplayRun(ch, h) == CHOOSE g : IsReplay(g, ch, h)
ReplayOf(ch, h) == ReplayRun(ch, h)[h]

Burnt(ch, h) == SumFunctionOnSet([n \in 1..h |-> BurntIn(ch[n])], 1..h)
Total(h) == Cardinality(Address) * GenesisBalance + BlockReward * h

(* Execution looks at the transactions, the base fee and the coinbase. *)
ExecuteBody(st, txs, base, coinbase) ==
    LET run[n \in 0..Len(txs)] ==
            IF n = 0 THEN [ok |-> TRUE, view |-> st]
            ELSE ExecuteTx(run[n - 1], txs[n], base, coinbase)
    IN  run[Len(txs)]
BurntBody(txs, base) ==
    SumFunctionOnSet([i \in DOMAIN txs |-> BurntBy(txs[i], base)], DOMAIN txs)

LEMMA SealedSame ==
    ASSUME NEW st, NEW b, NEW s, s.txs = b.txs, s.base_fee = b.base_fee, s.coinbase = b.coinbase
    PROVE  ApplyBlock(st, s) = ApplyBlock(st, b) /\ BurntIn(s) = BurntIn(b)
<1>1. \A x : ExecuteTxs(st, x) = ExecuteBody(st, x.txs, x.base_fee, x.coinbase)
  BY Zenon DEF ExecuteTxs, ExecuteBody
<1>2. \A x : BurntIn(x) = BurntBody(x.txs, x.base_fee)
  BY Zenon DEF BurntIn, BurntBody
<1>3. ExecuteTxs(st, s) = ExecuteTxs(st, b)
  BY <1>1
<1> QED
  BY <1>2, <1>3 DEF ApplyBlock

LEMMA BlockApplies ==
    ASSUME NEW st \in States, NEW b, BodyOK(b) PROVE ApplyBlock(st, b) \in States
<1>1. ExecuteTxs(st, b).view \in States
  BY ExecuteFacts DEF Results
<1> QED
  BY <1>1, CreditFacts, BlockCommitConstants DEF ApplyBlock, BodyOK

LEMMA GenesisTyped == GenesisState \in States
  BY BlockCommitConstants DEF GenesisState, States, Account

LEMMA ReplayExists ==
    ASSUME NEW h \in Nat, NEW ch, \A n \in 1..h : BodyOK(ch[n])
    PROVE  IsReplay(ReplayRun(ch, h), ch, h)
<1> DEFINE step == [p \in (1..h) \X States |-> ApplyBlock(p[2], ch[p[1]])]
<1>1. \A n \in 1..h, st \in States : ApplyBlock(st, ch[n]) \in States
  BY BlockApplies
<1>2. /\ step \in [(1..h) \X States -> States]
      /\ \A n \in 1..h, st \in States : step[<<n, st>>] = ApplyBlock(st, ch[n])
  BY <1>1
<1> HIDE DEF step
<1>3. PICK g : IsRecursion(g, h, States, GenesisState, step)
  BY <1>2, GenesisTyped, RecursionExists
<1>4. \A n \in 0..h : g[n] = IF n = 0 THEN GenesisState ELSE ApplyBlock(g[n - 1], ch[n])
  <2> TAKE n \in 0..h
  <2>1. CASE n = 0
    BY <1>3, <2>1 DEF IsRecursion
  <2>2. CASE n # 0
    <3>1. n \in 1..h /\ n - 1 \in 0..h
      BY <2>2
    <3>2. g[n - 1] \in States /\ g[n] = step[<<n, g[n - 1]>>]
      BY <1>3, <3>1 DEF IsRecursion
    <3> QED
      BY <1>2, <2>2, <3>1, <3>2
  <2> QED
    BY <2>1, <2>2
<1>5. g = [n \in 0..h |-> IF n = 0 THEN GenesisState ELSE ApplyBlock(g[n - 1], ch[n])]
  BY <1>3, <1>4 DEF IsRecursion
<1>6. IsReplay(g, ch, h)
  BY <1>5, Zenon DEF IsReplay
<1> QED
  BY <1>6, Zenon DEF ReplayRun

LEMMA ReplayValue ==
    ASSUME NEW g, NEW ch, NEW h, IsReplay(g, ch, h), NEW n \in 0..h
    PROVE  g[n] = IF n = 0 THEN GenesisState ELSE ApplyBlock(g[n - 1], ch[n])
<1> DEFINE f == [k \in 0..h |-> IF k = 0 THEN GenesisState ELSE ApplyBlock(g[k - 1], ch[k])]
<1>1. g = f
  BY Zenon DEF IsReplay
<1>2. f[n] = IF n = 0 THEN GenesisState ELSE ApplyBlock(g[n - 1], ch[n])
  OBVIOUS
<1> HIDE DEF f
<1> QED
  BY <1>1, <1>2

LEMMA ReplayGenesis == ASSUME NEW ch PROVE ReplayOf(ch, 0) = GenesisState
<1>1. \A n \in 1..0 : BodyOK(ch[n])
  OBVIOUS
<1>2. IsReplay(ReplayRun(ch, 0), ch, 0)
  BY <1>1, ReplayExists
<1>3. 0 \in 0..0
  OBVIOUS
<1> QED
  BY <1>2, <1>3, ReplayValue DEF ReplayOf

(* A block more on top of the same blocks. *)
LEMMA ReplayExtend ==
    ASSUME NEW h \in Nat, NEW ch, NEW dh, \A n \in 1..h : BodyOK(ch[n]) /\ dh[n] = ch[n],
           BodyOK(dh[h + 1])
    PROVE  ReplayOf(dh, h + 1) = ApplyBlock(ReplayOf(ch, h), dh[h + 1])
<1> DEFINE f == ReplayRun(ch, h)
           g == ReplayRun(dh, h + 1)
           Good == {n \in 0..h : g[n] = f[n]}
<1>1. IsReplay(f, ch, h)
  BY ReplayExists
<1>2. \A n \in 1..(h + 1) : BodyOK(dh[n])
  <2> TAKE n \in 1..(h + 1)
  <2>1. n \in 1..h \/ n = h + 1
    OBVIOUS
  <2> QED
    BY <2>1
<1>3. IsReplay(g, dh, h + 1)
  BY <1>2, ReplayExists
<1> HIDE DEF f, g
<1>4. \A n \in 0..h : f[n] = IF n = 0 THEN GenesisState ELSE ApplyBlock(f[n - 1], ch[n])
  BY <1>1, ReplayValue
<1>5. \A n \in 0..(h + 1) : g[n] = IF n = 0 THEN GenesisState ELSE ApplyBlock(g[n - 1], dh[n])
  BY <1>3, ReplayValue
<1>6. 0 \in Good
  <2>1. 0 \in 0..h /\ 0 \in 0..(h + 1)
    OBVIOUS
  <2> QED
    BY <1>4, <1>5, <2>1
<1>7. ASSUME NEW n \in 1..h, n - 1 \in Good PROVE n \in Good
  <2>1. n \in 0..h /\ n \in 0..(h + 1) /\ n # 0
    OBVIOUS
  <2>2. f[n] = ApplyBlock(f[n - 1], ch[n]) /\ g[n] = ApplyBlock(g[n - 1], dh[n])
    BY <1>4, <1>5, <2>1
  <2>3. g[n - 1] = f[n - 1] /\ dh[n] = ch[n]
    BY <1>7
  <2> QED
    BY <2>1, <2>2, <2>3
<1> HIDE DEF Good
<1>8. \A n \in 0..h : n \in Good
  BY <1>6, <1>7, IntervalInduction
<1>9. g[h] = f[h]
  <2>1. h \in Good
    BY <1>8
  <2> QED
    BY <2>1 DEF Good
<1>10. g[h + 1] = ApplyBlock(g[h], dh[h + 1])
  <2>1. h + 1 \in 0..(h + 1) /\ h + 1 # 0 /\ (h + 1) - 1 = h
    OBVIOUS
  <2>2. g[h + 1] = ApplyBlock(g[(h + 1) - 1], dh[h + 1])
    BY <1>5, <2>1
  <2> QED
    BY <2>1, <2>2
<1> QED
  BY <1>9, <1>10 DEF ReplayOf, f, g

LEMMA ReplayIs ==
    /\ Replay = ReplayOf(chain, disk_latest)
    /\ Replay' = ReplayOf(chain', disk_latest')
  BY Zenon DEF Replay, ReplayOf, ReplayRun, IsReplay, GenesisState

LEMMA BurntTyped ==
    ASSUME NEW b, BodyOK(b)
    PROVE  BurntIn(b) \in Nat /\ BurntIn(b) = SumFunctionOnSet(Burns(b), 1..Len(b.txs))
<1>1. /\ Len(b.txs) \in Nat /\ DOMAIN b.txs = 1..Len(b.txs)
      /\ \A i \in 1..Len(b.txs) : Burns(b)[i] \in Nat
  BY BurnsType
<1>2. IsFiniteSet(1..Len(b.txs))
  BY <1>1, FS_Interval
<1>3. SumFunctionOnSet(Burns(b), 1..Len(b.txs)) \in Nat
  <2> DEFINE f == Burns(b)
             S == 1..Len(b.txs)
  <2> HIDE DEF f, S
  <2>1. \A i \in S : f[i] \in Nat
    BY <1>1 DEF f, S
  <2>2. SumFunctionOnSet(f, S) \in Nat
    BY <1>2, <2>1, SumNat DEF S
  <2> QED
    BY <2>2 DEF f, S
<1>4. BurntIn(b) = SumFunctionOnSet(Burns(b), DOMAIN b.txs)
  BY Zenon DEF BurntIn, Burns
<1>5. BurntIn(b) = SumFunctionOnSet(Burns(b), 1..Len(b.txs))
  BY <1>1, <1>4, Zenon
<1> QED
  BY <1>3, <1>5

LEMMA BurntExtend ==
    ASSUME NEW h \in Nat, NEW ch, NEW dh, \A n \in 1..h : BodyOK(ch[n]) /\ dh[n] = ch[n],
           BodyOK(dh[h + 1])
    PROVE  /\ Burnt(ch, h) \in Nat
           /\ Burnt(dh, h + 1) = Burnt(ch, h) + BurntIn(dh[h + 1])
<1> DEFINE S == 1..h
           f == [n \in 1..h |-> BurntIn(ch[n])]
           g == [n \in 1..(h + 1) |-> BurntIn(dh[n])]
           k == h + 1
<1>1. IsFiniteSet(S) /\ k \notin S /\ S \cup {k} = 1..k
  <2>1. IsFiniteSet(S)
    BY FS_Interval
  <2>2. k \notin S /\ S \cup {k} = 1..k
    OBVIOUS
  <2> QED
    BY <2>1, <2>2
<1>2. \A n \in S : f[n] \in Nat /\ g[n] = f[n]
  BY BurntTyped
<1>3. g[k] = BurntIn(dh[k]) /\ g[k] \in Nat
  BY BurntTyped
<1>4. Burnt(dh, k) = SumFunctionOnSet(g, 1..k) /\ Burnt(ch, h) = SumFunctionOnSet(f, S)
  BY Zenon DEF Burnt
<1> HIDE DEF S, f, g, k
<1>5. SumFunctionOnSet(f, S) \in Nat
  BY <1>1, <1>2, SumNat
<1>6. \A x \in S \cup {k} : g[x] \in Int
  BY <1>2, <1>3
<1>7. SumFunctionOnSet(g, S \cup {k}) = g[k] + SumFunctionOnSet(g, S)
  BY <1>1, <1>6, SumAdd
<1>8. SumFunctionOnSet(g, S) = SumFunctionOnSet(f, S)
  <2>1. \A x \in S : f[x] \in Int /\ g[x] = f[x]
    BY <1>2
  <2> QED
    BY <1>1, <2>1, SumSame
<1>9. SumFunctionOnSet(g, 1..k) = SumFunctionOnSet(g, S \cup {k})
  BY <1>1, Zenon
<1>10. Burnt(dh, k) = Burnt(ch, h) + BurntIn(dh[k])
  BY <1>3, <1>4, <1>5, <1>7, <1>8, <1>9
<1> QED
  BY <1>4, <1>5, <1>10 DEF k

(* The accounts once the rest of the diff is written. *)
Overlay(c) == [a \in Address |-> IF a \in DOMAIN job[c].diff THEN job[c].diff[a] ELSE accounts[a]]

Settled == /\ accounts = ReplayOf(chain, disk_latest)
           /\ Money(accounts) + Burnt(chain, disk_latest) = Total(disk_latest)
Promised(c) ==
    /\ Overlay(c) = ApplyBlock(ReplayOf(chain, disk_latest), job[c].block)
    /\ Money(Overlay(c)) + BurntIn(job[c].block) + Burnt(chain, disk_latest) = Total(disk_latest + 1)

BooksInv == crashes = 0 =>
    /\ ~ Writing => Settled
    /\ \A c \in Committer : job[c].pc \in {"executed", "accounts", "trie"} => Promised(c)

LEMMA BooksInit == ASSUME Init PROVE BooksInv
<1>1. \A c \in Committer : job[c].pc = "idle"
  BY DEF Init, Idle
<1>2. accounts = GenesisState /\ disk_latest = 0
  BY DEF Init, GenesisState
<1>3. ReplayOf(chain, 0) = GenesisState
  BY ReplayGenesis
<1>4. Burnt(chain, 0) = 0
  <2>1. 1..0 = {}
    OBVIOUS
  <2>2. Burnt(chain, 0) = SumFunctionOnSet([n \in 1..0 |-> BurntIn(chain[n])], 1..0)
    BY Zenon DEF Burnt
  <2>3. Burnt(chain, 0) = SumFunctionOnSet([n \in 1..0 |-> BurntIn(chain[n])], {})
    BY <2>1, <2>2, Zenon
  <2> QED
    BY <2>3, SumEmpty
<1>5. Money(GenesisState) = GenesisBalance * Cardinality(Address)
  <2> DEFINE f == [a \in Address |-> GenesisState[a].balance]
  <2>1. \A a \in Address : f[a] = GenesisBalance
    BY DEF GenesisState
  <2>2. GenesisBalance \in Nat
    BY BlockCommitConstants
  <2> HIDE DEF f
  <2>3. SumFunctionOnSet(f, Address) = GenesisBalance * Cardinality(Address)
    BY <2>1, <2>2, AddressFinite, SumConst
  <2> QED
    BY <2>3 DEF f, Money
<1>6. Money(GenesisState) + 0 = Total(0)
  <2>1. GenesisBalance \in Nat /\ BlockReward \in Nat /\ Cardinality(Address) \in Nat
    BY BlockCommitConstants, AddressFinite, FS_CardinalityType
  <2> QED
    BY <1>5, <2>1 DEF Total
<1>7. Settled
  BY <1>2, <1>3, <1>4, <1>6 DEF Settled
<1> QED
  BY <1>1, <1>7 DEF BooksInv

LEMMA ChainBodies ==
    ASSUME TypeInv, SerialInv
    PROVE  disk_latest \in Nat /\ \A n \in 1..disk_latest : n \in DOMAIN chain /\ BodyOK(chain[n])
<1>1. disk_latest \in Nat /\ DOMAIN chain = 0..disk_latest /\ \A n \in DOMAIN chain : BlockOK(chain[n], n)
  BY DEF TypeInv, ChainOK, SerialInv, Stack
<1> QED
  BY <1>1 DEF BlockOK, BodyOK

LEMMA TotalNext ==
    ASSUME NEW h \in Nat
    PROVE  Total(h) \in Nat /\ Total(h + 1) \in Nat /\ Total(h + 1) = Total(h) + BlockReward
<1>1. GenesisBalance \in Nat /\ BlockReward \in Nat /\ Cardinality(Address) \in Nat
  BY BlockCommitConstants, AddressFinite, FS_CardinalityType
<1>2. BlockReward * (h + 1) = BlockReward * h + BlockReward /\ BlockReward * h \in Nat
      /\ Cardinality(Address) * GenesisBalance \in Nat
  BY <1>1
<1> QED
  BY <1>1, <1>2 DEF Total

LEMMA BurntChain ==
    ASSUME TypeInv, SerialInv PROVE Burnt(chain, disk_latest) \in Nat
<1> DEFINE S == 1..disk_latest
           f == [n \in 1..disk_latest |-> BurntIn(chain[n])]
<1>1. IsFiniteSet(S) /\ \A n \in S : f[n] \in Nat
  BY ChainBodies, BurntTyped, FS_Interval
<1> HIDE DEF S, f
<1>2. SumFunctionOnSet(f, S) \in Nat
  BY <1>1, SumNat
<1> QED
  BY <1>2, Zenon DEF Burnt, S, f

(* The diff of a block holds every account the block changes. *)
LEMMA RunsPromised ==
    ASSUME TypeInv, SerialInv, Settled, NEW c \in Committer, Runs(c)
    PROVE  Promised(c)'
<1> DEFINE b == job[c].block
           r == ExecuteTxs(accounts, b)
           d == StateDiff(r.view, b)
           s == Sealed(b, d)
           m == Len(b.txs)
           h == disk_latest
<1>1. /\ Still /\ BuiltOK(b) /\ r.ok /\ job'[c] = RunJob("executed", d, s) /\ accounts \in States /\ BodyOK(b)
  BY DEF Runs, TypeInv, BuiltOK
<1>2. job'[c].diff = d /\ job'[c].block = s
  BY <1>1, RunJobFields
<1>3. r \in Results /\ Prefix(r.view, accounts, b, m)
  BY <1>1, ExecuteFacts
<1>4. r.view \in States
  BY <1>3 DEF Results
<1> DEFINE final == Credit(r.view, b.coinbase, BlockReward)
<1>5. /\ final \in States /\ DOMAIN d = Touched(b)
      /\ \A a \in Touched(b) : d[a] = final[a]
  BY <1>1, <1>4, DiffFacts
<1>6. /\ \A a \in Address \ {b.coinbase} : final[a] = r.view[a]
      /\ Money(final) = Money(r.view) + BlockReward
  BY <1>1, <1>4, CreditFacts, BlockCommitConstants DEF BodyOK
<1>7. s.txs = b.txs /\ s.base_fee = b.base_fee /\ s.coinbase = b.coinbase
  BY <1>1, SealedFacts
<1>8. Touched(b) \subseteq Address /\ b.coinbase \in Touched(b) /\ \A i \in 1..m : Takers(b, i) \subseteq Touched(b)
  BY <1>1, TakersTouched
<1>9. ApplyBlock(accounts, s) = final /\ BurntIn(s) = BurntIn(b)
  <2>1. ApplyBlock(accounts, b) = final
    BY DEF ApplyBlock
  <2> HIDE DEF final, s
  <2> QED
    BY <1>7, <2>1, SealedSame
<1>10. BurntIn(b) \in Nat /\ Money(r.view) + BurntIn(b) = Money(accounts)
  BY <1>1, <1>3, BurntTyped DEF Prefix
<1>11. accounts' = accounts /\ chain' = chain /\ disk_latest' = h
  BY <1>1 DEF Still
<1> HIDE DEF r, d, s, final, b, m, h
<1>12. \A a \in Address \ Touched(b) : final[a] = accounts[a]
  <2> TAKE a \in Address \ Touched(b)
  <2>1. a # b.coinbase /\ \A i \in 1..m : a \notin Takers(b, i)
    BY <1>8
  <2>2. r.view[a] = accounts[a]
    BY <1>3, <2>1 DEF Prefix
  <2> QED
    BY <1>6, <2>1, <2>2
<1>13. Overlay(c)' = final
  <2>1. Overlay(c)' = [a \in Address |-> IF a \in DOMAIN d THEN d[a] ELSE accounts[a]]
    BY <1>2, <1>11 DEF Overlay
  <2>2. final = [a \in Address |-> final[a]]
    BY <1>5 DEF States
  <2> QED
    BY <1>5, <1>12, <2>1, <2>2
<1>14. Money(final) + BurntIn(s) + Burnt(chain, h) = Total(h + 1)
  <2>1. Money(accounts) + Burnt(chain, h) = Total(h) /\ h \in Nat
    BY ChainBodies DEF Settled, h
  <2>2. Burnt(chain, h) \in Nat
    BY BurntChain DEF h
  <2>3. Money(r.view) \in Nat /\ Money(final) \in Nat /\ Money(accounts) \in Nat
    BY <1>1, <1>4, <1>5, MoneyType
  <2>4. Total(h + 1) = Total(h) + BlockReward /\ Total(h) \in Nat /\ BlockReward \in Nat
    BY <2>1, TotalNext, BlockCommitConstants
  <2> QED
    BY <1>6, <1>9, <1>10, <2>1, <2>2, <2>3, <2>4
<1>15. ReplayOf(chain, h) = accounts
  BY DEF Settled, h
<1>16. Overlay(c)' = ApplyBlock(ReplayOf(chain', disk_latest'), job'[c].block)
  BY <1>2, <1>9, <1>11, <1>13, <1>15
<1>17. Money(Overlay(c)') + BurntIn(job'[c].block) + Burnt(chain', disk_latest') = Total(disk_latest' + 1)
  BY <1>2, <1>11, <1>13, <1>14
<1> QED
  BY <1>16, <1>17 DEF Promised

LEMMA PromisedKept ==
    ASSUME NEW c \in Committer, Promised(c), UNCHANGED <<chain, disk_latest>>,
           Overlay(c)' = Overlay(c), job'[c].block = job[c].block
    PROVE  Promised(c)'
  BY DEF Promised

LEMMA WritesOverlay ==
    ASSUME TypeInv, NEW c \in Committer, Writes(c)
    PROVE  Overlay(c)' = Overlay(c) /\ job'[c].block = job[c].block
<1> DEFINE d == job[c].diff
<1>1. PICK a \in Address : Wrote(c, a)
  BY DEF Writes
<1> DEFINE rest == [x \in DOMAIN d \ {a} |-> d[x]]
<1>2. /\ a \in DOMAIN d /\ accounts' = [accounts EXCEPT ![a] = d[a]] /\ accounts \in States
      /\ job'[c] = RunJob("accounts", rest, job[c].block)
  BY <1>1 DEF Wrote, TypeInv
<1>3. job'[c].diff = rest /\ job'[c].block = job[c].block
  BY <1>2, RunJobFields
<1>4. DOMAIN rest = DOMAIN d \ {a} /\ \A x \in DOMAIN d \ {a} : rest[x] = d[x]
  OBVIOUS
<1>5. accounts'[a] = d[a] /\ \A x \in Address \ {a} : accounts'[x] = accounts[x]
  BY <1>2 DEF States
<1> HIDE DEF rest
<1>6. \A x \in Address : (IF x \in DOMAIN rest THEN rest[x] ELSE accounts'[x])
                         = (IF x \in DOMAIN d THEN d[x] ELSE accounts[x])
  <2> HIDE DEF d
  <2> QED
    BY <1>2, <1>4, <1>5
<1>7. Overlay(c)' = [x \in Address |-> IF x \in DOMAIN rest THEN rest[x] ELSE accounts'[x]]
  BY <1>3 DEF Overlay
<1>8. Overlay(c)' = Overlay(c)
  BY <1>6, <1>7 DEF Overlay
<1> QED
  BY <1>3, <1>8

LEMMA StoresSettled ==
    ASSUME TypeInv, SerialInv, NonceInv, NEW c \in Committer, Promised(c), Stores(c)
    PROVE  Settled'
<1> DEFINE b == job[c].block
           h == disk_latest
<1>1. /\ Moves(c, "trie", "stored") /\ accounts' = accounts
      /\ DOMAIN chain' = DOMAIN chain \cup {b.number} /\ chain'[b.number] = b
      /\ \A n \in DOMAIN chain \ {b.number} : chain'[n] = chain[n]
      /\ disk_latest' = b.number
  BY DEF Stores
<1>2. job[c].pc = "trie" /\ BodyOK(b)
  BY <1>1 DEF Moves, SealedOK, BuiltOK
<1>3. b.number = h + 1 /\ DOMAIN chain = 0..h
  BY <1>2 DEF SerialInv, OnTop, Stack
<1>4. DOMAIN job[c].diff = {}
  BY <1>2 DEF NonceInv, Ahead
<1>5. Overlay(c) = accounts
  BY <1>4 DEF Overlay, TypeInv, States
<1>6. h \in Nat /\ \A n \in 1..h : BodyOK(chain[n])
  BY ChainBodies
<1>7. /\ accounts = ApplyBlock(ReplayOf(chain, h), b)
      /\ Money(accounts) + BurntIn(b) + Burnt(chain, h) = Total(h + 1)
  BY <1>5 DEF Promised
<1> HIDE DEF b, h
<1> DEFINE dh == chain'
<1>8. (\A n \in 1..h : BodyOK(chain[n]) /\ dh[n] = chain[n]) /\ BodyOK(dh[h + 1]) /\ dh[h + 1] = b
  BY <1>1, <1>2, <1>3, <1>6
<1> HIDE DEF dh
<1>9. ReplayOf(dh, h + 1) = ApplyBlock(ReplayOf(chain, h), b)
  BY <1>6, <1>8, ReplayExtend
<1>10. Burnt(chain, h) \in Nat /\ Burnt(dh, h + 1) = Burnt(chain, h) + BurntIn(b) /\ BurntIn(b) \in Nat
  BY <1>2, <1>6, <1>8, BurntExtend, BurntTyped
<1>11. Money(accounts) \in Nat
  BY MoneyType DEF TypeInv
<1>12. Money(accounts) + Burnt(dh, h + 1) = Total(h + 1)
  BY <1>7, <1>10, <1>11
<1> QED
  BY <1>1, <1>3, <1>7, <1>9, <1>12 DEF Settled, dh

LEMMA BooksStep ==
    ASSUME MayOverlap = FALSE, TypeInv, SerialInv, NonceInv, BooksInv, [Next]_vars
    PROVE  BooksInv'
<1>0. Idle.pc = "idle"
  BY DEF Idle
<1>a. crashes \in Nat
  BY DEF TypeInv
<1>1. ASSUME UNCHANGED <<accounts, chain, disk_latest>>, Settled PROVE Settled'
  BY <1>1 DEF Settled
<1>2. ASSUME NEW c \in Committer, UNCHANGED <<accounts, chain, disk_latest>>, Promised(c),
             job'[c].diff = job[c].diff, job'[c].block = job[c].block
      PROVE  Promised(c)'
  <2>1. Overlay(c)' = Overlay(c)
    BY <1>2 DEF Overlay
  <2> QED
    BY <1>2, <2>1, PromisedKept
<1>3. CASE Quiet
  <2>1. UNCHANGED <<accounts, chain, disk_latest, job, crashes>>
    BY <1>3 DEF Quiet, Still
  <2>2. Writing' <=> Writing
    BY <2>1 DEF Writing
  <2> QED
    BY <1>1, <1>2, <2>1, <2>2 DEF BooksInv
<1>4. CASE Restarts
  <2>1. crashes' # 0
    BY <1>a, <1>4 DEF Restarts
  <2> QED
    BY <2>1 DEF BooksInv
<1>5. ASSUME NEW c \in Committer, Ends(c) PROVE BooksInv'
  <2>1. /\ UNCHANGED <<accounts, chain, disk_latest, crashes>> /\ job'[c] = Idle
        /\ \A d \in Committer \ {c} : job'[d] = job[d]
        /\ job[c].pc \in {"built", "executed", "stored"}
    BY <1>5 DEF Ends, Still, Others
  <2>2. Writing' <=> Writing
    <3>1. \A d \in Committer : job'[d].pc \in {"accounts", "trie"} <=> job[d].pc \in {"accounts", "trie"}
      BY <1>0, <2>1
    <3> QED
      BY <3>1 DEF Writing
  <2>3. ASSUME crashes = 0, NEW d \in Committer, job'[d].pc \in {"executed", "accounts", "trie"}
        PROVE  Promised(d)'
    <3>1. job'[d] = job[d]
      BY <1>0, <2>1, <2>3
    <3>2. Promised(d)
      BY <2>3, <3>1 DEF BooksInv
    <3> QED
      BY <1>2, <2>1, <3>1, <3>2
  <2> QED
    BY <1>1, <2>1, <2>2, <2>3 DEF BooksInv
<1>6. ASSUME NEW c \in Committer, Calls(c), ~ Ends(c), crashes = 0, crashes' = 0 PROVE BooksInv'
  <2>1. \A d \in Committer \ {c} : job[d].pc = "idle" /\ job'[d].pc = "idle"
    BY <1>0, <1>6, CallerAlone DEF SerialInv
  <2>2. SUFFICES /\ job'[c].pc \notin {"accounts", "trie"} => Settled'
                 /\ job'[c].pc \in {"executed", "accounts", "trie"} => Promised(c)'
    <3>1. Writing' <=> job'[c].pc \in {"accounts", "trie"}
      BY <2>1 DEF Writing
    <3> QED
      BY <2>1, <2>2, <3>1 DEF BooksInv
  <2>3. job[c].pc \notin {"accounts", "trie"} => Settled
    BY <1>6, <2>1 DEF BooksInv, Writing
  <2>4. job[c].pc \in {"executed", "accounts", "trie"} => Promised(c)
    BY <1>6 DEF BooksInv
  <2>5. CASE Starts(c)
    <3>1. job[c].pc = "idle" /\ job'[c].pc = "built" /\ UNCHANGED <<accounts, chain, disk_latest>>
      BY <1>0, <2>5 DEF Starts, Start, Still, MayStart
    <3> QED
      BY <1>1, <2>3, <3>1
  <2>6. CASE Runs(c)
    <3>1. job[c].pc = "built" /\ job'[c].pc = "executed" /\ UNCHANGED <<accounts, chain, disk_latest>>
      BY <2>6, RunJobFields DEF Runs, Still
    <3>2. Settled
      BY <2>3, <3>1
    <3>3. Promised(c)'
      BY <2>6, <3>2, RunsPromised
    <3> QED
      BY <1>1, <3>1, <3>2, <3>3
  <2>7. CASE Enters(c)
    <3>1. /\ job[c].pc = "executed" /\ job'[c].pc = "accounts" /\ UNCHANGED <<accounts, chain, disk_latest>>
          /\ job'[c].diff = job[c].diff /\ job'[c].block = job[c].block
      BY <2>7, RunJobFields DEF Enters, Still, Moves
    <3> QED
      BY <1>2, <2>4, <3>1
  <2>8. CASE Writes(c)
    <3>1. job[c].pc = "accounts" /\ job'[c].pc = "accounts" /\ UNCHANGED <<chain, disk_latest>>
      BY <2>8, RunJobFields DEF Writes, Wrote
    <3> QED
      BY <2>4, <2>8, <3>1, WritesOverlay, PromisedKept
  <2>9. CASE Hashes(c)
    <3>1. /\ job[c].pc = "accounts" /\ job'[c].pc = "trie" /\ UNCHANGED <<accounts, chain, disk_latest>>
          /\ job'[c].diff = job[c].diff /\ job'[c].block = job[c].block
      BY <2>9, RunJobFields DEF Hashes, Still, Moves
    <3> QED
      BY <1>2, <2>4, <3>1
  <2>10. CASE Stores(c)
    <3>1. job[c].pc = "trie" /\ job'[c].pc = "stored"
      BY <2>10, RunJobFields DEF Stores, Moves
    <3> QED
      BY <2>4, <2>10, <3>1, StoresSettled
  <2> QED
    BY <1>6, <2>5, <2>6, <2>7, <2>8, <2>9, <2>10 DEF Calls
<1>7. ASSUME NEW c \in Committer, Calls(c), ~ Ends(c) PROVE BooksInv'
  <2>1. crashes' = crashes
    BY <1>7 DEF Calls, Starts, Runs, Enters, Writes, Hashes, Stores, Still
  <2>2. CASE crashes' # 0
    BY <2>2 DEF BooksInv
  <2> QED
    BY <1>6, <1>7, <2>1, <2>2
<1> QED
  BY <1>3, <1>4, <1>5, <1>7, StepShape

LEMMA BooksInvariant == ASSUME MayOverlap = FALSE PROVE Spec => []BooksInv
<1>1. Init => BooksInv
  BY BooksInit
<1>2. TypeInv /\ SerialInv /\ NonceInv /\ BooksInv /\ [Next]_vars => BooksInv'
  BY BooksStep
<1> QED
  BY <1>1, <1>2, BlockCommitTypeInv, SerialInvariant, NonceInvariant, PTL DEF Spec

(* Between commits of a process that never crashed the accounts on disk    *)
(* are what a peer computes who executes the stored blocks from genesis:   *)
(* the diff of execute_and_commit misses no account the executor changed.  *)
THEOREM BlocksReplay == ASSUME MayOverlap = FALSE PROVE Spec => []AccountsAreReplay
<1>1. BooksInv => AccountsAreReplay
  BY ReplayIs DEF BooksInv, Settled, AccountsAreReplay
<1> QED
  BY <1>1, BooksInvariant, PTL

(* Coins on accounts and burnt fees add up to the genesis allocation and   *)
(* the rewards, over every chain: the refund, the burn and the tip of the  *)
(* executor split the fee exactly, a reverted transfer returns its value.  *)
THEOREM BlocksConserveValue == ASSUME MayOverlap = FALSE PROVE Spec => []ValueConserved
<1>1. ASSUME BooksInv PROVE ValueConserved
  <2>1. ASSUME crashes = 0, ~ Writing
        PROVE  Money(accounts) + Burnt(chain, disk_latest) = Total(disk_latest)
    BY <1>1, <2>1 DEF BooksInv, Settled
  <2> QED
    BY <2>1, Zenon DEF ValueConserved, Money, Burnt, Total
<1>2. BooksInv => ValueConserved
  BY <1>1
<1> QED
  BY <1>2, BooksInvariant, PTL
=============================================================================
