------------------------------- MODULE Mempool -------------------------------
(***************************************************************************)
(* The transaction pool of crates/zbx-mempool (pool.rs, nonce_tracker.rs)  *)
(* as operators on a pool record:                                          *)
(*   pending      slots [tx, priority], one per (from, nonce)              *)
(*   queued       transactions of a future nonce, one per (from, nonce)    *)
(*   known        identities (hashes) of the transactions                  *)
(*   on_chain, pending_max, base_fee                                       *)
(* A transaction is a record [id, from, to, nonce, tip, fee, gas, used,    *)
(* value, reverts]: fee is max_fee_per_gas, gas the gas limit, used and    *)
(* reverts what execution will make of it.  Signatures are ideal.          *)
(***************************************************************************)
EXTENDS Integers, FiniteSets, FiniteSetsExt

CONSTANTS
    Address,            \* accounts
    MaxPending,         \* MempoolConfig::max_pending
    MaxQueued,          \* MempoolConfig::max_queued
    MaxSlots,           \* MempoolConfig::max_slots_per_sender
    MaxNonceGap,        \* MempoolConfig::max_nonce_gap
    MinTip,             \* MempoolConfig::min_gas_tip
    Intrinsic,          \* intrinsic gas of a transaction
    BlockGasLimit,
    GenesisBaseFee      \* base fee of genesis, and the pool's default

ASSUME MempoolConstants ==
    /\ {MaxPending, MaxQueued, MaxSlots, MaxNonceGap, MinTip, Intrinsic,
        BlockGasLimit, GenesisBaseFee} \subseteq Nat
    /\ BlockGasLimit >= 2 /\ IsFiniteSet(Address)

NoNonce == -1

SatSub(x, y) == IF x > y THEN x - y ELSE 0

EmptyPool ==
    [pending |-> {}, queued |-> {}, known |-> {},
     on_chain |-> [a \in Address |-> 0],
     pending_max |-> [a \in Address |-> NoNonce],
     base_fee |-> GenesisBaseFee]
-----------------------------------------------------------------------------
(* What the sender offers above the base fee. *)
Tip(tx, base) == Min({tx.tip, SatSub(tx.fee, base)})

SlotCost(tx) == tx.fee * tx.gas + tx.value

SameKey(x, y) == x.from = y.from /\ x.nonce = y.nonce

PendingAt(p, tx) == {s \in p.pending : SameKey(s.tx, tx)}
QueuedAt(p, tx) == {q \in p.queued : SameKey(q, tx)}

PooledOf(p, a) == {s.tx : s \in {t \in p.pending : t.tx.from = a}}
                  \cup {q \in p.queued : q.from = a}

(* Both maps are counted: a key in both takes two slots. *)
SenderSlots(p, a) ==
    Cardinality({s \in p.pending : s.tx.from = a})
    + Cardinality({q \in p.queued : q.from = a})

CumulativeCost(p, a) ==
    MapThenSumSet(LAMBDA s : SlotCost(s.tx), {s \in p.pending : s.tx.from = a})
    + MapThenSumSet(SlotCost, {q \in p.queued : q.from = a})
-----------------------------------------------------------------------------
(* nonce_tracker.rs *)

(* A slip: the confirmed nonces stay recorded as pending. *)
SetOnChainKeep(p, nonces) ==
    [p EXCEPT !.on_chain = [a \in Address |-> IF a \in DOMAIN nonces THEN nonces[a] ELSE @[a]]]

(* The committed nonces of the senders in the domain of nonces. *)
SetOnChain(p, nonces) ==
    [p EXCEPT !.on_chain = [a \in Address |-> IF a \in DOMAIN nonces THEN nonces[a] ELSE @[a]],
              !.pending_max = [a \in Address |->
                    IF a \in DOMAIN nonces /\ @[a] <= nonces[a] THEN NoNonce ELSE @[a]]]

NextNonce(p, a) ==
    IF p.pending_max[a] # NoNonce THEN p.pending_max[a] + 1 ELSE p.on_chain[a]

RecordPending(p, a, n) == [p EXCEPT !.pending_max[a] = Max({@, n, 0})]
-----------------------------------------------------------------------------
Slot(p, tx) == [tx |-> tx, priority |-> Tip(tx, p.base_fee)]

PutPending(p, tx) ==
    [RecordPending(p, tx.from, tx.nonce) EXCEPT
        !.pending = (@ \ PendingAt(p, tx)) \cup {Slot(p, tx)}]

(* promote_queued, for some senders: the queued transactions from the next *)
(* nonce on, as far as there is no gap.                                    *)
Promotable(p, a) ==
    {q \in p.queued : /\ q.from = a
                      /\ q.nonce >= NextNonce(p, a)
                      /\ \A n \in NextNonce(p, a)..q.nonce :
                            \E r \in p.queued : r.from = a /\ r.nonce = n}

PromoteQueued(p, senders) ==
    LET up == UNION {Promotable(p, a) : a \in senders} IN
    [p EXCEPT
        !.queued = @ \ up,
        !.pending = {s \in @ : ~ \E q \in up : SameKey(q, s.tx)} \cup {Slot(p, q) : q \in up},
        !.pending_max = [a \in Address |->
            IF \E q \in up : q.from = a THEN Max({q.nonce : q \in {r \in up : r.from = a}})
            ELSE @[a]]]
-----------------------------------------------------------------------------
(* add_transaction: the checks before the nonce tracker is touched ... *)
Wellformed(p, tx, balance) ==
    /\ tx.id \notin p.known
    /\ tx.gas <= BlockGasLimit
    /\ Tip(tx, p.base_fee) >= MinTip
    /\ tx.gas >= Intrinsic
    /\ SlotCost(tx) <= balance

IsReplacement(p, tx) == PendingAt(p, tx) # {} \/ QueuedAt(p, tx) # {}

(* The slot a replacement is measured against: the pending one if any. *)
OldSlot(p, tx) ==
    IF PendingAt(p, tx) # {} THEN CHOOSE s \in PendingAt(p, tx) : TRUE
    ELSE Slot(p, CHOOSE q \in QueuedAt(p, tx) : TRUE)

Room(p, tx) ==
    IF tx.nonce = NextNonce(p, tx.from) THEN Cardinality(p.pending) < MaxPending
    ELSE Cardinality(p.queued) < MaxQueued

(* ... and those after it. *)
Admits(p, tx, balance, nonce) ==
    /\ tx.nonce >= nonce
    /\ tx.nonce - nonce <= MaxNonceGap
    /\ IF IsReplacement(p, tx)
       THEN LET old == OldSlot(p, tx) IN
            /\ SatSub(CumulativeCost(p, tx.from), SlotCost(old.tx)) + SlotCost(tx) <= balance
            /\ Tip(tx, p.base_fee) >= (old.priority * 1125) \div 1000 + 1
       ELSE /\ SenderSlots(p, tx.from) < MaxSlots
            /\ CumulativeCost(p, tx.from) + SlotCost(tx) <= balance
            /\ Room(p, tx)

(* A replacement whose nonce is not the next one goes to the queue and     *)
(* leaves the pending slot where it is.                                    *)
Insert(p, tx) ==
    LET q == [p EXCEPT !.known = (@ \ ({s.tx.id : s \in PendingAt(p, tx)}
                                       \cup {t.id : t \in QueuedAt(p, tx)})) \cup {tx.id}]
    IN  IF tx.nonce = NextNonce(p, tx.from)
        THEN PromoteQueued(PutPending(q, tx), {tx.from})
        ELSE [q EXCEPT !.queued = (@ \ QueuedAt(p, tx)) \cup {tx}]

(* balance and nonce are what the caller read from the accounts. *)
AddTransaction(p, tx, balance, nonce) ==
    IF ~ Wellformed(p, tx, balance) THEN p
    ELSE LET q == SetOnChain(p, [a \in {tx.from} |-> nonce]) IN
         IF Admits(q, tx, balance, nonce) THEN Insert(q, tx) ELSE q
-----------------------------------------------------------------------------
(* remove_confirmed, for the transactions of a block: the tracker moves    *)
(* past each sender's last one (a block has them in nonce order), then     *)
(* what became eligible is promoted.                                       *)
LastConfirmed(txs) ==
    [a \in {tx.from : tx \in txs} |-> Max({tx.nonce : tx \in {t \in txs : t.from = a}}) + 1]

RemoveConfirmed(p, txs) ==
    LET q == [p EXCEPT
                !.pending = {s \in @ : ~ \E tx \in txs : SameKey(s.tx, tx)},
                !.queued = {t \in @ : ~ \E tx \in txs : SameKey(t, tx)},
                !.known = @ \ {tx.id : tx \in txs}]
    IN  PromoteQueued(SetOnChain(q, LastConfirmed(txs)), {tx.from : tx \in txs})

UpdateBaseFee(p, fee) == [p EXCEPT !.base_fee = fee]
=============================================================================
