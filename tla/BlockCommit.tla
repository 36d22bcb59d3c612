---------------------------- MODULE BlockCommit ----------------------------
(***************************************************************************)
(* How a block gets from the mempool (or from a peer) to disk:             *)
(*   node/src/block_producer.rs   build_candidate, execute_and_commit      *)
(*   node/src/network.rs          blocks and transactions of peers         *)
(*   zbx-execution/executor.rs    the transactions of a block              *)
(*   zbx-fee/base_fee.rs          the base fee                             *)
(*   zbx-storage/db.rs            accounts, blocks, the latest pointer     *)
(*   zbx-pruner                   mark and sweep of the state tries        *)
(* Committers run concurrently: the producer (or consensus driver) and the *)
(* importer share the database, the mempool and the pruner's lock.  The    *)
(* trie of a state is one node, identified by the accounts it commits to.  *)
(***************************************************************************)
EXTENDS Mempool, Sequences, SequencesExt

CONSTANTS
    Tx,                 \* the transactions users may sign
    PeerBodies,         \* bound: the bodies of blocks peers may send
    Committer,          \* "producer", "importer"
    Coinbase,           \* [Committer -> Address]
    GenesisBalance,
    BlockReward,        \* block_reward_at
    ProduceEmptyBlocks, \* ProducerConfig::produce_empty_blocks
    PrunerChoices,      \* which of [storage.pruner] enabled = true, false are considered
    RetainBlocks,       \* PrunerConfig::retain_blocks
    MayOverlap,         \* whether two calls of execute_and_commit may overlap
    MaxHeight,          \* bound: blocks of the chain
    MaxCrashes          \* bound: process crashes

ASSUME BlockCommitConstants ==
    /\ {GenesisBalance, BlockReward, RetainBlocks, MaxHeight, MaxCrashes} \subseteq Nat
    /\ Committer \subseteq {"producer", "importer"}
    /\ Coinbase \in [Committer -> Address]
    /\ \A tx \in Tx : /\ tx.from \in Address /\ tx.to \in Address /\ tx.reverts \in BOOLEAN
                      /\ {tx.nonce, tx.tip, tx.fee, tx.gas, tx.used, tx.value} \subseteq Nat
                      /\ tx.used <= tx.gas
    /\ PeerBodies \subseteq Seq(Tx)
    /\ {ProduceEmptyBlocks, MayOverlap} \subseteq BOOLEAN
    /\ PrunerChoices \subseteq BOOLEAN /\ PrunerChoices # {}

VARIABLES
    accounts,       \* disk: [Address -> [nonce, balance]]
    chain,          \* disk: number -> block
    disk_latest,    \* disk: META_LATEST
    nodes,          \* disk: roots whose trie nodes are stored
    latest_height,  \* memory: ZbxDb::latest_height
    pool,           \* memory: the mempool
    job,            \* memory: [Committer -> the call of execute_and_commit]
    reading,        \* memory: an admission between its account read and the pool
    retained,       \* memory: the pruner's checkpoints
    pruner,         \* memory: the pruner's cycle
    pruner_on,      \* configuration
    crashes

diskVars == <<accounts, chain, disk_latest, nodes>>
vars == <<diskVars, latest_height, pool, job, reading, retained, pruner, pruner_on, crashes>>

Nothing == [pc |-> "none"]
Idle == [pc |-> "idle"]
-----------------------------------------------------------------------------
(* Fees *)

MinBaseFee == 7

NextBaseFee(fee, used) ==
    LET target == BlockGasLimit \div 2
        next == IF used > target
                THEN fee + Max({1, ((fee * (used - target)) \div target) \div 8})
                ELSE SatSub(fee, ((fee * (target - used)) \div target) \div 8)
    IN  Max({next, MinBaseFee})

(* Above max_fee_per_gas when the base fee is. *)
EffectivePrice(tx, base) == base + Tip(tx, base)

(* A slip: only the unused gas is refunded, at the price paid. *)
FeePaidUnused(tx, base) == tx.fee * tx.gas - (tx.gas - tx.used) * EffectivePrice(tx, base)

(* What is left of the prepaid fee * gas after the refund. *)
FeePaid(tx, base) == Min({tx.fee * tx.gas, tx.used * EffectivePrice(tx, base)})
-----------------------------------------------------------------------------
(* Execution *)

(* A slip: a nonce that was used is let through. *)
PreflightLoose(st, tx) ==
    /\ tx.nonce <= st[tx.from].nonce
    /\ SlotCost(tx) <= st[tx.from].balance

Preflight(st, tx) ==
    /\ tx.nonce = st[tx.from].nonce
    /\ SlotCost(tx) <= st[tx.from].balance
    /\ Intrinsic <= tx.gas

Credit(st, a, amount) == [st EXCEPT ![a].balance = @ + amount]

(* The view after one transaction: the fee is settled, a value that was    *)
(* not delivered returns to the sender, the tip goes to the coinbase.      *)
ApplyTx(st, tx, base, coinbase) ==
    LET paid == [st EXCEPT ![tx.from].balance = @ - FeePaid(tx, base) - tx.value,
                           ![tx.from].nonce = @ + 1]
        moved == Credit(paid, IF tx.reverts THEN tx.from ELSE tx.to, tx.value)
    IN  Credit(moved, coinbase, Tip(tx, base) * tx.used)

(* One transaction that fails its preflight fails the block. *)
ExecuteTx(r, tx, base, coinbase) ==
    IF r.ok /\ Preflight(r.view, tx)
    THEN [ok |-> TRUE, view |-> ApplyTx(r.view, tx, base, coinbase)]
    ELSE [ok |-> FALSE, view |-> r.view]

ExecuteTxs(st, block) ==
    LET run[n \in 0..Len(block.txs)] ==
            IF n = 0 THEN [ok |-> TRUE, view |-> st]
            ELSE ExecuteTx(run[n - 1], block.txs[n], block.base_fee, block.coinbase)
    IN  run[Len(block.txs)]

(* A slip: the recipients are left out of the diff. *)
TouchedSenders(block) ==
    {block.coinbase} \cup {block.txs[i].from : i \in DOMAIN block.txs}

Touched(block) ==
    {block.coinbase} \cup UNION {{block.txs[i].from} \cup
        (IF block.txs[i].reverts THEN {} ELSE {block.txs[i].to}) : i \in DOMAIN block.txs}

GasUsed(block) ==
    SumFunctionOnSet([i \in DOMAIN block.txs |-> block.txs[i].used], DOMAIN block.txs)

(* The diff of the block, reward included: the accounts to be written. *)
StateDiff(view, block) ==
    LET final == Credit(view, block.coinbase, BlockReward)
    IN  [a \in Touched(block) |-> final[a]]
-----------------------------------------------------------------------------
(* build_candidate *)

(* select_transactions: by priority, equals in any order (a hash map);     *)
(* what does not fit is skipped and the next one is tried.                 *)
PriorityOrders(slots) ==
    {o \in [1..Cardinality(slots) -> slots] :
        \A i, j \in DOMAIN o : i < j => o[i] # o[j] /\ o[i].priority >= o[j].priority}

TakeFitting(r, tx) ==
    IF r.gas + tx.gas > BlockGasLimit THEN r
    ELSE [gas |-> r.gas + tx.gas, txs |-> Append(r.txs, tx)]

Fitting(order) ==
    LET take[n \in 0..Len(order)] ==
            IF n = 0 THEN [gas |-> 0, txs |-> <<>>] ELSE TakeFitting(take[n - 1], order[n].tx)
    IN  take[Len(order)].txs

(* The comparator orders two transactions of one sender and calls all      *)
(* others equal; the library sorts a short slice by insertion, so that a   *)
(* transaction moves left only past neighbours it is less than.            *)
Before(x, y) == x.from = y.from /\ x.nonce < y.nonce

InsertSorted(s, tx) ==
    LET k == Max({0} \cup {i \in DOMAIN s : ~ Before(tx, s[i])})
    IN  SubSeq(s, 1, k) \o <<tx>> \o SubSeq(s, k + 1, Len(s))

SortCandidate(s) ==
    LET sorted[n \in 0..Len(s)] == IF n = 0 THEN <<>> ELSE InsertSorted(sorted[n - 1], s[n])
    IN  sorted[Len(s)]

Candidates(p) == {SortCandidate(Fitting(o)) : o \in PriorityOrders(p.pending)}

NewBlock(c, txs) ==
    LET parent == chain[latest_height] IN
    [number |-> latest_height + 1, txs |-> txs, coinbase |-> Coinbase[c],
     base_fee |-> NextBaseFee(parent.base_fee, parent.gas_used)]
-----------------------------------------------------------------------------
Genesis == [number |-> 0, txs |-> <<>>, base_fee |-> GenesisBaseFee,
            coinbase |-> CHOOSE a \in Address : TRUE, gas_used |-> 0, root |-> <<>>]

Window(top) == SatSub(top + 1, RetainBlocks)..top

Init ==
    /\ accounts = [a \in Address |-> [nonce |-> 0, balance |-> GenesisBalance]]
    /\ chain = [n \in {0} |-> Genesis]
    /\ disk_latest = 0
    /\ nodes = {}
    /\ latest_height = 0
    /\ pool = EmptyPool
    /\ job = [c \in Committer |-> Idle]
    /\ reading = Nothing
    /\ retained = {[block |-> 0, root |-> Genesis.root]}
    /\ pruner = Idle
    /\ pruner_on \in PrunerChoices
    /\ crashes = 0
-----------------------------------------------------------------------------
(* Transactions of peers and of the RPC: the account is read, and the      *)
(* transaction is added under the pool's lock in a later step.             *)
ReadSender ==
    /\ reading = Nothing
    /\ \E tx \in Tx : reading' = [pc |-> "read", tx |-> tx, account |-> accounts[tx.from]]
    /\ UNCHANGED <<diskVars, latest_height, pool, job, retained, pruner, pruner_on, crashes>>

Admit ==
    /\ reading # Nothing
    /\ pool' = AddTransaction(pool, reading.tx, reading.account.balance, reading.account.nonce)
    /\ reading' = Nothing
    /\ UNCHANGED <<diskVars, latest_height, job, retained, pruner, pruner_on, crashes>>
-----------------------------------------------------------------------------
(* The committers *)

CommitFrame == <<latest_height, reading, pruner, pruner_on, crashes>>

MayStart(c) ==
    /\ c \in Committer /\ job[c] = Idle
    /\ MayOverlap \/ \A d \in Committer : job[d] = Idle
    /\ latest_height < MaxHeight

(* produce_one: the candidate on top of the head. *)
Produce ==
    LET c == "producer" IN
    /\ MayStart(c)
    /\ \E txs \in Candidates(pool) :
        /\ txs # <<>> \/ ProduceEmptyBlocks
        /\ job' = [job EXCEPT ![c] = [pc |-> "built", block |-> NewBlock(c, txs)]]
    /\ UNCHANGED <<diskVars, pool, retained, CommitFrame>>

(* Message::Block: only the height is compared; the body is the peer's.  *)
Import ==
    LET c == "importer" IN
    /\ MayStart(c)
    /\ \E txs \in PeerBodies :
        job' = [job EXCEPT ![c] = [pc |-> "built", block |-> NewBlock(c, txs)]]
    /\ UNCHANGED <<diskVars, pool, retained, CommitFrame>>

Sealed(block, diff) ==
    [number |-> block.number, txs |-> block.txs, coinbase |-> block.coinbase,
     base_fee |-> block.base_fee, gas_used |-> GasUsed(block), root |-> diff]

(* The accounts are read and the block is executed on them; an error drops *)
(* the block and leaves the pool as it is.                                 *)
Execute(c) ==
    /\ job[c].pc = "built"
    /\ LET block == job[c].block
           run == ExecuteTxs(accounts, block)
           diff == StateDiff(run.view, block)
       IN  job' = [job EXCEPT ![c] =
                IF run.ok
                THEN [pc |-> "executed", diff |-> diff, block |-> Sealed(block, diff)]
                ELSE Idle]
    /\ UNCHANGED <<diskVars, pool, retained, CommitFrame>>

(* The pruner's lock, which a node without a pruner does not install: a    *)
(* read guard is granted unless a writer holds the lock or waits for it,   *)
(* and a thread that already holds one is no exception.                    *)
ReadersIn == {c \in Committer : job[c].pc \in {"accounts", "trie", "stored"}}

ReadGuard == pruner_on => pruner.pc # "waiting"

(* The parent must still be the head; then the outer guard is taken.  The  *)
(* head does not move while a pruner waits, so the two are one step.       *)
CheckHead(c) ==
    /\ job[c].pc = "executed"
    /\ IF latest_height = job[c].block.number - 1
       THEN ReadGuard /\ job' = [job EXCEPT ![c].pc = "accounts"]
       ELSE job' = [job EXCEPT ![c] = Idle]
    /\ UNCHANGED <<diskVars, pool, retained, CommitFrame>>

(* One account after the other, in the order of a hash map, each synced. *)
PutAccount(c) ==
    /\ job[c].pc = "accounts"
    /\ \E a \in DOMAIN job[c].diff :
        /\ accounts' = [accounts EXCEPT ![a] = job[c].diff[a]]
        /\ job' = [job EXCEPT ![c].diff = [b \in DOMAIN @ \ {a} |-> @[b]]]
    /\ UNCHANGED <<chain, disk_latest, nodes, pool, retained, CommitFrame>>

(* A slip: the trie and the block are written beside the accounts. *)
CommitTrieEarly(c) ==
    /\ job[c].pc = "accounts" /\ ReadGuard
    /\ nodes' = nodes \cup {job[c].block.root}
    /\ job' = [job EXCEPT ![c].pc = "trie"]
    /\ UNCHANGED <<accounts, chain, disk_latest, pool, retained, CommitFrame>>

CommitTrie(c) ==
    /\ job[c].pc = "accounts" /\ DOMAIN job[c].diff = {}
    /\ ReadGuard
    /\ nodes' = nodes \cup {job[c].block.root}
    /\ job' = [job EXCEPT ![c].pc = "trie"]
    /\ UNCHANGED <<accounts, chain, disk_latest, pool, retained, CommitFrame>>

(* A slip: the latest pointer is not part of the batch. *)
PutBlockNoPointer(c) ==
    /\ job[c].pc = "trie" /\ ReadGuard
    /\ LET block == job[c].block IN
       /\ chain' = [n \in DOMAIN chain \cup {block.number} |->
                        IF n = block.number THEN block ELSE chain[n]]
       /\ latest_height' = Max({latest_height, block.number})
    /\ job' = [job EXCEPT ![c].pc = "stored"]
    /\ UNCHANGED <<accounts, nodes, disk_latest, pool, reading, retained, pruner, pruner_on, crashes>>

(* A slip: the height in memory is that of the next block. *)
PutBlockAhead(c) ==
    /\ job[c].pc = "trie" /\ ReadGuard
    /\ LET block == job[c].block IN
       /\ chain' = [n \in DOMAIN chain \cup {block.number} |->
                        IF n = block.number THEN block ELSE chain[n]]
       /\ disk_latest' = block.number
       /\ latest_height' = block.number + 1
    /\ job' = [job EXCEPT ![c].pc = "stored"]
    /\ UNCHANGED <<accounts, nodes, pool, reading, retained, pruner, pruner_on, crashes>>

(* Block, number and latest pointer in one synced batch. *)
PutBlock(c) ==
    /\ job[c].pc = "trie"
    /\ ReadGuard
    /\ LET block == job[c].block IN
       /\ chain' = [n \in DOMAIN chain \cup {block.number} |->
                        IF n = block.number THEN block ELSE chain[n]]
       /\ disk_latest' = block.number
       /\ latest_height' = Max({latest_height, block.number})
    /\ job' = [job EXCEPT ![c].pc = "stored"]
    /\ UNCHANGED <<accounts, nodes, pool, reading, retained, pruner, pruner_on, crashes>>

(* The mempool learns of the block, the pruner of its root, the outer      *)
(* guard is released.                                                      *)
Finish(c) ==
    /\ job[c].pc = "stored"
    /\ LET block == job[c].block IN
       /\ pool' = RemoveConfirmed(UpdateBaseFee(pool, block.base_fee), Range(block.txs))
       /\ retained' = IF pruner_on THEN retained \cup {[block |-> block.number, root |-> block.root]}
                      ELSE retained
    /\ job' = [job EXCEPT ![c] = Idle]
    /\ UNCHANGED <<diskVars, CommitFrame>>
-----------------------------------------------------------------------------
(* The pruner *)

PruneFrame == <<accounts, chain, disk_latest, latest_height, pool, job, reading,
                retained, pruner_on, crashes>>

(* run_once up to the lock: the live set of the retained window.  Nothing  *)
(* is swept when the window is empty or a node of it is missing.           *)
Mark ==
    /\ pruner_on /\ pruner = Idle /\ latest_height # 0
    /\ LET live == {r.root : r \in {q \in retained : q.block \in Window(latest_height)}}
       IN  /\ live # {} /\ live \subseteq nodes
           /\ pruner' = [pc |-> "marked", live |-> live]
    /\ UNCHANGED <<PruneFrame, nodes>>

WaitForLock ==
    /\ pruner.pc = "marked"
    /\ pruner' = [pruner EXCEPT !.pc = "waiting"]
    /\ UNCHANGED <<PruneFrame, nodes>>

Sweep ==
    /\ pruner.pc = "waiting" /\ ReadersIn = {}
    /\ nodes' = nodes \cap pruner.live
    /\ pruner' = Idle
    /\ UNCHANGED PruneFrame
-----------------------------------------------------------------------------
(* The process dies and starts again: the disk stays, the pool is empty,   *)
(* the retained window is read back from the stored blocks.                *)
Crash ==
    /\ crashes < MaxCrashes
    /\ crashes' = crashes + 1
    /\ latest_height' = disk_latest
    /\ pool' = EmptyPool
    /\ job' = [c \in Committer |-> Idle]
    /\ reading' = Nothing
    /\ retained' = {[block |-> n, root |-> chain[n].root] :
                        n \in Window(disk_latest) \cap DOMAIN chain}
    /\ pruner' = Idle
    /\ UNCHANGED <<diskVars, pruner_on>>

Commit(c) ==
    \/ Execute(c) \/ CheckHead(c)
    \/ PutAccount(c) \/ CommitTrie(c) \/ PutBlock(c) \/ Finish(c)

Prune == Mark \/ WaitForLock \/ Sweep

Next ==
    \/ ReadSender \/ Admit
    \/ Produce \/ Import
    \/ \E c \in Committer : Commit(c)
    \/ Prune
    \/ Crash

Spec == Init /\ [][Next]_vars

(* A call that is under way goes on, and a waiting pruner gets the lock    *)
(* when it is free; nobody is obliged to start anything.                   *)
FairSpec ==
    /\ Spec
    /\ \A c \in Committer : WF_vars(Commit(c))
    /\ WF_vars(Sweep)
-----------------------------------------------------------------------------
(* Properties *)

Account == [nonce : Nat, balance : Nat]

(* The variables have the shape the code gives them. *)
TypeOK ==
    /\ accounts \in [Address -> Account]
    /\ disk_latest \in DOMAIN chain /\ latest_height \in DOMAIN chain
    /\ \A n \in DOMAIN chain : chain[n].number = n
    /\ \A c \in Committer : job[c].pc \in
            {"idle", "built", "executed", "accounts", "trie", "stored"}
    /\ {s.tx : s \in pool.pending} \cup pool.queued \subseteq Tx
    /\ pruner.pc \in {"idle", "marked", "waiting"}
    /\ crashes \in 0..MaxCrashes

Positions == UNION {{n} \X DOMAIN chain[n].txs : n \in DOMAIN chain}
TxAt(p) == chain[p[1]].txs[p[2]]

(* No signed nonce is in the chain twice: not after a crash between the    *)
(* account writes, not after an admission that read an old account.        *)
NoReplay ==
    \A p, q \in Positions : SameKey(TxAt(p), TxAt(q)) => p = q

(* What a peer computes who executes the chain from genesis. *)
ApplyBlock(st, block) == Credit(ExecuteTxs(st, block).view, block.coinbase, BlockReward)

Replay ==
    LET after[n \in 0..disk_latest] ==
            IF n = 0 THEN [a \in Address |-> [nonce |-> 0, balance |-> GenesisBalance]]
            ELSE ApplyBlock(after[n - 1], chain[n])
    IN  after[disk_latest]

Writing == \E c \in Committer : job[c].pc \in {"accounts", "trie"}

(* Between commits of a process that never crashed the accounts on disk    *)
(* are what the blocks on disk produce: the diff that is written account   *)
(* by account misses nothing the execution touched.                        *)
AccountsAreReplay == (crashes = 0 /\ ~ Writing) => accounts = Replay

BurntBy(tx, base) == Min({tx.fee * tx.gas, tx.used * base})
BurntIn(block) ==
    SumFunctionOnSet([i \in DOMAIN block.txs |-> BurntBy(block.txs[i], block.base_fee)],
                     DOMAIN block.txs)

(* No coin appears or is lost: fees are split between burn and coinbase,   *)
(* undelivered value returns, only the reward is new.                      *)
ValueConserved ==
    (crashes = 0 /\ ~ Writing) =>
        SumFunctionOnSet([a \in Address |-> accounts[a].balance], Address)
        + SumFunctionOnSet([n \in 1..disk_latest |-> BurntIn(chain[n])], 1..disk_latest)
        = Cardinality(Address) * GenesisBalance + BlockReward * disk_latest

(* A block on disk never runs ahead of the accounts, whatever the moment   *)
(* of a crash: every transaction of the chain is behind its sender's nonce.*)
AccountsCoverChain ==
    \A p \in Positions : TxAt(p).nonce < accounts[TxAt(p).from].nonce

(* A height that has a block keeps that block. *)
HeightWrittenOnce ==
    [][\A n \in DOMAIN chain : n \in DOMAIN chain' /\ chain'[n] = chain[n]]_vars

(* The nonce after which the pool expects a sender's next transaction is   *)
(* the nonce of one that is pending, through confirmations, promotions,    *)
(* replacements and admissions with an old account.                        *)
TrackerMatchesPool ==
    \A a \in Address : pool.pending_max[a] # NoNonce =>
        \E s \in pool.pending : s.tx.from = a /\ s.tx.nonce = pool.pending_max[a]
-----------------------------------------------------------------------------
(* What the repository says and the code does not do *)

(* The inner guards are additional readers, "parking_lot RwLock supports   *)
(* recursive read acquisition from the same thread": a call whose block    *)
(* executed ends.                                                          *)
EveryCommitEnds == \A c \in Committer : (job[c].pc = "executed") ~> (job[c] = Idle)

(* The lock "prevents the pruner from deleting a node the executor is      *)
(* mid-flight referencing": the root of the head is stored.  Genesis is    *)
(* written without its trie.                                               *)
HeadRootStored == disk_latest > 0 => chain[disk_latest].root \in nodes

(* "Transactions from the same sender must be ordered by nonce." *)
CandidateInNonceOrder ==
    \A c \in Committer : job[c].pc = "built" =>
        \A i, j \in DOMAIN job[c].block.txs :
            i < j => ~ Before(job[c].block.txs[j], job[c].block.txs[i])

(* "hard cap on combined pending+queued slots a single sender may occupy" *)
SlotsCapped == \A a \in Address : SenderSlots(pool, a) <= MaxSlots

(* "Persist the resulting accounts (state diff) and the block atomically." *)
PersistedAtomically == ~ Writing => accounts = Replay

(* "every iteration verifies the parent we sealed against is still the     *)
(* storage head"                                                           *)
ParentIsHead ==
    [][\A c \in Committer : (job[c].pc = "trie" /\ job'[c].pc = "stored")
            => job[c].block.number = latest_height + 1]_vars
=============================================================================
