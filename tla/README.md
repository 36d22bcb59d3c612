# Formal model of the Zebvix (zbx-chain) node

The repository's program is the Zebvix L1 node, a Rust workspace under
`attached_assets/zbx-chain_extracted/zbx-chain` (75 crates and the binary in
`node/`). Paths below are relative to that directory. This project models what
the node does to the chain: the voting rules of a validator and their
write-ahead file, the HotStuff engine among faulty members, the driver that
feeds it and the network server that imports blocks, the path of a transaction
through the mempool into a block and onto disk, staking, rewards and upgrade
proposals, the pipeline that turns equivocation evidence into burnt stake, and
the bridge relayer.
It is TLA+ checked with TLC on small instances, and proofs checked with TLAPS
for all instances.

## 1. The system

| Component | State | Operations | Talks to |
|---|---|---|---|
| `SafetyRules` (`crates/zbx-consensus/src/safety_rules.rs`) | `highest_vote_round`, lock, epoch, `voted_phases`; optionally a file | `vote`, `update_locked_qc`, `advance_epoch`, `persist_state`, load at start | called by the engine |
| HotStuff engine (`hotstuff.rs`, `vote.rs`, `block_store.rs`, `liveness.rs`) | block store, one accumulator per (number, phase), first votes seen, `highest_qc`, `committed_height`, pacemaker, committee, seed | `on_proposal`, `on_vote`, `on_qc`, `on_timeout`, `update_validator_set`, `rotate_epoch_seed` | votes to peers; events to the driver |
| Driver (`node/src/consensus.rs`) | decided block, timers, vote channel | `run_round`, `process_events`, `wait_for_commit`, `do_commit` | engine, pipeline, block producer, storage, network |
| Network server (`node/src/network.rs`) | connections, one queue per peer | connect, `Block`, `Blocks`, `GetBlockRange`, `Vote`, `Transaction`, broadcast | driver (votes), block producer (imports), mempool |
| Mempool (`crates/zbx-mempool`) | pending, queued, nonce tracker, base fee | `add_transaction`, `select_transactions`, `remove_confirmed`, `promote_queued` | network, RPC, block producer |
| Block producer (`node/src/block_producer.rs`) | cached height; accounts, blocks, latest pointer (disk) | `build_candidate`, `execute_and_commit_inner` | mempool, executor, storage, pruner's lock, staking, governance |
| Executor (`crates/zbx-execution/src/executor.rs`) | none of its own | preflight, fees, transfers, staking transactions | producer, staking |
| Pruner (`crates/zbx-pruner`) | retained roots, live set, read-write lock | mark, wait, sweep | storage, producer |
| Staking and rewards (`crates/zbx-staking/src/{validator,rewards,tx_handler,delta}.rs`) | validator set (memory); delegation ledger, unbonding queue, escrow account (disk) | every `StakingTx`, interval reward, election | executor, producer, driver, pipeline |
| Governance (`crates/zbx-types/src/governance.rs` and others) | proposals, version registry | propose, vote, sweep, activation | executor, producer |
| Slashing pipeline (`crates/zbx-staking/src/{pipeline,slashing_v2,persistence}.rs`) | registry (memory), evidence, records and bonds (RocksDB) | `ingest_equivocation`, `tick_finalize`, `dispatch_file_appeal_tx`, `overturn_and_refund`, `rehydrate_from_disk` | shared `ValidatorSet`, account balances |
| Bridge relayer (`crates/zbx-bridge`) | pending and completed requests, daily totals, whitelist (memory); spent operations (memory and disk) | `submit`, `confirm`, `execute`, `expire_stale`, `set_paused`, `attach_storage` | relayer operators, storage |
| Sync coordinator, HotStuff-2, RPC, oracle, applications, ... | own | own | not on the node's path of a block (section 5) |

What is hard here:

* votes and certificates of several phases and blocks arrive in any order,
  late, twice, or not at all, and `add_vote` forms a certificate again for each
  vote beyond the quorum;
* a validator may stop anywhere and come back with what is on disk, and almost
  everything the driver and the staking code decide by is in memory only;
* rounds, heights and epochs are counted separately and meet in `proposer_for_round`,
  in the seed of a boundary header and in the election;
* a commit is a row of synced writes (each account, the trie, the block, the
  staking delta, the governance hook, the rewards), with a possible crash between
  any two, and the importer and the pruner run beside it;
* admission reads an account before it locks the pool;
* one evidence record is written several times (evidence, Pending, Confirmed,
  burn stamp, account debit), and its effects are partly in memory (jail, stake)
  and partly on disk;
* messages of the block exchange are dropped without anybody being told, and a
  commit that dies among its account writes changes what the next block is
  executed on;
* a bridge request is limited on the day it is submitted, marked spent before its
  proof is looked at, and executed any time until it expires, counted from a time
  its caller chose, across restarts that keep only what is spent;
* deadlines, caps and roundings (appeal window, slot cap, block range, fee
  refund, reward shares) meet the steps above exactly at their edges.

What makes it correct: a validator never contradicts a vote it has sent; two
nodes never hold different proposals of one height; nobody honest is accused; a
transaction takes effect at most once and the accounts are what the blocks say;
no coin appears or vanishes; the escrow can pay what it owes; a jail, an upgrade
and a slash happen when they should, once, and are not forgotten; a bridge request
is executed once; and the chain goes on. `PROJECT.json` lists the hazards line by line.

## 2. The modules

| Module | Models | Kind |
|---|---|---|
| `SafetyRules` | the checks and updates of `safety_rules.rs` as operators on the `SafetyState` record | operators |
| `SafetyWal` | one `SafetyRules` object with its file, any caller, crashes | component |
| `Finality` | the promise to users: final blocks only grow, one per height | abstract specification |
| `HotStuff` | the engines of all validators, the network, faulty members, restarts | composition (uses `SafetyRules`, implements `Finality`) |
| `DriverEngine` | the engine as the driver calls it, with changing committee and seed | operators (uses `SafetyRules`) |
| `ConsensusDriver` | the drivers and network servers of several nodes | composition (uses `DriverEngine`) |
| `Mempool` | the pool and its nonce tracker as operators on a record | operators |
| `BlockCommit` | admission, candidates, execution, the writes of a commit, importer, pruner, crashes | composition (uses `Mempool`) |
| `Governance` | proposals and the version registry | operators |
| `Staking` | validator set, delegations, escrow, rewards, elections, upgrades over the commits of one node | composition (uses `Governance`) |
| `SlashingPipeline` | pipeline, registry, store, validator set and `do_commit` of one node | composition |
| `Bridge` | the bridge relayer of one node with its store of spent operations | component |
| `MCSafetyWal`, `MCHotStuff`, `MCConsensusDriver`, `MCBlockCommit`, `MCStaking`, `MCSlashing`, `MCBridge` | small instances | TLC |
| `SafetyWalProofs`, `HotStuffProofs`, `SlashingProofs`, `BridgeProofs`, `StakingProofs`, `BlockCommitProofs`, `DriverProofs` | theorems about the module they extend | TLAPS |
| `SumLemmas` | finite sums, division and recursion over numbers, used by the last four | TLAPS |

Four compositions look at `do_commit` from four sides: `ConsensusDriver` at the
order of decision, execution, seed, election and broadcast; `BlockCommit` at the
writes of accounts and blocks; `Staking` at what a block does to stakes;
`SlashingPipeline` at the records. Each keeps the others' part as one atomic
step or a nondeterministic outcome (a commit that may fail or die among its
writes, a slash that may come), and each remains small enough to be explored.

### SafetyRules and SafetyWal

`CanVote` is the four early returns of `vote()` in the positive, `AfterVote` the
two assignments. `SafetyWal` adds the file: `PersistState` is `persist_state`
(nothing without a path; with `WriteMayFail`, a write that is refused and only
logged). `CrashInVote` is a process that dies after the rename and before
`vote()` returns; `Restart` is a crash anywhere else. `update_locked_qc` and
`advance_epoch` do not write the file, as in the code. The caller is arbitrary:
any data, any parent number, any epoch. `signed` is history: each vote that
left the validator, with the lock and epoch it was cast under ("tenure").

### HotStuff

State per validator is named after the fields of `HotStuffConsensus`. `OnVote`
is split by the outcome of `on_vote`: `OnConflict` (RemoteEquivocation, with
the driver's evidence), `OnIgnored` (other data than the accumulator's, or
already held), `OnCounted`, and `OnPrepareQc`, `OnPreCommitQc`, `OnCommitQc`
for the three arms of `on_qc`, which the code runs inside the same call.
`OnCommitQc` includes the hook of `do_commit` that prunes the detector. A vote
that an action casts is sent to the network and, as in `process_events`, fed
back to the engine before anything else (`own`). A validator's votes also come
back over the channel, so votes of its own are delivered like the others.

The network is the set of all honest votes ever sent, never emptied: any of
them may arrive at any time, repeatedly or never. Faulty members have no state;
each vote in `ByzData` may arrive at any time. A proposal may be any block with
the right coinbase and any parent number, since a certificate without signers
verifies (`vote.rs`, `verify`) and the engine checks nothing more. Votes that
fail the membership, key-registry or signature checks are dropped by the code
without a state change but for counters, and are not delivered. `BlockEpoch` is
the header's epoch and differs from the pacemaker's initial epoch, as in the
node.

### SlashingPipeline

One action per stretch of code between two durable writes: `PutEvidence` and
`SubmitEvidence` are `ingest_equivocation`; `BeginTick`, `ReplayBurn`,
`ReplaySkip`, `LoadReady`, `Confirm`, `Burn` are `tick_finalize`;
`DebitAccounts`, `CommitBlock`, `DropCandidate` are the rest of `do_commit`;
`FileAppeal`, `PutAppeal` are `dispatch_file_appeal_tx`; `Overturn`,
`DeleteBond` are `overturn_and_refund`; `ImportBlock` is the importer, which
commits without a tick; `CrashAndRestart` may come between any two of them and
keeps what is on disk. A failing write panics the driver, so it is a crash,
except for the one write in `ReplaySkip` whose result the code ignores.
`applied` is the list the tick returns, and the debit writes, for each account,
the last of its debits, because `apply_slash_burns` reads the accounts from the
database and not from the batch. `burnt` and `debited` are history.

`dispatch_file_appeal_tx` is called by the executor, and the node currently
gives it no pipeline; `overturn_and_refund` has no caller yet. Both are public
operations of the pipeline and are modelled as such, the overturn between two
handlers of the driver.

### DriverEngine and ConsensusDriver

`DriverEngine` is the engine again, but as the driver uses it: a call is one
operator that returns the engine, the votes it sent and the block it decided,
including the votes that `process_events` feeds back. Committee, quorum and
leader are fields, since `update_validator_set` and `rotate_epoch_seed` change
them while accumulators and the first votes stay. `Draw` is `keccak256` as an
unknown number.

`ConsensusDriver` has one action per stretch of the driver that holds the
engine: `RunRound` (candidate, turn, own proposal, own votes), `WaitForProposal`
(not my turn: the code sleeps and tries again), `Deliver` (a vote from the
broadcast channel), `Timeout`, `Lagged` (the receiver fell behind by more than
`VoteChanCap`; the code takes it for a closed channel), `DoCommit` and
`CommitFails`. `DoCommit` is `do_commit` from the prune of the detector on: check of
the seed, execution with the validator set, the writes, rotation of the seed at the
end of an epoch, election, broadcast. `Jail` is the slashing tick inside it, which
jails and debits the offender; `Stake` is a registration that the next election
reads. `Restart` comes back with the disk, a new engine and one of `GenesisSeeds`
(the code reads the genesis seed and falls back to zero).

The importer is `Connect`, `Disconnect` and `Receive` with its three messages. Queues
are ordered. `Lose` is a message that is dropped over the rate limit
(`network.rs:700-713`) or whose answer finds the queue to the peer full
(`try_send` at 609, 774 and 833, whose result nobody looks at); the connection lives
on. `ImportFails` is an execution or a write that fails: what is left of a batch is
dropped (865). Only a broadcast that finds a queue full ends the connection
(292-313), which is `Disconnect`.

`accounts` says what a node's accounts hold beyond the execution of its blocks as
EVM calls, as a set of marks: a staking transaction that was executed with the
validator set ("staked"), a debit of the slashing tick ("slashed", on the node that
commits only, `consensus.rs:745`), and account writes of a block that was not stored
("torn": accounts are synced one by one before the block is,
`block_producer.rs:664-678`, and a `CommitFails`, `ImportFails` or `Restart` in
between leaves them). `Executed` puts the marks into the block's `state_root`, which
the code draws from the accounts on disk that the block touches, the coinbase's
among them (`executor.rs:332-371`, 521-528), and the header is overwritten with it.
The driver passes the validator set to the execution and the importer does not
(`network.rs:827`). So two nodes may hold blocks of one height that differ in the
results of execution: `OneChain` compares what was proposed (`Body`), and
`SameBlocks`, which compares everything, is what `driver_import` refutes.

### Mempool and BlockCommit

`Mempool` follows `pool.rs`: `Admits` is the conjunction of the early returns of
`add_transaction`, `Insert` the two branches, `RemoveConfirmed` and
`PromoteQueued` the reaction to a block. `set_on_chain` and `record_pending` keep
their comparisons, including the one that forgets a pending nonce equal to the
on-chain one. Priorities are computed at admission, as in the code.

`BlockCommit` has two committers, the producer (or driver) and the importer.
`ReadSender` and `Admit` are admission with the account read outside the lock.
`Produce` chooses any order the pool's heap may return and then applies the
comparator of `build_candidate`; `Import` takes the body of a peer. `Execute`
runs the transactions: preflight of nonce and balance, effective price, refund,
tip, value, revert, block reward; a failing preflight drops the block.
`CheckHead`, one `PutAccount` per account of the diff, `CommitTrie`, `PutBlock`
and `Finish` (pool update, base fee, height) are the writes in their order, and
`Crash` may come between any two. The pruner is `Mark` (without the lock),
`WaitForLock`, `Sweep`; the read guard of the producer is taken again in its
callees, which is why a waiting writer can stop both. A state trie is one node
named by the accounts it commits to. Balances are exact integers; amounts of the
instance are far from 2^128.

### Governance and Staking

`Governance` keeps `try_finalize`, `has_majority`, `finalize_all_pending` and the
activation with its downgrade rule. `Staking` executes a block on copies (`job`)
as the code does, call by call: `ExecStaking` dispatches `Register`, `Delegate`,
`Undelegate`, `Withdraw`, `ClaimRewards`, `ClaimDelegatorRewards`; `ExecPropose`
and `ExecVote` write to disk at once, and so survive `Drop`. `CreditReward`
ends the execution with the coinbase's reward; `PutWallet` and `PutEscrow` write one
account each, in any order; `PutBlock`, `ApplyStakingDelta`, `GovernanceHook`, `ApplyIntervalRewards` and
`SyncValidatorSet` (with reactivation and election at an epoch boundary) are the
rest of the commit; `Crash` between any two loses the validator set. `Begin`
includes the tick: a slash that becomes final just before the block and debits stake
and balance. Rewards are divided with the code's roundings.

### Bridge

The relayer is behind a mutex (`node.rs`), so a call is one step: `Submit`,
`Confirm`, `ExpireStale`, `SetPaused`, `SetWhitelist`, and `execute` as `Execute`
or, when the proof is missing or refused, `ExecuteProofInvalid`, which leaves the
operation spent. A call that returns an error without a state change is no step.
`CrashInExecute` is a process that dies after the synced write of the store;
`Restart` is a crash anywhere else. Both come back with `BridgeRelayer::new` and
`attach_storage`: only what is spent survives. A request is a record that stands
for its id and its `msg_hash`, which are hashes of all its fields. Signatures and
Merkle proofs are ideal. The clock the callers pass is monotone, which the code does
not check; the time in a request is the caller's, and one in the future keeps the
request from expiring. `actions` and
`outflow` are history: what `execute` handed out. The node starts the relayer
without keys (`node.rs:615`) and nothing calls it yet, so this is the component as
its own interface and tests describe it.

## 3. What the runs check

Passing runs:

| Run | Shows |
|---|---|
| `wal` | with a file that is written: one vote per (number, phase) and epoch (`OneVotePerTenure`), the file refuses every vote ever sent (`WalCoversVotes`), votes never go back behind earlier votes or locks (`VotesNeverGoBack`) |
| `agreement` | four validators, one faulty and able to sign everything: `Agreement`, `HonestNeverAccused`, `PhasesInOrder` |
| `restart` | restarts from the file, timeouts, a store of one block: `ImplementsFinality`, `HonestNeverAccused`, `RoundAboveCommitted` |
| `driver` | nodes hold prefixes of one chain of proposals, equal but for the results of execution (`OneChain`), headers carry the seed their chain derives on nodes that hold the producer's blocks as built before a restart (`SeedsVerify`), a decided block is on disk or being committed unless a commit failed (`DecidedReachesDisk`), a lone validator goes on committing unless it is halted for a named reason (`KeepsCommitting`), a range requested at connection time arrives and is imported unless one of its messages, its import or the connection is lost (`FetchesRange`) |
| `chain` | no transaction is in the chain twice (`NoReplay`), accounts are the replay of the blocks when nothing crashed (`AccountsAreReplay`), value is conserved up to reward and burnt fee (`ValueConserved`), account nonces are never behind the chain, crashes included (`AccountsCoverChain`), a height is written once (`HeightWrittenOnce`), the nonce the pool continues from is that of a pending transaction (`TrackerMatchesPool`) |
| `staking` | the escrow covers stakes, unbonding and rewards (`EscrowSolvent`), validator aggregates are the sums of the ledger (`LedgerMatchesAggregate`), between blocks of a process that never crashed, coins only come from the mint and the block rewards (`NoInflation`), an executed upgrade is in effect (`ExecutedInEffect`) and none is overdue (`OverdueExecuted`), a jailed validator stays jailed while the process runs (`JailHolds`) |
| `slashing` | at most one debit per record (`DebitedAtMostOnce`), none before the window is over or against an appeal (`BurntOnlyAfterWindow`), memory and disk agree between handlers (`RegistryIsOnDisk`), an appeal on disk has its bond (`AppealBondKept`), records only move forward (`Lifecycle`), a pending record is eventually resolved (`PendingIsResolved`) |
| `bridge` | a request is executed at most once through resubmissions, failing proofs and crashes, also inside `execute` (`ExecutedOnce`); what leaves over all days is within the limits of the days so far, one more for each restart (`OutflowWithinLimits`) |

The runs `wal`, `agreement`, `chain`, `staking` and `slashing` also check their
module's type invariant; that of `Bridge` is proved, and that of `ConsensusDriver`
holds on the same instance and is kept for the proofs to come.

Runs that show where the code and its documentation part (each is described in
`PROJECT.json` under `findings` with the line it contradicts):

| Run | What happens |
|---|---|
| `no_wal` | the node builds `SafetyRules` without a file; a restarted honest validator votes twice and is accused |
| `slashing_stamp` | the first tick after a restart stamps records against an empty validator set |
| `chain_prune` | the pruner marks before it takes the lock and deletes the state of a block committed in between |
| `driver_import` | a block with a staking transaction has one result at its producer and another at an importer: two blocks of one height (`SameBlocks`) |

Further configurations are kept beside the modules for readers who want to see a
counterexample; TLC reports the property violated in each:

| Configuration | Property | What the code says |
|---|---|---|
| `MCHotStuff_lock` | `VotesExtendLock` | the lock compares numbers, so a block that does not extend the locked one gets a vote |
| `MCHotStuff_split` | `QuorumFormsQc` | one faulty vote that arrives first keeps a quorum of honest votes from forming a certificate |
| `MCSlashing_batch` | `BatchDebitsEach` | two debits of one account in one batch: the first is lost |
| `MCSlashing_tombstone` | `TombstonedForever` | the epoch boundary reactivates a tombstoned validator |
| `MCBlockCommit_deadlock` | `EveryCommitEnds` | the committer takes its read guard again while the pruner waits for the write lock, and neither goes on (`block_producer.rs:657-659` says the second guard is granted) |
| `MCBlockCommit_torn` | `PersistedAtomically` | a crash among the account writes leaves balances of no block (`block_producer.rs:11`) |
| `MCBlockCommit_race` | `ParentIsHead` | two overlapping calls both pass the head check (`block_producer.rs:26-27`) |
| `MCBlockCommit_order` | `CandidateInNonceOrder` | the comparator is no order across senders (`tests/integration/mempool.rs:13`) |
| `MCBlockCommit_slots` | `SlotsCapped` | a replacement that moves between the maps exceeds the cap (`pool.rs:31`) |
| `MCStaking_vote` | `UndecidedStaysPending` | a proposal is rejected at the end of the block it was made in (`crates/zbx-staking/src/governance.rs:292`) |
| `MCStaking_claim` | `NoDoubleClaim` | a claim leaves the delegation and shrinks the denominator, so a second claim takes the share of the others (`rewards.rs:203` says double claims are prevented) |
| `MCBridge_spent` | `SpentMeansExecuted` | a request whose proof is missing or refused is spent for ever (`multisig.rs:54` calls the set the operations already executed) |
| `MCBridge_day` | `OutflowWithinDay` | the limit of one day does not cap that day's outflow: requests of earlier days are executed too, those dated in the future of any earlier day (`docs/BRIDGE.md:138`) |
| `MCConsensusDriver_pair` | `SomebodyCommits` | with two configured validators no proposal leaves its node, so nothing is committed (`node/src/consensus.rs:29-36`) |
| `MCConsensusDriver_behind` | `CatchesUp` | a peer exactly one block ahead is not asked (`network.rs:603-604`) |
| `MCConsensusDriver_leader` | `LeaderAgreed` | every node puts itself first in its committee, so round robin names different leaders (`node.rs:997-998`) |

What else the models, or reading the code for them, brought up:

* voting: a write of the file that is refused is only logged
  (`safety_rules.rs:129`); `advance_epoch` empties `voted_phases`
  (`safety_rules.rs:239`, only tests call it); a late Prepare vote for an older
  block overwrites a newer `highest_qc` (`hotstuff.rs:523`). With a file, a crash
  between the Commit vote and the block's write would leave a lone validator
  unable to vote for that height again.
* driver: a commit that fails leaves the engine ahead of the disk, and further
  rounds end in `DuplicateVote` until a restart; an elected second validator
  raises the quorum to two and halts the chain; an election of nobody panics the
  driver; the seed is the genesis seed again after a restart, and importers do
  not rotate theirs; `Lagged` is taken for a closed channel (`consensus.rs:640`);
  the proposer is checked by height and chosen by round; a batch of
  `MAX_BLOCK_RANGE` blocks is not followed by a request for more, and a request, a
  batch or a follow-up request that is dropped is not repeated while the connection
  lives; a producer that dies between its account writes and `put_block` has, after
  the restart, other state roots than its importers, and so has one that debited a
  slashed account, since importers never tick.
* commit: a proposal whose activation is the current block is not finalised in
  it, although the comment near `block_producer.rs:738` says so (`try_finalize`
  requires a later one); genesis is stored without its trie nodes, so the pruner
  aborts while genesis is in its window.
* staking: a crash after the accounts and before the delta leaves a paid
  unbonding entry in place, and one among the account writes can leave a withdrawer
  paid and the escrow not debited, so that coins exist twice; proposals and votes survive a dropped block; rewards
  and aggregates are lost on restart, and undelegation then fails; `ClaimRewards`
  zeroes what is pending before it looks at the escrow; a Tombstoned slash leaves
  the delegators' ledger entries without an aggregate, and reporter rewards are
  credited without funding the escrow (`pipeline.rs:741-744`).
* slashing: the jail event of a local equivocation is dropped
  (`consensus.rs:700-708`); a crash between the burn stamp and `apply_slash_burns`
  loses the debit (`consensus.rs:745`); raw evidence written before a crash never
  becomes a record (`pipeline.rs:134`); a restart forgets jail and burnt stake
  (`consensus.rs:872`); an overturn before the first commit after a restart drops
  the appeal bond (`pipeline.rs:613`).
* bridge: a request dated in the future does not expire until that time and a day
  have passed (`relayer.rs:205`, nothing checks it in `submit`); an expired or lost
  request keeps its share of the day's limit; a restart
  resets the totals (`token.rs:153-159` says so).

### Bounds

* `wal`: two hashes, two numbers, three phases, two epochs, and enough recorded
  ballots for a vote, a crash, a repeat and a vote in the next epoch. The rules
  compare numbers and hashes only, so two of each show every collision.
* `agreement`: n = 4, f = 1 is the smallest set that tolerates a fault. One of
  the honest members is stopped, which leaves exactly a quorum with the faulty
  one; the stopped member could only add votes that the faulty one can also
  give. Two blocks of one height are the fork. Blocks are interchangeable there,
  as are the running validators (`ForkSymmetry`).
* `restart`: n = 2 has quorum 2, so every certificate needs both and each restart
  matters, and its store of one block drops the first block when the second
  comes. Three rounds let timeouts fall before, between and after commits, and one
  restart may come at any point; the theorems below have any number of either.
* `driver`: one node that is alone in its configuration and one that follows it,
  epochs of two blocks, four blocks, so two boundaries; two events out of
  restarts, failing commits and imports, lost messages, connections, registrations
  and jails. Two are enough for a connection and one thing that goes wrong on it, and
  for a jail or a torn commit that is carried into the next blocks. Two configured
  validators are not in this run, because the node commits nothing with them
  (`MCConsensusDriver_pair`). Blocks with staking transactions are in the
  theorems and in `driver_import` only. So `OneChain` and `SeedsVerify` are
  shown for the configuration the node works in, and for no other; the theorems have
  the same restriction, and any number of followers, blocks, epochs and events.
* `chain`: two blocks; two nonces of one sender, the second of which reverts, and a
  replacement of the first that a peer may also send in a block; room for two
  pending and one queued, a slot cap and a nonce gap at which admission is refused,
  one crash, a pruner that is on or off. **The calls of
  `execute_and_commit` are taken one at a time (`MayOverlap = FALSE`).** Nothing in
  the code ensures this when the driver and the importer run together. With
  `MayOverlap = TRUE`, `TypeOK` and `TrackerMatchesPool` still hold, and `NoReplay`,
  `AccountsAreReplay`, `ValueConserved`, `AccountsCoverChain` and
  `HeightWrittenOnce` fail; `MCBlockCommit_race` is the shortest way to see it.
* `staking`: a configured validator, a candidate, two delegators, six blocks with
  at most two calls each and four in all, a reward interval of three blocks,
  epochs of two, one slash and one crash: a delegation is rewarded, claimed,
  unbonded and withdrawn across an election. A behaviour sends either staking
  calls or governance calls; the two delegators are interchangeable
  (`DelegatorSymmetry`). Slashes are `Jailed` and no reporter is rewarded; the
  two other cases break `LedgerMatchesAggregate` and `EscrowSolvent` as described
  above. `EscrowSolvent` and `LedgerMatchesAggregate` are stated for a process that
  has not crashed, because the aggregates are in memory only; `NoInflation` too,
  because a crash among the account writes can create coins.
* `slashing`: two records of one offender (blocks 1 and 2), window 1, epochs of
  two blocks, six blocks, one import and two crashes: a record is ingested,
  confirmed, burnt, replayed and forgotten across an epoch boundary. Stakes are
  40 and the slash is the code's 5 percent, 2, so burns are seen exactly.
* `bridge`: two keys, both needed; a request dated on each of three days and submitted
  on any of them, as large as the limit once the fee is taken, a small one whose fee rounds to nothing and one
  of another chain; days of two ticks, an expiry of one day as in the code, one
  token that is disabled, enabled or given a lower maximum, five ticks, one crash.
  Requests of three days executed on the last one, and a resubmission after the
  crash, all happen.

### Deadlock and fairness

No run switches deadlock checking off. `Staking` stutters at its height bound
(`AtBound`), where the program would go on.

* `slashing`: weak fairness of the driver's steps (a handler that has begun goes
  on; `run` never leaves its loop) and strong fairness of `BeginTick`, since
  evidence is ingested within a round that ends at its deadline and the loop then
  goes on to commit. Blocks may be imported and the process may crash, finitely
  often. That consensus keeps deciding blocks is assumed here and is
  `KeepsCommitting` of `driver`.
* `MCBlockCommit_deadlock`: weak fairness of each committer's steps and of the sweep once the
  lock is granted; the counterexample is a state in which none of them can be taken. Nothing is assumed of users, peers or the pruner's timer.
* `driver`: weak fairness of proposing (the interval ticks for ever), of the
  timeout (the wait has a deadline), of a commit, and of reading a live
  connection. Nothing is assumed of connections, votes or restarts. Fairness of
  `Propose` is written with its enabling condition spelled out (`ProposeEnabled`),
  which is what weak fairness of it means and keeps TLC fast.

## 4. What is proved

The theorems hold for every value of the constants under the named assumptions of
the modules. Bounds such as `MaxHeight` and `MaxCrashes` are arbitrary naturals, so
chains, restarts and calls are of any number. The assumptions:

| Assumption | What it says | Why |
|---|---|---|
| `WalConstants`, `HotStuffConstants` | finite validator set, fewer than a third faulty, block numbers and capacity positive | the fault model of the engine |
| `SlashingConstants` | types of stakes, windows and records | |
| `BridgeConstants` | finite keys, requests and tokens; a threshold and a day are positive | |
| `StakingConstants`, `MenuCalls` | finite accounts, commission at most 2000 bps, positive intervals; every call has the fields of its kind | `register` caps the commission (`validator.rs:250`); the variants of `StakingTx` |
| `MempoolConstants`, `BlockCommitConstants` | finite accounts, a block gas limit of at least 2; a transaction uses at most its gas | the base fee divides by half the limit |
| `DriverConstants` | a node's own key comes first in its configuration, the stake order lists every node, epochs have at least two blocks, block range and vote channel are positive, a seed is a list of draws | own key first (`node.rs:997`), and the constants of `consensus.rs` and `network.rs` |

Four groups of theorems have a hypothesis besides; in each case the code breaks the
property without it, and a configuration or the list above shows how:

* `Persist` (and `~ WriteMayFail`): `SafetyRules` has a file that is written. The
  node gives it none (`no_wal`).
* `OnlyJailed`: slashes jail and do not tombstone (the pipeline tombstones an offender
  at its second confirmed slash, `pipeline.rs:429`); `StakingEscrowSolvent` also takes `ReporterReward = 0`.
* `MayOverlap = FALSE`: the calls of `execute_and_commit` are taken one at a time
  (`MCBlockCommit_race` shows two that are not).
* `Solitary(p)`: `p` is the only node that is alone in its configuration, the others
  configure at least two validators. Two nodes that are each alone produce a chain
  each.

### The arguments

* `SafetyWalProofs`: `WalTypeOK` for every file system; `WalOneVotePerTenure`,
  `WalFileCoversVotes`, `WalVotesNeverGoBack` for a file that is written. None of
  them is inductive alone: a restart replaces the memory by the file, so the
  argument needs that the file covers every vote sent (its pair is in
  `voted_phases`, its number, lock and epoch are not above the file's,
  `FileCovers`) and that the memory covers the file (`MemoryCoversFile`). `WalInv`
  is their conjunction with the types and `OneVotePerTenure`.
* `HotStuffProofs`: `HotStuffTypeOK` and `HotStuffRoundAboveCommitted` with or
  without a file; with a file `HotStuffAgreement`, `HotStuffNeverAccusesHonest`,
  `HotStuffPhasesInOrder` and the refinement `HotStuffImplementsFinality`.
  The inductive invariant `HotStuffInv` says that every honest vote in the
  network is recorded in its validator's memory and file, that an honest
  validator has one vote per slot and its number is the block's, that
  everything an accumulator or the detector holds was signed, and that votes,
  locks and commits stand on quorums of the phase before. Two quorums of
  `floor(2n/3) + 1` share an honest member (`QuorumsIntersect`), and that
  member's single Commit vote gives agreement. Agreement does not use the lock
  at all: commits are per height and each validator votes once per height and
  phase, which is why the lock finding does not break it.
* `SlashingProofs`: all safety properties of the run. `SlashingInv` says for each
  record what the moment between two writes looks like: registry and disk agree but
  for a half-written appeal whose bond is on disk (`Synced`), what is about to be
  burnt is Confirmed and not stamped (`ToBurnIsUnstamped`), what was or will be
  debited is stamped (`SpentIsStamped`), a stamp is on a Confirmed record and a
  Confirmed record is past its window. A debit of a stamped record would need it in
  the list of a second tick, and only unstamped records get there.
* `BridgeProofs`: `BridgeExecutedOnce` from `SpentInv` (memory and disk hold the same
  spent operations, and what was executed is among them: the mark precedes the
  action). `BridgeOutflowWithinLimits` from `OutflowInv`, which bounds not what left
  but that plus what the pending requests may still move, by the limits of the days
  that are over, one more for each restart, and today's total: what is submitted
  enters the total in the same step, and a restart forgets the total and the pending
  requests with it. No assumption on expiry or on the times in requests is needed.
* `StakingProofs`: `BaseInv` (types; the block of a commit is the next one until it is
  written; executed upgrades are in effect) gives `StakingTypeOK`,
  `StakingExecutedInEffect` and `StakingOverdueExecuted`. `CoinInv` counts a mint once the
  rewards are written and a block reward once the block is, and bounds the copies
  instead of the disk while the accounts are written one by one; when all are
  written the two are the same, hence `StakingNoInflation`. After a crash in between
  the disk is a mixture that no such bound holds of. `JailInv` says that the copy a commit works on frees nobody
  that is jailed in the shared set: the slash precedes the copy. `LedgerInv` says of each phase which ledger
  agrees with which set, since the delta writes the ledger one step before the set is
  swapped. `EscrowInv` bounds the debt on disk and in the copies by the escrow plus one
  reporter reward for each slash; `StakingEscrowShortfall` states this bound of what
  the escrow may lack, and `StakingEscrowSolvent` is the case without such rewards. What
  each call does is a lemma of its own, rounding included: a claim takes at most the
  pool, shares of an interval add up to at most the mint.
* `BlockCommitProofs`: `BlockCommitTypeOK` and `PoolTrackerMatches` for overlapping calls
  too. For calls taken one at a time, `SerialInv` says that the chain on disk is a
  stack with the latest pointer on top and the block under way is the next one, hence
  `BlockHeightWrittenOnce`. `NonceInv` says that the accounts on disk are past every
  transaction of the chain, that no two are alike, and that the block under way
  lies past the chain and its diff only raises nonces, however much of it
  is written: a crash leaves some nonces too high, never one too low, so
  `BlocksCovered` and `BlocksNoReplay`. `BooksInv` compares the disk overlaid with the rest of
  the diff (`Overlay`) with the replay of the chain and the block, and counts its value, hence
  `BlocksReplay` and `BlocksConserveValue`, for chains of any length and transactions of
  any fee, tip, gas and value, also where the base fee is above a transaction's
  maximum.

* `DriverProofs`: `DriverDecidedReachesDisk` holds without a hypothesis. Its invariant
  `DiskInv` says that a proposal in the engine's store is not above the next height and,
  when it is for the next height, carries the seed `do_commit` will ask for; that a
  committing driver holds the block the engine decided; and that otherwise the decided
  height is on disk or a commit has failed. It is needed because the importer moves the
  head, and a restart the seed, while proposals and votes are outstanding.
  `DriverOneChain` takes `ChainInv`: a follower's engine needs more votes than the one it
  can gather, so its driver never commits; every vote in a channel or accumulator is the
  producer's; every disk, and every block in a queue, is part of the producer's chain
  but for the results of execution (`Begins`, `Carries`), which `Executed` is the only
  one to touch (`ExecutedBody`), and neither a lost message nor an import that stops
  half-way brings anything else. Which marks the accounts have plays no part. `DriverSeedsVerify` adds `SeedInv`:
  the seed in the producer's engine is the recursive function of its chain that
  `rotate_epoch_seed` computes step by step.

Sums over accounts, ledgers and requests, and runs over the transactions of a block
or the blocks of a chain, need induction. The library's induction theorems take a
predicate as parameter, which the provers cannot instantiate; `SumLemmas` proves
induction over finite sets and over intervals with the hypothesis as membership in a
set, from the theorems on well-founded orders, and all later inductions cite those. The inductive invariants
were checked with TLC on the instances of the runs before they were proved.

Only model-checked: `KeepsCommitting`, `FetchesRange` and
`PendingIsResolved`, since liveness under fairness is out of the prover's reach. Every
safety property of a run is also a theorem.

## 5. What is not modelled

The repository is large (some 158,000 lines in 75 crates and several other
programs), and most of it is not on the node's path of a block: libraries for
exchanges, lending, games, oracles and the like that no component of the
node calls, parallel implementations of staking and consensus that the node does
not build, interpreters, cryptography, contracts and explorers. Those are listed
as `not_modelled` in `PROJECT.json` with the reason.

Within the modelled components: signatures, hashes and certificates are ideal;
timeouts have no durations; byte code is one bit (reverts) and a gas number;
receipts, logs and metrics are left out; a state trie is one node; reward splits
to whistleblowers, `reject_appeal` (no caller), evidence other than double signing,
peer discovery, scoring and the Noise transport are left out. The two
implementations of the chain's consensus beside the wired one (HotStuff-2, the
epoch and round managers) are not used by the node.

## 6. Plan

1. The type invariant of `ConsensusDriver` as a theorem of its own.
2. The sync coordinator (`crates/zbx-sync`) with stalls and retries.
3. `HotStuff2` with timeout certificates.
