--------------------------- MODULE ConsensusDriver ---------------------------
(***************************************************************************)
(* The validator nodes of a network, each with its ConsensusDriver         *)
(* (node/src/consensus.rs), the engine it drives and the block exchange of *)
(* its NetworkServer (node/src/network.rs).                                *)
(*                                                                         *)
(* HotStuff models what engines do with proposals and votes that reach     *)
(* them; this module models what the node makes reach them: who proposes,  *)
(* at which height and as whose turn, what happens to a decided block, how *)
(* the proposer seed and the committee follow the chain, and how other     *)
(* nodes get the block.                                                    *)
(***************************************************************************)
EXTENDS DriverEngine

CONSTANTS
    Nodes,              \* validator nodes
    Configured,         \* cfg.validators of each node, itself first
    StakeOrder,         \* nodes by stake, the order of elect_active_set
    GenesisSeeds,       \* what the start-up may read as genesis_epoch_seed
    StakingTxs,         \* whether blocks may hold a staking transaction
    EpochLength,
    MaxBlockRange,      \* MAX_BLOCK_RANGE
    VoteChanCap,        \* VOTE_CHAN_CAP
    MaxHeight,          \* bound: nobody proposes above it
    MaxRound,           \* bound on the rounds that time out
    MaxEvents           \* bound on restarts, failing commits and imports, lost
                        \* messages, connections and changes of a registry,
                        \* together

(* An optional header field: absent, or a seed. *)
NoSeed == <<>>
SomeSeed(seed) == <<seed>>

(* The state_root of a block that has not been executed. *)
Unexecuted == [height |-> 0, accounts |-> {}]

ASSUME DriverConstants ==
    /\ \A v \in Nodes : Configured[v] \in Seq(Nodes) /\ Configured[v] # <<>> /\ Configured[v][1] = v
    /\ ToSet(StakeOrder) = Nodes
    /\ StakingTxs \subseteq BOOLEAN
    /\ EpochLength \in Nat \ {0, 1}
    /\ MaxBlockRange \in Nat \ {0}
    /\ VoteChanCap \in Nat \ {0}
    /\ \A seed \in GenesisSeeds : seed \in Seq(ToSet(seed))

VARIABLES
    chain,              \* blocks on disk, per node
    accounts,           \* accounts on disk, per node: what they hold beyond
                        \* the execution of the blocks as EVM calls
    engine,             \* the engine, per node
    pc,                 \* where the driver's loop is
    candidate,          \* the block a driver is committing
    inbox,              \* the node's vote channel: [queue, lagged]
    registry,           \* the node's in-memory ValidatorSet: [staked, jailed]
    link,               \* sets {v, w} of connected nodes
    channel,            \* messages from v to w, in order
    told,               \* the height a node was told and is fetching
    count               \* [restarts, failures, events] so far

vars == <<chain, accounts, engine, pc, candidate, inbox, registry, link, channel, told, count>>
disk == <<chain, accounts>>
driver == <<engine, pc, candidate, inbox>>
net == <<link, channel, told>>

Height(v) == Len(chain[v])

Init ==
    /\ chain = [v \in Nodes |-> <<>>]
    /\ accounts = [v \in Nodes |-> {}]
    /\ \E seed \in GenesisSeeds : engine = [v \in Nodes |-> NewEngine(Configured[v], seed)]
    /\ pc = [v \in Nodes |-> "idle"]
    /\ candidate = [v \in Nodes |-> NoBlock]
    /\ inbox = [v \in Nodes |-> [queue |-> <<>>, lagged |-> FALSE]]
    /\ registry = [v \in Nodes |-> [staked |-> {}, jailed |-> {}]]
    /\ link = {}
    /\ channel = [x \in Nodes \X Nodes |-> <<>>]
    /\ told = [v \in Nodes |-> 0]
    /\ count = [restarts |-> [v \in Nodes |-> 0], failures |-> 0, events |-> 0]
-----------------------------------------------------------------------------
(* A round. *)

StartsEpoch(height) == height > 0 /\ height % EpochLength = 0
EndsEpoch(height) == (height + 1) % EpochLength = 0

(* A slip: the seed goes into the last header of an epoch. *)
CandidateAtEnd(v, staking) ==
    [number |-> Height(v) + 1, coinbase |-> v, timestamp |-> count.restarts[v],
     epoch_seed |-> IF EndsEpoch(Height(v) + 1) /\ engine[v].seed # ZeroSeed
                    THEN SomeSeed(engine[v].seed) ELSE NoSeed,
     staking |-> staking, state_root |-> Unexecuted]

(* build_candidate on the head, and the seed that the driver puts into the *)
(* first header of an epoch.  A restarted node builds at a later second.   *)
Candidate(v, staking) ==
    [number |-> Height(v) + 1, coinbase |-> v, timestamp |-> count.restarts[v],
     epoch_seed |-> IF StartsEpoch(Height(v) + 1) /\ engine[v].seed # ZeroSeed
                    THEN SomeSeed(engine[v].seed) ELSE NoSeed,
     staking |-> staking, state_root |-> Unexecuted]

(* run_round: only the leader of the pacemaker's round proposes, and       *)
(* on_proposal accepts only the leader of the block's height.              *)
MyTurn(v) ==
    /\ Leader(engine[v], engine[v].round) = v
    /\ Leader(engine[v], Height(v) + 1) = v

(* process_events: a vote goes into the node's own channel and into those  *)
(* of the connected nodes that know the voter; what the connection delays, *)
(* the wait in the channel delays as well.  A full channel loses its       *)
(* oldest votes and tells the reader so.                                   *)
Queued(box, sent) ==
    LET all == box.queue \o sent
        excess == Len(all) - VoteChanCap
    IN  IF excess > 0 THEN [queue |-> SubSeq(all, excess + 1, Len(all)), lagged |-> TRUE]
        ELSE [box EXCEPT !.queue = all]

Post(boxes, v, sent) ==
    [w \in Nodes |->
        IF w = v \/ ({v, w} \in link /\ v \in ToSet(Configured[w]))
        THEN Queued(boxes[w], sent) ELSE boxes[w]]

(* No proposal leaves the node. *)
RunRound(v, staking) ==
    LET o == OnProposal(engine[v], v, Candidate(v, staking))
    IN  /\ pc[v] = "idle"
        /\ Height(v) < MaxHeight
        /\ MyTurn(v)
        /\ engine' = [engine EXCEPT ![v] = o.engine]
        /\ inbox' = Post(inbox, v, o.sent)
        /\ candidate' = [candidate EXCEPT ![v] = o.decided]
        /\ pc' = [pc EXCEPT ![v] =
                    CASE o.decided # NoBlock -> "committing"
                      [] o.decided = NoBlock /\ o.sent # <<>> /\ engine[v].quorum > 1 -> "waiting"
                      [] OTHER -> "idle"]
        /\ UNCHANGED <<disk, registry, net, count>>

Propose(v) == \E staking \in StakingTxs : RunRound(v, staking)

(* run_round of any other node returns and leaves everything as it is. *)
WaitForProposal(v) ==
    /\ pc[v] = "idle"
    /\ ~MyTurn(v) \/ Height(v) = MaxHeight
    /\ UNCHANGED vars

(* wait_for_commit receives a vote. *)
Deliver(v) ==
    LET o == OnVote(engine[v], v, Head(inbox[v].queue))
        read == [inbox EXCEPT ![v].queue = Tail(@)]
    IN  /\ pc[v] = "waiting"
        /\ ~inbox[v].lagged
        /\ inbox[v].queue # <<>>
        /\ engine' = [engine EXCEPT ![v] = o.engine]
        /\ inbox' = Post(read, v, o.sent)
        /\ candidate' = [candidate EXCEPT ![v] = o.decided]
        /\ pc' = IF o.decided # NoBlock THEN [pc EXCEPT ![v] = "committing"] ELSE pc
        /\ UNCHANGED <<disk, registry, net, count>>

(* wait_for_commit gives up: at its deadline the pacemaker's round moves   *)
(* on; a receiver that fell behind the channel ends the wait without that. *)
Timeout(v) ==
    /\ pc[v] = "waiting"
    /\ engine[v].round < MaxRound
    /\ engine' = [engine EXCEPT ![v].round = @ + 1]
    /\ pc' = [pc EXCEPT ![v] = "idle"]
    /\ UNCHANGED <<disk, candidate, inbox, registry, net, count>>

Lagged(v) ==
    /\ pc[v] = "waiting"
    /\ inbox[v].lagged
    /\ inbox' = [inbox EXCEPT ![v].lagged = FALSE]
    /\ pc' = [pc EXCEPT ![v] = "idle"]
    /\ UNCHANGED <<disk, engine, candidate, registry, net, count>>
-----------------------------------------------------------------------------
(* do_commit. *)

ValidateEpochSeed(height, header, local) ==
    IF StartsEpoch(height)
    THEN header = SomeSeed(local) \/ (header = NoSeed /\ local = ZeroSeed)
    ELSE header = NoSeed

(* What the accounts of a node may hold that those of another do not: what *)
(* staking transactions did where the executor was given the validator     *)
(* set, the debits of the slashing tick, and the writes of a block that    *)
(* was left before it was stored.                                          *)
Mark(what, node, height) == [what |-> what, node |-> node, height |-> height]

After(block, held, with_validator_set) ==
    IF block.staking /\ with_validator_set
    THEN held \cup {Mark("staked", block.coinbase, block.number)} ELSE held

(* The header after execution.  The state root is drawn from the accounts  *)
(* on disk that the block touches, the coinbase's always: any of them may  *)
(* differ.                                                                 *)
Executed(block, held, with_validator_set) ==
    [block EXCEPT !.state_root =
        [height |-> block.number, accounts |-> After(block, held, with_validator_set)]]

(* Accounts are synced one by one before the block is: a process that dies *)
(* or a write that fails in between leaves them on disk without the block. *)
Torn(v, height, torn) ==
    IF torn THEN [accounts EXCEPT ![v] = @ \cup {Mark("torn", v, height)}] ELSE accounts

(* A slip: the seed is drawn from the block as it was proposed. *)
RotateSeedEarly(e, block) ==
    IF EndsEpoch(block.number)
    THEN [e EXCEPT !.seed = Append(@, [block EXCEPT !.state_root = Unexecuted])]
    ELSE e

(* rotate_epoch_seed with keccak256(block hash, epoch, previous seed): the *)
(* seed is the list of what went into it.                                  *)
RotateSeed(e, block) ==
    IF EndsEpoch(block.number) THEN [e EXCEPT !.seed = Append(@, block)] ELSE e

(* The validator-set sync at an epoch boundary: the configured validators  *)
(* are in the registry, and those not jailed are elected by stake.         *)
ElectActiveSet(v) ==
    SelectSeq(StakeOrder, LAMBDA u :
        /\ u \in ToSet(Configured[v]) \cup registry[v].staked
        /\ u \notin registry[v].jailed)

Broadcast(v, message) ==
    [x \in Nodes \X Nodes |->
        IF x[1] = v /\ {x[1], x[2]} \in link THEN Append(channel[x], message) ELSE channel[x]]

(* execute_and_commit drops a block whose parent is not the head.  The new *)
(* ValidatorSet asserts that the election found somebody: a driver that    *)
(* panics takes the node down.  Jail is the slashing tick on the way,      *)
(* Restart and CommitFails end a commit between its writes; one that dies  *)
(* after the block is stored is DoCommit and Restart.                      *)
DoCommit(v) ==
    LET block == candidate[v]
        stored == Executed(block, accounts[v], TRUE)
        valid == ValidateEpochSeed(block.number, block.epoch_seed, engine[v].seed)
        pruned == PruneSeenVotes(engine[v], block.number)
        rotated == RotateSeed(pruned, stored)
        elected == ElectActiveSet(v)
    IN  /\ pc[v] = "committing"
        /\ candidate' = [candidate EXCEPT ![v] = NoBlock]
        /\ IF valid /\ block.number = Height(v) + 1
           THEN /\ chain' = [chain EXCEPT ![v] = Append(@, stored)]
                /\ accounts' = [accounts EXCEPT ![v] = stored.state_root.accounts]
                /\ channel' = Broadcast(v, [type |-> "block", block |-> stored])
                /\ engine' = [engine EXCEPT ![v] =
                        IF StartsEpoch(block.number) /\ elected # <<>>
                        THEN UpdateValidatorSet(rotated, elected) ELSE rotated]
                /\ pc' = [pc EXCEPT ![v] =
                        IF StartsEpoch(block.number) /\ elected = <<>> THEN "dead" ELSE "idle"]
           ELSE /\ engine' = [engine EXCEPT ![v] = IF valid THEN pruned ELSE @]
                /\ pc' = [pc EXCEPT ![v] = "idle"]
                /\ UNCHANGED <<disk, channel>>
        /\ UNCHANGED <<inbox, registry, link, told, count>>

(* Execution or storage fails: the error is logged and the loop goes on. *)
CommitFails(v) ==
    /\ pc[v] = "committing"
    /\ count.events < MaxEvents
    /\ count' = [count EXCEPT !.failures = @ + 1, !.events = @ + 1]
    /\ \E torn \in BOOLEAN : accounts' = Torn(v, candidate[v].number, torn)
    /\ engine' = [engine EXCEPT ![v] = PruneSeenVotes(@, candidate[v].number)]
    /\ candidate' = [candidate EXCEPT ![v] = NoBlock]
    /\ pc' = [pc EXCEPT ![v] = "idle"]
    /\ UNCHANGED <<chain, inbox, registry, net>>

(* A staking transaction changes the registry. *)
Stake(v, u) ==
    /\ count.events < MaxEvents
    /\ u \notin registry[v].staked
    /\ registry' = [registry EXCEPT ![v].staked = @ \cup {u}]
    /\ count' = [count EXCEPT !.events = @ + 1]
    /\ UNCHANGED <<disk, driver, net>>

(* The slashing tick of do_commit jails u and debits the account of u, on  *)
(* the disk of this node only.                                             *)
Jail(v, u) ==
    /\ pc[v] = "committing"
    /\ count.events < MaxEvents
    /\ u \notin registry[v].jailed
    /\ registry' = [registry EXCEPT ![v].jailed = @ \cup {u}]
    /\ accounts' = [accounts EXCEPT ![v] = @ \cup {Mark("slashed", u, candidate[v].number)}]
    /\ count' = [count EXCEPT !.events = @ + 1]
    /\ UNCHANGED <<chain, driver, net>>
-----------------------------------------------------------------------------
(* The block exchange of two network servers. *)

Get(from, to) == [type |-> "get", from |-> from, to |-> to]
Lower(m, n) == IF m < n THEN m ELSE n

(* handle_peer, once each side has told the other its height. *)
Request(v, w) ==
    IF Height(w) > Height(v) + 1
    THEN <<Get(Height(v) + 1, Lower(Height(v) + MaxBlockRange, Height(w)))>> ELSE <<>>

Connect(v, w) ==
    LET asked(x, y) == IF Request(x, y) = <<>> THEN told[x] ELSE Request(x, y)[1].to
    IN  /\ v # w
        /\ {v, w} \notin link
        /\ count.events < MaxEvents
        /\ count' = [count EXCEPT !.events = @ + 1]
        /\ link' = link \cup {{v, w}}
        /\ channel' = [channel EXCEPT ![<<v, w>>] = Request(v, w), ![<<w, v>>] = Request(w, v)]
        /\ told' = [told EXCEPT ![v] = asked(v, w), ![w] = asked(w, v)]
        /\ UNCHANGED <<disk, driver, registry>>

(* What a lost connection leaves of the queues and of what was asked. *)
Drop(lost) ==
    /\ link' = link \ lost
    /\ channel' = [x \in Nodes \X Nodes |-> IF {x[1], x[2]} \in lost THEN <<>> ELSE channel[x]]
    /\ told' = [v \in Nodes |-> IF \E l \in lost : v \in l THEN 0 ELSE told[v]]

Disconnect(v, w) ==
    /\ v # w
    /\ {v, w} \in link
    /\ Drop({{v, w}})
    /\ UNCHANGED <<disk, driver, registry, count>>

(* The importer executes a block that follows the head, without the        *)
(* validator set, and stores what comes out of it: neither parent_hash nor *)
(* the proposer's state_root nor any certificate is looked at.             *)
Imported(blocks, held, block) ==
    IF block.number = Len(blocks) + 1 THEN Append(blocks, Executed(block, held, FALSE)) ELSE blocks

ImportedBatch(blocks, held, batch) ==
    LET after[n \in 0 .. Len(batch)] ==
            IF n = 0 THEN blocks ELSE Imported(after[n - 1], held, batch[n])
    IN  after[Len(batch)]

(* v takes the next message of w and answers. *)
Handled(v, w, answer) ==
    channel' = [channel EXCEPT ![<<w, v>>] = Tail(@), ![<<v, w>>] = @ \o answer]

ReceiveBlock(v, w, block) ==
    /\ chain' = [chain EXCEPT ![v] = Imported(@, accounts[v], block)]
    /\ Handled(v, w, IF block.number = Height(v) + 1
                     THEN <<Get(block.number + 1, block.number + MaxBlockRange)>> ELSE <<>>)

ReceiveBlocks(v, w, batch) ==
    /\ chain' = [chain EXCEPT ![v] = ImportedBatch(@, accounts[v], batch)]
    /\ Handled(v, w, <<>>)

(* A slip: the last block asked for is not served. *)
ServedExclusive(v, from, to) ==
    SubSeq(chain[v], from, Lower(Lower(to - 1, from + MaxBlockRange - 1), Height(v)))

Served(v, from, to) ==
    SubSeq(chain[v], from, Lower(Lower(to, from + MaxBlockRange - 1), Height(v)))

ReceiveGet(v, w, from, to) ==
    LET batch == Served(v, from, to)
    IN  /\ Handled(v, w, IF batch = <<>> THEN <<>> ELSE <<[type |-> "blocks", batch |-> batch]>>)
        /\ UNCHANGED chain

Receive(v, w) ==
    /\ channel[<<w, v>>] # <<>>
    /\ LET m == Head(channel[<<w, v>>])
       IN  \/ m.type = "block" /\ ReceiveBlock(v, w, m.block)
           \/ m.type = "blocks" /\ ReceiveBlocks(v, w, m.batch)
           \/ m.type = "get" /\ ReceiveGet(v, w, m.from, m.to)
    /\ UNCHANGED <<accounts, driver, registry, link, told, count>>

(* A message does not do its work and the connection lives on; nobody asks *)
(* again for what a lost request or a lost batch was to bring.             *)
Spoils(v, w, m) ==
    /\ count.events < MaxEvents
    /\ count' = [count EXCEPT !.events = @ + 1]
    /\ Handled(v, w, <<>>)
    /\ told' = [u \in Nodes |->
            IF \/ u = w /\ m.type = "get"
               \/ u = v /\ m.type = "blocks"
            THEN 0 ELSE told[u]]

(* A message over the rate limit is dropped unread.  An answer that finds  *)
(* the queue to the peer full is dropped: that to a request is the same as *)
(* a request unread, that to a block is the request for the blocks above.  *)
Lose(v, w) ==
    /\ channel[<<w, v>>] # <<>>
    /\ LET m == Head(channel[<<w, v>>])
       IN  /\ Spoils(v, w, m)
           /\ \/ UNCHANGED chain
              \/ /\ m.type = "block"
                 /\ chain' = [chain EXCEPT ![v] = Imported(@, accounts[v], m.block)]
    /\ UNCHANGED <<accounts, driver, registry, link>>

(* The blocks that a message brings. *)
Payload(m) ==
    CASE m.type = "block"  -> <<m.block>>
      [] m.type = "blocks" -> m.batch
      [] OTHER             -> <<>>

(* The execution of a block fails, or one of its writes: the rest of the   *)
(* batch is dropped.                                                       *)
ImportFails(v, w) ==
    /\ channel[<<w, v>>] # <<>>
    /\ LET m == Head(channel[<<w, v>>])
       IN  /\ Spoils(v, w, m)
           /\ \E n \in 1 .. Len(Payload(m)), torn \in BOOLEAN :
                LET blocks == ImportedBatch(chain[v], accounts[v], SubSeq(Payload(m), 1, n - 1))
                IN  /\ Payload(m)[n].number = Len(blocks) + 1
                    /\ chain' = [chain EXCEPT ![v] = blocks]
                    /\ accounts' = Torn(v, Len(blocks) + 1, torn)
    /\ UNCHANGED <<driver, registry, link>>

(* A block is being executed, by the driver or by the reader of a          *)
(* connection.                                                             *)
Executing(v) ==
    \/ pc[v] = "committing"
    \/ \E w \in Nodes : /\ channel[<<w, v>>] # <<>>
                        /\ \E block \in ToSet(Payload(Head(channel[<<w, v>>]))) :
                                block.number = Height(v) + 1

(* The process dies and is started again.  Only the database survives, as  *)
(* far as it was written: the engine, its seed and committee and the       *)
(* registry are built anew from the configuration and the genesis block.   *)
(* One that dies further into a batch is ImportFails and Restart.          *)
Restart(v, seed) ==
    /\ count.events < MaxEvents
    /\ count' = [count EXCEPT !.restarts[v] = @ + 1, !.events = @ + 1]
    /\ \E torn \in BOOLEAN : /\ torn => Executing(v)
                             /\ accounts' = Torn(v, Height(v) + 1, torn)
    /\ engine' = [engine EXCEPT ![v] = NewEngine(Configured[v], seed)]
    /\ pc' = [pc EXCEPT ![v] = "idle"]
    /\ candidate' = [candidate EXCEPT ![v] = NoBlock]
    /\ registry' = [registry EXCEPT ![v] = [staked |-> {}, jailed |-> {}]]
    /\ Drop({l \in link : v \in l})
    /\ inbox' = [inbox EXCEPT ![v] = [queue |-> <<>>, lagged |-> FALSE]]
    /\ UNCHANGED chain
-----------------------------------------------------------------------------
Next ==
    \/ \E v \in Nodes : Propose(v)
    \/ \E v \in Nodes : WaitForProposal(v)
    \/ \E v \in Nodes : Deliver(v)
    \/ \E v \in Nodes : Timeout(v)
    \/ \E v \in Nodes : Lagged(v)
    \/ \E v \in Nodes : DoCommit(v)
    \/ \E v \in Nodes : CommitFails(v)
    \/ \E v, u \in Nodes : Stake(v, u)
    \/ \E v, u \in Nodes : Jail(v, u)
    \/ \E v, w \in Nodes : Connect(v, w)
    \/ \E v, w \in Nodes : Disconnect(v, w)
    \/ \E v, w \in Nodes : Receive(v, w)
    \/ \E v, w \in Nodes : Lose(v, w)
    \/ \E v, w \in Nodes : ImportFails(v, w)
    \/ \E v \in Nodes : \E seed \in GenesisSeeds : Restart(v, seed)

Spec == Init /\ [][Next]_vars

(* ENABLED <<Propose(v)>>_vars written out: v has the turn, and the block  *)
(* is a new one or gets v's vote.                                          *)
ProposeEnabled(v) ==
    /\ pc[v] = "idle"
    /\ Height(v) < MaxHeight
    /\ MyTurn(v)
    /\ \E staking \in StakingTxs :
            LET block == Candidate(v, staking)
            IN  \/ block \notin engine[v].store
                \/ MayVote(engine[v], Data(block, Rules!Prepare), Height(v))

(* The driver's interval ticks for ever, its wait has a deadline, a commit *)
(* runs to its end, and a reader task keeps reading a live connection.     *)
(* Nothing is assumed of connections, votes or restarts.                   *)
Fairness ==
    /\ \A v \in Nodes : []<>~ProposeEnabled(v) \/ []<><<Propose(v)>>_vars
    /\ \A v \in Nodes : WF_vars(Timeout(v)) /\ WF_vars(DoCommit(v))
    /\ \A v, w \in Nodes : WF_vars(Receive(v, w))

FairSpec == Spec /\ Fairness
-----------------------------------------------------------------------------
(* Types; the blocks on disk are numbered without a gap and carry the root *)
(* of their execution, a committee is never empty, only a committing driver   *)
(* holds a block, and nobody votes for another node's proposal.            *)
TypeOK ==
    /\ \A v \in Nodes : \A i \in 1 .. Height(v) :
            chain[v][i].number = i /\ chain[v][i].state_root.height = i
    /\ \A v \in Nodes : engine[v].committee # <<>> /\ ToSet(engine[v].committee) \subseteq Nodes
    /\ pc \in [Nodes -> {"idle", "waiting", "committing", "dead"}]
    /\ \A v \in Nodes : candidate[v] # NoBlock <=> pc[v] = "committing"
    /\ \A v \in Nodes : inbox[v].lagged \in BOOLEAN /\ Len(inbox[v].queue) <= VoteChanCap
    /\ \A v \in Nodes : \A vote \in ToSet(inbox[v].queue) : vote.voter = vote.data.hash.coinbase
    /\ registry \in [Nodes -> [staked : SUBSET Nodes, jailed : SUBSET Nodes]]
    /\ \A l \in link : Cardinality(l) = 2 /\ l \subseteq Nodes
    /\ \A x \in Nodes \X Nodes : channel[x] # <<>> => {x[1], x[2]} \in link
    /\ told \in [Nodes -> 0 .. MaxHeight]

(* A block but for the results of its execution. *)
Body(block) == [block EXCEPT !.state_root = Unexecuted]

(* The nodes hold prefixes of one chain of proposals, in which only the    *)
(* results of the execution differ, however proposals, imports, restarts,  *)
(* failed commits and lost messages interleave: do_commit and the importer *)
(* write to the same head, and neither looks at a parent hash.             *)
OneChain ==
    \A v, w \in Nodes : \A i \in 1 .. Lower(Height(v), Height(w)) :
        Body(chain[v][i]) = Body(chain[w][i])

(* The blocks of one height are the same on every disk, the state root     *)
(* included (tests/unit/execution.rs: "Same block, same order -> same      *)
(* state root.").                                                          *)
SameBlocks ==
    \A v, w \in Nodes : \A i \in 1 .. Lower(Height(v), Height(w)) : chain[v][i] = chain[w][i]

(* What a light client derives from the headers: the genesis seed and the  *)
(* last block of every epoch before.                                       *)
SeedAfter(genesis, blocks, height) ==
    LET seed[n \in 0 .. height] ==
            IF n = 0 THEN genesis
            ELSE IF EndsEpoch(n) THEN Append(seed[n - 1], blocks[n]) ELSE seed[n - 1]
    IN  seed[height]

DerivedSeed(genesis, blocks, height) ==
    LET seed == SeedAfter(genesis, blocks, height - 1)
    IN  IF StartsEpoch(height) /\ seed # ZeroSeed THEN SomeSeed(seed) ELSE NoSeed

(* The block v holds at height i is the one its producer holds, and was    *)
(* built before that was restarted.                                        *)
AsProduced(v, i) ==
    LET producer == chain[v][i].coinbase
    IN  /\ chain[v][i].timestamp = 0
        /\ i <= Height(producer)
        /\ chain[v][i] = chain[producer][i]

(* On a node that holds its producers' blocks, none of them restarted, the *)
(* epoch_seed of every header is the one derived from the headers below it *)
(* (consensus.rs: "every boundary block MUST carry it").                   *)
SeedsVerify ==
    \E genesis \in GenesisSeeds : \A v \in Nodes :
        (\A i \in 1 .. Height(v) : AsProduced(v, i))
            => \A i \in 1 .. Height(v) :
                    chain[v][i].epoch_seed = DerivedSeed(genesis, chain[v], i)

(* A block the engine has decided is on disk or on its way there, unless a *)
(* commit failed: validate_epoch_seed and the head check never throw away  *)
(* a block the node itself decided.                                        *)
DecidedReachesDisk ==
    \A v \in Nodes : engine[v].committed_height > Height(v)
        => pc[v] = "committing" \/ count.failures > 0

(* A node that can no longer commit: the election left it out or gave it   *)
(* others to wait for, its driver has died, or its engine has already      *)
(* decided the height it would propose.                                    *)
Halted(v) ==
    \/ engine[v].committee # <<v>>
    \/ pc[v] = "dead"
    \/ pc[v] # "committing" /\ engine[v].committed_height > Height(v)

(* A lone validator goes on committing up to the bound on heights:         *)
(* restarts, an own vote that comes back, imports and a new seed at each   *)
(* epoch never leave it without a next block unless it has halted.         *)
KeepsCommitting ==
    \A v \in Nodes : Len(Configured[v]) = 1 => []<>(Height(v) = MaxHeight \/ Halted(v))

(* A range asked for when a connection is made arrives and is imported     *)
(* unless the connection, the request or the batch is lost or the import   *)
(* fails, whatever else the two nodes produce, announce, lose and ask for  *)
(* in the meantime.                                                        *)
FetchesRange ==
    \A v \in Nodes : told[v] > 0 ~> Height(v) >= told[v]

(* network.rs: "If peer is ahead, request missing blocks immediately": a   *)
(* node that stays connected to one that is ahead gets past its height.    *)
CatchesUp ==
    \A v, w \in Nodes : \A n \in 0 .. MaxHeight - 1 :
        ({v, w} \in link /\ Height(v) = n /\ Height(w) > n)
            ~> (Height(v) > n \/ {v, w} \notin link)

(* consensus.rs, "Multi-validator operation": rounds that time out move on *)
(* to the next proposer, and the committee commits.                        *)
SomebodyCommits == <>(\E v \in Nodes : Height(v) > 0)

(* Nodes at the same height and round with the same seed expect the same   *)
(* leader (consensus.rs: "Proposer for round r = validators[r % len]").    *)
LeaderAgreed ==
    \A v, w \in Nodes :
        (engine[v].round = engine[w].round /\ engine[v].seed = engine[w].seed /\ chain[v] = chain[w])
            => Leader(engine[v], engine[v].round) = Leader(engine[w], engine[w].round)
=============================================================================
