------------------------------ MODULE HotStuff ------------------------------
(***************************************************************************)
(* The three-phase HotStuff engine of every validator                      *)
(* (crates/zbx-consensus: hotstuff.rs, vote.rs, block_store.rs,            *)
(* liveness.rs) over a network that may delay, reorder, lose and repeat    *)
(* messages, with faulty validators and with restarts.                     *)
(*                                                                         *)
(* The faulty validators have no state: a vote of theirs may arrive at any *)
(* time.  A proposal is not authenticated by the engine beyond its coinbase*)
(* and a certificate without signers always verifies, so any block of the  *)
(* right leader may arrive at any validator with any parent number.        *)
(* Signatures, the public-key registry and the four drop counters are left *)
(* out: a vote that fails those checks is dropped without a state change.  *)
(***************************************************************************)
EXTENDS SafetyRules, FiniteSets, Sequences

CONSTANTS
    Validators,         \* the active validator set
    Byzantine,          \* its faulty members
    Live,               \* the honest members that run; the others are stopped
    ByzData,            \* what the faulty members sign
    BlockNumber,        \* header.number of the block with a hash
    BlockEpoch,         \* header.epoch
    BlockParent,        \* header.parent_hash
    Coinbase,           \* header.coinbase
    ProposerOf(_),      \* proposer_for_round
    StoreCapacity,      \* capacity of the block store
    MaxParent,          \* bound on the parent certificate's number
    MaxRound,           \* bound on the pacemaker's round for timeouts
    MaxRestarts,        \* bound on the restarts, all validators together
    Persist             \* SafetyRules writes its file

Honest == Validators \ Byzantine

ASSUME HotStuffConstants ==
    /\ IsFiniteSet(Validators)
    /\ Byzantine \subseteq Validators
    /\ Live \subseteq Honest
    /\ 3 * Cardinality(Byzantine) < Cardinality(Validators)
    /\ ByzData \subseteq VoteData
    /\ BlockNumber \in [Hash -> Nat \ {0}]
    /\ BlockEpoch \in [Hash -> Nat]
    /\ StoreCapacity \in Nat \ {0}
    /\ MaxParent \in Nat
    /\ MaxRound \in Nat
    /\ MaxRestarts \in Nat
    /\ Persist \in BOOLEAN

VARIABLES
    safety,             \* safety_rules.state, per honest validator
    wal,                \* the SafetyState in its file
    pacemaker,          \* [round, epoch]
    store,              \* block_store: hashes in insertion order
    accs,               \* vote_accumulators: a set of [data, voters]
    seen,               \* seen_votes: the first vote per (number, phase, voter)
    committed_height,
    highest_qc,
    network,            \* every vote an honest validator has sent
    own,                \* the vote process_events has yet to feed back, if any
    commits,            \* history: <<v, h>> for each Committed event
    accused,            \* history: validators with equivocation evidence
    restarts            \* number of restarts so far

vars == <<safety, wal, pacemaker, store, accs, seen, committed_height,
          highest_qc, network, own, commits, accused, restarts>>

Vote == [data : VoteData, voter : Validators]
NoVote == [voter |-> "none"]

Accumulator == [data : VoteData, voters : SUBSET Validators]

(* A slip: the quorum without the "+ 1". *)
QuorumSizeTwoThirds == (2 * Cardinality(Validators)) \div 3

(* A slip: the number of faults tolerated, f, in place of the quorum. *)
QuorumSizeFaulty == Cardinality(Validators) \div 3

(* ValidatorSet::new: floor(2n / 3) + 1. *)
QuorumSize == (2 * Cardinality(Validators)) \div 3 + 1

InitPacemaker == [round |-> 1, epoch |-> 1]

Init ==
    /\ safety = [v \in Honest |-> DefaultState]
    /\ wal = [v \in Honest |-> DefaultState]
    /\ pacemaker = [v \in Honest |-> InitPacemaker]
    /\ store = [v \in Honest |-> <<>>]
    /\ accs = [v \in Honest |-> {}]
    /\ seen = [v \in Honest |-> {}]
    /\ committed_height = [v \in Honest |-> 0]
    /\ highest_qc = [v \in Honest |-> NoQC]
    /\ network = {}
    /\ own = [v \in Honest |-> NoVote]
    /\ commits = {}
    /\ accused = {}
    /\ restarts = 0
-----------------------------------------------------------------------------
Stored(v) == {store[v][i] : i \in DOMAIN store[v]}

(* BlockStore::add: a known hash is ignored, a full store drops its oldest *)
(* block.                                                                  *)
StoreAdd(s, h) ==
    IF \E i \in DOMAIN s : s[i] = h THEN s
    ELSE Append(IF Len(s) >= StoreCapacity THEN Tail(s) ELSE s, h)

(* A slip: the comparison is off by one. *)
AdvanceRoundLate(pm, round, epoch) ==
    IF round > pm.round + 1 THEN [round |-> round, epoch |-> epoch] ELSE pm

(* Pacemaker::advance_round only moves forward, and sets the epoch only    *)
(* when it moves.                                                          *)
AdvanceRound(pm, round, epoch) ==
    IF round > pm.round THEN [round |-> round, epoch |-> epoch] ELSE pm

(* A successful SafetyRules::vote from state s: the new state is in memory *)
(* and in the file before the vote is sent.  process_events sends it to    *)
(* the peers and then feeds it back before it does anything else.          *)
CastVote(v, s, d) ==
    /\ safety' = [safety EXCEPT ![v] = AfterVote(s, d)]
    /\ wal' = IF Persist THEN [wal EXCEPT ![v] = AfterVote(s, d)] ELSE wal
    /\ network' = network \cup {[data |-> d, voter |-> v]}
    /\ own' = [own EXCEPT ![v] = [data |-> d, voter |-> v]]

(* vote() from state s on data d: sent, or refused with s left in memory   *)
(* only.                                                                   *)
TryVote(v, s, d, parentNumber) ==
    \/ CanVote(s, d, parentNumber) /\ CastVote(v, s, d)
    \/ /\ ~ CanVote(s, d, parentNumber)
       /\ safety' = [safety EXCEPT ![v] = s]
       /\ own' = [own EXCEPT ![v] = NoVote]
       /\ UNCHANGED <<wal, network>>

(* on_proposal: the block is stored before the vote is attempted, and      *)
(* stays stored when the vote is refused.                                  *)
OnProposal(v, h, parentNumber) ==
    /\ Coinbase[h] = ProposerOf(BlockNumber[h])
    /\ store' = [store EXCEPT ![v] = StoreAdd(@, h)]
    /\ TryVote(v, safety[v],
               [hash |-> h, number |-> BlockNumber[h], phase |-> Prepare,
                epoch |-> BlockEpoch[h]],
               parentNumber)
    /\ UNCHANGED <<pacemaker, accs, seen, committed_height, highest_qc,
                   commits, accused, restarts>>
-----------------------------------------------------------------------------
(* on_vote, after the membership, registry and signature checks. *)

(* A slip: the detector's key without the voter. *)
SameSlotAnyVoter(x, y) == Key(x.data) = Key(y.data)

SameSlot(x, y) == x.voter = y.voter /\ Key(x.data) = Key(y.data)

(* A different hash from the same voter for the same number and phase. *)
Conflicts(v, vote) ==
    \E first \in seen[v] :
        SameSlot(first, vote) /\ first.data.hash # vote.data.hash

Remember(v, vote) ==
    IF \E first \in seen[v] : SameSlot(first, vote)
    THEN seen[v] ELSE seen[v] \cup {vote}

(* The accumulator of a (number, phase); its data are those of the first   *)
(* vote that arrived.                                                      *)
Acc(v, d) ==
    IF \E a \in accs[v] : Key(a.data) = Key(d)
    THEN CHOOSE a \in accs[v] : Key(a.data) = Key(d)
    ELSE [data |-> d, voters |-> {}]

WithVoter(a, u) == [data |-> a.data, voters |-> a.voters \cup {u}]

(* The vote enters the accumulator: add_vote neither ignores it (other     *)
(* data) nor refuses it (DuplicateVote).                                   *)
Counts(v, vote) ==
    /\ ~ Conflicts(v, vote)
    /\ Acc(v, vote.data).data = vote.data
    /\ vote.voter \notin Acc(v, vote.data).voters

(* A slip: one vote short of the quorum. *)
FormsQcEarly(v, vote) ==
    Cardinality(Acc(v, vote.data).voters \cup {vote.voter}) + 1 >= QuorumSize

(* add_vote yields a certificate at the quorum and again for every later   *)
(* vote.                                                                   *)
FormsQc(v, vote) ==
    Cardinality(Acc(v, vote.data).voters \cup {vote.voter}) >= QuorumSize

AddVote(v, vote) ==
    accs' = [accs EXCEPT ![v] = (@ \ {Acc(v, vote.data)})
                                \cup {WithVoter(Acc(v, vote.data), vote.voter)}]

(* RemoteEquivocation: the driver builds evidence, unless the vote is its   *)
(* own.                                                                    *)
OnConflict(v, vote) ==
    /\ Conflicts(v, vote)
    /\ accused' = IF vote = own[v] THEN accused ELSE accused \cup {vote.voter}
    /\ own' = [own EXCEPT ![v] = NoVote]
    /\ UNCHANGED <<safety, wal, pacemaker, store, accs, seen, committed_height,
                   highest_qc, network, commits, restarts>>

(* Other data than the accumulator's, or a vote it already holds: only the *)
(* detector remembers it.                                                  *)
OnIgnored(v, vote) ==
    /\ ~ Conflicts(v, vote)
    /\ ~ Counts(v, vote)
    /\ seen' = [seen EXCEPT ![v] = Remember(v, vote)]
    /\ own' = [own EXCEPT ![v] = NoVote]
    /\ UNCHANGED <<safety, wal, pacemaker, store, accs, committed_height,
                   highest_qc, network, commits, accused, restarts>>

OnCounted(v, vote) ==
    /\ Counts(v, vote)
    /\ ~ FormsQc(v, vote)
    /\ AddVote(v, vote)
    /\ seen' = [seen EXCEPT ![v] = Remember(v, vote)]
    /\ own' = [own EXCEPT ![v] = NoVote]
    /\ UNCHANGED <<safety, wal, pacemaker, store, committed_height,
                   highest_qc, network, commits, accused, restarts>>

QcOf(d) == [hash |-> d.hash, number |-> d.number]

(* A slip: the phase is added to the certificate's. *)
NextPhaseAdded(v, d, phase) ==
    [hash |-> d.hash, number |-> d.number, phase |-> d.phase + phase,
     epoch |-> pacemaker[v].epoch]

(* The data of the next phase's vote carry the pacemaker's epoch, not the  *)
(* certificate's.                                                          *)
NextPhase(v, d, phase) ==
    [hash |-> d.hash, number |-> d.number, phase |-> phase,
     epoch |-> pacemaker[v].epoch]

(* on_qc, phase 0: lock, remember the certificate, vote PreCommit.  The    *)
(* error of a refused vote is dropped.                                     *)
OnPrepareQc(v, vote) ==
    /\ Counts(v, vote)
    /\ FormsQc(v, vote)
    /\ vote.data.phase = Prepare
    /\ AddVote(v, vote)
    /\ seen' = [seen EXCEPT ![v] = Remember(v, vote)]
    /\ highest_qc' = [highest_qc EXCEPT ![v] = QcOf(vote.data)]
    /\ TryVote(v, UpdateLockedQc(safety[v], QcOf(vote.data)),
               NextPhase(v, vote.data, PreCommit), vote.data.number)
    /\ UNCHANGED <<pacemaker, store, committed_height, commits, accused, restarts>>

(* on_qc, phase 1: vote Commit. *)
OnPreCommitQc(v, vote) ==
    /\ Counts(v, vote)
    /\ FormsQc(v, vote)
    /\ vote.data.phase = PreCommit
    /\ AddVote(v, vote)
    /\ seen' = [seen EXCEPT ![v] = Remember(v, vote)]
    /\ TryVote(v, safety[v], NextPhase(v, vote.data, Commit), vote.data.number)
    /\ UNCHANGED <<pacemaker, store, committed_height, highest_qc, commits,
                   accused, restarts>>

(* on_qc, phase 2: decide, if the block is in the store and higher than    *)
(* the last one.  The commit hook then prunes the detector                 *)
(* (prune_seen_votes_below, called by do_commit in node/src/consensus.rs). *)
OnCommitQc(v, vote) ==
    /\ Counts(v, vote)
    /\ FormsQc(v, vote)
    /\ vote.data.phase = Commit
    /\ AddVote(v, vote)
    /\ LET h == vote.data.hash IN
       IF h \in Stored(v) /\ BlockNumber[h] > committed_height[v]
       THEN /\ committed_height' = [committed_height EXCEPT ![v] = BlockNumber[h]]
            /\ pacemaker' = [pacemaker EXCEPT ![v] =
                                AdvanceRound(@, BlockNumber[h] + 1, vote.data.epoch)]
            /\ commits' = commits \cup {<<v, h>>}
            /\ seen' = [seen EXCEPT ![v] =
                            {x \in Remember(v, vote) : x.data.number >= BlockNumber[h]}]
       ELSE /\ seen' = [seen EXCEPT ![v] = Remember(v, vote)]
            /\ UNCHANGED <<committed_height, pacemaker, commits>>
    /\ own' = [own EXCEPT ![v] = NoVote]
    /\ UNCHANGED <<safety, wal, store, highest_qc, network, accused, restarts>>

OnVote(v, vote) ==
    \/ OnConflict(v, vote)
    \/ OnIgnored(v, vote)
    \/ OnCounted(v, vote)
    \/ OnPrepareQc(v, vote)
    \/ OnPreCommitQc(v, vote)
    \/ OnCommitQc(v, vote)
-----------------------------------------------------------------------------
OnTimeout(v) ==
    /\ pacemaker[v].round < MaxRound
    /\ pacemaker' = [pacemaker EXCEPT ![v] = [round |-> @.round + 1, epoch |-> @.epoch]]
    /\ UNCHANGED <<safety, wal, store, accs, seen, committed_height,
                   highest_qc, network, own, commits, accused, restarts>>

(* A slip: the file is there but is not read back. *)
RestartForgetful(v) ==
    /\ restarts < MaxRestarts
    /\ restarts' = restarts + 1
    /\ safety' = [safety EXCEPT ![v] = DefaultState]
    /\ pacemaker' = [pacemaker EXCEPT ![v] = InitPacemaker]
    /\ store' = [store EXCEPT ![v] = <<>>]
    /\ accs' = [accs EXCEPT ![v] = {}]
    /\ seen' = [seen EXCEPT ![v] = {}]
    /\ committed_height' = [committed_height EXCEPT ![v] = 0]
    /\ highest_qc' = [highest_qc EXCEPT ![v] = NoQC]
    /\ own' = [own EXCEPT ![v] = NoVote]
    /\ UNCHANGED <<wal, network, commits, accused>>

(* The process dies and comes back: HotStuffConsensus::new, with the       *)
(* SafetyState read from its file or fresh.                                *)
Restart(v) ==
    /\ restarts < MaxRestarts
    /\ restarts' = restarts + 1
    /\ safety' = [safety EXCEPT ![v] = IF Persist THEN wal[v] ELSE DefaultState]
    /\ pacemaker' = [pacemaker EXCEPT ![v] = InitPacemaker]
    /\ store' = [store EXCEPT ![v] = <<>>]
    /\ accs' = [accs EXCEPT ![v] = {}]
    /\ seen' = [seen EXCEPT ![v] = {}]
    /\ committed_height' = [committed_height EXCEPT ![v] = 0]
    /\ highest_qc' = [highest_qc EXCEPT ![v] = NoQC]
    /\ own' = [own EXCEPT ![v] = NoVote]
    /\ UNCHANGED <<wal, network, commits, accused>>

ByzVotes == {[data |-> d, voter |-> u] : d \in ByzData, u \in Byzantine}

(* While its own vote is being fed back a validator does nothing else.     *)
(* Its own votes also come back to it over the channel (vote_rx).          *)
Step(v) ==
    \/ own[v] # NoVote /\ OnVote(v, own[v])
    \/ /\ own[v] = NoVote
       /\ \/ \E h \in Hash, p \in 0..MaxParent : OnProposal(v, h, p)
          \/ \E vote \in network \cup ByzVotes : OnVote(v, vote)
          \/ OnTimeout(v)

Next == \E v \in Live : Step(v) \/ Restart(v)

Spec == Init /\ [][Next]_vars
-----------------------------------------------------------------------------
TypeOK ==
    /\ safety \in [Honest -> SafetyState]
    /\ wal \in [Honest -> SafetyState]
    /\ pacemaker \in [Honest -> [round : Nat, epoch : Nat]]
    /\ store \in [Honest -> Seq(Hash)]
    /\ accs \in [Honest -> SUBSET Accumulator]
    /\ seen \in [Honest -> SUBSET Vote]
    /\ committed_height \in [Honest -> Nat]
    /\ highest_qc \in [Honest -> QC \cup {NoQC}]
    /\ network \in SUBSET Vote
    /\ own \in [Honest -> Vote \cup {NoVote}]
    /\ commits \in SUBSET (Honest \X Hash)
    /\ accused \in SUBSET Validators
    /\ restarts \in Nat

(* Two validators never commit different blocks of the same height, with   *)
(* fewer than a third of them faulty, over restarts and whatever the       *)
(* network does (on_qc, phase 2).                                          *)
Agreement ==
    \A x, y \in commits : BlockNumber[x[2]] = BlockNumber[y[2]] => x[2] = y[2]

(* on_vote raises RemoteEquivocation, hence slashing evidence, only        *)
(* against a validator that is faulty.                                     *)
HonestNeverAccused == accused \subseteq Byzantine

(* The driver proposes and expects proposals for the pacemaker's round     *)
(* (run_round in node/src/consensus.rs), so that round must always lie     *)
(* above what is committed, whatever timeouts, late certificates and       *)
(* restarts do to either (on_qc phase 2, advance_round, on_timeout).       *)
RoundAboveCommitted ==
    \A v \in Honest : committed_height[v] < pacemaker[v].round

(* The validators that may have signed for a block in a phase: those that  *)
(* sent a vote and the faulty ones.                                        *)
Signers(h, phase) ==
    {u \in Validators :
        \/ u \in Byzantine
        \/ \E vote \in network : /\ vote.voter = u
                                 /\ vote.data.hash = h
                                 /\ vote.data.phase = phase}

HasQuorum(h, phase) == Cardinality(Signers(h, phase)) >= QuorumSize

(* The phases cannot be skipped: a PreCommit vote of an honest validator   *)
(* stands on a quorum of Prepare votes, a Commit vote on a quorum of       *)
(* PreCommit votes, a commit on a quorum of Commit votes, for the same     *)
(* block; and the lock stands on a quorum of Prepare votes.                *)
PhasesInOrder ==
    /\ \A vote \in network : vote.data.phase # Prepare =>
            HasQuorum(vote.data.hash, vote.data.phase - 1)
    /\ \A x \in commits : HasQuorum(x[2], Commit)
    /\ \A v \in Honest : safety[v].locked_qc # NoQC =>
            HasQuorum(safety[v].locked_qc.hash, Prepare)

(* The engine implements the finality specification. *)
Ledger == INSTANCE Finality WITH final <- {x[2] : x \in commits}
ImplementsFinality == Ledger!Spec

(* floor(2n/3) + 1 "tolerates f=1" with four validators: once a quorum of  *)
(* votes for the same data has reached a validator, its accumulator holds  *)
(* them and the certificate has been formed (on_vote, add_vote).           *)
QuorumFormsQc ==
    \A v \in Honest : \A x \in seen[v] :
        Cardinality({y \in seen[v] : y.data = x.data}) >= QuorumSize =>
            \E a \in accs[v] : a.data = x.data /\ Cardinality(a.voters) >= QuorumSize

(* "Locked-QC rule: can only vote for blocks extending the locked chain":  *)
(* the block of a new Prepare vote one above the lock has the locked block *)
(* as its parent.                                                          *)
VotesExtendLock ==
    [][\A vote \in network' \ network :
          LET lock == safety[vote.voter].locked_qc IN
          (/\ vote.data.phase = Prepare
           /\ lock # NoQC
           /\ vote.data.number = lock.number + 1)
          => BlockParent[vote.data.hash] = lock.hash]_vars
=============================================================================
