--------------------------- MODULE HotStuffProofs ---------------------------
(***************************************************************************)
(* Proofs for HotStuff, for every validator set with fewer than a third of *)
(* faulty members, every set of blocks and every bound: with a write-ahead *)
(* file the engine never commits two blocks of one height and never        *)
(* accuses an honest validator.                                            *)
(***************************************************************************)
EXTENDS HotStuff, FiniteSetTheorems, TLAPS

(* A vote that passes the checks keeps the state well formed, moves        *)
(* highest_vote_round to its number and records its pair; the lock and the *)
(* epoch stay.                                                             *)
LEMMA AfterVoteType ==
    ASSUME NEW s \in SafetyState, NEW d \in VoteData
    PROVE  /\ AfterVote(s, d) \in SafetyState
           /\ AfterVote(s, d).highest_vote_round = d.number
           /\ AfterVote(s, d).locked_round = s.locked_round
           /\ AfterVote(s, d).epoch = s.epoch
           /\ AfterVote(s, d).voted_phases = s.voted_phases \cup {Key(d)}
<1>1. Key(d) \in Nat \X Phase
  BY DEF VoteData, Key
<1>2. AfterVote(s, d).voted_phases = s.voted_phases \cup {Key(d)}
  BY DEF AfterVote, SafetyState
<1>3. /\ AfterVote(s, d).highest_vote_round = d.number
      /\ AfterVote(s, d).locked_round = s.locked_round
      /\ AfterVote(s, d).locked_qc = s.locked_qc
      /\ AfterVote(s, d).epoch = s.epoch
  BY DEF AfterVote, SafetyState
<1>4. s.voted_phases \cup {Key(d)} \in SUBSET (Nat \X Phase)
  BY <1>1 DEF SafetyState
<1>5. d.number \in Nat
  BY DEF VoteData
<1>6. AfterVote(s, d) \in SafetyState
  BY <1>4, <1>5 DEF AfterVote, SafetyState
<1> QED
  BY <1>2, <1>3, <1>6

(* update_locked_qc never lowers the lock. *)
LEMMA UpdateLockedQcType ==
    ASSUME NEW s \in SafetyState, NEW qc \in QC
    PROVE  /\ UpdateLockedQc(s, qc) \in SafetyState
           /\ UpdateLockedQc(s, qc).highest_vote_round = s.highest_vote_round
           /\ UpdateLockedQc(s, qc).locked_round >= s.locked_round
           /\ UpdateLockedQc(s, qc).epoch = s.epoch
           /\ UpdateLockedQc(s, qc).voted_phases = s.voted_phases
<1>1. CASE qc.number > s.locked_round
  <2>1. UpdateLockedQc(s, qc) =
         [highest_vote_round |-> s.highest_vote_round, locked_round |-> qc.number,
          locked_qc |-> qc, epoch |-> s.epoch, voted_phases |-> s.voted_phases]
    BY <1>1 DEF UpdateLockedQc, SafetyState
  <2>2. qc.number \in Nat /\ s.locked_round \in Nat
    BY DEF QC, SafetyState
  <2> QED
    BY <1>1, <2>1, <2>2 DEF SafetyState
<1>2. CASE ~ (qc.number > s.locked_round)
  BY <1>2 DEF UpdateLockedQc, SafetyState
<1> QED
  BY <1>1, <1>2

(* SafetyState::default() is well formed. *)
LEMMA DefaultStateType == DefaultState \in SafetyState
  BY DEF DefaultState, SafetyState, NoQC, QC
-----------------------------------------------------------------------------

(* floor(2n/3) + 1 votes: two quorums share an honest validator. *)
LEMMA QuorumsIntersect ==
    ASSUME NEW P \in SUBSET Validators, NEW Q \in SUBSET Validators,
           Cardinality(P) >= QuorumSize, Cardinality(Q) >= QuorumSize
    PROVE  \E u \in Honest : u \in P /\ u \in Q
<1> DEFINE n == Cardinality(Validators)
<1>1. IsFiniteSet(Validators) /\ IsFiniteSet(P) /\ IsFiniteSet(Q) /\ IsFiniteSet(P \cup Q)
      /\ IsFiniteSet(P \cap Q) /\ IsFiniteSet(Byzantine)
  BY HotStuffConstants, FS_Subset, FS_Union
<1>2. /\ n \in Nat /\ Cardinality(P) \in Nat /\ Cardinality(Q) \in Nat
      /\ Cardinality(P \cup Q) \in Nat /\ Cardinality(P \cap Q) \in Nat
      /\ Cardinality(Byzantine) \in Nat
  BY <1>1, FS_CardinalityType
<1>3. Cardinality(P \cup Q) = Cardinality(P) + Cardinality(Q) - Cardinality(P \cap Q)
  BY <1>1, FS_Union
<1>4. Cardinality(P \cup Q) <= n
  <2>1. P \cup Q \in SUBSET Validators
    OBVIOUS
  <2> QED
    BY <1>1, <2>1, FS_Subset
<1>5. 3 * Cardinality(Byzantine) < n
  BY HotStuffConstants
<1>6. 3 * QuorumSize > 2 * n /\ QuorumSize \in Nat
  BY <1>2 DEF QuorumSize
<1>7. Cardinality(P \cap Q) > Cardinality(Byzantine)
  BY <1>2, <1>3, <1>4, <1>5, <1>6
<1>8. ~ (P \cap Q \subseteq Byzantine)
  <2> SUFFICES ASSUME P \cap Q \in SUBSET Byzantine PROVE FALSE
    OBVIOUS
  <2>1. Cardinality(P \cap Q) <= Cardinality(Byzantine)
    BY <1>1, FS_Subset
  <2> QED
    BY <2>1, <1>2, <1>7
<1> QED
  BY <1>8 DEF Honest

(* A quorum has an honest member. *)
LEMMA QuorumHasHonest ==
    ASSUME NEW Q \in SUBSET Validators, Cardinality(Q) >= QuorumSize
    PROVE  \E u \in Honest : u \in Q
  BY QuorumsIntersect
-----------------------------------------------------------------------------
(* The certificate formed from vote data is well formed. *)
LEMMA QcOfType == ASSUME NEW d \in VoteData PROVE QcOf(d) \in QC
  BY DEF QcOf, VoteData, QC

(* on_qc's next vote is for the block of the certificate, in the phase asked. *)
LEMMA NextPhaseType ==
    ASSUME TypeOK, NEW v \in Honest, NEW d \in VoteData, NEW phase \in Phase
    PROVE  /\ NextPhase(v, d, phase) \in VoteData
           /\ NextPhase(v, d, phase).hash = d.hash
           /\ NextPhase(v, d, phase).number = d.number
           /\ NextPhase(v, d, phase).phase = phase
<1>1. pacemaker[v].epoch \in Nat
  BY DEF TypeOK
<1> QED
  BY <1>1 DEF NextPhase, VoteData

(* on_proposal signs well-formed data. *)
LEMMA ProposalDataType ==
    ASSUME NEW h \in Hash
    PROVE  [hash |-> h, number |-> BlockNumber[h], phase |-> Prepare,
            epoch |-> BlockEpoch[h]] \in VoteData
  BY HotStuffConstants DEF VoteData, Phase

(* BlockStore::add keeps a sequence of blocks, at its capacity too. *)
LEMMA StoreAddType ==
    ASSUME NEW s \in Seq(Hash), NEW h \in Hash
    PROVE  StoreAdd(s, h) \in Seq(Hash)
<1>1. CASE \E i \in DOMAIN s : s[i] = h
  BY <1>1 DEF StoreAdd
<1>2. CASE ~ \E i \in DOMAIN s : s[i] = h
  <2>1. CASE Len(s) >= StoreCapacity
    <3>1. s # <<>>
      BY <2>1, HotStuffConstants
    <3>2. Tail(s) \in Seq(Hash)
      BY <3>1
    <3> QED
      BY <1>2, <2>1, <3>2 DEF StoreAdd
  <2>2. CASE ~ (Len(s) >= StoreCapacity)
    BY <1>2, <2>2 DEF StoreAdd
  <2> QED
    BY <2>1, <2>2
<1> QED
  BY <1>1, <1>2

(* The accumulator of a vote exists or is empty. *)
LEMMA AccType ==
    ASSUME TypeOK, NEW v \in Honest, NEW d \in VoteData
    PROVE  /\ Acc(v, d) \in Accumulator
           /\ Acc(v, d) \in accs[v] \/ Acc(v, d).voters = {}
  BY DEF Acc, TypeOK, Accumulator

(* Adding a voter keeps an accumulator well formed. *)
LEMMA WithVoterType ==
    ASSUME NEW a \in Accumulator, NEW u \in Validators
    PROVE  WithVoter(a, u) \in Accumulator
  BY DEF WithVoter, Accumulator

(* The detector remembers votes. *)
LEMMA RememberType ==
    ASSUME TypeOK, NEW v \in Honest, NEW vote \in Vote
    PROVE  Remember(v, vote) \in SUBSET Vote
  BY DEF Remember, TypeOK

(* A new pacemaker is well formed. *)
LEMMA InitPacemakerType == InitPacemaker \in [round : Nat, epoch : Nat]
  BY DEF InitPacemaker

(* The parts of the state a voting attempt writes. *)
VotingTypes ==
    /\ safety \in [Honest -> SafetyState]
    /\ wal \in [Honest -> SafetyState]
    /\ network \in SUBSET Vote
    /\ own \in [Honest -> Vote \cup {NoVote}]

(* A voting attempt, sent or refused, keeps the types. *)
LEMMA TryVoteType ==
    ASSUME TypeOK, NEW v \in Honest, NEW s \in SafetyState, NEW d \in VoteData,
           NEW p, TryVote(v, s, d, p)
    PROVE  VotingTypes'
<1>1. v \in Validators
  BY DEF Honest
<1>2. [data |-> d, voter |-> v] \in Vote
  BY <1>1 DEF Vote
<1>3. AfterVote(s, d) \in SafetyState
  BY AfterVoteType
<1>4. CASE CastVote(v, s, d)
  <2>1. safety' \in [Honest -> SafetyState]
    BY <1>3, <1>4 DEF CastVote, TypeOK
  <2>2. wal' \in [Honest -> SafetyState]
    BY <1>3, <1>4 DEF CastVote, TypeOK
  <2>3. network' \in SUBSET Vote
    BY <1>2, <1>4 DEF CastVote, TypeOK
  <2>4. own' \in [Honest -> Vote \cup {NoVote}]
    BY <1>2, <1>4 DEF CastVote, TypeOK
  <2> QED
    BY <2>1, <2>2, <2>3, <2>4 DEF VotingTypes
<1>5. CASE /\ safety' = [safety EXCEPT ![v] = s]
           /\ own' = [own EXCEPT ![v] = NoVote]
           /\ UNCHANGED <<wal, network>>
  <2>1. safety' \in [Honest -> SafetyState]
    BY <1>5 DEF TypeOK
  <2>2. own' \in [Honest -> Vote \cup {NoVote}]
    BY <1>5 DEF TypeOK
  <2> QED
    BY <1>5, <2>1, <2>2 DEF VotingTypes, TypeOK
<1> QED
  BY <1>4, <1>5 DEF TryVote

(* Type correctness, whatever the file, the network and the faulty members *)
(* do.                                                                     *)
LEMMA ProposalTypeOK ==
    ASSUME TypeOK, NEW v \in Honest, NEW h \in Hash, NEW p, OnProposal(v, h, p)
    PROVE  TypeOK'
<1>1. safety[v] \in SafetyState
  BY DEF TypeOK
<1>2. VotingTypes'
  BY <1>1, ProposalDataType, TryVoteType DEF OnProposal
<1>3. store' \in [Honest -> Seq(Hash)]
  <2>1. StoreAdd(store[v], h) \in Seq(Hash)
    BY StoreAddType DEF TypeOK
  <2> QED
    BY <2>1 DEF OnProposal, TypeOK
<1> QED
  BY <1>2, <1>3 DEF OnProposal, TypeOK, VotingTypes

(* What a counted vote does to the accumulators and the detector. *)
LEMMA AddVoteType ==
    ASSUME TypeOK, NEW v \in Honest, NEW vote \in Vote, AddVote(v, vote)
    PROVE  accs' \in [Honest -> SUBSET Accumulator]
<1>1. vote.data \in VoteData /\ vote.voter \in Validators
  BY DEF Vote
<1>2. WithVoter(Acc(v, vote.data), vote.voter) \in Accumulator
  BY <1>1, AccType, WithVoterType
<1> QED
  BY <1>2 DEF AddVote, TypeOK

(* Every outcome of on_vote keeps the types. *)
LEMMA VoteTypeOK ==
    ASSUME TypeOK, NEW v \in Honest, NEW vote \in Vote, OnVote(v, vote)
    PROVE  TypeOK'
<1>1. vote.data \in VoteData /\ vote.voter \in Validators /\ safety[v] \in SafetyState
  BY DEF Vote, TypeOK
<1>2. Remember(v, vote) \in SUBSET Vote
  BY RememberType
<1>3. /\ [own EXCEPT ![v] = NoVote] \in [Honest -> Vote \cup {NoVote}]
      /\ [seen EXCEPT ![v] = Remember(v, vote)] \in [Honest -> SUBSET Vote]
  BY <1>2 DEF TypeOK
<1>4. CASE OnConflict(v, vote)
  BY <1>1, <1>3, <1>4 DEF OnConflict, TypeOK
<1>5. CASE OnIgnored(v, vote)
  BY <1>3, <1>5 DEF OnIgnored, TypeOK
<1>6. CASE OnCounted(v, vote)
  <2>1. accs' \in [Honest -> SUBSET Accumulator]
    BY <1>6, AddVoteType DEF OnCounted
  <2> QED
    BY <1>3, <1>6, <2>1 DEF OnCounted, TypeOK
<1>7. CASE OnPrepareQc(v, vote)
  <2>1. accs' \in [Honest -> SUBSET Accumulator]
    BY <1>7, AddVoteType DEF OnPrepareQc
  <2>2. QcOf(vote.data) \in QC
    BY <1>1, QcOfType
  <2>3. UpdateLockedQc(safety[v], QcOf(vote.data)) \in SafetyState
    BY <1>1, <2>2, UpdateLockedQcType
  <2>4. NextPhase(v, vote.data, PreCommit) \in VoteData
    BY <1>1, NextPhaseType DEF Phase
  <2>5. VotingTypes'
    BY <1>7, <2>3, <2>4, TryVoteType DEF OnPrepareQc
  <2>6. highest_qc' \in [Honest -> QC \cup {NoQC}]
    BY <1>7, <2>2 DEF OnPrepareQc, TypeOK
  <2> QED
    BY <1>3, <1>7, <2>1, <2>5, <2>6 DEF OnPrepareQc, TypeOK, VotingTypes
<1>8. CASE OnPreCommitQc(v, vote)
  <2>1. accs' \in [Honest -> SUBSET Accumulator]
    BY <1>8, AddVoteType DEF OnPreCommitQc
  <2>2. NextPhase(v, vote.data, Commit) \in VoteData
    BY <1>1, NextPhaseType DEF Phase
  <2>3. VotingTypes'
    BY <1>1, <1>8, <2>2, TryVoteType DEF OnPreCommitQc
  <2> QED
    BY <1>3, <1>8, <2>1, <2>3 DEF OnPreCommitQc, TypeOK, VotingTypes
<1>9. CASE OnCommitQc(v, vote)
  <2> DEFINE h == vote.data.hash
  <2>1. accs' \in [Honest -> SUBSET Accumulator]
    BY <1>9, AddVoteType DEF OnCommitQc
  <2>2. /\ h \in Hash /\ BlockNumber[h] \in Nat /\ vote.data.epoch \in Nat
    BY <1>1, HotStuffConstants DEF VoteData
  <2>3. CASE h \in Stored(v) /\ BlockNumber[h] > committed_height[v]
    <3>1. /\ committed_height' = [committed_height EXCEPT ![v] = BlockNumber[h]]
          /\ pacemaker' = [pacemaker EXCEPT ![v] =
                              AdvanceRound(pacemaker[v], BlockNumber[h] + 1, vote.data.epoch)]
          /\ commits' = commits \cup {<<v, h>>}
          /\ seen' = [seen EXCEPT ![v] =
                         {x \in Remember(v, vote) : x.data.number >= BlockNumber[h]}]
      BY <1>9, <2>3 DEF OnCommitQc
    <3>2. AdvanceRound(pacemaker[v], BlockNumber[h] + 1, vote.data.epoch)
            \in [round : Nat, epoch : Nat]
      BY <2>2 DEF AdvanceRound, TypeOK
    <3>3. pacemaker' \in [Honest -> [round : Nat, epoch : Nat]]
      BY <3>1, <3>2 DEF TypeOK
    <3>4. seen' \in [Honest -> SUBSET Vote]
      BY <1>2, <3>1 DEF TypeOK
    <3>5. committed_height' \in [Honest -> Nat]
      BY <2>2, <3>1 DEF TypeOK
    <3>6. commits' \in SUBSET (Honest \X Hash)
      BY <2>2, <3>1 DEF TypeOK
    <3> QED
      BY <1>3, <1>9, <2>1, <3>3, <3>4, <3>5, <3>6 DEF OnCommitQc, TypeOK
  <2>4. CASE ~ (h \in Stored(v) /\ BlockNumber[h] > committed_height[v])
    <3>1. /\ seen' = [seen EXCEPT ![v] = Remember(v, vote)]
          /\ UNCHANGED <<committed_height, pacemaker, commits>>
      BY <1>9, <2>4 DEF OnCommitQc
    <3> QED
      BY <1>3, <1>9, <2>1, <3>1 DEF OnCommitQc, TypeOK
  <2> QED
    BY <2>3, <2>4
<1> QED
  BY <1>4, <1>5, <1>6, <1>7, <1>8, <1>9 DEF OnVote

(* A restart keeps the types. *)
LEMMA RestartTypeOK ==
    ASSUME TypeOK, NEW v \in Honest, Restart(v)
    PROVE  TypeOK'
<1>1. safety' \in [Honest -> SafetyState]
  BY DefaultStateType DEF Restart, TypeOK
<1>2. pacemaker' \in [Honest -> [round : Nat, epoch : Nat]]
  BY InitPacemakerType DEF Restart, TypeOK
<1>3. store' \in [Honest -> Seq(Hash)]
  <2>1. <<>> \in Seq(Hash)
    OBVIOUS
  <2> QED
    BY <2>1 DEF Restart, TypeOK
<1>4. /\ accs' \in [Honest -> SUBSET Accumulator]
      /\ seen' \in [Honest -> SUBSET Vote]
  BY DEF Restart, TypeOK
<1>5. /\ committed_height' \in [Honest -> Nat]
      /\ restarts' \in Nat
  BY DEF Restart, TypeOK
<1>6. /\ highest_qc' \in [Honest -> QC \cup {NoQC}]
      /\ own' \in [Honest -> Vote \cup {NoVote}]
  BY DEF Restart, TypeOK
<1> QED
  BY <1>1, <1>2, <1>3, <1>4, <1>5, <1>6 DEF Restart, TypeOK

(* A vote that can arrive: sent by an honest validator, or of a faulty one. *)
LEMMA DeliverableType ==
    ASSUME TypeOK, NEW vote \in network \cup ByzVotes
    PROVE  /\ vote \in Vote
           /\ vote \in network \/ vote.voter \in Byzantine
<1>1. ByzVotes \subseteq Vote /\ \A x \in ByzVotes : x.voter \in Byzantine
  BY HotStuffConstants DEF ByzVotes, Vote
<1> QED
  BY <1>1 DEF TypeOK

(* The initial state is well formed. *)
LEMMA InitTypeOK == Init => TypeOK
<1> SUFFICES ASSUME Init PROVE TypeOK
  OBVIOUS
<1>1. /\ safety \in [Honest -> SafetyState]
      /\ wal \in [Honest -> SafetyState]
  BY DefaultStateType DEF Init
<1>2. pacemaker \in [Honest -> [round : Nat, epoch : Nat]]
  BY InitPacemakerType DEF Init
<1>3. store \in [Honest -> Seq(Hash)]
  <2>1. <<>> \in Seq(Hash)
    OBVIOUS
  <2> QED
    BY <2>1 DEF Init
<1>4. /\ accs \in [Honest -> SUBSET Accumulator]
      /\ seen \in [Honest -> SUBSET Vote]
      /\ committed_height \in [Honest -> Nat]
      /\ highest_qc \in [Honest -> QC \cup {NoQC}]
      /\ own \in [Honest -> Vote \cup {NoVote}]
  BY DEF Init
<1> QED
  BY <1>1, <1>2, <1>3, <1>4 DEF Init, TypeOK

(* Every step keeps the types. *)
LEMMA StepTypeOK == TypeOK /\ [Next]_vars => TypeOK'
<1> SUFFICES ASSUME TypeOK, [Next]_vars PROVE TypeOK'
  OBVIOUS
<1>1. CASE UNCHANGED vars
  BY <1>1 DEF vars, TypeOK
<1>2. ASSUME NEW v \in Live, Step(v) \/ Restart(v) PROVE TypeOK'
  <2>1. v \in Honest
    BY HotStuffConstants
  <2>2. CASE Restart(v)
    BY <2>1, <2>2, RestartTypeOK
  <2>3. CASE own[v] # NoVote /\ OnVote(v, own[v])
    <3>1. own[v] \in Vote
      BY <2>1, <2>3 DEF TypeOK
    <3> QED
      BY <2>1, <2>3, <3>1, VoteTypeOK
  <2>4. ASSUME NEW h \in Hash, NEW p \in 0..MaxParent, OnProposal(v, h, p)
        PROVE  TypeOK'
    BY <2>1, <2>4, ProposalTypeOK
  <2>5. ASSUME NEW vote \in network \cup ByzVotes, OnVote(v, vote)
        PROVE  TypeOK'
    <3>1. vote \in Vote
      BY DeliverableType
    <3> QED
      BY <2>1, <2>5, <3>1, VoteTypeOK
  <2>6. CASE OnTimeout(v)
    <3>1. pacemaker' \in [Honest -> [round : Nat, epoch : Nat]]
      BY <2>1, <2>6 DEF OnTimeout, TypeOK
    <3> QED
      BY <2>6, <3>1 DEF OnTimeout, TypeOK
  <2> QED
    BY <1>2, <2>2, <2>3, <2>4, <2>5, <2>6 DEF Step
<1> QED
  BY <1>1, <1>2 DEF Next

(* Type correctness of the engine, with or without a file. *)
THEOREM HotStuffTypeOK == Spec => []TypeOK
  BY InitTypeOK, StepTypeOK, PTL DEF Spec
-----------------------------------------------------------------------------
(* The inductive invariant. *)

(* Whatever an honest validator has sent, its memory and its file know. *)
VotesRecorded ==
    \A x \in network :
        /\ x.voter \in Honest
        /\ Key(x.data) \in safety[x.voter].voted_phases
        /\ Key(x.data) \in wal[x.voter].voted_phases

VotesUnique == \A x, y \in network : SameSlot(x, y) => x = y

(* The number in an honest vote is the number of its block. *)
VotesNumbered == \A x \in network : x.data.number = BlockNumber[x.data.hash]

(* Nothing unsigned is remembered, counted or fed back. *)
SeenSigned ==
    \A v \in Honest : \A x \in seen[v] : x \in network \/ x.voter \in Byzantine

AccsSigned ==
    \A v \in Honest : \A a \in accs[v] : \A u \in a.voters :
        u \in Byzantine \/ [data |-> a.data, voter |-> u] \in network

(* A restart brings back a lock that stands on a quorum as well. *)
WalLockCertified ==
    \A v \in Honest : wal[v].locked_qc # NoQC =>
        HasQuorum(wal[v].locked_qc.hash, Prepare)

OwnSigned == \A v \in Honest : own[v] # NoVote => own[v] \in network

HotStuffInv ==
    /\ TypeOK
    /\ VotesRecorded
    /\ VotesUnique
    /\ VotesNumbered
    /\ SeenSigned
    /\ AccsSigned
    /\ OwnSigned
    /\ HonestNeverAccused
    /\ PhasesInOrder
    /\ WalLockCertified

(* The inductive invariant holds initially. *)
LEMMA HotStuffInvInit == Init => HotStuffInv
<1> SUFFICES ASSUME Init PROVE HotStuffInv
  OBVIOUS
<1>1. TypeOK
  BY InitTypeOK
<1>2. VotesRecorded /\ VotesUnique /\ VotesNumbered /\ HonestNeverAccused
  BY DEF Init, VotesRecorded, VotesUnique, VotesNumbered, HonestNeverAccused
<1>3. SeenSigned /\ AccsSigned /\ OwnSigned
  BY DEF Init, SeenSigned, AccsSigned, OwnSigned
<1>4. PhasesInOrder /\ WalLockCertified
  BY DEF Init, PhasesInOrder, WalLockCertified, DefaultState
<1> QED
  BY <1>1, <1>2, <1>3, <1>4 DEF HotStuffInv

(* The fields of a vote. *)
LEMMA VoteRecord ==
    ASSUME NEW x \in Vote
    PROVE  /\ x = [data |-> x.data, voter |-> x.voter]
           /\ x.data \in VoteData /\ x.voter \in Validators
  BY DEF Vote

(* Votes are never taken back, so a quorum stays a quorum. *)
LEMMA QuorumStays ==
    ASSUME network \subseteq network', NEW h, NEW phase, HasQuorum(h, phase)
    PROVE  HasQuorum(h, phase)'
<1>1. Signers(h, phase) \subseteq Signers(h, phase)'
  BY DEF Signers
<1>2. Signers(h, phase)' \subseteq Validators
  BY DEF Signers
<1>3. IsFiniteSet(Signers(h, phase)')
  BY <1>2, HotStuffConstants, FS_Subset
<1>4. Cardinality(Signers(h, phase)) <= Cardinality(Signers(h, phase)')
  BY <1>1, <1>3, FS_Subset
<1>5. /\ IsFiniteSet(Signers(h, phase))
      /\ Cardinality(Signers(h, phase)) \in Nat
      /\ Cardinality(Signers(h, phase)') \in Nat
  BY <1>1, <1>3, FS_Subset, FS_CardinalityType
<1>6. QuorumSize \in Nat
  BY HotStuffConstants, FS_CardinalityType DEF QuorumSize
<1>7. Cardinality(Signers(h, phase)) >= QuorumSize
  BY DEF HasQuorum
<1>8. Cardinality(Signers(h, phase)') >= QuorumSize
  BY <1>4, <1>5, <1>6, <1>7
<1> QED
  BY <1>8 DEF HasQuorum, QuorumSize

(* A certificate is what it says: a quorum signed its data, and, since one *)
(* of them is honest, its number is the block's.                           *)
LEMMA QcSigned ==
    ASSUME HotStuffInv, NEW v \in Honest, NEW vote \in Vote,
           vote \in network \/ vote.voter \in Byzantine,
           Counts(v, vote), FormsQc(v, vote)
    PROVE  /\ HasQuorum(vote.data.hash, vote.data.phase)
           /\ vote.data.number = BlockNumber[vote.data.hash]
<1> DEFINE d == vote.data
           Q == Acc(v, d).voters \cup {vote.voter}
<1>1. /\ Acc(v, d) \in Accumulator
      /\ Acc(v, d) \in accs[v] \/ Acc(v, d).voters = {}
      /\ Acc(v, d).data = d
  BY VoteRecord, AccType DEF HotStuffInv, Counts
<1>2. Q \in SUBSET Validators
  BY <1>1, VoteRecord DEF Accumulator
<1>3. Cardinality(Q) >= QuorumSize
  BY DEF FormsQc
<1>4. ASSUME NEW u \in Q
      PROVE  u \in Byzantine \/ [data |-> d, voter |-> u] \in network
  <2>1. CASE u \in Acc(v, d).voters
    BY <1>1, <2>1 DEF HotStuffInv, AccsSigned
  <2>2. CASE u = vote.voter
    BY <2>2, VoteRecord
  <2> QED
    BY <2>1, <2>2
<1>5. Q \subseteq Signers(d.hash, d.phase)
  <2> SUFFICES ASSUME NEW u \in Q PROVE u \in Signers(d.hash, d.phase)
    OBVIOUS
  <2>1. u \in Validators
    BY <1>2
  <2>2. CASE u \in Byzantine
    BY <2>1, <2>2 DEF Signers
  <2>3. CASE [data |-> d, voter |-> u] \in network
    <3> DEFINE x == [data |-> d, voter |-> u]
    <3>1. x \in network /\ x.voter = u /\ x.data.hash = d.hash /\ x.data.phase = d.phase
      BY <2>3
    <3> QED
      BY <2>1, <3>1 DEF Signers
  <2> QED
    BY <1>4, <2>2, <2>3
<1>6. HasQuorum(d.hash, d.phase)
  <2>1. Signers(d.hash, d.phase) \subseteq Validators
    BY DEF Signers
  <2>2. IsFiniteSet(Signers(d.hash, d.phase))
    BY <2>1, HotStuffConstants, FS_Subset
  <2>3. Cardinality(Q) <= Cardinality(Signers(d.hash, d.phase))
    BY <1>5, <2>2, FS_Subset
  <2>4. /\ Cardinality(Q) \in Nat /\ Cardinality(Signers(d.hash, d.phase)) \in Nat
        /\ QuorumSize \in Nat
    BY <1>5, <2>2, HotStuffConstants, FS_Subset, FS_CardinalityType DEF QuorumSize
  <2> QED
    BY <1>3, <2>3, <2>4 DEF HasQuorum
<1>7. PICK u \in Honest : u \in Q
  BY <1>2, <1>3, QuorumHasHonest
<1>8. [data |-> d, voter |-> u] \in network
  BY <1>4, <1>7 DEF Honest
<1>9. d.number = BlockNumber[d.hash]
  BY <1>8 DEF HotStuffInv, VotesNumbered
<1> QED
  BY <1>6, <1>9

(* A voting attempt keeps the honest votes unique and recorded. *)
LEMMA TryVoteInv ==
    ASSUME Persist, HotStuffInv, TypeOK',
           NEW v \in Honest, NEW s \in SafetyState, NEW d \in VoteData, NEW p,
           s.voted_phases = safety[v].voted_phases,
           d.number = BlockNumber[d.hash],
           TryVote(v, s, d, p)
    PROVE  /\ network \subseteq network'
           /\ \A x \in network' : x \in network \/ x = [data |-> d, voter |-> v]
           /\ VotesRecorded' /\ VotesUnique' /\ VotesNumbered' /\ OwnSigned'
           /\ \A w \in Honest : safety'[w].locked_qc =
                  IF w = v THEN s.locked_qc ELSE safety[w].locked_qc
           /\ \A w \in Honest : wal'[w].locked_qc \in
                  {wal[w].locked_qc, safety'[w].locked_qc}
<1> DEFINE b == [data |-> d, voter |-> v]
<1>1. CASE CanVote(s, d, p) /\ CastVote(v, s, d)
  <2>1. /\ safety' = [safety EXCEPT ![v] = AfterVote(s, d)]
        /\ wal' = [wal EXCEPT ![v] = AfterVote(s, d)]
        /\ network' = network \cup {b}
        /\ own' = [own EXCEPT ![v] = b]
    BY <1>1 DEF CastVote
  <2>2. /\ safety'[v] = AfterVote(s, d) /\ wal'[v] = AfterVote(s, d) /\ own'[v] = b
        /\ \A w \in Honest \ {v} : /\ safety'[w] = safety[w]
                                    /\ wal'[w] = wal[w]
                                    /\ own'[w] = own[w]
    BY <2>1 DEF HotStuffInv, TypeOK
  <2>3. AfterVote(s, d).voted_phases = safety[v].voted_phases \cup {Key(d)}
    BY AfterVoteType
  <2>4. AfterVote(s, d).locked_qc = s.locked_qc
    BY DEF AfterVote, SafetyState
  <2>5. Key(d) \notin safety[v].voted_phases
    BY <1>1 DEF CanVote
  <2>6. b.voter = v /\ b.data = d
    OBVIOUS
  <2>7. VotesRecorded'
    <3> SUFFICES ASSUME NEW x \in network'
                 PROVE  /\ x.voter \in Honest
                        /\ Key(x.data) \in safety'[x.voter].voted_phases
                        /\ Key(x.data) \in wal'[x.voter].voted_phases
      BY DEF VotesRecorded, Key
    <3>1. CASE x = b
      BY <2>2, <2>3, <2>6, <3>1
    <3>2. CASE x \in network
      <4>1. /\ x.voter \in Honest
            /\ Key(x.data) \in safety[x.voter].voted_phases
            /\ Key(x.data) \in wal[x.voter].voted_phases
        BY <3>2 DEF HotStuffInv, VotesRecorded
      <4>2. CASE x.voter = v
        BY <2>2, <2>3, <4>1, <4>2
      <4>3. CASE x.voter # v
        BY <2>2, <4>1, <4>3
      <4> QED
        BY <4>2, <4>3
    <3> QED
      BY <2>1, <3>1, <3>2
  <2>8. VotesUnique'
    <3>1. ASSUME NEW x \in network PROVE ~ SameSlot(x, b)
      <4> SUFFICES ASSUME x.voter = v, Key(x.data) = Key(d) PROVE FALSE
        BY <2>6 DEF SameSlot
      <4> QED
        BY <2>5 DEF HotStuffInv, VotesRecorded
    <3> SUFFICES ASSUME NEW x \in network', NEW y \in network', SameSlot(x, y)
                 PROVE  x = y
      BY DEF VotesUnique, SameSlot, Key
    <3>2. CASE x \in network /\ y \in network
      BY <3>2 DEF HotStuffInv, VotesUnique
    <3>3. CASE x = b /\ y \in network
      BY <3>1, <3>3 DEF SameSlot
    <3>4. CASE x \in network /\ y = b
      BY <3>1, <3>4
    <3>5. CASE x = b /\ y = b
      BY <3>5
    <3> QED
      BY <2>1, <3>2, <3>3, <3>4, <3>5
  <2>9. VotesNumbered'
    BY <2>1, <2>6 DEF HotStuffInv, VotesNumbered
  <2>10. OwnSigned'
    <3> SUFFICES ASSUME NEW w \in Honest, own'[w] # NoVote PROVE own'[w] \in network'
      BY DEF OwnSigned
    <3>1. CASE w = v
      BY <2>1, <2>2, <3>1
    <3>2. CASE w # v
      BY <2>1, <2>2, <3>2 DEF HotStuffInv, OwnSigned
    <3> QED
      BY <3>1, <3>2
  <2>11. \A w \in Honest : safety'[w].locked_qc =
            IF w = v THEN s.locked_qc ELSE safety[w].locked_qc
    BY <2>2, <2>4
  <2>12. \A w \in Honest : wal'[w].locked_qc \in
            {wal[w].locked_qc, safety'[w].locked_qc}
    BY <2>2
  <2> QED
    BY <2>1, <2>7, <2>8, <2>9, <2>10, <2>11, <2>12
<1>2. CASE /\ safety' = [safety EXCEPT ![v] = s]
           /\ own' = [own EXCEPT ![v] = NoVote]
           /\ UNCHANGED <<wal, network>>
  <2>1. /\ safety'[v] = s /\ own'[v] = NoVote
        /\ \A w \in Honest \ {v} : safety'[w] = safety[w] /\ own'[w] = own[w]
    BY <1>2 DEF HotStuffInv, TypeOK
  <2>2. VotesRecorded'
    <3> SUFFICES ASSUME NEW x \in network
                 PROVE  /\ x.voter \in Honest
                        /\ Key(x.data) \in safety'[x.voter].voted_phases
                        /\ Key(x.data) \in wal[x.voter].voted_phases
      BY <1>2 DEF VotesRecorded, Key
    <3>1. /\ x.voter \in Honest
          /\ Key(x.data) \in safety[x.voter].voted_phases
          /\ Key(x.data) \in wal[x.voter].voted_phases
      BY DEF HotStuffInv, VotesRecorded
    <3> QED
      BY <2>1, <3>1
  <2>3. VotesUnique' /\ VotesNumbered'
    BY <1>2 DEF HotStuffInv, VotesUnique, VotesNumbered, SameSlot, Key
  <2>4. OwnSigned'
    BY <1>2, <2>1 DEF HotStuffInv, OwnSigned
  <2>5. \A w \in Honest : safety'[w].locked_qc =
            IF w = v THEN s.locked_qc ELSE safety[w].locked_qc
    BY <2>1
  <2> QED
    BY <1>2, <2>2, <2>3, <2>4, <2>5
<1> QED
  BY <1>1, <1>2 DEF TryVote

(* Counting a vote that was signed keeps the accumulators signed. *)
LEMMA AccsStaySigned ==
    ASSUME HotStuffInv, NEW v \in Honest, NEW vote \in Vote,
           vote \in network \/ vote.voter \in Byzantine,
           Counts(v, vote), AddVote(v, vote), network \subseteq network'
    PROVE  AccsSigned'
<1> DEFINE a0 == Acc(v, vote.data)
           a1 == WithVoter(a0, vote.voter)
<1>1. accs' = [accs EXCEPT ![v] = (accs[v] \ {a0}) \cup {a1}]
  BY DEF AddVote
<1>2. /\ accs'[v] = (accs[v] \ {a0}) \cup {a1}
      /\ \A w \in Honest \ {v} : accs'[w] = accs[w]
  BY <1>1 DEF HotStuffInv, TypeOK
<1>3. /\ a0 \in accs[v] \/ a0.voters = {}
      /\ a0.data = vote.data
  BY VoteRecord, AccType DEF HotStuffInv, Counts
<1>4. a1.data = vote.data /\ a1.voters = a0.voters \cup {vote.voter}
  BY <1>3 DEF WithVoter
<1> SUFFICES ASSUME NEW w \in Honest, NEW a \in accs'[w], NEW u \in a.voters
             PROVE  u \in Byzantine \/ [data |-> a.data, voter |-> u] \in network'
  BY DEF AccsSigned
<1>5. CASE a \in accs[w]
  BY <1>5 DEF HotStuffInv, AccsSigned
<1>6. CASE a = a1
  <2>1. CASE u \in a0.voters
    <3>1. u \in Byzantine \/ [data |-> a0.data, voter |-> u] \in network
      BY <1>3, <2>1 DEF HotStuffInv, AccsSigned
    <3> QED
      BY <1>3, <1>4, <1>6, <3>1
  <2>2. CASE u = vote.voter
    BY <1>4, <1>6, <2>2, VoteRecord
  <2> QED
    BY <1>4, <1>6, <2>1, <2>2
<1> QED
  BY <1>2, <1>5, <1>6

(* Remembering a vote that was signed keeps the detector signed. *)
LEMMA SeenStaysSigned ==
    ASSUME HotStuffInv, NEW v \in Honest, NEW vote,
           vote \in network \/ vote.voter \in Byzantine,
           NEW S, S \subseteq Remember(v, vote),
           seen' = [seen EXCEPT ![v] = S], network \subseteq network'
    PROVE  SeenSigned'
<1>1. seen'[v] = S /\ \A w \in Honest \ {v} : seen'[w] = seen[w]
  BY DEF HotStuffInv, TypeOK
<1>2. S \subseteq seen[v] \cup {vote}
  BY DEF Remember
<1> SUFFICES ASSUME NEW w \in Honest, NEW x \in seen'[w]
             PROVE  x \in network' \/ x.voter \in Byzantine
  BY DEF SeenSigned
<1>3. x \in seen[w] \/ x = vote
  BY <1>1, <1>2
<1> QED
  BY <1>3 DEF HotStuffInv, SeenSigned

(* Steps that send no vote, commit nothing and take no new lock keep the phase *)
(* order.                                                                  *)
LEMMA PhasesStayInOrder ==
    ASSUME HotStuffInv, network \subseteq network',
           \A x \in network' : x \in network \/ x.data.phase = Prepare
                                \/ HasQuorum(x.data.hash, x.data.phase - 1),
           \A c \in commits' : c \in commits \/ HasQuorum(c[2], Commit),
           \A w \in Honest :
              \/ safety'[w].locked_qc \in {NoQC, safety[w].locked_qc, wal[w].locked_qc}
              \/ HasQuorum(safety'[w].locked_qc.hash, Prepare),
           \A w \in Honest : wal'[w].locked_qc \in
                  {wal[w].locked_qc, safety'[w].locked_qc}
    PROVE  PhasesInOrder' /\ WalLockCertified'
<1>1. \A g, phase : HasQuorum(g, phase) => HasQuorum(g, phase)'
  BY QuorumStays
<1>2. ASSUME NEW x \in network', x.data.phase # Prepare
      PROVE  HasQuorum(x.data.hash, x.data.phase - 1)'
  BY <1>1, <1>2 DEF HotStuffInv, PhasesInOrder
<1>3. ASSUME NEW c \in commits' PROVE HasQuorum(c[2], Commit)'
  BY <1>1 DEF HotStuffInv, PhasesInOrder
<1>4. ASSUME NEW w \in Honest, NEW g, safety'[w].locked_qc # NoQC,
             g = safety'[w].locked_qc.hash
      PROVE  HasQuorum(g, Prepare)'
  BY <1>1, <1>4 DEF HotStuffInv, PhasesInOrder, WalLockCertified
<1>5. ASSUME NEW w \in Honest, NEW g, wal'[w].locked_qc # NoQC,
             g = wal'[w].locked_qc.hash
      PROVE  HasQuorum(g, Prepare)'
  BY <1>1, <1>4, <1>5 DEF HotStuffInv, WalLockCertified
<1>6. PhasesInOrder'
  BY <1>2, <1>3, <1>4 DEF PhasesInOrder, HasQuorum, Signers
<1>7. WalLockCertified'
  BY <1>5 DEF WalLockCertified, HasQuorum, Signers
<1> QED
  BY <1>6, <1>7

(* Steps that send no vote and write no lock. *)
LEMMA QuietStep ==
    ASSUME HotStuffInv, UNCHANGED <<safety, wal, network>>
    PROVE  VotesRecorded' /\ VotesUnique' /\ VotesNumbered'
  BY DEF HotStuffInv, VotesRecorded, VotesUnique, VotesNumbered, SameSlot, Key

(* Feeding the own vote back leaves none behind. *)
LEMMA OwnConsumed ==
    ASSUME HotStuffInv, NEW v \in Honest, network' = network,
           own' = [own EXCEPT ![v] = NoVote]
    PROVE  OwnSigned'
<1>1. own'[v] = NoVote /\ \A w \in Honest \ {v} : own'[w] = own[w]
  BY DEF HotStuffInv, TypeOK
<1> QED
  BY <1>1 DEF HotStuffInv, OwnSigned

(* on_proposal keeps the invariant. *)
LEMMA ProposalInv ==
    ASSUME Persist, HotStuffInv, TypeOK', NEW v \in Honest, NEW h \in Hash, NEW p,
           OnProposal(v, h, p)
    PROVE  HotStuffInv'
<1> DEFINE d == [hash |-> h, number |-> BlockNumber[h], phase |-> Prepare,
                 epoch |-> BlockEpoch[h]]
<1>1. d \in VoteData /\ safety[v] \in SafetyState
  BY ProposalDataType DEF HotStuffInv, TypeOK
<1>2. TryVote(v, safety[v], d, p)
  BY DEF OnProposal
<1>3. d.number = BlockNumber[d.hash] /\ d.phase = Prepare
  OBVIOUS
<1> HIDE DEF d
<1>4. /\ network \subseteq network'
      /\ \A x \in network' : x \in network \/ x = [data |-> d, voter |-> v]
      /\ VotesRecorded' /\ VotesUnique' /\ VotesNumbered' /\ OwnSigned'
      /\ \A w \in Honest : safety'[w].locked_qc = safety[w].locked_qc
      /\ \A w \in Honest : wal'[w].locked_qc \in
             {wal[w].locked_qc, safety'[w].locked_qc}
  BY <1>1, <1>2, <1>3, TryVoteInv
<1>5. PhasesInOrder' /\ WalLockCertified'
  <2>1. \A x \in network' : x \in network \/ x.data.phase = Prepare
                               \/ HasQuorum(x.data.hash, x.data.phase - 1)
    BY <1>3, <1>4
  <2> QED
    BY <1>4, <2>1, PhasesStayInOrder DEF OnProposal
<1>6. SeenSigned' /\ AccsSigned' /\ HonestNeverAccused'
  BY <1>4 DEF OnProposal, HotStuffInv, SeenSigned, AccsSigned, HonestNeverAccused
<1> QED
  BY <1>4, <1>5, <1>6 DEF HotStuffInv

(* Two different hashes in one slot are not both from an honest validator. *)
LEMMA ConflictInv ==
    ASSUME HotStuffInv, TypeOK', NEW v \in Honest, NEW vote \in Vote,
           vote \in network \/ vote.voter \in Byzantine,
           OnConflict(v, vote)
    PROVE  HotStuffInv'
<1>1. UNCHANGED <<safety, wal, accs, seen, network, commits>>
      /\ own' = [own EXCEPT ![v] = NoVote]
  BY DEF OnConflict
<1>2. vote.voter \in Byzantine
  <2>1. PICK first \in seen[v] :
            SameSlot(first, vote) /\ first.data.hash # vote.data.hash
    BY DEF OnConflict, Conflicts
  <2>2. first \in network \/ first.voter \in Byzantine
    BY DEF HotStuffInv, SeenSigned
  <2> QED
    BY <2>1, <2>2 DEF HotStuffInv, VotesUnique, SameSlot
<1>3. HonestNeverAccused'
  BY <1>2 DEF OnConflict, HotStuffInv, HonestNeverAccused
<1>4. VotesRecorded' /\ VotesUnique' /\ VotesNumbered' /\ OwnSigned'
  BY <1>1, QuietStep, OwnConsumed
<1>5. PhasesInOrder' /\ WalLockCertified'
  BY <1>1, PhasesStayInOrder
<1>6. SeenSigned' /\ AccsSigned'
  BY <1>1 DEF HotStuffInv, SeenSigned, AccsSigned
<1> QED
  BY <1>3, <1>4, <1>5, <1>6 DEF HotStuffInv

(* A vote that is ignored or only counted keeps the invariant. *)
LEMMA NoQcInv ==
    ASSUME HotStuffInv, TypeOK', NEW v \in Honest, NEW vote \in Vote,
           vote \in network \/ vote.voter \in Byzantine,
           OnIgnored(v, vote) \/ OnCounted(v, vote)
    PROVE  HotStuffInv'
<1>1. /\ UNCHANGED <<safety, wal, network, commits, accused>>
      /\ own' = [own EXCEPT ![v] = NoVote]
      /\ seen' = [seen EXCEPT ![v] = Remember(v, vote)]
  BY DEF OnIgnored, OnCounted
<1>2. VotesRecorded' /\ VotesUnique' /\ VotesNumbered' /\ OwnSigned'
  BY <1>1, QuietStep, OwnConsumed
<1>3. PhasesInOrder' /\ WalLockCertified'
  BY <1>1, PhasesStayInOrder
<1>4. SeenSigned'
  BY <1>1, SeenStaysSigned
<1>5. AccsSigned'
  <2>1. CASE OnIgnored(v, vote)
    BY <2>1 DEF OnIgnored, HotStuffInv, AccsSigned
  <2>2. CASE OnCounted(v, vote)
    BY <1>1, <2>2, AccsStaySigned DEF OnCounted
  <2> QED
    BY <2>1, <2>2
<1>6. HonestNeverAccused'
  BY <1>1 DEF HotStuffInv, HonestNeverAccused
<1> QED
  BY <1>2, <1>3, <1>4, <1>5, <1>6 DEF HotStuffInv

(* on_qc, phase 0: the new lock and the PreCommit vote stand on the Prepare *)
(* quorum.                                                                 *)
LEMMA PrepareQcInv ==
    ASSUME Persist, HotStuffInv, TypeOK', NEW v \in Honest, NEW vote \in Vote,
           vote \in network \/ vote.voter \in Byzantine,
           OnPrepareQc(v, vote)
    PROVE  HotStuffInv'
<1> DEFINE q == QcOf(vote.data)
           s == UpdateLockedQc(safety[v], q)
           d == NextPhase(v, vote.data, PreCommit)
<1>1. vote.data \in VoteData /\ safety[v] \in SafetyState /\ TypeOK
  BY VoteRecord DEF HotStuffInv, TypeOK
<1>2. q \in QC /\ q.hash = vote.data.hash
  BY <1>1, QcOfType DEF QcOf
<1>3. s \in SafetyState /\ s.voted_phases = safety[v].voted_phases
  BY <1>1, <1>2, UpdateLockedQcType
<1>4. s.locked_qc \in {q, safety[v].locked_qc}
  BY <1>1 DEF UpdateLockedQc, SafetyState
<1>5. /\ d \in VoteData /\ d.hash = vote.data.hash /\ d.number = vote.data.number
      /\ d.phase = PreCommit
  BY <1>1, NextPhaseType DEF Phase
<1>6. /\ HasQuorum(vote.data.hash, Prepare)
      /\ vote.data.number = BlockNumber[vote.data.hash]
  BY QcSigned DEF OnPrepareQc
<1>7. TryVote(v, s, d, vote.data.number)
  BY DEF OnPrepareQc
<1> HIDE DEF s, d, q
<1>8. /\ network \subseteq network'
      /\ \A x \in network' : x \in network \/ x = [data |-> d, voter |-> v]
      /\ VotesRecorded' /\ VotesUnique' /\ VotesNumbered' /\ OwnSigned'
      /\ \A w \in Honest : safety'[w].locked_qc =
             IF w = v THEN s.locked_qc ELSE safety[w].locked_qc
      /\ \A w \in Honest : wal'[w].locked_qc \in
             {wal[w].locked_qc, safety'[w].locked_qc}
  BY <1>3, <1>5, <1>6, <1>7, TryVoteInv
<1>9. PhasesInOrder' /\ WalLockCertified'
  <2>1. PreCommit - 1 = Prepare
    BY DEF PreCommit, Prepare
  <2>2. \A x \in network' : x \in network \/ x.data.phase = Prepare
                               \/ HasQuorum(x.data.hash, x.data.phase - 1)
    BY <1>5, <1>6, <1>8, <2>1
  <2>3. \A w \in Honest :
           \/ safety'[w].locked_qc \in {NoQC, safety[w].locked_qc, wal[w].locked_qc}
           \/ HasQuorum(safety'[w].locked_qc.hash, Prepare)
    BY <1>2, <1>4, <1>6, <1>8
  <2>4. commits' = commits
    BY DEF OnPrepareQc
  <2> QED
    BY <1>8, <2>2, <2>3, <2>4, PhasesStayInOrder
<1>10. SeenSigned'
  BY <1>8, SeenStaysSigned DEF OnPrepareQc
<1>11. AccsSigned'
  BY <1>8, AccsStaySigned DEF OnPrepareQc
<1>12. HonestNeverAccused'
  BY DEF OnPrepareQc, HotStuffInv, HonestNeverAccused
<1> QED
  BY <1>8, <1>9, <1>10, <1>11, <1>12 DEF HotStuffInv

(* on_qc, phase 1: the Commit vote stands on the PreCommit quorum. *)
LEMMA PreCommitQcInv ==
    ASSUME Persist, HotStuffInv, TypeOK', NEW v \in Honest, NEW vote \in Vote,
           vote \in network \/ vote.voter \in Byzantine,
           OnPreCommitQc(v, vote)
    PROVE  HotStuffInv'
<1> DEFINE d == NextPhase(v, vote.data, Commit)
<1>1. vote.data \in VoteData /\ safety[v] \in SafetyState /\ TypeOK
  BY VoteRecord DEF HotStuffInv, TypeOK
<1>2. /\ d \in VoteData /\ d.hash = vote.data.hash /\ d.number = vote.data.number
      /\ d.phase = Commit
  BY <1>1, NextPhaseType DEF Phase
<1>3. /\ HasQuorum(vote.data.hash, PreCommit)
      /\ vote.data.number = BlockNumber[vote.data.hash]
  BY QcSigned DEF OnPreCommitQc
<1>4. TryVote(v, safety[v], d, vote.data.number)
  BY DEF OnPreCommitQc
<1> HIDE DEF d
<1>5. /\ network \subseteq network'
      /\ \A x \in network' : x \in network \/ x = [data |-> d, voter |-> v]
      /\ VotesRecorded' /\ VotesUnique' /\ VotesNumbered' /\ OwnSigned'
      /\ \A w \in Honest : safety'[w].locked_qc = safety[w].locked_qc
      /\ \A w \in Honest : wal'[w].locked_qc \in
             {wal[w].locked_qc, safety'[w].locked_qc}
  BY <1>1, <1>2, <1>3, <1>4, TryVoteInv
<1>6. PhasesInOrder' /\ WalLockCertified'
  <2>1. Commit - 1 = PreCommit
    BY DEF PreCommit, Commit
  <2>2. \A x \in network' : x \in network \/ x.data.phase = Prepare
                               \/ HasQuorum(x.data.hash, x.data.phase - 1)
    BY <1>2, <1>3, <1>5, <2>1
  <2>3. commits' = commits
    BY DEF OnPreCommitQc
  <2> QED
    BY <1>5, <2>2, <2>3, PhasesStayInOrder
<1>7. SeenSigned'
  BY <1>5, SeenStaysSigned DEF OnPreCommitQc
<1>8. AccsSigned'
  BY <1>5, AccsStaySigned DEF OnPreCommitQc
<1>9. HonestNeverAccused'
  BY DEF OnPreCommitQc, HotStuffInv, HonestNeverAccused
<1> QED
  BY <1>5, <1>6, <1>7, <1>8, <1>9 DEF HotStuffInv

(* on_qc, phase 2: the commit stands on the Commit quorum. *)
LEMMA CommitQcInv ==
    ASSUME HotStuffInv, TypeOK', NEW v \in Honest, NEW vote \in Vote,
           vote \in network \/ vote.voter \in Byzantine,
           OnCommitQc(v, vote)
    PROVE  HotStuffInv'
<1>1. /\ UNCHANGED <<safety, wal, network, accused>>
      /\ own' = [own EXCEPT ![v] = NoVote]
      /\ commits' \subseteq commits \cup {<<v, vote.data.hash>>}
  BY DEF OnCommitQc
<1>2. HasQuorum(vote.data.hash, Commit)
  BY QcSigned DEF OnCommitQc
<1>3. VotesRecorded' /\ VotesUnique' /\ VotesNumbered' /\ OwnSigned'
  BY <1>1, QuietStep, OwnConsumed
<1>4. PhasesInOrder' /\ WalLockCertified'
  <2>1. \A c \in commits' : c \in commits \/ HasQuorum(c[2], Commit)
    BY <1>1, <1>2
  <2> QED
    BY <1>1, <2>1, PhasesStayInOrder
<1>5. SeenSigned'
  <2>1. \E S : S \subseteq Remember(v, vote) /\ seen' = [seen EXCEPT ![v] = S]
    <3> DEFINE T == {x \in Remember(v, vote) :
                       x.data.number >= BlockNumber[vote.data.hash]}
    <3>1. T \subseteq Remember(v, vote)
      OBVIOUS
    <3>2. seen' = [seen EXCEPT ![v] = T] \/ seen' = [seen EXCEPT ![v] = Remember(v, vote)]
      BY DEF OnCommitQc
    <3> QED
      BY <3>1, <3>2
  <2> QED
    BY <1>1, <2>1, SeenStaysSigned
<1>6. AccsSigned'
  BY <1>1, AccsStaySigned DEF OnCommitQc
<1>7. HonestNeverAccused'
  BY <1>1 DEF HotStuffInv, HonestNeverAccused
<1> QED
  BY <1>3, <1>4, <1>5, <1>6, <1>7 DEF HotStuffInv

(* A restart reads back a file that covers all votes sent. *)
LEMMA RestartInv ==
    ASSUME Persist, HotStuffInv, TypeOK', NEW v \in Honest, Restart(v)
    PROVE  HotStuffInv'
<1>1. /\ safety'[v] = wal[v] /\ accs'[v] = {} /\ seen'[v] = {} /\ own'[v] = NoVote
      /\ \A w \in Honest \ {v} : /\ safety'[w] = safety[w] /\ accs'[w] = accs[w]
                                  /\ seen'[w] = seen[w] /\ own'[w] = own[w]
      /\ UNCHANGED <<wal, network, commits, accused>>
  BY DEF Restart, HotStuffInv, TypeOK
<1>2. VotesRecorded'
  <2> SUFFICES ASSUME NEW x \in network
               PROVE  /\ x.voter \in Honest
                      /\ Key(x.data) \in safety'[x.voter].voted_phases
                      /\ Key(x.data) \in wal[x.voter].voted_phases
    BY <1>1 DEF VotesRecorded, Key
  <2> QED
    BY <1>1 DEF HotStuffInv, VotesRecorded
<1>3. VotesUnique' /\ VotesNumbered' /\ HonestNeverAccused'
  BY <1>1 DEF HotStuffInv, VotesUnique, VotesNumbered, HonestNeverAccused, SameSlot, Key
<1>4. SeenSigned' /\ AccsSigned' /\ OwnSigned'
  BY <1>1 DEF HotStuffInv, SeenSigned, AccsSigned, OwnSigned
<1>5. PhasesInOrder' /\ WalLockCertified'
  BY <1>1, PhasesStayInOrder
<1> QED
  BY <1>2, <1>3, <1>4, <1>5 DEF HotStuffInv

(* Every outcome of on_vote keeps the invariant. *)
LEMMA VoteInv ==
    ASSUME Persist, HotStuffInv, TypeOK', NEW v \in Honest, NEW vote \in Vote,
           vote \in network \/ vote.voter \in Byzantine,
           OnVote(v, vote)
    PROVE  HotStuffInv'
  BY ConflictInv, NoQcInv, PrepareQcInv, PreCommitQcInv, CommitQcInv DEF OnVote

(* Every step keeps the invariant. *)
LEMMA HotStuffInvStep ==
    ASSUME Persist, HotStuffInv, TypeOK', [Next]_vars
    PROVE  HotStuffInv'
<1>0. TypeOK
  BY DEF HotStuffInv
<1>1. CASE UNCHANGED vars
  <2>1. VotesRecorded' /\ VotesUnique' /\ VotesNumbered'
    BY <1>1, QuietStep DEF vars
  <2>2. PhasesInOrder' /\ WalLockCertified'
    BY <1>1, PhasesStayInOrder DEF vars
  <2> QED
    BY <1>1, <2>1, <2>2 DEF vars, HotStuffInv, SeenSigned, AccsSigned, OwnSigned,
                            HonestNeverAccused
<1>2. ASSUME NEW v \in Live, Step(v) \/ Restart(v) PROVE HotStuffInv'
  <2>1. v \in Honest
    BY HotStuffConstants
  <2>2. CASE Restart(v)
    BY <2>1, <2>2, RestartInv
  <2>3. CASE own[v] # NoVote /\ OnVote(v, own[v])
    <3>1. own[v] \in Vote /\ own[v] \in network
      BY <2>1, <2>3 DEF HotStuffInv, OwnSigned, TypeOK
    <3> QED
      BY <2>1, <2>3, <3>1, VoteInv
  <2>4. ASSUME NEW h \in Hash, NEW p \in 0..MaxParent, OnProposal(v, h, p)
        PROVE  HotStuffInv'
    BY <2>1, <2>4, ProposalInv
  <2>5. ASSUME NEW vote \in network \cup ByzVotes, OnVote(v, vote)
        PROVE  HotStuffInv'
    <3>1. vote \in Vote /\ (vote \in network \/ vote.voter \in Byzantine)
      BY <1>0, DeliverableType
    <3> QED
      BY <2>1, <2>5, <3>1, VoteInv
  <2>6. CASE OnTimeout(v)
    <3>1. UNCHANGED <<safety, wal, accs, seen, network, own, commits, accused>>
      BY <2>6 DEF OnTimeout
    <3>2. VotesRecorded' /\ VotesUnique' /\ VotesNumbered'
      BY <3>1, QuietStep
    <3>3. PhasesInOrder' /\ WalLockCertified'
      BY <3>1, PhasesStayInOrder
    <3> QED
      BY <3>1, <3>2, <3>3 DEF HotStuffInv, SeenSigned, AccsSigned, OwnSigned,
                              HonestNeverAccused
  <2> QED
    BY <1>2, <2>2, <2>3, <2>4, <2>5, <2>6 DEF Step
<1> QED
  BY <1>1, <1>2 DEF Next

(* With a write-ahead file the inductive invariant holds: honest votes are *)
(* recorded, unique and numbered, and everything counted was signed.       *)
THEOREM HotStuffInvariant == ASSUME Persist PROVE Spec => []HotStuffInv
<1>1. HotStuffInv /\ TypeOK' /\ [Next]_vars => HotStuffInv'
  BY HotStuffInvStep
<1> QED
  BY <1>1, HotStuffInvInit, HotStuffTypeOK, PTL DEF Spec

(* The certificates behind two commits of one height share an honest       *)
(* validator, which has one Commit vote for that height.                   *)
LEMMA InvAgreement == HotStuffInv => Agreement
<1> SUFFICES ASSUME HotStuffInv, NEW x \in commits, NEW y \in commits,
                    BlockNumber[x[2]] = BlockNumber[y[2]]
             PROVE  x[2] = y[2]
  BY DEF Agreement
<1>1. /\ Cardinality(Signers(x[2], Commit)) >= QuorumSize
      /\ Cardinality(Signers(y[2], Commit)) >= QuorumSize
  BY DEF HotStuffInv, PhasesInOrder, HasQuorum
<1>2. Signers(x[2], Commit) \in SUBSET Validators /\ Signers(y[2], Commit) \in SUBSET Validators
  BY DEF Signers
<1>3. PICK u \in Honest : u \in Signers(x[2], Commit) /\ u \in Signers(y[2], Commit)
  BY <1>1, <1>2, QuorumsIntersect
<1>4. PICK a \in network : a.voter = u /\ a.data.hash = x[2] /\ a.data.phase = Commit
  BY <1>3 DEF Signers, Honest
<1>5. PICK b \in network : b.voter = u /\ b.data.hash = y[2] /\ b.data.phase = Commit
  BY <1>3 DEF Signers, Honest
<1>6. a.data.number = b.data.number
  BY <1>4, <1>5 DEF HotStuffInv, VotesNumbered
<1>7. SameSlot(a, b)
  BY <1>4, <1>5, <1>6 DEF SameSlot, Key
<1> QED
  BY <1>4, <1>5, <1>7 DEF HotStuffInv, VotesUnique

(* No two validators commit different blocks of one height. *)
THEOREM HotStuffAgreement == ASSUME Persist PROVE Spec => []Agreement
  BY HotStuffInvariant, InvAgreement, PTL

(* No honest validator is ever named in equivocation evidence. *)
THEOREM HotStuffNeverAccusesHonest == ASSUME Persist PROVE Spec => []HonestNeverAccused
<1>1. HotStuffInv => HonestNeverAccused
  BY DEF HotStuffInv
<1> QED
  BY <1>1, HotStuffInvariant, PTL

(* Every PreCommit, Commit, commit and lock stands on a quorum of the      *)
(* phase before it.                                                        *)
THEOREM HotStuffPhasesInOrder == ASSUME Persist PROVE Spec => []PhasesInOrder
<1>1. HotStuffInv => PhasesInOrder
  BY DEF HotStuffInv
<1> QED
  BY <1>1, HotStuffInvariant, PTL
(* Whatever arrives, on_vote leaves the round above the committed height:  *)
(* only on_qc phase 2 moves either, and it moves both.                     *)
LEMMA VoteRoundAbove ==
    ASSUME TypeOK, RoundAboveCommitted, NEW v \in Honest, NEW vote \in Vote,
           OnVote(v, vote)
    PROVE  RoundAboveCommitted'
<1>1. CASE UNCHANGED <<pacemaker, committed_height>>
  BY <1>1 DEF RoundAboveCommitted
<1>2. CASE OnCommitQc(v, vote) /\ ~ UNCHANGED <<pacemaker, committed_height>>
  <2> DEFINE n == BlockNumber[vote.data.hash]
  <2>1. n \in Nat /\ vote.data.epoch \in Nat
    BY VoteRecord, HotStuffConstants DEF VoteData
  <2>2. /\ committed_height' = [committed_height EXCEPT ![v] = n]
        /\ pacemaker' = [pacemaker EXCEPT ![v] =
                             AdvanceRound(pacemaker[v], n + 1, vote.data.epoch)]
    BY <1>2 DEF OnCommitQc
  <2>3. pacemaker[v].round \in Nat
    BY DEF TypeOK
  <2>4. n < AdvanceRound(pacemaker[v], n + 1, vote.data.epoch).round
    BY <2>1, <2>3 DEF AdvanceRound
  <2> HIDE DEF n
  <2> QED
    BY <2>2, <2>4 DEF RoundAboveCommitted, TypeOK
<1> QED
  BY <1>1, <1>2 DEF OnVote, OnConflict, OnIgnored, OnCounted, OnPrepareQc,
                    OnPreCommitQc, OnCommitQc

(* The pacemaker's round is above the committed height, with or without a  *)
(* file.                                                                   *)
THEOREM HotStuffRoundAboveCommitted == Spec => []RoundAboveCommitted
<1>1. Init => RoundAboveCommitted
  BY DEF Init, RoundAboveCommitted, InitPacemaker
<1>2. TypeOK /\ RoundAboveCommitted /\ [Next]_vars => RoundAboveCommitted'
  <2> SUFFICES ASSUME TypeOK, RoundAboveCommitted, [Next]_vars
               PROVE  RoundAboveCommitted'
    OBVIOUS
  <2>1. CASE UNCHANGED vars
    BY <2>1 DEF vars, RoundAboveCommitted
  <2>2. ASSUME NEW v \in Live, Step(v) \/ Restart(v) PROVE RoundAboveCommitted'
    <3>1. v \in Honest
      BY HotStuffConstants
    <3>2. CASE own[v] # NoVote /\ OnVote(v, own[v])
      BY <3>1, <3>2, VoteRoundAbove DEF TypeOK
    <3>3. ASSUME NEW vote \in network \cup ByzVotes, OnVote(v, vote)
          PROVE  RoundAboveCommitted'
      BY <3>1, <3>3, VoteRoundAbove, DeliverableType
    <3>4. ASSUME NEW h \in Hash, NEW p \in 0..MaxParent, OnProposal(v, h, p)
          PROVE  RoundAboveCommitted'
      BY <3>4 DEF OnProposal, RoundAboveCommitted
    <3>5. CASE OnTimeout(v)
      <4>1. \A u \in Honest : pacemaker'[u].round >= pacemaker[u].round
        BY <3>1, <3>5 DEF OnTimeout, TypeOK
      <4> QED
        BY <3>5, <4>1 DEF OnTimeout, TypeOK, RoundAboveCommitted
    <3>6. CASE Restart(v)
      <4>1. pacemaker'[v].round = 1 /\ committed_height'[v] = 0
        BY <3>1, <3>6 DEF Restart, InitPacemaker, TypeOK
      <4>2. \A u \in Honest \ {v} : /\ pacemaker'[u] = pacemaker[u]
                                    /\ committed_height'[u] = committed_height[u]
        BY <3>1, <3>6 DEF Restart, TypeOK
      <4> QED
        BY <4>1, <4>2 DEF RoundAboveCommitted
    <3> QED
      BY <2>2, <3>2, <3>3, <3>4, <3>5, <3>6 DEF Step
  <2> QED
    BY <2>1, <2>2 DEF Next
<1> QED
  BY <1>1, <1>2, HotStuffTypeOK, PTL DEF Spec
-----------------------------------------------------------------------------
(* The engine implements Finality. *)

(* A step commits at most one block at one validator. *)
LEMMA CommitsStep ==
    ASSUME TypeOK, [Next]_vars
    PROVE  commits' = commits \/ \E v \in Honest, h \in Hash : commits' = commits \cup {<<v, h>>}
<1>1. ASSUME NEW v \in Honest, NEW vote \in Vote, OnVote(v, vote)
      PROVE  commits' = commits \/ \E h \in Hash : commits' = commits \cup {<<v, h>>}
  <2>1. vote.data.hash \in Hash
    BY VoteRecord DEF VoteData
  <2> QED
    BY <1>1, <2>1 DEF OnVote, OnConflict, OnIgnored, OnCounted, OnPrepareQc,
                      OnPreCommitQc, OnCommitQc
<1>2. ASSUME NEW v \in Live, Step(v) \/ Restart(v)
      PROVE  commits' = commits \/ \E w \in Honest, h \in Hash : commits' = commits \cup {<<w, h>>}
  <2>1. v \in Honest
    BY HotStuffConstants
  <2>2. CASE own[v] # NoVote /\ OnVote(v, own[v])
    <3>1. own[v] \in Vote
      BY <2>1, <2>2 DEF TypeOK
    <3> QED
      BY <1>1, <2>1, <2>2, <3>1
  <2>3. ASSUME NEW vote \in network \cup ByzVotes, OnVote(v, vote)
        PROVE  commits' = commits \/ \E w \in Honest, h \in Hash : commits' = commits \cup {<<w, h>>}
    BY <1>1, <2>1, <2>3, DeliverableType
  <2> QED
    BY <1>2, <2>2, <2>3 DEF Step, OnProposal, OnTimeout, Restart
<1> QED
  BY <1>2 DEF Next, vars

(* A commit is a Finalise step or, for a block already final, a stutter. *)
LEMMA FinalityStep ==
    ASSUME TypeOK, Agreement', [Next]_vars
    PROVE  [Ledger!Next]_({x[2] : x \in commits})
<1> DEFINE final == {x[2] : x \in commits}
<1>1. CASE commits' = commits
  BY <1>1
<1>2. ASSUME NEW v \in Honest, NEW h \in Hash, commits' = commits \cup {<<v, h>>}
      PROVE  [Ledger!Next]_final
  <2>1. final' = final \cup {h}
    <3>1. final' = {x[2] : x \in commits \cup {<<v, h>>}}
      BY <1>2
    <3>2. \A y : y \in final' => y \in final \cup {h}
      <4> SUFFICES ASSUME NEW x \in commits \cup {<<v, h>>}
                   PROVE  x[2] \in final \cup {h}
        BY <3>1
      <4>1. CASE x \in commits
        BY <4>1
      <4>2. CASE x = <<v, h>>
        <5>1. x[2] = h
          BY <4>2
        <5> QED
          BY <5>1
      <4> QED
        BY <4>1, <4>2
    <3>3. \A y : y \in final => y \in final'
      <4> SUFFICES ASSUME NEW x \in commits
                   PROVE  x[2] \in {z[2] : z \in commits \cup {<<v, h>>}}
        BY <3>1
      <4> QED
        OBVIOUS
    <3>4. h \in final'
      <4>1. <<v, h>>[2] = h
        OBVIOUS
      <4>2. <<v, h>>[2] \in {x[2] : x \in commits \cup {<<v, h>>}}
        OBVIOUS
      <4> QED
        BY <3>1, <4>1, <4>2
    <3> HIDE DEF final
    <3> QED
      BY <3>2, <3>3, <3>4
  <2>2. CASE h \in final
    BY <2>1, <2>2
  <2>3. CASE h \notin final
    <3>1. \A g \in final : BlockNumber[g] # BlockNumber[h]
      <4> SUFFICES ASSUME NEW x \in commits, BlockNumber[x[2]] = BlockNumber[h]
                   PROVE  x[2] = h
        BY <2>3
      <4>1. x \in commits' /\ <<v, h>> \in commits'
        BY <1>2
      <4> QED
        BY <4>1 DEF Agreement
    <3>2. Ledger!Finalise(h)
      BY <2>1, <3>1 DEF Ledger!Finalise
    <3> QED
      BY <3>2 DEF Ledger!Next
  <2> QED
    BY <2>2, <2>3
<1> QED
  BY <1>1, <1>2, CommitsStep

(* The blocks the validators commit are a history of Finality: the set of  *)
(* final blocks grows by one block of a fresh height at a time.            *)
THEOREM HotStuffImplementsFinality == ASSUME Persist PROVE Spec => ImplementsFinality
<1>1. Init => Ledger!Init
  BY DEF Init, Ledger!Init
<1>2. TypeOK /\ Agreement' /\ [Next]_vars => [Ledger!Next]_({x[2] : x \in commits})
  BY FinalityStep
<1> QED
  BY <1>1, <1>2, HotStuffTypeOK, HotStuffAgreement, PTL
     DEF Spec, ImplementsFinality, Ledger!Spec
=============================================================================
