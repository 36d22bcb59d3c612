---------------------------- MODULE DriverEngine ----------------------------
(***************************************************************************)
(* The HotStuffConsensus object as the node's driver uses it               *)
(* (crates/zbx-consensus/src/hotstuff.rs, vote.rs): operators on a record, *)
(* with everything a call does up to its return, the votes it feeds back   *)
(* to itself included.  HotStuff models the same code for a network in     *)
(* which proposals and votes of others arrive in any order; here the       *)
(* committee, the quorum and the leader may change.                        *)
(*                                                                         *)
(* A block stands for its own hash.  Header epochs are those of genesis    *)
(* for ever (build_candidate copies the parent's), so vote data carry one  *)
(* epoch.                                                                  *)
(***************************************************************************)
EXTENDS Naturals, FiniteSets, Sequences, SequencesExt

CONSTANT
    Draw(_, _)          \* keccak256(seed, round) as a number

(* The operators of SafetyRules; the set of hashes plays no part in them. *)
Rules == INSTANCE SafetyRules WITH Hash <- {}

ZeroSeed == <<>>
NoBlock == [number |-> 0]

(* A slip: the quorum without the "+ 1". *)
QuorumTwoThirds(committee) == (2 * Len(committee)) \div 3

Quorum(committee) == (2 * Len(committee)) \div 3 + 1

(* proposer_for_round: round robin without a seed, a draw with one. *)
Leader(e, round) ==
    LET index == IF e.seed = ZeroSeed THEN round ELSE Draw(e.seed, round)
    IN  e.committee[(index % Len(e.committee)) + 1]

NewEngine(committee, seed) ==
    [committee |-> committee, quorum |-> Quorum(committee), seed |-> seed,
     safety |-> Rules!DefaultState, round |-> 1, store |-> {}, accs |-> {}, seen |-> {},
     committed_height |-> 0]

(* update_validator_set keeps the seed and every accumulator. *)
UpdateValidatorSet(e, committee) ==
    [e EXCEPT !.committee = committee, !.quorum = Quorum(committee)]

(* Once a height is committed its votes are forgotten by the detector. *)
PruneSeenVotes(e, height) ==
    [e EXCEPT !.seen = {x \in @ : x.data.number >= height}]

(* A slip: a vote must be above the highest round voted in (the check      *)
(* before C-12).                                                           *)
MayVoteAbove(e, data, parent) ==
    /\ Rules!CanVote(e.safety, data, parent)
    /\ data.number > e.safety.highest_vote_round

MayVote(e, data, parent) == Rules!CanVote(e.safety, data, parent)

Voted(e, data) == [e EXCEPT !.safety = Rules!AfterVote(@, data)]
Locked(e, data) ==
    [e EXCEPT !.safety = Rules!UpdateLockedQc(@, [hash |-> data.hash, number |-> data.number])]

Data(block, phase) == [hash |-> block, number |-> block.number, phase |-> phase, epoch |-> 0]
SlotOf(vote) == <<vote.data.number, vote.data.phase, vote.voter>>

(* on_vote drops a stranger's vote and reports a second vote of a slot for *)
(* another block; any other vote goes to the accumulator of its (number,   *)
(* phase), which the first vote opened with its data and the quorum of     *)
(* that moment.                                                            *)
Heard(e, vote) ==
    /\ vote.voter \in ToSet(e.committee)
    /\ \A x \in e.seen : SlotOf(x) = SlotOf(vote) => x.data = vote.data

Accumulator(e, data) ==
    LET open == {a \in e.accs : a.data.number = data.number /\ a.data.phase = data.phase}
    IN  IF open = {} THEN [data |-> data, voters |-> {}, quorum |-> e.quorum]
        ELSE CHOOSE a \in open : TRUE

Counted(e, vote) ==
    LET a == Accumulator(e, vote.data)
        b == IF a.data = vote.data THEN [a EXCEPT !.voters = @ \cup {vote.voter}] ELSE a
    IN  IF Heard(e, vote)
        THEN [e EXCEPT !.seen = @ \cup {vote}, !.accs = (@ \ {a}) \cup {b}]
        ELSE e

FormsQc(e, vote) ==
    LET a == Accumulator(e, vote.data) IN
    /\ Heard(e, vote)
    /\ a.data = vote.data
    /\ vote.voter \notin a.voters
    /\ Cardinality(a.voters) + 1 >= a.quorum

(* What a call leads to: the engine after it, the votes cast on the way    *)
(* and the block decided.                                                  *)
Outcome(e) == [engine |-> e, sent |-> <<>>, decided |-> NoBlock]
Sending(vote, o) == [o EXCEPT !.sent = <<vote>> \o @]

OnCommitVote(e, vote) ==
    LET c == Counted(e, vote)
        block == vote.data.hash
        next == IF block.number + 1 > e.round THEN block.number + 1 ELSE e.round
    IN  IF FormsQc(e, vote) /\ block \in e.store /\ block.number > e.committed_height
        THEN [engine |-> [c EXCEPT !.committed_height = block.number, !.round = next],
              sent |-> <<>>, decided |-> block]
        ELSE Outcome(c)

(* on_qc votes for the next phase on the certificate just formed.  A       *)
(* refused vote is dropped.                                                *)
OnPreCommitVote(e, me, vote) ==
    LET c == Counted(e, vote)
        mine == [voter |-> me, data |-> Data(vote.data.hash, Rules!Commit)]
    IN  IF FormsQc(e, vote) /\ MayVote(c, mine.data, vote.data.number)
        THEN Sending(mine, OnCommitVote(Voted(c, mine.data), mine))
        ELSE Outcome(c)

OnPrepareVote(e, me, vote) ==
    LET c == IF FormsQc(e, vote) THEN Locked(Counted(e, vote), vote.data) ELSE Counted(e, vote)
        mine == [voter |-> me, data |-> Data(vote.data.hash, Rules!PreCommit)]
    IN  IF FormsQc(e, vote) /\ MayVote(c, mine.data, vote.data.number)
        THEN Sending(mine, OnPreCommitVote(Voted(c, mine.data), me, mine))
        ELSE Outcome(c)

OnVote(e, me, vote) ==
    CASE vote.data.phase = Rules!Prepare   -> OnPrepareVote(e, me, vote)
      [] vote.data.phase = Rules!PreCommit -> OnPreCommitVote(e, me, vote)
      [] OTHER                             -> OnCommitVote(e, vote)

(* on_proposal once its leader check has passed: the block is stored, and  *)
(* the Prepare vote is cast unless SafetyRules refuses it.  Whichever      *)
(* certificate parent_qc_for picks, its number is the parent's.            *)
OnProposal(e, me, block) ==
    LET stored == [e EXCEPT !.store = @ \cup {block}]
        mine == [voter |-> me, data |-> Data(block, Rules!Prepare)]
    IN  IF MayVote(e, mine.data, block.number - 1)
        THEN Sending(mine, OnPrepareVote(Voted(stored, mine.data), me, mine))
        ELSE Outcome(stored)
=============================================================================
