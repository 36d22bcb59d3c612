---------------------------- MODULE SafetyRules ----------------------------
(***************************************************************************)
(* The voting rules of one validator                                       *)
(* (crates/zbx-consensus/src/safety_rules.rs), as operators on the         *)
(* SafetyState record.  A block hash is an element of the constant set     *)
(* Hash; signatures are left out (a vote exists iff its signer made it).   *)
(***************************************************************************)
EXTENDS Naturals

CONSTANT Hash

Prepare   == 0
PreCommit == 1
Commit    == 2
Phase     == {Prepare, PreCommit, Commit}

(* What a validator signs. *)
VoteData == [hash : Hash, number : Nat, phase : Phase, epoch : Nat]

NoQC == [hash |-> "none", number |-> 0]

(* Of a quorum certificate the rules only ever read the block number; the  *)
(* hash is kept because locked_qc is stored with it.                       *)
QC == [hash : Hash, number : Nat]

SafetyState ==
    [highest_vote_round : Nat,
     locked_round       : Nat,
     locked_qc          : QC \cup {NoQC},
     epoch              : Nat,
     voted_phases       : SUBSET (Nat \X Phase)]

DefaultState ==
    [highest_vote_round |-> 0,
     locked_round       |-> 0,
     locked_qc          |-> NoQC,
     epoch              |-> 0,
     voted_phases       |-> {}]

Key(d) == <<d.number, d.phase>>

(* Slips in the checks of vote(), for testing the properties: the          *)
(* DuplicateVote check or the StaleRound check is missing.                 *)
CanVoteTwice(s, d, parentNumber) ==
    /\ d.number >= s.highest_vote_round
    /\ parentNumber >= s.locked_round
    /\ d.epoch = s.epoch \/ s.epoch = 0

CanVoteBelow(s, d, parentNumber) ==
    /\ Key(d) \notin s.voted_phases
    /\ parentNumber >= s.locked_round
    /\ d.epoch = s.epoch \/ s.epoch = 0

(* The four checks of vote(), in the positive: each line is the negation   *)
(* of one early return (StaleRound, DuplicateVote, two SafetyViolations).  *)
(* The lock check compares block numbers only.                             *)
CanVote(s, d, parentNumber) ==
    /\ d.number >= s.highest_vote_round
    /\ Key(d) \notin s.voted_phases
    /\ parentNumber >= s.locked_round
    /\ d.epoch = s.epoch \/ s.epoch = 0

(* A slip: the phase that follows is recorded. *)
AfterVoteNextPhase(s, d) ==
    [s EXCEPT !.highest_vote_round = d.number,
              !.voted_phases = @ \cup {<<d.number, d.phase + 1>>}]

AfterVote(s, d) ==
    [s EXCEPT !.highest_vote_round = d.number,
              !.voted_phases = @ \cup {Key(d)}]

UpdateLockedQc(s, qc) ==
    IF qc.number > s.locked_round
    THEN [s EXCEPT !.locked_round = qc.number, !.locked_qc = qc]
    ELSE s

(* advance_epoch keeps the lock and highest_vote_round, and forgets which  *)
(* (number, phase) pairs were voted.                                       *)
AdvanceEpoch(s, newEpoch) ==
    IF newEpoch > s.epoch
    THEN [s EXCEPT !.epoch = newEpoch, !.voted_phases = {}]
    ELSE s
=============================================================================
