----------------------------- MODULE SafetyWal -----------------------------
(***************************************************************************)
(* One validator's SafetyRules object over its life: votes, lock updates,  *)
(* epoch changes, and crashes that lose the memory and come back from the  *)
(* write-ahead file (safety_rules.rs).  The caller is arbitrary: it may    *)
(* ask for a vote on any data with any parent certificate, which covers    *)
(* every sequence of proposals and certificates the consensus can feed it. *)
(***************************************************************************)
EXTENDS SafetyRules, FiniteSets

CONSTANTS
    MaxNumber,      \* bound on the block numbers offered
    MaxEpoch,       \* bound on the epochs entered
    MaxBallots,     \* bound on the votes recorded in the history
    Persist,        \* persist_path is Some (new_with_persist) or None (new)
    WriteMayFail    \* the file system may refuse the WAL write

ASSUME WalConstants ==
    /\ MaxNumber \in Nat
    /\ MaxEpoch \in Nat
    /\ MaxBallots \in Nat
    /\ Persist \in BOOLEAN
    /\ WriteMayFail \in BOOLEAN

VARIABLES
    st,     \* the SafetyState in memory
    wal,    \* the SafetyState the file holds; an absent file reads as default
    signed  \* history: every vote that left vote(), with the state it was cast in

vars == <<st, wal, signed>>

Ballot == [data : VoteData, parent : Nat, lock : Nat, tenure : Nat]

OfferedData == [hash : Hash, number : 0..MaxNumber, phase : Phase, epoch : 0..MaxEpoch]

Init ==
    /\ st = DefaultState
    /\ wal = DefaultState
    /\ signed = {}

(* A slip: the file is written before the state is updated. *)
PersistBeforeUpdate(s) == wal' = IF Persist THEN st ELSE wal

(* persist_state: nothing without a path; a failed write or rename only    *)
(* warns and leaves the old file.                                          *)
PersistState(s) ==
    \/ Persist /\ wal' = s
    \/ (~Persist \/ WriteMayFail) /\ wal' = wal

Vote(d, p) ==
    /\ Cardinality(signed) < MaxBallots
    /\ CanVote(st, d, p)
    /\ st' = AfterVote(st, d)
    /\ PersistState(st')
    /\ signed' = signed \cup
          {[data |-> d, parent |-> p, lock |-> st.locked_round, tenure |-> st.epoch]}

(* The process dies inside vote(), after the rename and before the vote is *)
(* returned: the file knows a vote nobody ever saw.                        *)
CrashInVote(d, p) ==
    /\ Persist
    /\ CanVote(st, d, p)
    /\ wal' = AfterVote(st, d)
    /\ st' = wal'
    /\ UNCHANGED signed

(* update_locked_qc does not write the file. *)
LockQc(qc) ==
    /\ qc.number > st.locked_round
    /\ st' = UpdateLockedQc(st, qc)
    /\ UNCHANGED <<wal, signed>>

(* Neither does advance_epoch. *)
EnterEpoch(e) ==
    /\ e > st.epoch
    /\ st' = AdvanceEpoch(st, e)
    /\ UNCHANGED <<wal, signed>>

(* A crash anywhere else, and the restart: new() begins from the default,  *)
(* new_with_persist() from the file.                                       *)
Restart ==
    /\ st' = IF Persist THEN wal ELSE DefaultState
    /\ UNCHANGED <<wal, signed>>

Next ==
    \/ \E d \in OfferedData, p \in 0..MaxNumber : Vote(d, p) \/ CrashInVote(d, p)
    \/ \E h \in Hash, n \in 1..MaxNumber : LockQc([hash |-> h, number |-> n])
    \/ \E e \in 1..MaxEpoch : EnterEpoch(e)
    \/ Restart

Spec == Init /\ [][Next]_vars
-----------------------------------------------------------------------------
TypeOK ==
    /\ st \in SafetyState
    /\ wal \in SafetyState
    /\ signed \subseteq Ballot

(* Voting within one value of SafetyState.epoch, restarts included: two    *)
(* votes for the same block number and phase are the same vote (the        *)
(* DuplicateVote check together with the write-ahead file).                *)
OneVotePerTenure ==
    \A u, v \in signed :
        Key(u.data) = Key(v.data) /\ u.tenure = v.tenure => u = v

(* A vote cast now is not below any vote cast before, and its parent       *)
(* certificate is not below the lock any earlier vote was cast under: what *)
(* a restart brings back from the file is never older than what the        *)
(* validator has already told the network.                                 *)
VotesNeverGoBack ==
    [][\A v \in signed' \ signed, u \in signed :
          /\ v.data.number >= u.data.number
          /\ v.parent >= u.lock
          /\ v.tenure >= u.tenure]_vars

(* The file is never behind a vote that left the validator: reading it     *)
(* back refuses every such vote again.                                     *)
WalCoversVotes ==
    \A v \in signed :
        ~ CanVote(wal, v.data, v.parent) \/ v.tenure < wal.epoch
=============================================================================
