-------------------------- MODULE SafetyWalProofs --------------------------
(***************************************************************************)
(* Proofs for SafetyWal: with a write-ahead file whose writes succeed, one *)
(* validator never votes twice for a (block number, phase) in an epoch and *)
(* never goes back, whatever it is asked to vote on and however often it   *)
(* is restarted.                                                           *)
(***************************************************************************)
EXTENDS SafetyWal, TLAPS

(* A vote that passes the checks keeps the state well formed, moves        *)
(* highest_vote_round to its number and records its pair; the lock and the *)
(* epoch stay.                                                             *)
LEMMA AfterVoteType ==
    ASSUME NEW s \in SafetyState, NEW d \in VoteData
    PROVE  /\ AfterVote(s, d) \in SafetyState
           /\ AfterVote(s, d).highest_vote_round = d.number
           /\ AfterVote(s, d).locked_round = s.locked_round
           /\ AfterVote(s, d).epoch = s.epoch
           /\ AfterVote(s, d).voted_phases = s.voted_phases \cup {Key(d)}
<1>1. Key(d) \in Nat \X Phase
  BY DEF VoteData, Key
<1>2. AfterVote(s, d).voted_phases = s.voted_phases \cup {Key(d)}
  BY DEF AfterVote, SafetyState
<1>3. /\ AfterVote(s, d).highest_vote_round = d.number
      /\ AfterVote(s, d).locked_round = s.locked_round
      /\ AfterVote(s, d).locked_qc = s.locked_qc
      /\ AfterVote(s, d).epoch = s.epoch
  BY DEF AfterVote, SafetyState
<1>4. s.voted_phases \cup {Key(d)} \in SUBSET (Nat \X Phase)
  BY <1>1 DEF SafetyState
<1>5. d.number \in Nat
  BY DEF VoteData
<1>6. AfterVote(s, d) \in SafetyState
  BY <1>4, <1>5 DEF AfterVote, SafetyState
<1> QED
  BY <1>2, <1>3, <1>6

(* update_locked_qc never lowers the lock. *)
LEMMA UpdateLockedQcType ==
    ASSUME NEW s \in SafetyState, NEW qc \in QC
    PROVE  /\ UpdateLockedQc(s, qc) \in SafetyState
           /\ UpdateLockedQc(s, qc).highest_vote_round = s.highest_vote_round
           /\ UpdateLockedQc(s, qc).locked_round >= s.locked_round
           /\ UpdateLockedQc(s, qc).epoch = s.epoch
           /\ UpdateLockedQc(s, qc).voted_phases = s.voted_phases
<1>1. CASE qc.number > s.locked_round
  <2>1. UpdateLockedQc(s, qc) =
         [highest_vote_round |-> s.highest_vote_round, locked_round |-> qc.number,
          locked_qc |-> qc, epoch |-> s.epoch, voted_phases |-> s.voted_phases]
    BY <1>1 DEF UpdateLockedQc, SafetyState
  <2>2. qc.number \in Nat /\ s.locked_round \in Nat
    BY DEF QC, SafetyState
  <2> QED
    BY <1>1, <2>1, <2>2 DEF SafetyState
<1>2. CASE ~ (qc.number > s.locked_round)
  BY <1>2 DEF UpdateLockedQc, SafetyState
<1> QED
  BY <1>1, <1>2

(* advance_epoch never lowers the epoch and keeps the lock. *)
LEMMA AdvanceEpochType ==
    ASSUME NEW s \in SafetyState, NEW e \in Nat
    PROVE  /\ AdvanceEpoch(s, e) \in SafetyState
           /\ AdvanceEpoch(s, e).highest_vote_round = s.highest_vote_round
           /\ AdvanceEpoch(s, e).locked_round = s.locked_round
           /\ AdvanceEpoch(s, e).epoch >= s.epoch
           /\ e > s.epoch => AdvanceEpoch(s, e).epoch = e
<1>1. CASE e > s.epoch
  <2>1. AdvanceEpoch(s, e) =
         [highest_vote_round |-> s.highest_vote_round, locked_round |-> s.locked_round,
          locked_qc |-> s.locked_qc, epoch |-> e, voted_phases |-> {}]
    BY <1>1 DEF AdvanceEpoch, SafetyState
  <2>2. s.epoch \in Nat
    BY DEF SafetyState
  <2> QED
    BY <1>1, <2>1, <2>2 DEF SafetyState
<1>2. CASE ~ (e > s.epoch)
  BY <1>2 DEF AdvanceEpoch, SafetyState
<1> QED
  BY <1>1, <1>2

(* SafetyState::default() is well formed. *)
LEMMA DefaultStateType == DefaultState \in SafetyState
  BY DEF DefaultState, SafetyState, NoQC, QC
-----------------------------------------------------------------------------

(* Everything the network was told is in the file. *)
FileCovers ==
    \A v \in signed :
        /\ v.data.number <= wal.highest_vote_round
        /\ v.lock <= wal.locked_round
        /\ v.tenure <= wal.epoch
        /\ v.tenure = wal.epoch => Key(v.data) \in wal.voted_phases

(* The memory is never behind the file; the voted pairs can only differ    *)
(* after an epoch change the file has not seen.                            *)
MemoryCoversFile ==
    /\ wal.highest_vote_round <= st.highest_vote_round
    /\ wal.locked_round <= st.locked_round
    /\ wal.epoch <= st.epoch
    /\ wal.epoch = st.epoch => wal.voted_phases \subseteq st.voted_phases

WalInv == TypeOK /\ FileCovers /\ MemoryCoversFile /\ OneVotePerTenure

(* The data the caller may offer are vote data. *)
LEMMA OfferedType == OfferedData \subseteq VoteData
  BY WalConstants DEF OfferedData, VoteData

(* The type invariant holds however the file behaves. *)
THEOREM WalTypeOK == Spec => []TypeOK
<1>1. Init => TypeOK
  BY DefaultStateType DEF Init, TypeOK
<1>2. TypeOK /\ [Next]_vars => TypeOK'
  <2> SUFFICES ASSUME TypeOK, [Next]_vars PROVE TypeOK'
    OBVIOUS
  <2>1. ASSUME NEW d \in OfferedData, NEW p \in 0..MaxNumber, Vote(d, p)
        PROVE  TypeOK'
    <3>1. d \in VoteData /\ p \in Nat
      BY OfferedType, WalConstants
    <3>2. [data |-> d, parent |-> p, lock |-> st.locked_round, tenure |-> st.epoch]
            \in Ballot
      BY <3>1 DEF Ballot, TypeOK, SafetyState
    <3>3. st' \in SafetyState
      BY <2>1, <3>1, AfterVoteType DEF Vote, TypeOK
    <3>4. wal' \in SafetyState
      BY <2>1, <3>3 DEF Vote, PersistState, TypeOK
    <3> QED
      BY <2>1, <3>2, <3>3, <3>4 DEF Vote, TypeOK
  <2>2. ASSUME NEW d \in OfferedData, NEW p \in 0..MaxNumber, CrashInVote(d, p)
        PROVE  TypeOK'
    BY <2>2, OfferedType, AfterVoteType DEF CrashInVote, TypeOK
  <2>3. ASSUME NEW h \in Hash, NEW n \in 1..MaxNumber,
               LockQc([hash |-> h, number |-> n])
        PROVE  TypeOK'
    <3>1. [hash |-> h, number |-> n] \in QC
      BY WalConstants DEF QC
    <3> QED
      BY <2>3, <3>1, UpdateLockedQcType DEF LockQc, TypeOK
  <2>4. ASSUME NEW e \in 1..MaxEpoch, EnterEpoch(e)
        PROVE  TypeOK'
    BY <2>4, WalConstants, AdvanceEpochType DEF EnterEpoch, TypeOK
  <2>5. CASE Restart
    BY <2>5, DefaultStateType DEF Restart, TypeOK
  <2>6. CASE UNCHANGED vars
    BY <2>6 DEF vars, TypeOK
  <2> QED
    BY <2>1, <2>2, <2>3, <2>4, <2>5, <2>6 DEF Next
<1> QED
  BY <1>1, <1>2, PTL DEF Spec

(* A new vote does not collide with an old one of the same tenure: the old *)
(* one's pair is in the file, hence in the memory vote() checks.           *)
LEMMA FreshKey ==
    ASSUME WalInv, NEW d \in VoteData, NEW p \in Nat, CanVote(st, d, p),
           NEW u \in signed
    PROVE  /\ u.data.number <= d.number
           /\ u.lock <= p
           /\ u.tenure <= st.epoch
           /\ u.tenure = st.epoch => Key(u.data) # Key(d)
<1>1. /\ st.highest_vote_round \in Nat /\ st.locked_round \in Nat /\ st.epoch \in Nat
      /\ wal.highest_vote_round \in Nat /\ wal.locked_round \in Nat /\ wal.epoch \in Nat
  BY DEF WalInv, TypeOK, SafetyState
<1>2. /\ u.data.number \in Nat /\ u.lock \in Nat /\ u.tenure \in Nat
      /\ d.number \in Nat
  BY DEF WalInv, TypeOK, Ballot, VoteData
<1>3. /\ u.data.number <= wal.highest_vote_round
      /\ u.lock <= wal.locked_round
      /\ u.tenure <= wal.epoch
      /\ u.tenure = wal.epoch => Key(u.data) \in wal.voted_phases
  BY DEF WalInv, FileCovers
<1>4. /\ wal.highest_vote_round <= st.highest_vote_round
      /\ wal.locked_round <= st.locked_round
      /\ wal.epoch <= st.epoch
      /\ wal.epoch = st.epoch => wal.voted_phases \subseteq st.voted_phases
  BY DEF WalInv, MemoryCoversFile
<1>5. /\ d.number >= st.highest_vote_round
      /\ Key(d) \notin st.voted_phases
      /\ p >= st.locked_round
  BY DEF CanVote
<1>6. /\ u.data.number <= d.number
      /\ u.lock <= p
      /\ u.tenure <= st.epoch
  BY <1>1, <1>2, <1>3, <1>4, <1>5
<1>7. ASSUME u.tenure = st.epoch PROVE Key(u.data) # Key(d)
  <2>1. u.tenure = wal.epoch /\ wal.epoch = st.epoch
    BY <1>1, <1>2, <1>3, <1>4, <1>7
  <2> QED
    BY <2>1, <1>3, <1>4, <1>5
<1> QED
  BY <1>6, <1>7

(* The strengthened invariant holds of a fresh validator. *)
LEMMA WalInvInit == Init => WalInv
<1> SUFFICES ASSUME Init PROVE WalInv
  OBVIOUS
<1>1. TypeOK
  BY DefaultStateType DEF Init, TypeOK
<1>2. MemoryCoversFile
  BY DefaultStateType DEF Init, MemoryCoversFile, SafetyState
<1>3. FileCovers /\ OneVotePerTenure
  BY DEF Init, FileCovers, OneVotePerTenure
<1> QED
  BY <1>1, <1>2, <1>3 DEF WalInv

(* vote() keeps it: the file is written with the vote. *)
LEMMA WalInvVote ==
    ASSUME Persist, ~WriteMayFail, WalInv, TypeOK',
           NEW d \in OfferedData, NEW p \in 0..MaxNumber, Vote(d, p)
    PROVE  WalInv'
<1> DEFINE b == [data |-> d, parent |-> p, lock |-> st.locked_round,
                 tenure |-> st.epoch]
<1>1. d \in VoteData /\ p \in Nat /\ CanVote(st, d, p)
  BY OfferedType, WalConstants DEF Vote
<1>2. st' = AfterVote(st, d) /\ wal' = st' /\ signed' = signed \cup {b}
  BY DEF Vote, PersistState
<1>3. st \in SafetyState
  BY DEF WalInv, TypeOK
<1>4. /\ wal'.highest_vote_round = d.number
      /\ wal'.locked_round = st.locked_round
      /\ wal'.epoch = st.epoch
      /\ wal'.voted_phases = st.voted_phases \cup {Key(d)}
  BY <1>1, <1>2, <1>3, AfterVoteType
<1>5. /\ b.data = d /\ b.lock = st.locked_round /\ b.tenure = st.epoch
  OBVIOUS
<1>6. /\ st.locked_round \in Nat /\ st.epoch \in Nat /\ d.number \in Nat
      /\ st.highest_vote_round \in Nat
  BY <1>1, <1>3 DEF SafetyState, VoteData
<1>7. MemoryCoversFile'
  BY <1>2, <1>4, <1>6 DEF MemoryCoversFile
<1>8. FileCovers'
  <2> SUFFICES ASSUME NEW v \in signed'
               PROVE  /\ v.data.number <= wal'.highest_vote_round
                      /\ v.lock <= wal'.locked_round
                      /\ v.tenure <= wal'.epoch
                      /\ v.tenure = wal'.epoch => Key(v.data) \in wal'.voted_phases
    BY DEF FileCovers, Key
  <2>1. CASE v = b
    BY <2>1, <1>4, <1>5, <1>6
  <2>2. CASE v \in signed
    <3>1. v.data.number <= d.number /\ v.tenure <= st.epoch
      BY <1>1, <2>2, FreshKey
    <3>2. /\ v.lock <= wal.locked_round /\ wal.locked_round <= st.locked_round
          /\ v.lock \in Nat /\ wal.locked_round \in Nat
      BY <2>2 DEF WalInv, FileCovers, MemoryCoversFile, TypeOK, Ballot, SafetyState
    <3>3. ASSUME v.tenure = st.epoch PROVE Key(v.data) \in st.voted_phases
      <4>1. v.tenure \in Nat /\ wal.epoch \in Nat
        BY <2>2 DEF WalInv, TypeOK, Ballot, SafetyState
      <4>2. v.tenure <= wal.epoch /\ wal.epoch <= st.epoch
        BY <2>2 DEF WalInv, FileCovers, MemoryCoversFile
      <4>3. v.tenure = wal.epoch /\ wal.epoch = st.epoch
        BY <4>1, <4>2, <3>3, <1>6
      <4> QED
        BY <4>3, <2>2 DEF WalInv, FileCovers, MemoryCoversFile
    <3> QED
      BY <3>1, <3>2, <3>3, <1>4, <1>6
  <2> QED
    BY <2>1, <2>2, <1>2
<1>9. OneVotePerTenure'
  <2> SUFFICES ASSUME NEW u \in signed', NEW v \in signed',
                      Key(u.data) = Key(v.data), u.tenure = v.tenure
               PROVE  u = v
    BY DEF OneVotePerTenure, Key
  <2>1. CASE u \in signed /\ v \in signed
    BY <2>1 DEF WalInv, OneVotePerTenure
  <2>2. CASE u \in signed /\ v = b
    BY <2>2, <1>1, <1>5, FreshKey
  <2>3. CASE u = b /\ v \in signed
    BY <2>3, <1>1, <1>5, FreshKey
  <2>4. CASE u = b /\ v = b
    BY <2>4
  <2> QED
    BY <2>1, <2>2, <2>3, <2>4, <1>2
<1> QED
  BY <1>7, <1>8, <1>9 DEF WalInv

(* A crash inside vote() moves the file and the memory to the same, newer  *)
(* state and sends nothing.                                                *)
LEMMA WalInvCrashInVote ==
    ASSUME WalInv, TypeOK',
           NEW d \in OfferedData, NEW p \in 0..MaxNumber, CrashInVote(d, p)
    PROVE  WalInv'
<1>1. d \in VoteData /\ p \in Nat /\ CanVote(st, d, p)
  BY OfferedType, WalConstants DEF CrashInVote
<1>2. wal' = AfterVote(st, d) /\ st' = wal' /\ signed' = signed
  BY DEF CrashInVote
<1>3. st \in SafetyState
  BY DEF WalInv, TypeOK
<1>4. /\ wal'.highest_vote_round = d.number
      /\ wal'.locked_round = st.locked_round
      /\ wal'.epoch = st.epoch
      /\ wal'.voted_phases = st.voted_phases \cup {Key(d)}
  BY <1>1, <1>2, <1>3, AfterVoteType
<1>5. MemoryCoversFile'
  BY <1>1, <1>2, <1>3, <1>4 DEF MemoryCoversFile, SafetyState, VoteData
<1>6. FileCovers'
  <2> SUFFICES ASSUME NEW v \in signed
               PROVE  /\ v.data.number <= wal'.highest_vote_round
                      /\ v.lock <= wal'.locked_round
                      /\ v.tenure <= wal'.epoch
                      /\ v.tenure = wal'.epoch => Key(v.data) \in wal'.voted_phases
    BY <1>2 DEF FileCovers, Key
  <2>1. v.data.number <= d.number /\ v.tenure <= st.epoch
    BY <1>1, FreshKey
  <2>2. /\ v.lock <= wal.locked_round /\ wal.locked_round <= st.locked_round
        /\ v.tenure <= wal.epoch /\ wal.epoch <= st.epoch
        /\ v.tenure = wal.epoch => Key(v.data) \in wal.voted_phases
        /\ wal.epoch = st.epoch => wal.voted_phases \subseteq st.voted_phases
    BY DEF WalInv, FileCovers, MemoryCoversFile
  <2>3. /\ v.lock \in Nat /\ v.tenure \in Nat /\ wal.locked_round \in Nat
        /\ wal.epoch \in Nat /\ st.locked_round \in Nat /\ st.epoch \in Nat
    BY DEF WalInv, TypeOK, Ballot, SafetyState
  <2>4. v.lock <= wal'.locked_round
    BY <2>2, <2>3, <1>4
  <2>5. v.tenure = st.epoch => Key(v.data) \in st.voted_phases
    BY <2>2, <2>3
  <2> QED
    BY <2>1, <2>4, <2>5, <1>4
<1>7. OneVotePerTenure'
  BY <1>2 DEF WalInv, OneVotePerTenure, Key
<1> QED
  BY <1>5, <1>6, <1>7 DEF WalInv

(* Steps that touch neither the file nor the history: the memory must stay *)
(* ahead of the file.                                                      *)
LEMMA WalInvMemoryOnly ==
    ASSUME WalInv, TypeOK', UNCHANGED <<wal, signed>>, MemoryCoversFile'
    PROVE  WalInv'
  BY DEF WalInv, FileCovers, OneVotePerTenure, Key

(* Every step keeps it, when the file works. *)
LEMMA WalInvStep ==
    ASSUME Persist, ~WriteMayFail, WalInv, TypeOK', [Next]_vars
    PROVE  WalInv'
<1>1. /\ st \in SafetyState /\ wal \in SafetyState /\ MemoryCoversFile
  BY DEF WalInv, TypeOK
<1>2. ASSUME NEW d \in OfferedData, NEW p \in 0..MaxNumber, Vote(d, p)
      PROVE  WalInv'
  BY <1>2, WalInvVote
<1>3. ASSUME NEW d \in OfferedData, NEW p \in 0..MaxNumber, CrashInVote(d, p)
      PROVE  WalInv'
  BY <1>3, WalInvCrashInVote
<1>4. ASSUME NEW h \in Hash, NEW n \in 1..MaxNumber,
             LockQc([hash |-> h, number |-> n])
      PROVE  WalInv'
  <2>1. [hash |-> h, number |-> n] \in QC
    BY WalConstants DEF QC
  <2>2. /\ st'.highest_vote_round = st.highest_vote_round
        /\ st'.locked_round >= st.locked_round
        /\ st'.epoch = st.epoch
        /\ st'.voted_phases = st.voted_phases
        /\ st' \in SafetyState
    BY <1>1, <1>4, <2>1, UpdateLockedQcType DEF LockQc
  <2>3. MemoryCoversFile'
    BY <1>1, <1>4, <2>2 DEF MemoryCoversFile, LockQc, SafetyState
  <2> QED
    BY <1>4, <2>3, WalInvMemoryOnly DEF LockQc
<1>5. ASSUME NEW e \in 1..MaxEpoch, EnterEpoch(e)
      PROVE  WalInv'
  <2>1. /\ st'.highest_vote_round = st.highest_vote_round
        /\ st'.locked_round = st.locked_round
        /\ st'.epoch = e /\ e > st.epoch
        /\ e \in Nat
    BY <1>1, <1>5, WalConstants, AdvanceEpochType DEF EnterEpoch
  <2>2. MemoryCoversFile'
    BY <1>1, <1>5, <2>1 DEF MemoryCoversFile, EnterEpoch, SafetyState
  <2> QED
    BY <1>5, <2>2, WalInvMemoryOnly DEF EnterEpoch
<1>6. CASE Restart
  <2>1. MemoryCoversFile'
    BY <1>1, <1>6 DEF Restart, MemoryCoversFile, SafetyState
  <2> QED
    BY <1>6, <2>1, WalInvMemoryOnly DEF Restart
<1>7. CASE UNCHANGED vars
  BY <1>7, WalInvMemoryOnly DEF vars, WalInv, MemoryCoversFile
<1> QED
  BY <1>2, <1>3, <1>4, <1>5, <1>6, <1>7 DEF Next

(* With a file that is written the inductive invariant holds: the file covers *)
(* every vote sent and the memory covers the file.                         *)
THEOREM WalInvariant ==
    ASSUME Persist, ~WriteMayFail
    PROVE  Spec => []WalInv
<1>1. WalInv /\ TypeOK' /\ [Next]_vars => WalInv'
  BY WalInvStep
<1> QED
  BY <1>1, WalInvInit, WalTypeOK, PTL DEF Spec

(* vote() with a working write-ahead file: at most one vote per (block     *)
(* number, phase) in an epoch, over any number of restarts.                *)
THEOREM WalOneVotePerTenure ==
    ASSUME Persist, ~WriteMayFail
    PROVE  Spec => []OneVotePerTenure
<1>1. WalInv => OneVotePerTenure
  BY DEF WalInv
<1> QED
  BY <1>1, WalInvariant, PTL

(* The file alone refuses every vote that was ever sent. *)
THEOREM WalFileCoversVotes ==
    ASSUME Persist, ~WriteMayFail
    PROVE  Spec => []WalCoversVotes
<1>1. WalInv => WalCoversVotes
  <2> SUFFICES ASSUME WalInv, NEW v \in signed, ~ (v.tenure < wal.epoch)
               PROVE  ~ CanVote(wal, v.data, v.parent)
    BY DEF WalCoversVotes
  <2>1. v.tenure \in Nat /\ wal.epoch \in Nat
    BY DEF WalInv, TypeOK, Ballot, SafetyState
  <2>2. v.tenure = wal.epoch
    BY <2>1 DEF WalInv, FileCovers
  <2> QED
    BY <2>2 DEF WalInv, FileCovers, CanVote
<1> QED
  BY <1>1, WalInvariant, PTL

(* No vote is below an earlier one, and none is cast on a parent below the *)
(* lock an earlier one was cast under, restarts included.                  *)
THEOREM WalVotesNeverGoBack ==
    ASSUME Persist, ~WriteMayFail
    PROVE  Spec => VotesNeverGoBack
<1> DEFINE NewVotesAhead ==
      \A v \in signed' \ signed, u \in signed :
          /\ v.data.number >= u.data.number
          /\ v.parent >= u.lock
          /\ v.tenure >= u.tenure
<1>1. WalInv /\ [Next]_vars => [NewVotesAhead]_vars
  <2> SUFFICES ASSUME WalInv, Next,
                      NEW v \in signed' \ signed, NEW u \in signed
               PROVE  /\ v.data.number >= u.data.number
                      /\ v.parent >= u.lock
                      /\ v.tenure >= u.tenure
    OBVIOUS
  <2>1. PICK d \in OfferedData, p \in 0..MaxNumber : Vote(d, p)
    BY DEF Next, CrashInVote, LockQc, EnterEpoch, Restart
  <2>2. d \in VoteData /\ p \in Nat /\ CanVote(st, d, p)
    BY <2>1, OfferedType, WalConstants DEF Vote
  <2>3. v.data = d /\ v.parent = p /\ v.tenure = st.epoch
    BY <2>1 DEF Vote
  <2>4. /\ u.data.number <= d.number /\ u.lock <= p /\ u.tenure <= st.epoch
    BY <2>2, FreshKey
  <2>5. /\ u.data.number \in Nat /\ u.lock \in Nat /\ u.tenure \in Nat
        /\ d.number \in Nat /\ st.epoch \in Nat
    BY <2>2 DEF WalInv, TypeOK, Ballot, VoteData, SafetyState
  <2> QED
    BY <2>2, <2>3, <2>4, <2>5
<1> QED
  BY <1>1, WalInvariant, PTL DEF Spec, VotesNeverGoBack
=============================================================================
