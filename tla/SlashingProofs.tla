--------------------------- MODULE SlashingProofs ---------------------------
(***************************************************************************)
(* Proofs for SlashingPipeline: whatever crashes between two writes, a     *)
(* record is debited at most once and only after its appeal window, memory *)
(* and disk agree between handlers, an appeal keeps its bond and a record  *)
(* only moves forward.                                                     *)
(***************************************************************************)
EXTENDS SlashingPipeline, TLAPS

(* Stakes and slashes are natural numbers. *)
LEMMA LessType == ASSUME NEW a \in Nat, NEW b \in Nat PROVE Less(a, b) \in Nat
  BY DEF Less

LEMMA SlashAmountType == ASSUME NEW stake \in Nat PROVE SlashAmount(stake) \in Nat
<1>1. stake * SlashBps \in Nat
  BY SlashingConstants
<1> QED
  BY <1>1 DEF SlashAmount

LEMMA NewRecordType ==
    ASSUME TypeOK, NEW i \in Id, NEW r \in Reporters
    PROVE  NewRecord(i, r) \in Record
<1>1. OffenderOf[i] \in Validators /\ BlockOf[i] + Window \in Nat
  BY SlashingConstants
<1>2. OffenderStake(OffenderOf[i]) \in Nat
  BY <1>1, SlashingConstants DEF OffenderStake, TypeOK, Member
<1>3. SlashAmount(OffenderStake(OffenderOf[i])) \in Nat
  BY <1>2, SlashAmountType
<1> QED
  BY <1>1, <1>3 DEF NewRecord, Record

LEMMA SubmittedType ==
    ASSUME TypeOK, NEW i \in Id, NEW r \in Reporters
    PROVE  Submitted(i, r) \in Record
<1>1. registry[i] \in Record
  BY DEF TypeOK
<1>2. [registry[i] EXCEPT !.reporters = @ \cup {r}] \in Record
  BY <1>1 DEF Record
<1> QED
  BY <1>1, <1>2, NewRecordType DEF Submitted

(* The state of a member after a burn, at the end of a commit. *)
LEMMA StatusAfterBurnType ==
    ASSUME TypeOK, NEW v \in Validators
    PROVE  StatusAfterBurn(v) \in {"Absent", "Active", "Jailed", "Pending", "Tombstoned"}
<1>1. vals[v].status \in {"Absent", "Active", "Jailed", "Pending", "Tombstoned"}
  BY DEF TypeOK, Member
<1> QED
  BY <1>1 DEF StatusAfterBurn

LEMMA PresentType == ASSUME TypeOK, NEW v \in Validators PROVE Present(v) \in Member
  BY SlashingConstants DEF TypeOK, Member, Present

LEMMA RefreshedType == ASSUME TypeOK, NEW v \in Validators PROVE Refreshed(v) \in Member
<1>1. Present(v) \in Member
  BY PresentType
<1> QED
  BY <1>1 DEF Refreshed, Member

LEMMA AfterElectionType == ASSUME TypeOK, NEW v \in Validators PROVE AfterElection(v) \in Member
<1>1. Refreshed(v) \in Member
  BY RefreshedType
<1> QED
  BY <1>1 DEF AfterElection, Member

(* Burning keeps the types. *)
LEMMA ApplyBurnType ==
    ASSUME TypeOK, NEW i \in Id, ApplyBurn(i)
    PROVE  /\ vals' \in [Validators -> Member]
           /\ active_set' \subseteq Validators
           /\ registry' \in [Id -> Record] /\ disk' \in [Id -> Record]
           /\ applied' \in Seq(Id) /\ burnt' \subseteq Id
<1>1. OffenderOf[i] \in Validators
  BY SlashingConstants
<1>2. vals[OffenderOf[i]].stake \in Nat /\ disk[i].slash \in Nat /\ registry[i] \in Record
  BY <1>1 DEF TypeOK, Member, Record
<1>3. [status |-> StatusAfterBurn(OffenderOf[i]),
       stake |-> Less(vals[OffenderOf[i]].stake, disk[i].slash)] \in Member
  BY <1>1, <1>2, LessType, StatusAfterBurnType DEF Member
<1>4. vals' \in [Validators -> Member]
  BY <1>1, <1>3 DEF ApplyBurn, TypeOK
<1>5. \A b \in BOOLEAN : [registry[i] EXCEPT !.applied = TRUE, !.jailed = b] \in Record
  BY <1>2 DEF Record
<1>6. registry[i].jailed \in BOOLEAN
  BY <1>2 DEF Record
<1>7. [registry[i] EXCEPT !.applied = TRUE,
        !.jailed = @ \/ StatusAfterBurn(OffenderOf[i]) # vals[OffenderOf[i]].status] \in Record
  BY <1>5, <1>6
<1>8. registry' \in [Id -> Record] /\ disk' \in [Id -> Record]
  BY <1>7 DEF ApplyBurn, TypeOK
<1>9. active_set' \subseteq Validators /\ applied' \in Seq(Id) /\ burnt' \subseteq Id
  BY DEF ApplyBurn, TypeOK
<1> QED
  BY <1>4, <1>8, <1>9
(* One step keeps the types. *)
LEMMA SlashingTypeStep == TypeOK /\ [Next]_vars => TypeOK'
<1> SUFFICES ASSUME TypeOK, [Next]_vars PROVE TypeOK'
  OBVIOUS
<1>1. ASSUME NEW i \in Id, NEW r \in Reporters, PutEvidence(i, r) PROVE TypeOK'
  BY <1>1 DEF PutEvidence, TypeOK, memory, history, bounds
<1>2. CASE SubmitEvidence
  <2>1. Submitted(cur.id, cur.reporter) \in Record /\ cur.id \in Id
    BY <1>2, SubmittedType DEF SubmitEvidence, TypeOK
  <2>2. registry' \in [Id -> Record]
    BY <1>2, <2>1 DEF SubmitEvidence, TypeOK
  <2>3. disk' \in [Id -> Record]
    BY <1>2, <2>1, <2>2 DEF SubmitEvidence, TypeOK
  <2> QED
    BY <1>2, <2>2, <2>3 DEF SubmitEvidence, TypeOK, history, bounds
<1>3. CASE BeginTick
  BY <1>3 DEF BeginTick, TypeOK, memory, history, bounds
<1>4. ASSUME NEW i \in Id, ReplayBurn(i) PROVE TypeOK'
  <2>1. ApplyBurn(i)
    BY <1>4 DEF ReplayBurn
  <2> QED
    BY <1>4, <2>1, ApplyBurnType DEF ReplayBurn, TypeOK, bounds
<1>5. ASSUME NEW i \in Id, ReplaySkip(i) PROVE TypeOK'
  <2>1. registry' \in [Id -> Record]
    <3>1. registry[i] \in Record
      BY DEF TypeOK
    <3>2. [registry[i] EXCEPT !.applied = TRUE] \in Record
      BY <3>1 DEF Record
    <3> QED
      BY <1>5, <3>2 DEF ReplaySkip, TypeOK
  <2>2. disk' \in [Id -> Record]
    BY <1>5, <2>1 DEF ReplaySkip, TypeOK
  <2> QED
    BY <1>5, <2>1, <2>2 DEF ReplaySkip, TypeOK, history, bounds
<1>6. CASE LoadReady
  BY <1>6 DEF LoadReady, TypeOK, memory, history, bounds
<1>7. ASSUME NEW i \in Id, Confirm(i) PROVE TypeOK'
  <2>1. registry' \in [Id -> Record]
    <3>1. registry[i] \in Record
      BY DEF TypeOK
    <3>2. [[registry[i] EXCEPT !.status = "Confirmed"] EXCEPT !.applied = FALSE] \in Record
      BY <3>1 DEF Record
    <3> QED
      BY <1>7, <3>2 DEF Confirm, TypeOK
  <2>2. disk' \in [Id -> Record]
    BY <1>7, <2>1 DEF Confirm, TypeOK
  <2> QED
    BY <1>7, <2>1, <2>2 DEF Confirm, TypeOK, history, bounds
<1>8. CASE Burn
  <2>1. cur.id \in Id /\ ApplyBurn(cur.id)
    BY <1>8 DEF Burn, TypeOK
  <2> QED
    BY <1>8, <2>1, ApplyBurnType DEF Burn, TypeOK, bounds
<1>9. CASE DebitAccounts
  <2>1. \A v \in Validators : DebitedBalance(v) \in Nat
    <3> SUFFICES ASSUME NEW v \in Validators PROVE DebitedBalance(v) \in Nat
      OBVIOUS
    <3>1. \A i \in Id : Less(balance[v], disk[i].slash) \in Nat
      BY LessType DEF TypeOK, Record
    <3>2. balance[v] \in Nat
      BY DEF TypeOK
    <3> QED
      BY <3>1, <3>2 DEF DebitedBalance
  <2>2. balance' \in [Validators -> Nat]
    BY <1>9, <2>1 DEF DebitAccounts
  <2>3. debited' \in [Id -> Nat]
    BY <1>9 DEF DebitAccounts, TypeOK
  <2> QED
    BY <1>9, <2>2, <2>3 DEF DebitAccounts, TypeOK, memory, bounds
<1>10. CASE CommitBlock
  <2>1. vals' \in [Validators -> Member] /\ active_set' \subseteq Validators
    <3>1. CASE block % EpochLength = 0
      BY <1>10, <3>1, AfterElectionType DEF CommitBlock, Elected
    <3>2. CASE block % EpochLength # 0
      BY <1>10, <3>2, PresentType DEF CommitBlock, TypeOK
    <3> QED
      BY <3>1, <3>2
  <2> QED
    BY <1>10, <2>1 DEF CommitBlock, TypeOK, history, bounds
<1>11. CASE DropCandidate
  BY <1>11 DEF DropCandidate, TypeOK, memory, history, bounds
<1>12. CASE ImportBlock
  BY <1>12 DEF ImportBlock, TypeOK, memory, control, history
<1>13. ASSUME NEW i \in Id, FileAppeal(i) PROVE TypeOK'
  <2>1. registry[i] \in Record
    BY DEF TypeOK
  <2>2. [registry[i] EXCEPT !.status = "Appealed"] \in Record
    BY <2>1 DEF Record
  <2> QED
    BY <1>13, <2>2 DEF FileAppeal, TypeOK, history, bounds
<1>14. CASE PutAppeal
  BY <1>14 DEF PutAppeal, TypeOK, memory, history, bounds
<1>15. ASSUME NEW i \in Id, Overturn(i) PROVE TypeOK'
  <2>1. registry[i] \in Record /\ OffenderOf[i] \in Validators
    BY SlashingConstants DEF TypeOK
  <2>2. [registry[i] EXCEPT !.status = "Overturned"] \in Record
    BY <2>1 DEF Record
  <2>3. registry' \in [Id -> Record] /\ disk' \in [Id -> Record]
    BY <1>15, <2>2 DEF Overturn, TypeOK
  <2>4. vals' \in [Validators -> Member]
    <3> DEFINE old == vals[OffenderOf[i]]
               freed == [status |-> IF registry[i].jailed /\ old.status = "Jailed"
                                    THEN "Pending" ELSE old.status,
                         stake |-> old.stake + registry[i].slash]
               new == IF registry[i].applied /\ old.status # "Absent" THEN freed ELSE old
    <3>1. old \in Member /\ registry[i].slash \in Nat
      BY <2>1 DEF TypeOK, Record
    <3>2. freed \in Member
      BY <3>1 DEF Member
    <3>3. new \in Member
      BY <3>1, <3>2
    <3>4. vals' = [vals EXCEPT ![OffenderOf[i]] = new]
      BY <1>15 DEF Overturn
    <3> HIDE DEF new
    <3> QED
      BY <2>1, <3>3, <3>4 DEF TypeOK
  <2> QED
    BY <1>15, <2>3, <2>4 DEF Overturn, TypeOK, bounds
<1>16. CASE DeleteBond
  BY <1>16 DEF DeleteBond, TypeOK, memory, history, bounds
<1>17. CASE CrashAndRestart
  BY <1>17 DEF CrashAndRestart, TypeOK, NoMember, Member, history
<1>18. CASE UNCHANGED vars
  BY <1>18 DEF vars, memory, control, history, bounds, TypeOK
<1> QED
  BY <1>1, <1>2, <1>3, <1>4, <1>5, <1>6, <1>7, <1>8, <1>9, <1>10, <1>11, <1>12, <1>13,
     <1>14, <1>15, <1>16, <1>17, <1>18
  DEF Next, DriverStep, Environment, RoundTimesOut

LEMMA SlashingTypeInit == Init => TypeOK
  BY SlashingConstants DEF Init, TypeOK, NoRecord, Record, NoMember, Member

(* The variables of the pipeline are well formed for every configuration,  *)
(* every set of records and any number of crashes.                         *)
THEOREM SlashingTypeOK == Spec => []TypeOK
  BY SlashingTypeInit, SlashingTypeStep, PTL DEF Spec
-----------------------------------------------------------------------------
(* The inductive invariant.  The history counters say nothing about what   *)
(* the pipeline will do next; what does is the record on disk.             *)

(* Memory and disk agree on a record, but for a lost stamp.                *)
Agree(i) ==
    \/ registry[i] = disk[i]
    \/ disk[i].status = "Confirmed" /\ registry[i] = [disk[i] EXCEPT !.applied = TRUE]

(* An appeal that is only in memory, with its bond already on disk.        *)
HalfAppealed(i) ==
    /\ disk[i].status = "Pending"
    /\ registry[i] = [disk[i] EXCEPT !.status = "Appealed"]
    /\ i \in bonds

Synced ==
    \A i \in Id : IF pc = "appeal" /\ cur.id = i THEN HalfAppealed(i) ELSE Agree(i)

(* Only a Confirmed record is stamped, and only past its window.           *)
StampedIsConfirmed == \A i \in Id : disk[i].applied => disk[i].status = "Confirmed"

ConfirmedPastWindow ==
    /\ block <= height + 1
    /\ \A i \in Id : disk[i].status = "Confirmed" => height >= disk[i].deadline

(* What is about to be burnt is Confirmed on disk and not stamped.         *)
ToBurnIsUnstamped ==
    \A i \in Id : (pc = "replay" /\ i \in todo) \/ (pc = "burn" /\ cur.id = i) =>
        disk[i].status = "Confirmed" /\ ~ disk[i].applied

(* What was burnt is Confirmed, what was or will be debited is stamped.    *)
SpentIsStamped ==
    \A i \in Id :
        /\ i \in burnt => disk[i].status = "Confirmed"
        /\ i \in ToSet(applied) \/ debited[i] > 0 => disk[i].applied

SettledIsOverturned == pc = "settle" => disk[cur.id].status = "Overturned"

SlashingInv ==
    /\ TypeOK
    /\ Synced
    /\ StampedIsConfirmed
    /\ ConfirmedPastWindow
    /\ ToBurnIsUnstamped
    /\ SpentIsStamped
    /\ SettledIsOverturned
    /\ DebitedAtMostOnce
    /\ AppealBondKept

LEMMA SlashingInvInit == Init => SlashingInv
<1> SUFFICES ASSUME Init PROVE SlashingInv
  OBVIOUS
<1>1. TypeOK
  BY SlashingTypeInit
<1>2. \A i \in Id : registry[i] = NoRecord /\ disk[i] = NoRecord /\ debited[i] = 0
  BY DEF Init
<1>3. ToSet(applied) = {}
  BY DEF Init, ToSet
<1> QED
  BY <1>1, <1>2, <1>3 DEF Init, SlashingInv, Synced, Agree, StampedIsConfirmed, NoRecord,
     ConfirmedPastWindow, ToBurnIsUnstamped, SpentIsStamped, SettledIsOverturned,
     DebitedAtMostOnce, AppealBondKept

(* Outside an appeal, a record that is not Confirmed is the same on disk. *)
LEMMA OpenRecordOnDisk ==
    ASSUME SlashingInv, pc # "appeal", NEW i \in Id, registry[i].status # "Confirmed"
    PROVE  registry[i] = disk[i]
<1>1. disk[i] \in Record
  BY DEF SlashingInv, TypeOK
<1>2. Agree(i)
  BY DEF SlashingInv, Synced
<1>3. disk[i].status = "Confirmed" => [disk[i] EXCEPT !.applied = TRUE].status = "Confirmed"
  BY <1>1 DEF Record
<1> QED
  BY <1>2, <1>3 DEF Agree

(* Steps that leave the records alone, in memory and on disk, and neither  *)
(* burn nor debit.                                                         *)
LEMMA QuietStep ==
    ASSUME SlashingInv, TypeOK', UNCHANGED <<registry, disk, burnt, debited>>,
           applied' = applied, bonds' = bonds,
           (pc = "appeal" \/ pc' \in {"appeal", "burn", "settle"}) => UNCHANGED <<pc, cur>>,
           height <= height', block' <= height' + 1,
           ToBurnIsUnstamped'
    PROVE  SlashingInv'
<1>1. Synced'
  BY DEF SlashingInv, Synced, Agree, HalfAppealed
<1>2. ConfirmedPastWindow'
  <2>1. \A i \in Id : disk[i].deadline \in Nat
    BY DEF SlashingInv, TypeOK, Record
  <2>2. height \in Nat /\ height' \in Nat
    BY DEF SlashingInv, TypeOK
  <2>3. \A i \in Id : disk[i].status = "Confirmed" => height' >= disk[i].deadline
    BY <2>1, <2>2 DEF SlashingInv, ConfirmedPastWindow
  <2> QED
    BY <2>3 DEF ConfirmedPastWindow
<1>3. SpentIsStamped' /\ StampedIsConfirmed' /\ SettledIsOverturned'
  BY DEF SlashingInv, SpentIsStamped, StampedIsConfirmed, SettledIsOverturned
<1>4. DebitedAtMostOnce' /\ AppealBondKept'
  BY DEF SlashingInv, DebitedAtMostOnce, AppealBondKept
<1> QED
  BY <1>1, <1>2, <1>3, <1>4 DEF SlashingInv

(* A burn: the record is stamped in memory and on disk and put on the list *)
(* of debits.  It was not there before, and was never debited.             *)
LEMMA BurnStep ==
    ASSUME SlashingInv, TypeOK', NEW i \in Id, ApplyBurn(i),
           disk[i].status = "Confirmed", ~ disk[i].applied,
           pc \in {"replay", "burn"}, pc' \in {"replay", "finalize"},
           UNCHANGED <<bonds, height, block, debited>>,
           pc' = "replay" => pc = "replay" /\ todo' = todo \ {i}
    PROVE  SlashingInv'
<1> DEFINE stamped == disk'[i]
<1>1. /\ registry[i] \in Record /\ disk[i] \in Record
      /\ registry[i] = disk[i] \/ registry[i] = [disk[i] EXCEPT !.applied = TRUE]
  BY DEF SlashingInv, TypeOK, Synced, Agree, HalfAppealed
<1>2. /\ stamped = registry'[i]
      /\ stamped.applied = TRUE /\ stamped.status = "Confirmed"
      /\ stamped.deadline = disk[i].deadline
  <2>1. PICK b : /\ registry' = [registry EXCEPT ![i] =
                       [registry[i] EXCEPT !.applied = TRUE, !.jailed = b]]
                 /\ disk' = [disk EXCEPT ![i] =
                       [registry[i] EXCEPT !.applied = TRUE, !.jailed = b]]
    BY DEF ApplyBurn
  <2>2. stamped = [registry[i] EXCEPT !.applied = TRUE, !.jailed = b] /\ stamped = registry'[i]
    BY <2>1 DEF SlashingInv, TypeOK
  <2>3. registry[i].status = "Confirmed" /\ registry[i].deadline = disk[i].deadline
    BY <1>1 DEF Record
  <2> HIDE DEF stamped
  <2> QED
    BY <1>1, <2>2, <2>3 DEF Record
<1>3. \A j \in Id \ {i} : registry'[j] = registry[j] /\ disk'[j] = disk[j]
  BY DEF ApplyBurn, SlashingInv, TypeOK
<1>4. Synced'
  BY <1>2, <1>3 DEF SlashingInv, Synced, Agree, HalfAppealed
<1>5. StampedIsConfirmed' /\ ConfirmedPastWindow' /\ AppealBondKept'
  BY <1>2, <1>3 DEF SlashingInv, StampedIsConfirmed, ConfirmedPastWindow, AppealBondKept
<1>6. ToBurnIsUnstamped'
  BY <1>2, <1>3 DEF SlashingInv, ToBurnIsUnstamped
<1>7. /\ i \notin ToSet(applied) /\ debited[i] = 0
      /\ ToSet(applied') = ToSet(applied) \cup {i}
  <2>1. i \notin ToSet(applied) /\ ~ (debited[i] > 0) /\ debited[i] \in Nat
    BY DEF SlashingInv, SpentIsStamped, TypeOK
  <2>2. applied \in Seq(Id) /\ applied' = Append(applied, i)
    BY DEF SlashingInv, TypeOK, ApplyBurn
  <2>3. ToSet(applied') = ToSet(applied) \cup {i}
    BY <2>2 DEF ToSet
  <2> QED
    BY <2>1, <2>3
<1>8. SpentIsStamped'
  BY <1>2, <1>3, <1>7 DEF SlashingInv, SpentIsStamped, ApplyBurn
<1>9. DebitedAtMostOnce'
  BY <1>7 DEF SlashingInv, DebitedAtMostOnce
<1>10. SettledIsOverturned'
  BY DEF SettledIsOverturned
<1> QED
  BY <1>4, <1>5, <1>6, <1>8, <1>9, <1>10 DEF SlashingInv

(* A step that rewrites one record that was never stamped, and burns and   *)
(* debits nothing.                                                         *)
LEMMA RewriteStep ==
    ASSUME SlashingInv, TypeOK', NEW i \in Id,
           \A j \in Id \ {i} : registry'[j] = registry[j] /\ disk'[j] = disk[j],
           disk[i].status # "Confirmed",
           UNCHANGED <<burnt, debited, applied, height, block>>,
           ~ disk'[i].applied,
           disk'[i].status = "Confirmed" => height >= disk'[i].deadline,
           disk'[i].status = "Appealed" => i \in bonds',
           \A j \in Id \ {i} : j \in bonds => j \in bonds',
           Synced', ToBurnIsUnstamped', SettledIsOverturned'
    PROVE  SlashingInv'
<1>1. i \notin burnt /\ i \notin ToSet(applied) /\ ~ (debited[i] > 0)
  BY DEF SlashingInv, SpentIsStamped, StampedIsConfirmed
<1>2. SpentIsStamped'
  BY <1>1 DEF SlashingInv, SpentIsStamped
<1>3. StampedIsConfirmed' /\ ConfirmedPastWindow' /\ AppealBondKept'
  BY DEF SlashingInv, StampedIsConfirmed, ConfirmedPastWindow, AppealBondKept
<1>4. DebitedAtMostOnce'
  BY DEF SlashingInv, DebitedAtMostOnce
<1> QED
  BY <1>2, <1>3, <1>4 DEF SlashingInv

(* Every step keeps the invariant. *)
LEMMA SlashingInvStep == SlashingInv /\ [Next]_vars => SlashingInv'
<1> SUFFICES ASSUME SlashingInv, [Next]_vars PROVE SlashingInv'
  OBVIOUS
<1> USE SlashingConstants
<1>a. TypeOK /\ TypeOK'
  BY SlashingTypeStep DEF SlashingInv
<1>b. \A i \in Id : /\ registry[i] \in Record /\ disk[i] \in Record
                    /\ registry'[i] \in Record /\ disk'[i] \in Record
  BY <1>a DEF TypeOK
<1>c. height \in Nat /\ block \in Nat /\ block <= height + 1
  BY <1>a DEF TypeOK, SlashingInv, ConfirmedPastWindow
<1>1. ASSUME NEW i \in Id, NEW r \in Reporters, PutEvidence(i, r) PROVE SlashingInv'
  <2>1. ToBurnIsUnstamped'
    BY <1>1 DEF PutEvidence, ToBurnIsUnstamped
  <2> QED
    BY <1>1, <1>a, <1>c, <2>1, QuietStep DEF PutEvidence, memory, history
<1>2. CASE SubmitEvidence
  <2> DEFINE i == cur.id
             new == Submitted(cur.id, cur.reporter)
  <2>1. i \in Id /\ pc = "submit" /\ pc' = "idle"
    BY <1>2, <1>a DEF SubmitEvidence, TypeOK
  <2>2. /\ registry'[i] = new
        /\ \A j \in Id \ {i} : registry'[j] = registry[j] /\ disk'[j] = disk[j]
    BY <1>2, <1>a, <2>1 DEF SubmitEvidence, TypeOK
  <2>3. CASE registry' = registry
    <3>1. ToBurnIsUnstamped'
      BY <2>1 DEF ToBurnIsUnstamped
    <3> QED
      BY <1>2, <1>a, <1>c, <2>1, <2>3, <3>1, QuietStep DEF SubmitEvidence, history
  <2>4. CASE registry' # registry
    <3>1. disk'[i] = new
      BY <1>2, <1>a, <2>1, <2>2, <2>4 DEF SubmitEvidence, TypeOK
    <3>2. registry[i].status \in {"Absent", "Pending"}
      BY <1>2, <1>a, <2>1, <2>4 DEF SubmitEvidence, Submitted, TypeOK
    <3>3. registry[i] = disk[i]
      BY <2>1, <3>2, OpenRecordOnDisk
    <3>4. ~ registry[i].applied
      BY <2>1, <3>2, <3>3 DEF SlashingInv, StampedIsConfirmed
    <3>5. new.status = "Pending" /\ ~ new.applied
      <4>1. CASE registry[i].status = "Absent"
        BY <4>1 DEF Submitted, NewRecord
      <4>2. CASE registry[i].status = "Pending"
        BY <4>2, <2>1, <3>4, <1>b DEF Submitted, Record
      <4> QED
        BY <3>2, <4>1, <4>2
    <3>6. Synced'
      BY <2>1, <2>2, <3>1 DEF SlashingInv, Synced, Agree, HalfAppealed
    <3>7. ToBurnIsUnstamped' /\ SettledIsOverturned'
      BY <2>1 DEF ToBurnIsUnstamped, SettledIsOverturned
    <3>8. UNCHANGED <<burnt, debited, applied, height, block, bonds>>
      BY <1>2 DEF SubmitEvidence, history
    <3> HIDE DEF new, i
    <3> QED
      BY <1>a, <2>1, <2>2, <3>1, <3>2, <3>3, <3>5, <3>6, <3>7, <3>8, RewriteStep
  <2> QED
    BY <2>3, <2>4
<1>3. CASE BeginTick
  <2>1. ToBurnIsUnstamped'
    BY <1>3 DEF BeginTick, ToBurnIsUnstamped
  <2>2. height' = height /\ block' = height + 1
    BY <1>3 DEF BeginTick
  <2> QED
    BY <1>3, <1>a, <1>c, <2>1, <2>2, QuietStep DEF BeginTick, memory, history
<1>4. ASSUME NEW i \in Id, ReplayBurn(i) PROVE SlashingInv'
  <2>1. disk[i].status = "Confirmed" /\ ~ disk[i].applied
    BY <1>4 DEF ReplayBurn, SlashingInv, ToBurnIsUnstamped
  <2> QED
    BY <1>4, <1>a, <2>1, BurnStep DEF ReplayBurn
<1>5. ASSUME NEW i \in Id, ReplaySkip(i) PROVE SlashingInv'
  <2>1. disk[i].status = "Confirmed" /\ ~ disk[i].applied /\ pc = "replay"
    BY <1>5 DEF ReplaySkip, SlashingInv, ToBurnIsUnstamped
  <2>2. registry'[i] = [disk[i] EXCEPT !.applied = TRUE]
    <3>1. registry[i] = disk[i] \/ registry[i] = [disk[i] EXCEPT !.applied = TRUE]
      BY <2>1 DEF SlashingInv, Synced, Agree, HalfAppealed
    <3>2. registry'[i] = [registry[i] EXCEPT !.applied = TRUE]
      BY <1>5, <1>a DEF ReplaySkip, TypeOK
    <3> QED
      BY <3>1, <3>2, <1>b DEF Record
  <2>3. /\ disk'[i] = disk[i] \/ disk'[i] = registry'[i]
        /\ \A j \in Id \ {i} : registry'[j] = registry[j] /\ disk'[j] = disk[j]
    BY <1>5, <1>a DEF ReplaySkip, TypeOK
  <2>4. disk'[i].status = "Confirmed" /\ disk'[i].deadline = disk[i].deadline
    BY <2>1, <2>2, <2>3, <1>b DEF Record
  <2>5. UNCHANGED <<pc, bonds, burnt, debited, applied, height, block, cur>> /\ todo' = todo \ {i}
    BY <1>5 DEF ReplaySkip, history
  <2>6. Synced'
    <3>1. \A j \in Id : Agree(j)
      BY <2>1 DEF SlashingInv, Synced
    <3>2. Agree(i)'
      BY <2>1, <2>2, <2>3 DEF Agree
    <3>3. \A j \in Id \ {i} : Agree(j)'
      BY <2>3, <3>1 DEF Agree
    <3> QED
      BY <2>1, <2>5, <3>2, <3>3 DEF Synced
  <2>7. ToBurnIsUnstamped' /\ SettledIsOverturned'
    BY <2>1, <2>3, <2>5 DEF SlashingInv, ToBurnIsUnstamped, SettledIsOverturned
  <2>8. SpentIsStamped' /\ StampedIsConfirmed'
    BY <2>1, <2>3, <2>4, <2>5 DEF SlashingInv, SpentIsStamped, StampedIsConfirmed
  <2>9. ConfirmedPastWindow' /\ AppealBondKept' /\ DebitedAtMostOnce'
    BY <2>1, <2>3, <2>4, <2>5
    DEF SlashingInv, ConfirmedPastWindow, AppealBondKept, DebitedAtMostOnce
  <2> QED
    BY <1>a, <2>6, <2>7, <2>8, <2>9 DEF SlashingInv
<1>6. CASE LoadReady
  <2>1. ToBurnIsUnstamped'
    BY <1>6 DEF LoadReady, ToBurnIsUnstamped
  <2> QED
    BY <1>6, <1>a, <1>c, <2>1, QuietStep DEF LoadReady, memory, history
<1>7. ASSUME NEW i \in Id, Confirm(i) PROVE SlashingInv'
  <2>1. registry[i].status = "Pending" /\ block > registry[i].deadline
    BY <1>7 DEF Confirm, Finalizable, WindowOver
  <2>2. registry[i] = disk[i]
    BY <1>7, <2>1, OpenRecordOnDisk DEF Confirm
  <2>3. /\ registry'[i] = [[registry[i] EXCEPT !.status = "Confirmed"] EXCEPT !.applied = FALSE]
        /\ disk'[i] = registry'[i]
        /\ \A j \in Id \ {i} : registry'[j] = registry[j] /\ disk'[j] = disk[j]
    BY <1>7, <1>a DEF Confirm, TypeOK
  <2>4. /\ disk'[i].status = "Confirmed" /\ ~ disk'[i].applied
        /\ disk'[i].deadline = disk[i].deadline /\ disk[i].deadline \in Nat
    BY <2>2, <2>3, <1>b DEF Record
  <2>5. height >= disk'[i].deadline
    BY <1>c, <2>1, <2>2, <2>4
  <2>6. UNCHANGED <<bonds, burnt, debited, applied, height, block>>
        /\ pc = "finalize" /\ pc' = "burn" /\ cur'.id = i
    BY <1>7 DEF Confirm, history
  <2>7. Synced'
    BY <2>3, <2>6 DEF SlashingInv, Synced, Agree, HalfAppealed
  <2>8. ToBurnIsUnstamped' /\ SettledIsOverturned'
    BY <2>4, <2>6 DEF ToBurnIsUnstamped, SettledIsOverturned
  <2> QED
    BY <1>a, <2>1, <2>2, <2>3, <2>4, <2>5, <2>6, <2>7, <2>8, RewriteStep
<1>8. CASE Burn
  <2>1. /\ cur.id \in Id /\ disk[cur.id].status = "Confirmed" /\ ~ disk[cur.id].applied
    BY <1>8, <1>a DEF Burn, TypeOK, SlashingInv, ToBurnIsUnstamped
  <2> QED
    BY <1>8, <1>a, <2>1, BurnStep DEF Burn
<1>9. CASE DebitAccounts
  <2>1. \A i \in Id : LastDebit(i) => i \in ToSet(applied)
    BY DEF LastDebit, ToSet
  <2>2. \A i \in Id : /\ debited[i] \in Nat
                      /\ debited'[i] = IF LastDebit(i) THEN debited[i] + 1 ELSE debited[i]
    BY <1>9, <1>a DEF DebitAccounts, TypeOK
  <2>3. ToSet(applied') = {}
    BY <1>9 DEF DebitAccounts, ToSet
  <2>4. /\ UNCHANGED <<registry, disk, bonds, burnt, height, block, cur>>
        /\ pc = "finalize" /\ pc' = "execute"
    BY <1>9 DEF DebitAccounts, memory
  <2>5. DebitedAtMostOnce'
    BY <2>1, <2>2, <2>3 DEF SlashingInv, DebitedAtMostOnce
  <2>6. SpentIsStamped'
    BY <2>1, <2>2, <2>3, <2>4 DEF SlashingInv, SpentIsStamped
  <2>7. Synced' /\ ToBurnIsUnstamped' /\ SettledIsOverturned'
    BY <2>4 DEF SlashingInv, Synced, Agree, HalfAppealed, ToBurnIsUnstamped, SettledIsOverturned
  <2>8. StampedIsConfirmed' /\ ConfirmedPastWindow' /\ AppealBondKept'
    BY <2>4 DEF SlashingInv, StampedIsConfirmed, ConfirmedPastWindow, AppealBondKept
  <2> QED
    BY <1>a, <2>5, <2>6, <2>7, <2>8 DEF SlashingInv
<1>10. CASE CommitBlock
  <2>1. ToBurnIsUnstamped'
    BY <1>10 DEF CommitBlock, ToBurnIsUnstamped
  <2>2. height <= height' /\ block' <= height' + 1
    BY <1>10, <1>c DEF CommitBlock
  <2> QED
    BY <1>10, <1>a, <2>1, <2>2, QuietStep DEF CommitBlock, history
<1>11. CASE DropCandidate
  <2>1. ToBurnIsUnstamped'
    BY <1>11 DEF DropCandidate, ToBurnIsUnstamped
  <2> QED
    BY <1>11, <1>a, <1>c, <2>1, QuietStep DEF DropCandidate, memory, history
<1>12. CASE ImportBlock
  <2>1. ToBurnIsUnstamped'
    BY <1>12 DEF ImportBlock, control, SlashingInv, ToBurnIsUnstamped
  <2>2. height <= height' /\ block' <= height' + 1
    BY <1>12, <1>c DEF ImportBlock, control
  <2> QED
    BY <1>12, <1>a, <2>1, <2>2, QuietStep DEF ImportBlock, memory, control, history
<1>13. ASSUME NEW i \in Id, FileAppeal(i) PROVE SlashingInv'
  <2>1. /\ registry[i].status = "Pending" /\ pc = "execute" /\ pc' = "appeal" /\ cur'.id = i
        /\ bonds' = bonds \cup {i}
        /\ UNCHANGED <<disk, burnt, debited, applied, height, block>>
    BY <1>13 DEF FileAppeal, history
  <2>2. registry[i] = disk[i]
    BY <2>1, OpenRecordOnDisk
  <2>3. /\ registry'[i] = [registry[i] EXCEPT !.status = "Appealed"]
        /\ \A j \in Id \ {i} : registry'[j] = registry[j] /\ disk'[j] = disk[j]
    BY <1>13, <1>a DEF FileAppeal, TypeOK
  <2>4. ~ disk'[i].applied
    BY <2>1, <2>2 DEF SlashingInv, StampedIsConfirmed
  <2>5. Synced'
    BY <2>1, <2>2, <2>3 DEF SlashingInv, Synced, Agree, HalfAppealed
  <2>6. ToBurnIsUnstamped' /\ SettledIsOverturned'
    BY <2>1 DEF ToBurnIsUnstamped, SettledIsOverturned
  <2> QED
    BY <1>a, <2>1, <2>2, <2>3, <2>4, <2>5, <2>6, RewriteStep
<1>14. CASE PutAppeal
  <2> DEFINE i == cur.id
  <2>1. /\ i \in Id /\ pc = "appeal" /\ pc' = "execute"
        /\ UNCHANGED <<registry, bonds, burnt, debited, applied, height, block>>
    BY <1>14, <1>a DEF PutAppeal, TypeOK, memory, history
  <2>2. /\ disk'[i] = registry[i]
        /\ \A j \in Id \ {i} : registry'[j] = registry[j] /\ disk'[j] = disk[j]
    BY <1>14, <1>a, <2>1 DEF PutAppeal, TypeOK, memory
  <2>3. HalfAppealed(i)
    BY <2>1 DEF SlashingInv, Synced
  <2>4. disk'[i].status = "Appealed" /\ ~ disk'[i].applied
    <3>1. ~ disk[i].applied
      BY <2>1, <2>3 DEF SlashingInv, StampedIsConfirmed, HalfAppealed
    <3> QED
      BY <2>1, <2>2, <2>3, <3>1, <1>b DEF Record, HalfAppealed
  <2>5. Synced'
    BY <2>1, <2>2 DEF SlashingInv, Synced, Agree
  <2>6. ToBurnIsUnstamped' /\ SettledIsOverturned'
    BY <2>1 DEF ToBurnIsUnstamped, SettledIsOverturned
  <2>7. disk[i].status # "Confirmed" /\ i \in bonds'
    BY <2>1, <2>3 DEF HalfAppealed
  <2> HIDE DEF i
  <2> QED
    BY <1>a, <2>1, <2>2, <2>4, <2>5, <2>6, <2>7, RewriteStep
<1>15. ASSUME NEW i \in Id, Overturn(i) PROVE SlashingInv'
  <2>1. /\ registry[i].status = "Appealed" /\ pc = "idle" /\ pc' = "settle" /\ cur'.id = i
        /\ UNCHANGED <<bonds, burnt, debited, applied, height, block>>
    BY <1>15 DEF Overturn
  <2>2. registry[i] = disk[i]
    BY <2>1, OpenRecordOnDisk
  <2>3. /\ registry'[i] = [registry[i] EXCEPT !.status = "Overturned"]
        /\ disk'[i] = registry'[i]
        /\ \A j \in Id \ {i} : registry'[j] = registry[j] /\ disk'[j] = disk[j]
    BY <1>15, <1>a DEF Overturn, TypeOK
  <2>4. disk'[i].status = "Overturned" /\ ~ disk'[i].applied
    <3>1. ~ disk[i].applied
      BY <2>1, <2>2 DEF SlashingInv, StampedIsConfirmed
    <3> QED
      BY <2>2, <2>3, <3>1, <1>b DEF Record
  <2>5. Synced'
    <3>1. \A j \in Id : Agree(j)
      BY <2>1 DEF SlashingInv, Synced
    <3>2. \A j \in Id : Agree(j)'
      BY <2>3, <3>1 DEF Agree
    <3> QED
      BY <2>1, <3>2 DEF Synced
  <2>6. ToBurnIsUnstamped' /\ SettledIsOverturned'
    BY <2>1, <2>4 DEF ToBurnIsUnstamped, SettledIsOverturned
  <2> QED
    BY <1>a, <2>1, <2>2, <2>3, <2>4, <2>5, <2>6, RewriteStep
<1>16. CASE DeleteBond
  <2>1. /\ cur.id \in Id /\ disk[cur.id].status = "Overturned" /\ pc = "settle" /\ pc' = "idle"
        /\ bonds' = bonds \ {cur.id}
        /\ UNCHANGED <<registry, disk, burnt, debited, applied, height, block>>
    BY <1>16, <1>a DEF DeleteBond, TypeOK, SlashingInv, SettledIsOverturned, memory, history
  <2>2. ~ disk[cur.id].applied
    BY <2>1 DEF SlashingInv, StampedIsConfirmed
  <2>3. Synced' /\ ToBurnIsUnstamped' /\ SettledIsOverturned'
    BY <2>1 DEF SlashingInv, Synced, Agree, HalfAppealed, ToBurnIsUnstamped, SettledIsOverturned
  <2> QED
    BY <1>a, <2>1, <2>2, <2>3, RewriteStep
<1>17. CASE CrashAndRestart
  <2>1. /\ registry' = disk /\ pc' = "idle" /\ ToSet(applied') = {} /\ block' = 0
        /\ UNCHANGED <<disk, bonds, burnt, debited, height>>
    BY <1>17 DEF CrashAndRestart, history, ToSet
  <2>2. Synced' /\ ToBurnIsUnstamped' /\ SettledIsOverturned'
    BY <2>1 DEF SlashingInv, Synced, Agree, ToBurnIsUnstamped, SettledIsOverturned
  <2>3. SpentIsStamped' /\ StampedIsConfirmed' /\ AppealBondKept'
    BY <2>1 DEF SlashingInv, SpentIsStamped, StampedIsConfirmed, AppealBondKept
  <2>4. ConfirmedPastWindow'
    BY <2>1, <1>c DEF SlashingInv, ConfirmedPastWindow
  <2>5. DebitedAtMostOnce'
    <3>1. \A i \in Id : debited[i] \in Nat
      BY <1>a DEF TypeOK
    <3> QED
      BY <2>1, <3>1 DEF SlashingInv, DebitedAtMostOnce
  <2> QED
    BY <1>a, <2>2, <2>3, <2>4, <2>5 DEF SlashingInv
<1>18. CASE UNCHANGED vars
  <2>1. ToBurnIsUnstamped'
    BY <1>18 DEF vars, control, SlashingInv, ToBurnIsUnstamped
  <2> QED
    BY <1>18, <1>a, <1>c, <2>1, QuietStep DEF vars, memory, control, history
<1> QED
  BY <1>1, <1>2, <1>3, <1>4, <1>5, <1>6, <1>7, <1>8, <1>9, <1>10, <1>11, <1>12, <1>13,
     <1>14, <1>15, <1>16, <1>17, <1>18
  DEF Next, DriverStep, Environment, RoundTimesOut

LEMMA SlashingInvariant == Spec => []SlashingInv
  BY SlashingInvInit, SlashingInvStep, PTL DEF Spec

(* Crashes between the Confirmed write, the burn, the stamp and the debit,  *)
(* replays and dropped candidates never make tick_finalize and do_commit   *)
(* debit one record twice.                                                 *)
THEOREM SlashingDebitedAtMostOnce == Spec => []DebitedAtMostOnce
<1>1. SlashingInv => DebitedAtMostOnce
  BY DEF SlashingInv
<1> QED
  BY <1>1, SlashingInvariant, PTL

(* finalize_slash burns only what is past its appeal window, and what was  *)
(* burnt or debited stays Confirmed on disk.                               *)
THEOREM SlashingBurntOnlyAfterWindow == Spec => []BurntOnlyAfterWindow
<1>1. SlashingInv => BurntOnlyAfterWindow
  BY DEF SlashingInv, BurntOnlyAfterWindow, SpentIsStamped, StampedIsConfirmed,
         ConfirmedPastWindow
<1> QED
  BY <1>1, SlashingInvariant, PTL

(* Between two handlers a restart would read back from the disk what is in *)
(* memory, but for the stamp of a skipped record (put_record).             *)
THEOREM SlashingRegistryIsOnDisk == Spec => []RegistryIsOnDisk
<1>1. SlashingInv => RegistryIsOnDisk
  BY DEF SlashingInv, RegistryIsOnDisk, Synced, Agree
<1> QED
  BY <1>1, SlashingInvariant, PTL

(* An appeal on disk has its bond on disk (dispatch_file_appeal_tx,        *)
(* overturn_and_refund).                                                   *)
THEOREM SlashingAppealBondKept == Spec => []AppealBondKept
<1>1. SlashingInv => AppealBondKept
  BY DEF SlashingInv
<1> QED
  BY <1>1, SlashingInvariant, PTL

(* A record on disk keeps its terms and moves forward, or not at all. *)
MovesForward(i) ==
    disk[i].status # "Absent" =>
        /\ disk'[i].slash = disk[i].slash
        /\ disk'[i].deadline = disk[i].deadline
        /\ disk[i].reporters \subseteq disk'[i].reporters
        /\ disk[i].applied => disk'[i].applied
        /\ <<disk[i].status, disk'[i].status>> \in
               {<<"Pending", "Appealed">>, <<"Pending", "Confirmed">>,
                <<"Appealed", "Overturned">>} \cup {<<disk[i].status, disk[i].status>>}

LEMMA UnchangedMovesForward == ASSUME NEW i \in Id, disk'[i] = disk[i] PROVE MovesForward(i)
  BY DEF MovesForward

(* A burn changes the stamp and jailed_by_slash of one record. *)
LEMMA BurnMovesForward ==
    ASSUME SlashingInv, NEW j \in Id, ApplyBurn(j), disk[j].status = "Confirmed",
           pc # "appeal", NEW i \in Id
    PROVE  MovesForward(i)
<1>1. CASE i # j
  <2>1. disk'[i] = disk[i]
    BY <1>1 DEF ApplyBurn, SlashingInv, TypeOK
  <2> QED
    BY <2>1, UnchangedMovesForward
<1>2. CASE i = j
  <2>1. /\ registry[i] \in Record /\ disk[i] \in Record
        /\ registry[i] = disk[i] \/ registry[i] = [disk[i] EXCEPT !.applied = TRUE]
    BY DEF SlashingInv, TypeOK, Synced, Agree
  <2>2. PICK b : disk' = [disk EXCEPT ![i] = [registry[i] EXCEPT !.applied = TRUE, !.jailed = b]]
    BY <1>2 DEF ApplyBurn
  <2>3. disk'[i] = [registry[i] EXCEPT !.applied = TRUE, !.jailed = b]
    BY <2>2 DEF SlashingInv, TypeOK
  <2>4. /\ registry[i].slash = disk[i].slash /\ registry[i].deadline = disk[i].deadline
        /\ registry[i].reporters = disk[i].reporters /\ registry[i].status = disk[i].status
    BY <2>1 DEF Record
  <2>5. /\ disk'[i].slash = registry[i].slash /\ disk'[i].deadline = registry[i].deadline
        /\ disk'[i].reporters = registry[i].reporters /\ disk'[i].status = registry[i].status
        /\ disk'[i].applied = TRUE
    BY <2>1, <2>3 DEF Record
  <2> QED
    BY <2>4, <2>5 DEF MovesForward
<1> QED
  BY <1>1, <1>2

(* A record rewritten with another status. *)
LEMMA StatusMovesForward ==
    ASSUME NEW i \in Id, disk[i] \in Record, NEW to, NEW a \in BOOLEAN,
           disk'[i] = [[disk[i] EXCEPT !.status = to] EXCEPT !.applied = a],
           disk[i].applied => a,
           <<disk[i].status, to>> \in {<<"Pending", "Appealed">>, <<"Pending", "Confirmed">>,
               <<"Appealed", "Overturned">>, <<"Confirmed", "Confirmed">>}
    PROVE  MovesForward(i)
<1>1. /\ disk'[i].status = to /\ disk'[i].slash = disk[i].slash
      /\ disk'[i].deadline = disk[i].deadline /\ disk'[i].reporters = disk[i].reporters
      /\ disk'[i].applied = a
  BY DEF Record
<1> QED
  BY <1>1 DEF MovesForward

LEMMA LifecycleStep ==
    ASSUME SlashingInv, [Next]_vars, NEW i \in Id PROVE MovesForward(i)
<1>a. registry[i] \in Record /\ disk[i] \in Record /\ registry \in [Id -> Record]
      /\ disk \in [Id -> Record]
  BY DEF SlashingInv, TypeOK
<1>b. disk[i].status # "Confirmed" => ~ disk[i].applied
  BY DEF SlashingInv, StampedIsConfirmed
<1>1. CASE disk' = disk
  BY <1>1, UnchangedMovesForward
<1>2. CASE SubmitEvidence
  <2>1. pc = "submit" /\ cur.id \in Id
    BY <1>2 DEF SubmitEvidence, SlashingInv, TypeOK
  <2>2. CASE i # cur.id \/ registry' = registry
    <3>1. disk'[i] = disk[i]
      BY <1>2, <1>a, <2>1, <2>2 DEF SubmitEvidence
    <3> QED
      BY <3>1, UnchangedMovesForward
  <2>3. CASE i = cur.id /\ registry' # registry
    <3>1. disk'[i] = Submitted(i, cur.reporter) /\ registry[i].status \in {"Absent", "Pending"}
      BY <1>2, <1>a, <2>1, <2>3 DEF SubmitEvidence, Submitted
    <3>2. registry[i] = disk[i]
      BY <2>1, <3>1, OpenRecordOnDisk
    <3>3. CASE disk[i].status = "Pending"
      <4>1. disk'[i] = [disk[i] EXCEPT !.reporters = @ \cup {cur.reporter}]
        BY <3>1, <3>2, <3>3 DEF Submitted
      <4>2. /\ disk'[i].slash = disk[i].slash /\ disk'[i].deadline = disk[i].deadline
            /\ disk'[i].reporters = disk[i].reporters \cup {cur.reporter}
            /\ disk'[i].applied = disk[i].applied /\ disk'[i].status = disk[i].status
        BY <4>1, <1>a DEF Record
      <4> QED
        BY <4>2 DEF MovesForward
    <3>4. CASE disk[i].status = "Absent"
      BY <3>4 DEF MovesForward
    <3> QED
      BY <3>1, <3>2, <3>3, <3>4
  <2> QED
    BY <2>2, <2>3
<1>3. ASSUME NEW j \in Id, ReplayBurn(j) PROVE MovesForward(i)
  <2>1. disk[j].status = "Confirmed" /\ ApplyBurn(j) /\ pc # "appeal"
    BY <1>3 DEF ReplayBurn, SlashingInv, ToBurnIsUnstamped
  <2> QED
    BY <2>1, BurnMovesForward
<1>4. CASE Burn
  <2>1. cur.id \in Id /\ disk[cur.id].status = "Confirmed" /\ ApplyBurn(cur.id) /\ pc # "appeal"
    BY <1>4 DEF Burn, SlashingInv, ToBurnIsUnstamped, TypeOK
  <2> QED
    BY <2>1, BurnMovesForward
<1>5. ASSUME NEW j \in Id, ReplaySkip(j), disk' # disk PROVE MovesForward(i)
  <2>1. CASE i # j
    <3>1. disk'[i] = disk[i]
      BY <1>5, <1>a, <2>1 DEF ReplaySkip
    <3> QED
      BY <3>1, UnchangedMovesForward
  <2>2. CASE i = j
    <3>1. disk[i].status = "Confirmed" /\ pc = "replay"
      BY <1>5, <2>2 DEF ReplaySkip, SlashingInv, ToBurnIsUnstamped
    <3>2. registry[i] = disk[i] \/ registry[i] = [disk[i] EXCEPT !.applied = TRUE]
      BY <3>1 DEF SlashingInv, Synced, Agree
    <3>3. disk'[i] = [registry[i] EXCEPT !.applied = TRUE]
      BY <1>5, <1>a, <2>2 DEF ReplaySkip
    <3>4. disk'[i] = [[disk[i] EXCEPT !.status = "Confirmed"] EXCEPT !.applied = TRUE]
      BY <1>a, <3>1, <3>2, <3>3 DEF Record
    <3> QED
      BY <1>a, <3>1, <3>4, StatusMovesForward
  <2> QED
    BY <2>1, <2>2
<1>6. ASSUME NEW j \in Id, Confirm(j) PROVE MovesForward(i)
  <2>1. CASE i # j
    <3>1. disk'[i] = disk[i]
      BY <1>6, <1>a, <2>1 DEF Confirm
    <3> QED
      BY <3>1, UnchangedMovesForward
  <2>2. CASE i = j
    <3>1. registry[i].status = "Pending" /\ pc = "finalize"
      BY <1>6, <2>2 DEF Confirm, Finalizable
    <3>2. registry[i] = disk[i]
      BY <3>1, OpenRecordOnDisk
    <3>3. disk'[i] = [[disk[i] EXCEPT !.status = "Confirmed"] EXCEPT !.applied = FALSE]
      BY <1>6, <1>a, <2>2, <3>2 DEF Confirm
    <3> QED
      BY <1>a, <1>b, <3>1, <3>2, <3>3, StatusMovesForward
  <2> QED
    BY <2>1, <2>2
<1>7. CASE PutAppeal
  <2>1. pc = "appeal" /\ cur.id \in Id
    BY <1>7 DEF PutAppeal, SlashingInv, TypeOK
  <2>2. CASE i # cur.id
    <3>1. disk'[i] = disk[i]
      BY <1>7, <1>a, <2>1, <2>2 DEF PutAppeal
    <3> QED
      BY <3>1, UnchangedMovesForward
  <2>3. CASE i = cur.id
    <3>1. disk[i].status = "Pending" /\ registry[i] = [disk[i] EXCEPT !.status = "Appealed"]
      BY <2>1, <2>3 DEF SlashingInv, Synced, HalfAppealed
    <3>2. ~ disk[i].applied
      BY <3>1, <1>b
    <3>3. disk'[i] = registry[i]
      BY <1>7, <1>a, <2>1, <2>3 DEF PutAppeal
    <3>4. disk'[i] = [[disk[i] EXCEPT !.status = "Appealed"] EXCEPT !.applied = FALSE]
      BY <1>a, <3>1, <3>2, <3>3 DEF Record
    <3> QED
      BY <1>a, <3>1, <3>2, <3>4, StatusMovesForward
  <2> QED
    BY <2>2, <2>3
<1>8. ASSUME NEW j \in Id, Overturn(j) PROVE MovesForward(i)
  <2>1. CASE i # j
    <3>1. disk'[i] = disk[i]
      BY <1>8, <1>a, <2>1 DEF Overturn
    <3> QED
      BY <3>1, UnchangedMovesForward
  <2>2. CASE i = j
    <3>1. registry[i].status = "Appealed" /\ pc = "idle"
      BY <1>8, <2>2 DEF Overturn
    <3>2. registry[i] = disk[i]
      BY <3>1, OpenRecordOnDisk
    <3>3. disk'[i] = [disk[i] EXCEPT !.status = "Overturned"]
      BY <1>8, <1>a, <2>2, <3>2 DEF Overturn
    <3>4. disk'[i] = [[disk[i] EXCEPT !.status = "Overturned"] EXCEPT !.applied = FALSE]
      BY <1>a, <1>b, <3>1, <3>2, <3>3 DEF Record
    <3> QED
      BY <1>a, <1>b, <3>1, <3>2, <3>4, StatusMovesForward
  <2> QED
    BY <2>1, <2>2
<1>9. \/ disk' = disk \/ SubmitEvidence \/ Burn \/ PutAppeal
      \/ \E j \in Id : ReplayBurn(j) \/ (ReplaySkip(j) /\ disk' # disk) \/ Confirm(j) \/ Overturn(j)
  BY DEF Next, DriverStep, Environment, RoundTimesOut, vars, BeginTick, LoadReady,
     DebitAccounts, DeleteBond, CommitBlock, DropCandidate, PutEvidence, FileAppeal,
     ImportBlock, CrashAndRestart
<1> QED
  BY <1>1, <1>2, <1>3, <1>4, <1>5, <1>6, <1>7, <1>8, <1>9

(* No step of the pipeline, and no crash, resets the slashing clock: a     *)
(* record keeps its amount and deadline, loses no reporter, is confirmed   *)
(* or overturned at most once and keeps its stamp.                         *)
THEOREM SlashingLifecycle == Spec => Lifecycle
<1>1. SlashingInv /\ [Next]_vars =>
        [\A i \in Id : disk[i].status # "Absent" =>
            /\ disk'[i].slash = disk[i].slash
            /\ disk'[i].deadline = disk[i].deadline
            /\ disk[i].reporters \subseteq disk'[i].reporters
            /\ disk[i].applied => disk'[i].applied
            /\ <<disk[i].status, disk'[i].status>> \in
                   {<<"Pending", "Appealed">>, <<"Pending", "Confirmed">>,
                    <<"Appealed", "Overturned">>} \cup {<<disk[i].status, disk[i].status>>}]_vars
  BY LifecycleStep DEF MovesForward
<1> QED
  BY <1>1, SlashingInvariant, PTL DEF Spec, Lifecycle
=============================================================================
