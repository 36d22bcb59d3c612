-------------------------- MODULE SlashingPipeline --------------------------
(***************************************************************************)
(* Equivocation evidence on its way to a burnt stake, on one node: the     *)
(* slashing pipeline (crates/zbx-staking: pipeline.rs, slashing_v2.rs,     *)
(* persistence.rs), driven by do_commit (node/src/consensus.rs), with      *)
(* crashes between any two durable writes.                                 *)
(*                                                                         *)
(* The registry and the validator set live in memory; the evidence, the    *)
(* records, the bonds, the account balances and the chain head are on      *)
(* disk.  The node starts with an empty validator set and fills it from    *)
(* its configuration at the end of the first commit.  A write that fails   *)
(* panics the driver, which is a crash.  Whistleblower rewards and their   *)
(* zero-wei bonds are left out, and so is every kind of evidence but       *)
(* DoubleSign, the only one the pipeline receives.                         *)
(***************************************************************************)
EXTENDS Naturals, SequencesExt

CONSTANTS
    Validators,     \* the validators of the node's configuration
    Reporters,      \* who submits evidence
    Id,             \* record ids: hash of (offender, block, type)
    OffenderOf,     \* the offender of a record
    BlockOf,        \* the block number of the conflicting votes
    MinStake,       \* MIN_SELF_STAKE
    SlashBps,       \* base_slash_bps; correlated_slash_bps adds nothing to it,
                    \* the node registers total_validators = 0
    Window,         \* APPEAL_WINDOW_BLOCKS
    EpochLength,    \* epoch_length
    MaxHeight,      \* bound on the chain head
    MaxIngest,      \* bound on the head at which evidence still arrives
    MaxImports,     \* bound on the blocks imported from peers
    MaxCrashes      \* bound on the crashes

ASSUME SlashingConstants ==
    /\ OffenderOf \in [Id -> Validators]
    /\ BlockOf \in [Id -> Nat]
    /\ MinStake \in Nat
    /\ SlashBps \in Nat
    /\ Window \in Nat
    /\ EpochLength \in Nat \ {0}
    /\ MaxHeight \in Nat
    /\ MaxIngest \in Nat
    /\ MaxImports \in Nat
    /\ MaxCrashes \in Nat

Record ==
    [status    : {"Absent", "Pending", "Appealed", "Confirmed", "Overturned"},
     slash     : Nat,               \* final_slash_wei
     deadline  : Nat,               \* appeal_deadline
     reporters : SUBSET Reporters,  \* submitted_by and the co-witnesses
     jailed    : BOOLEAN,           \* jailed_by_slash
     applied   : BOOLEAN]           \* burn_applied

NoRecord == [status |-> "Absent", slash |-> 0, deadline |-> 0,
             reporters |-> {}, jailed |-> FALSE, applied |-> FALSE]

Member == [status : {"Absent", "Active", "Jailed", "Pending", "Tombstoned"},
           stake  : Nat]

NoMember == [status |-> "Absent", stake |-> 0]

VARIABLES
    registry,   \* SlashingRegistryV2.records, in memory
    vals,       \* ValidatorSet.validators, in memory
    active_set, \* ValidatorSet.active_set, in memory
    disk,       \* column SlashingRecords
    evidence,   \* column SlashingEvidence
    bonds,      \* column SlashingBonds: the appeal bonds
    balance,    \* the offenders' account balances, on disk
    height,     \* the chain head, on disk
    pc,         \* where the driver is
    cur,        \* the record it works on and the reporter
    todo,       \* the records the tick has loaded from disk
    applied,    \* the AppliedSlash list of the tick, a sequence of records
    block,      \* the number of the block do_commit is given
    burnt,      \* history: records whose burn ran on the validator set
    debited,    \* history: how often a record's amount left the account
    imports,
    crashes

memory == <<registry, vals, active_set>>
control == <<pc, cur, todo, applied, block>>
history == <<burnt, debited>>
bounds == <<imports, crashes>>
vars == <<memory, disk, evidence, bonds, balance, height, control, history, bounds>>

Nobody == [id |-> "none", reporter |-> "none"]

Init ==
    /\ registry = [i \in Id |-> NoRecord]
    /\ vals = [v \in Validators |-> NoMember]
    /\ active_set = {}
    /\ disk = registry
    /\ evidence = {}
    /\ bonds = {}
    /\ balance = [v \in Validators |-> MinStake]
    /\ height = 0
    /\ pc = "idle"
    /\ cur = Nobody
    /\ todo = {}
    /\ applied = <<>>
    /\ block = 0
    /\ burnt = {}
    /\ debited = [i \in Id |-> 0]
    /\ imports = 0
    /\ crashes = 0
-----------------------------------------------------------------------------
(* ingest_equivocation: the raw evidence first, then the record.           *)

SlashAmount(stake) == (stake * SlashBps) \div 10000

(* wait_for_commit reads the offender's stake before it calls the pipeline. *)
OffenderStake(v) == IF vals[v].status = "Absent" THEN MinStake ELSE vals[v].stake

PutEvidence(i, r) ==
    /\ pc = "idle"
    /\ height <= MaxIngest
    /\ evidence' = evidence \cup {i}
    /\ pc' = "submit"
    /\ cur' = [id |-> i, reporter |-> r]
    /\ UNCHANGED <<memory, disk, bonds, balance, height, todo, applied, block,
                   history, bounds>>

NewRecord(i, r) ==
    [status    |-> "Pending",
     slash     |-> SlashAmount(OffenderStake(OffenderOf[i])),
     deadline  |-> BlockOf[i] + Window,
     reporters |-> {r},
     jailed    |-> FALSE,
     applied   |-> FALSE]

(* A slip: evidence that is known starts its record afresh. *)
SubmittedAnew(i, r) == NewRecord(i, r)

(* submit_evidence: a new record, a co-witness while it is Pending, or     *)
(* nothing.                                                                *)
Submitted(i, r) ==
    CASE registry[i].status = "Absent"  -> NewRecord(i, r)
      [] registry[i].status = "Pending" -> [registry[i] EXCEPT !.reporters = @ \cup {r}]
      [] OTHER                          -> registry[i]

(* A slip: a co-witness is added in memory only. *)
SubmitEvidenceNewOnly ==
    /\ pc = "submit"
    /\ registry' = [registry EXCEPT ![cur.id] = Submitted(cur.id, cur.reporter)]
    /\ disk' = IF registry[cur.id].status = "Absent"
               THEN [disk EXCEPT ![cur.id] = registry'[cur.id]] ELSE disk
    /\ pc' = "idle"
    /\ cur' = Nobody
    /\ UNCHANGED <<vals, active_set, evidence, bonds, balance, height, todo,
                   applied, block, history, bounds>>

(* A new record and a new co-witness are written, AlreadyRecorded is not.  *)
SubmitEvidence ==
    /\ pc = "submit"
    /\ registry' = [registry EXCEPT ![cur.id] = Submitted(cur.id, cur.reporter)]
    /\ disk' = IF registry' # registry
               THEN [disk EXCEPT ![cur.id] = registry'[cur.id]] ELSE disk
    /\ pc' = "idle"
    /\ cur' = Nobody
    /\ UNCHANGED <<vals, active_set, evidence, bonds, balance, height, todo,
                   applied, block, history, bounds>>
-----------------------------------------------------------------------------
(* tick_finalize, run by do_commit on the block after the head.            *)

(* Slips: off by one, and an equality that a skipped block misses. *)
WindowOverEarly(deadline, n) == n >= deadline

WindowOverExact(deadline, n) == n = deadline + 1

(* The appeal window has closed at block n: the test of tick_finalize,     *)
(* finalize_slash and load_records_ready_to_finalize; file_appeal is for   *)
(* the blocks where it fails.                                              *)
WindowOver(deadline, n) == n > deadline

(* A slip: the stamp is not looked at. *)
BeginTickStamped ==
    /\ pc = "idle"
    /\ height < MaxHeight
    /\ block' = height + 1
    /\ todo' = {i \in Id : /\ disk[i].status = "Confirmed"
                           /\ WindowOver(disk[i].deadline, block')}
    /\ pc' = "replay"
    /\ UNCHANGED <<memory, disk, evidence, bonds, balance, height, cur, applied,
                   history, bounds>>

(* Phase 0 loads the Confirmed records whose burn is not stamped. *)
BeginTick ==
    /\ pc = "idle"
    /\ height < MaxHeight
    /\ block' = height + 1
    /\ todo' = {i \in Id : /\ disk[i].status = "Confirmed"
                           /\ ~ disk[i].applied
                           /\ WindowOver(disk[i].deadline, block')}
    /\ pc' = "replay"
    /\ UNCHANGED <<memory, disk, evidence, bonds, balance, height, cur, applied,
                   history, bounds>>

(* The replay guard: what may already have been burnt is not burnt again,  *)
(* and neither is a validator the set does not know.                       *)
AlreadySlashed(i) ==
    LET v == vals[OffenderOf[i]] IN
    \/ v.status # "Active"
    \/ v.stake < disk[i].slash

(* lifetime_confirmed_slashes >= 2 *)
ForceTombstone(v) ==
    Cardinality({i \in Id : registry[i].status = "Confirmed" /\ OffenderOf[i] = v}) >= 2

(* apply_slash_burn_v2 on the offender's entry. *)
StatusAfterBurn(v) ==
    IF vals[v].status = "Absent" THEN "Absent"
    ELSE IF vals[v].status = "Tombstoned" \/ ForceTombstone(v) THEN "Tombstoned"
    ELSE IF vals[v].status = "Active" THEN "Jailed"
    ELSE vals[v].status

(* A slip: plain instead of saturating subtraction. *)
LessPlain(a, b) == a - b

(* saturating_sub *)
Less(a, b) == IF b > a THEN 0 ELSE a - b

(* Burn, stamp the record in memory, write it. *)
ApplyBurn(i) ==
    LET v == OffenderOf[i]
        newly == StatusAfterBurn(v) # vals[v].status
        stamped == [registry[i] EXCEPT !.applied = TRUE, !.jailed = @ \/ newly]
    IN
    /\ vals' = [vals EXCEPT ![v] = [status |-> StatusAfterBurn(v),
                                    stake |-> Less(@.stake, disk[i].slash)]]
    /\ active_set' = active_set \ {v}
    /\ registry' = [registry EXCEPT ![i] = stamped]
    /\ disk' = [disk EXCEPT ![i] = stamped]
    /\ applied' = Append(applied, i)
    /\ burnt' = IF vals[v].status = "Absent" THEN burnt ELSE burnt \cup {i}

ReplayBurn(i) ==
    /\ pc = "replay"
    /\ i \in todo
    /\ ~ AlreadySlashed(i)
    /\ ApplyBurn(i)
    /\ todo' = todo \ {i}
    /\ UNCHANGED <<evidence, bonds, balance, height, pc, cur, block, debited,
                   bounds>>

(* The skipped record is stamped as well.  The result of this one write is *)
(* ignored, so it may be missing on disk.                                  *)
ReplaySkip(i) ==
    /\ pc = "replay"
    /\ i \in todo
    /\ AlreadySlashed(i)
    /\ registry' = [registry EXCEPT ![i].applied = TRUE]
    /\ disk' \in {disk, [disk EXCEPT ![i] = registry'[i]]}
    /\ todo' = todo \ {i}
    /\ UNCHANGED <<vals, active_set, evidence, bonds, balance, height, pc, cur,
                   applied, block, history, bounds>>

LoadReady ==
    /\ pc = "replay"
    /\ todo = {}
    /\ todo' = {i \in Id : /\ disk[i].status = "Pending"
                           /\ WindowOver(disk[i].deadline, block)}
    /\ pc' = "finalize"
    /\ UNCHANGED <<memory, disk, evidence, bonds, balance, height, cur, applied,
                   block, history, bounds>>

(* finalize_slash acts on a record that is still Pending and past its      *)
(* window.                                                                 *)
Finalizable(i) ==
    registry[i].status = "Pending" /\ WindowOver(registry[i].deadline, block)

(* finalize_slash and the first put_record: Confirmed on disk before the   *)
(* burn.                                                                   *)
Confirm(i) ==
    /\ pc = "finalize"
    /\ i \in todo
    /\ Finalizable(i)
    /\ registry' = [registry EXCEPT ![i].status = "Confirmed", ![i].applied = FALSE]
    /\ disk' = [disk EXCEPT ![i] = registry'[i]]
    /\ todo' = todo \ {i}
    /\ pc' = "burn"
    /\ cur' = [id |-> i, reporter |-> "none"]
    /\ UNCHANGED <<vals, active_set, evidence, bonds, balance, height, applied,
                   block, history, bounds>>

Burn ==
    /\ pc = "burn"
    /\ ApplyBurn(cur.id)
    /\ pc' = "finalize"
    /\ cur' = Nobody
    /\ UNCHANGED <<evidence, bonds, balance, height, todo, block, debited,
                   bounds>>

(* ZbxDb::apply_slash_burns reads each account from the database, not from *)
(* the batch it is filling: of several debits of one account the last is   *)
(* the one that is written.                                                *)
LastDebit(i) ==
    \E n \in DOMAIN applied :
        /\ applied[n] = i
        /\ \A m \in n + 1 .. Len(applied) : OffenderOf[applied[m]] # OffenderOf[i]

DebitedBalance(v) ==
    IF \E i \in Id : LastDebit(i) /\ OffenderOf[i] = v
    THEN Less(balance[v], disk[CHOOSE i \in Id : LastDebit(i) /\ OffenderOf[i] = v].slash)
    ELSE balance[v]

(* The tick returns; do_commit debits the accounts. *)
DebitAccounts ==
    /\ pc = "finalize"
    /\ \A i \in todo : ~ Finalizable(i)
    /\ balance' = [v \in Validators |-> DebitedBalance(v)]
    /\ debited' = [i \in Id |-> IF LastDebit(i) THEN debited[i] + 1 ELSE debited[i]]
    /\ todo' = {}
    /\ applied' = <<>>
    /\ pc' = "execute"
    /\ UNCHANGED <<memory, disk, evidence, bonds, height, cur, block, burnt,
                   bounds>>
-----------------------------------------------------------------------------
(* The rest of do_commit: execute the block, publish it, bring the         *)
(* validator set up to date.                                               *)

Present(v) == IF vals[v].status = "Absent" THEN [status |-> "Active", stake |-> MinStake]
                                           ELSE vals[v]

(* At an epoch boundary every configured validator that is not Jailed is   *)
(* set Active.                                                             *)
Refreshed(v) ==
    [Present(v) EXCEPT !.status = IF @ = "Jailed" \/ block % EpochLength # 0
                                  THEN @ ELSE "Active"]

Eligible(m) == m.stake >= MinStake /\ m.status \notin {"Jailed", "Tombstoned"}

Elected == {v \in Validators : Eligible(Refreshed(v))}

(* elect_active_set: who leaves the active set is Pending, who enters it is *)
(* Active.                                                                 *)
AfterElection(v) ==
    [Refreshed(v) EXCEPT !.status =
        CASE v \in Elected -> "Active"
          [] v \in active_set \ Elected /\ @ = "Active" -> "Pending"
          [] OTHER -> @]

CommitBlock ==
    /\ pc = "execute"
    /\ height = block - 1
    /\ height' = block
    /\ IF block % EpochLength = 0
       THEN /\ vals' = [v \in Validators |-> AfterElection(v)]
            /\ active_set' = Elected
       ELSE /\ vals' = [v \in Validators |-> Present(v)]
            /\ UNCHANGED active_set
    /\ pc' = "idle"
    /\ UNCHANGED <<registry, disk, evidence, bonds, balance, cur, todo, applied,
                   block, history, bounds>>

(* execute_and_commit_inner finds that the head has moved and drops the    *)
(* candidate; the tick is not undone.                                      *)
DropCandidate ==
    /\ pc = "execute"
    /\ height # block - 1
    /\ pc' = "idle"
    /\ UNCHANGED <<memory, disk, evidence, bonds, balance, height, cur, todo,
                   applied, block, history, bounds>>

(* The network task commits a peer's block: no tick, no validator set. *)
ImportBlock ==
    /\ imports < MaxImports
    /\ height < MaxHeight
    /\ height' = height + 1
    /\ imports' = imports + 1
    /\ UNCHANGED <<memory, disk, evidence, bonds, balance, control, history, crashes>>

(* A slip: the appeal bond is not written. *)
FileAppealNoBond(i) ==
    /\ pc = "execute"
    /\ registry[i].status = "Pending"
    /\ ~ WindowOver(registry[i].deadline, block)
    /\ registry' = [registry EXCEPT ![i].status = "Appealed"]
    /\ pc' = "appeal"
    /\ cur' = [id |-> i, reporter |-> "none"]
    /\ UNCHANGED <<vals, active_set, disk, evidence, bonds, balance, height, todo,
                   applied, block, history, bounds>>

(* dispatch_file_appeal_tx, while a block is executed: the status in the   *)
(* registry, the bond on disk, then the record.                            *)
FileAppeal(i) ==
    /\ pc = "execute"
    /\ registry[i].status = "Pending"
    /\ ~ WindowOver(registry[i].deadline, block)
    /\ registry' = [registry EXCEPT ![i].status = "Appealed"]
    /\ bonds' = bonds \cup {i}
    /\ pc' = "appeal"
    /\ cur' = [id |-> i, reporter |-> "none"]
    /\ UNCHANGED <<vals, active_set, disk, evidence, balance, height, todo,
                   applied, block, history, bounds>>

PutAppeal ==
    /\ pc = "appeal"
    /\ disk' = [disk EXCEPT ![cur.id] = registry[cur.id]]
    /\ pc' = "execute"
    /\ cur' = Nobody
    /\ UNCHANGED <<memory, evidence, bonds, balance, height, todo, applied, block,
                   history, bounds>>

(* overturn_and_refund, up to the record: the stake comes back only if it   *)
(* was burnt.  The bond is credited to pending_rewards, which are left out. *)
Overturn(i) ==
    LET v == OffenderOf[i] IN
    /\ pc = "idle"
    /\ registry[i].status = "Appealed"
    /\ vals' = [vals EXCEPT ![v] =
           IF registry[i].applied /\ @.status # "Absent"
           THEN [status |-> IF registry[i].jailed /\ @.status = "Jailed"
                            THEN "Pending" ELSE @.status,
                 stake |-> @.stake + registry[i].slash]
           ELSE @]
    /\ registry' = [registry EXCEPT ![i].status = "Overturned"]
    /\ disk' = [disk EXCEPT ![i] = registry'[i]]
    /\ pc' = "settle"
    /\ cur' = [id |-> i, reporter |-> "none"]
    /\ UNCHANGED <<active_set, evidence, bonds, balance, height, todo, applied,
                   block, burnt, debited, bounds>>

DeleteBond ==
    /\ pc = "settle"
    /\ bonds' = bonds \ {cur.id}
    /\ pc' = "idle"
    /\ cur' = Nobody
    /\ UNCHANGED <<memory, disk, evidence, balance, height, todo, applied, block,
                   history, bounds>>

(* rehydrate_from_disk reads the records; the raw evidence is not read.    *)
CrashAndRestart ==
    /\ crashes < MaxCrashes
    /\ crashes' = crashes + 1
    /\ registry' = disk
    /\ vals' = [v \in Validators |-> NoMember]
    /\ active_set' = {}
    /\ pc' = "idle"
    /\ cur' = Nobody
    /\ todo' = {}
    /\ applied' = <<>>
    /\ block' = 0
    /\ UNCHANGED <<disk, evidence, bonds, balance, height, history, imports>>

(* A round that commits nothing. *)
RoundTimesOut == pc = "idle" /\ UNCHANGED vars

(* What the driver does once it has begun, and beginning again. *)
DriverStep ==
    \/ SubmitEvidence
    \/ BeginTick
    \/ \E i \in Id : ReplayBurn(i) \/ ReplaySkip(i) \/ Confirm(i)
    \/ LoadReady
    \/ Burn
    \/ DebitAccounts
    \/ PutAppeal
    \/ DeleteBond
    \/ CommitBlock
    \/ DropCandidate

Environment ==
    \/ \E i \in Id, r \in Reporters : PutEvidence(i, r)
    \/ \E i \in Id : FileAppeal(i) \/ Overturn(i)
    \/ ImportBlock
    \/ CrashAndRestart
    \/ RoundTimesOut

Next == DriverStep \/ Environment

Spec == Init /\ [][Next]_vars

(* A handler that has begun goes on.  A round ingests evidence only until   *)
(* its deadline and the driver's loop never leaves (run, wait_for_commit), *)
(* so with a consensus that keeps deciding, do_commit runs again and again *)
(* however often evidence arrives in between.                              *)
FairSpec == Spec /\ WF_vars(DriverStep) /\ SF_vars(BeginTick)
-----------------------------------------------------------------------------
TypeOK ==
    /\ registry \in [Id -> Record]
    /\ disk \in [Id -> Record]
    /\ vals \in [Validators -> Member]
    /\ active_set \subseteq Validators
    /\ evidence \subseteq Id
    /\ bonds \subseteq Id
    /\ balance \in [Validators -> Nat]
    /\ height \in Nat
    /\ block \in Nat
    /\ pc \in {"idle", "submit", "replay", "finalize", "burn", "execute", "appeal", "settle"}
    /\ pc \in {"submit", "burn", "appeal", "settle"} => cur.id \in Id
    /\ pc = "submit" => cur.reporter \in Reporters
    /\ todo \subseteq Id
    /\ applied \in Seq(Id)
    /\ burnt \subseteq Id
    /\ debited \in [Id -> Nat]
    /\ imports \in Nat
    /\ crashes \in Nat

(* Crashes between the Confirmed write, the burn, the stamp and the debit,  *)
(* replays and dropped candidates never make the pipeline debit one record *)
(* twice (tick_finalize, phase 0 and the burn_applied stamp).              *)
DebitedAtMostOnce ==
    \A i \in Id : debited[i] + (IF i \in ToSet(applied) THEN 1 ELSE 0) <= 1

(* A record that was burnt or debited is Confirmed on disk, and its appeal *)
(* window had closed: an appeal filed in time is never overtaken by the    *)
(* burn, whatever crashes in between (finalize_slash, file_appeal).        *)
BurntOnlyAfterWindow ==
    \A i \in Id : i \in burnt \/ debited[i] > 0 =>
        /\ disk[i].status = "Confirmed"
        /\ height >= disk[i].deadline

(* Between two handlers the registry in memory is what a restart would     *)
(* read back from the disk (put_record after every transition), but for    *)
(* the stamp of a skipped record whose write was lost.                     *)
RegistryIsOnDisk ==
    pc = "idle" => \A i \in Id :
        \/ registry[i] = disk[i]
        \/ /\ disk[i].status = "Confirmed"
           /\ registry[i] = [disk[i] EXCEPT !.applied = TRUE]

(* An appeal that reached the disk has its bond there, whatever crashes:   *)
(* put_bond comes before put_record, the bond goes only after the          *)
(* Overturned write (dispatch_file_appeal_tx, overturn_and_refund).        *)
AppealBondKept == \A i \in Id : disk[i].status = "Appealed" => i \in bonds

(* "Restore the record verbatim so a node crash mid-window does not reset  *)
(* the slashing clock": once on disk a record keeps its amount and         *)
(* deadline, loses no reporter, moves only along Pending -> Appealed ->    *)
(* Overturned or Pending -> Confirmed, and its stamp is never taken back.  *)
Lifecycle ==
    [][\A i \in Id : disk[i].status # "Absent" =>
        /\ disk'[i].slash = disk[i].slash
        /\ disk'[i].deadline = disk[i].deadline
        /\ disk[i].reporters \subseteq disk'[i].reporters
        /\ disk[i].applied => disk'[i].applied
        /\ <<disk[i].status, disk'[i].status>> \in
               {<<"Pending", "Appealed">>, <<"Pending", "Confirmed">>,
                <<"Appealed", "Overturned">>} \cup {<<disk[i].status, disk[i].status>>}]_vars

(* Every record leaves Pending: appealed, or confirmed once its window is  *)
(* over, provided the node keeps committing blocks itself (FairSpec) and   *)
(* does not crash for ever.                                                *)
PendingIsResolved ==
    \A i \in Id : disk[i].status = "Pending" ~> disk[i].status # "Pending"

(* "The pipeline only sets this true AFTER the validator-set burn":        *)
(* burn_applied on disk means that the burn has run.                       *)
StampedMeansBurnt == \A i \in Id : disk[i].applied => i \in burnt

(* "Each (offender, amount_wei) is debited from the offender's             *)
(* AccountState.balance": a batch takes from each account what all its     *)
(* records amount to.                                                      *)
BatchDebitsEach ==
    [][pc = "finalize" /\ pc' = "execute" =>
        \A v \in Validators : balance'[v] =
            Less(balance[v],
                 MapThenSumSet(LAMBDA i : disk[i].slash,
                               {i \in ToSet(applied) : OffenderOf[i] = v}))]_vars

(* "Tombstoned is permanent": as long as the process lives, no step takes  *)
(* it back.                                                                *)
TombstonedForever ==
    [][\A v \in Validators : vals[v].status = "Tombstoned" =>
          vals'[v].status = "Tombstoned" \/ crashes' # crashes]_vars
=============================================================================
