------------------------------ MODULE Staking ------------------------------
(***************************************************************************)
(* Staking on chain: what a commit of the consensus driver does to the     *)
(* validator set, the delegation ledger, the escrow and the proposals.     *)
(*   zbx-staking  tx_handler.rs, delta.rs, validator.rs, rewards.rs        *)
(*   zbx-execution executor.rs (execute_staking_tx)                        *)
(*   node          block_producer.rs (commit), consensus.rs (do_commit)    *)
(* A block is executed on copies (job) and written in the order accounts   *)
(* one by one, block, staking delta, governance, rewards.  The validator   *)
(* set lives in memory only.  Fees and nonces are BlockCommit's, the       *)
(* slashing records SlashingPipeline's.                                    *)
(***************************************************************************)
EXTENDS Governance, Functions

CONSTANTS
    Configured,         \* validators of the node's configuration
    Candidate,          \* accounts that may register as validators
    Delegator,
    Rank,               \* [Validator -> Nat]: the order of the addresses
    Module,             \* names of upgradable modules
    Menus,              \* bound: the calls users may send, one set per behaviour
    Funds,              \* initial balance of every account
    MinSelfStake, CommissionBps, MaxValidators, UnbondingPeriod, RewardInterval,
    IntervalMint,       \* block rewards and fees of an interval
    BlockReward,        \* block_reward_at, to the coinbase of every block
    EpochLength,
    SlashWei, Outcomes, \* what a finalized slash debits; Jailed, Tombstoned
    ReporterReward,     \* credited to a validator that reported the offence
    MaxHeight, MaxCalls, MaxPerBlock, MaxSlashes, MaxCrashes   \* bounds

Validator == Configured \cup Candidate
Account == Validator \cup Delegator

(* The arguments a call of a kind has. *)
IsCall(c) ==
    CASE c.kind = "register" -> c.from \in Candidate /\ c.amount \in Nat
      [] c.kind \in {"delegate", "undelegate"} ->
            c.from \in Delegator /\ c.to \in Validator /\ c.amount \in Nat
      [] c.kind \in {"withdraw", "claimDelegator"} -> c.from \in Delegator /\ c.to \in Validator
      [] c.kind = "claim" -> c.to \in Validator
      [] c.kind = "propose" -> c.module \in Module /\ {c.version, c.activation} \subseteq Nat
      [] c.kind = "vote" -> c.id \in Nat /\ c.approve \in BOOLEAN
      [] OTHER -> FALSE

ASSUME StakingConstants ==
    /\ {Funds, MinSelfStake, CommissionBps, MaxValidators, UnbondingPeriod, IntervalMint, BlockReward,
        SlashWei, ReporterReward, MaxHeight, MaxCalls, MaxPerBlock, MaxSlashes, MaxCrashes} \subseteq Nat
    /\ {RewardInterval, EpochLength} \subseteq Nat \ {0}
    /\ CommissionBps <= 2000
    /\ IsFiniteSet(Validator) /\ IsFiniteSet(Delegator)
    /\ Configured \cap Candidate = {} /\ Validator \cap Delegator = {}
    /\ Rank \in [Validator -> Nat]
    /\ Outcomes \subseteq {"Jailed", "Tombstoned"}

ASSUME MenuCalls == \A m \in Menus : \A c \in m : IsCall(c)

VARIABLES
    wallet,             \* disk: balances of the accounts
    escrow,             \* disk: balance of STAKING_PRECOMPILE_ADDR
    height,             \* disk: the head
    ledger,             \* disk: [validator, delegator] -> delegated
    unbonding,          \* disk: [unlock, delegator, validator] -> amount
    proposal_counter, preg, vreg,   \* disk: governance
    vs,                 \* memory: the shared ValidatorSet
    job,                \* memory: the commit under way
    menu,               \* the calls of this behaviour
    claimed,            \* history: who claimed a share since the pool was filled
    calls, slashes, crashes

diskVars == <<wallet, escrow, height, ledger, unbonding, proposal_counter, preg, vreg>>
counters == <<menu, calls, slashes, crashes>>
vars == <<diskVars, vs, job, claimed, counters>>

Idle == [pc |-> "idle"]
-----------------------------------------------------------------------------
(* validator.rs *)

Absent == [status |-> "Absent", self |-> 0, delegated |-> 0, pending |-> 0, pool |-> 0, denom |-> 0]
NewValidator(stake, status) == [Absent EXCEPT !.status = status, !.self = stake]
EmptySet == [of |-> [v \in Validator |-> Absent], active |-> {}]

Known(s, v) == s.of[v].status # "Absent"
TotalStake(r) == r.self + r.delegated
CommissionOf(reward) == (reward * CommissionBps) \div 10000
Eligible(r) == r.self >= MinSelfStake /\ r.status \in {"Pending", "Active"}
IsActiveValidator(s, v) ==
    v \in s.active /\ s.of[v].status \notin {"Absent", "Jailed", "Tombstoned", "Inactive"}

(* By stake, equals by address, at most MaxValidators. *)
Elected(s) ==
    LET eligible == {v \in Validator : Eligible(s.of[v])}
        Better(w, v) == \/ TotalStake(s.of[w]) > TotalStake(s.of[v])
                        \/ TotalStake(s.of[w]) = TotalStake(s.of[v]) /\ Rank[w] < Rank[v]
    IN  {v \in eligible : Cardinality({w \in eligible : Better(w, v)}) < MaxValidators}

ElectActiveSet(s) ==
    LET new == Elected(s) IN
    [of |-> [v \in Validator |->
                CASE v \in new -> [s.of[v] EXCEPT !.status = "Active"]
                  [] v \in s.active \ new /\ s.of[v].status = "Active" ->
                        [s.of[v] EXCEPT !.status = "Pending"]
                  [] OTHER -> s.of[v]],
     active |-> new]

(* The share of the pool at the denominator of its last funding, which     *)
(* shrinks by the claimant's stake.                                        *)
ClaimShare(r, stake) ==
    LET share == IF r.denom > 0 THEN Min({(r.pool * stake) \div r.denom, r.pool}) ELSE r.pool
    IN  [share |-> share,
         after |-> [r EXCEPT !.pool = @ - share, !.denom = IF @ > stake THEN @ - stake ELSE 0]]
-----------------------------------------------------------------------------
(* rewards.rs *)

(* One active validator's part of the committee share. *)
SplitReward(r, reward) ==
    IF r.delegated = 0 THEN [r EXCEPT !.pending = @ + reward]
    ELSE LET own == (reward * r.self) \div TotalStake(r)
             commission == CommissionOf(reward - own)
         IN  [r EXCEPT !.pending = @ + own + commission,
                       !.pool = @ + (reward - own - commission),
                       !.denom = r.delegated]

(* A slip: the bonus is paid on top of the full amount. *)
CommitteeShareAll == IntervalMint

ProposerBonus == IntervalMint \div 10
CommitteeShare == IntervalMint - ProposerBonus

DistributeBlockReward(s, proposer) ==
    LET stake == SumFunctionOnSet([v \in Validator |-> TotalStake(s.of[v])], s.active)
        bonus == IF Known(s, proposer) THEN [s.of EXCEPT ![proposer].pending = @ + ProposerBonus]
                 ELSE s.of
        Part(v) == (CommitteeShare * TotalStake(s.of[v])) \div stake
    IN  IF stake = 0 THEN s
        ELSE [s EXCEPT !.of = [v \in Validator |->
                IF v \in s.active /\ Part(v) # 0 THEN SplitReward(bonus[v], Part(v)) ELSE bonus[v]]]
-----------------------------------------------------------------------------
(* dispatch_staking_tx on the job's copies.  A call that fails returns its *)
(* value; what it wrote before it failed stays.                            *)

Pay(j, a, amount) == [j EXCEPT !.escrow = @ - amount, !.wallet[a] = @ + amount]
Lock(j, a, amount) == [j EXCEPT !.escrow = @ + amount, !.wallet[a] = @ - amount]

Register(j, c) ==
    IF Known(j.vs, c.from) \/ c.amount < MinSelfStake THEN j
    ELSE Lock([j EXCEPT !.vs.of[c.from] = NewValidator(c.amount, "Pending")], c.from, c.amount)

(* The ledger is written before the validator set refuses a Tombstoned. *)
Delegate(j, c) ==
    LET status == j.vs.of[c.to].status
        noted == [j EXCEPT !.ledger[<<c.to, c.from>>] = @ + c.amount]
    IN  CASE status \in {"Absent", "Jailed", "Inactive", "Unbonding"} -> j
          [] status = "Tombstoned" -> noted
          [] OTHER -> Lock([noted EXCEPT !.vs.of[c.to].delegated = @ + c.amount], c.from, c.amount)

(* A slip: only the aggregate is checked. *)
UndelegateUnchecked(j, c) ==
    IF j.vs.of[c.to].delegated < c.amount THEN j
    ELSE [j EXCEPT !.ledger[<<c.to, c.from>>] = @ - c.amount, !.vs.of[c.to].delegated = @ - c.amount]

(* Entries of one key add up. *)
Undelegate(j, c) ==
    LET key == <<j.number + UnbondingPeriod, c.from, c.to>>
        prior == IF key \in DOMAIN j.unbonding THEN j.unbonding[key] ELSE 0
    IN  IF ~ Known(j.vs, c.to) \/ j.vs.of[c.to].delegated < c.amount
              \/ j.ledger[<<c.to, c.from>>] < c.amount
        THEN j
        ELSE [j EXCEPT !.ledger[<<c.to, c.from>>] = @ - c.amount,
                       !.unbonding = [k \in DOMAIN @ \cup {key} |->
                                         IF k = key THEN prior + c.amount ELSE @[k]],
                       !.vs.of[c.to].delegated = @ - c.amount]

Matured(j, c) ==
    {k \in DOMAIN j.unbonding : k[1] <= j.number /\ k[2] = c.from /\ k[3] = c.to}

Withdraw(j, c) ==
    LET keys == Matured(j, c)
        total == SumFunctionOnSet(j.unbonding, keys)
    IN  IF keys = {} \/ j.escrow < total THEN j
        ELSE Pay([j EXCEPT !.unbonding = [k \in DOMAIN @ \ keys |-> @[k]]], c.from, total)

(* A slip: the reward is created and not taken from the escrow. *)
ClaimRewardsMint(j, c) ==
    [j EXCEPT !.vs.of[c.to].pending = 0, !.wallet[c.to] = @ + j.vs.of[c.to].pending]

(* The counter is reset before the escrow is looked at. *)
ClaimRewards(j, c) ==
    LET amount == j.vs.of[c.to].pending
        reset == [j EXCEPT !.vs.of[c.to].pending = 0]
    IN  IF c.from # c.to \/ ~ Known(j.vs, c.to) THEN j
        ELSE IF j.escrow < amount THEN reset
        ELSE Pay(reset, c.to, amount)

ClaimDelegatorRewards(j, c) ==
    LET r == j.vs.of[c.to]
        stake == j.ledger[<<c.to, c.from>>]
        claim == ClaimShare(r, stake)
        taken == [j EXCEPT !.vs.of[c.to] = claim.after]
    IN  IF stake = 0 \/ ~ Known(j.vs, c.to) \/ r.pool = 0 THEN j
        ELSE IF claim.share = 0 \/ j.escrow < claim.share THEN taken
        ELSE Pay(taken, c.from, claim.share)

Dispatch(j, c) ==
    CASE c.kind = "register" -> Register(j, c)
      [] c.kind = "delegate" -> Delegate(j, c)
      [] c.kind = "undelegate" -> Undelegate(j, c)
      [] c.kind = "withdraw" -> Withdraw(j, c)
      [] c.kind = "claim" -> ClaimRewards(j, c)
      [] c.kind = "claimDelegator" -> ClaimDelegatorRewards(j, c)
-----------------------------------------------------------------------------
Init ==
    /\ wallet = [a \in Account |-> Funds]
    /\ escrow = 0 /\ height = 0
    /\ ledger = [p \in Validator \X Delegator |-> 0]
    /\ unbonding = [k \in {} |-> 0]
    /\ proposal_counter = 0
    /\ preg = [id \in {} |-> 0]
    /\ vreg = [m \in Module |-> 0]
    /\ vs = EmptySet
    /\ job = Idle
    /\ menu \in Menus
    /\ claimed = {}
    /\ calls = 0 /\ slashes = 0 /\ crashes = 0

(* apply_slash_burn_v2, for an offender and a validator that reported it. *)
Slash(s, v, outcome, reporter) ==
    LET r == s.of[v]
        after == [r EXCEPT !.self = IF @ > SlashWei THEN @ - SlashWei ELSE 0,
                           !.status = IF "Tombstoned" \in {@, outcome} THEN "Tombstoned"
                                      ELSE IF @ = "Active" THEN "Jailed" ELSE @]
        of == [s.of EXCEPT ![v] = after]
    IN  [of |-> IF Known(s, reporter) THEN [of EXCEPT ![reporter].pending = @ + ReporterReward]
                ELSE of,
         active |-> s.active \ {v}]

(* apply_slash_burns: the balance pays too, as far as it goes. *)
SlashBurn(w, v) == [w EXCEPT ![v] = IF @ > SlashWei THEN @ - SlashWei ELSE 0]

(* do_commit up to the execution: a slash may be finalized, then the       *)
(* validator set is cloned.                                                *)
Clone(s, w, proposer) ==
    [pc |-> "execute", number |-> height + 1, proposer |-> proposer, n |-> 0,
     vs |-> s, wallet |-> w, escrow |-> escrow, ledger |-> ledger, unbonding |-> unbonding]

Begin ==
    /\ job = Idle /\ height < MaxHeight
    /\ \E proposer \in Configured :
        \/ /\ vs' = vs /\ job' = Clone(vs, wallet, proposer)
           /\ UNCHANGED <<wallet, slashes>>
        \/ /\ slashes < MaxSlashes /\ slashes' = slashes + 1
           /\ \E v \in Validator, reporter \in Validator, outcome \in Outcomes :
                /\ Known(vs, v) /\ v # reporter
                /\ vs' = Slash(vs, v, outcome, reporter)
                /\ wallet' = SlashBurn(wallet, v)
                /\ job' = Clone(vs', wallet', proposer)
    /\ UNCHANGED <<escrow, height, ledger, unbonding, proposal_counter, preg, vreg, claimed, menu,
                   calls, crashes>>

MayCall(c) ==
    /\ job.pc = "execute" /\ c \in menu
    /\ job.n < MaxPerBlock /\ calls < MaxCalls
    /\ calls' = calls + 1

(* The accounts of the call hold its value, or the block fails (Drop). *)
ExecStaking ==
    \E c \in menu :
    /\ c.kind \notin {"propose", "vote"}
    /\ MayCall(c)
    /\ c.kind \in {"register", "delegate"} => c.amount <= job.wallet[c.from]
    /\ job' = [Dispatch(job, c) EXCEPT !.n = @ + 1]
    /\ claimed' = IF c.kind = "claimDelegator" /\ job'.wallet # job.wallet
                  THEN claimed \cup {<<c.to, c.from>>} ELSE claimed
    /\ UNCHANGED <<diskVars, vs, menu, slashes, crashes>>

(* ProposeUpgrade and CastVote go to the database at once. *)
ExecPropose ==
    \E c \in menu :
    /\ c.kind = "propose" /\ MayCall(c)
    /\ job' = [job EXCEPT !.n = @ + 1]
    /\ IF IsActiveValidator(job.vs, c.from) /\ c.activation > job.number
       THEN /\ proposal_counter' = proposal_counter + 1
            /\ preg' = InsertProposal(preg, proposal_counter',
                                      NewProposal(c.module, c.version, c.activation))
       ELSE UNCHANGED <<proposal_counter, preg>>
    /\ UNCHANGED <<wallet, escrow, height, ledger, unbonding, vreg, vs, claimed, menu, slashes, crashes>>

CastAndMaybeFinalize(p, voter, approve, active, number) ==
    TryFinalize(CastVote(p, voter, approve), active, number)

ExecVote ==
    \E c \in menu :
    /\ c.kind = "vote" /\ MayCall(c)
    /\ job' = [job EXCEPT !.n = @ + 1]
    /\ preg' = IF /\ IsActiveValidator(job.vs, c.from)
                  /\ c.id \in DOMAIN preg /\ preg[c.id].status = "Pending"
               THEN [preg EXCEPT ![c.id] = CastAndMaybeFinalize(@, c.from, c.approve,
                                                                job.vs.active, job.number)]
               ELSE preg
    /\ UNCHANGED <<wallet, escrow, height, ledger, unbonding, proposal_counter, vreg, vs, claimed,
                   menu, slashes, crashes>>

(* An error of a later transaction, or a head that moved: the copies go. *)
Drop ==
    /\ job.pc = "execute" /\ job.n > 0
    /\ job' = Idle
    /\ UNCHANGED <<diskVars, vs, claimed, counters>>

(* The last transaction is executed; the coinbase gets the reward. *)
CreditReward ==
    /\ job.pc = "execute"
    /\ job' = [job EXCEPT !.pc = "accounts", !.wallet[job.proposer] = @ + BlockReward]
    /\ UNCHANGED <<diskVars, vs, claimed, counters>>

(* put_account, synced, one account after the other in the order of a hash *)
(* map; to write one that did not change is no step.                       *)
PutWallet ==
    /\ job.pc = "accounts"
    /\ \E a \in Account :
        wallet[a] # job.wallet[a] /\ wallet' = [wallet EXCEPT ![a] = job.wallet[a]]
    /\ UNCHANGED <<escrow, height, ledger, unbonding, proposal_counter, preg, vreg, vs, job, claimed,
                   counters>>

PutEscrow ==
    /\ job.pc = "accounts"
    /\ escrow # job.escrow /\ escrow' = job.escrow
    /\ UNCHANGED <<wallet, height, ledger, unbonding, proposal_counter, preg, vreg, vs, job, claimed,
                   counters>>

(* Every account is written. *)
PutBlock ==
    /\ job.pc = "accounts" /\ wallet = job.wallet /\ escrow = job.escrow
    /\ height' = job.number
    /\ job' = [job EXCEPT !.pc = "delta"]
    /\ UNCHANGED <<wallet, escrow, ledger, unbonding, proposal_counter, preg, vreg, vs, claimed, counters>>

(* One batch. *)
ApplyStakingDelta ==
    /\ job.pc = "delta"
    /\ ledger' = job.ledger /\ unbonding' = job.unbonding
    /\ job' = [job EXCEPT !.pc = "hook"]
    /\ UNCHANGED <<wallet, escrow, height, proposal_counter, preg, vreg, vs, claimed, counters>>

(* A slip: the set that is swapped in is the one of before the block. *)
StaleSet == vs

ExecutedSet == job.vs

(* The clone is swapped in; the proposals are decided and executed. *)
GovernanceHook ==
    /\ job.pc = "hook"
    /\ vs' = ExecutedSet
    /\ LET decided == FinalizeAllPending(preg, vs'.active, job.number)
           applied == ApplyReadyGovernance(decided, vreg, job.number)
       IN  preg' = applied.preg /\ vreg' = applied.vreg
    /\ job' = [job EXCEPT !.pc = "rewards"]
    /\ UNCHANGED <<wallet, escrow, height, ledger, unbonding, proposal_counter, claimed, counters>>

ApplyIntervalRewards ==
    /\ job.pc = "rewards"
    /\ IF job.number % RewardInterval = 0
       THEN /\ escrow' = escrow + IntervalMint
            /\ vs' = DistributeBlockReward(vs, job.proposer)
            /\ claimed' = {p \in claimed : vs'.of[p[1]].pool = vs.of[p[1]].pool}
       ELSE UNCHANGED <<escrow, vs, claimed>>
    /\ job' = [job EXCEPT !.pc = "sync"]
    /\ UNCHANGED <<wallet, height, ledger, unbonding, proposal_counter, preg, vreg, counters>>

(* A slip: every configured validator is made active. *)
ReactivateAll(r) == [r EXCEPT !.status = "Active"]

(* At an epoch boundary every configured validator that is not Jailed. *)
Reactivate(r) == IF r.status = "Jailed" THEN r ELSE [r EXCEPT !.status = "Active"]

(* The end of do_commit: configured validators that are missing are added, *)
(* at an epoch boundary the active set is elected.                         *)
SyncValidatorSet ==
    /\ job.pc = "sync"
    /\ LET boundary == job.number % EpochLength = 0
           of == [v \in Validator |->
                    IF v \notin Configured THEN vs.of[v]
                    ELSE LET r == IF Known(vs, v) THEN vs.of[v] ELSE NewValidator(MinSelfStake, "Active")
                         IN  IF boundary THEN Reactivate(r) ELSE r]
           s == [vs EXCEPT !.of = of]
       IN  vs' = IF boundary THEN ElectActiveSet(s) ELSE s
    /\ job' = Idle
    /\ UNCHANGED <<diskVars, claimed, counters>>

(* The process dies: the validator set starts empty again. *)
Crash ==
    /\ crashes < MaxCrashes /\ crashes' = crashes + 1
    /\ job # Idle
    /\ vs' = EmptySet /\ job' = Idle /\ claimed' = {}
    /\ UNCHANGED <<diskVars, menu, calls, slashes>>

(* The height bound is reached. *)
AtBound == job = Idle /\ height = MaxHeight /\ UNCHANGED vars

Next ==
    \/ Begin \/ ExecStaking \/ ExecPropose \/ ExecVote \/ Drop
    \/ CreditReward \/ PutWallet \/ PutEscrow \/ PutBlock
    \/ ApplyStakingDelta \/ GovernanceHook \/ ApplyIntervalRewards \/ SyncValidatorSet
    \/ Crash
    \/ AtBound

Spec == Init /\ [][Next]_vars
-----------------------------------------------------------------------------
(* Properties *)

(* The variables have the shape the code gives them; no balance is ever    *)
(* negative, although the escrow is debited without being looked at again. *)
TypeOK ==
    /\ wallet \in [Account -> Nat] /\ escrow \in Nat /\ height \in 0..MaxHeight
    /\ ledger \in [Validator \X Delegator -> Nat]
    /\ \A k \in DOMAIN unbonding : unbonding[k] \in Nat
    /\ proposal_counter \in Nat /\ DOMAIN preg \subseteq 1..proposal_counter
    /\ \A v \in Validator :
            {vs.of[v].self, vs.of[v].delegated, vs.of[v].pending, vs.of[v].pool, vs.of[v].denom}
                \subseteq Nat
    /\ vs.active \subseteq {v \in Validator : Known(vs, v)}
    /\ job = Idle \/ job.number \in 1..MaxHeight

AtRest == job = Idle /\ crashes = 0

(* What the entries of a ledger for one validator amount to. *)
DelegatedIn(entries, v) == SumFunctionOnSet([d \in Delegator |-> entries[<<v, d>>]], Delegator)

(* Claims on the escrow: delegations, unbondings, the stake of validators  *)
(* that registered, unclaimed rewards.                                     *)
Owed(s, entries, leaving) ==
    SumFunctionOnSet([v \in Validator |-> DelegatedIn(entries, v) + s.of[v].pending + s.of[v].pool
                                            + (IF v \in Candidate THEN s.of[v].self ELSE 0)],
                     Validator)
    + SumFunctionOnSet(leaving, DOMAIN leaving)

(* Between blocks of a process that never crashed the escrow covers every  *)
(* claim on it: the mint of an interval covers what rounding, bonus,       *)
(* commission and pools hand out, and no claim is paid twice.  It holds    *)
(* without a reporter's reward (which a slash credits and nobody funds)    *)
(* and for offences that jail: a Tombstoned validator's delegations are    *)
(* noted without their value.                                              *)
EscrowSolvent == AtRest => Owed(vs, ledger, unbonding) <= escrow

(* The aggregate that rewards and elections use is the sum of the ledger,  *)
(* through dropped blocks, repeated calls and elections.                   *)
LedgerMatchesAggregate ==
    AtRest => \A v \in Validator : vs.of[v].delegated = DelegatedIn(ledger, v)

(* Between blocks of a process that never crashed no more coins exist than *)
(* were there, were minted at the interval heights and were paid to the    *)
(* coinbases: stakes, withdrawals, claims and the accounts written one by  *)
(* one create none.  (A crash among these writes can: the withdrawer is    *)
(* paid and the escrow is not debited.)                                    *)
NoInflation ==
    AtRest => SumFunctionOnSet(wallet, Account) + escrow
        <= Funds * Cardinality(Account) + IntervalMint * (height \div RewardInterval)
            + BlockReward * height

(* A jailed validator stays jailed as long as the process runs: no clone   *)
(* that is swapped in and no epoch boundary frees it.                      *)
JailHolds ==
    [][crashes' = crashes =>
        \A v \in Validator : vs.of[v].status = "Jailed" => vs'.of[v].status = "Jailed"]_vars

(* A scheduled upgrade is not missed: the hook of a block leaves none      *)
(* behind whose activation is reached, also when a crash kept the hook of  *)
(* the activation block itself from running.                               *)
OverdueExecuted ==
    [][(job.pc = "hook" /\ job'.pc = "rewards") =>
        ~ \E id \in DOMAIN preg' :
            preg'[id].status = "Scheduled" /\ preg'[id].activation <= job.number]_vars

(* What was executed stays in effect: a module never runs a version below  *)
(* that of an executed proposal.                                           *)
ExecutedInEffect ==
    \A id \in DOMAIN preg : preg[id].status = "Executed" => vreg[preg[id].module] >= preg[id].version
-----------------------------------------------------------------------------
(* What the repository says and the code does not do *)

(* "The claimed amount is deducted from the pool immediately to prevent    *)
(* double-claiming.": no second payment from one filling of the pool.      *)
NoDoubleClaim ==
    [][\A v \in Validator, d \in Delegator :
        (job.pc = "execute" /\ job'.pc = "execute" /\ <<v, d>> \in claimed
            /\ job'.vs.of[v].pool < job.vs.of[v].pool)
        => job'.wallet[d] = job.wallet[d]]_vars

(* A majority can still come about. *)
Undecided(p, active) ==
    2 * Cardinality({v \in active : v \in DOMAIN p.votes => p.votes[v]}) > Cardinality(active)

(* "proposal 2 has no votes yet - still Pending": a proposal is rejected   *)
(* only when its activation has passed or no majority can come about.      *)
UndecidedStaysPending ==
    [][\A id \in DOMAIN preg :
        (preg[id].status = "Pending" /\ preg'[id].status = "Rejected")
        => preg[id].activation <= job.number \/ ~ Undecided(preg'[id], job.vs.active)]_vars
=============================================================================
