--------------------------- MODULE StakingProofs ---------------------------
(***************************************************************************)
(* Proofs for Staking and Governance.  The proof goes along the phases of  *)
(* a commit: what the calls of a block keep on the job's copies, what the  *)
(* writes of the commit carry over to the disk, and what the shared        *)
(* validator set keeps through slashes, rewards and elections.             *)
(***************************************************************************)
EXTENDS Staking, SumLemmas

Statuses == {"Absent", "Pending", "Active", "Jailed", "Tombstoned"}
Entry == [status : Statuses, self : Nat, delegated : Nat, pending : Nat, pool : Nat, denom : Nat]
Sets == [of : [Validator -> Entry], active : SUBSET Validator]

(* An active validator is known; one that is not has nothing. *)
SetOK(s) ==
    /\ s \in Sets
    /\ \A v \in Validator : v \in s.active => Known(s, v)
    /\ \A v \in Validator : Known(s, v) \/ s.of[v] = Absent

Keys == Nat \X Delegator \X Validator
Unbondings == UNION {[K -> Nat] : K \in SUBSET Keys}
UnbondingOK(u) ==
    /\ u \in Unbondings
    /\ DOMAIN u \subseteq Keys /\ IsFiniteSet(DOMAIN u) /\ \A k \in DOMAIN u : u[k] \in Nat
Ledgers == [Validator \X Delegator -> Nat]

Phases == {"execute", "accounts", "delta", "hook", "rewards", "sync"}

(* A commit under way. *)
Jobs == [pc : Phases, number : Nat, proposer : Configured, n : Nat, vs : Sets,
         wallet : [Account -> Nat], escrow : Nat, ledger : Ledgers, unbonding : Unbondings]
JobOK(j) == j \in Jobs /\ SetOK(j.vs) /\ UnbondingOK(j.unbonding)

Total(w, e) == SumFunctionOnSet(w, Account) + e

(* What no call of a block changes. *)
SameCommit(j, k) == k.pc = j.pc /\ k.number = j.number /\ k.proposer = j.proposer /\ k.n = j.n

(* The effect of a call on the coins: none is made and none is lost. *)
Conserves(j, k) == Total(k.wallet, k.escrow) = Total(j.wallet, j.escrow)
-----------------------------------------------------------------------------
(* Validator sets *)

LEMMA AccountFinite == IsFiniteSet(Account) /\ Cardinality(Account) \in Nat
<1>1. IsFiniteSet(Validator) /\ IsFiniteSet(Delegator)
  BY StakingConstants
<1> QED
  BY <1>1, FS_Union, FS_CardinalityType DEF Account

LEMMA AbsentEntry == Absent \in Entry /\ Absent.status = "Absent" /\ Absent.delegated = 0
  BY DEF Absent, Entry, Statuses

LEMMA EmptySetOK == SetOK(EmptySet)
  BY AbsentEntry DEF SetOK, EmptySet, Sets, Known

LEMMA NewValidatorEntry ==
    ASSUME NEW stake \in Nat, NEW status \in Statuses
    PROVE  /\ NewValidator(stake, status) \in Entry
           /\ NewValidator(stake, status).status = status
           /\ NewValidator(stake, status).delegated = 0
           /\ NewValidator(stake, status).pending = 0 /\ NewValidator(stake, status).pool = 0
           /\ NewValidator(stake, status).self = stake
  BY DEF NewValidator, Absent, Entry, Statuses

(* One entry of a set changes and is not removed. *)
LEMMA SetUpdate ==
    ASSUME NEW s, SetOK(s), NEW v \in Validator, NEW r \in Entry, r.status # "Absent"
    PROVE  /\ SetOK([s EXCEPT !.of[v] = r])
           /\ [s EXCEPT !.of[v] = r].of = [s.of EXCEPT ![v] = r]
           /\ [s EXCEPT !.of[v] = r].active = s.active
<1> DEFINE t == [s EXCEPT !.of[v] = r]
<1>1. t.of = [s.of EXCEPT ![v] = r] /\ t.active = s.active /\ t \in Sets
  BY DEF SetOK, Sets
<1> QED
  BY <1>1 DEF SetOK, Sets, Known

LEMMA ClaimShareBounds ==
    ASSUME NEW r \in Entry, NEW stake \in Nat
    PROVE  /\ ClaimShare(r, stake).share \in 0..r.pool
           /\ ClaimShare(r, stake).after \in Entry
           /\ ClaimShare(r, stake).after.pool = r.pool - ClaimShare(r, stake).share
           /\ ClaimShare(r, stake).after.status = r.status
           /\ ClaimShare(r, stake).after.self = r.self
           /\ ClaimShare(r, stake).after.delegated = r.delegated
           /\ ClaimShare(r, stake).after.pending = r.pending
<1>1. r.pool \in Nat /\ r.denom \in Nat /\ r.pool * stake \in Nat
  BY DEF Entry
<1> DEFINE share == IF r.denom > 0 THEN Min({(r.pool * stake) \div r.denom, r.pool}) ELSE r.pool
<1>2. share \in 0..r.pool
  <2>1. CASE r.denom > 0
    <3>1. (r.pool * stake) \div r.denom \in Nat
      BY <1>1, <2>1, DivBounds
    <3>2. \A a \in Nat, b \in Nat : Min({a, b}) \in 0..b
      <4> TAKE a \in Nat, b \in Nat
      <4>1. \E x \in {a, b} : \A y \in {a, b} : x =< y
        OBVIOUS
      <4> QED
        BY <4>1 DEF Min
    <3> QED
      BY <1>1, <2>1, <3>1, <3>2
  <2> QED
    BY <1>1, <2>1
<1>3. ClaimShare(r, stake).share = share
  BY DEF ClaimShare
<1> DEFINE after == [r EXCEPT !.pool = @ - share, !.denom = IF @ > stake THEN @ - stake ELSE 0]
<1>4. ClaimShare(r, stake).after = after
  BY DEF ClaimShare
<1> HIDE DEF share
<1>5. /\ after \in Entry
      /\ after.pool = r.pool - share /\ after.status = r.status /\ after.self = r.self
      /\ after.delegated = r.delegated /\ after.pending = r.pending
  <2> DEFINE left == r.pool - share
             denom == IF r.denom > stake THEN r.denom - stake ELSE 0
  <2>1. left \in Nat /\ denom \in Nat
    BY <1>1, <1>2
  <2>2. after = [r EXCEPT !.pool = left, !.denom = denom]
    BY DEF Entry
  <2>3. r.pool - share = left
    OBVIOUS
  <2> HIDE DEF left, denom, after
  <2> QED
    BY <2>1, <2>2, <2>3 DEF Entry
<1> QED
  BY <1>2, <1>3, <1>4, <1>5

(* A finalized slash takes stake and nothing that is owed. *)
LEMMA SlashFacts ==
    ASSUME NEW s, SetOK(s), NEW v \in Validator, Known(s, v), NEW reporter \in Validator,
           v # reporter, NEW outcome \in Outcomes
    PROVE  LET t == Slash(s, v, outcome, reporter) IN
           /\ SetOK(t)
           /\ \A w \in Validator :
                /\ t.of[w].delegated = s.of[w].delegated /\ t.of[w].pool = s.of[w].pool
                /\ t.of[w].self <= s.of[w].self
                /\ t.of[w].pending <= s.of[w].pending + ReporterReward
                /\ w # reporter => t.of[w].pending = s.of[w].pending
                /\ s.of[w].status = "Jailed" /\ outcome # "Tombstoned" => t.of[w].status = "Jailed"
                /\ s.of[w].status # "Tombstoned" /\ outcome # "Tombstoned"
                        => t.of[w].status # "Tombstoned"
<1> DEFINE r == s.of[v]
           after == [r EXCEPT !.self = IF @ > SlashWei THEN @ - SlashWei ELSE 0,
                              !.status = IF "Tombstoned" \in {@, outcome} THEN "Tombstoned"
                                         ELSE IF @ = "Active" THEN "Jailed" ELSE @]
           q == s.of[reporter]
           paid == [q EXCEPT !.pending = @ + ReporterReward]
           t == Slash(s, v, outcome, reporter)
<1>1. r \in Entry /\ q \in Entry /\ SlashWei \in Nat /\ ReporterReward \in Nat
  BY StakingConstants DEF SetOK, Sets
<1>2. /\ after \in Entry
      /\ after.delegated = r.delegated /\ after.pool = r.pool /\ after.pending = r.pending
      /\ after.self <= r.self /\ after.status # "Absent"
      /\ r.status = "Jailed" /\ outcome # "Tombstoned" => after.status = "Jailed"
      /\ r.status # "Tombstoned" /\ outcome # "Tombstoned" => after.status # "Tombstoned"
  <2> DEFINE self == IF r.self > SlashWei THEN r.self - SlashWei ELSE 0
             status == IF "Tombstoned" \in {r.status, outcome} THEN "Tombstoned"
                       ELSE IF r.status = "Active" THEN "Jailed" ELSE r.status
  <2>1. after = [r EXCEPT !.self = self, !.status = status]
    BY <1>1 DEF Entry
  <2>2. self \in Nat /\ self <= r.self
    BY <1>1 DEF Entry
  <2>3. r.status \in Statuses /\ r.status # "Absent" /\ outcome \in {"Jailed", "Tombstoned"}
    BY <1>1, StakingConstants DEF Entry, Known
  <2>4. /\ status \in Statuses /\ status # "Absent"
        /\ r.status = "Jailed" /\ outcome # "Tombstoned" => status = "Jailed"
        /\ r.status # "Tombstoned" /\ outcome # "Tombstoned" => status # "Tombstoned"
    <3> HIDE DEF r
    <3> QED
      BY <2>3 DEF Statuses
  <2> HIDE DEF self, status, after
  <2> QED
    BY <1>1, <2>1, <2>2, <2>4 DEF Entry
<1>3. /\ paid \in Entry
      /\ paid.delegated = q.delegated /\ paid.pool = q.pool /\ paid.self = q.self
      /\ paid.status = q.status /\ paid.pending = q.pending + ReporterReward
  BY <1>1 DEF Entry
<1>4. t.of = IF Known(s, reporter) THEN [[s.of EXCEPT ![v] = after] EXCEPT ![reporter] = paid]
             ELSE [s.of EXCEPT ![v] = after]
  <2> DEFINE of == [s.of EXCEPT ![v] = after]
  <2>1. t.of = IF Known(s, reporter) THEN [of EXCEPT ![reporter].pending = @ + ReporterReward] ELSE of
    BY DEF Slash
  <2>2. of[reporter] = q
    <3> HIDE DEF after
    <3> QED
      BY DEF SetOK, Sets
  <2>3. [of EXCEPT ![reporter].pending = @ + ReporterReward] = [of EXCEPT ![reporter] = paid]
    <3> HIDE DEF of
    <3> QED
      BY <2>2
  <2> HIDE DEF paid, t, after
  <2> QED
    BY <2>1, <2>3
<1>5. t = [of |-> t.of, active |-> s.active \ {v}] /\ t.active = s.active \ {v}
  BY DEF Slash
<1>6. \A w \in Validator : t.of[w] = IF w = v THEN after
                                     ELSE IF w = reporter /\ Known(s, reporter) THEN paid ELSE s.of[w]
  <2> HIDE DEF t, after, paid
  <2> QED
    BY <1>4 DEF SetOK, Sets
<1>7. t.of \in [Validator -> Entry]
  <2> HIDE DEF t, after, paid
  <2> QED
    BY <1>2, <1>3, <1>4 DEF SetOK, Sets
<1> HIDE DEF t, after, paid
<1>8. SetOK(t)
  <2>1. t \in Sets
    BY <1>5, <1>7 DEF SetOK, Sets
  <2>2. \A w \in Validator : w \in t.active => Known(t, w)
    BY <1>2, <1>3, <1>5, <1>6 DEF SetOK, Known
  <2>3. \A w \in Validator : Known(t, w) \/ t.of[w] = Absent
    BY <1>2, <1>3, <1>6 DEF SetOK, Known
  <2> QED
    BY <2>1, <2>2, <2>3 DEF SetOK
<1>9. ASSUME NEW w \in Validator
      PROVE  /\ t.of[w].delegated = s.of[w].delegated /\ t.of[w].pool = s.of[w].pool
             /\ t.of[w].self <= s.of[w].self
             /\ t.of[w].pending <= s.of[w].pending + ReporterReward
             /\ w # reporter => t.of[w].pending = s.of[w].pending
             /\ s.of[w].status = "Jailed" /\ outcome # "Tombstoned" => t.of[w].status = "Jailed"
             /\ s.of[w].status # "Tombstoned" /\ outcome # "Tombstoned"
                     => t.of[w].status # "Tombstoned"
  <2>1. s.of[w] \in Entry
    BY DEF SetOK, Sets
  <2>2. CASE w = v
    BY <1>1, <1>2, <1>6, <2>2 DEF Entry
  <2>3. CASE w # v /\ w = reporter /\ Known(s, reporter)
    BY <1>1, <1>3, <1>6, <2>3 DEF Entry
  <2>4. CASE w # v /\ ~ (w = reporter /\ Known(s, reporter))
    BY <1>1, <1>6, <2>1, <2>4 DEF Entry
  <2> QED
    BY <2>2, <2>3, <2>4
<1> QED
  BY <1>8, <1>9 DEF t

(* A part of the committee's share is split without remainder. *)
LEMMA SplitRewardFacts ==
    ASSUME NEW r \in Entry, NEW reward \in Nat
    PROVE  LET t == SplitReward(r, reward) IN
           /\ t \in Entry
           /\ t.status = r.status /\ t.self = r.self /\ t.delegated = r.delegated
           /\ t.pending + t.pool = r.pending + r.pool + reward
<1> DEFINE t == SplitReward(r, reward)
<1>1. r.self \in Nat /\ r.delegated \in Nat /\ r.pending \in Nat /\ r.pool \in Nat
  BY DEF Entry
<1>2. CASE r.delegated = 0
  <2>1. t = [r EXCEPT !.pending = r.pending + reward]
    BY <1>2 DEF SplitReward
  <2> HIDE DEF t
  <2>2. /\ t \in Entry /\ t.pending = r.pending + reward /\ t.pool = r.pool
        /\ t.status = r.status /\ t.self = r.self /\ t.delegated = r.delegated
    BY <1>1, <2>1 DEF Entry
  <2> QED
    BY <1>1, <2>2 DEF t
<1>3. CASE r.delegated # 0
  <2> DEFINE own == (reward * r.self) \div TotalStake(r)
             commission == CommissionOf(reward - own)
             pending == r.pending + own + commission
             pool == r.pool + (reward - own - commission)
  <2>1. own \in 0..reward
    <3>1. TotalStake(r) \in Nat \ {0} /\ r.self <= TotalStake(r)
      BY <1>1, <1>3 DEF TotalStake
    <3> QED
      BY <1>1, <3>1, DivFraction
  <2>2. commission \in 0..(reward - own)
    <3> HIDE DEF own
    <3>1. reward - own \in Nat /\ CommissionBps \in Nat /\ CommissionBps <= 10000
      BY <2>1, StakingConstants
    <3> QED
      BY <3>1, DivFraction DEF CommissionOf
  <2>3. t = [r EXCEPT !.pending = pending, !.pool = pool, !.denom = r.delegated]
    BY <1>3 DEF SplitReward
  <2>4. pending \in Nat /\ pool \in Nat /\ pending + pool = r.pending + r.pool + reward
    <3> HIDE DEF own, commission
    <3> QED
      BY <1>1, <2>1, <2>2
  <2> HIDE DEF t, pending, pool
  <2>5. /\ t \in Entry /\ t.pending = pending /\ t.pool = pool
        /\ t.status = r.status /\ t.self = r.self /\ t.delegated = r.delegated
    BY <1>1, <2>3, <2>4 DEF Entry
  <2> QED
    BY <2>4, <2>5 DEF t
<1> QED
  BY <1>2, <1>3

Stakes(s) == [v \in Validator |-> TotalStake(s.of[v])]
ActiveStake(s) == SumFunctionOnSet(Stakes(s), s.active)

(* What a validator gets of an interval: its part and the bonus. *)
PartOf(s, v) ==
    IF v \in s.active THEN (CommitteeShare * TotalStake(s.of[v])) \div ActiveStake(s) ELSE 0
BonusOf(s, v, proposer) == IF v = proposer /\ Known(s, proposer) THEN ProposerBonus ELSE 0

LEMMA MintParts ==
    /\ ProposerBonus \in Nat /\ CommitteeShare \in Nat
    /\ ProposerBonus + CommitteeShare = IntervalMint /\ IntervalMint \in Nat
<1>1. IntervalMint \in Nat
  BY StakingConstants
<1> QED
  BY <1>1 DEF ProposerBonus, CommitteeShare

LEMMA StakesType ==
    ASSUME NEW s, SetOK(s)
    PROVE  Stakes(s) \in [Validator -> Nat] /\ ActiveStake(s) \in Nat /\ IsFiniteSet(s.active)
<1>1. \A v \in Validator : TotalStake(s.of[v]) \in Nat
  BY DEF SetOK, Sets, Entry, TotalStake
<1>2. Stakes(s) \in [Validator -> Nat]
  BY <1>1 DEF Stakes
<1>3. s.active \in SUBSET Validator /\ IsFiniteSet(Validator)
  BY StakingConstants DEF SetOK, Sets
<1>4. IsFiniteSet(s.active)
  BY <1>3, FS_Subset
<1> QED
  BY <1>2, <1>3, <1>4, SumNat DEF ActiveStake

LEMMA PartType ==
    ASSUME NEW s, SetOK(s), ActiveStake(s) # 0, NEW v \in Validator
    PROVE  PartOf(s, v) \in Nat
<1>1. TotalStake(s.of[v]) \in Nat /\ ActiveStake(s) \in Nat /\ CommitteeShare \in Nat
  BY StakesType, MintParts DEF Stakes
<1>2. CommitteeShare * TotalStake(s.of[v]) \in Nat
  BY <1>1
<1> QED
  BY <1>1, <1>2, DivBounds DEF PartOf

LEMMA DistributeFacts ==
    ASSUME NEW s, SetOK(s), NEW proposer \in Validator
    PROVE  LET t == DistributeBlockReward(s, proposer) IN
           /\ SetOK(t)
           /\ \A v \in Validator :
                /\ t.of[v].status = s.of[v].status /\ t.of[v].self = s.of[v].self
                /\ t.of[v].delegated = s.of[v].delegated
                /\ ActiveStake(s) = 0 => t.of[v] = s.of[v]
                /\ ActiveStake(s) # 0 =>
                        t.of[v].pending + t.of[v].pool
                            = s.of[v].pending + s.of[v].pool + PartOf(s, v) + BonusOf(s, v, proposer)
<1> DEFINE t == DistributeBlockReward(s, proposer)
           bonus == IF Known(s, proposer) THEN [s.of EXCEPT ![proposer].pending = @ + ProposerBonus]
                    ELSE s.of
<1>1. CASE ActiveStake(s) = 0
  BY <1>1 DEF DistributeBlockReward, ActiveStake, Stakes
<1>2. CASE ActiveStake(s) # 0
  <2>1. t = [s EXCEPT !.of = [v \in Validator |->
                IF v \in s.active /\ PartOf(s, v) # 0 THEN SplitReward(bonus[v], PartOf(s, v))
                ELSE bonus[v]]]
    BY <1>2 DEF DistributeBlockReward, ActiveStake, Stakes, PartOf
  <2>2. ASSUME NEW v \in Validator
        PROVE  /\ bonus[v] \in Entry
               /\ bonus[v].status = s.of[v].status /\ bonus[v].self = s.of[v].self
               /\ bonus[v].delegated = s.of[v].delegated /\ bonus[v].pool = s.of[v].pool
               /\ bonus[v].pending = s.of[v].pending + BonusOf(s, v, proposer)
               /\ ~ Known(s, v) => bonus[v] = s.of[v]
    <3>1. s.of[v] \in Entry /\ s.of \in [Validator -> Entry] /\ s.of[v].pending \in Nat
      BY DEF SetOK, Sets, Entry
    <3>2. CASE v = proposer /\ Known(s, proposer)
      <4>1. bonus[v] = [s.of[v] EXCEPT !.pending = s.of[v].pending + ProposerBonus]
        BY <3>1, <3>2
      <4>2. BonusOf(s, v, proposer) = ProposerBonus /\ ProposerBonus \in Nat
        BY <3>2, MintParts DEF BonusOf
      <4> HIDE DEF bonus
      <4> QED
        BY <3>1, <3>2, <4>1, <4>2 DEF Entry
    <3>3. CASE ~ (v = proposer /\ Known(s, proposer))
      <4>1. bonus[v] = s.of[v]
        BY <3>1, <3>3
      <4>2. BonusOf(s, v, proposer) = 0
        BY <3>3 DEF BonusOf
      <4> HIDE DEF bonus
      <4> QED
        BY <3>1, <4>1, <4>2 DEF Entry
    <3> QED
      BY <3>2, <3>3
  <2> HIDE DEF bonus
  <2>3. ASSUME NEW v \in Validator
        PROVE  /\ t.of[v] \in Entry
               /\ t.of[v].status = s.of[v].status /\ t.of[v].self = s.of[v].self
               /\ t.of[v].delegated = s.of[v].delegated
               /\ t.of[v].pending + t.of[v].pool
                     = s.of[v].pending + s.of[v].pool + PartOf(s, v) + BonusOf(s, v, proposer)
               /\ ~ Known(s, v) => t.of[v] = s.of[v]
    <3>1. t.of[v] = IF v \in s.active /\ PartOf(s, v) # 0 THEN SplitReward(bonus[v], PartOf(s, v))
                    ELSE bonus[v]
      BY <2>1 DEF SetOK, Sets
    <3>2. PartOf(s, v) \in Nat
      BY <1>2, PartType
    <3>3. {s.of[v].pending, s.of[v].pool, BonusOf(s, v, proposer)} \subseteq Nat
      BY MintParts DEF SetOK, Sets, Entry, BonusOf
    <3>4. v \in s.active => Known(s, v)
      BY DEF SetOK
    <3>5. CASE v \in s.active /\ PartOf(s, v) # 0
      <4> DEFINE u == SplitReward(bonus[v], PartOf(s, v))
      <4>1. /\ u \in Entry
            /\ u.status = bonus[v].status /\ u.self = bonus[v].self /\ u.delegated = bonus[v].delegated
            /\ u.pending + u.pool = bonus[v].pending + bonus[v].pool + PartOf(s, v)
        BY <2>2, <3>2, SplitRewardFacts
      <4>2. t.of[v] = u
        BY <3>1, <3>5
      <4> HIDE DEF u, t
      <4> QED
        BY <2>2, <3>2, <3>3, <3>4, <3>5, <4>1, <4>2
    <3>6. CASE ~ (v \in s.active /\ PartOf(s, v) # 0)
      <4>1. t.of[v] = bonus[v] /\ PartOf(s, v) = 0
        BY <3>1, <3>6 DEF PartOf
      <4> HIDE DEF t
      <4> QED
        BY <2>2, <3>3, <4>1
    <3> QED
      BY <3>5, <3>6
  <2>4. t.active = s.active /\ t = [of |-> t.of, active |-> t.active] /\ t.of \in [Validator -> Entry]
    <3>1. t.active = s.active /\ t = [of |-> t.of, active |-> t.active] /\ DOMAIN t.of = Validator
            /\ t.of = [v \in Validator |-> t.of[v]]
      BY <2>1 DEF SetOK, Sets
    <3> HIDE DEF t
    <3> QED
      BY <2>3, <3>1
  <2> HIDE DEF t
  <2>5. SetOK(t)
    BY <2>3, <2>4 DEF SetOK, Sets, Known
  <2> QED
    BY <1>2, <2>3, <2>5 DEF t
<1> QED
  BY <1>1, <1>2

(* A slash aside, the status of an entry moves as an election says. *)
LEMMA ElectFacts ==
    ASSUME NEW s, SetOK(s)
    PROVE  LET t == ElectActiveSet(s) IN
           /\ SetOK(t)
           /\ \A v \in Validator :
                /\ t.of[v].self = s.of[v].self /\ t.of[v].delegated = s.of[v].delegated
                /\ t.of[v].pending = s.of[v].pending /\ t.of[v].pool = s.of[v].pool
                /\ s.of[v].status = "Jailed" => t.of[v].status = "Jailed"
                /\ s.of[v].status # "Tombstoned" => t.of[v].status # "Tombstoned"
<1> DEFINE t == ElectActiveSet(s)
<1>1. Elected(s) \subseteq {v \in Validator : Eligible(s.of[v])}
  BY DEF Elected
<1>2. /\ t = [of |-> t.of, active |-> Elected(s)] /\ t.active = Elected(s)
      /\ t.of = [v \in Validator |-> t.of[v]]
      /\ \A v \in Validator : t.of[v] =
                CASE v \in Elected(s) -> [s.of[v] EXCEPT !.status = "Active"]
                  [] v \in s.active \ Elected(s) /\ s.of[v].status = "Active" ->
                        [s.of[v] EXCEPT !.status = "Pending"]
                  [] OTHER -> s.of[v]
  BY DEF ElectActiveSet
<1> HIDE DEF t
<1>3. ASSUME NEW v \in Validator
      PROVE  /\ t.of[v] \in Entry
             /\ t.of[v].self = s.of[v].self /\ t.of[v].delegated = s.of[v].delegated
             /\ t.of[v].pending = s.of[v].pending /\ t.of[v].pool = s.of[v].pool
             /\ s.of[v].status = "Jailed" => t.of[v].status = "Jailed"
             /\ s.of[v].status # "Tombstoned" => t.of[v].status # "Tombstoned"
             /\ v \in Elected(s) => t.of[v].status = "Active"
             /\ t.of[v].status # "Absent" \/ t.of[v] = s.of[v]
  <2>1. s.of[v] \in Entry
    BY DEF SetOK, Sets
  <2>2. CASE v \in Elected(s)
    <3>1. t.of[v] = [s.of[v] EXCEPT !.status = "Active"]
      BY <1>2, <2>2
    <3>2. s.of[v].status \in {"Pending", "Active"}
      BY <1>1, <2>2 DEF Eligible
    <3> QED
      BY <2>1, <2>2, <3>1, <3>2 DEF Entry, Statuses
  <2>3. CASE v \notin Elected(s) /\ v \in s.active /\ s.of[v].status = "Active"
    <3>1. t.of[v] = [s.of[v] EXCEPT !.status = "Pending"]
      BY <1>2, <2>3
    <3> QED
      BY <2>1, <2>3, <3>1 DEF Entry, Statuses
  <2>4. CASE v \notin Elected(s) /\ ~ (v \in s.active /\ s.of[v].status = "Active")
    <3>1. t.of[v] = s.of[v]
      BY <1>2, <2>4
    <3> QED
      BY <2>1, <2>4, <3>1
  <2> QED
    BY <2>2, <2>3, <2>4
<1>4. SetOK(t)
  <2>1. t \in Sets
    BY <1>1, <1>2, <1>3 DEF Sets
  <2> QED
    BY <1>2, <1>3, <2>1 DEF SetOK, Known
<1> QED
  BY <1>3, <1>4 DEF t

(* The set after a commit: the configured validators and an election. *)
SyncedSet(s, boundary) ==
    LET of == [v \in Validator |->
                 IF v \notin Configured THEN s.of[v]
                 ELSE LET r == IF Known(s, v) THEN s.of[v] ELSE NewValidator(MinSelfStake, "Active")
                      IN  IF boundary THEN Reactivate(r) ELSE r]
        full == [s EXCEPT !.of = of]
    IN  IF boundary THEN ElectActiveSet(full) ELSE full

LEMMA SyncFacts ==
    ASSUME NEW s, SetOK(s), NEW boundary \in BOOLEAN
    PROVE  LET t == SyncedSet(s, boundary) IN
           /\ SetOK(t)
           /\ \A v \in Validator :
                /\ t.of[v].delegated = s.of[v].delegated /\ t.of[v].pending = s.of[v].pending
                /\ t.of[v].pool = s.of[v].pool
                /\ v \in Candidate => t.of[v].self = s.of[v].self
                /\ s.of[v].status = "Jailed" => t.of[v].status = "Jailed"
                /\ s.of[v].status # "Tombstoned" => t.of[v].status # "Tombstoned"
<1> DEFINE R(v) == IF Known(s, v) THEN s.of[v] ELSE NewValidator(MinSelfStake, "Active")
           E(v) == IF v \notin Configured THEN s.of[v] ELSE IF boundary THEN Reactivate(R(v)) ELSE R(v)
           full == [s EXCEPT !.of = [v \in Validator |-> E(v)]]
<1>1. ASSUME NEW v \in Validator
      PROVE  /\ E(v) \in Entry
             /\ E(v).delegated = s.of[v].delegated /\ E(v).pending = s.of[v].pending
             /\ E(v).pool = s.of[v].pool
             /\ v \in Candidate => E(v).self = s.of[v].self
             /\ s.of[v].status = "Jailed" => E(v).status = "Jailed"
             /\ s.of[v].status # "Tombstoned" => E(v).status # "Tombstoned"
             /\ E(v).status # "Absent" \/ E(v) = s.of[v]
             /\ v \in s.active => E(v).status # "Absent"
  <2>1. s.of[v] \in Entry /\ (Known(s, v) \/ s.of[v] = Absent) /\ (v \in s.active => Known(s, v))
    BY DEF SetOK, Sets
  <2>2. /\ R(v) \in Entry /\ R(v).status # "Absent"
        /\ R(v).delegated = s.of[v].delegated /\ R(v).pending = s.of[v].pending
        /\ R(v).pool = s.of[v].pool
        /\ s.of[v].status = "Jailed" => R(v).status = "Jailed"
        /\ s.of[v].status # "Tombstoned" => R(v).status # "Tombstoned"
    <3>1. CASE Known(s, v)
      BY <2>1, <3>1 DEF Known
    <3>2. CASE ~ Known(s, v)
      <4>1. MinSelfStake \in Nat /\ "Active" \in Statuses
        BY StakingConstants DEF Statuses
      <4>2. s.of[v] = Absent /\ R(v) = NewValidator(MinSelfStake, "Active")
        BY <2>1, <3>2
      <4>3. Absent.status = "Absent" /\ Absent.delegated = 0 /\ Absent.pending = 0 /\ Absent.pool = 0
        BY DEF Absent
      <4> QED
        BY <4>1, <4>2, <4>3, NewValidatorEntry
    <3> QED
      BY <3>1, <3>2
  <2>3. CASE v \notin Configured
    BY <2>1, <2>3 DEF Known
  <2> HIDE DEF R
  <2>4. CASE v \in Configured /\ (~ boundary \/ R(v).status = "Jailed")
    <3>1. E(v) = R(v) /\ v \notin Candidate
      BY <2>4, StakingConstants DEF Reactivate
    <3> HIDE DEF E
    <3> QED
      BY <2>2, <3>1
  <2>5. CASE v \in Configured /\ boundary /\ R(v).status # "Jailed"
    <3>1. E(v) = [R(v) EXCEPT !.status = "Active"] /\ v \notin Candidate
      BY <2>5, StakingConstants DEF Reactivate
    <3> HIDE DEF E
    <3> QED
      BY <2>2, <2>5, <3>1 DEF Entry, Statuses
  <2> QED
    BY <2>3, <2>4, <2>5
<1>2. SyncedSet(s, boundary) = IF boundary THEN ElectActiveSet(full) ELSE full
  BY DEF SyncedSet
<1> HIDE DEF E
<1>3. /\ full = [of |-> full.of, active |-> s.active] /\ full.active = s.active
      /\ full.of \in [Validator -> Entry]
      /\ \A v \in Validator : full.of[v] = E(v)
  BY <1>1 DEF SetOK, Sets
<1> HIDE DEF full
<1>4. SetOK(full)
  <2>1. full \in Sets
    BY <1>3 DEF SetOK, Sets
  <2> QED
    BY <1>1, <1>3, <2>1 DEF SetOK, Known
<1>5. CASE boundary
  <2> DEFINE t == ElectActiveSet(full)
  <2>1. /\ SetOK(t)
        /\ \A v \in Validator :
             /\ t.of[v].self = full.of[v].self /\ t.of[v].delegated = full.of[v].delegated
             /\ t.of[v].pending = full.of[v].pending /\ t.of[v].pool = full.of[v].pool
             /\ full.of[v].status = "Jailed" => t.of[v].status = "Jailed"
             /\ full.of[v].status # "Tombstoned" => t.of[v].status # "Tombstoned"
    BY <1>4, ElectFacts
  <2>2. SyncedSet(s, boundary) = t
    BY <1>2, <1>5
  <2> HIDE DEF t
  <2> QED
    BY <1>1, <1>3, <2>1, <2>2
<1>6. CASE ~ boundary
  <2>1. SyncedSet(s, boundary) = full
    BY <1>2, <1>6
  <2> QED
    BY <1>1, <1>3, <1>4, <2>1
<1> QED
  BY <1>5, <1>6
-----------------------------------------------------------------------------
(* Sums over the ledger and the unbondings *)

LEMMA DelegatedType ==
    ASSUME NEW l \in Ledgers, NEW v \in Validator
    PROVE  DelegatedIn(l, v) \in Nat
<1> DEFINE f == [d \in Delegator |-> l[<<v, d>>]]
<1>1. IsFiniteSet(Delegator)
  BY StakingConstants
<1>2. \A d \in Delegator : f[d] \in Nat
  BY DEF Ledgers
<1> HIDE DEF f
<1>3. SumFunctionOnSet(f, Delegator) \in Nat
  BY <1>1, <1>2, SumNat
<1> QED
  BY <1>3 DEF DelegatedIn, f

LEMMA DelegatedUpdate ==
    ASSUME NEW l \in Ledgers, NEW v \in Validator, NEW d \in Delegator, NEW x \in Nat
    PROVE  LET m == [l EXCEPT ![<<v, d>>] = x] IN
           /\ m \in Ledgers
           /\ DelegatedIn(m, v) = DelegatedIn(l, v) + x - l[<<v, d>>]
           /\ \A w \in Validator : w # v => DelegatedIn(m, w) = DelegatedIn(l, w)
<1> DEFINE m == [l EXCEPT ![<<v, d>>] = x]
           f(w) == [e \in Delegator |-> l[<<w, e>>]]
           g(w) == [e \in Delegator |-> m[<<w, e>>]]
<1>0. IsFiniteSet(Delegator)
  BY StakingConstants
<1>1. m \in Ledgers
  BY DEF Ledgers
<1>2. \A w \in Validator, e \in Delegator :
        m[<<w, e>>] = IF w = v /\ e = d THEN x ELSE l[<<w, e>>]
  BY DEF Ledgers
<1>3. \A w \in Validator, e \in Delegator : l[<<w, e>>] \in Nat
  BY DEF Ledgers
<1>4. SumFunctionOnSet(g(v), Delegator) = SumFunctionOnSet(f(v), Delegator) + x - l[<<v, d>>]
  <2> HIDE DEF m
  <2>1. /\ \A e \in Delegator : f(v)[e] \in Int /\ g(v)[e] \in Int
        /\ \A e \in Delegator \ {d} : g(v)[e] = f(v)[e]
        /\ g(v)[d] = x /\ f(v)[d] = l[<<v, d>>]
    BY <1>2, <1>3
  <2> HIDE DEF f, g
  <2>2. SumFunctionOnSet(g(v), Delegator) = SumFunctionOnSet(f(v), Delegator) + g(v)[d] - f(v)[d]
    BY <1>0, <2>1, SumUpdate
  <2> QED
    BY <2>1, <2>2
<1>5. ASSUME NEW w \in Validator, w # v
      PROVE  SumFunctionOnSet(g(w), Delegator) = SumFunctionOnSet(f(w), Delegator)
  <2> HIDE DEF m
  <2>1. \A e \in Delegator : f(w)[e] \in Int /\ g(w)[e] = f(w)[e]
    BY <1>2, <1>3, <1>5
  <2> HIDE DEF f, g
  <2> QED
    BY <1>0, <2>1, SumSame
<1> QED
  BY <1>1, <1>4, <1>5 DEF DelegatedIn

OwedTo(s, l) ==
    [v \in Validator |-> DelegatedIn(l, v) + s.of[v].pending + s.of[v].pool
                            + (IF v \in Candidate THEN s.of[v].self ELSE 0)]

LEMMA OwedIs ==
    ASSUME NEW s, NEW l, NEW u
    PROVE  Owed(s, l, u) = SumFunctionOnSet(OwedTo(s, l), Validator) + SumFunctionOnSet(u, DOMAIN u)
  BY DEF Owed, OwedTo

LEMMA OwedType ==
    ASSUME NEW s, SetOK(s), NEW l \in Ledgers
    PROVE  /\ OwedTo(s, l) \in [Validator -> Nat]
           /\ SumFunctionOnSet(OwedTo(s, l), Validator) \in Nat
<1>1. \A v \in Validator : {s.of[v].pending, s.of[v].pool, s.of[v].self} \subseteq Nat
  BY DEF SetOK, Sets, Entry
<1>2. \A v \in Validator : DelegatedIn(l, v) \in Nat
  BY DelegatedType
<1>3. OwedTo(s, l) \in [Validator -> Nat] /\ IsFiniteSet(Validator)
  BY <1>1, <1>2, StakingConstants DEF OwedTo
<1> QED
  BY <1>3, SumNat

LEMMA LeavingType ==
    ASSUME NEW u, UnbondingOK(u) PROVE SumFunctionOnSet(u, DOMAIN u) \in Nat
  BY SumNat DEF UnbondingOK

(* What is owed after the entry of one validator changed. *)
LEMMA OwedUpdate ==
    ASSUME NEW s, SetOK(s), NEW t, SetOK(t), NEW l \in Ledgers, NEW m \in Ledgers,
           NEW v \in Validator,
           \A w \in Validator : w # v => t.of[w] = s.of[w] /\ DelegatedIn(m, w) = DelegatedIn(l, w)
    PROVE  SumFunctionOnSet(OwedTo(t, m), Validator)
             = SumFunctionOnSet(OwedTo(s, l), Validator) + OwedTo(t, m)[v] - OwedTo(s, l)[v]
<1>1. OwedTo(t, m) \in [Validator -> Nat] /\ OwedTo(s, l) \in [Validator -> Nat]
  BY OwedType
<1>2. \A w \in Validator \ {v} : OwedTo(t, m)[w] = OwedTo(s, l)[w]
  BY DEF OwedTo
<1>3. IsFiniteSet(Validator)
  BY StakingConstants
<1> QED
  BY <1>1, <1>2, <1>3, SumUpdate

(* An amount is added under a key. *)
LEMMA UnbondingAdd ==
    ASSUME NEW u, UnbondingOK(u), NEW key \in Keys, NEW amount \in Nat
    PROVE  LET prior == IF key \in DOMAIN u THEN u[key] ELSE 0
               w == [k \in DOMAIN u \cup {key} |-> IF k = key THEN prior + amount ELSE u[k]]
           IN  /\ UnbondingOK(w)
               /\ SumFunctionOnSet(w, DOMAIN w) = SumFunctionOnSet(u, DOMAIN u) + amount
<1> DEFINE prior == IF key \in DOMAIN u THEN u[key] ELSE 0
           w == [k \in DOMAIN u \cup {key} |-> IF k = key THEN prior + amount ELSE u[k]]
           D == DOMAIN u
<1>1. prior \in Nat /\ D \subseteq Keys /\ IsFiniteSet(D) /\ \A k \in D : u[k] \in Nat
  BY DEF UnbondingOK
<1>2. DOMAIN w = D \cup {key} /\ IsFiniteSet(D \cup {key}) /\ D \cup {key} \subseteq Keys
  BY <1>1, FS_AddElement
<1>3. \A k \in D \cup {key} : w[k] = IF k = key THEN prior + amount ELSE u[k]
  OBVIOUS
<1>p. /\ key \in D => prior = u[key]
      /\ key \notin D => prior = 0
  OBVIOUS
<1> HIDE DEF w, D, prior
<1>4. \A k \in D \cup {key} : w[k] \in Nat
  BY <1>1, <1>3
<1>5. UnbondingOK(w)
  <2>1. w \in [D \cup {key} -> Nat]
    BY <1>4 DEF w, D
  <2>2. w \in Unbondings
    BY <1>2, <2>1 DEF Unbondings
  <2> QED
    BY <1>2, <1>4, <2>2 DEF UnbondingOK
<1>6. SumFunctionOnSet(w, D \cup {key}) = SumFunctionOnSet(u, D) + amount
  <2>1. SumFunctionOnSet(u, D) \in Nat
    BY <1>1, SumNat
  <2>2. CASE key \in D
    <3>1. D \cup {key} = D
      BY <2>2
    <3>2. SumFunctionOnSet(w, D) = SumFunctionOnSet(u, D) + w[key] - u[key]
      BY <1>1, <1>3, <1>4, <2>2, SumUpdate
    <3>3. w[key] = u[key] + amount /\ u[key] \in Nat
      BY <1>1, <1>3, <1>p, <2>2
    <3>4. SumFunctionOnSet(w, D) = SumFunctionOnSet(u, D) + amount
      BY <2>1, <3>2, <3>3
    <3> QED
      BY <3>1, <3>4, Zenon
  <2>3. CASE key \notin D
    <3>1. SumFunctionOnSet(w, D \cup {key}) = w[key] + SumFunctionOnSet(w, D)
      BY <1>1, <1>4, <2>3, SumAdd
    <3>2. SumFunctionOnSet(w, D) = SumFunctionOnSet(u, D)
      <4>1. \A k \in D : u[k] \in Int /\ w[k] = u[k]
        BY <1>1, <1>3, <2>3
      <4> QED
        BY <1>1, <4>1, SumSame
    <3>3. w[key] = amount
      BY <1>1, <1>3, <1>p, <2>3
    <3> QED
      BY <2>1, <3>1, <3>2, <3>3
  <2> QED
    BY <2>2, <2>3
<1>7. SumFunctionOnSet(w, DOMAIN w) = SumFunctionOnSet(u, D) + amount
  BY <1>2, <1>6, Zenon
<1> QED
  BY <1>5, <1>7 DEF w, D, prior

(* The matured entries are taken out. *)
LEMMA UnbondingRemove ==
    ASSUME NEW u, UnbondingOK(u), NEW keys \in SUBSET DOMAIN u
    PROVE  LET w == [k \in DOMAIN u \ keys |-> u[k]]
           IN  /\ UnbondingOK(w)
               /\ SumFunctionOnSet(u, keys) \in Nat
               /\ SumFunctionOnSet(w, DOMAIN w)
                     = SumFunctionOnSet(u, DOMAIN u) - SumFunctionOnSet(u, keys)
<1> DEFINE D == DOMAIN u
           w == [k \in D \ keys |-> u[k]]
<1>1. D \subseteq Keys /\ IsFiniteSet(D) /\ (\A k \in D : u[k] \in Nat) /\ keys \in SUBSET D
  BY DEF UnbondingOK
<1>2. DOMAIN w = D \ keys /\ \A k \in D \ keys : w[k] = u[k]
  OBVIOUS
<1> HIDE DEF w, D
<1>3. IsFiniteSet(D \ keys) /\ IsFiniteSet(keys) /\ D \ keys \in SUBSET D
  BY <1>1, FS_Subset
<1>4. UnbondingOK(w)
  <2>1. w \in [D \ keys -> Nat]
    BY <1>1 DEF w
  <2> QED
    BY <1>1, <1>2, <1>3, <2>1 DEF UnbondingOK, Unbondings
<1>5. /\ SumFunctionOnSet(u, keys) \in Nat /\ SumFunctionOnSet(u, D \ keys) \in Nat
      /\ SumFunctionOnSet(u, D) \in Nat
  BY <1>1, <1>3, SumNat
<1>6. SumFunctionOnSet(u, D) = SumFunctionOnSet(u, keys) + SumFunctionOnSet(u, D \ keys)
  BY <1>1, SumParts
<1>7. SumFunctionOnSet(w, D \ keys) = SumFunctionOnSet(u, D \ keys)
  <2>1. \A k \in D \ keys : u[k] \in Int /\ w[k] = u[k]
    BY <1>1, <1>2
  <2> QED
    BY <1>3, <2>1, SumSame
<1>8. SumFunctionOnSet(w, D \ keys) = SumFunctionOnSet(u, D) - SumFunctionOnSet(u, keys)
  BY <1>5, <1>6, <1>7
<1>9. SumFunctionOnSet(w, DOMAIN w) = SumFunctionOnSet(u, D) - SumFunctionOnSet(u, keys)
  BY <1>2, <1>8, Zenon
<1> QED
  BY <1>4, <1>5, <1>9 DEF w, D
-----------------------------------------------------------------------------
(* The calls of a block *)

(* No validator is banned; the aggregates are the sums of the ledger. *)
Clean(s) == \A v \in Validator : s.of[v].status # "Tombstoned"
Matches(s, l) == \A v \in Validator : s.of[v].delegated = DelegatedIn(l, v)
KeepsStatus(s, t) ==
    \A v \in Validator :
        /\ s.of[v].status = "Jailed" => t.of[v].status = "Jailed"
        /\ s.of[v].status # "Tombstoned" => t.of[v].status # "Tombstoned"

(* What the escrow lacks does not grow. *)
KeepsBacking(j, k) ==
    Owed(k.vs, k.ledger, k.unbonding) - k.escrow <= Owed(j.vs, j.ledger, j.unbonding) - j.escrow

CallOK(j, k) ==
    /\ JobOK(k) /\ SameCommit(j, k) /\ Conserves(j, k) /\ KeepsStatus(j.vs, k.vs)
    /\ Clean(j.vs) => KeepsBacking(j, k)
    /\ Clean(j.vs) /\ Matches(j.vs, j.ledger) => Matches(k.vs, k.ledger)

LEMMA OwedInt ==
    ASSUME NEW j, JobOK(j)
    PROVE  /\ Owed(j.vs, j.ledger, j.unbonding) \in Nat /\ j.escrow \in Nat
           /\ SumFunctionOnSet(OwedTo(j.vs, j.ledger), Validator) \in Nat
           /\ SumFunctionOnSet(j.unbonding, DOMAIN j.unbonding) \in Nat
<1>1. SetOK(j.vs) /\ j.ledger \in Ledgers /\ UnbondingOK(j.unbonding) /\ j.escrow \in Nat
  BY DEF JobOK, Jobs
<1>2. /\ SumFunctionOnSet(OwedTo(j.vs, j.ledger), Validator) \in Nat
      /\ SumFunctionOnSet(j.unbonding, DOMAIN j.unbonding) \in Nat
  BY <1>1, OwedType, LeavingType
<1> QED
  BY <1>1, <1>2, OwedIs

LEMMA StayOK == ASSUME NEW j, JobOK(j) PROVE CallOK(j, j)
<1>1. KeepsBacking(j, j)
  BY OwedInt DEF KeepsBacking
<1> QED
  BY <1>1 DEF CallOK, SameCommit, Conserves, KeepsStatus

(* Coins move between an account and the escrow. *)
LEMMA MoveCoins ==
    ASSUME NEW j, JobOK(j), NEW k, k \in Jobs, SameCommit(j, k),
           k.vs = j.vs, k.ledger = j.ledger, k.unbonding = j.unbonding,
           NEW a \in Account, k.escrow + k.wallet[a] = j.escrow + j.wallet[a],
           \A b \in Account \ {a} : k.wallet[b] = j.wallet[b]
    PROVE  JobOK(k) /\ Conserves(j, k)
<1>1. JobOK(k)
  BY DEF JobOK
<1>2. /\ j.wallet \in [Account -> Nat] /\ j.escrow \in Nat
      /\ k.wallet \in [Account -> Nat] /\ k.escrow \in Nat
  BY DEF JobOK, Jobs
<1>3. SumFunctionOnSet(k.wallet, Account)
        = SumFunctionOnSet(j.wallet, Account) + k.wallet[a] - j.wallet[a]
  BY <1>2, AccountFinite, SumUpdate
<1>4. SumFunctionOnSet(j.wallet, Account) \in Nat /\ j.wallet[a] \in Nat /\ k.wallet[a] \in Nat
  BY <1>2, AccountFinite, SumNat
<1>5. Conserves(j, k)
  BY <1>2, <1>3, <1>4 DEF Conserves, Total
<1> QED
  BY <1>1, <1>5

LEMMA PayFacts ==
    ASSUME NEW j, JobOK(j), NEW a \in Account, NEW amount \in Nat, amount <= j.escrow
    PROVE  LET k == Pay(j, a, amount) IN
           /\ JobOK(k) /\ SameCommit(j, k) /\ Conserves(j, k) /\ k.escrow = j.escrow - amount
           /\ k.vs = j.vs /\ k.ledger = j.ledger /\ k.unbonding = j.unbonding
<1> DEFINE k == Pay(j, a, amount)
<1>1. j \in Jobs /\ j.escrow \in Nat /\ j.wallet \in [Account -> Nat] /\ j.wallet[a] \in Nat
  BY DEF JobOK, Jobs
<1>2. j.escrow - amount \in Nat /\ j.wallet[a] + amount \in Nat
  BY <1>1
<1>3. /\ k \in Jobs /\ k.escrow = j.escrow - amount
      /\ k.wallet = [j.wallet EXCEPT ![a] = j.wallet[a] + amount]
      /\ k.vs = j.vs /\ k.ledger = j.ledger /\ k.unbonding = j.unbonding
      /\ k.pc = j.pc /\ k.number = j.number /\ k.proposer = j.proposer /\ k.n = j.n
  BY <1>1, <1>2 DEF Pay, Jobs
<1> HIDE DEF k
<1>4. SameCommit(j, k)
  BY <1>3 DEF SameCommit
<1>5. k.wallet[a] = j.wallet[a] + amount /\ \A b \in Account \ {a} : k.wallet[b] = j.wallet[b]
  BY <1>1, <1>3
<1>6. k.escrow + k.wallet[a] = j.escrow + j.wallet[a]
  BY <1>1, <1>3, <1>5
<1>7. JobOK(k) /\ Conserves(j, k)
  BY <1>3, <1>4, <1>5, <1>6, MoveCoins
<1> QED
  BY <1>3, <1>4, <1>7 DEF k

LEMMA LockFacts ==
    ASSUME NEW j, JobOK(j), NEW a \in Account, NEW amount \in Nat, amount <= j.wallet[a]
    PROVE  LET k == Lock(j, a, amount) IN
           /\ JobOK(k) /\ SameCommit(j, k) /\ Conserves(j, k) /\ k.escrow = j.escrow + amount
           /\ k.vs = j.vs /\ k.ledger = j.ledger /\ k.unbonding = j.unbonding
<1> DEFINE k == Lock(j, a, amount)
<1>1. j \in Jobs /\ j.escrow \in Nat /\ j.wallet \in [Account -> Nat] /\ j.wallet[a] \in Nat
  BY DEF JobOK, Jobs
<1>2. j.escrow + amount \in Nat /\ j.wallet[a] - amount \in Nat
  BY <1>1
<1>3. /\ k \in Jobs /\ k.escrow = j.escrow + amount
      /\ k.wallet = [j.wallet EXCEPT ![a] = j.wallet[a] - amount]
      /\ k.vs = j.vs /\ k.ledger = j.ledger /\ k.unbonding = j.unbonding
      /\ k.pc = j.pc /\ k.number = j.number /\ k.proposer = j.proposer /\ k.n = j.n
  BY <1>1, <1>2 DEF Lock, Jobs
<1> HIDE DEF k
<1>4. SameCommit(j, k)
  BY <1>3 DEF SameCommit
<1>5. k.wallet[a] = j.wallet[a] - amount /\ \A b \in Account \ {a} : k.wallet[b] = j.wallet[b]
  BY <1>1, <1>3
<1>6. k.escrow + k.wallet[a] = j.escrow + j.wallet[a]
  BY <1>1, <1>3, <1>5
<1>7. JobOK(k) /\ Conserves(j, k)
  BY <1>3, <1>4, <1>5, <1>6, MoveCoins
<1> QED
  BY <1>3, <1>4, <1>7 DEF k

(* What one validator's entry, its ledger and the unbondings have to show. *)
DebtTo(j, v) == OwedTo(j.vs, j.ledger)[v] + SumFunctionOnSet(j.unbonding, DOMAIN j.unbonding)

LEMMA CallOnOne ==
    ASSUME NEW j, JobOK(j), NEW k, JobOK(k), SameCommit(j, k), Conserves(j, k), NEW v \in Validator,
           \A w \in Validator : w # v => /\ k.vs.of[w] = j.vs.of[w]
                                        /\ DelegatedIn(k.ledger, w) = DelegatedIn(j.ledger, w),
           j.vs.of[v].status = "Jailed" => k.vs.of[v].status = "Jailed",
           j.vs.of[v].status # "Tombstoned" => k.vs.of[v].status # "Tombstoned",
           Clean(j.vs) => DebtTo(k, v) - k.escrow <= DebtTo(j, v) - j.escrow,
           Clean(j.vs) /\ j.vs.of[v].delegated = DelegatedIn(j.ledger, v)
                => k.vs.of[v].delegated = DelegatedIn(k.ledger, v)
    PROVE  CallOK(j, k)
<1>1. KeepsStatus(j.vs, k.vs)
  BY DEF KeepsStatus
<1>2. ASSUME Clean(j.vs) PROVE KeepsBacking(j, k)
  <2>1. /\ SetOK(j.vs) /\ j.ledger \in Ledgers /\ SetOK(k.vs) /\ k.ledger \in Ledgers
    BY DEF JobOK, Jobs
  <2> DEFINE a == SumFunctionOnSet(OwedTo(j.vs, j.ledger), Validator)
             b == SumFunctionOnSet(OwedTo(k.vs, k.ledger), Validator)
             x == OwedTo(j.vs, j.ledger)[v]
             y == OwedTo(k.vs, k.ledger)[v]
             p == SumFunctionOnSet(j.unbonding, DOMAIN j.unbonding)
             q == SumFunctionOnSet(k.unbonding, DOMAIN k.unbonding)
  <2>2. b = a + y - x
    BY <2>1, OwedUpdate
  <2>3. x \in Nat /\ y \in Nat
    BY <2>1, OwedType
  <2>4. a \in Nat /\ b \in Nat /\ p \in Nat /\ q \in Nat /\ j.escrow \in Nat /\ k.escrow \in Nat
    BY OwedInt
  <2>5. y + q - k.escrow <= x + p - j.escrow
    <3>1. DebtTo(k, v) = y + q /\ DebtTo(j, v) = x + p
      BY Zenon DEF DebtTo
    <3>2. DebtTo(k, v) - k.escrow <= DebtTo(j, v) - j.escrow
      BY <1>2
    <3> HIDE DEF x, y, p, q
    <3> QED
      BY <2>3, <2>4, <3>1, <3>2
  <2>6. Owed(j.vs, j.ledger, j.unbonding) = a + p /\ Owed(k.vs, k.ledger, k.unbonding) = b + q
    BY OwedIs
  <2> HIDE DEF a, b, x, y, p, q
  <2> QED
    BY <2>2, <2>3, <2>4, <2>5, <2>6 DEF KeepsBacking
<1>3. ASSUME Clean(j.vs), Matches(j.vs, j.ledger) PROVE Matches(k.vs, k.ledger)
  BY <1>3 DEF Matches
<1> QED
  BY <1>1, <1>2, <1>3 DEF CallOK

(* The same, with what the call does to its one validator as one fact. *)
OnlyTouches(j, k, v) ==
    /\ JobOK(k) /\ SameCommit(j, k) /\ Conserves(j, k)
    /\ \A w \in Validator : w # v => /\ k.vs.of[w] = j.vs.of[w]
                                     /\ DelegatedIn(k.ledger, w) = DelegatedIn(j.ledger, w)
    /\ k.vs.of[v].status = j.vs.of[v].status
    /\ DebtTo(k, v) - k.escrow <= DebtTo(j, v) - j.escrow
    /\ j.vs.of[v].delegated = DelegatedIn(j.ledger, v) => k.vs.of[v].delegated = DelegatedIn(k.ledger, v)

LEMMA CallTouching ==
    ASSUME NEW j, JobOK(j), NEW k, NEW v \in Validator, OnlyTouches(j, k, v)
    PROVE  CallOK(j, k)
  BY CallOnOne DEF OnlyTouches

LEMMA DebtIs ==
    ASSUME NEW j, JobOK(j), NEW v \in Validator
    PROVE  /\ DebtTo(j, v) = DelegatedIn(j.ledger, v) + j.vs.of[v].pending + j.vs.of[v].pool
                              + (IF v \in Candidate THEN j.vs.of[v].self ELSE 0)
                              + SumFunctionOnSet(j.unbonding, DOMAIN j.unbonding)
           /\ DelegatedIn(j.ledger, v) \in Nat /\ j.vs.of[v] \in Entry
           /\ {j.vs.of[v].self, j.vs.of[v].pending, j.vs.of[v].pool, j.vs.of[v].delegated} \subseteq Nat
           /\ SumFunctionOnSet(j.unbonding, DOMAIN j.unbonding) \in Nat /\ j.escrow \in Nat
<1>1. j.ledger \in Ledgers /\ j.vs.of[v] \in Entry
  BY DEF JobOK, Jobs, Sets
<1>2. {j.vs.of[v].self, j.vs.of[v].pending, j.vs.of[v].pool, j.vs.of[v].delegated} \subseteq Nat
  BY <1>1 DEF Entry
<1>3. DelegatedIn(j.ledger, v) \in Nat
  BY <1>1, DelegatedType
<1>4. SumFunctionOnSet(j.unbonding, DOMAIN j.unbonding) \in Nat /\ j.escrow \in Nat
  BY OwedInt
<1> QED
  BY <1>1, <1>2, <1>3, <1>4 DEF DebtTo, OwedTo

LEMMA RegisterOK ==
    ASSUME NEW j, JobOK(j), NEW c, c.from \in Candidate, c.amount \in Nat,
           c.amount <= j.wallet[c.from]
    PROVE  CallOK(j, Register(j, c))
<1> DEFINE v == c.from
           r == NewValidator(c.amount, "Pending")
           m == [j EXCEPT !.vs.of[v] = r]
           k == Lock(m, v, c.amount)
<1>1. CASE Known(j.vs, v) \/ c.amount < MinSelfStake
  BY <1>1, StayOK DEF Register
<1>2. CASE ~ (Known(j.vs, v) \/ c.amount < MinSelfStake)
  <2>1. Register(j, c) = k
    BY <1>2 DEF Register
  <2>2. v \in Validator /\ v \in Account /\ j \in Jobs /\ SetOK(j.vs) /\ j.vs.of[v] = Absent
    BY <1>2 DEF Validator, Account, JobOK, SetOK
  <2>3. /\ r \in Entry /\ r.status = "Pending" /\ r.delegated = 0 /\ r.pending = 0
        /\ r.pool = 0 /\ r.self = c.amount
    <3>1. "Pending" \in Statuses
      BY DEF Statuses
    <3> QED
      BY <3>1, NewValidatorEntry
  <2> DEFINE s == [j.vs EXCEPT !.of[v] = r]
  <2>4. SetOK(s) /\ s.of = [j.vs.of EXCEPT ![v] = r]
    BY <2>2, <2>3, SetUpdate
  <2>5. m = [j EXCEPT !.vs = s]
    BY <2>2 DEF Jobs
  <2> HIDE DEF m, s, r
  <2>6. /\ m \in Jobs /\ m.vs = s /\ m.ledger = j.ledger /\ m.unbonding = j.unbonding
        /\ m.wallet = j.wallet /\ m.escrow = j.escrow
        /\ m.pc = j.pc /\ m.number = j.number /\ m.proposer = j.proposer /\ m.n = j.n
    BY <2>2, <2>4, <2>5 DEF Jobs, SetOK
  <2>7. JobOK(m)
    BY <2>4, <2>6 DEF JobOK
  <2>8. /\ JobOK(k) /\ SameCommit(m, k) /\ Conserves(m, k) /\ k.escrow = m.escrow + c.amount
        /\ k.vs = m.vs /\ k.ledger = m.ledger /\ k.unbonding = m.unbonding
    BY <2>2, <2>6, <2>7, LockFacts
  <2> HIDE DEF k
  <2>9. SameCommit(j, k) /\ Conserves(j, k)
    BY <2>6, <2>8 DEF SameCommit, Conserves
  <2>10. k.vs.of[v] = r /\ \A w \in Validator : w # v => k.vs.of[w] = j.vs.of[w]
    BY <2>2, <2>4, <2>6, <2>8 DEF SetOK, Sets
  <2>11. DebtTo(k, v) - k.escrow <= DebtTo(j, v) - j.escrow
    BY <2>2, <2>3, <2>6, <2>8, <2>10, DebtIs
  <2>12. CallOK(j, k)
    BY <2>2, <2>3, <2>6, <2>8, <2>9, <2>10, <2>11, AbsentEntry, CallOnOne
  <2> QED
    BY <2>1, <2>12
<1> QED
  BY <1>1, <1>2

LEMMA DelegateOK ==
    ASSUME NEW j, JobOK(j), NEW c, c.from \in Delegator, c.to \in Validator, c.amount \in Nat,
           c.amount <= j.wallet[c.from]
    PROVE  CallOK(j, Delegate(j, c))
<1> DEFINE v == c.to
           d == c.from
           l == [j.ledger EXCEPT ![<<v, d>>] = j.ledger[<<v, d>>] + c.amount]
           noted == [j EXCEPT !.ledger[<<v, d>>] = @ + c.amount]
           e == j.vs.of[v]
           r == [e EXCEPT !.delegated = e.delegated + c.amount]
           s == [j.vs EXCEPT !.of[v] = r]
           m == [noted EXCEPT !.vs.of[v].delegated = @ + c.amount]
           k == Lock(m, d, c.amount)
<1>1. j \in Jobs /\ SetOK(j.vs) /\ e \in Entry /\ j.ledger \in Ledgers /\ d \in Account
  BY DEF JobOK, Jobs, SetOK, Sets, Account
<1>2. j.ledger[<<v, d>>] \in Nat /\ j.ledger[<<v, d>>] + c.amount \in Nat
  BY <1>1 DEF Ledgers
<1>3. /\ l \in Ledgers
      /\ DelegatedIn(l, v) = DelegatedIn(j.ledger, v) + (j.ledger[<<v, d>>] + c.amount) - j.ledger[<<v, d>>]
      /\ \A w \in Validator : w # v => DelegatedIn(l, w) = DelegatedIn(j.ledger, w)
  BY <1>1, <1>2, DelegatedUpdate
<1>4. DelegatedIn(l, v) = DelegatedIn(j.ledger, v) + c.amount
  <2>1. DelegatedIn(j.ledger, v) \in Nat
    BY <1>1, DelegatedType
  <2> HIDE DEF l
  <2> QED
    BY <1>2, <1>3, <2>1
<1>5. noted = [j EXCEPT !.ledger = l]
  BY <1>1 DEF Jobs
<1> HIDE DEF l, noted
<1>6. /\ noted \in Jobs /\ noted.ledger = l /\ noted.vs = j.vs /\ noted.unbonding = j.unbonding
      /\ noted.wallet = j.wallet /\ noted.escrow = j.escrow
      /\ noted.pc = j.pc /\ noted.number = j.number /\ noted.proposer = j.proposer /\ noted.n = j.n
  BY <1>1, <1>3, <1>5 DEF Jobs
<1>7. JobOK(noted)
  BY <1>6 DEF JobOK
<1>8. CASE e.status \in {"Absent", "Jailed", "Inactive", "Unbonding"}
  BY <1>8, StayOK DEF Delegate
<1>9. CASE e.status = "Tombstoned"
  <2>1. Delegate(j, c) = noted
    BY <1>9 DEF Delegate, noted
  <2>2. SameCommit(j, noted) /\ Conserves(j, noted)
    BY <1>6 DEF SameCommit, Conserves
  <2>3. ~ Clean(j.vs)
    BY <1>9 DEF Clean
  <2>4. CallOK(j, noted)
    BY <1>6, <1>7, <2>2, <2>3 DEF CallOK, KeepsStatus
  <2> QED
    BY <2>1, <2>4
<1>10. CASE e.status \notin {"Absent", "Jailed", "Inactive", "Unbonding", "Tombstoned"}
  <2>1. Delegate(j, c) = k
    BY <1>10 DEF Delegate, noted
  <2>2. /\ r \in Entry /\ r.status = e.status /\ r.delegated = e.delegated + c.amount
        /\ r.pending = e.pending /\ r.pool = e.pool /\ r.self = e.self
    BY <1>1 DEF Entry
  <2>3. SetOK(s) /\ s.of = [j.vs.of EXCEPT ![v] = r]
    <3> HIDE DEF r
    <3> QED
      BY <1>1, <1>10, <2>2, SetUpdate
  <2>4. m = [noted EXCEPT !.vs = s]
    BY <1>6 DEF Jobs
  <2> HIDE DEF m, s, r
  <2>6. /\ m \in Jobs /\ m.vs = s /\ m.ledger = l /\ m.unbonding = j.unbonding
        /\ m.wallet = j.wallet /\ m.escrow = j.escrow
        /\ m.pc = j.pc /\ m.number = j.number /\ m.proposer = j.proposer /\ m.n = j.n
    BY <1>6, <2>3, <2>4 DEF Jobs, SetOK
  <2>7. JobOK(m)
    BY <2>3, <2>6 DEF JobOK
  <2>8. /\ JobOK(k) /\ SameCommit(m, k) /\ Conserves(m, k) /\ k.escrow = m.escrow + c.amount
        /\ k.vs = m.vs /\ k.ledger = m.ledger /\ k.unbonding = m.unbonding
    BY <1>1, <2>6, <2>7, LockFacts
  <2> HIDE DEF k
  <2>9. SameCommit(j, k) /\ Conserves(j, k)
    BY <2>6, <2>8 DEF SameCommit, Conserves
  <2>10. k.vs.of[v] = r /\ \A w \in Validator : w # v => k.vs.of[w] = j.vs.of[w]
    BY <1>1, <2>3, <2>6, <2>8 DEF SetOK, Sets
  <2>11. k.ledger = l /\ k.unbonding = j.unbonding /\ k.escrow = j.escrow + c.amount
    BY <2>6, <2>8
  <2>12. DebtTo(k, v) - k.escrow <= DebtTo(j, v) - j.escrow
    BY <1>4, <2>2, <2>8, <2>10, <2>11, DebtIs
  <2>13. e.delegated = DelegatedIn(j.ledger, v) => k.vs.of[v].delegated = DelegatedIn(k.ledger, v)
    BY <1>4, <2>2, <2>10, <2>11
  <2>14. CallOK(j, k)
    <3>1. \A w \in Validator : w # v => /\ k.vs.of[w] = j.vs.of[w]
                                         /\ DelegatedIn(k.ledger, w) = DelegatedIn(j.ledger, w)
      BY <1>3, <2>10, <2>11
    <3>2. k.vs.of[v].status = j.vs.of[v].status
      BY <2>2, <2>10
    <3>3. OnlyTouches(j, k, v)
      BY <2>8, <2>9, <2>12, <2>13, <3>1, <3>2 DEF OnlyTouches
    <3> QED
      BY <3>3, CallTouching
  <2> QED
    BY <2>1, <2>14
<1> QED
  BY <1>8, <1>9, <1>10

LEMMA UndelegateOK ==
    ASSUME NEW j, JobOK(j), NEW c, c.from \in Delegator, c.to \in Validator, c.amount \in Nat
    PROVE  CallOK(j, Undelegate(j, c))
<1> DEFINE v == c.to
           d == c.from
           x == j.ledger[<<v, d>>] - c.amount
           l == [j.ledger EXCEPT ![<<v, d>>] = x]
           e == j.vs.of[v]
           r == [e EXCEPT !.delegated = e.delegated - c.amount]
           s == [j.vs EXCEPT !.of[v] = r]
           key == <<j.number + UnbondingPeriod, d, v>>
           prior == IF key \in DOMAIN j.unbonding THEN j.unbonding[key] ELSE 0
           u == [q \in DOMAIN j.unbonding \cup {key} |->
                    IF q = key THEN prior + c.amount ELSE j.unbonding[q]]
           k == [j EXCEPT !.ledger[<<v, d>>] = @ - c.amount,
                       !.unbonding = [q \in DOMAIN @ \cup {key} |->
                                         IF q = key THEN prior + c.amount ELSE @[q]],
                       !.vs.of[v].delegated = @ - c.amount]
<1>1. /\ j \in Jobs /\ SetOK(j.vs) /\ e \in Entry /\ j.ledger \in Ledgers
      /\ UnbondingOK(j.unbonding) /\ j.number \in Nat /\ e.delegated \in Nat
  BY DEF JobOK, Jobs, SetOK, Sets, Entry
<1>2. CASE ~ Known(j.vs, v) \/ e.delegated < c.amount \/ j.ledger[<<v, d>>] < c.amount
  BY <1>2, StayOK DEF Undelegate
<1>3. CASE ~ (~ Known(j.vs, v) \/ e.delegated < c.amount \/ j.ledger[<<v, d>>] < c.amount)
  <2>1. Undelegate(j, c) = k
    BY <1>3 DEF Undelegate
  <2>2. j.ledger[<<v, d>>] \in Nat /\ x \in Nat /\ e.delegated - c.amount \in Nat
    BY <1>1, <1>3 DEF Ledgers
  <2>3. /\ l \in Ledgers /\ DelegatedIn(l, v) = DelegatedIn(j.ledger, v) + x - j.ledger[<<v, d>>]
        /\ \A w \in Validator : w # v => DelegatedIn(l, w) = DelegatedIn(j.ledger, w)
    <3> HIDE DEF x
    <3> QED
      BY <1>1, <2>2, DelegatedUpdate
  <2>4. DelegatedIn(l, v) = DelegatedIn(j.ledger, v) - c.amount
    <3>1. DelegatedIn(j.ledger, v) \in Nat
      BY <1>1, DelegatedType
    <3> HIDE DEF l
    <3> QED
      BY <2>2, <2>3, <3>1
  <2>5. /\ UnbondingOK(u)
        /\ SumFunctionOnSet(u, DOMAIN u)
             = SumFunctionOnSet(j.unbonding, DOMAIN j.unbonding) + c.amount
    <3>1. UnbondingPeriod \in Nat
      BY StakingConstants
    <3>2. key \in Keys
      BY <1>1, <3>1 DEF Keys
    <3> HIDE DEF key
    <3> QED
      BY <1>1, <3>2, UnbondingAdd
  <2>6. /\ r \in Entry /\ r.status = e.status /\ r.delegated = e.delegated - c.amount
        /\ r.pending = e.pending /\ r.pool = e.pool /\ r.self = e.self
    BY <1>1, <2>2 DEF Entry
  <2>7. SetOK(s) /\ s.of = [j.vs.of EXCEPT ![v] = r]
    <3>1. r.status # "Absent"
      BY <1>3, <2>6 DEF Known
    <3> HIDE DEF r
    <3> QED
      BY <1>1, <2>6, <3>1, SetUpdate
  <2>8. k = [j EXCEPT !.ledger = l, !.unbonding = u, !.vs = s]
    BY <1>1 DEF Jobs
  <2> HIDE DEF k, l, u, s, r, x, prior, key
  <2>9. /\ k \in Jobs /\ k.vs = s /\ k.ledger = l /\ k.unbonding = u
        /\ k.wallet = j.wallet /\ k.escrow = j.escrow
        /\ k.pc = j.pc /\ k.number = j.number /\ k.proposer = j.proposer /\ k.n = j.n
    BY <1>1, <2>3, <2>5, <2>7, <2>8 DEF Jobs, SetOK, UnbondingOK
  <2>10. JobOK(k) /\ SameCommit(j, k) /\ Conserves(j, k)
    BY <2>5, <2>7, <2>9 DEF JobOK, SameCommit, Conserves
  <2>11. k.vs.of[v] = r /\ \A w \in Validator : w # v => k.vs.of[w] = j.vs.of[w]
    BY <1>1, <2>7, <2>9 DEF SetOK, Sets
  <2>12. DebtTo(k, v) - k.escrow <= DebtTo(j, v) - j.escrow
    <3>1. SumFunctionOnSet(k.unbonding, DOMAIN k.unbonding)
             = SumFunctionOnSet(j.unbonding, DOMAIN j.unbonding) + c.amount
      BY <2>5, <2>9, Zenon
    <3> QED
      BY <2>4, <2>6, <2>9, <2>10, <2>11, <3>1, DebtIs
  <2>13. e.delegated = DelegatedIn(j.ledger, v) => k.vs.of[v].delegated = DelegatedIn(k.ledger, v)
    BY <2>4, <2>6, <2>9, <2>11
  <2>14. CallOK(j, k)
    <3>1. \A w \in Validator : w # v => /\ k.vs.of[w] = j.vs.of[w]
                                         /\ DelegatedIn(k.ledger, w) = DelegatedIn(j.ledger, w)
      BY <2>3, <2>9, <2>11
    <3>2. k.vs.of[v].status = j.vs.of[v].status
      BY <2>6, <2>11
    <3> QED
      BY <2>10, <2>12, <2>13, <3>1, <3>2, CallTouching DEF OnlyTouches
  <2> QED
    BY <2>1, <2>14
<1> QED
  BY <1>2, <1>3

LEMMA WithdrawOK ==
    ASSUME NEW j, JobOK(j), NEW c, c.from \in Delegator, c.to \in Validator
    PROVE  CallOK(j, Withdraw(j, c))
<1> DEFINE keys == Matured(j, c)
           total == SumFunctionOnSet(j.unbonding, keys)
           u == [q \in DOMAIN j.unbonding \ keys |-> j.unbonding[q]]
           m == [j EXCEPT !.unbonding = [q \in DOMAIN @ \ keys |-> @[q]]]
           k == Pay(m, c.from, total)
<1>1. j \in Jobs /\ UnbondingOK(j.unbonding) /\ SetOK(j.vs) /\ c.from \in Account
  BY DEF JobOK, Account
<1>2. keys \in SUBSET DOMAIN j.unbonding
  BY DEF Matured
<1>3. CASE keys = {} \/ j.escrow < total
  BY <1>3, StayOK DEF Withdraw
<1>4. CASE ~ (keys = {} \/ j.escrow < total)
  <2>1. Withdraw(j, c) = k
    BY <1>4 DEF Withdraw
  <2>2. /\ UnbondingOK(u) /\ total \in Nat
        /\ SumFunctionOnSet(u, DOMAIN u)
             = SumFunctionOnSet(j.unbonding, DOMAIN j.unbonding) - total
    <3> HIDE DEF keys
    <3> QED
      BY <1>1, <1>2, UnbondingRemove
  <2>3. m = [j EXCEPT !.unbonding = u]
    BY <1>1 DEF Jobs
  <2> HIDE DEF m, u, total, keys
  <2>4. /\ m \in Jobs /\ m.vs = j.vs /\ m.ledger = j.ledger /\ m.unbonding = u
        /\ m.wallet = j.wallet /\ m.escrow = j.escrow
        /\ m.pc = j.pc /\ m.number = j.number /\ m.proposer = j.proposer /\ m.n = j.n
    BY <1>1, <2>2, <2>3 DEF Jobs, UnbondingOK
  <2>5. JobOK(m) /\ total <= m.escrow
    BY <1>1, <1>4, <2>2, <2>4 DEF JobOK, Jobs
  <2>6. /\ JobOK(k) /\ SameCommit(m, k) /\ Conserves(m, k) /\ k.escrow = m.escrow - total
        /\ k.vs = m.vs /\ k.ledger = m.ledger /\ k.unbonding = m.unbonding
    BY <1>1, <2>2, <2>5, PayFacts
  <2> HIDE DEF k
  <2>7. SameCommit(j, k) /\ Conserves(j, k)
    BY <2>4, <2>6 DEF SameCommit, Conserves
  <2>8. k.vs = j.vs /\ k.ledger = j.ledger /\ k.escrow = j.escrow - total
    BY <2>4, <2>6
  <2>9. DebtTo(k, c.to) - k.escrow <= DebtTo(j, c.to) - j.escrow
    <3>1. SumFunctionOnSet(k.unbonding, DOMAIN k.unbonding)
             = SumFunctionOnSet(j.unbonding, DOMAIN j.unbonding) - total
      BY <2>2, <2>4, <2>6, Zenon
    <3> QED
      BY <2>2, <2>6, <2>8, <3>1, DebtIs
  <2>10. CallOK(j, k)
    BY <2>6, <2>7, <2>8, <2>9, CallOnOne
  <2> QED
    BY <2>1, <2>10
<1> QED
  BY <1>3, <1>4

(* A claim replaces the entry by one that owes less and pays at most the   *)
(* difference.                                                             *)
LEMMA ClaimOK ==
    ASSUME NEW j, JobOK(j), NEW v \in Validator, Known(j.vs, v), NEW a \in Account, NEW r \in Entry,
           r.status = j.vs.of[v].status, r.self = j.vs.of[v].self,
           r.delegated = j.vs.of[v].delegated, NEW amount \in Nat,
           r.pending + r.pool + amount = j.vs.of[v].pending + j.vs.of[v].pool,
           NEW m, m \in Jobs, SameCommit(j, m), m.vs = [j.vs EXCEPT !.of[v] = r],
           m.ledger = j.ledger, m.unbonding = j.unbonding, m.wallet = j.wallet, m.escrow = j.escrow
    PROVE  /\ CallOK(j, m)
           /\ amount <= j.escrow => CallOK(j, Pay(m, a, amount))
<1> DEFINE s == [j.vs EXCEPT !.of[v] = r]
           e == j.vs.of[v]
           k == Pay(m, a, amount)
<1>1. j \in Jobs /\ SetOK(j.vs) /\ e \in Entry /\ r.status # "Absent"
  BY DEF JobOK, SetOK, Sets, Known
<1>2. SetOK(s) /\ s.of = [j.vs.of EXCEPT ![v] = r]
  BY <1>1, SetUpdate
<1>3. m.vs = s
  OBVIOUS
<1> HIDE DEF s
<1>4. m.ledger = j.ledger /\ m.unbonding = j.unbonding /\ m.wallet = j.wallet /\ m.escrow = j.escrow
  OBVIOUS
<1>5. JobOK(m) /\ Conserves(j, m)
  BY <1>2, <1>3 DEF JobOK, Conserves
<1>6. m.vs.of[v] = r /\ \A w \in Validator : w # v => m.vs.of[w] = j.vs.of[w]
  BY <1>1, <1>2, <1>3 DEF SetOK, Sets
<1>7. DebtTo(m, v) = DebtTo(j, v) - amount
  <2> DEFINE left == SumFunctionOnSet(j.unbonding, DOMAIN j.unbonding)
             given == DelegatedIn(j.ledger, v)
             own(x) == IF v \in Candidate THEN x.self ELSE 0
  <2>1. DebtTo(j, v) = given + e.pending + e.pool + own(e) + left
    BY DebtIs
  <2>2. DebtTo(m, v) = given + r.pending + r.pool + own(r) + left
    <3>1. DebtTo(m, v) = DelegatedIn(m.ledger, v) + m.vs.of[v].pending + m.vs.of[v].pool
                              + (IF v \in Candidate THEN m.vs.of[v].self ELSE 0)
                              + SumFunctionOnSet(m.unbonding, DOMAIN m.unbonding)
      BY <1>5, DebtIs
    <3> QED
      BY <1>4, <1>6, <3>1, Zenon
  <2>3. left \in Nat /\ given \in Nat /\ {e.self, e.pending, e.pool} \subseteq Nat
    BY DebtIs
  <2>4. {r.self, r.pending, r.pool} \subseteq Nat
    BY DEF Entry
  <2>5. own(r) = own(e) /\ own(e) \in Nat
    BY <2>3
  <2>6. r.pending + r.pool + amount = e.pending + e.pool
    OBVIOUS
  <2> HIDE DEF left, given, own
  <2> QED
    BY <2>1, <2>2, <2>3, <2>4, <2>5, <2>6
<1>8. /\ DebtTo(j, v) \in Int /\ j.escrow \in Nat
  BY DebtIs
<1>9. CallOK(j, m)
  <2> HIDE DEF k, e
  <2>1. DebtTo(m, v) - m.escrow <= DebtTo(j, v) - j.escrow
    BY <1>4, <1>7, <1>8
  <2>2. \A w \in Validator : w # v => /\ m.vs.of[w] = j.vs.of[w]
                                       /\ DelegatedIn(m.ledger, w) = DelegatedIn(j.ledger, w)
    BY <1>4, <1>6
  <2>3. /\ m.vs.of[v].status = j.vs.of[v].status
        /\ j.vs.of[v].delegated = DelegatedIn(j.ledger, v) => m.vs.of[v].delegated = DelegatedIn(m.ledger, v)
    BY <1>4, <1>6
  <2> QED
    BY <1>5, <2>1, <2>2, <2>3, CallTouching DEF OnlyTouches
<1>10. ASSUME amount <= j.escrow PROVE CallOK(j, k)
  <2>1. /\ JobOK(k) /\ SameCommit(m, k) /\ Conserves(m, k) /\ k.escrow = m.escrow - amount
        /\ k.vs = m.vs /\ k.ledger = m.ledger /\ k.unbonding = m.unbonding
    BY <1>4, <1>5, <1>10, PayFacts
  <2> HIDE DEF k
  <2>2. SameCommit(j, k) /\ Conserves(j, k)
    BY <1>5, <2>1 DEF SameCommit, Conserves
  <2>3. DebtTo(k, v) = DebtTo(m, v)
    BY <2>1, Zenon DEF DebtTo
  <2>4. DebtTo(k, v) - k.escrow <= DebtTo(j, v) - j.escrow
    BY <1>4, <1>7, <1>8, <2>1, <2>3
  <2>5. k.ledger = j.ledger /\ k.vs.of[v] = r /\ \A w \in Validator : w # v => k.vs.of[w] = j.vs.of[w]
    BY <1>4, <1>6, <2>1
  <2>6. JobOK(k)
    BY <2>1
  <2> QED
    BY <2>2, <2>4, <2>5, <2>6, CallOnOne
<1> QED
  BY <1>9, <1>10

LEMMA ClaimRewardsOK ==
    ASSUME NEW j, JobOK(j), NEW c, c.to \in Validator
    PROVE  CallOK(j, ClaimRewards(j, c))
<1> DEFINE v == c.to
           e == j.vs.of[v]
           r == [e EXCEPT !.pending = 0]
           m == [j EXCEPT !.vs.of[v].pending = 0]
<1>1. CASE c.from # c.to \/ ~ Known(j.vs, v)
  <2>1. ClaimRewards(j, c) = j
    BY <1>1 DEF ClaimRewards
  <2> QED
    BY <2>1, StayOK
<1>2. CASE ~ (c.from # c.to \/ ~ Known(j.vs, v))
  <2>1. j \in Jobs /\ e \in Entry /\ e.pending \in Nat /\ e.pool \in Nat /\ v \in Account
    BY DEF JobOK, Jobs, Sets, Entry, Account
  <2>2. /\ r \in Entry /\ r.status = e.status /\ r.self = e.self /\ r.delegated = e.delegated
        /\ r.pending + r.pool + e.pending = e.pending + e.pool
    BY <2>1 DEF Entry
  <2>3. /\ m \in Jobs /\ SameCommit(j, m) /\ m.vs = [j.vs EXCEPT !.of[v] = r]
        /\ m.ledger = j.ledger /\ m.unbonding = j.unbonding /\ m.wallet = j.wallet
        /\ m.escrow = j.escrow
    <3>1. m = [j EXCEPT !.vs.of[v] = r]
      BY <2>1 DEF Jobs, Sets
    <3> HIDE DEF m, r
    <3> QED
      BY <2>1, <2>2, <3>1 DEF Jobs, Sets, SameCommit
  <2>4. ClaimRewards(j, c) = IF j.escrow < e.pending THEN m ELSE Pay(m, v, e.pending)
    BY <1>2 DEF ClaimRewards
  <2>5. j.escrow \in Nat
    BY DEF JobOK, Jobs
  <2>6. CallOK(j, m) /\ (e.pending <= j.escrow => CallOK(j, Pay(m, v, e.pending)))
    <3> HIDE DEF m, r
    <3> QED
      BY <1>2, <2>1, <2>2, <2>3, ClaimOK
  <2> HIDE DEF m
  <2> QED
    BY <2>1, <2>4, <2>5, <2>6
<1> QED
  BY <1>1, <1>2

LEMMA ClaimDelegatorRewardsOK ==
    ASSUME NEW j, JobOK(j), NEW c, c.to \in Validator, c.from \in Delegator
    PROVE  CallOK(j, ClaimDelegatorRewards(j, c))
<1> DEFINE v == c.to
           e == j.vs.of[v]
           stake == j.ledger[<<v, c.from>>]
           claim == ClaimShare(e, stake)
           m == [j EXCEPT !.vs.of[v] = claim.after]
<1>1. CASE stake = 0 \/ ~ Known(j.vs, v) \/ e.pool = 0
  <2>1. ClaimDelegatorRewards(j, c) = j
    BY <1>1 DEF ClaimDelegatorRewards
  <2> QED
    BY <2>1, StayOK
<1>2. CASE ~ (stake = 0 \/ ~ Known(j.vs, v) \/ e.pool = 0)
  <2>1. /\ j \in Jobs /\ e \in Entry /\ e.pending \in Nat /\ e.pool \in Nat
        /\ c.from \in Account /\ stake \in Nat /\ j.escrow \in Nat
    BY DEF JobOK, Jobs, Sets, Entry, Account, Ledgers
  <2>2. /\ claim.share \in 0..e.pool /\ claim.after \in Entry
        /\ claim.after.pool = e.pool - claim.share /\ claim.after.status = e.status
        /\ claim.after.self = e.self /\ claim.after.delegated = e.delegated
        /\ claim.after.pending = e.pending
    BY <2>1, ClaimShareBounds
  <2>3. ClaimDelegatorRewards(j, c)
            = IF claim.share = 0 \/ j.escrow < claim.share THEN m ELSE Pay(m, c.from, claim.share)
    BY <1>2 DEF ClaimDelegatorRewards
  <2> HIDE DEF claim
  <2>4. claim.share \in Nat /\ claim.after.pending + claim.after.pool + claim.share = e.pending + e.pool
    BY <2>1, <2>2
  <2>5. /\ m \in Jobs /\ SameCommit(j, m) /\ m.vs = [j.vs EXCEPT !.of[v] = claim.after]
        /\ m.ledger = j.ledger /\ m.unbonding = j.unbonding /\ m.wallet = j.wallet
        /\ m.escrow = j.escrow
    BY <2>1, <2>2 DEF Jobs, Sets, SameCommit
  <2> HIDE DEF m
  <2>6. CallOK(j, m) /\ (claim.share <= j.escrow => CallOK(j, Pay(m, c.from, claim.share)))
    BY <1>2, <2>1, <2>2, <2>4, <2>5, ClaimOK
  <2> QED
    BY <2>1, <2>3, <2>4, <2>6
<1> QED
  BY <1>1, <1>2

(* Every call of a menu keeps the copies well formed, makes no coins, and  *)
(* leaves statuses, aggregates and the backing of the escrow intact.       *)
LEMMA DispatchOK ==
    ASSUME NEW j, JobOK(j), NEW c, IsCall(c), c.kind \notin {"propose", "vote"},
           c.kind \in {"register", "delegate"} => c.amount <= j.wallet[c.from]
    PROVE  CallOK(j, Dispatch(j, c))
<1>1. CASE c.kind = "register"
  <2>1. c.from \in Candidate /\ c.amount \in Nat /\ Dispatch(j, c) = Register(j, c)
    BY <1>1 DEF IsCall, Dispatch
  <2> QED
    BY <1>1, <2>1, RegisterOK
<1>2. CASE c.kind = "delegate"
  <2>1. /\ c.from \in Delegator /\ c.to \in Validator /\ c.amount \in Nat
        /\ Dispatch(j, c) = Delegate(j, c)
    BY <1>2 DEF IsCall, Dispatch
  <2> QED
    BY <1>2, <2>1, DelegateOK
<1>3. CASE c.kind = "undelegate"
  <2>1. /\ c.from \in Delegator /\ c.to \in Validator /\ c.amount \in Nat
        /\ Dispatch(j, c) = Undelegate(j, c)
    BY <1>3 DEF IsCall, Dispatch
  <2> QED
    BY <2>1, UndelegateOK
<1>4. CASE c.kind = "withdraw"
  <2>1. c.from \in Delegator /\ c.to \in Validator /\ Dispatch(j, c) = Withdraw(j, c)
    BY <1>4 DEF IsCall, Dispatch
  <2> QED
    BY <2>1, WithdrawOK
<1>5. CASE c.kind = "claim"
  <2>1. c.to \in Validator /\ Dispatch(j, c) = ClaimRewards(j, c)
    BY <1>5 DEF IsCall, Dispatch
  <2> QED
    BY <2>1, ClaimRewardsOK
<1>6. CASE c.kind = "claimDelegator"
  <2>1. /\ c.from \in Delegator /\ c.to \in Validator
        /\ Dispatch(j, c) = ClaimDelegatorRewards(j, c)
    BY <1>6 DEF IsCall, Dispatch
  <2> QED
    BY <2>1, ClaimDelegatorRewardsOK
<1>7. c.kind \in {"register", "delegate", "undelegate", "withdraw", "claim", "claimDelegator"}
  BY DEF IsCall
<1> QED
  BY <1>1, <1>2, <1>3, <1>4, <1>5, <1>6, <1>7
-----------------------------------------------------------------------------
(* Proposals.  The registries after the first n proposals are a recursive  *)
(* function of n: it exists and is described by induction on n.            *)

Ballots == UNION {[S -> BOOLEAN] : S \in SUBSET Validator}
Proposal == [module : Module, version : Nat, activation : Nat, votes : Ballots,
             status : {"Pending", "Scheduled", "Rejected", "Executed", "Failed"}]
Registries(D) == [preg : [D -> Proposal], vreg : [Module -> Nat]]

InEffect(p, r) == \A id \in DOMAIN p : p[id].status = "Executed" => r[p[id].module] >= p[id].version

FoldStep(g, r0, ready, n) ==
    IF n = 0 THEN r0 ELSE IF n \in ready THEN ExecuteProposal(g[n - 1], n) ELSE g[n - 1]
IsFold(g, r0, ready, m) == g = [n \in 0..m |-> FoldStep(g, r0, ready, n)]
FoldOf(r0, ready, m) == CHOOSE g : IsFold(g, r0, ready, m)

LEMMA IsFoldValue ==
    ASSUME NEW g, NEW r0, NEW ready, NEW m, IsFold(g, r0, ready, m), NEW n \in 0..m
    PROVE  g[n] = FoldStep(g, r0, ready, n)
<1> DEFINE h == [i \in 0..m |-> FoldStep(g, r0, ready, i)]
<1>1. g = h
  BY DEF IsFold
<1>2. h[n] = FoldStep(g, r0, ready, n)
  OBVIOUS
<1> HIDE DEF h
<1> QED
  BY <1>1, <1>2

LEMMA FoldExists ==
    ASSUME NEW r0, NEW ready, NEW m \in Nat
    PROVE  IsFold(FoldOf(r0, ready, m), r0, ready, m)
<1> DEFINE Good == {n \in 0..m : \E g : IsFold(g, r0, ready, n)}
<1>1. 0 \in Good
  <2> DEFINE g == [n \in 0..0 |-> r0]
  <2>1. \A n \in 0..0 : FoldStep(g, r0, ready, n) = r0
    BY DEF FoldStep
  <2>2. IsFold(g, r0, ready, 0)
    BY <2>1 DEF IsFold
  <2> QED
    BY <2>2
<1>2. ASSUME NEW n \in 1..m, n - 1 \in Good PROVE n \in Good
  <2>1. PICK g : IsFold(g, r0, ready, n - 1)
    BY <1>2
  <2> DEFINE h == [i \in 0..n |-> IF i = n THEN FoldStep(g, r0, ready, n) ELSE g[i]]
  <2>2. ASSUME NEW i \in 0..n PROVE h[i] = FoldStep(h, r0, ready, i)
    <3>1. i # 0 => h[i - 1] = g[i - 1]
      OBVIOUS
    <3>2. FoldStep(h, r0, ready, i) = FoldStep(g, r0, ready, i)
      <4> HIDE DEF h
      <4> QED
        BY <3>1 DEF FoldStep
    <3>3. CASE i = n
      BY <3>2, <3>3
    <3>4. CASE i # n
      <4>1. i \in 0..(n - 1)
        BY <3>4
      <4>2. g[i] = FoldStep(g, r0, ready, i)
        BY <2>1, <4>1, IsFoldValue
      <4> QED
        BY <3>2, <3>4, <4>2
    <3> QED
      BY <3>3, <3>4
  <2>3. h = [i \in 0..n |-> h[i]]
    OBVIOUS
  <2> HIDE DEF h
  <2>4. IsFold(h, r0, ready, n)
    BY <2>2, <2>3 DEF IsFold
  <2> QED
    BY <2>4
<1> HIDE DEF Good
<1>3. m \in Good
  <2>1. \A n \in 0..m : n \in Good
    BY <1>1, <1>2, IntervalInduction
  <2> QED
    BY <2>1
<1>4. PICK g : IsFold(g, r0, ready, m)
  BY <1>3 DEF Good
<1> QED
  BY <1>4, Zenon DEF FoldOf

LEMMA ApplyIsFold ==
    ASSUME NEW p, NEW r, NEW h
    PROVE  LET ready == ReadyToExecute(p, h)
               last == Max({0} \cup ready)
           IN  ApplyReadyGovernance(p, r, h) = FoldOf([preg |-> p, vreg |-> r], ready, last)[last]
  BY Zenon DEF ApplyReadyGovernance, FoldOf, IsFold, FoldStep

(* One proposal is executed or fails; no version goes down. *)
LEMMA ExecuteProposalFacts ==
    ASSUME NEW D, NEW r \in Registries(D), NEW id \in D
    PROVE  LET q == ExecuteProposal(r, id) IN
           /\ q \in Registries(D)
           /\ \A m \in Module : q.vreg[m] >= r.vreg[m]
           /\ \A i \in D : i # id => q.preg[i] = r.preg[i]
           /\ q.preg[id].status \in {"Executed", "Failed"}
           /\ q.preg[id].module = r.preg[id].module /\ q.preg[id].version = r.preg[id].version
           /\ InEffect(r.preg, r.vreg) => InEffect(q.preg, q.vreg)
<1> DEFINE p == r.preg[id]
           q == ExecuteProposal(r, id)
           failed == [p EXCEPT !.status = "Failed"]
           done == [p EXCEPT !.status = "Executed"]
<1>1. /\ p \in Proposal /\ p.module \in Module /\ p.version \in Nat /\ r.vreg[p.module] \in Nat
      /\ r.preg \in [D -> Proposal] /\ r.vreg \in [Module -> Nat]
  BY DEF Registries, Proposal
<1>2. /\ failed \in Proposal /\ failed.status = "Failed"
      /\ failed.module = p.module /\ failed.version = p.version
      /\ done \in Proposal /\ done.status = "Executed"
      /\ done.module = p.module /\ done.version = p.version
  BY <1>1 DEF Proposal
<1>3. CASE p.version < r.vreg[p.module]
  <2>1. q = [r EXCEPT !.preg = [r.preg EXCEPT ![id] = failed]]
    BY <1>1, <1>3 DEF ExecuteProposal, Registries
  <2> HIDE DEF q, failed, done
  <2>2. q.preg = [r.preg EXCEPT ![id] = failed] /\ q.vreg = r.vreg /\ q \in Registries(D)
    BY <1>1, <1>2, <2>1 DEF Registries
  <2>3. /\ \A i \in D : i # id => q.preg[i] = r.preg[i]
        /\ q.preg[id] = failed /\ DOMAIN q.preg = D /\ DOMAIN r.preg = D
    BY <1>1, <2>2
  <2>4. InEffect(r.preg, r.vreg) => InEffect(q.preg, q.vreg)
    BY <1>2, <2>2, <2>3 DEF InEffect
  <2>5. \A m \in Module : q.vreg[m] >= r.vreg[m]
    BY <1>1, <2>2
  <2>6. /\ q.preg[id].status \in {"Executed", "Failed"}
        /\ q.preg[id].module = p.module /\ q.preg[id].version = p.version
    BY <1>2, <2>3
  <2> QED
    BY <2>2, <2>3, <2>4, <2>5, <2>6 DEF q
<1>4. CASE ~ (p.version < r.vreg[p.module])
  <2>1. q = [r EXCEPT !.vreg = [r.vreg EXCEPT ![p.module] = p.version],
                      !.preg = [r.preg EXCEPT ![id] = done]]
    BY <1>1, <1>4 DEF ExecuteProposal, Registries
  <2> HIDE DEF q, failed, done
  <2>2. /\ q.preg = [r.preg EXCEPT ![id] = done]
        /\ q.vreg = [r.vreg EXCEPT ![p.module] = p.version] /\ q \in Registries(D)
    BY <1>1, <1>2, <2>1 DEF Registries
  <2>3. /\ \A i \in D : i # id => q.preg[i] = r.preg[i]
        /\ q.preg[id] = done /\ DOMAIN q.preg = D /\ DOMAIN r.preg = D
    BY <1>1, <2>2
  <2>5. \A m \in Module : q.vreg[m] >= r.vreg[m] /\ q.vreg[m] \in Nat /\ r.vreg[m] \in Nat
    BY <1>1, <1>4, <2>2
  <2>4. ASSUME InEffect(r.preg, r.vreg), NEW i \in D, q.preg[i].status = "Executed"
        PROVE  q.vreg[q.preg[i].module] >= q.preg[i].version
    <3>1. CASE i = id
      BY <1>1, <1>2, <2>2, <2>3, <3>1
    <3>2. CASE i # id
      <4>1. r.preg[i] \in Proposal /\ r.preg[i].module \in Module /\ r.preg[i].version \in Nat
        BY <1>1 DEF Proposal
      <4>2. r.vreg[r.preg[i].module] >= r.preg[i].version
        BY <2>3, <2>4, <3>2 DEF InEffect
      <4> QED
        BY <2>3, <2>5, <3>2, <4>1, <4>2
    <3> QED
      BY <3>1, <3>2
  <2>6. /\ q.preg[id].status \in {"Executed", "Failed"}
        /\ q.preg[id].module = p.module /\ q.preg[id].version = p.version
    BY <1>2, <2>3
  <2>7. InEffect(r.preg, r.vreg) => InEffect(q.preg, q.vreg)
    BY <2>3, <2>4 DEF InEffect
  <2> QED
    BY <2>2, <2>3, <2>5, <2>6, <2>7 DEF q
<1> QED
  BY <1>3, <1>4

(* The hook of a block: every proposal that is ready is executed or fails, *)
(* and the others are left alone.                                          *)
LEMMA ApplyReadyFacts ==
    ASSUME NEW p, p \in [DOMAIN p -> Proposal], NEW n \in Nat, DOMAIN p \subseteq 1..n,
           NEW r \in [Module -> Nat], NEW h \in Nat
    PROVE  LET q == ApplyReadyGovernance(p, r, h) IN
           /\ q \in Registries(DOMAIN p)
           /\ \A i \in ReadyToExecute(p, h) : q.preg[i].status \in {"Executed", "Failed"}
           /\ \A i \in DOMAIN p \ ReadyToExecute(p, h) : q.preg[i] = p[i]
           /\ InEffect(p, r) => InEffect(q.preg, q.vreg)
<1> DEFINE D == DOMAIN p
           ready == ReadyToExecute(p, h)
           last == Max({0} \cup ready)
           r0 == [preg |-> p, vreg |-> r]
           g == FoldOf(r0, ready, last)
           Good == {k \in 0..last :
                      /\ g[k] \in Registries(D)
                      /\ \A i \in ready : i <= k => g[k].preg[i].status \in {"Executed", "Failed"}
                      /\ \A i \in D : (i \notin ready \/ i > k) => g[k].preg[i] = p[i]
                      /\ InEffect(p, r) => InEffect(g[k].preg, g[k].vreg)}
<1>1. ready \subseteq D /\ ready \subseteq 1..n
  BY DEF ReadyToExecute
<1>2. last \in Nat /\ \A i \in ready : i <= last
  <2> DEFINE S == {0} \cup ready
  <2>1. S \in SUBSET (0..n) /\ IsFiniteSet(0..n)
    <3>1. IsFiniteSet(0..n)
      <4>1. 0 \in Int /\ n \in Int
        OBVIOUS
      <4> QED
        BY <4>1, FS_Interval, Zenon
    <3> HIDE DEF ready
    <3>2. S \in SUBSET (0..n)
      BY <1>1
    <3> QED
      BY <3>1, <3>2
  <2>2. S \in SUBSET Int /\ IsFiniteSet(S) /\ S # {}
    <3>1. S # {} /\ S \in SUBSET Int
      BY <2>1
    <3> HIDE DEF S
    <3> QED
      BY <2>1, <3>1, FS_Subset
  <2>3. \E m \in S : \A x \in S : m >= x
    <3> HIDE DEF S
    <3> QED
      BY <2>2, FiniteMax
  <2>4. last \in S /\ \A x \in S : last >= x
    <3> HIDE DEF S
    <3>1. Max(S) \in S /\ \A x \in S : Max(S) >= x
      BY <2>3, Zenon DEF Max
    <3> QED
      BY <3>1 DEF S
  <2> HIDE DEF last
  <2> QED
    BY <2>1, <2>4
<1>3. ApplyReadyGovernance(p, r, h) = g[last]
  BY ApplyIsFold, Zenon
<1> HIDE DEF last, ready
<1>4. IsFold(g, r0, ready, last)
  BY <1>2, FoldExists
<1> HIDE DEF g
<1>5. 0 \in Good
  <2>1. g[0] = r0
    <3>1. 0 \in 0..last
      BY <1>2
    <3>2. g[0] = FoldStep(g, r0, ready, 0)
      BY <1>4, <3>1, IsFoldValue
    <3> QED
      BY <3>2, Zenon DEF FoldStep
  <2>2. r0 \in Registries(D) /\ r0.preg = p /\ r0.vreg = r
    BY DEF Registries
  <2> HIDE DEF r0
  <2>3. \A i \in ready : ~ (i <= 0)
    BY <1>1
  <2> QED
    BY <1>2, <2>1, <2>2, <2>3
<1>6. ASSUME NEW k \in 1..last, k - 1 \in Good PROVE k \in Good
  <2> DEFINE b == g[k - 1]
  <2>1. /\ b \in Registries(D)
        /\ \A i \in ready : i <= k - 1 => b.preg[i].status \in {"Executed", "Failed"}
        /\ \A i \in D : (i \notin ready \/ i > k - 1) => b.preg[i] = p[i]
        /\ InEffect(p, r) => InEffect(b.preg, b.vreg)
    BY <1>6
  <2>2. g[k] = IF k \in ready THEN ExecuteProposal(b, k) ELSE b
    <3>1. g[k] = FoldStep(g, r0, ready, k)
      BY <1>4, IsFoldValue
    <3>2. k # 0
      OBVIOUS
    <3> QED
      BY <3>1, <3>2, Zenon DEF FoldStep
  <2> HIDE DEF b
  <2>3. CASE k \in ready
    <3> DEFINE q == ExecuteProposal(b, k)
    <3>1. /\ q \in Registries(D)
          /\ \A i \in D : i # k => q.preg[i] = b.preg[i]
          /\ q.preg[k].status \in {"Executed", "Failed"}
          /\ InEffect(b.preg, b.vreg) => InEffect(q.preg, q.vreg)
      BY <1>1, <2>1, <2>3, ExecuteProposalFacts
    <3>2. g[k] = q
      BY <2>2, <2>3
    <3> HIDE DEF q
    <3>3. \A i \in ready : i <= k => q.preg[i].status \in {"Executed", "Failed"}
      BY <1>1, <2>1, <3>1
    <3>4. \A i \in D : (i \notin ready \/ i > k) => q.preg[i] = p[i]
      BY <2>1, <2>3, <3>1
    <3> QED
      BY <2>1, <3>1, <3>2, <3>3, <3>4
  <2>4. CASE k \notin ready
    <3>1. g[k] = b
      BY <2>2, <2>4
    <3>2. \A i \in ready : i <= k => i <= k - 1
      BY <1>1, <2>4
    <3>3. \A i \in D : (i \notin ready \/ i > k) => (i \notin ready \/ i > k - 1)
      OBVIOUS
    <3> QED
      BY <2>1, <3>1, <3>2, <3>3
  <2> QED
    BY <2>3, <2>4
<1> HIDE DEF Good
<1>7. last \in Good
  <2>1. \A k \in 0..last : k \in Good
    BY <1>2, <1>5, <1>6, IntervalInduction
  <2> QED
    BY <1>2, <2>1
<1>8. /\ g[last] \in Registries(D)
      /\ \A i \in ready : i <= last => g[last].preg[i].status \in {"Executed", "Failed"}
      /\ \A i \in D : (i \notin ready \/ i > last) => g[last].preg[i] = p[i]
      /\ InEffect(p, r) => InEffect(g[last].preg, g[last].vreg)
  BY <1>7 DEF Good
<1> QED
  BY <1>2, <1>3, <1>8 DEF ready

LEMMA NewProposalType ==
    ASSUME NEW m \in Module, NEW version \in Nat, NEW activation \in Nat
    PROVE  /\ NewProposal(m, version, activation) \in Proposal
           /\ NewProposal(m, version, activation).status = "Pending"
<1>1. [v \in {} |-> TRUE] \in Ballots
  <2>1. [v \in {} |-> TRUE] \in [{} -> BOOLEAN] /\ {} \in SUBSET Validator
    OBVIOUS
  <2> QED
    BY <2>1 DEF Ballots
<1> QED
  BY <1>1 DEF NewProposal, Proposal

LEMMA CastVoteType ==
    ASSUME NEW p \in Proposal, NEW voter \in Validator, NEW approve \in BOOLEAN
    PROVE  LET q == CastVote(p, voter, approve) IN
           q \in Proposal /\ q.status = p.status /\ q.module = p.module /\ q.version = p.version
<1> DEFINE b == [v \in DOMAIN p.votes \cup {voter} |-> IF v = voter THEN approve ELSE p.votes[v]]
<1>1. b \in Ballots
  <2>1. p.votes \in Ballots
    BY DEF Proposal
  <2>2. PICK S \in SUBSET Validator : p.votes \in [S -> BOOLEAN]
    BY <2>1 DEF Ballots
  <2>3. b \in [S \cup {voter} -> BOOLEAN] /\ S \cup {voter} \in SUBSET Validator
    BY <2>2
  <2> HIDE DEF b
  <2> QED
    BY <2>3 DEF Ballots
<1>2. CastVote(p, voter, approve) = [p EXCEPT !.votes = b]
  BY DEF CastVote, Proposal
<1> HIDE DEF b
<1> QED
  BY <1>1, <1>2 DEF Proposal

LEMMA TryFinalizeFacts ==
    ASSUME NEW p \in Proposal, NEW active, NEW h
    PROVE  LET q == TryFinalize(p, active, h) IN
           /\ q \in Proposal /\ q.module = p.module /\ q.version = p.version
           /\ q.status = "Executed" => p.status = "Executed"
<1> DEFINE x == IF HasMajority(p, active) /\ p.activation > h THEN "Scheduled" ELSE "Rejected"
<1>1. x \in {"Scheduled", "Rejected"}
  OBVIOUS
<1>2. TryFinalize(p, active, h) = IF p.status # "Pending" THEN p ELSE [p EXCEPT !.status = x]
  BY DEF TryFinalize
<1> HIDE DEF x
<1> QED
  BY <1>1, <1>2 DEF Proposal
-----------------------------------------------------------------------------
(* The state: types, the height of a commit, the versions in effect *)

TypeInv ==
    /\ wallet \in [Account -> Nat] /\ escrow \in Nat /\ height \in 0..MaxHeight
    /\ ledger \in Ledgers /\ UnbondingOK(unbonding)
    /\ proposal_counter \in Nat /\ DOMAIN preg \subseteq 1..proposal_counter
    /\ preg \in [DOMAIN preg -> Proposal] /\ vreg \in [Module -> Nat]
    /\ SetOK(vs)
    /\ job = Idle \/ (JobOK(job) /\ job.number \in 1..MaxHeight)
    /\ menu \in Menus /\ crashes \in Nat

(* The block of a commit is the next one until it is written. *)
NumberInv ==
    /\ job.pc \in {"execute", "accounts"} => job.number = height + 1
    /\ job.pc \in {"delta", "hook", "rewards", "sync"} => job.number = height

LEMMA IdleJob == Idle.pc = "idle" /\ Idle.pc \notin Phases
  BY DEF Idle, Phases

LEMMA JobMove ==
    ASSUME NEW j, JobOK(j), NEW x \in Phases
    PROVE  LET k == [j EXCEPT !.pc = x] IN
           /\ JobOK(k) /\ k.pc = x /\ k.number = j.number /\ k.proposer = j.proposer /\ k.vs = j.vs
           /\ k.wallet = j.wallet /\ k.escrow = j.escrow /\ k.ledger = j.ledger
           /\ k.unbonding = j.unbonding
  BY DEF JobOK, Jobs

LEMMA JobCount ==
    ASSUME NEW j, JobOK(j)
    PROVE  LET k == [j EXCEPT !.n = @ + 1] IN
           /\ JobOK(k) /\ k.pc = j.pc /\ k.number = j.number /\ k.proposer = j.proposer /\ k.vs = j.vs
           /\ k.wallet = j.wallet /\ k.escrow = j.escrow /\ k.ledger = j.ledger
           /\ k.unbonding = j.unbonding
  BY DEF JobOK, Jobs

(* The reward goes to the copy of the coinbase's account. *)
LEMMA JobReward ==
    ASSUME NEW j, JobOK(j)
    PROVE  LET k == [j EXCEPT !.pc = "accounts", !.wallet[j.proposer] = @ + BlockReward] IN
           /\ JobOK(k) /\ k.pc = "accounts" /\ k.number = j.number /\ k.proposer = j.proposer
           /\ k.vs = j.vs /\ k.escrow = j.escrow /\ k.ledger = j.ledger
           /\ k.unbonding = j.unbonding
           /\ k.wallet = [j.wallet EXCEPT ![j.proposer] = @ + BlockReward]
<1> DEFINE w == [j.wallet EXCEPT ![j.proposer] = @ + BlockReward]
           k == [j EXCEPT !.pc = "accounts", !.wallet[j.proposer] = @ + BlockReward]
<1>1. j \in Jobs /\ j.proposer \in Account /\ BlockReward \in Nat /\ "accounts" \in Phases
  BY StakingConstants DEF JobOK, Jobs, Account, Validator, Phases
<1>2. w \in [Account -> Nat]
  BY <1>1 DEF Jobs
<1>3. k = [j EXCEPT !.pc = "accounts", !.wallet = w]
  BY <1>1 DEF Jobs
<1> HIDE DEF w, k
<1>4. k \in Jobs
  BY <1>1, <1>2, <1>3 DEF Jobs
<1>5. /\ k.pc = "accounts" /\ k.number = j.number /\ k.proposer = j.proposer
      /\ k.vs = j.vs /\ k.escrow = j.escrow /\ k.ledger = j.ledger
      /\ k.unbonding = j.unbonding /\ k.wallet = w
  BY <1>1, <1>3 DEF Jobs
<1>6. JobOK(k)
  BY <1>4, <1>5 DEF JobOK
<1> QED
  BY <1>5, <1>6 DEF w, k

LEMMA CloneOK ==
    ASSUME TypeInv, height < MaxHeight, NEW s, SetOK(s), NEW w \in [Account -> Nat],
           NEW proposer \in Configured
    PROVE  LET k == Clone(s, w, proposer) IN
           /\ JobOK(k) /\ k.pc = "execute" /\ k.number = height + 1 /\ k.number \in 1..MaxHeight
           /\ k.vs = s /\ k.wallet = w /\ k.escrow = escrow /\ k.ledger = ledger
           /\ k.unbonding = unbonding
<1> DEFINE k == Clone(s, w, proposer)
<1>1. height + 1 \in 1..MaxHeight /\ height + 1 \in Nat
  BY StakingConstants DEF TypeInv
<1>2. /\ k.pc = "execute" /\ k.number = height + 1 /\ k.vs = s /\ k.wallet = w
      /\ k.escrow = escrow /\ k.ledger = ledger /\ k.unbonding = unbonding
  BY DEF Clone
<1>3. k \in Jobs
  BY <1>1 DEF Clone, Jobs, Phases, TypeInv, SetOK, UnbondingOK
<1> HIDE DEF k
<1> QED
  BY <1>1, <1>2, <1>3 DEF JobOK, TypeInv, k

BaseInv == TypeInv /\ NumberInv /\ ExecutedInEffect

LEMMA BaseInit == Init => BaseInv
<1> SUFFICES ASSUME Init PROVE BaseInv
  OBVIOUS
<1>1. UnbondingOK(unbonding)
  <2>1. unbonding = [k \in {} |-> 0] /\ {} \in SUBSET Keys
    BY DEF Init
  <2>2. unbonding \in [{} -> Nat] /\ DOMAIN unbonding = {}
    BY <2>1
  <2>3. unbonding \in Unbondings
    BY <2>1, <2>2 DEF Unbondings
  <2> QED
    BY <2>2, <2>3, FS_EmptySet DEF UnbondingOK
<1>2. /\ wallet \in [Account -> Nat] /\ escrow \in Nat /\ height \in 0..MaxHeight
      /\ ledger \in Ledgers /\ vreg \in [Module -> Nat]
  BY StakingConstants DEF Init, Ledgers
<1>3. /\ proposal_counter \in Nat /\ DOMAIN preg = {} /\ preg \in [DOMAIN preg -> Proposal]
      /\ DOMAIN preg \subseteq 1..proposal_counter
  BY DEF Init
<1>4. SetOK(vs) /\ job = Idle /\ menu \in Menus /\ crashes \in Nat
  BY EmptySetOK DEF Init
<1>5. TypeInv
  BY <1>1, <1>2, <1>3, <1>4 DEF TypeInv
<1>6. NumberInv
  BY <1>4, IdleJob DEF NumberInv
<1>7. ExecutedInEffect
  BY <1>3 DEF ExecutedInEffect
<1> QED
  BY <1>5, <1>6, <1>7 DEF BaseInv

(* A job in a phase of a commit is well formed. *)
LEMMA RunningJob ==
    ASSUME TypeInv, job.pc \in Phases
    PROVE  JobOK(job) /\ job.number \in 1..MaxHeight
  BY IdleJob DEF TypeInv

(* What one call does to the job. *)
LEMMA ExecStakingJob ==
    ASSUME TypeInv, ExecStaking
    PROVE  \E k : /\ CallOK(job, k) /\ job.pc = "execute"
                 /\ JobOK(job) /\ JobOK(job') /\ job'.pc = job.pc /\ job'.number = job.number
                 /\ job'.vs = k.vs /\ job'.wallet = k.wallet /\ job'.escrow = k.escrow
                 /\ job'.ledger = k.ledger /\ job'.unbonding = k.unbonding
<1>1. PICK c \in menu :
        /\ c.kind \notin {"propose", "vote"}
        /\ MayCall(c)
        /\ c.kind \in {"register", "delegate"} => c.amount <= job.wallet[c.from]
        /\ job' = [Dispatch(job, c) EXCEPT !.n = @ + 1]
  BY DEF ExecStaking
<1>2. IsCall(c)
  BY <1>1, MenuCalls DEF TypeInv
<1>3. job.pc = "execute" /\ JobOK(job)
  BY <1>1, RunningJob DEF MayCall, Phases
<1> DEFINE k == Dispatch(job, c)
<1>4. CallOK(job, k)
  BY <1>1, <1>2, <1>3, DispatchOK
<1>5. JobOK(k) /\ k.pc = job.pc /\ k.number = job.number
  BY <1>4 DEF CallOK, SameCommit
<1>6. job' = [k EXCEPT !.n = @ + 1]
  BY <1>1
<1> HIDE DEF k
<1>7. /\ JobOK(job') /\ job'.pc = k.pc /\ job'.number = k.number /\ job'.vs = k.vs
      /\ job'.wallet = k.wallet /\ job'.escrow = k.escrow /\ job'.ledger = k.ledger
      /\ job'.unbonding = k.unbonding
  BY <1>5, <1>6, JobCount
<1> QED
  BY <1>3, <1>4, <1>5, <1>7

(* A slash or none, then the copies. *)
LEMMA BeginFacts ==
    ASSUME TypeInv, Begin
    PROVE  /\ job = Idle /\ SetOK(vs') /\ JobOK(job') /\ job'.number \in 1..MaxHeight
           /\ job'.pc = "execute" /\ job'.number = height + 1
           /\ job'.vs = vs' /\ job'.wallet = wallet' /\ job'.escrow = escrow
           /\ job'.ledger = ledger /\ job'.unbonding = unbonding
           /\ wallet' \in [Account -> Nat] /\ \A a \in Account : wallet'[a] <= wallet[a]
           /\ UNCHANGED <<escrow, height, ledger, unbonding, proposal_counter, preg, vreg, menu, crashes>>
           /\ \A w \in Validator :
                /\ vs'.of[w].delegated = vs.of[w].delegated /\ vs'.of[w].pool = vs.of[w].pool
                /\ vs'.of[w].self <= vs.of[w].self
                /\ vs'.of[w].pending <= vs.of[w].pending + ReporterReward
                /\ "Tombstoned" \notin Outcomes /\ vs.of[w].status = "Jailed"
                        => vs'.of[w].status = "Jailed"
                /\ "Tombstoned" \notin Outcomes /\ vs.of[w].status # "Tombstoned"
                        => vs'.of[w].status # "Tombstoned"
<1>1. /\ job = Idle /\ height < MaxHeight
      /\ UNCHANGED <<escrow, height, ledger, unbonding, proposal_counter, preg, vreg, menu, crashes>>
  BY DEF Begin
<1>0. SetOK(vs)
  BY DEF TypeInv
<1>2. PICK proposer \in Configured :
        \/ vs' = vs /\ wallet' = wallet /\ job' = Clone(vs, wallet, proposer)
        \/ \E v \in Validator, reporter \in Validator, outcome \in Outcomes :
                /\ Known(vs, v) /\ v # reporter
                /\ vs' = Slash(vs, v, outcome, reporter)
                /\ wallet' = SlashBurn(wallet, v)
                /\ job' = Clone(vs', wallet', proposer)
  BY DEF Begin
<1>w. wallet' \in [Account -> Nat] /\ \A a \in Account : wallet'[a] <= wallet[a]
  <2>1. wallet \in [Account -> Nat] /\ SlashWei \in Nat /\ Validator \subseteq Account
    BY StakingConstants DEF TypeInv, Account
  <2>2. CASE wallet' = wallet
    BY <2>1, <2>2
  <2>3. ASSUME NEW v \in Validator, wallet' = SlashBurn(wallet, v) PROVE <1>w
    BY <2>1, <2>3 DEF SlashBurn
  <2> QED
    BY <1>2, <2>2, <2>3
<1>3. /\ SetOK(vs')
      /\ \A w \in Validator :
           /\ vs'.of[w].delegated = vs.of[w].delegated /\ vs'.of[w].pool = vs.of[w].pool
           /\ vs'.of[w].self <= vs.of[w].self
           /\ vs'.of[w].pending <= vs.of[w].pending + ReporterReward
           /\ "Tombstoned" \notin Outcomes /\ vs.of[w].status = "Jailed"
                   => vs'.of[w].status = "Jailed"
           /\ "Tombstoned" \notin Outcomes /\ vs.of[w].status # "Tombstoned"
                   => vs'.of[w].status # "Tombstoned"
  <2>1. CASE vs' = vs
    <3>1. \A w \in Validator : {vs.of[w].self, vs.of[w].pending, ReporterReward} \subseteq Nat
      BY <1>0, StakingConstants DEF SetOK, Sets, Entry
    <3> QED
      BY <1>0, <2>1, <3>1
  <2>2. ASSUME NEW v \in Validator, NEW reporter \in Validator, NEW outcome \in Outcomes,
               Known(vs, v), v # reporter, vs' = Slash(vs, v, outcome, reporter)
        PROVE  <1>3
    <3>1. "Tombstoned" \notin Outcomes => outcome # "Tombstoned"
      OBVIOUS
    <3> QED
      BY <1>0, <2>2, <3>1, SlashFacts
  <2> QED
    BY <1>2, <2>1, <2>2
<1>4. job' = Clone(vs', wallet', proposer)
  BY <1>2
<1> QED
  BY <1>1, <1>3, <1>4, <1>w, CloneOK

LEMMA ProposeFacts ==
    ASSUME TypeInv, ExecutedInEffect, ExecPropose
    PROVE  /\ proposal_counter' \in Nat /\ DOMAIN preg' \subseteq 1..proposal_counter'
           /\ preg' \in [DOMAIN preg' -> Proposal] /\ ExecutedInEffect'
<1>1. PICK c \in menu :
        /\ c.kind = "propose"
        /\ IF IsActiveValidator(job.vs, c.from) /\ c.activation > job.number
           THEN /\ proposal_counter' = proposal_counter + 1
                /\ preg' = InsertProposal(preg, proposal_counter',
                                          NewProposal(c.module, c.version, c.activation))
           ELSE UNCHANGED <<proposal_counter, preg>>
  BY DEF ExecPropose
<1>2. vreg' = vreg
  BY DEF ExecPropose
<1>3. c.module \in Module /\ c.version \in Nat /\ c.activation \in Nat
  BY <1>1, MenuCalls DEF TypeInv, IsCall
<1> DEFINE p == NewProposal(c.module, c.version, c.activation)
           id == proposal_counter + 1
<1>4. p \in Proposal /\ p.status = "Pending"
  BY <1>3, NewProposalType
<1>5. CASE IsActiveValidator(job.vs, c.from) /\ c.activation > job.number
  <2>1. proposal_counter' = id /\ preg' = InsertProposal(preg, id, p)
    BY <1>1, <1>5
  <2> HIDE DEF p
  <2>2. id \in Nat /\ id \notin DOMAIN preg /\ DOMAIN preg \cup {id} \subseteq 1..id
    BY DEF TypeInv
  <2>3. /\ DOMAIN preg' = DOMAIN preg \cup {id}
        /\ \A i \in DOMAIN preg' : preg'[i] = IF i = id THEN p ELSE preg[i]
        /\ preg' = [i \in DOMAIN preg' |-> preg'[i]]
    BY <2>1 DEF InsertProposal
  <2>4. \A i \in DOMAIN preg' : preg'[i] \in Proposal
    BY <1>4, <2>3 DEF TypeInv
  <2>5. preg' \in [DOMAIN preg' -> Proposal]
    BY <2>3, <2>4
  <2>6. ExecutedInEffect'
    BY <1>2, <1>4, <2>3 DEF ExecutedInEffect
  <2> QED
    BY <2>1, <2>2, <2>3, <2>5, <2>6
<1>6. CASE ~ (IsActiveValidator(job.vs, c.from) /\ c.activation > job.number)
  <2>1. proposal_counter' = proposal_counter /\ preg' = preg
    BY <1>1, <1>6
  <2> QED
    BY <1>2, <2>1 DEF TypeInv, ExecutedInEffect
<1> QED
  BY <1>5, <1>6

LEMMA VoteFacts ==
    ASSUME TypeInv, ExecutedInEffect, ExecVote
    PROVE  /\ DOMAIN preg' = DOMAIN preg
           /\ preg' \in [DOMAIN preg' -> Proposal] /\ ExecutedInEffect'
<1>1. PICK c \in menu :
        /\ c.kind = "vote" /\ MayCall(c)
        /\ preg' = IF /\ IsActiveValidator(job.vs, c.from)
                      /\ c.id \in DOMAIN preg /\ preg[c.id].status = "Pending"
                   THEN [preg EXCEPT ![c.id] = CastAndMaybeFinalize(@, c.from, c.approve,
                                                                    job.vs.active, job.number)]
                   ELSE preg
  BY DEF ExecVote
<1>2. vreg' = vreg
  BY DEF ExecVote
<1>3. CASE /\ IsActiveValidator(job.vs, c.from)
           /\ c.id \in DOMAIN preg /\ preg[c.id].status = "Pending"
  <2> DEFINE p == preg[c.id]
             cast == CastVote(p, c.from, c.approve)
             q == CastAndMaybeFinalize(p, c.from, c.approve, job.vs.active, job.number)
  <2>1. JobOK(job)
    BY <1>1, RunningJob DEF MayCall, Phases
  <2>2. c.from \in Validator
    BY <1>3, <2>1 DEF IsActiveValidator, JobOK, SetOK, Sets
  <2>3. c.approve \in BOOLEAN
    BY <1>1, MenuCalls DEF TypeInv, IsCall
  <2>4. p \in Proposal /\ p.status = "Pending"
    BY <1>3 DEF TypeInv
  <2>5. cast \in Proposal /\ cast.status = "Pending"
    BY <2>2, <2>3, <2>4, CastVoteType
  <2>6. q \in Proposal /\ q.status # "Executed"
    BY <2>5, TryFinalizeFacts DEF CastAndMaybeFinalize
  <2>7. preg' = [preg EXCEPT ![c.id] = q]
    BY <1>1, <1>3
  <2> HIDE DEF q
  <2>8. /\ DOMAIN preg' = DOMAIN preg /\ preg' \in [DOMAIN preg -> Proposal]
        /\ \A i \in DOMAIN preg : preg'[i] = IF i = c.id THEN q ELSE preg[i]
    BY <2>6, <2>7 DEF TypeInv
  <2>9. ExecutedInEffect'
    BY <1>2, <2>6, <2>8 DEF ExecutedInEffect
  <2> QED
    BY <2>8, <2>9
<1>4. CASE ~ (/\ IsActiveValidator(job.vs, c.from)
              /\ c.id \in DOMAIN preg /\ preg[c.id].status = "Pending")
  <2>1. preg' = preg
    BY <1>1, <1>4
  <2> QED
    BY <1>2, <2>1 DEF TypeInv, ExecutedInEffect
<1> QED
  BY <1>3, <1>4

(* The hook decides what is pending and executes what is due. *)
LEMMA HookFacts ==
    ASSUME TypeInv, ExecutedInEffect, GovernanceHook
    PROVE  /\ DOMAIN preg' = DOMAIN preg
           /\ preg' \in [DOMAIN preg' -> Proposal] /\ vreg' \in [Module -> Nat]
           /\ ExecutedInEffect'
           /\ ~ \E id \in DOMAIN preg' :
                 preg'[id].status = "Scheduled" /\ preg'[id].activation <= job.number
<1> DEFINE decided == FinalizeAllPending(preg, vs'.active, job.number)
           q == ApplyReadyGovernance(decided, vreg, job.number)
<1>0. job.pc = "hook" /\ preg' = q.preg /\ vreg' = q.vreg
  BY DEF GovernanceHook
<1>1. job.number \in Nat /\ proposal_counter \in Nat /\ vreg \in [Module -> Nat]
  BY <1>0, RunningJob DEF TypeInv, Phases
<1>2. /\ DOMAIN decided = DOMAIN preg /\ decided = [i \in DOMAIN decided |-> decided[i]]
      /\ \A i \in DOMAIN preg : decided[i] = TryFinalize(preg[i], vs'.active, job.number)
  BY DEF FinalizeAllPending
<1> HIDE DEF decided
<1>3. \A i \in DOMAIN preg :
        /\ decided[i] \in Proposal
        /\ decided[i].module = preg[i].module /\ decided[i].version = preg[i].version
        /\ decided[i].status = "Executed" => preg[i].status = "Executed"
  BY <1>2, TryFinalizeFacts DEF TypeInv
<1>4. decided \in [DOMAIN decided -> Proposal] /\ DOMAIN decided \subseteq 1..proposal_counter
  BY <1>2, <1>3 DEF TypeInv
<1>5. InEffect(decided, vreg)
  BY <1>2, <1>3 DEF InEffect, ExecutedInEffect
<1>6. /\ q \in Registries(DOMAIN decided)
      /\ \A i \in ReadyToExecute(decided, job.number) : q.preg[i].status \in {"Executed", "Failed"}
      /\ \A i \in DOMAIN decided \ ReadyToExecute(decided, job.number) : q.preg[i] = decided[i]
      /\ InEffect(decided, vreg) => InEffect(q.preg, q.vreg)
  BY <1>1, <1>4, ApplyReadyFacts
<1> HIDE DEF q
<1>7. /\ preg' \in [DOMAIN decided -> Proposal] /\ vreg' \in [Module -> Nat]
      /\ DOMAIN preg' = DOMAIN preg
  BY <1>0, <1>2, <1>6 DEF Registries
<1>8. ExecutedInEffect'
  BY <1>0, <1>5, <1>6 DEF InEffect, ExecutedInEffect
<1>9. ASSUME NEW i \in DOMAIN preg', preg'[i].status = "Scheduled",
             preg'[i].activation <= job.number
      PROVE  FALSE
  <2>1. CASE i \in ReadyToExecute(decided, job.number)
    BY <1>0, <1>6, <1>9, <2>1
  <2>2. CASE i \notin ReadyToExecute(decided, job.number)
    <3>1. preg'[i] = decided[i] /\ i \in DOMAIN decided
      BY <1>0, <1>2, <1>6, <1>7, <2>2
    <3> QED
      BY <1>9, <2>2, <3>1 DEF ReadyToExecute
  <2> QED
    BY <2>1, <2>2
<1> QED
  BY <1>2, <1>7, <1>8, <1>9

(* The shared set at the end of a commit. *)
LEMMA RewardsFacts ==
    ASSUME TypeInv, ApplyIntervalRewards
    PROVE  /\ JobOK(job) /\ SetOK(vs')
           /\ \A v \in Validator :
                vs'.of[v].status = vs.of[v].status /\ vs'.of[v].self = vs.of[v].self
                    /\ vs'.of[v].delegated = vs.of[v].delegated
           /\ \/ /\ job.number % RewardInterval = 0 /\ escrow' = escrow + IntervalMint
                 /\ vs' = DistributeBlockReward(vs, job.proposer)
              \/ escrow' = escrow /\ vs' = vs
<1>1. job.pc = "rewards" /\ JobOK(job) /\ SetOK(vs)
  BY RunningJob DEF ApplyIntervalRewards, Phases, TypeInv
<1>2. job.proposer \in Validator
  BY <1>1 DEF JobOK, Jobs, Validator
<1>3. CASE job.number % RewardInterval = 0
  <2>1. escrow' = escrow + IntervalMint /\ vs' = DistributeBlockReward(vs, job.proposer)
    BY <1>3 DEF ApplyIntervalRewards
  <2> DEFINE t == DistributeBlockReward(vs, job.proposer)
  <2>2. SetOK(t) /\ \A v \in Validator :
            t.of[v].status = vs.of[v].status /\ t.of[v].self = vs.of[v].self
                /\ t.of[v].delegated = vs.of[v].delegated
    BY <1>1, <1>2, DistributeFacts
  <2>3. vs' = t
    BY <2>1
  <2> HIDE DEF t
  <2> QED
    BY <1>1, <1>3, <2>1, <2>2, <2>3
<1>4. CASE job.number % RewardInterval # 0
  <2>1. escrow' = escrow /\ vs' = vs
    BY <1>4 DEF ApplyIntervalRewards
  <2> QED
    BY <1>1, <2>1
<1> QED
  BY <1>3, <1>4

LEMMA SyncIs ==
    ASSUME SyncValidatorSet PROVE vs' = SyncedSet(vs, job.number % EpochLength = 0)
  BY DEF SyncValidatorSet, SyncedSet

LEMMA BaseStep == BaseInv /\ [Next]_vars => BaseInv'
<1> SUFFICES ASSUME BaseInv, [Next]_vars PROVE BaseInv'
  OBVIOUS
<1>0. TypeInv /\ NumberInv /\ ExecutedInEffect
  BY DEF BaseInv
<1>i. job.pc = "idle" \/ (job.pc \in Phases /\ JobOK(job) /\ job.number \in 1..MaxHeight)
  BY <1>0, IdleJob DEF TypeInv, JobOK, Jobs
<1>1. CASE Begin
  <2>1. /\ SetOK(vs') /\ JobOK(job') /\ job'.number \in 1..MaxHeight
        /\ job'.pc = "execute" /\ job'.number = height + 1 /\ wallet' \in [Account -> Nat]
        /\ UNCHANGED <<escrow, height, ledger, unbonding, proposal_counter, preg, vreg, menu, crashes>>
    BY <1>0, <1>1, BeginFacts
  <2>2. TypeInv'
    BY <1>0, <2>1 DEF TypeInv
  <2> QED
    BY <1>0, <2>1, <2>2 DEF BaseInv, NumberInv, ExecutedInEffect
<1>2. CASE ExecStaking
  <2>1. job.pc = "execute" /\ JobOK(job') /\ job'.pc = job.pc /\ job'.number = job.number
    BY <1>0, <1>2, ExecStakingJob
  <2>2. UNCHANGED <<diskVars, vs, menu, slashes, crashes>>
    BY <1>2 DEF ExecStaking
  <2>3. TypeInv'
    BY <1>0, <1>i, <2>1, <2>2 DEF TypeInv, diskVars
  <2> QED
    BY <1>0, <2>1, <2>2, <2>3 DEF BaseInv, NumberInv, ExecutedInEffect, diskVars
<1>3. CASE ExecPropose
  <2>1. /\ job.pc = "execute" /\ job' = [job EXCEPT !.n = @ + 1]
        /\ UNCHANGED <<wallet, escrow, height, ledger, unbonding, vreg, vs, menu, crashes>>
    BY <1>3 DEF ExecPropose, MayCall
  <2>2. JobOK(job') /\ job'.pc = job.pc /\ job'.number = job.number
    BY <1>0, <2>1, RunningJob, JobCount DEF Phases
  <2>3. /\ proposal_counter' \in Nat /\ DOMAIN preg' \subseteq 1..proposal_counter'
        /\ preg' \in [DOMAIN preg' -> Proposal] /\ ExecutedInEffect'
    BY <1>0, <1>3, ProposeFacts
  <2>4. TypeInv'
    BY <1>0, <1>i, <2>1, <2>2, <2>3 DEF TypeInv
  <2> QED
    BY <1>0, <2>1, <2>2, <2>3, <2>4 DEF BaseInv, NumberInv
<1>4. CASE ExecVote
  <2>1. /\ job.pc = "execute" /\ job' = [job EXCEPT !.n = @ + 1]
        /\ UNCHANGED <<wallet, escrow, height, ledger, unbonding, proposal_counter, vreg, vs, menu, crashes>>
    BY <1>4 DEF ExecVote, MayCall
  <2>2. JobOK(job') /\ job'.pc = job.pc /\ job'.number = job.number
    BY <1>0, <2>1, RunningJob, JobCount DEF Phases
  <2>3. DOMAIN preg' = DOMAIN preg /\ preg' \in [DOMAIN preg' -> Proposal] /\ ExecutedInEffect'
    BY <1>0, <1>4, VoteFacts
  <2>4. TypeInv'
    BY <1>0, <1>i, <2>1, <2>2, <2>3 DEF TypeInv
  <2> QED
    BY <1>0, <2>1, <2>2, <2>3, <2>4 DEF BaseInv, NumberInv
<1>5. CASE Drop
  <2>1. job' = Idle /\ UNCHANGED <<diskVars, vs, claimed, counters>>
    BY <1>5 DEF Drop
  <2> QED
    BY <1>0, <2>1, IdleJob
    DEF BaseInv, TypeInv, NumberInv, ExecutedInEffect, diskVars, counters
<1>6. CASE CreditReward
  <2>1. /\ job.pc = "execute"
        /\ job' = [job EXCEPT !.pc = "accounts", !.wallet[job.proposer] = @ + BlockReward]
        /\ UNCHANGED <<diskVars, vs, claimed, counters>>
    BY <1>6 DEF CreditReward
  <2>2. job.pc \in Phases
    BY <2>1 DEF Phases
  <2>3. JobOK(job) /\ JobOK(job') /\ job'.pc = "accounts" /\ job'.number = job.number
    BY <1>0, <2>1, <2>2, RunningJob, JobReward
  <2>4. TypeInv'
    BY <1>0, <1>i, <2>1, <2>3 DEF TypeInv, diskVars, counters
  <2> QED
    BY <1>0, <2>1, <2>3, <2>4 DEF BaseInv, NumberInv, ExecutedInEffect, diskVars
<1>14. CASE PutWallet \/ PutEscrow
  <2>1. /\ job.pc = "accounts"
        /\ \/ escrow' = escrow /\ \E a \in Account : wallet' = [wallet EXCEPT ![a] = job.wallet[a]]
           \/ escrow' = job.escrow /\ wallet' = wallet
        /\ UNCHANGED <<height, ledger, unbonding, proposal_counter, preg, vreg, vs, job, claimed, counters>>
    BY <1>14 DEF PutWallet, PutEscrow
  <2>2. JobOK(job)
    BY <1>0, <2>1, RunningJob DEF Phases
  <2>3. job.wallet \in [Account -> Nat] /\ job.escrow \in Nat /\ wallet \in [Account -> Nat] /\ escrow \in Nat
    BY <1>0, <2>2 DEF JobOK, Jobs, TypeInv
  <2>4. wallet' \in [Account -> Nat] /\ escrow' \in Nat
    BY <2>1, <2>3
  <2>5. TypeInv'
    BY <1>0, <2>1, <2>4 DEF TypeInv, counters
  <2> QED
    BY <1>0, <2>1, <2>5 DEF BaseInv, NumberInv, ExecutedInEffect
<1>7. CASE PutBlock
  <2>1. /\ job.pc = "accounts" /\ height' = job.number /\ job' = [job EXCEPT !.pc = "delta"]
        /\ UNCHANGED <<wallet, escrow, ledger, unbonding, proposal_counter, preg, vreg, vs, claimed, counters>>
    BY <1>7 DEF PutBlock
  <2>2. job.pc \in Phases /\ "delta" \in Phases
    BY <2>1 DEF Phases
  <2>3. JobOK(job) /\ JobOK(job') /\ job'.pc = "delta" /\ job'.number = job.number
    BY <1>0, <2>1, <2>2, RunningJob, JobMove
  <2>4. height' \in 0..MaxHeight
    BY <1>i, <2>1
  <2>5. TypeInv'
    BY <1>0, <1>i, <2>1, <2>3, <2>4 DEF TypeInv, counters
  <2> QED
    BY <1>0, <2>1, <2>3, <2>5 DEF BaseInv, NumberInv, ExecutedInEffect
<1>8. CASE ApplyStakingDelta
  <2>1. /\ job.pc = "delta" /\ ledger' = job.ledger /\ unbonding' = job.unbonding
        /\ job' = [job EXCEPT !.pc = "hook"]
        /\ UNCHANGED <<wallet, escrow, height, proposal_counter, preg, vreg, vs, claimed, counters>>
    BY <1>8 DEF ApplyStakingDelta
  <2>2. job.pc \in Phases /\ "hook" \in Phases
    BY <2>1 DEF Phases
  <2>3. JobOK(job) /\ JobOK(job') /\ job'.pc = "hook" /\ job'.number = job.number
    BY <1>0, <2>1, <2>2, RunningJob, JobMove
  <2>4. job.ledger \in Ledgers /\ UnbondingOK(job.unbonding)
    BY <2>3 DEF JobOK, Jobs
  <2>5. TypeInv'
    BY <1>0, <1>i, <2>1, <2>3, <2>4 DEF TypeInv, counters
  <2> QED
    BY <1>0, <2>1, <2>3, <2>5 DEF BaseInv, NumberInv, ExecutedInEffect
<1>9. CASE GovernanceHook
  <2>1. /\ job.pc = "hook" /\ vs' = job.vs /\ job' = [job EXCEPT !.pc = "rewards"]
        /\ UNCHANGED <<wallet, escrow, height, ledger, unbonding, proposal_counter, claimed, counters>>
    BY <1>9 DEF GovernanceHook, ExecutedSet
  <2>2. job.pc \in Phases /\ "rewards" \in Phases
    BY <2>1 DEF Phases
  <2>3. JobOK(job) /\ JobOK(job') /\ job'.pc = "rewards" /\ job'.number = job.number
    BY <1>0, <2>1, <2>2, RunningJob, JobMove
  <2>4. SetOK(job.vs)
    BY <2>3 DEF JobOK
  <2>5. /\ DOMAIN preg' = DOMAIN preg /\ preg' \in [DOMAIN preg' -> Proposal]
        /\ vreg' \in [Module -> Nat] /\ ExecutedInEffect'
    BY <1>0, <1>9, HookFacts
  <2>6. TypeInv'
    BY <1>0, <1>i, <2>1, <2>3, <2>4, <2>5 DEF TypeInv, counters
  <2> QED
    BY <1>0, <2>1, <2>3, <2>5, <2>6 DEF BaseInv, NumberInv
<1>10. CASE ApplyIntervalRewards
  <2>1. /\ job.pc = "rewards" /\ job' = [job EXCEPT !.pc = "sync"]
        /\ UNCHANGED <<wallet, height, ledger, unbonding, proposal_counter, preg, vreg, counters>>
    BY <1>10 DEF ApplyIntervalRewards
  <2>2. job.pc \in Phases /\ "sync" \in Phases
    BY <2>1 DEF Phases
  <2>3. JobOK(job) /\ JobOK(job') /\ job'.pc = "sync" /\ job'.number = job.number
    BY <1>0, <2>1, <2>2, RunningJob, JobMove
  <2>4. SetOK(vs') /\ (escrow' = escrow + IntervalMint \/ escrow' = escrow)
    BY <1>0, <1>10, RewardsFacts
  <2>5. escrow' \in Nat
    BY <1>0, <2>4, StakingConstants DEF TypeInv
  <2>6. TypeInv'
    BY <1>0, <1>i, <2>1, <2>3, <2>4, <2>5 DEF TypeInv, counters
  <2> QED
    BY <1>0, <2>1, <2>3, <2>6 DEF BaseInv, NumberInv, ExecutedInEffect
<1>11. CASE SyncValidatorSet
  <2>1. job' = Idle /\ UNCHANGED <<diskVars, claimed, counters>>
    BY <1>11 DEF SyncValidatorSet
  <2>2. SetOK(vs')
    BY <1>0, <1>11, SyncIs, SyncFacts DEF TypeInv
  <2> QED
    BY <1>0, <2>1, <2>2, IdleJob
    DEF BaseInv, TypeInv, NumberInv, ExecutedInEffect, diskVars, counters
<1>12. CASE Crash
  <2>1. /\ crashes' = crashes + 1 /\ vs' = EmptySet /\ job' = Idle
        /\ UNCHANGED <<diskVars, menu, calls, slashes>>
    BY <1>12 DEF Crash
  <2> QED
    BY <1>0, <2>1, IdleJob, EmptySetOK
    DEF BaseInv, TypeInv, NumberInv, ExecutedInEffect, diskVars
<1>13. CASE AtBound \/ UNCHANGED vars
  <2>1. UNCHANGED <<diskVars, vs, job, claimed, counters>>
    BY <1>13 DEF AtBound, vars
  <2> QED
    BY <1>0, <2>1 DEF BaseInv, TypeInv, NumberInv, ExecutedInEffect, diskVars, counters
<1> QED
  BY <1>1, <1>2, <1>3, <1>4, <1>5, <1>6, <1>7, <1>8, <1>9, <1>10, <1>11, <1>12, <1>13, <1>14 DEF Next

LEMMA BaseInvariant == Spec => []BaseInv
  BY BaseInit, BaseStep, PTL DEF Spec

(* Type correctness: no balance is ever negative, although the code debits *)
(* the escrow and the wallets on copies and writes them in several steps;  *)
(* a validator of the active set is always one the set knows.              *)
THEOREM StakingTypeOK == Spec => []TypeOK
<1>1. BaseInv => TypeOK
  <2>1. ASSUME BaseInv PROVE TypeOK
    <3>1. \A v \in Validator : vs.of[v] \in Entry
      BY <2>1 DEF BaseInv, TypeInv, SetOK, Sets
    <3>2. vs.active \subseteq {v \in Validator : Known(vs, v)}
      BY <2>1 DEF BaseInv, TypeInv, SetOK, Sets
    <3>3. \A v \in Validator :
            {vs.of[v].self, vs.of[v].delegated, vs.of[v].pending, vs.of[v].pool, vs.of[v].denom}
                \subseteq Nat
      BY <3>1 DEF Entry
    <3>4. \A k \in DOMAIN unbonding : unbonding[k] \in Nat
      BY <2>1 DEF BaseInv, TypeInv, UnbondingOK
    <3> QED
      BY <2>1, <3>2, <3>3, <3>4 DEF BaseInv, TypeInv, TypeOK, Ledgers
  <2> QED
    BY <2>1
<1> QED
  BY <1>1, BaseInvariant, PTL

(* What was executed stays in effect: whatever is proposed, voted on and   *)
(* executed later, no module runs a version below an executed one's.       *)
THEOREM StakingExecutedInEffect == Spec => []ExecutedInEffect
<1>1. BaseInv => ExecutedInEffect
  BY DEF BaseInv
<1> QED
  BY <1>1, BaseInvariant, PTL

(* Which action may leave the phase of the hook. *)
LEMMA HookStep ==
    ASSUME BaseInv, [Next]_vars, job.pc = "hook", job'.pc = "rewards"
    PROVE  GovernanceHook
<1>1. job # Idle
  BY IdleJob
<1>2. job' # Idle
  BY IdleJob
<1> QED
  BY <1>1, <1>2
  DEF Next, Begin, ExecStaking, ExecPropose, ExecVote, MayCall, Drop, CreditReward, PutWallet,
      PutEscrow, PutBlock,
      ApplyStakingDelta, ApplyIntervalRewards, SyncValidatorSet, Crash, AtBound, vars

(* No scheduled upgrade is missed: the hook of a block leaves none behind  *)
(* whose activation is reached, whatever hooks crashes kept from running.  *)
THEOREM StakingOverdueExecuted == Spec => OverdueExecuted
<1>1. ASSUME BaseInv, [Next]_vars
      PROVE  [(job.pc = "hook" /\ job'.pc = "rewards") =>
                ~ \E id \in DOMAIN preg' :
                    preg'[id].status = "Scheduled" /\ preg'[id].activation <= job.number]_vars
  <2>1. ASSUME job.pc = "hook", job'.pc = "rewards"
        PROVE  ~ \E id \in DOMAIN preg' :
                    preg'[id].status = "Scheduled" /\ preg'[id].activation <= job.number
    BY <1>1, <2>1, HookStep, HookFacts DEF BaseInv
  <2> QED
    BY <2>1
<1> QED
  BY <1>1, BaseInvariant, PTL DEF Spec, OverdueExecuted
-----------------------------------------------------------------------------
(* Coins.  A block is counted as paid for once its rewards are written, so *)
(* between the write of the block and that of the rewards the bound is     *)
(* that of the block before; the coinbase's reward is part of the copies   *)
(* from the end of the execution on.  While the accounts are written one   *)
(* by one only the copies are bounded: some of what is on disk is old.     *)

PaidHeight == IF job.pc \in {"delta", "hook", "rewards"} THEN height - 1 ELSE height
Supply(h) == Funds * Cardinality(Account) + IntervalMint * (h \div RewardInterval)
Coinbases == BlockReward * height
CoinInv ==
    crashes = 0 =>
        /\ job.pc # "accounts" => Total(wallet, escrow) <= Supply(PaidHeight) + Coinbases
        /\ job.pc = "execute" => Total(job.wallet, job.escrow) <= Supply(PaidHeight) + Coinbases
        /\ job.pc = "accounts" =>
              Total(job.wallet, job.escrow) <= Supply(PaidHeight) + Coinbases + BlockReward

LEMMA SupplyFacts ==
    ASSUME NEW h \in Nat
    PROVE  /\ Supply(h) \in Nat
           /\ Supply(h) <= Supply(h + 1)
           /\ (h + 1) % RewardInterval = 0 => Supply(h + 1) = Supply(h) + IntervalMint
<1> DEFINE p == h \div RewardInterval
           q == (h + 1) \div RewardInterval
           base == Funds * Cardinality(Account)
<1>1. /\ RewardInterval \in Nat \ {0} /\ IntervalMint \in Nat /\ Funds \in Nat
      /\ Cardinality(Account) \in Nat
  BY StakingConstants, AccountFinite
<1>2. p \in Nat /\ q \in Nat /\ p <= q
  BY <1>1, DivBounds, DivMonotone
<1>3. (h + 1) % RewardInterval = 0 => q = p + 1
  BY <1>1, DivNext
<1>4. base \in Nat
  BY <1>1
<1>5. Supply(h) = base + IntervalMint * p /\ Supply(h + 1) = base + IntervalMint * q
  BY DEF Supply
<1> HIDE DEF p, q, base
<1>6. IntervalMint * p \in Nat /\ IntervalMint * q \in Nat /\ IntervalMint * p <= IntervalMint * q
  BY <1>1, <1>2
<1>7. q = p + 1 => IntervalMint * q = IntervalMint * p + IntervalMint
  BY <1>1, <1>2
<1> QED
  BY <1>1, <1>3, <1>4, <1>5, <1>6, <1>7

LEMMA TotalType ==
    ASSUME NEW w \in [Account -> Nat], NEW e \in Nat
    PROVE  Total(w, e) \in Nat
  BY AccountFinite, SumNat DEF Total

LEMMA TotalShrinks ==
    ASSUME NEW w \in [Account -> Nat], NEW u \in [Account -> Nat], NEW e \in Nat,
           \A a \in Account : u[a] <= w[a]
    PROVE  Total(u, e) <= Total(w, e)
<1>1. SumFunctionOnSet(u, Account) <= SumFunctionOnSet(w, Account)
  BY AccountFinite, SumMonotone
<1>2. SumFunctionOnSet(u, Account) \in Nat /\ SumFunctionOnSet(w, Account) \in Nat
  BY AccountFinite, SumNat
<1> QED
  BY <1>1, <1>2 DEF Total

LEMMA TotalReward ==
    ASSUME NEW w \in [Account -> Nat], NEW e \in Nat, NEW a \in Account, NEW r \in Nat
    PROVE  Total([w EXCEPT ![a] = @ + r], e) = Total(w, e) + r
<1> DEFINE u == [w EXCEPT ![a] = @ + r]
<1>1. /\ \A x \in Account : w[x] \in Int /\ u[x] \in Int
      /\ \A x \in Account \ {a} : u[x] = w[x]
      /\ u[a] = w[a] + r /\ w[a] \in Nat
  OBVIOUS
<1> HIDE DEF u
<1>2. SumFunctionOnSet(u, Account) = SumFunctionOnSet(w, Account) + u[a] - w[a]
  BY <1>1, AccountFinite, SumUpdate
<1>3. SumFunctionOnSet(w, Account) \in Nat
  BY AccountFinite, SumNat
<1> QED
  BY <1>1, <1>2, <1>3 DEF Total, u

LEMMA CoinInit == Init => CoinInv
<1> SUFFICES ASSUME Init PROVE CoinInv
  OBVIOUS
<1>1. /\ job.pc = "idle" /\ height = 0 /\ escrow = 0 /\ wallet = [a \in Account |-> Funds]
      /\ Funds \in Nat /\ BlockReward \in Nat
  BY IdleJob, StakingConstants DEF Init
<1>2. SumFunctionOnSet(wallet, Account) = Funds * Cardinality(Account)
  BY <1>1, AccountFinite, SumConst
<1>3. PaidHeight = 0 /\ 0 \div RewardInterval \in Nat /\ IntervalMint \in Nat
  BY <1>1, StakingConstants DEF PaidHeight
<1>4. IntervalMint * (0 \div RewardInterval) \in Nat /\ Funds * Cardinality(Account) \in Nat
  BY <1>1, <1>3, AccountFinite
<1>5. Coinbases = 0
  BY <1>1 DEF Coinbases
<1>6. Total(wallet, escrow) <= Supply(PaidHeight) + Coinbases
  BY <1>1, <1>2, <1>3, <1>4, <1>5 DEF Total, Supply
<1> QED
  BY <1>1, <1>6 DEF CoinInv

LEMMA CoinStep == BaseInv /\ CoinInv /\ [Next]_vars => CoinInv'
<1> SUFFICES ASSUME BaseInv, CoinInv, [Next]_vars, crashes' = 0
             PROVE  /\ job'.pc # "accounts" =>
                          Total(wallet', escrow') <= Supply(PaidHeight') + Coinbases'
                    /\ job'.pc = "execute" =>
                          Total(job'.wallet, job'.escrow) <= Supply(PaidHeight') + Coinbases'
                    /\ job'.pc = "accounts" =>
                          Total(job'.wallet, job'.escrow) <= Supply(PaidHeight') + Coinbases' + BlockReward
  <2>1. Supply(PaidHeight)' = Supply(PaidHeight')
    BY DEF Supply
  <2> QED
    BY <2>1 DEF CoinInv
<1>0. TypeInv /\ NumberInv /\ ExecutedInEffect
  BY DEF BaseInv
<1>1. crashes = 0 /\ ~ Crash
  <2>1. crashes' = crashes \/ Crash
    BY DEF Next, Begin, ExecStaking, ExecPropose, ExecVote, Drop, CreditReward, PutWallet, PutEscrow,
       PutBlock, ApplyStakingDelta, GovernanceHook, ApplyIntervalRewards, SyncValidatorSet, AtBound,
       vars, counters
  <2>2. ~ Crash
    BY <1>0 DEF Crash, TypeInv
  <2> QED
    BY <2>1, <2>2
<1>h. /\ height \in Nat /\ wallet \in [Account -> Nat] /\ escrow \in Nat /\ BlockReward \in Nat
      /\ Total(wallet, escrow) \in Nat /\ Coinbases \in Nat
  BY <1>0, TotalType, StakingConstants DEF TypeInv, Coinbases
<1>p. /\ PaidHeight \in Nat /\ PaidHeight <= height
      /\ job.pc \in {"delta", "hook", "rewards"} => height = PaidHeight + 1
  <2>1. CASE job.pc \in {"delta", "hook", "rewards"}
    <3>1. job.number = height /\ job.number \in 1..MaxHeight
      BY <1>0, <2>1, RunningJob DEF NumberInv, Phases
    <3> QED
      BY <1>h, <2>1, <3>1 DEF PaidHeight
  <2> QED
    BY <1>h, <2>1 DEF PaidHeight
<1>s. Supply(PaidHeight) \in Nat /\ Supply(PaidHeight) <= Supply(height) /\ Supply(height) \in Nat
  <2>1. PaidHeight = height \/ height = PaidHeight + 1
    BY <1>p DEF PaidHeight
  <2> QED
    BY <1>h, <1>p, <2>1, SupplyFacts
<1>c. job.pc # "accounts" => Total(wallet, escrow) <= Supply(PaidHeight) + Coinbases
  BY <1>1 DEF CoinInv
<1>b. height' = height => Coinbases' = Coinbases
  BY DEF Coinbases
<1>j. job.pc = "execute" \/ job.pc = "accounts" =>
        /\ JobOK(job) /\ Total(job.wallet, job.escrow) \in Nat
        /\ job.wallet \in [Account -> Nat] /\ job.escrow \in Nat
        /\ job.proposer \in Account
  <2>1. ASSUME job.pc = "execute" \/ job.pc = "accounts" PROVE JobOK(job)
    BY <1>0, <2>1, RunningJob DEF Phases
  <2> QED
    BY <2>1, TotalType DEF JobOK, Jobs, Account, Validator
(* The coins stay where they are and no commit is executing. *)
<1>q. ASSUME wallet' = wallet, escrow' = escrow, height' = height, job.pc # "accounts",
             job'.pc \notin {"execute", "accounts"},
             PaidHeight' = PaidHeight \/ PaidHeight' = height
      PROVE  Total(wallet', escrow') <= Supply(PaidHeight') + Coinbases'
  BY <1>q, <1>c, <1>s, <1>h, <1>b
<1>2. CASE Begin
  <2>1. /\ job.pc = "idle" /\ job'.pc = "execute" /\ job'.wallet = wallet' /\ job'.escrow = escrow
        /\ wallet' \in [Account -> Nat] /\ \A a \in Account : wallet'[a] <= wallet[a]
        /\ escrow' = escrow /\ height' = height
    BY <1>0, <1>2, BeginFacts, IdleJob
  <2>2. PaidHeight' = PaidHeight
    BY <2>1 DEF PaidHeight
  <2>3. Total(wallet', escrow) <= Total(wallet, escrow) /\ Total(wallet', escrow) \in Nat
    BY <1>h, <2>1, TotalShrinks, TotalType
  <2> QED
    BY <1>b, <1>c, <1>h, <1>s, <2>1, <2>2, <2>3
<1>3. CASE ExecStaking
  <2>1. PICK k : /\ CallOK(job, k) /\ job.pc = "execute" /\ job'.pc = job.pc
                 /\ job'.wallet = k.wallet /\ job'.escrow = k.escrow
    BY <1>0, <1>3, ExecStakingJob
  <2>2. Total(k.wallet, k.escrow) = Total(job.wallet, job.escrow)
    BY <2>1 DEF CallOK, Conserves
  <2>3. wallet' = wallet /\ escrow' = escrow /\ height' = height
    BY <1>3 DEF ExecStaking, diskVars
  <2>4. PaidHeight' = PaidHeight
    BY <2>1, <2>3 DEF PaidHeight
  <2> QED
    BY <1>1, <1>b, <2>1, <2>2, <2>3, <2>4 DEF CoinInv
<1>4. CASE ExecPropose \/ ExecVote
  <2>1. /\ job.pc = "execute" /\ job' = [job EXCEPT !.n = @ + 1]
        /\ wallet' = wallet /\ escrow' = escrow /\ height' = height
    BY <1>4 DEF ExecPropose, ExecVote, MayCall
  <2>2. job'.pc = job.pc /\ job'.wallet = job.wallet /\ job'.escrow = job.escrow
    BY <1>j, <2>1, JobCount
  <2>3. PaidHeight' = PaidHeight
    BY <2>1, <2>2 DEF PaidHeight
  <2> QED
    BY <1>1, <1>b, <2>1, <2>2, <2>3 DEF CoinInv
<1>5. CASE Drop
  <2>1. job.pc = "execute" /\ job'.pc = "idle" /\ wallet' = wallet /\ escrow' = escrow /\ height' = height
    BY <1>5, IdleJob DEF Drop, diskVars
  <2>2. PaidHeight' = PaidHeight
    BY <2>1 DEF PaidHeight
  <2> QED
    BY <1>q, <2>1, <2>2
<1>6. CASE CreditReward
  <2>1. /\ job.pc = "execute" /\ wallet' = wallet /\ escrow' = escrow /\ height' = height
        /\ job' = [job EXCEPT !.pc = "accounts", !.wallet[job.proposer] = @ + BlockReward]
    BY <1>6 DEF CreditReward, diskVars
  <2>2. /\ job'.pc = "accounts" /\ job'.escrow = job.escrow
        /\ job'.wallet = [job.wallet EXCEPT ![job.proposer] = @ + BlockReward]
    BY <1>j, <2>1, JobReward
  <2>3. Total(job'.wallet, job'.escrow) = Total(job.wallet, job.escrow) + BlockReward
    BY <1>h, <1>j, <2>1, <2>2, TotalReward
  <2>4. PaidHeight' = PaidHeight /\ Coinbases' = Coinbases
    BY <1>b, <2>1, <2>2 DEF PaidHeight
  <2>5. Total(job.wallet, job.escrow) <= Supply(PaidHeight) + Coinbases
    BY <1>1, <2>1 DEF CoinInv
  <2> QED
    BY <1>h, <1>j, <1>s, <2>1, <2>2, <2>3, <2>4, <2>5
<1>7. CASE PutWallet \/ PutEscrow
  <2>1. job.pc = "accounts" /\ job' = job /\ height' = height
    BY <1>7 DEF PutWallet, PutEscrow
  <2>2. PaidHeight' = PaidHeight
    BY <2>1 DEF PaidHeight
  <2> QED
    BY <1>1, <1>b, <2>1, <2>2 DEF CoinInv
<1>8. CASE PutBlock
  <2>1. /\ job.pc = "accounts" /\ wallet = job.wallet /\ escrow = job.escrow
        /\ height' = job.number /\ job' = [job EXCEPT !.pc = "delta"]
        /\ wallet' = wallet /\ escrow' = escrow
    BY <1>8 DEF PutBlock
  <2>2. "delta" \in Phases /\ height' = height + 1
    BY <1>0, <2>1 DEF Phases, NumberInv
  <2>3. job'.pc = "delta"
    BY <1>j, <2>1, <2>2, JobMove
  <2>4. PaidHeight' = height /\ PaidHeight = height
    BY <1>h, <2>1, <2>2, <2>3 DEF PaidHeight
  <2>5. Coinbases' = Coinbases + BlockReward
    BY <1>h, <2>2 DEF Coinbases
  <2>6. Total(job.wallet, job.escrow) <= Supply(PaidHeight) + Coinbases + BlockReward
    BY <1>1, <2>1 DEF CoinInv
  <2> QED
    BY <1>h, <1>s, <2>1, <2>3, <2>4, <2>5, <2>6
<1>9. CASE ApplyStakingDelta \/ GovernanceHook
  <2>1. /\ wallet' = wallet /\ escrow' = escrow /\ height' = height
        /\ \/ job.pc = "delta" /\ job' = [job EXCEPT !.pc = "hook"]
           \/ job.pc = "hook" /\ job' = [job EXCEPT !.pc = "rewards"]
    BY <1>9 DEF ApplyStakingDelta, GovernanceHook
  <2>2. JobOK(job) /\ "hook" \in Phases /\ "rewards" \in Phases
    BY <1>0, <2>1, RunningJob DEF Phases
  <2>3. job'.pc \in {"hook", "rewards"}
    <3>1. CASE job' = [job EXCEPT !.pc = "hook"]
      BY <2>2, <3>1, JobMove
    <3>2. CASE job' = [job EXCEPT !.pc = "rewards"]
      BY <2>2, <3>2, JobMove
    <3> QED
      BY <2>1, <3>1, <3>2
  <2>4. PaidHeight' = PaidHeight
    BY <2>1, <2>3 DEF PaidHeight
  <2> QED
    BY <1>q, <2>1, <2>3, <2>4
<1>10. CASE ApplyIntervalRewards
  <2>1. /\ job.pc = "rewards" /\ job' = [job EXCEPT !.pc = "sync"]
        /\ wallet' = wallet /\ height' = height
    BY <1>10 DEF ApplyIntervalRewards
  <2>2. JobOK(job) /\ "sync" \in Phases /\ job.number = height
    BY <1>0, <2>1, RunningJob DEF Phases, NumberInv
  <2>3. job'.pc = "sync"
    BY <2>1, <2>2, JobMove
  <2>4. PaidHeight' = height /\ height = PaidHeight + 1 /\ Coinbases' = Coinbases
    BY <1>b, <1>p, <2>1, <2>3 DEF PaidHeight
  <2>5. CASE job.number % RewardInterval = 0 /\ escrow' = escrow + IntervalMint
    <3>1. Supply(height) = Supply(PaidHeight) + IntervalMint
      BY <1>p, <2>2, <2>4, <2>5, SupplyFacts
    <3>2. SumFunctionOnSet(wallet, Account) \in Nat /\ IntervalMint \in Nat
      BY <1>h, AccountFinite, SumNat, StakingConstants
    <3>3. Total(wallet', escrow') = Total(wallet, escrow) + IntervalMint
      BY <1>h, <2>1, <2>5, <3>2 DEF Total
    <3> QED
      BY <1>c, <1>h, <1>s, <2>1, <2>3, <2>4, <3>1, <3>2, <3>3
  <2>6. CASE escrow' = escrow
    BY <1>q, <2>1, <2>3, <2>4, <2>6
  <2> QED
    BY <1>0, <1>10, <2>5, <2>6, RewardsFacts
<1>11. CASE SyncValidatorSet
  <2>1. job.pc = "sync" /\ job'.pc = "idle" /\ wallet' = wallet /\ escrow' = escrow /\ height' = height
    BY <1>11, IdleJob DEF SyncValidatorSet, diskVars
  <2>2. PaidHeight' = height
    BY <2>1 DEF PaidHeight
  <2> QED
    BY <1>q, <2>1, <2>2
<1>12. CASE AtBound \/ UNCHANGED vars
  <2>1. wallet' = wallet /\ escrow' = escrow /\ height' = height /\ job' = job
    BY <1>12 DEF AtBound, vars, diskVars
  <2>2. PaidHeight' = PaidHeight
    BY <2>1 DEF PaidHeight
  <2> QED
    BY <1>1, <1>b, <2>1, <2>2 DEF CoinInv
<1> QED
  BY <1>1, <1>2, <1>3, <1>4, <1>5, <1>6, <1>7, <1>8, <1>9, <1>10, <1>11, <1>12 DEF Next

(* Between blocks of a process that never crashed no more coins exist than *)
(* the genesis balances, one IntervalMint for every complete reward        *)
(* interval of the chain and one BlockReward for each of its blocks,       *)
(* whatever is staked, withdrawn, claimed, slashed or dropped and in       *)
(* whatever order the accounts of a block are written.                     *)
THEOREM StakingNoInflation == Spec => []NoInflation
<1>1. BaseInv /\ CoinInv => NoInflation
  <2> SUFFICES ASSUME BaseInv, CoinInv, AtRest
               PROVE  SumFunctionOnSet(wallet, Account) + escrow
                        <= Funds * Cardinality(Account) + IntervalMint * (height \div RewardInterval)
                            + BlockReward * height
    BY DEF NoInflation
  <2>1. crashes = 0 /\ job.pc = "idle"
    BY IdleJob DEF AtRest
  <2>2. PaidHeight = height
    BY <2>1 DEF PaidHeight
  <2>3. Total(wallet, escrow) <= Supply(height) + Coinbases
    BY <2>1, <2>2 DEF CoinInv
  <2> QED
    BY <2>3 DEF Total, Supply, Coinbases
<1>2. Spec => [](BaseInv /\ CoinInv)
  BY BaseInit, BaseStep, CoinInit, CoinStep, PTL DEF Spec
<1> QED
  BY <1>1, <1>2, PTL
-----------------------------------------------------------------------------
(* The commit as a path: what every step does to the validator set, the    *)
(* ledger, the unbondings and the escrow, on disk and in the copies.       *)

Kept(x) == x' = x
DiskKept == Kept(ledger) /\ Kept(unbonding) /\ Kept(escrow)
CopyKept ==
    /\ job'.vs = job.vs /\ job'.ledger = job.ledger
    /\ job'.unbonding = job.unbonding /\ job'.escrow = job.escrow
Goes(from, to) == job.pc = from /\ job'.pc = to

CallShape ==
    /\ Goes("execute", "execute") /\ DiskKept /\ Kept(vs) /\ JobOK(job)
    /\ \E k : /\ CallOK(job, k)
              /\ job'.vs = k.vs /\ job'.ledger = k.ledger
              /\ job'.unbonding = k.unbonding /\ job'.escrow = k.escrow
WriteShape ==
    /\ CopyKept
    /\ \/ Goes("execute", "accounts") /\ DiskKept /\ Kept(vs)
       \/ Goes("accounts", "accounts") /\ Kept(ledger) /\ Kept(unbonding) /\ Kept(vs)
       \/ Goes("accounts", "delta") /\ DiskKept /\ Kept(vs) /\ escrow = job.escrow
       \/ /\ Goes("delta", "hook") /\ Kept(escrow) /\ Kept(vs)
          /\ ledger' = job.ledger /\ unbonding' = job.unbonding
       \/ Goes("hook", "rewards") /\ DiskKept /\ vs' = job.vs
RewardShape ==
    Goes("rewards", "sync") /\ CopyKept /\ Kept(ledger) /\ Kept(unbonding) /\ ApplyIntervalRewards
SyncShape ==
    /\ Goes("sync", "idle") /\ DiskKept
    /\ \E boundary \in BOOLEAN : vs' = SyncedSet(vs, boundary)
Shape ==
    \/ Goes("idle", "execute") /\ Begin /\ Kept(crashes)
    \/ CallShape /\ Kept(crashes)
    \/ Goes("execute", "idle") /\ DiskKept /\ Kept(vs) /\ Kept(crashes)
    \/ WriteShape /\ Kept(crashes)
    \/ RewardShape /\ Kept(crashes)
    \/ SyncShape /\ Kept(crashes)
    \/ job'.pc = "idle" /\ crashes' = crashes + 1 /\ vs' = EmptySet
    \/ DiskKept /\ Kept(job) /\ Kept(vs) /\ Kept(crashes)

LEMMA StepShape == ASSUME BaseInv, [Next]_vars PROVE Shape
<1>0. TypeInv /\ NumberInv /\ ExecutedInEffect
  BY DEF BaseInv
<1>1. CASE Begin
  <2>1. Goes("idle", "execute") /\ Kept(crashes)
    BY <1>0, <1>1, BeginFacts, IdleJob DEF Goes, Kept
  <2> QED
    BY <1>1, <2>1 DEF Shape
<1>2. CASE ExecStaking
  <2>1. PICK k : /\ CallOK(job, k) /\ job.pc = "execute"
                 /\ JobOK(job) /\ job'.pc = job.pc
                 /\ job'.vs = k.vs /\ job'.escrow = k.escrow
                 /\ job'.ledger = k.ledger /\ job'.unbonding = k.unbonding
    BY <1>0, <1>2, ExecStakingJob
  <2>2. DiskKept /\ Kept(vs) /\ Kept(crashes)
    BY <1>2 DEF ExecStaking, diskVars, DiskKept, Kept
  <2>3. CallShape
    BY <2>1, <2>2 DEF CallShape, Goes
  <2> QED
    BY <2>2, <2>3 DEF Shape
<1>3. CASE ExecPropose \/ ExecVote
  <2>1. /\ job.pc = "execute" /\ job' = [job EXCEPT !.n = @ + 1]
        /\ DiskKept /\ Kept(vs) /\ Kept(crashes)
    BY <1>3 DEF ExecPropose, ExecVote, MayCall, DiskKept, Kept
  <2>2. JobOK(job)
    BY <1>0, <2>1, RunningJob DEF Phases
  <2>3. /\ job'.pc = job.pc /\ job'.vs = job.vs /\ job'.escrow = job.escrow
        /\ job'.ledger = job.ledger /\ job'.unbonding = job.unbonding
    BY <2>1, <2>2, JobCount
  <2>4. CallOK(job, job)
    BY <2>2, StayOK
  <2>5. CallShape
    BY <2>1, <2>2, <2>3, <2>4 DEF CallShape, Goes
  <2> QED
    BY <2>1, <2>5 DEF Shape
<1>4. CASE Drop
  <2>1. Goes("execute", "idle") /\ DiskKept /\ Kept(vs) /\ Kept(crashes)
    BY <1>4, IdleJob DEF Drop, diskVars, counters, Goes, DiskKept, Kept
  <2> QED
    BY <2>1 DEF Shape
<1>5. ASSUME NEW x \in Phases, NEW y \in Phases, job.pc = x, job' = [job EXCEPT !.pc = y]
      PROVE  CopyKept /\ Goes(x, y)
  <2>1. JobOK(job)
    BY <1>0, <1>5, RunningJob
  <2> QED
    BY <1>5, <2>1, JobMove DEF CopyKept, Goes
<1>6. /\ "execute" \in Phases /\ "accounts" \in Phases /\ "delta" \in Phases /\ "hook" \in Phases
      /\ "rewards" \in Phases /\ "sync" \in Phases
  BY DEF Phases
<1>7. CASE CreditReward
  <2>1. /\ job.pc = "execute" /\ DiskKept /\ Kept(vs) /\ Kept(crashes)
        /\ job' = [job EXCEPT !.pc = "accounts", !.wallet[job.proposer] = @ + BlockReward]
    BY <1>7 DEF CreditReward, diskVars, counters, DiskKept, Kept
  <2>2. JobOK(job)
    BY <1>0, <1>6, <2>1, RunningJob
  <2>3. CopyKept /\ Goes("execute", "accounts")
    BY <2>1, <2>2, JobReward DEF CopyKept, Goes
  <2> QED
    BY <2>1, <2>3 DEF Shape, WriteShape
<1>8. CASE PutWallet \/ PutEscrow
  <2>1. CopyKept /\ Goes("accounts", "accounts")
    BY <1>8 DEF PutWallet, PutEscrow, CopyKept, Goes
  <2>2. Kept(ledger) /\ Kept(unbonding) /\ Kept(vs) /\ Kept(crashes)
    BY <1>8 DEF PutWallet, PutEscrow, counters, Kept
  <2> QED
    BY <2>1, <2>2 DEF Shape, WriteShape
<1>15. CASE PutBlock
  <2>1. CopyKept /\ Goes("accounts", "delta")
    BY <1>5, <1>6, <1>15 DEF PutBlock
  <2>2. DiskKept /\ Kept(vs) /\ Kept(crashes) /\ escrow = job.escrow
    BY <1>15 DEF PutBlock, counters, DiskKept, Kept
  <2> QED
    BY <2>1, <2>2 DEF Shape, WriteShape
<1>9. CASE ApplyStakingDelta
  <2>1. CopyKept /\ Goes("delta", "hook")
    BY <1>5, <1>6, <1>9 DEF ApplyStakingDelta
  <2>2. /\ Kept(escrow) /\ Kept(vs) /\ Kept(crashes)
        /\ ledger' = job.ledger /\ unbonding' = job.unbonding
    BY <1>9 DEF ApplyStakingDelta, counters, Kept
  <2> QED
    BY <2>1, <2>2 DEF Shape, WriteShape
<1>10. CASE GovernanceHook
  <2>1. CopyKept /\ Goes("hook", "rewards")
    BY <1>5, <1>6, <1>10 DEF GovernanceHook
  <2>2. DiskKept /\ vs' = job.vs /\ Kept(crashes)
    BY <1>10 DEF GovernanceHook, ExecutedSet, counters, DiskKept, Kept
  <2> QED
    BY <2>1, <2>2 DEF Shape, WriteShape
<1>11. CASE ApplyIntervalRewards
  <2>1. CopyKept /\ Goes("rewards", "sync")
    BY <1>5, <1>6, <1>11 DEF ApplyIntervalRewards
  <2>2. Kept(ledger) /\ Kept(unbonding) /\ Kept(crashes)
    BY <1>11 DEF ApplyIntervalRewards, counters, Kept
  <2> QED
    BY <1>11, <2>1, <2>2 DEF Shape, RewardShape
<1>12. CASE SyncValidatorSet
  <2>1. Goes("sync", "idle") /\ DiskKept /\ Kept(crashes)
    BY <1>12, IdleJob DEF SyncValidatorSet, diskVars, counters, Goes, DiskKept, Kept
  <2>2. vs' = SyncedSet(vs, job.number % EpochLength = 0)
    BY <1>12, SyncIs
  <2>3. \E boundary \in BOOLEAN : vs' = SyncedSet(vs, boundary)
    <3>1. (job.number % EpochLength = 0) \in BOOLEAN
      OBVIOUS
    <3> QED
      BY <2>2, <3>1, Zenon
  <2> QED
    BY <2>1, <2>3 DEF Shape, SyncShape
<1>13. CASE Crash
  BY <1>13, IdleJob DEF Crash, Shape
<1>14. CASE AtBound \/ UNCHANGED vars
  <2>1. DiskKept /\ Kept(job) /\ Kept(vs) /\ Kept(crashes)
    BY <1>14 DEF AtBound, vars, diskVars, counters, DiskKept, Kept
  <2> QED
    BY <2>1 DEF Shape
<1> QED
  BY <1>1, <1>2, <1>3, <1>4, <1>7, <1>8, <1>9, <1>10, <1>11, <1>12, <1>13, <1>14, <1>15 DEF Next
-----------------------------------------------------------------------------
(* Jail.  The set that is swapped in was cloned after the slash of the     *)
(* commit, and nothing a block does to the clone frees a jailed validator. *)

OnlyJailed == "Tombstoned" \notin Outcomes
Copies == {"execute", "accounts", "delta", "hook"}
JailInv ==
    /\ Clean(vs) /\ (job.pc \in Copies => Clean(job.vs))
    /\ job.pc \in Copies => KeepsStatus(vs, job.vs)
JailKept == KeepsStatus(vs, vs') \/ crashes' # crashes

LEMMA KeepsStatusTrans ==
    ASSUME NEW s, NEW t, NEW u, KeepsStatus(s, t), KeepsStatus(t, u)
    PROVE  KeepsStatus(s, u)
  BY DEF KeepsStatus

LEMMA KeepsStatusClean ==
    ASSUME NEW s, NEW t, KeepsStatus(s, t), Clean(s) PROVE Clean(t)
  BY DEF KeepsStatus, Clean

LEMMA KeepsStatusSelf == ASSUME NEW s PROVE KeepsStatus(s, s)
  BY DEF KeepsStatus

LEMMA JailInit == Init => JailInv
<1> SUFFICES ASSUME Init PROVE JailInv
  OBVIOUS
<1>1. vs = EmptySet /\ job.pc \notin Copies
  BY IdleJob DEF Init, Copies
<1>2. Clean(EmptySet)
  BY DEF Clean, EmptySet, Absent
<1> QED
  BY <1>1, <1>2 DEF JailInv

LEMMA JailStep ==
    ASSUME OnlyJailed, BaseInv, JailInv, [Next]_vars
    PROVE  JailInv' /\ JailKept
<1>0. TypeInv /\ SetOK(vs)
  BY DEF BaseInv, TypeInv
<1>v. Clean(vs)
  BY DEF JailInv
<1>1. CASE Goes("idle", "execute") /\ Begin /\ Kept(crashes)
  <2>1. job'.vs = vs' /\ KeepsStatus(vs, vs')
    BY <1>0, <1>1, BeginFacts DEF OnlyJailed, KeepsStatus
  <2>2. Clean(vs') /\ Clean(job'.vs) /\ KeepsStatus(vs', job'.vs)
    BY <1>v, <2>1, KeepsStatusClean, KeepsStatusSelf
  <2> QED
    BY <2>1, <2>2 DEF JailInv, JailKept
<1>2. CASE CallShape /\ Kept(crashes)
  <2>1. PICK k : CallOK(job, k) /\ job'.vs = k.vs
    BY <1>2 DEF CallShape
  <2>2. KeepsStatus(job.vs, job'.vs) /\ job.pc \in Copies /\ vs' = vs
    BY <1>2, <2>1 DEF CallOK, CallShape, Goes, Kept, Copies
  <2>3. KeepsStatus(vs, job'.vs) /\ Clean(job'.vs)
    BY <2>2, KeepsStatusTrans, KeepsStatusClean DEF JailInv
  <2>4. KeepsStatus(vs', job'.vs) /\ Clean(vs') /\ KeepsStatus(vs, vs')
    BY <1>v, <2>2, <2>3, KeepsStatusSelf
  <2> QED
    BY <2>3, <2>4 DEF JailInv, JailKept
<1>3. CASE Goes("execute", "idle") /\ DiskKept /\ Kept(vs) /\ Kept(crashes)
  BY <1>v, <1>3, KeepsStatusSelf DEF JailInv, JailKept, Goes, Kept, Copies
<1>4. CASE WriteShape /\ Kept(crashes)
  <2>1. job'.vs = job.vs /\ job.pc \in Copies /\ Clean(job.vs) /\ KeepsStatus(vs, job.vs)
    BY <1>4 DEF WriteShape, CopyKept, Goes, Copies, JailInv
  <2>2. CASE vs' = vs
    BY <1>v, <2>1, <2>2, KeepsStatusSelf DEF JailInv, JailKept
  <2>3. CASE vs' = job.vs
    BY <2>1, <2>3, KeepsStatusSelf DEF JailInv, JailKept
  <2> QED
    BY <1>4, <2>2, <2>3 DEF WriteShape, Kept
<1>5. CASE RewardShape /\ Kept(crashes)
  <2>1. KeepsStatus(vs, vs') /\ job'.pc \notin Copies
    BY <1>0, <1>5, RewardsFacts DEF RewardShape, Goes, Copies, KeepsStatus
  <2>2. Clean(vs')
    BY <1>v, <2>1, KeepsStatusClean
  <2> QED
    BY <2>1, <2>2 DEF JailInv, JailKept
<1>6. CASE SyncShape /\ Kept(crashes)
  <2>1. PICK boundary \in BOOLEAN : vs' = SyncedSet(vs, boundary)
    BY <1>6 DEF SyncShape
  <2>2. KeepsStatus(vs, SyncedSet(vs, boundary))
    BY <1>0, SyncFacts DEF KeepsStatus
  <2>3. KeepsStatus(vs, vs') /\ job'.pc \notin Copies
    BY <1>6, <2>1, <2>2 DEF SyncShape, Goes, Copies
  <2>4. Clean(vs')
    BY <1>v, <2>3, KeepsStatusClean
  <2> QED
    BY <2>3, <2>4 DEF JailInv, JailKept
<1>7. CASE job'.pc = "idle" /\ crashes' = crashes + 1 /\ vs' = EmptySet
  <2>1. Clean(EmptySet)
    BY DEF Clean, EmptySet, Absent
  <2>2. crashes' # crashes
    BY <1>0, <1>7 DEF TypeInv
  <2> QED
    BY <1>7, <2>1, <2>2 DEF JailInv, JailKept, Copies
<1>8. CASE DiskKept /\ Kept(job) /\ Kept(vs) /\ Kept(crashes)
  BY <1>8, KeepsStatusSelf DEF JailInv, JailKept, Kept
<1> QED
  BY <1>1, <1>2, <1>3, <1>4, <1>5, <1>6, <1>7, <1>8, StepShape DEF Shape

(* Where slashes jail and do not tombstone: a jailed validator stays       *)
(* jailed as long as the process runs, through dropped blocks, the swap of *)
(* the clone and elections.                                                *)
THEOREM StakingJailHolds == ASSUME OnlyJailed PROVE Spec => JailHolds
<1>1. ASSUME BaseInv, JailInv, [Next]_vars PROVE JailInv'
  BY <1>1, JailStep
<1>2. Spec => [](BaseInv /\ JailInv)
  BY <1>1, BaseInit, BaseStep, JailInit, PTL DEF Spec
<1>3. ASSUME BaseInv, JailInv, [Next]_vars
      PROVE  [crashes' = crashes =>
                \A v \in Validator : vs.of[v].status = "Jailed" => vs'.of[v].status = "Jailed"]_vars
  <2>1. JailKept
    BY <1>3, JailStep
  <2> QED
    BY <2>1 DEF JailKept, KeepsStatus
<1> QED
  BY <1>2, <1>3, PTL DEF Spec, JailHolds
-----------------------------------------------------------------------------
(* The ledger and the aggregates of the validator set.  The two are        *)
(* written at different moments of a commit (the ledger with the delta,    *)
(* the set with the hook), so the invariant says of every phase which of   *)
(* the two pairs agrees.                                                   *)

LedgerInv ==
    crashes = 0 =>
        /\ job.pc # "hook" => Matches(vs, ledger)
        /\ job.pc \in Copies => Matches(job.vs, job.ledger)
        /\ job.pc = "hook" => ledger = job.ledger /\ unbonding = job.unbonding

LEMMA SameAggregates ==
    ASSUME NEW s, NEW t, NEW l, Matches(s, l),
           \A v \in Validator : t.of[v].delegated = s.of[v].delegated
    PROVE  Matches(t, l)
  BY DEF Matches

LEMMA LedgerInit == Init => LedgerInv
<1> SUFFICES ASSUME Init PROVE LedgerInv
  OBVIOUS
<1>1. /\ vs = EmptySet /\ job.pc = "idle" /\ ledger = [p \in Validator \X Delegator |-> 0]
  BY IdleJob DEF Init
<1>2. ASSUME NEW v \in Validator PROVE DelegatedIn(ledger, v) = 0
  <2> DEFINE f == [d \in Delegator |-> ledger[<<v, d>>]]
  <2>1. \A d \in Delegator : f[d] = 0
    BY <1>1
  <2>2. IsFiniteSet(Delegator)
    BY StakingConstants
  <2> HIDE DEF f
  <2>3. SumFunctionOnSet(f, Delegator) = 0 * Cardinality(Delegator) /\ Cardinality(Delegator) \in Nat
    BY <2>1, <2>2, SumConst, FS_CardinalityType
  <2> QED
    BY <2>3 DEF DelegatedIn, f
<1>3. Matches(vs, ledger)
  BY <1>1, <1>2 DEF Matches, EmptySet, Absent
<1> QED
  BY <1>1, <1>3 DEF LedgerInv, Copies

LEMMA LedgerStep ==
    ASSUME BaseInv, JailInv, LedgerInv, [Next]_vars PROVE LedgerInv'
<1> SUFFICES ASSUME crashes' = 0
             PROVE  /\ job'.pc # "hook" => Matches(vs', ledger')
                    /\ job'.pc \in Copies => Matches(job'.vs, job'.ledger)
                    /\ job'.pc = "hook" => ledger' = job'.ledger /\ unbonding' = job'.unbonding
  BY DEF LedgerInv
<1>0. TypeInv /\ SetOK(vs) /\ crashes \in Nat
  BY DEF BaseInv, TypeInv
<1>1. CASE Goes("idle", "execute") /\ Begin /\ Kept(crashes)
  <2>1. /\ job'.vs = vs' /\ job'.ledger = ledger /\ ledger' = ledger
        /\ \A v \in Validator : vs'.of[v].delegated = vs.of[v].delegated
    BY <1>0, <1>1, BeginFacts DEF diskVars
  <2>2. Matches(vs, ledger)
    BY <1>1 DEF LedgerInv, Goes, Kept
  <2>3. Matches(vs', ledger)
    BY <2>1, <2>2, SameAggregates
  <2> QED
    BY <1>1, <2>1, <2>3 DEF Goes
<1>2. CASE CallShape /\ Kept(crashes)
  <2>1. PICK k : CallOK(job, k) /\ job'.vs = k.vs /\ job'.ledger = k.ledger
    BY <1>2 DEF CallShape
  <2>2. Clean(job.vs) /\ Matches(job.vs, job.ledger) /\ Matches(vs, ledger)
    BY <1>2 DEF CallShape, Goes, Kept, Copies, LedgerInv, JailInv
  <2>3. Matches(job'.vs, job'.ledger)
    BY <2>1, <2>2 DEF CallOK
  <2> QED
    BY <1>2, <2>2, <2>3 DEF CallShape, DiskKept, Kept, Goes
<1>3. CASE Goes("execute", "idle") /\ DiskKept /\ Kept(vs) /\ Kept(crashes)
  BY <1>3 DEF LedgerInv, Goes, DiskKept, Kept, Copies
<1>4. CASE WriteShape /\ Kept(crashes)
  <2>1. /\ job'.vs = job.vs /\ job'.ledger = job.ledger /\ job'.unbonding = job.unbonding
        /\ job.pc \in Copies /\ Matches(job.vs, job.ledger)
    BY <1>4 DEF WriteShape, CopyKept, Goes, Kept, Copies, LedgerInv
  <2>2. CASE Goes("hook", "rewards") /\ DiskKept /\ vs' = job.vs
    BY <1>4, <2>1, <2>2 DEF LedgerInv, Goes, DiskKept, Kept, Copies
  <2>3. CASE Goes("delta", "hook") /\ ledger' = job.ledger /\ unbonding' = job.unbonding
    BY <2>1, <2>3 DEF Goes, Copies
  <2>4. CASE /\ Goes("execute", "accounts") \/ Goes("accounts", "accounts") \/ Goes("accounts", "delta")
             /\ ledger' = ledger /\ vs' = vs
    BY <1>4, <2>1, <2>4 DEF LedgerInv, Goes, Kept, Copies
  <2> QED
    BY <1>4, <2>2, <2>3, <2>4 DEF WriteShape, DiskKept, Kept
<1>5. CASE RewardShape /\ Kept(crashes)
  <2>1. \A v \in Validator : vs'.of[v].delegated = vs.of[v].delegated
    BY <1>0, <1>5, RewardsFacts DEF RewardShape
  <2>2. Matches(vs, ledger) /\ ledger' = ledger /\ job'.pc = "sync"
    BY <1>5 DEF RewardShape, Goes, Kept, LedgerInv
  <2>3. Matches(vs', ledger)
    BY <2>1, <2>2, SameAggregates
  <2> QED
    BY <2>2, <2>3 DEF Copies
<1>6. CASE SyncShape /\ Kept(crashes)
  <2>1. PICK boundary \in BOOLEAN : vs' = SyncedSet(vs, boundary)
    BY <1>6 DEF SyncShape
  <2>2. \A v \in Validator : SyncedSet(vs, boundary).of[v].delegated = vs.of[v].delegated
    BY <1>0, SyncFacts
  <2>3. Matches(vs, ledger) /\ ledger' = ledger /\ job'.pc = "idle"
    BY <1>6 DEF SyncShape, DiskKept, Goes, Kept, LedgerInv
  <2>4. Matches(vs', ledger)
    BY <2>1, <2>2, <2>3, SameAggregates
  <2> QED
    BY <2>3, <2>4 DEF Copies
<1>7. CASE job'.pc = "idle" /\ crashes' = crashes + 1 /\ vs' = EmptySet
  BY <1>0, <1>7
<1>8. CASE DiskKept /\ Kept(job) /\ Kept(vs) /\ Kept(crashes)
  BY <1>8 DEF LedgerInv, DiskKept, Kept
<1> QED
  BY <1>1, <1>2, <1>3, <1>4, <1>5, <1>6, <1>7, <1>8, StepShape DEF Shape

(* Where slashes jail and do not tombstone: in a process that never        *)
(* crashed, between two blocks, the aggregate of every validator is the    *)
(* sum of its ledger entries.  (A Tombstoned validator's ledger entry is   *)
(* written although its aggregate is not.)                                 *)
THEOREM StakingLedgerMatchesAggregate ==
    ASSUME OnlyJailed PROVE Spec => []LedgerMatchesAggregate
<1>1. ASSUME BaseInv, JailInv, LedgerInv, [Next]_vars PROVE JailInv' /\ LedgerInv'
  BY <1>1, JailStep, LedgerStep
<1>2. Spec => [](BaseInv /\ JailInv /\ LedgerInv)
  BY <1>1, BaseInit, BaseStep, JailInit, LedgerInit, PTL DEF Spec
<1>3. LedgerInv => LedgerMatchesAggregate
  BY IdleJob DEF LedgerInv, LedgerMatchesAggregate, AtRest, Matches
<1> QED
  BY <1>2, <1>3, PTL
-----------------------------------------------------------------------------
(* What the escrow owes.  A reported slash credits the reporter with coins *)
(* that no one pays in, so what the escrow may lack is one reward for each *)
(* slash; everything else a commit does leaves it no worse off.            *)

Debt(s, l, u) == Owed(s, l, u) - ReporterReward * slashes
EscrowInv ==
    /\ slashes \in Nat
    /\ crashes = 0 =>
        /\ job.pc \in {"idle", "execute", "rewards", "sync"} => Debt(vs, ledger, unbonding) <= escrow
        /\ job.pc \in Copies => Debt(job.vs, job.ledger, job.unbonding) <= job.escrow
        /\ job.pc \in {"delta", "hook"} => escrow = job.escrow

LEMMA NatTimes == ASSUME NEW a \in Nat, NEW b \in Nat PROVE a * b \in Nat
  OBVIOUS

LEMMA SumOne ==
    ASSUME NEW f, NEW S, IsFiniteSet(S), NEW c \in Nat, NEW y,
           \A x \in S : f[x] = IF x = y THEN c ELSE 0
    PROVE  SumFunctionOnSet(f, S) <= c /\ SumFunctionOnSet(f, S) \in Nat
<1> DEFINE g == [x \in S |-> 0]
<1>1. \A x \in S : g[x] = 0
  OBVIOUS
<1> HIDE DEF g
<1>2. SumFunctionOnSet(g, S) = 0 * Cardinality(S) /\ Cardinality(S) \in Nat
  BY <1>1, SumConst, FS_CardinalityType
<1>3. SumFunctionOnSet(g, S) = 0
  BY <1>2
<1>4. CASE y \in S
  <2>1. /\ \A x \in S : g[x] \in Int /\ f[x] \in Int
        /\ \A x \in S \ {y} : f[x] = g[x]
    BY <1>1
  <2>2. SumFunctionOnSet(f, S) = SumFunctionOnSet(g, S) + f[y] - g[y]
    BY <1>4, <2>1, SumUpdate
  <2> QED
    BY <1>1, <1>3, <1>4, <2>2
<1>5. CASE y \notin S
  <2>1. \A x \in S : g[x] \in Int /\ f[x] = g[x]
    BY <1>1, <1>5
  <2>2. SumFunctionOnSet(f, S) = SumFunctionOnSet(g, S)
    BY <2>1, SumSame
  <2> QED
    BY <1>3, <2>2
<1> QED
  BY <1>4, <1>5

(* A slash: the stake shrinks, the reporter is credited. *)
LEMMA SlashOwed ==
    ASSUME NEW s, SetOK(s), NEW t, SetOK(t), NEW l \in Ledgers, NEW u, UnbondingOK(u), NEW reporter,
           \A w \in Validator :
                /\ t.of[w].pool = s.of[w].pool /\ t.of[w].self <= s.of[w].self
                /\ t.of[w].pending <= s.of[w].pending + ReporterReward
                /\ w # reporter => t.of[w].pending = s.of[w].pending
    PROVE  Owed(t, l, u) <= Owed(s, l, u) + ReporterReward
<1> DEFINE f == OwedTo(s, l)
           g == [w \in Validator |-> IF w = reporter THEN ReporterReward ELSE 0]
           h == [w \in Validator |-> f[w] + g[w]]
           k == OwedTo(t, l)
<1>1. /\ f \in [Validator -> Nat] /\ k \in [Validator -> Nat] /\ IsFiniteSet(Validator)
      /\ ReporterReward \in Nat /\ SumFunctionOnSet(f, Validator) \in Nat
      /\ SumFunctionOnSet(k, Validator) \in Nat
  BY OwedType, StakingConstants
<1>2. \A w \in Validator : k[w] <= h[w]
  <2> TAKE w \in Validator
  <2>1. /\ {s.of[w].pending, s.of[w].pool, s.of[w].self} \subseteq Nat
        /\ {t.of[w].pending, t.of[w].pool, t.of[w].self} \subseteq Nat
    BY DEF SetOK, Sets, Entry
  <2>2. DelegatedIn(l, w) \in Nat
    BY DelegatedType
  <2> QED
    BY <1>1, <2>1, <2>2 DEF OwedTo
<1>3. \A w \in Validator : g[w] = (IF w = reporter THEN ReporterReward ELSE 0) /\ g[w] \in Nat
  BY <1>1
<1>4. \A w \in Validator : f[w] \in Int /\ g[w] \in Int /\ h[w] \in Int /\ k[w] \in Int
                            /\ h[w] = f[w] + g[w]
  BY <1>1, <1>3
<1>7. Owed(t, l, u) = SumFunctionOnSet(k, Validator) + SumFunctionOnSet(u, DOMAIN u)
  BY OwedIs
<1>8. Owed(s, l, u) = SumFunctionOnSet(f, Validator) + SumFunctionOnSet(u, DOMAIN u)
  BY OwedIs
<1>9. SumFunctionOnSet(u, DOMAIN u) \in Nat
  BY LeavingType
<1> HIDE DEF f, g, h, k
<1>5. SumFunctionOnSet(k, Validator) <= SumFunctionOnSet(h, Validator)
  BY <1>1, <1>2, <1>4, SumMonotone
<1>6. /\ SumFunctionOnSet(h, Validator) = SumFunctionOnSet(f, Validator) + SumFunctionOnSet(g, Validator)
      /\ SumFunctionOnSet(g, Validator) <= ReporterReward /\ SumFunctionOnSet(g, Validator) \in Nat
  <2>1. SumFunctionOnSet(h, Validator) = SumFunctionOnSet(f, Validator) + SumFunctionOnSet(g, Validator)
    BY <1>1, <1>4, SumPlus
  <2>2. SumFunctionOnSet(g, Validator) <= ReporterReward /\ SumFunctionOnSet(g, Validator) \in Nat
    <3>1. \A x \in Validator : g[x] = IF x = reporter THEN ReporterReward ELSE 0
      BY <1>3
    <3>2. IsFiniteSet(Validator) /\ ReporterReward \in Nat
      BY <1>1
    <3> QED
      BY <3>1, <3>2, SumOne
  <2> QED
    BY <2>1, <2>2
<1> QED
  BY <1>1, <1>5, <1>6, <1>7, <1>8, <1>9

(* The parts of the active validators do not exceed the committee's share. *)
LEMMA PartsWithinShare ==
    ASSUME NEW s, SetOK(s), ActiveStake(s) # 0
    PROVE  LET p == [v \in Validator |-> PartOf(s, v)] IN
           SumFunctionOnSet(p, Validator) \in Nat /\ SumFunctionOnSet(p, Validator) <= CommitteeShare
<1> DEFINE p == [v \in Validator |-> PartOf(s, v)]
           d == ActiveStake(s)
           f == Stakes(s)
           A == s.active
<1>1. /\ f \in [Validator -> Nat] /\ d \in Nat \ {0} /\ IsFiniteSet(A) /\ CommitteeShare \in Nat
      /\ IsFiniteSet(Validator) /\ A \in SUBSET Validator
  BY StakesType, MintParts, StakingConstants DEF SetOK, Sets
<1>2. \A v \in Validator : p[v] \in Nat
  BY PartType
<1>3. \A v \in A : d * p[v] <= CommitteeShare * f[v]
  <2> TAKE v \in A
  <2>1. v \in Validator /\ f[v] \in Nat /\ CommitteeShare * f[v] \in Nat
    BY <1>1
  <2>2. p[v] = (CommitteeShare * f[v]) \div d
    BY <2>1 DEF PartOf, Stakes
  <2> HIDE DEF p, f, d
  <2> QED
    BY <1>1, <2>1, <2>2, DivBounds
<1>4. \A v \in Validator \ A : p[v] = 0
  BY DEF PartOf
<1>5. d = SumFunctionOnSet(f, A)
  BY DEF ActiveStake
<1> HIDE DEF p, f, d, A
<1>6. d * SumFunctionOnSet(p, A) <= CommitteeShare * SumFunctionOnSet(f, A)
  BY <1>1, <1>2, <1>3, SumShares
<1>7. SumFunctionOnSet(p, A) \in Nat
  BY <1>1, <1>2, SumNat
<1>8. SumFunctionOnSet(p, A) <= CommitteeShare
  <2> DEFINE x == SumFunctionOnSet(p, A)
  <2>1. x \in Nat /\ d * x <= CommitteeShare * d
    BY <1>5, <1>6, <1>7
  <2> HIDE DEF x
  <2>2. x <= CommitteeShare
    <3> SUFFICES ASSUME x > CommitteeShare PROVE FALSE
      BY <1>1, <2>1
    <3>1. x >= CommitteeShare + 1
      BY <1>1, <2>1
    <3>2. d * x >= d * (CommitteeShare + 1)
      BY <1>1, <2>1, <3>1
    <3>3. d * (CommitteeShare + 1) = CommitteeShare * d + d
      BY <1>1
    <3>4. CommitteeShare * d \in Nat /\ d * x \in Nat
      BY <1>1, <2>1
    <3> QED
      BY <1>1, <2>1, <3>2, <3>3, <3>4
  <2> QED
    BY <2>2 DEF x
<1>9. SumFunctionOnSet(p, Validator) = SumFunctionOnSet(p, A) + SumFunctionOnSet(p, Validator \ A)
  BY <1>1, <1>2, SumParts
<1>10. SumFunctionOnSet(p, Validator \ A) = 0
  <2>1. IsFiniteSet(Validator \ A)
    BY <1>1, FS_Subset
  <2>2. SumFunctionOnSet(p, Validator \ A) = 0 * Cardinality(Validator \ A)
        /\ Cardinality(Validator \ A) \in Nat
    BY <1>4, <2>1, SumConst, FS_CardinalityType
  <2> QED
    BY <2>2
<1>11. SumFunctionOnSet(p, Validator) \in Nat /\ SumFunctionOnSet(p, Validator) <= CommitteeShare
  BY <1>1, <1>7, <1>8, <1>9, <1>10
<1> QED
  BY <1>11 DEF p

(* The mint of an interval covers the bonus and the parts. *)
LEMMA RewardOwed ==
    ASSUME NEW s, SetOK(s), NEW proposer \in Validator, NEW l \in Ledgers, NEW u, UnbondingOK(u)
    PROVE  Owed(DistributeBlockReward(s, proposer), l, u) <= Owed(s, l, u) + IntervalMint
<1> DEFINE t == DistributeBlockReward(s, proposer)
           f == OwedTo(s, l)
           k == OwedTo(t, l)
           p == [v \in Validator |-> PartOf(s, v)]
           b == [v \in Validator |-> BonusOf(s, v, proposer)]
           q == [v \in Validator |-> p[v] + b[v]]
<1>0. /\ SetOK(t)
      /\ \A v \in Validator :
                /\ t.of[v].self = s.of[v].self
                /\ ActiveStake(s) = 0 => t.of[v] = s.of[v]
                /\ ActiveStake(s) # 0 =>
                        t.of[v].pending + t.of[v].pool
                            = s.of[v].pending + s.of[v].pool + PartOf(s, v) + BonusOf(s, v, proposer)
  BY DistributeFacts
<1> HIDE DEF t
<1>1. /\ f \in [Validator -> Nat] /\ k \in [Validator -> Nat] /\ IsFiniteSet(Validator)
      /\ SumFunctionOnSet(f, Validator) \in Nat /\ SumFunctionOnSet(k, Validator) \in Nat
  BY <1>0, OwedType, StakingConstants
<1>2. SumFunctionOnSet(u, DOMAIN u) \in Nat
  BY LeavingType
<1>3. /\ Owed(t, l, u) = SumFunctionOnSet(k, Validator) + SumFunctionOnSet(u, DOMAIN u)
      /\ Owed(s, l, u) = SumFunctionOnSet(f, Validator) + SumFunctionOnSet(u, DOMAIN u)
  BY OwedIs
<1>4. ProposerBonus \in Nat /\ CommitteeShare \in Nat /\ ProposerBonus + CommitteeShare = IntervalMint
  BY MintParts
<1>5. CASE ActiveStake(s) = 0
  <2>1. \A v \in Validator : f[v] \in Int /\ k[v] = f[v]
    BY <1>0, <1>1, <1>5 DEF OwedTo
  <2> HIDE DEF f, k
  <2>2. SumFunctionOnSet(k, Validator) = SumFunctionOnSet(f, Validator)
    BY <1>1, <2>1, SumSame
  <2> QED
    BY <1>1, <1>2, <1>3, <1>4, <2>2 DEF t
<1>6. CASE ActiveStake(s) # 0
  <2>1. \A v \in Validator : p[v] \in Nat /\ b[v] \in Nat
    BY <1>4, <1>6, PartType DEF BonusOf
  <2>2. \A v \in Validator : k[v] = f[v] + q[v]
    <3> TAKE v \in Validator
    <3>1. /\ {s.of[v].pending, s.of[v].pool, s.of[v].self} \subseteq Nat
          /\ {t.of[v].pending, t.of[v].pool, t.of[v].self} \subseteq Nat
      BY <1>0 DEF SetOK, Sets, Entry
    <3>2. DelegatedIn(l, v) \in Nat
      BY DelegatedType
    <3>3. t.of[v].pending + t.of[v].pool = s.of[v].pending + s.of[v].pool + q[v] /\ q[v] \in Nat
      <4>1. q[v] = PartOf(s, v) + BonusOf(s, v, proposer) /\ PartOf(s, v) \in Nat
                /\ BonusOf(s, v, proposer) \in Nat
        BY <2>1
      <4> HIDE DEF q
      <4> QED
        BY <1>0, <1>6, <3>1, <4>1
    <3> HIDE DEF q
    <3> DEFINE own == IF v \in Candidate THEN s.of[v].self ELSE 0
    <3>4. /\ f[v] = DelegatedIn(l, v) + s.of[v].pending + s.of[v].pool + own
          /\ k[v] = DelegatedIn(l, v) + t.of[v].pending + t.of[v].pool + own
      BY <1>0 DEF OwedTo
    <3>5. own \in Nat
      BY <3>1
    <3> HIDE DEF own, f, k
    <3> QED
      BY <3>1, <3>2, <3>3, <3>4, <3>5
  <2>3. \A v \in Validator : q[v] = p[v] + b[v] /\ q[v] \in Nat
    BY <2>1
  <2>4. SumFunctionOnSet(p, Validator) \in Nat /\ SumFunctionOnSet(p, Validator) <= CommitteeShare
    BY <1>6, PartsWithinShare
  <2>5. \E y \in Validator, c \in {0, ProposerBonus} : \A v \in Validator : b[v] = IF v = y THEN c ELSE 0
    BY DEF BonusOf
  <2> HIDE DEF p, b, q, f, k
  <2>6. SumFunctionOnSet(b, Validator) <= ProposerBonus /\ SumFunctionOnSet(b, Validator) \in Nat
    <3>1. PICK y \in Validator, c \in {0, ProposerBonus} : \A v \in Validator : b[v] = IF v = y THEN c ELSE 0
      BY <2>5
    <3>2. c \in Nat /\ c <= ProposerBonus
      BY <1>4
    <3>3. SumFunctionOnSet(b, Validator) <= c /\ SumFunctionOnSet(b, Validator) \in Nat
      BY <1>1, <3>1, <3>2, SumOne
    <3> QED
      BY <1>4, <3>2, <3>3
  <2>7. SumFunctionOnSet(q, Validator) = SumFunctionOnSet(p, Validator) + SumFunctionOnSet(b, Validator)
    BY <1>1, <2>1, <2>3, SumPlus
  <2>8. SumFunctionOnSet(k, Validator) = SumFunctionOnSet(f, Validator) + SumFunctionOnSet(q, Validator)
    BY <1>1, <2>2, <2>3, SumPlus
  <2> QED
    BY <1>1, <1>2, <1>3, <1>4, <2>4, <2>6, <2>7, <2>8 DEF t
<1> QED
  BY <1>5, <1>6

LEMMA OwedSame ==
    ASSUME NEW s, NEW t, NEW l, NEW u,
           \A v \in Validator : /\ t.of[v].pending = s.of[v].pending /\ t.of[v].pool = s.of[v].pool
                                /\ v \in Candidate => t.of[v].self = s.of[v].self
    PROVE  Owed(t, l, u) = Owed(s, l, u)
<1>1. OwedTo(t, l) = OwedTo(s, l)
  BY DEF OwedTo
<1> QED
  BY <1>1, OwedIs, Zenon

LEMMA OwedNat ==
    ASSUME NEW s, SetOK(s), NEW l \in Ledgers, NEW u, UnbondingOK(u) PROVE Owed(s, l, u) \in Nat
<1>1. SumFunctionOnSet(OwedTo(s, l), Validator) \in Nat /\ SumFunctionOnSet(u, DOMAIN u) \in Nat
  BY OwedType, LeavingType
<1> QED
  BY <1>1, OwedIs

(* What a commit begins with is owed by the disk, but for a reward. *)
LEMMA BeginOwed ==
    ASSUME TypeInv, Begin, slashes \in Nat
    PROVE  /\ slashes' \in Nat
           /\ Owed(vs', ledger, unbonding) - ReporterReward * slashes'
                <= Owed(vs, ledger, unbonding) - ReporterReward * slashes
<1> DEFINE old == Owed(vs, ledger, unbonding)
           new == Owed(vs', ledger, unbonding)
<1>1. SetOK(vs) /\ SetOK(vs') /\ ledger \in Ledgers /\ UnbondingOK(unbonding) /\ ReporterReward \in Nat
  BY BeginFacts, StakingConstants DEF TypeInv
<1>2. old \in Nat /\ new \in Nat
  BY <1>1, OwedNat
<1>3. CASE vs' = vs /\ slashes' = slashes
  BY <1>1, <1>2, <1>3
<1>4. ASSUME NEW v \in Validator, NEW reporter \in Validator, NEW outcome \in Outcomes,
             Known(vs, v), v # reporter, vs' = Slash(vs, v, outcome, reporter), slashes' = slashes + 1
      PROVE  /\ slashes' \in Nat
             /\ new - ReporterReward * slashes' <= old - ReporterReward * slashes
  <2>1. \A w \in Validator :
            /\ vs'.of[w].pool = vs.of[w].pool /\ vs'.of[w].self <= vs.of[w].self
            /\ vs'.of[w].pending <= vs.of[w].pending + ReporterReward
            /\ w # reporter => vs'.of[w].pending = vs.of[w].pending
    BY <1>1, <1>4, SlashFacts
  <2>2. new <= old + ReporterReward
    BY <1>1, <2>1, SlashOwed
  <2> DEFINE before == ReporterReward * slashes
             afterwards == ReporterReward * slashes'
  <2>3. afterwards = before + ReporterReward /\ before \in Nat /\ slashes' \in Nat
    BY <1>1, <1>4
  <2> HIDE DEF old, new, before, afterwards
  <2>4. new - afterwards <= old - before
    BY <1>1, <1>2, <2>2, <2>3
  <2> QED
    BY <2>3, <2>4 DEF before, afterwards
<1>5. \/ vs' = vs /\ slashes' = slashes
      \/ \E v \in Validator, reporter \in Validator, outcome \in Outcomes :
            Known(vs, v) /\ v # reporter /\ vs' = Slash(vs, v, outcome, reporter) /\ slashes' = slashes + 1
  BY DEF Begin
<1> QED
  BY <1>3, <1>4, <1>5

LEMMA EscrowInit == Init => EscrowInv
<1> SUFFICES ASSUME Init PROVE EscrowInv
  OBVIOUS
<1>1. /\ vs = EmptySet /\ job.pc = "idle" /\ slashes = 0 /\ escrow = 0 /\ crashes = 0
      /\ ledger = [p \in Validator \X Delegator |-> 0] /\ unbonding = [k \in {} |-> 0]
      /\ IsFiniteSet(Validator) /\ ReporterReward \in Nat
  BY IdleJob, StakingConstants DEF Init
<1>2. Matches(vs, ledger)
  BY <1>1, LedgerInit DEF LedgerInv
<1>3. \A v \in Validator : DelegatedIn(ledger, v) = 0
  BY <1>1, <1>2 DEF Matches, EmptySet, Absent
<1> DEFINE f == OwedTo(vs, ledger)
<1>4. \A v \in Validator : f[v] = 0
  BY <1>1, <1>3 DEF OwedTo, EmptySet, Absent
<1>5. Owed(vs, ledger, unbonding) = SumFunctionOnSet(f, Validator)
                                      + SumFunctionOnSet(unbonding, DOMAIN unbonding)
  BY OwedIs
<1> HIDE DEF f
<1>6. SumFunctionOnSet(f, Validator) = 0 * Cardinality(Validator) /\ Cardinality(Validator) \in Nat
  BY <1>1, <1>4, SumConst, FS_CardinalityType
<1>7. SumFunctionOnSet(unbonding, DOMAIN unbonding) = 0
  <2>1. DOMAIN unbonding = {}
    BY <1>1
  <2> QED
    BY <2>1, SumEmpty, Zenon
<1>8. Owed(vs, ledger, unbonding) = 0
  BY <1>5, <1>6, <1>7
<1>9. Debt(vs, ledger, unbonding) = 0
  BY <1>1, <1>8 DEF Debt
<1> QED
  BY <1>1, <1>9 DEF EscrowInv, Copies

LEMMA EscrowStep ==
    ASSUME BaseInv, JailInv, LedgerInv, EscrowInv, [Next]_vars PROVE EscrowInv'
<1>0. /\ TypeInv /\ SetOK(vs) /\ crashes \in Nat /\ slashes \in Nat /\ ReporterReward \in Nat
      /\ ledger \in Ledgers /\ UnbondingOK(unbonding) /\ escrow \in Nat
  BY StakingConstants DEF BaseInv, TypeInv, EscrowInv
<1>s. Begin \/ slashes' = slashes
  BY DEF Next, ExecStaking, ExecPropose, ExecVote, Drop, CreditReward, PutWallet, PutEscrow,
         PutBlock, ApplyStakingDelta, GovernanceHook, ApplyIntervalRewards, SyncValidatorSet, Crash, AtBound, vars, counters
<1>n. slashes' \in Nat
  BY <1>0, <1>s, BeginOwed
<1>r. ReporterReward * slashes \in Nat
  BY <1>0
<1> SUFFICES ASSUME crashes' = 0
             PROVE  /\ job'.pc \in {"idle", "execute", "rewards", "sync"} =>
                            Debt(vs, ledger, unbonding)' <= escrow'
                    /\ job'.pc \in Copies => Debt(job.vs, job.ledger, job.unbonding)' <= job'.escrow
                    /\ job'.pc \in {"delta", "hook"} => escrow' = job'.escrow
  BY <1>n DEF EscrowInv
<1>1. CASE Goes("idle", "execute") /\ Begin /\ Kept(crashes)
  <2>1. /\ job'.vs = vs' /\ job'.ledger = ledger /\ ledger' = ledger /\ job'.escrow = escrow
        /\ job'.unbonding = unbonding /\ unbonding' = unbonding /\ escrow' = escrow
    BY <1>0, <1>1, BeginFacts DEF diskVars
  <2>2. Debt(vs, ledger, unbonding) <= escrow
    BY <1>1 DEF EscrowInv, Goes, Kept
  <2>3. Owed(vs', ledger, unbonding) - ReporterReward * slashes'
                <= Owed(vs, ledger, unbonding) - ReporterReward * slashes
    BY <1>0, <1>1, BeginOwed
  <2>4. Owed(vs', ledger, unbonding) \in Nat /\ Owed(vs, ledger, unbonding) \in Nat
    BY <1>0, <1>1, BeginFacts, OwedNat
  <2>5. ReporterReward * slashes' \in Nat
    BY <1>0, <1>n, NatTimes
  <2>6. Owed(vs', ledger, unbonding) - ReporterReward * slashes' <= escrow
    <3> DEFINE old == Owed(vs, ledger, unbonding)
               new == Owed(vs', ledger, unbonding)
               before == ReporterReward * slashes
               afterwards == ReporterReward * slashes'
    <3>1. /\ old \in Nat /\ new \in Nat /\ before \in Nat /\ afterwards \in Nat
          /\ new - afterwards <= old - before /\ old - before <= escrow
      BY <1>r, <2>2, <2>3, <2>4, <2>5 DEF Debt
    <3> HIDE DEF old, new, before, afterwards
    <3>2. new - afterwards <= escrow
      BY <1>0, <3>1
    <3> QED
      BY <3>2 DEF new, afterwards
  <2> QED
    BY <1>1, <2>1, <2>6 DEF Debt, Goes, Copies
<1>x. ASSUME slashes' = slashes
      PROVE  /\ \A s, l, u : Owed(s, l, u) - ReporterReward * slashes' = Debt(s, l, u)
             /\ Debt(vs, ledger, unbonding)' = Debt(vs', ledger', unbonding')
             /\ Debt(job.vs, job.ledger, job.unbonding)' = Debt(job'.vs, job'.ledger, job'.unbonding)
  BY <1>x DEF Debt
<1>2. CASE CallShape /\ Kept(crashes)
  <2>1. PICK k : /\ CallOK(job, k) /\ job'.vs = k.vs /\ job'.ledger = k.ledger
                 /\ job'.unbonding = k.unbonding /\ job'.escrow = k.escrow
    BY <1>2 DEF CallShape
  <2>2. /\ Clean(job.vs) /\ Debt(job.vs, job.ledger, job.unbonding) <= job.escrow
        /\ Debt(vs, ledger, unbonding) <= escrow /\ JobOK(job)
    BY <1>2 DEF CallShape, Goes, Kept, Copies, EscrowInv, JailInv
  <2>3. JobOK(k) /\ KeepsBacking(job, k)
    BY <2>1, <2>2 DEF CallOK
  <2>4. /\ Owed(k.vs, k.ledger, k.unbonding) \in Nat /\ k.escrow \in Nat
        /\ Owed(job.vs, job.ledger, job.unbonding) \in Nat /\ job.escrow \in Nat
    BY <2>2, <2>3, OwedInt
  <2>5. Debt(k.vs, k.ledger, k.unbonding) <= k.escrow
    BY <1>r, <2>2, <2>3, <2>4 DEF Debt, KeepsBacking
  <2>6. slashes' = slashes
    BY <1>0, <1>2, <1>s, IdleJob DEF CallShape, Goes, Begin
  <2> QED
    BY <1>2, <1>x, <2>1, <2>2, <2>5, <2>6 DEF CallShape, DiskKept, Kept, Goes, Copies
<1>3. CASE Goes("execute", "idle") /\ DiskKept /\ Kept(vs) /\ Kept(crashes)
  <2>1. slashes' = slashes
    BY <1>3, <1>s, IdleJob DEF Goes, Begin
  <2> QED
    BY <1>3, <1>x, <2>1 DEF EscrowInv, Goes, DiskKept, Kept, Copies
<1>4. CASE WriteShape /\ Kept(crashes)
  <2>0. slashes' = slashes
    BY <1>4, <1>s, IdleJob DEF WriteShape, Goes, Begin
  <2>1. /\ job'.vs = job.vs /\ job'.ledger = job.ledger /\ job'.unbonding = job.unbonding
        /\ job'.escrow = job.escrow /\ job.pc \in Copies
        /\ Debt(job.vs, job.ledger, job.unbonding) <= job.escrow
    BY <1>4 DEF WriteShape, CopyKept, Goes, Kept, Copies, EscrowInv
  <2>2. CASE Goes("hook", "rewards") /\ DiskKept /\ vs' = job.vs
    <3>1. ledger = job.ledger /\ unbonding = job.unbonding /\ escrow = job.escrow
      BY <1>4, <2>2 DEF LedgerInv, EscrowInv, Goes, Kept, Copies
    <3>2. Debt(vs', ledger', unbonding') <= escrow'
      BY <2>1, <2>2, <3>1 DEF DiskKept, Kept
    <3> QED
      BY <1>x, <2>0, <2>2, <3>2 DEF Goes, Copies
  <2>3. CASE Goes("execute", "accounts") \/ Goes("accounts", "accounts")
    BY <1>x, <2>0, <2>1, <2>3 DEF Goes, Copies
  <2>4. CASE /\ (Goes("accounts", "delta") /\ escrow = job.escrow) \/ Goes("delta", "hook")
             /\ escrow' = escrow
    BY <1>4, <1>x, <2>0, <2>1, <2>4 DEF EscrowInv, Goes, Kept, Copies
  <2> QED
    BY <1>4, <2>2, <2>3, <2>4 DEF WriteShape, DiskKept, Kept
<1>5. CASE RewardShape /\ Kept(crashes)
  <2>0. slashes' = slashes
    BY <1>5, <1>s, IdleJob DEF RewardShape, Goes, Begin
  <2>1. /\ Debt(vs, ledger, unbonding) <= escrow /\ ledger' = ledger /\ unbonding' = unbonding
        /\ job'.pc = "sync" /\ ApplyIntervalRewards
    BY <1>5 DEF RewardShape, Goes, Kept, EscrowInv
  <2>2. /\ JobOK(job)
        /\ \/ escrow' = escrow + IntervalMint /\ vs' = DistributeBlockReward(vs, job.proposer)
           \/ escrow' = escrow /\ vs' = vs
    BY <1>0, <2>1, RewardsFacts
  <2>3. job.proposer \in Validator
    BY <2>2 DEF JobOK, Jobs, Validator
  <2>4. SetOK(DistributeBlockReward(vs, job.proposer))
    BY <1>0, <2>3, DistributeFacts
  <2>5. /\ Owed(DistributeBlockReward(vs, job.proposer), ledger, unbonding)
                <= Owed(vs, ledger, unbonding) + IntervalMint
        /\ Owed(DistributeBlockReward(vs, job.proposer), ledger, unbonding) \in Nat
        /\ Owed(vs, ledger, unbonding) \in Nat /\ IntervalMint \in Nat
    BY <1>0, <2>3, <2>4, RewardOwed, OwedNat, MintParts
  <2>6. Debt(DistributeBlockReward(vs, job.proposer), ledger, unbonding) <= escrow + IntervalMint
    BY <1>0, <1>r, <2>1, <2>5 DEF Debt
  <2>7. Debt(vs', ledger', unbonding') <= escrow'
    BY <2>1, <2>2, <2>6
  <2> QED
    BY <1>x, <2>0, <2>1, <2>7 DEF Copies
<1>6. CASE SyncShape /\ Kept(crashes)
  <2>0. slashes' = slashes
    BY <1>6, <1>s, IdleJob DEF SyncShape, Goes, Begin
  <2>1. PICK boundary \in BOOLEAN : vs' = SyncedSet(vs, boundary)
    BY <1>6 DEF SyncShape
  <2>2. Owed(SyncedSet(vs, boundary), ledger, unbonding) = Owed(vs, ledger, unbonding)
    <3>1. \A v \in Validator :
            /\ SyncedSet(vs, boundary).of[v].pending = vs.of[v].pending
            /\ SyncedSet(vs, boundary).of[v].pool = vs.of[v].pool
            /\ v \in Candidate => SyncedSet(vs, boundary).of[v].self = vs.of[v].self
      BY <1>0, SyncFacts
    <3> QED
      BY <3>1, OwedSame
  <2>3. /\ Debt(vs, ledger, unbonding) <= escrow /\ ledger' = ledger /\ unbonding' = unbonding
        /\ escrow' = escrow /\ job'.pc = "idle"
    BY <1>6 DEF SyncShape, DiskKept, Goes, Kept, EscrowInv
  <2>4. Debt(vs', ledger', unbonding') <= escrow'
    BY <2>1, <2>2, <2>3 DEF Debt
  <2> QED
    BY <1>x, <2>0, <2>3, <2>4 DEF Copies
<1>7. CASE job'.pc = "idle" /\ crashes' = crashes + 1 /\ vs' = EmptySet
  BY <1>0, <1>7
<1>8. CASE DiskKept /\ Kept(job) /\ Kept(vs) /\ Kept(crashes)
  <2>1. slashes' = slashes
    BY <1>0, <1>8, <1>s, BeginFacts, IdleJob DEF Kept
  <2> QED
    BY <1>8, <1>x, <2>1 DEF EscrowInv, DiskKept, Kept
<1> QED
  BY <1>1, <1>2, <1>3, <1>4, <1>5, <1>6, <1>7, <1>8, StepShape DEF Shape

LEMMA EscrowInvariant ==
    ASSUME OnlyJailed PROVE Spec => [](BaseInv /\ JailInv /\ LedgerInv /\ EscrowInv)
<1>1. ASSUME BaseInv, JailInv, LedgerInv, EscrowInv, [Next]_vars
      PROVE  JailInv' /\ LedgerInv' /\ EscrowInv'
  BY <1>1, JailStep, LedgerStep, EscrowStep
<1> QED
  BY <1>1, BaseInit, BaseStep, JailInit, LedgerInit, EscrowInit, PTL DEF Spec

(* What the escrow may lack between two blocks of a process that never     *)
(* crashed, where slashes jail and do not tombstone: one reporter's reward *)
(* for each slash and nothing more, whatever is delegated, claimed,        *)
(* withdrawn or dropped in between.                                        *)
THEOREM StakingEscrowShortfall ==
    ASSUME OnlyJailed
    PROVE  Spec => [](AtRest => Owed(vs, ledger, unbonding) <= escrow + ReporterReward * slashes)
<1>1. ASSUME BaseInv, EscrowInv
      PROVE  AtRest => Owed(vs, ledger, unbonding) <= escrow + ReporterReward * slashes
  <2> SUFFICES ASSUME AtRest
               PROVE  Owed(vs, ledger, unbonding) <= escrow + ReporterReward * slashes
    OBVIOUS
  <2>1. /\ SetOK(vs) /\ ledger \in Ledgers /\ UnbondingOK(unbonding) /\ escrow \in Nat
        /\ ReporterReward \in Nat /\ slashes \in Nat
    BY <1>1, StakingConstants DEF BaseInv, TypeInv, EscrowInv
  <2>2. Owed(vs, ledger, unbonding) \in Nat /\ ReporterReward * slashes \in Nat
    BY <2>1, OwedNat
  <2>3. Owed(vs, ledger, unbonding) - ReporterReward * slashes <= escrow
    BY <1>1, IdleJob DEF EscrowInv, AtRest, Debt
  <2> QED
    BY <2>1, <2>2, <2>3
<1> QED
  BY <1>1, EscrowInvariant, PTL

(* With no unfunded credit to reporters the escrow covers every claim on   *)
(* it: delegations, unbondings, the stake of registered validators and     *)
(* every unclaimed reward.                                                 *)
THEOREM StakingEscrowSolvent ==
    ASSUME OnlyJailed, ReporterReward = 0 PROVE Spec => []EscrowSolvent
<1>1. ASSUME EscrowInv, AtRest => Owed(vs, ledger, unbonding) <= escrow + ReporterReward * slashes, BaseInv
      PROVE  EscrowSolvent
  <2>1. slashes \in Nat /\ escrow \in Nat
    BY <1>1 DEF EscrowInv, BaseInv, TypeInv
  <2>2. escrow + ReporterReward * slashes = escrow
    BY <2>1
  <2> QED
    BY <1>1, <2>2 DEF EscrowSolvent
<1> QED
  BY <1>1, StakingEscrowShortfall, EscrowInvariant, PTL
=============================================================================
