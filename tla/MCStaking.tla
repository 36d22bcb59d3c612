----------------------------- MODULE MCStaking -----------------------------
EXTENDS Staking, TLC

CONSTANTS v1, v2, d1, d2, evm

MCRank == (v1 :> 1) @@ (v2 :> 2)

StakingCalls ==
    {[kind |-> "register", from |-> v2, amount |-> MinSelfStake]}
    \cup {[kind |-> "claim", from |-> v1, to |-> v1]}
    \cup {[kind |-> k, from |-> d, to |-> v1, amount |-> 2] : k \in {"delegate", "undelegate"}, d \in Delegator}
    \cup {[kind |-> k, from |-> d, to |-> v1] : k \in {"withdraw", "claimDelegator"}, d \in Delegator}
    \cup {[kind |-> "delegate", from |-> d, to |-> v2, amount |-> 1] : d \in Delegator}

GovernanceCalls ==
    {[kind |-> "propose", from |-> v1, module |-> evm, version |-> n, activation |-> 5] : n \in {1, 2}}
    \cup {[kind |-> "vote", from |-> v1, id |-> i, approve |-> b] : i \in {1, 2}, b \in BOOLEAN}

MCMenus == {StakingCalls, GovernanceCalls}
StakingOnly == {StakingCalls}
GovernanceOnly == {GovernanceCalls}

DelegatorSymmetry == Permutations(Delegator)
=============================================================================
