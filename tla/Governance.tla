----------------------------- MODULE Governance -----------------------------
(***************************************************************************)
(* Upgrade proposals: crates/zbx-types (governance.rs, module_version.rs,  *)
(* version_registry.rs), crates/zbx-staking/governance.rs and the hook at  *)
(* the end of a commit (node/src/block_producer.rs), as operators on       *)
(*   preg   the ProposalRegistry: id -> proposal                           *)
(*   vreg   the VersionRegistry: module -> version (0: none)               *)
(* Module names are model values; the syntax of names is not modelled.     *)
(***************************************************************************)
EXTENDS Integers, FiniteSets, FiniteSetsExt

NewProposal(module, version, activation) ==
    [module |-> module, version |-> version, activation |-> activation,
     votes |-> [v \in {} |-> TRUE], status |-> "Pending"]

InsertProposal(preg, id, p) ==
    [i \in DOMAIN preg \cup {id} |-> IF i = id THEN p ELSE preg[i]]

(* A vote of the same validator replaces its earlier one. *)
CastVote(p, voter, approve) ==
    [p EXCEPT !.votes = [v \in DOMAIN @ \cup {voter} |-> IF v = voter THEN approve ELSE @[v]]]

(* More than half of the active set says yes; votes of others are ignored. *)
HasMajority(p, active) ==
    2 * Cardinality({v \in DOMAIN p.votes \cap active : p.votes[v]}) > Cardinality(active)

(* A Pending proposal is decided at once, whatever its votes. *)
TryFinalize(p, active, height) ==
    IF p.status # "Pending" THEN p
    ELSE [p EXCEPT !.status = IF HasMajority(p, active) /\ p.activation > height
                              THEN "Scheduled" ELSE "Rejected"]

(* The end-of-block sweep. *)
FinalizeAllPending(preg, active, height) ==
    [id \in DOMAIN preg |-> TryFinalize(preg[id], active, height)]

(* A slip: only the proposals of exactly this height. *)
ReadyToday(preg, height) ==
    {id \in DOMAIN preg : preg[id].status = "Scheduled" /\ preg[id].activation = height}

ReadyToExecute(preg, height) ==
    {id \in DOMAIN preg : preg[id].status = "Scheduled" /\ preg[id].activation <= height}

(* A slip: a lower version is taken. *)
ExecuteDown(r, id) ==
    [r EXCEPT !.vreg[r.preg[id].module] = r.preg[id].version, !.preg[id].status = "Executed"]

(* A downgrade fails the proposal and leaves the version. *)
ExecuteProposal(r, id) ==
    LET p == r.preg[id] IN
    IF p.version < r.vreg[p.module]
    THEN [r EXCEPT !.preg[id].status = "Failed"]
    ELSE [r EXCEPT !.vreg[p.module] = p.version, !.preg[id].status = "Executed"]

(* In the order of the ids (a BTreeMap): the registries after the first n. *)
ApplyReadyGovernance(preg, vreg, height) ==
    LET ready == ReadyToExecute(preg, height)
        last == Max({0} \cup ready)
        after[n \in 0..last] ==
            IF n = 0 THEN [preg |-> preg, vreg |-> vreg]
            ELSE IF n \in ready THEN ExecuteProposal(after[n - 1], n) ELSE after[n - 1]
    IN  after[last]
=============================================================================
