------------------------------- MODULE Bridge -------------------------------
(***************************************************************************)
(* The bridge relayer (crates/zbx-bridge: relayer.rs, multisig.rs,         *)
(* token.rs, persistence.rs) as node.rs starts it, with its store of spent *)
(* operations attached.  The object is behind a mutex, so a call is one    *)
(* step; a crash may come between the write of the store and the rest of   *)
(* execute.                                                                *)
(*                                                                         *)
(* A request is a record [name, token, gross, source, timestamp]; its id   *)
(* and msg_hash are hashes of it, so the record stands for both.           *)
(* Signatures and Merkle proofs are ideal: confirm with a bad signature    *)
(* changes nothing, and whether a proof verifies depends on the receipts   *)
(* root the caller passes to execute.                                      *)
(***************************************************************************)
EXTENDS Integers, FiniteSets, FiniteSetsExt, Functions

CONSTANTS
    Request,            \* the requests users make
    Keys,               \* addresses of the multisig participants
    Threshold,          \* MULTISIG_THRESHOLD
    OwnChain,           \* own_chain_id
    Token, Native,      \* tokens, and the one of NATIVE_ZBX_SENTINEL
    DefaultMainnet,     \* [Token -> config], TokenWhitelist::default_mainnet
    Configs,            \* what register_token may set: [max_per_tx, daily_limit, enabled]
    MinBridgeAmount,    \* MIN_BRIDGE_AMOUNT
    RequestExpiry,      \* REQUEST_EXPIRY_SECS
    DaySecs,            \* 86_400
    MaxTime,            \* bound on the clock
    MaxCrashes          \* bound on crashes

Config == [max_per_tx : Nat, daily_limit : Nat, enabled : BOOLEAN]

ASSUME BridgeConstants ==
    /\ {Threshold, DaySecs} \subseteq Nat \ {0}
    /\ {MinBridgeAmount, RequestExpiry, MaxTime, MaxCrashes} \subseteq Nat
    /\ IsFiniteSet(Keys) /\ IsFiniteSet(Request) /\ IsFiniteSet(Token) /\ IsFiniteSet(Configs)
    /\ DefaultMainnet \in [Token -> Config] /\ Configs \subseteq Config
    /\ \A r \in Request : r.token \in Token /\ r.gross \in Nat /\ r.timestamp \in Nat

VARIABLES
    pending,        \* request -> [confirmations, proof], the map of the same name
    completed,      \* requests executed by this process
    spent,          \* MultisigAuth::spent_operations
    store,          \* Column::BridgeSpentOps on disk
    paused,
    whitelist,      \* [Token -> Config]
    daily_totals,   \* [Token -> [day, total]], DailyLimitTracker
    now,            \* the clock the callers read
    crashes,
    actions,        \* history: [Request -> Nat], BridgeActions handed out
    outflow         \* history: [Token -> [day -> amount]] of the actions

vars == <<pending, completed, spent, store, paused, whitelist, daily_totals, now,
          crashes, actions, outflow>>

history == <<actions, outflow>>
admin == <<paused, whitelist>>

Days == 0 .. (MaxTime \div DaySecs)
DayOf(time) == time \div DaySecs

(* BridgeRequest::new: the fee is 10 basis points, rounded down. *)
Fee(r) == (r.gross * 10) \div 10000

Amount(r) == r.gross - Fee(r)
ValidAmount(r) == r.gross > 0 /\ (r.token = Native => r.gross >= MinBridgeAmount)

NoTotal == [t \in Token |-> [day |-> 0, total |-> 0]]

Init ==
    /\ pending = [r \in {} |-> r]
    /\ completed = {} /\ spent = {} /\ store = {}
    /\ paused = FALSE
    /\ whitelist = DefaultMainnet
    /\ daily_totals = NoTotal
    /\ now = 0 /\ crashes = 0
    /\ actions = [r \in Request |-> 0]
    /\ outflow = [t \in Token |-> [d \in Days |-> 0]]
-----------------------------------------------------------------------------
(* DailyLimitTracker *)

BridgedToday(t) == IF daily_totals[t].day = DayOf(now) THEN daily_totals[t].total ELSE 0

(* A slip: the limit of a day is checked for each request alone. *)
WithinLimitEach(t, amount) == amount <= whitelist[t].daily_limit

WithinLimit(t, amount) == BridgedToday(t) + amount <= whitelist[t].daily_limit

Recorded(t, amount) ==
    [daily_totals EXCEPT ![t] = [day |-> DayOf(now), total |-> BridgedToday(t) + amount]]
-----------------------------------------------------------------------------
IsExpired(r) == now > r.timestamp + RequestExpiry

(* A user makes a request and submits it, perhaps repeatedly.  The time in *)
(* it is the caller's: nothing compares it with the clock, and a request   *)
(* dated in the future lives longer.                                       *)
Submit(r) ==
    /\ ValidAmount(r)
    /\ ~ paused
    /\ r.source = OwnChain
    /\ whitelist[r.token].enabled
    /\ Amount(r) <= whitelist[r.token].max_per_tx
    /\ WithinLimit(r.token, Amount(r))
    /\ r \notin DOMAIN pending \cup completed
    /\ daily_totals' = Recorded(r.token, Amount(r))
    /\ \E proof \in BOOLEAN :
            pending' = [x \in DOMAIN pending \cup {r} |->
                            IF x = r THEN [confirmations |-> {}, proof |-> proof] ELSE pending[x]]
    /\ UNCHANGED <<completed, spent, store, admin, now, crashes, history>>

(* set_proof on a pending request. *)
SetProof(r) ==
    /\ r \in DOMAIN pending
    /\ pending' = [pending EXCEPT ![r].proof = TRUE]
    /\ UNCHANGED <<completed, spent, store, admin, daily_totals, now, crashes, history>>

(* confirm with a signature that verify_single accepts. *)
Confirm(r, key) ==
    /\ r \in DOMAIN pending /\ ~ IsExpired(r)
    /\ pending' = [pending EXCEPT ![r].confirmations = @ \cup {key}]
    /\ UNCHANGED <<completed, spent, store, admin, daily_totals, now, crashes, history>>

(* The checks of execute up to the write of the store: not expired, not    *)
(* spent, enough signatures.                                               *)
MayExecute(r) ==
    /\ r \in DOMAIN pending /\ ~ IsExpired(r)
    /\ r \notin spent
    /\ Cardinality(pending[r].confirmations) >= Threshold

(* A slip: the hash is kept in memory only. *)
PersistNothing(r) == UNCHANGED store

PersistOne(r) == store' = store \cup {r}

(* execute, the proof verifies. *)
Execute(r) ==
    /\ MayExecute(r)
    /\ PersistOne(r)
    /\ spent' = spent \cup {r}
    /\ pending[r].proof
    /\ pending' = [x \in DOMAIN pending \ {r} |-> pending[x]]
    /\ completed' = completed \cup {r}
    /\ actions' = [actions EXCEPT ![r] = @ + 1]
    /\ outflow' = [outflow EXCEPT ![r.token][DayOf(now)] = @ + Amount(r)]
    /\ UNCHANGED <<admin, daily_totals, now, crashes>>

(* execute, no proof or one that does not fit the root the caller passes:  *)
(* the call fails after the operation was marked.                          *)
ExecuteProofInvalid(r) ==
    /\ MayExecute(r)
    /\ PersistOne(r)
    /\ spent' = spent \cup {r}
    /\ UNCHANGED <<pending, completed, admin, daily_totals, now, crashes, history>>

ExpireStale ==
    /\ \E r \in DOMAIN pending : IsExpired(r)
    /\ pending' = [r \in {x \in DOMAIN pending : ~ IsExpired(x)} |-> pending[r]]
    /\ UNCHANGED <<completed, spent, store, admin, daily_totals, now, crashes, history>>
-----------------------------------------------------------------------------
SetPaused ==
    /\ paused' = ~ paused
    /\ UNCHANGED <<pending, completed, spent, store, whitelist, daily_totals, now, crashes, history>>

(* TokenWhitelist::disable, enable, insert. *)
SetWhitelist(t) ==
    /\ \E cfg \in Configs \cup {[whitelist[t] EXCEPT !.enabled = ~ @]} :
            whitelist' = [whitelist EXCEPT ![t] = cfg]
    /\ UNCHANGED <<pending, completed, spent, store, paused, daily_totals, now, crashes, history>>

Tick ==
    /\ now < MaxTime
    /\ now' = now + 1
    /\ UNCHANGED <<pending, completed, spent, store, admin, daily_totals, crashes, history>>

(* A new process: BridgeRelayer::new and attach_storage. *)
NewRelayer ==
    /\ crashes < MaxCrashes
    /\ crashes' = crashes + 1
    /\ pending' = [r \in {} |-> r]
    /\ completed' = {}
    /\ paused' = FALSE
    /\ whitelist' = DefaultMainnet
    /\ daily_totals' = NoTotal
    /\ UNCHANGED <<now, history>>

LoadSpentOperations(disk) == disk

Restart ==
    /\ NewRelayer
    /\ spent' = LoadSpentOperations(store)
    /\ UNCHANGED store

(* The process dies after the synced write and before execute returns. *)
CrashInExecute(r) ==
    /\ MayExecute(r)
    /\ NewRelayer
    /\ PersistOne(r)
    /\ spent' = LoadSpentOperations(store')

Next ==
    \/ \E r \in Request :
        \/ Submit(r) \/ SetProof(r) \/ Execute(r) \/ ExecuteProofInvalid(r) \/ CrashInExecute(r)
        \/ \E key \in Keys : Confirm(r, key)
    \/ ExpireStale \/ SetPaused \/ Tick \/ Restart
    \/ \E t \in Token : SetWhitelist(t)

Spec == Init /\ [][Next]_vars
-----------------------------------------------------------------------------
(* Properties *)

(* The variables have the shape the code gives them. *)
TypeOK ==
    /\ DOMAIN pending \subseteq Request
    /\ \A r \in DOMAIN pending : pending[r] \in [confirmations : SUBSET Keys, proof : BOOLEAN]
    /\ completed \subseteq Request /\ spent \subseteq Request /\ store \subseteq Request
    /\ paused \in BOOLEAN
    /\ whitelist \in [Token -> Config]
    /\ daily_totals \in [Token -> [day : Nat, total : Nat]]
    /\ now \in 0..MaxTime /\ crashes \in 0..MaxCrashes
    /\ actions \in [Request -> Nat]
    /\ outflow \in [Token -> [Days -> Nat]]

(* A request is minted or unlocked at most once, however often it is       *)
(* submitted, confirmed and executed again after crashes, crashes inside   *)
(* execute included.                                                       *)
ExecutedOnce == \A r \in Request : actions[r] <= 1

MaxLimit(t) == Max({DefaultMainnet[t].daily_limit} \cup {cfg.daily_limit : cfg \in Configs})

(* What has left the bridge, over all days, is at most the limits of the   *)
(* days so far, and one limit more for each process that died and forgot   *)
(* its daily total.  The limit is taken at submission: requests that wait, *)
(* expire, are confirmed late, carry a time in the future or come again    *)
(* after a restart can gather on one day, and never exceed the sum.        *)
OutflowWithinLimits ==
    \A t \in Token : SumFunctionOnSet(outflow[t], Days) <= MaxLimit(t) * (DayOf(now) + 1 + crashes)
-----------------------------------------------------------------------------
(* What the repository says and the code does not do *)

(* "caps total outflow per token per UTC day" (docs/BRIDGE.md). *)
OutflowWithinDay ==
    crashes = 0 => \A t \in Token, d \in Days : outflow[t][d] <= MaxLimit(t)

(* "Set of msg_hash values already executed" (multisig.rs): while no crash *)
(* came in between, what is spent was executed.                            *)
SpentMeansExecuted ==
    crashes = 0 => \A r \in spent : actions[r] = 1
=============================================================================
