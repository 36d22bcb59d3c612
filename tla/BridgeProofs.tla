---------------------------- MODULE BridgeProofs ----------------------------
(***************************************************************************)
(* Proofs for Bridge: a request is executed at most once, whatever crashes *)
(* and is submitted again, and what leaves the bridge is at most what the  *)
(* daily limits of the days so far, and of the processes that died, admit. *)
(***************************************************************************)
EXTENDS Bridge, SumLemmas

(* The amount of a request after the fee. *)
LEMMA AmountType == ASSUME NEW r \in Request PROVE Amount(r) \in Nat
<1>1. r.gross \in Nat
  BY BridgeConstants
<1> QED
  BY <1>1 DEF Amount, Fee

LEMMA TodayInDays == ASSUME now \in 0..MaxTime PROVE DayOf(now) \in Days
<1>1. now \in Nat /\ MaxTime \in Nat /\ DaySecs \in Nat \ {0} /\ now <= MaxTime
  BY BridgeConstants
<1>2. DayOf(now) \in Nat /\ DayOf(now) <= MaxTime \div DaySecs
  BY <1>1, DivBounds, DivMonotone DEF DayOf
<1>3. MaxTime \div DaySecs \in Nat
  BY <1>1, DivBounds
<1> QED
  BY <1>2, <1>3 DEF Days

LEMMA BridgedTodayType ==
    ASSUME TypeOK, NEW t \in Token PROVE BridgedToday(t) \in Nat
  BY DEF TypeOK, BridgedToday

(* A new process has the types of the initial state. *)
LEMMA NewRelayerType ==
    ASSUME TypeOK, NewRelayer, spent' \subseteq Request, store' \subseteq Request
    PROVE  TypeOK'
<1>1. DOMAIN pending' = {}
  BY DEF NewRelayer
<1>2. daily_totals' \in [Token -> [day : Nat, total : Nat]]
  BY DEF NewRelayer, NoTotal
<1>3. whitelist' \in [Token -> Config] /\ paused' \in BOOLEAN
  BY BridgeConstants DEF NewRelayer
<1>4. crashes' \in 0..MaxCrashes
  <2>1. MaxCrashes \in Nat
    BY BridgeConstants
  <2> QED
    BY <2>1 DEF NewRelayer, TypeOK
<1> QED
  BY <1>1, <1>2, <1>3, <1>4 DEF NewRelayer, TypeOK, history

LEMMA BridgeTypeStep == TypeOK /\ [Next]_vars => TypeOK'
<1> SUFFICES ASSUME TypeOK, [Next]_vars PROVE TypeOK'
  OBVIOUS
<1> USE DEF history, admin
<1>1. ASSUME NEW r \in Request, Submit(r) PROVE TypeOK'
  <2>1. r.token \in Token /\ Amount(r) \in Nat
    BY BridgeConstants, AmountType
  <2>2. daily_totals' \in [Token -> [day : Nat, total : Nat]]
    <3>1. BridgedToday(r.token) + Amount(r) \in Nat /\ DayOf(now) \in Nat
      BY <2>1, BridgedTodayType, TodayInDays DEF TypeOK, Days
    <3> QED
      BY <1>1, <2>1, <3>1 DEF Submit, Recorded, TypeOK
  <2>3. /\ DOMAIN pending' \subseteq Request
        /\ \A x \in DOMAIN pending' : pending'[x] \in [confirmations : SUBSET Keys, proof : BOOLEAN]
    BY <1>1 DEF Submit, TypeOK
  <2> QED
    BY <1>1, <2>2, <2>3 DEF Submit, TypeOK
<1>2. ASSUME NEW r \in Request, SetProof(r) PROVE TypeOK'
  <2>1. /\ DOMAIN pending' \subseteq Request
        /\ \A x \in DOMAIN pending' : pending'[x] \in [confirmations : SUBSET Keys, proof : BOOLEAN]
    BY <1>2 DEF SetProof, TypeOK
  <2> QED
    BY <1>2, <2>1 DEF SetProof, TypeOK
<1>3. ASSUME NEW r \in Request, NEW key \in Keys, Confirm(r, key) PROVE TypeOK'
  <2>1. /\ DOMAIN pending' \subseteq Request
        /\ \A x \in DOMAIN pending' : pending'[x] \in [confirmations : SUBSET Keys, proof : BOOLEAN]
    BY <1>3 DEF Confirm, TypeOK
  <2> QED
    BY <1>3, <2>1 DEF Confirm, TypeOK
<1>4. ASSUME NEW r \in Request, Execute(r) PROVE TypeOK'
  <2>1. r.token \in Token /\ Amount(r) \in Nat /\ DayOf(now) \in Days
    BY BridgeConstants, AmountType, TodayInDays DEF TypeOK
  <2>2. outflow' \in [Token -> [Days -> Nat]]
    BY <1>4, <2>1 DEF Execute, TypeOK
  <2>3. /\ DOMAIN pending' \subseteq Request
        /\ \A x \in DOMAIN pending' : pending'[x] \in [confirmations : SUBSET Keys, proof : BOOLEAN]
    BY <1>4 DEF Execute, TypeOK
  <2> QED
    BY <1>4, <2>2, <2>3 DEF Execute, PersistOne, TypeOK
<1>5. ASSUME NEW r \in Request, ExecuteProofInvalid(r) PROVE TypeOK'
  BY <1>5 DEF ExecuteProofInvalid, PersistOne, TypeOK
<1>6. CASE ExpireStale
  BY <1>6 DEF ExpireStale, TypeOK
<1>7. CASE SetPaused
  BY <1>7 DEF SetPaused, TypeOK
<1>8. ASSUME NEW t \in Token, SetWhitelist(t) PROVE TypeOK'
  <2>1. \A cfg \in Configs \cup {[whitelist[t] EXCEPT !.enabled = ~ @]} : cfg \in Config
    BY BridgeConstants DEF Config, TypeOK
  <2>2. whitelist' \in [Token -> Config]
    BY <1>8, <2>1 DEF SetWhitelist, TypeOK
  <2> QED
    BY <1>8, <2>2 DEF SetWhitelist, TypeOK
<1>9. CASE Tick
  BY <1>9, BridgeConstants DEF Tick, TypeOK
<1>10. CASE Restart
  <2>1. spent' \subseteq Request /\ store' \subseteq Request
    BY <1>10 DEF Restart, LoadSpentOperations, TypeOK
  <2> QED
    BY <1>10, <2>1, NewRelayerType DEF Restart
<1>11. ASSUME NEW r \in Request, CrashInExecute(r) PROVE TypeOK'
  <2>1. spent' \subseteq Request /\ store' \subseteq Request
    BY <1>11 DEF CrashInExecute, PersistOne, LoadSpentOperations, TypeOK
  <2> QED
    BY <1>11, <2>1, NewRelayerType DEF CrashInExecute
<1>12. CASE UNCHANGED vars
  BY <1>12 DEF vars, TypeOK
<1> QED
  BY <1>1, <1>2, <1>3, <1>4, <1>5, <1>6, <1>7, <1>8, <1>9, <1>10, <1>11, <1>12 DEF Next

LEMMA BridgeTypeInit == Init => TypeOK
<1> SUFFICES ASSUME Init PROVE TypeOK
  OBVIOUS
<1>1. DOMAIN pending = {}
  BY DEF Init
<1>2. whitelist \in [Token -> Config] /\ now \in 0..MaxTime /\ crashes \in 0..MaxCrashes
  BY BridgeConstants DEF Init
<1>3. /\ daily_totals \in [Token -> [day : Nat, total : Nat]]
      /\ outflow \in [Token -> [Days -> Nat]]
  BY DEF Init, NoTotal
<1> QED
  BY <1>1, <1>2, <1>3 DEF Init, TypeOK

(* The variables of the relayer are well formed for every set of requests, *)
(* tokens and keys and any number of restarts.                             *)
THEOREM BridgeTypeOK == Spec => []TypeOK
  BY BridgeTypeInit, BridgeTypeStep, PTL DEF Spec
-----------------------------------------------------------------------------
(* What is on disk is what MultisigAuth knows, and what was handed out is  *)
(* in both: a second execute of a request finds it spent.                  *)
SpentInv ==
    /\ TypeOK
    /\ spent = store
    /\ \A r \in Request : actions[r] > 0 => r \in store
    /\ ExecutedOnce

LEMMA SpentStep == SpentInv /\ [Next]_vars => SpentInv'
<1> SUFFICES ASSUME SpentInv, [Next]_vars PROVE SpentInv'
  OBVIOUS
<1>a. TypeOK /\ TypeOK'
  BY BridgeTypeStep DEF SpentInv
<1> USE DEF history, LoadSpentOperations, PersistOne
<1>1. ASSUME NEW r \in Request, Execute(r) PROVE SpentInv'
  <2>1. r \notin store /\ actions[r] \in Nat
    BY <1>1, <1>a DEF Execute, MayExecute, SpentInv, TypeOK
  <2>2. actions[r] = 0
    BY <2>1 DEF SpentInv
  <2>3. /\ actions'[r] = 1 /\ r \in store' /\ spent' = store'
        /\ \A x \in Request \ {r} : actions'[x] = actions[x] /\ (x \in store => x \in store')
    BY <1>1, <1>a, <2>2 DEF Execute, SpentInv, TypeOK
  <2> QED
    BY <1>a, <2>3 DEF SpentInv, ExecutedOnce
<1>2. CASE spent' = store' /\ store \subseteq store' /\ actions' = actions
  BY <1>2, <1>a DEF SpentInv, ExecutedOnce
<1>3. \/ \E r \in Request : Execute(r)
      \/ spent' = store' /\ store \subseteq store' /\ actions' = actions
  BY DEF Next, vars, Submit, SetProof, ExecuteProofInvalid, CrashInExecute, Confirm, ExpireStale,
     SetPaused, Tick, Restart, SetWhitelist, NewRelayer, SpentInv
<1> QED
  BY <1>1, <1>2, <1>3

(* execute hands out a request at most once: through repeated submissions, *)
(* restarts and crashes between the synced write of the spent operation    *)
(* and the return of execute.                                              *)
THEOREM BridgeExecutedOnce == Spec => []ExecutedOnce
<1>1. Init => SpentInv
  BY BridgeTypeInit DEF Init, SpentInv, ExecutedOnce
<1>2. SpentInv => ExecutedOnce
  BY DEF SpentInv
<1> QED
  BY <1>1, <1>2, SpentStep, PTL DEF Spec
-----------------------------------------------------------------------------
(* The daily limit.  It is taken at submission and not at execution: what  *)
(* has left and what is pending together are covered by the limits of the  *)
(* days before, of the processes before, and by today's total.             *)

AmountOf == [r \in Request |-> Amount(r)]

PendingOf(t) == {r \in DOMAIN pending : r.token = t}
Waiting(t) == SumFunctionOnSet(AmountOf, PendingOf(t))
Moved(t) == SumFunctionOnSet(outflow[t], Days)

(* The limits of the days that are over, one for each death included. *)
Earlier(t) == MaxLimit(t) * (DayOf(now) + crashes)

OutflowInv ==
    /\ TypeOK
    /\ \A t \in Token :
        /\ whitelist[t].daily_limit <= MaxLimit(t)
        /\ daily_totals[t].day <= DayOf(now)
        /\ BridgedToday(t) <= MaxLimit(t)
        /\ Moved(t) + Waiting(t) <= Earlier(t) + BridgedToday(t)

LEMMA MaxLimitBounds ==
    ASSUME NEW t \in Token
    PROVE  /\ MaxLimit(t) \in Nat /\ DefaultMainnet[t].daily_limit <= MaxLimit(t)
           /\ \A cfg \in Configs : cfg.daily_limit <= MaxLimit(t)
<1> DEFINE image == {cfg.daily_limit : cfg \in Configs}
           all == {DefaultMainnet[t].daily_limit} \cup image
           f == [cfg \in Configs |-> cfg.daily_limit]
<1>1. DefaultMainnet[t] \in Config /\ \A cfg \in Configs : cfg \in Config
  BY BridgeConstants
<1>2. all \in SUBSET Nat
  BY <1>1 DEF Config
<1>3. IsFiniteSet(image)
  <2>1. f \in Surjection(Configs, image)
    BY DEF Surjection
  <2> QED
    BY <2>1, FS_Surjection, BridgeConstants
<1>4. IsFiniteSet(all)
  <2>1. IsFiniteSet(image \cup {DefaultMainnet[t].daily_limit})
    BY <1>3, FS_AddElement
  <2>2. all = image \cup {DefaultMainnet[t].daily_limit}
    OBVIOUS
  <2> QED
    BY <2>1, <2>2, Zenon
<1>5. \E m \in all : \A x \in all : m >= x
  <2>1. all # {} /\ all \in SUBSET Int
    BY <1>2
  <2> HIDE DEF all
  <2> QED
    BY <1>4, <2>1, FiniteMax
<1>6. MaxLimit(t) \in all /\ \A x \in all : MaxLimit(t) >= x
  BY <1>5 DEF MaxLimit, Max
<1> QED
  BY <1>2, <1>6

LEMMA AmountOfType == AmountOf \in [Request -> Nat]
  BY AmountType DEF AmountOf

(* Sums over pending requests are natural numbers and shrink with them. *)
LEMMA PendingSum ==
    ASSUME NEW S \in SUBSET Request, NEW T \in SUBSET S
    PROVE  /\ SumFunctionOnSet(AmountOf, S) \in Nat /\ SumFunctionOnSet(AmountOf, T) \in Nat
           /\ SumFunctionOnSet(AmountOf, T) <= SumFunctionOnSet(AmountOf, S)
<1>1. T \in SUBSET Request /\ \A x \in S : AmountOf[x] \in Nat
  BY AmountOfType
<1>2. IsFiniteSet(S) /\ IsFiniteSet(T)
  BY <1>1, FS_Subset, BridgeConstants
<1>3. SumFunctionOnSet(AmountOf, S) \in Nat
  BY <1>1, <1>2, SumNat
<1>4. \A x \in T : AmountOf[x] \in Nat
  BY <1>1
<1>5. SumFunctionOnSet(AmountOf, T) \in Nat
  BY <1>2, <1>4, SumNat
<1>6. SumFunctionOnSet(AmountOf, T) <= SumFunctionOnSet(AmountOf, S)
  BY <1>1, <1>2, SumSubset
<1> QED
  BY <1>3, <1>5, <1>6

LEMMA PendingSumAdd ==
    ASSUME NEW S \in SUBSET Request, NEW r \in Request \ S
    PROVE  SumFunctionOnSet(AmountOf, S \cup {r}) = SumFunctionOnSet(AmountOf, S) + Amount(r)
<1>1. IsFiniteSet(S) /\ \A x \in S \cup {r} : AmountOf[x] \in Int
  BY AmountOfType, FS_Subset, BridgeConstants
<1>2. SumFunctionOnSet(AmountOf, S \cup {r}) = AmountOf[r] + SumFunctionOnSet(AmountOf, S)
  BY <1>1, SumAdd
<1>3. AmountOf[r] = Amount(r) /\ Amount(r) \in Nat
  BY AmountType DEF AmountOf
<1>4. SumFunctionOnSet(AmountOf, S) \in Nat
  BY PendingSum
<1> QED
  BY <1>2, <1>3, <1>4

LEMMA DaysFinite == IsFiniteSet(Days) /\ Days \subseteq Nat
<1>1. MaxTime \div DaySecs \in Nat
  BY BridgeConstants, DivBounds
<1>2. IsFiniteSet(0 .. (MaxTime \div DaySecs))
  BY <1>1, FS_Interval
<1> QED
  BY <1>1, <1>2 DEF Days

LEMMA OutflowTypes ==
    ASSUME TypeOK, NEW t \in Token
    PROVE  /\ PendingOf(t) \in SUBSET Request /\ Waiting(t) \in Nat /\ Moved(t) \in Nat
           /\ BridgedToday(t) \in Nat /\ MaxLimit(t) \in Nat
           /\ DayOf(now) \in Nat /\ crashes \in Nat /\ Earlier(t) \in Nat
<1>1. PendingOf(t) \in SUBSET Request
  BY DEF TypeOK, PendingOf
<1>2. Waiting(t) \in Nat
  BY <1>1, PendingSum DEF Waiting
<1>3. Moved(t) \in Nat
  <2>1. IsFiniteSet(Days) /\ \A d \in Days : outflow[t][d] \in Nat
    BY DaysFinite DEF TypeOK
  <2> QED
    BY <2>1, SumNat DEF Moved
<1>4. BridgedToday(t) \in Nat /\ MaxLimit(t) \in Nat
  BY BridgedTodayType, MaxLimitBounds
<1>5. DayOf(now) \in Nat /\ crashes \in Nat
  BY TodayInDays DEF TypeOK, Days
<1>6. Earlier(t) \in Nat
  BY <1>4, <1>5 DEF Earlier
<1> QED
  BY <1>1, <1>2, <1>3, <1>4, <1>5, <1>6

(* Requests go, or nothing happens to them; time, totals and outflow stay. *)
LEMMA OutflowFrame ==
    ASSUME OutflowInv, TypeOK', DOMAIN pending' \subseteq DOMAIN pending,
           UNCHANGED <<daily_totals, now, crashes, outflow>>,
           \A t \in Token : whitelist'[t].daily_limit <= MaxLimit(t)
    PROVE  OutflowInv'
<1>1. ASSUME NEW t \in Token
      PROVE  /\ BridgedToday(t)' = BridgedToday(t) /\ DayOf(now)' = DayOf(now)
             /\ Moved(t)' + Waiting(t)' <= Earlier(t)' + BridgedToday(t)'
  <2>1. PendingOf(t) \in SUBSET Request /\ PendingOf(t)' \in SUBSET PendingOf(t)
    BY OutflowTypes DEF OutflowInv, PendingOf
  <2>2. Waiting(t)' <= Waiting(t) /\ Waiting(t)' \in Nat
    BY <2>1, PendingSum DEF Waiting
  <2>3. /\ BridgedToday(t)' = BridgedToday(t) /\ DayOf(now)' = DayOf(now)
        /\ Moved(t)' = Moved(t) /\ Earlier(t)' = Earlier(t)
    BY DEF BridgedToday, DayOf, Moved, Earlier
  <2>4. Moved(t) + Waiting(t) <= Earlier(t) + BridgedToday(t)
    BY DEF OutflowInv
  <2>5. Moved(t) \in Nat /\ Waiting(t) \in Nat /\ Earlier(t) \in Nat /\ BridgedToday(t) \in Nat
    BY OutflowTypes DEF OutflowInv
  <2> QED
    BY <2>2, <2>3, <2>4, <2>5
<1> QED
  BY <1>1 DEF OutflowInv

(* A submission is added to today's total, and to what is pending. *)
LEMMA OutflowSubmit ==
    ASSUME OutflowInv, TypeOK', NEW r \in Request, Submit(r) PROVE OutflowInv'
<1>0. /\ TypeOK /\ r.token \in Token /\ Amount(r) \in Nat /\ DayOf(now) \in Nat
      /\ r \notin DOMAIN pending /\ DOMAIN pending' = DOMAIN pending \cup {r}
      /\ UNCHANGED <<now, crashes, outflow, whitelist>>
  <2>1. TypeOK /\ DayOf(now) \in Nat
    BY TodayInDays, DaysFinite DEF OutflowInv, TypeOK
  <2> QED
    BY <2>1, BridgeConstants, AmountType DEF Submit, TypeOK, admin, history
<1>1. DayOf(now)' = DayOf(now)
  BY <1>0 DEF DayOf
<1>2. /\ BridgedToday(r.token)' = BridgedToday(r.token) + Amount(r)
      /\ daily_totals'[r.token].day = DayOf(now)
      /\ \A t \in Token \ {r.token} : /\ BridgedToday(t)' = BridgedToday(t)
                                     /\ daily_totals'[t] = daily_totals[t]
  <2>1. /\ daily_totals'[r.token] = [day |-> DayOf(now), total |-> BridgedToday(r.token) + Amount(r)]
        /\ \A t \in Token \ {r.token} : daily_totals'[t] = daily_totals[t]
    BY <1>0 DEF Submit, Recorded, TypeOK
  <2> QED
    BY <1>0, <1>1, <2>1 DEF BridgedToday
<1>3. BridgedToday(r.token) + Amount(r) <= MaxLimit(r.token)
  <2>1. /\ BridgedToday(r.token) + Amount(r) <= whitelist[r.token].daily_limit
        /\ whitelist[r.token].daily_limit <= MaxLimit(r.token)
    BY <1>0 DEF Submit, WithinLimit, OutflowInv
  <2>2. /\ BridgedToday(r.token) \in Nat /\ MaxLimit(r.token) \in Nat
        /\ whitelist[r.token].daily_limit \in Nat
    BY <1>0, BridgedTodayType, MaxLimitBounds DEF TypeOK, Config
  <2> QED
    BY <1>0, <2>1, <2>2
<1>4. ASSUME NEW t \in Token
      PROVE  /\ BridgedToday(t)' <= MaxLimit(t)
             /\ Moved(t)' + Waiting(t)' <= Earlier(t)' + BridgedToday(t)'
  <2>1. Moved(t)' = Moved(t) /\ Earlier(t)' = Earlier(t)
    BY <1>0, <1>1 DEF Moved, Earlier
  <2>2. Moved(t) \in Nat /\ Waiting(t) \in Nat /\ Earlier(t) \in Nat /\ BridgedToday(t) \in Nat
    BY <1>0, OutflowTypes
  <2>3. /\ Moved(t) + Waiting(t) <= Earlier(t) + BridgedToday(t)
        /\ BridgedToday(t) <= MaxLimit(t)
    BY DEF OutflowInv
  <2>4. CASE t # r.token
    <3>1. PendingOf(t)' = PendingOf(t)
      BY <1>0, <2>4 DEF PendingOf
    <3>2. Waiting(t)' = Waiting(t)
      BY <3>1, Zenon DEF Waiting
    <3> QED
      BY <1>2, <2>1, <2>3, <2>4, <3>2
  <2>5. CASE t = r.token
    <3>1. PendingOf(t)' = PendingOf(t) \cup {r} /\ r \notin PendingOf(t)
      BY <1>0, <2>5 DEF PendingOf
    <3>2. SumFunctionOnSet(AmountOf, PendingOf(t) \cup {r}) = Waiting(t) + Amount(r)
      BY <1>0, <3>1, OutflowTypes, PendingSumAdd DEF Waiting
    <3>3. Waiting(t)' = Waiting(t) + Amount(r)
      BY <3>1, <3>2, Zenon DEF Waiting
    <3> QED
      BY <1>0, <1>2, <1>3, <2>1, <2>2, <2>3, <2>5, <3>3
  <2> QED
    BY <2>4, <2>5
<1>5. \A t \in Token : daily_totals'[t].day <= DayOf(now)'
  BY <1>0, <1>1, <1>2 DEF OutflowInv
<1> QED
  BY <1>0, <1>4, <1>5 DEF OutflowInv

(* An execution moves its amount from the pending ones to the outflow. *)
LEMMA OutflowExecute ==
    ASSUME OutflowInv, TypeOK', NEW r \in Request, Execute(r) PROVE OutflowInv'
<1>0. /\ TypeOK /\ r.token \in Token /\ Amount(r) \in Nat /\ DayOf(now) \in Days
      /\ r \in DOMAIN pending /\ DOMAIN pending' = DOMAIN pending \ {r}
      /\ UNCHANGED <<now, crashes, daily_totals, whitelist>>
  BY BridgeConstants, AmountType, TodayInDays DEF Execute, MayExecute, OutflowInv, TypeOK, admin
<1>1. DayOf(now)' = DayOf(now) /\ \A t \in Token : BridgedToday(t)' = BridgedToday(t)
  BY <1>0 DEF DayOf, BridgedToday
<1>2. /\ outflow'[r.token][DayOf(now)] = outflow[r.token][DayOf(now)] + Amount(r)
      /\ \A t \in Token, d \in Days :
            <<t, d>> # <<r.token, DayOf(now)>> => outflow'[t][d] = outflow[t][d]
  BY <1>0 DEF Execute, TypeOK
<1>3. ASSUME NEW t \in Token PROVE Moved(t)' + Waiting(t)' = Moved(t) + Waiting(t)
  <2>1. IsFiniteSet(Days) /\ \A d \in Days : outflow[t][d] \in Int /\ outflow'[t][d] \in Int
    BY <1>0, DaysFinite DEF TypeOK
  <2>2. CASE t # r.token
    <3>1. PendingOf(t)' = PendingOf(t)
      BY <1>0, <2>2 DEF PendingOf
    <3>2. Waiting(t)' = Waiting(t)
      BY <3>1, Zenon DEF Waiting
    <3>3. outflow'[t] = outflow[t]
      BY <1>0, <2>2 DEF Execute, TypeOK
    <3>4. Moved(t)' = Moved(t)
      BY <3>3, Zenon DEF Moved
    <3> QED
      BY <3>2, <3>4
  <2>3. CASE t = r.token
    <3>1. /\ PendingOf(t) = PendingOf(t)' \cup {r} /\ r \notin PendingOf(t)'
          /\ PendingOf(t)' \in SUBSET Request
      BY <1>0, <2>3 DEF PendingOf, TypeOK
    <3>2. SumFunctionOnSet(AmountOf, PendingOf(t)' \cup {r})
              = SumFunctionOnSet(AmountOf, PendingOf(t)') + Amount(r)
      BY <3>1, PendingSumAdd
    <3>3. SumFunctionOnSet(AmountOf, PendingOf(t)') = Waiting(t)'
      BY Zenon DEF Waiting
    <3>4. Waiting(t) = Waiting(t)' + Amount(r)
      BY <3>1, <3>2, <3>3, Zenon DEF Waiting
    <3>5. \A d \in Days \ {DayOf(now)} : outflow'[t][d] = outflow[t][d]
      BY <1>2, <2>3
    <3>6. SumFunctionOnSet(outflow'[t], Days)
              = SumFunctionOnSet(outflow[t], Days) + outflow'[t][DayOf(now)] - outflow[t][DayOf(now)]
      BY <1>0, <2>1, <3>5, SumUpdate
    <3>7. Moved(t)' = SumFunctionOnSet(outflow'[t], Days)
      BY Zenon DEF Moved
    <3>8. outflow'[t][DayOf(now)] = outflow[t][DayOf(now)] + Amount(r)
      BY <1>2, <2>3
    <3>9. outflow[t][DayOf(now)] \in Int /\ Moved(t) \in Nat /\ Waiting(t)' \in Nat
      <4>1. outflow[t][DayOf(now)] \in Int
        BY <1>0, <2>1
      <4>2. Moved(t) \in Nat
        BY <1>0, OutflowTypes
      <4> QED
        BY <3>1, <3>3, <4>1, <4>2, PendingSum
    <3>10. Moved(t)' = Moved(t) + Amount(r)
      BY <1>0, <3>6, <3>7, <3>8, <3>9 DEF Moved
    <3> QED
      BY <1>0, <3>4, <3>9, <3>10
  <2> QED
    BY <2>2, <2>3
<1>4. \A t \in Token : Earlier(t)' = Earlier(t)
  BY <1>0, <1>1 DEF Earlier
<1> QED
  BY <1>0, <1>1, <1>3, <1>4 DEF OutflowInv

(* A tick stays in the day or begins the next. *)
LEMMA DayStep ==
    ASSUME NEW n \in Nat
    PROVE  \/ DayOf(n + 1) = DayOf(n)
           \/ DayOf(n + 1) = DayOf(n) + 1 /\ n + 1 = DaySecs * (DayOf(n) + 1)
<1> DEFINE p == DayOf(n)
           q == DayOf(n + 1)
<1>1. DaySecs \in Nat \ {0}
  BY BridgeConstants
<1>2. /\ p \in Nat /\ q \in Nat /\ p <= q
      /\ n < DaySecs * p + DaySecs /\ DaySecs * q <= n + 1
  BY <1>1, DivBounds, DivMonotone DEF DayOf
<1> HIDE DEF p, q
<1>3. CASE q = p
  BY <1>3 DEF p, q
<1>4. CASE q # p
  <2>1. q >= p + 1
    BY <1>2, <1>4
  <2>2. DaySecs * q >= DaySecs * (p + 1) /\ DaySecs * (p + 1) = DaySecs * p + DaySecs
    BY <1>1, <1>2, <2>1
  <2>3. DaySecs * (p + 1) \in Nat /\ DaySecs * q \in Nat
    BY <1>1, <1>2
  <2>4. DaySecs * q = DaySecs * (p + 1) /\ n + 1 = DaySecs * (p + 1)
    BY <1>1, <1>2, <2>2, <2>3
  <2>5. q = p + 1
    <3>1. ASSUME q >= p + 2 PROVE FALSE
      <4>1. DaySecs * q >= DaySecs * (p + 2) /\ DaySecs * (p + 2) = DaySecs * (p + 1) + DaySecs
        BY <1>1, <1>2, <3>1
      <4> QED
        BY <1>1, <2>3, <2>4, <4>1
    <3> QED
      BY <1>2, <2>1, <3>1
  <2> QED
    BY <2>4, <2>5 DEF p, q
<1> QED
  BY <1>3, <1>4

(* One day, or one death, more. *)
LEMMA OneMore ==
    ASSUME NEW m \in Nat, NEW n \in Nat PROVE m * (n + 1) = m * n + m
  OBVIOUS

(* At midnight the total starts again, and the limit of the day that is    *)
(* over covers what it was.                                                *)
LEMMA OutflowTick == ASSUME OutflowInv, TypeOK', Tick PROVE OutflowInv'
<1>0. /\ TypeOK /\ now \in Nat /\ now' = now + 1
      /\ UNCHANGED <<pending, daily_totals, crashes, outflow, whitelist>>
  BY DEF OutflowInv, Tick, TypeOK, admin, history
<1>1. DayOf(now)' = DayOf(now + 1)
  BY <1>0 DEF DayOf
<1>2. CASE DayOf(now + 1) = DayOf(now)
  <2>1. DayOf(now)' = DayOf(now)
    BY <1>1, <1>2
  <2>2. \A t \in Token : /\ BridgedToday(t)' = BridgedToday(t) /\ Moved(t)' = Moved(t)
                         /\ Waiting(t)' = Waiting(t) /\ Earlier(t)' = Earlier(t)
    BY <1>0, <2>1 DEF BridgedToday, Moved, Waiting, PendingOf, Earlier
  <2> QED
    BY <1>0, <2>1, <2>2 DEF OutflowInv
<1>3. CASE DayOf(now + 1) = DayOf(now) + 1
  <2>1. DayOf(now)' = DayOf(now) + 1
    BY <1>1, <1>3
  <2>2. ASSUME NEW t \in Token
        PROVE  /\ daily_totals'[t].day <= DayOf(now)'
               /\ BridgedToday(t)' = 0 /\ MaxLimit(t) \in Nat
               /\ Moved(t)' + Waiting(t)' <= Earlier(t)'
    <3>1. /\ Moved(t) \in Nat /\ Waiting(t) \in Nat /\ Earlier(t) \in Nat
          /\ BridgedToday(t) \in Nat /\ MaxLimit(t) \in Nat
          /\ DayOf(now) \in Nat /\ crashes \in Nat
      BY <1>0, OutflowTypes
    <3>2. daily_totals[t].day <= DayOf(now) /\ daily_totals[t].day \in Nat
      BY <1>0 DEF OutflowInv, TypeOK
    <3>3. daily_totals'[t].day # DayOf(now)' /\ daily_totals'[t].day <= DayOf(now)'
      BY <1>0, <2>1, <3>1, <3>2
    <3>4. Moved(t)' = Moved(t) /\ Waiting(t)' = Waiting(t)
      BY <1>0 DEF Moved, Waiting, PendingOf
    <3>5. Earlier(t)' = Earlier(t) + MaxLimit(t)
      <4>1. Earlier(t)' = MaxLimit(t) * ((DayOf(now) + crashes) + 1)
        BY <1>0, <2>1, <3>1 DEF Earlier
      <4>2. DayOf(now) + crashes \in Nat
        BY <3>1
      <4> QED
        BY <3>1, <4>1, <4>2, OneMore DEF Earlier
    <3>6. /\ Moved(t) + Waiting(t) <= Earlier(t) + BridgedToday(t)
          /\ BridgedToday(t) <= MaxLimit(t)
      BY DEF OutflowInv
    <3>7. BridgedToday(t)' = 0
      BY <3>3 DEF BridgedToday
    <3>8. Moved(t)' + Waiting(t)' <= Earlier(t)'
      BY <3>1, <3>4, <3>5, <3>6
    <3> QED
      BY <3>1, <3>3, <3>7, <3>8
  <2>3. \A t \in Token : Moved(t)' + Waiting(t)' <= Earlier(t)' + BridgedToday(t)'
    <3>1. \A t \in Token : Earlier(t)' \in Nat
      <4>1. ASSUME NEW t \in Token PROVE Earlier(t)' \in Nat
        <5>1. DayOf(now)' \in Nat /\ crashes' \in Nat /\ MaxLimit(t) \in Nat
          BY <1>0, <2>1, OutflowTypes
        <5> QED
          BY <5>1 DEF Earlier
      <4> QED
        BY <4>1
    <3> QED
      BY <2>2, <3>1
  <2> QED
    BY <1>0, <2>2, <2>3 DEF OutflowInv
<1> QED
  BY <1>0, <1>2, <1>3, DayStep

(* A process that dies takes its pending requests and its total with it;   *)
(* the limit counted for its death covers the total.                       *)
LEMMA OutflowNewRelayer == ASSUME OutflowInv, TypeOK', NewRelayer PROVE OutflowInv'
<1>0. /\ TypeOK /\ DOMAIN pending' = {} /\ whitelist' = DefaultMainnet
      /\ UNCHANGED <<now, outflow>> /\ crashes' = crashes + 1
  BY DEF OutflowInv, NewRelayer, history
<1>1. DayOf(now)' = DayOf(now)
  BY <1>0 DEF DayOf
<1>2. ASSUME NEW t \in Token
      PROVE  /\ whitelist'[t].daily_limit <= MaxLimit(t)
             /\ daily_totals'[t].day <= DayOf(now)'
             /\ BridgedToday(t)' <= MaxLimit(t)
             /\ Moved(t)' + Waiting(t)' <= Earlier(t)' + BridgedToday(t)'
  <2>1. /\ Moved(t) \in Nat /\ Waiting(t) \in Nat /\ Earlier(t) \in Nat
        /\ BridgedToday(t) \in Nat /\ MaxLimit(t) \in Nat
        /\ DayOf(now) \in Nat /\ crashes \in Nat
    BY <1>0, OutflowTypes
  <2>2. whitelist'[t].daily_limit <= MaxLimit(t)
    BY <1>0, MaxLimitBounds
  <2>3. daily_totals'[t] = [day |-> 0, total |-> 0]
    BY DEF NewRelayer, NoTotal
  <2>4. daily_totals'[t].day <= DayOf(now)' /\ BridgedToday(t)' = 0
    BY <1>1, <2>1, <2>3 DEF BridgedToday
  <2>5. Moved(t)' = Moved(t)
    BY <1>0 DEF Moved
  <2>6. Waiting(t)' = 0
    <3>1. PendingOf(t)' = {}
      BY <1>0 DEF PendingOf
    <3> QED
      BY <3>1, SumEmpty, Zenon DEF Waiting
  <2>7. Earlier(t)' = Earlier(t) + MaxLimit(t)
    <3>1. Earlier(t)' = MaxLimit(t) * ((DayOf(now) + crashes) + 1)
      BY <1>0, <1>1, <2>1 DEF Earlier
    <3>2. DayOf(now) + crashes \in Nat
      BY <2>1
    <3> QED
      BY <2>1, <3>1, <3>2, OneMore DEF Earlier
  <2>8. /\ Moved(t) + Waiting(t) <= Earlier(t) + BridgedToday(t)
        /\ BridgedToday(t) <= MaxLimit(t)
    BY DEF OutflowInv
  <2>9. Moved(t)' + Waiting(t)' <= Earlier(t)' + BridgedToday(t)'
    BY <2>1, <2>4, <2>5, <2>6, <2>7, <2>8
  <2> QED
    BY <2>1, <2>2, <2>4, <2>9
<1> QED
  BY <1>2 DEF OutflowInv

LEMMA OutflowStep == OutflowInv /\ [Next]_vars => OutflowInv'
<1> SUFFICES ASSUME OutflowInv, [Next]_vars PROVE OutflowInv'
  OBVIOUS
<1>a. TypeOK /\ TypeOK'
  BY BridgeTypeStep DEF OutflowInv
<1>b. \A t \in Token : whitelist[t].daily_limit <= MaxLimit(t)
  BY DEF OutflowInv
<1>1. CASE \E r \in Request : Submit(r)
  BY <1>1, <1>a, OutflowSubmit
<1>2. CASE \E r \in Request : Execute(r)
  BY <1>2, <1>a, OutflowExecute
<1>3. CASE Tick
  BY <1>3, <1>a, OutflowTick
<1>4. CASE NewRelayer
  BY <1>4, <1>a, OutflowNewRelayer
<1>5. CASE /\ DOMAIN pending' \subseteq DOMAIN pending
           /\ UNCHANGED <<daily_totals, now, crashes, outflow, whitelist>>
  BY <1>5, <1>a, <1>b, OutflowFrame
<1>6. ASSUME NEW t \in Token, SetWhitelist(t) PROVE OutflowInv'
  <2>1. PICK cfg \in Configs \cup {[whitelist[t] EXCEPT !.enabled = ~ @]} :
            whitelist' = [whitelist EXCEPT ![t] = cfg]
    BY <1>6 DEF SetWhitelist
  <2>2. cfg.daily_limit <= MaxLimit(t)
    <3>1. CASE cfg \in Configs
      BY <3>1, MaxLimitBounds
    <3>2. CASE cfg = [whitelist[t] EXCEPT !.enabled = ~ @]
      <4>1. cfg.daily_limit = whitelist[t].daily_limit
        BY <3>2, <1>a DEF TypeOK, Config
      <4> QED
        BY <4>1, <1>b
    <3> QED
      BY <3>1, <3>2
  <2>3. \A u \in Token : whitelist'[u].daily_limit <= MaxLimit(u)
    BY <1>a, <1>b, <2>1, <2>2 DEF TypeOK
  <2> QED
    BY <1>6, <1>a, <2>3, OutflowFrame DEF SetWhitelist, history
<1>7. \/ \E r \in Request : Submit(r) \/ Execute(r)
      \/ Tick \/ NewRelayer \/ \E t \in Token : SetWhitelist(t)
      \/ /\ DOMAIN pending' \subseteq DOMAIN pending
         /\ UNCHANGED <<daily_totals, now, crashes, outflow, whitelist>>
  BY DEF Next, vars, history, admin, SetProof, ExecuteProofInvalid, CrashInExecute, Confirm,
     ExpireStale, SetPaused, Restart
<1> QED
  BY <1>1, <1>2, <1>3, <1>4, <1>5, <1>6, <1>7

LEMMA OutflowInit == Init => OutflowInv
<1> SUFFICES ASSUME Init PROVE OutflowInv
  OBVIOUS
<1>1. TypeOK /\ DOMAIN pending = {} /\ whitelist = DefaultMainnet
  BY BridgeTypeInit DEF Init
<1>2. ASSUME NEW t \in Token
      PROVE  /\ Waiting(t) = 0 /\ Moved(t) = 0
             /\ BridgedToday(t) = 0 /\ daily_totals[t].day = 0
  <2>1. Waiting(t) = 0
    <3>1. PendingOf(t) = {}
      BY <1>1 DEF PendingOf
    <3> QED
      BY <3>1, SumEmpty, Zenon DEF Waiting
  <2>2. Moved(t) = 0
    <3>1. IsFiniteSet(Days) /\ \A d \in Days : outflow[t][d] = 0
      BY DaysFinite DEF Init
    <3>2. SumFunctionOnSet(outflow[t], Days) = 0 * Cardinality(Days)
      BY <3>1, SumConst
    <3> QED
      BY <3>1, <3>2, FS_CardinalityType DEF Moved
  <2> QED
    BY <2>1, <2>2 DEF Init, NoTotal, BridgedToday
<1>3. \A t \in Token : MaxLimit(t) \in Nat /\ Earlier(t) \in Nat /\ DayOf(now) \in Nat
  BY <1>1, OutflowTypes
<1> QED
  BY <1>1, <1>2, <1>3, MaxLimitBounds DEF OutflowInv

(* What execute hands out of a token is, summed over all days, at most the *)
(* largest daily limit for each day so far and for each process that died: *)
(* for any requests, whatever time they carry and however late they are    *)
(* executed.                                                               *)
THEOREM BridgeOutflowWithinLimits == Spec => []OutflowWithinLimits
<1>1. OutflowInv => OutflowWithinLimits
  <2>1. ASSUME OutflowInv, NEW t \in Token
        PROVE  SumFunctionOnSet(outflow[t], Days) <= MaxLimit(t) * (DayOf(now) + 1 + crashes)
    <3>1. /\ Moved(t) \in Nat /\ Waiting(t) \in Nat /\ Earlier(t) \in Nat
          /\ BridgedToday(t) \in Nat /\ MaxLimit(t) \in Nat
          /\ DayOf(now) \in Nat /\ crashes \in Nat
      BY <2>1, OutflowTypes DEF OutflowInv
    <3>2. /\ Moved(t) + Waiting(t) <= Earlier(t) + BridgedToday(t)
          /\ BridgedToday(t) <= MaxLimit(t)
      BY <2>1 DEF OutflowInv
    <3>3. Moved(t) <= Earlier(t) + MaxLimit(t)
      BY <3>1, <3>2
    <3>4. DayOf(now) + 1 + crashes = (DayOf(now) + crashes) + 1 /\ DayOf(now) + crashes \in Nat
      BY <3>1
    <3>5. MaxLimit(t) * (DayOf(now) + 1 + crashes) = Earlier(t) + MaxLimit(t)
      BY <3>1, <3>4, OneMore DEF Earlier
    <3> QED
      BY <3>3, <3>5 DEF Moved
  <2> QED
    BY <2>1 DEF OutflowWithinLimits
<1> QED
  BY <1>1, OutflowInit, OutflowStep, PTL DEF Spec
=============================================================================
