------------------------------ MODULE MCBridge ------------------------------
(* Small instances of Bridge for TLC. *)
EXTENDS Bridge, TLC

CONSTANTS k1, k2, zbx

(* One request dated on each day, as large as the limit of a day once the  *)
(* fee is taken; days have two ticks, and it may be submitted early.       *)
Day(n) == [name |-> n, token |-> zbx, gross |-> 1000, source |-> 1, timestamp |-> 2 * n]

(* The fee on it is rounded down to nothing. *)
Small == [name |-> 3, token |-> zbx, gross |-> 99, source |-> 1, timestamp |-> 1]

(* It names another chain as its source. *)
Foreign == [Small EXCEPT !.name = 4, !.source = 2]

MCRequest == {Day(0), Day(1), Day(2), Small, Foreign}

Cfg(max, on) == [max_per_tx |-> max, daily_limit |-> 999, enabled |-> on]
MCDefault == [t \in Token |-> Cfg(999, TRUE)]
MCConfigs == {Cfg(500, TRUE)}

KeySymmetry == Permutations(Keys)
=============================================================================
