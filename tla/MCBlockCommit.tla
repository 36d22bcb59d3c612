--------------------------- MODULE MCBlockCommit ---------------------------
(* Instances of BlockCommit for TLC. *)
EXTENDS BlockCommit

Transfer(id, from, to, nonce, tip, fee, gas, used, reverts) ==
    [id |-> id, from |-> from, to |-> to, nonce |-> nonce, tip |-> tip, fee |-> fee,
     gas |-> gas, used |-> used, value |-> 1, reverts |-> reverts]

MCAddress == {"a", "b", "c"}
MCCoinbase == [c \in Committer |-> IF c = "producer" THEN "c" ELSE "a"]

(* Two nonces of one sender, the second reverts; a replacement of the first. *)
MCTx ==
    {Transfer(1, "a", "b", 0, 1, 9, 1, 1, FALSE),
     Transfer(2, "a", "b", 1, 2, 10, 2, 1, TRUE),
     Transfer(3, "a", "a", 0, 3, 12, 2, 2, FALSE)}

(* The second nonce of one sender pays more than another sender, and that  *)
(* one more than the first nonce.                                          *)
MCTxOrder ==
    {Transfer(1, "a", "b", 0, 1, 9, 1, 1, FALSE),
     Transfer(2, "a", "b", 1, 3, 10, 1, 1, FALSE),
     Transfer(4, "b", "a", 0, 2, 10, 1, 1, FALSE)}

(* A peer sends a block of its own transaction order. *)
MCPeerBodies == {<<tx>> : tx \in {t \in Tx : t.id = 3}}
=============================================================================
