-------------------------- MODULE MCBlockExecution --------------------------
(* A chain from Berlin over the merge to Prague, in which ann signs up to    *)
(* three transactions of six kinds, in any order: a service transaction, one *)
(* below the base fee, two that pay it (a transfer and a tip), one with a    *)
(* blob, and one that touches SYSTEM_ADDRESS.  The default reward contract   *)
(* has no code, the one from block 2 on has.                                 *)
EXTENDS BlockExecution

MCAccounts ==
  {"ann", "author", "collector", "system", "no_reward", "reward", "deposit", "roots"}

MCContracts == {"no_reward", "reward", "deposit", "roots"}

MCDeployed == {"reward", "deposit", "roots"}

Tx(dynamic, price, tip, blobs, to, value) ==
  [from |-> "ann", nonce |-> 0, dynamic |-> dynamic, price |-> price,
   tip |-> tip, limit |-> 2, used |-> 1, blobs |-> blobs, to |-> to, value |-> value]

Kinds ==
  {Tx(FALSE, 0, 0, 0, None, 0),     Tx(FALSE, 1, 0, 0, None, 0),
   Tx(FALSE, 2, 0, 0, "author", 1), Tx(TRUE, 3, 2, 0, None, 0),
   Tx(TRUE, 2, 1, 1, None, 0),      Tx(FALSE, 2, 0, 0, "system", 0)}

MCTransactions == {[k EXCEPT !.nonce = n] : k \in Kinds, n \in 0..2}

MCForks == <<"berlin", "london", "shanghai", "cancun", "prague">>

MCGenesisBalance ==
  [a \in MCAccounts |-> CASE a = "ann" -> 12 [] a = "deposit" -> 1 [] OTHER -> 0]

NoReward == [a \in MCAccounts |-> 0]

MCRewards == {NoReward, [NoReward EXCEPT !["author"] = 1, !["ann"] = 1]}

MCPayouts == {NoReward, [NoReward EXCEPT !["ann"] = 1]}

MCRewardTransitions == [n \in {2} |-> "reward"]
=============================================================================
