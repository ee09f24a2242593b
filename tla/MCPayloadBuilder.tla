-------------------------- MODULE MCPayloadBuilder --------------------------
(* Four transactions of two senders: ann's second and third depend on her   *)
(* first; ben's balance does not cover his transaction once its price rises *)
(* above what the block's base fee leaves him.                              *)
EXTENDS PayloadBuilder

MCAccounts == {"ann", "ben", "author", "collector", "system", "contract"}

Tx(from, nonce, dynamic, price, tip, limit, used, blobs) ==
  [from |-> from, nonce |-> nonce, dynamic |-> dynamic, price |-> price,
   tip |-> tip, limit |-> limit, used |-> used, blobs |-> blobs,
   to |-> None, value |-> 0]

MCTransactions ==
  {Tx("ann", 0, TRUE,  3, 2, 2, 1, 1),    \* its price does not cover its tip
   Tx("ann", 1, FALSE, 3, 0, 3, 2, 0),
   Tx("ben", 0, TRUE,  4, 1, 1, 1, 2),
   Tx("ben", 1, TRUE,  4, 1, 1, 1, 0)}

MCForks == <<"cancun", "osaka">>

MCGenesisBalance ==
  [a \in MCAccounts |-> CASE a = "ann" -> 25 [] a = "ben" -> 9 [] OTHER -> 0]

NoReward == [a \in MCAccounts |-> 0]

NoTransitions == [n \in {} |-> "contract"]

MCRewards == {NoReward, [NoReward EXCEPT !["ben"] = 1]}
=============================================================================
