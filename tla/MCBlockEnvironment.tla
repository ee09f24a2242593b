------------------------- MODULE MCBlockEnvironment -------------------------
(* Four chain specifications: one like Gnosis, with forks before and after    *)
(* its merge and one of its own among both; one like Chiado, whose block      *)
(* forks are all in the genesis block and whose first time forks coincide;    *)
(* one that is after the merge from the start and enters Prague directly;     *)
(* and one that never merges.                                                 *)
EXTENDS BlockEnvironment

Genesis(at, merge, rewards, rewriteAt, last) ==
  [at |-> at, merge |-> merge, rewards |-> rewards, defaultReward |-> "reward",
   rewriteAt |-> rewriteAt, last |-> last]

GnosisForks ==
  [homestead |-> 0, byzantium |-> 0, constantinople |-> 1, petersburg |-> 2,
   istanbul |-> 3, posdao |-> 4, berlin |-> 5, london |-> 5,
   shanghai |-> 107, cancun |-> 108, prague |-> 110, balancer |-> 111, osaka |-> 113]

ChiadoForks ==
  [homestead |-> 0, byzantium |-> 0, constantinople |-> 0, petersburg |-> 0,
   istanbul |-> 0, berlin |-> 0, london |-> 0,
   shanghai |-> 104, cancun |-> 104, prague |-> 107]

DevnetForks == [london |-> 0, shanghai |-> 101, cancun |-> 103, prague |-> 103]

OldForks == [homestead |-> 1, byzantium |-> 3, constantinople |-> 4]

MCGeneses ==
  {Genesis(GnosisForks, 5, [n \in {1, 4} |-> IF n = 1 THEN "old_reward" ELSE "reward"], 3, 9),
   Genesis(ChiadoForks, 2, [n \in {1} |-> "reward"], None, 6),
   Genesis(DevnetForks, 0, <<>>, None, 5),
   Genesis(OldForks, None, <<>>, None, 5)}
=============================================================================
