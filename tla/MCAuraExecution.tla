---------------------------- MODULE MCAuraExecution ----------------------------
(***************************************************************************)
(* Instances of AuraExecution for TLC.                                     *)
(***************************************************************************)
EXTENDS AuraExecution, TLC

CONSTANTS v1, v2, v3, c1, c2

MCValidators == {v1, v2, v3}
MCContracts  == {c1, c2}

None        == {}
OnlyC1      == {c1}

\* one contract from genesis, POSDAO throughout
SetsPosdao == 0 :> ContractKind(c1)

\* Gnosis in small: a list, a contract, and a second contract at the POSDAO block
SetsGnosis ==
  (0 :> ListKind(<<v1, v2>>)) @@ (1 :> ContractKind(c1)) @@ (5 :> ContractKind(c2))

GenesisThree == [c \in MCContracts |-> <<v1, v2, v3>>]
GenesisApart == (c1 :> <<v1, v2>>) @@ (c2 :> <<v1, v2, v3>>)

Shrinks  == {<<v1, v2>>}
Rotates  == {<<v2, v3>>, <<v1, v2, v3>>}
\* majorities of two and of one
Reshapes == {<<v2, v3>>, <<v1>>}

RewardOnly   == {"reward"}

AtTurns      == {1, 4}
AtCall       == {"at_call"}
OutsiderV1   == {v1}
Overlapping  == {"overlapping"}
=============================================================================
