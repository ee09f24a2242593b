---------------------------- MODULE MCAuraRecovery ----------------------------
(***************************************************************************)
(* Instances of AuraRecovery for TLC.                                      *)
(***************************************************************************)
EXTENDS AuraRecovery

CONSTANTS v1, v2, v3, c1

MCValidators == {v1, v2, v3}
MCContracts  == {c1}
None         == {}

SetsPosdao   == 0 :> ContractKind(c1)
GenesisTwo   == [c \in MCContracts |-> <<v1, v2>>]

Reordered    == {<<v2, v1>>, <<v2, v3>>}
RewardOnly   == {"reward"}
ReceiptsOnly == {"receipts"}
=============================================================================
