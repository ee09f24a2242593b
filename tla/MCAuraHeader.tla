----------------------------- MODULE MCAuraHeader -----------------------------
(***************************************************************************)
(* An instance of AuraHeader for TLC: a list, a longer list, a contract,   *)
(* and the merge.                                                          *)
(***************************************************************************)
EXTENDS AuraHeader, TLC

CONSTANTS v1, v2, v3, c1

MCSigners == {v1, v2, v3}

MCSets ==
  (0 :> ListKind(<<v1, v2>>)) @@ (2 :> ListKind(<<v3, v1, v2>>)) @@ (3 :> ContractKind(c1))

MCDifficulties == {0} \cup (MaxU128 - MaxStep)..(MaxU128 + MaxStep)
=============================================================================
