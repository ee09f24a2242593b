----------------------------- MODULE ValidatorSet -----------------------------
(***************************************************************************)
(* The block-keyed validator sets of an AuRa chain                         *)
(* (src/aura/validators.rs) and the rule that decides at which blocks a    *)
(* newly activated contract gets its finalizeChange() call                 *)
(* (src/evm_config.rs).  sets is a function from activation blocks to      *)
(* kinds; a kind is a list of addresses or a contract.                     *)
(***************************************************************************)
EXTENDS Naturals, Sequences, Functions, AuraAddress

ListKind(addresses)  == [type |-> "list", list |-> addresses, contract |-> NoAddress]
ContractKind(address) == [type |-> "contract", list |-> <<>>, contract |-> address]
NoKind == [type |-> "none", list |-> <<>>, contract |-> NoAddress]

(***************************************************************************)
(* kind_at: the kind of the highest activation block <= n.                 *)
(***************************************************************************)
KindAt(sets, n) ==
  LET active == {b \in DOMAIN sets : b <= n}
  IN IF active = {} THEN NoKind
     ELSE sets[CHOOSE b \in active : \A c \in active : c <= b]

\* try_get_list_validators: whether a static list is in force, and the list
HasListAt(sets, n) == KindAt(sets, n).type = "list"
ListAt(sets, n)    == KindAt(sets, n).list

\* contract_address_at: NoAddress when a list, or nothing, is in force
ContractAddressAt(sets, n) == KindAt(sets, n).contract

(***************************************************************************)
(* expected_proposer: round robin over the list, NoAddress if it is empty. *)
(***************************************************************************)
ExpectedProposer(step, validators) ==
  IF validators = <<>> THEN NoAddress
  ELSE validators[(step % Len(validators)) + 1]

(***************************************************************************)
(* compute_finalize_change_address_from_validators: the contract to call   *)
(* at block n because a list gave way to it: n is the first block after    *)
(* the activation block.  A contract that replaces a contract is not       *)
(* called.                                                                 *)
(***************************************************************************)
ComputeFinalizeChangeAddress(sets, n) ==
  LET current == ContractAddressAt(sets, n)
      due == \/ n = 0
             \/ /\ n >= 2
                /\ ContractAddressAt(sets, n - 1) = current
                /\ ContractAddressAt(sets, n - 2) = NoAddress
  IN IF due THEN current ELSE NoAddress
=============================================================================
