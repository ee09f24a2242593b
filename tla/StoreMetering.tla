---------------------------- MODULE StoreMetering ----------------------------
(***************************************************************************)
(* The gas of storage writes before Istanbul (src/evm/gnosis_evm.rs        *)
(* sstore_eip1283, src/evm_config.rs get_cfg_env, src/evm/factory.rs       *)
(* create_evm).                                                            *)
(*                                                                         *)
(* Gnosis had EIP-1283 at Constantinople, Ethereum had not.  Two places    *)
(* see to that: the configuration replaces the prices of a store and the   *)
(* factory the instruction.  A transaction writes one slot several times;  *)
(* what else it does is left out.  Gas is counted in hundreds.             *)
(***************************************************************************)
EXTENDS Integers

CONSTANTS Values,      \* what a slot may hold
          GasLimits,   \* the gas a transaction may have for its writes
          MaxWrites,   \* bound: the writes of a transaction
          NoTx

ASSUME StoreMeteringAssumption ==
  /\ 0 \in Values /\ Values \subseteq Nat
  /\ GasLimits \subseteq Nat /\ MaxWrites \in Nat

VARIABLE stores  \* the transaction under execution, or NoTx

-----------------------------------------------------------------------------
(* Prices and instruction, by the environment.                             *)

\* Slip: only the instruction is replaced.
GasParamsOfRevm(spec, isPreMerge) ==
  [static |-> 50, set |-> 150, reset |-> 0, setRefund |-> 150, resetRefund |-> 0,
   clear |-> 150]

\* get_cfg_env: revm's prices before Istanbul, and those of EIP-1283.
GasParams(spec, isPreMerge) ==
  IF spec = "constantinople" /\ isPreMerge
  THEN [static |-> 2, set |-> 198, reset |-> 48, setRefund |-> 198, resetRefund |-> 48,
        clear |-> 150]
  ELSE [static |-> 50, set |-> 150, reset |-> 0, setRefund |-> 150, resetRefund |-> 0,
        clear |-> 150]

\* create_evm: is sstore_eip1283 the instruction?
IsNetMetered(spec) == spec = "constantinople"

\* sstore_dynamic_gas and sstore_refund, of revm: original is the value before
\* the transaction, present the one before the write.
DynamicGas(params, net, original, present, new) ==
  IF ~net
  THEN IF present = 0 /\ new # 0 THEN params.set ELSE params.reset
  ELSE IF new = present \/ present # original THEN 0
  ELSE IF original = 0 THEN params.set ELSE params.reset

NetRefund(params, original, present, new) ==
  IF new = present THEN 0
  ELSE IF original = present /\ new = 0 THEN params.clear
  ELSE (IF original = 0 THEN 0
        ELSE IF present = 0 THEN -params.clear
        ELSE IF new = 0 THEN params.clear ELSE 0)
       + (IF original # new THEN 0
          ELSE IF original = 0 THEN params.setRefund ELSE params.resetRefund)

Refund(params, net, original, present, new) ==
  IF net THEN NetRefund(params, original, present, new)
  ELSE IF present # 0 /\ new = 0 THEN params.clear ELSE 0

-----------------------------------------------------------------------------
StoreInit == stores = NoTx

\* env: the specification of the block and whether it is before the merge.
BeginStores(env, original, limit) ==
  /\ stores = NoTx
  /\ stores' = [env |-> env, original |-> original, present |-> original,
                left |-> limit, spent |-> 0, refund |-> 0, writes |-> 0]

Cost(t, new) ==
  LET params == GasParams(t.env.spec, t.env.preMerge)
  IN  params.static
        + DynamicGas(params, IsNetMetered(t.env.spec), t.original, t.present, new)

\* The static gas is charged, the value stored, the rest charged by what the
\* store found, and the refund noted.
Sstore(t, new) ==
  LET params == GasParams(t.env.spec, t.env.preMerge)
  IN  [t EXCEPT !.present = new,
                !.left    = @ - Cost(t, new),
                !.spent   = @ + Cost(t, new),
                !.refund  = @ + Refund(params, IsNetMetered(t.env.spec),
                                       t.original, t.present, new),
                !.writes  = @ + 1]

Store(new) ==
  /\ stores # NoTx /\ stores.writes < MaxWrites
  /\ stores.left >= Cost(stores, new)
  /\ stores' = Sstore(stores, new)

\* The gas is short, before or after the value was stored: the transaction
\* halts, and none of its writes stays.
OutOfGas(new) ==
  /\ stores # NoTx /\ stores.writes < MaxWrites
  /\ stores.left < Cost(stores, new)
  /\ stores' = NoTx

EndStores == stores # NoTx /\ stores' = NoTx

StoreNext(envs) ==
  \/ \E env \in envs, original \in Values, limit \in GasLimits :
       BeginStores(env, original, limit)
  \/ \E new \in Values : Store(new) \/ OutOfGas(new)
  \/ EndStores

-----------------------------------------------------------------------------
(* Metering in any block before Istanbul, on its own.                      *)

Envs ==
  [spec : {"frontier", "homestead", "tangerine", "spurious_dragon", "byzantium",
           "constantinople", "petersburg"},
   preMerge : {TRUE}]

StoreSpec == StoreInit /\ [][StoreNext(Envs)]_stores

\* The types of a transaction's account of its writes; gas is never overdrawn.
StoresTypeOK ==
  stores # NoTx =>
    stores \in [env : Envs, original : Values, present : Values, left : Nat,
               spent : Nat, refund : Int, writes : Nat]

\* What EIP-1283 charges for all the writes of a transaction: by the value
\* before the transaction and the one after it, whatever was between.
NetCost(original, present) ==
  IF present = original THEN 0
  ELSE IF original = 0 THEN 198
  ELSE IF present = 0 THEN 48 - 150 ELSE 48

\* In Constantinople the writes of a transaction cost 200 gas each and beyond
\* that what the change of the slot costs from beginning to end, and what is to
\* be refunded is never less than nothing: the instruction of sstore_eip1283 and
\* the prices of get_cfg_env are halves of one rule.
NetMetering ==
  stores # NoTx /\ stores.env.spec = "constantinople" =>
    /\ stores.spent - stores.refund =
         2 * stores.writes + NetCost(stores.original, stores.present)
    /\ stores.refund >= 0
=============================================================================
