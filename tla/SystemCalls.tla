----------------------------- MODULE SystemCalls -----------------------------
(***************************************************************************)
(* System calls and the state they leave (src/evm/factory.rs               *)
(* transact_system_call, src/gnosis.rs).                                   *)
(*                                                                         *)
(* The EVM runs a call from SYSTEM_ADDRESS as if it were a transaction, so *)
(* its state diff holds more than the call has done: the caller with a     *)
(* nonce of one more, the beneficiary and the fee collector.  The clean-up *)
(* takes that out again and keeps SYSTEM_ADDRESS in the state, although it *)
(* is an empty account, which EIP-161 would have purged.                   *)
(*                                                                         *)
(* The contracts are external: a call adds to the storage of the contract, *)
(* which is counted, and may pay out of its balance.                       *)
(***************************************************************************)
EXTENDS Integers, FiniteSetsExt

CONSTANTS Accounts,       \* the accounts whose state is watched
          SystemAddress,  \* the caller of system calls
          FeeCollector,   \* the account that is paid what Ethereum burns
          Contracts,      \* the contracts that system calls go to
          Deployed        \* those of them that have code

ASSUME SystemCallsAssumption ==
  /\ IsFiniteSet(Accounts)
  /\ {SystemAddress, FeeCollector} \subseteq Accounts
  /\ SystemAddress # FeeCollector
  /\ Contracts \subseteq Accounts \ {SystemAddress}
  /\ Deployed \subseteq Contracts

\* present: is SYSTEM_ADDRESS in the state?
WorldType ==
  [balance : [Accounts -> Nat], nonce : [Accounts -> Nat],
   storage : [Contracts -> Nat], present : BOOLEAN]

Total(amounts) == MapThenSumSet(LAMBDA a : amounts[a], Accounts)

Nothing == [a \in Accounts |-> 0]

\* What the code of a contract does when it is called.
Effect(mark, pays) == [mark |-> mark, pays |-> pays]

-----------------------------------------------------------------------------
(* The diff of a call, its clean-up, and the commit.                       *)

StorageOf(w, a) == IF a \in Contracts THEN w.storage[a] ELSE 0

InfoOf(w, a) ==
  [balance |-> w.balance[a], nonce |-> w.nonce[a], storage |-> StorageOf(w, a)]

\* transact: the accounts the EVM touches, as it leaves them.
TransactedDiff(w, contract, effect, coinbase) ==
  LET paid    == {a \in Accounts : effect.pays[a] > 0}
      touched == {SystemAddress, contract, coinbase, FeeCollector} \cup paid
  IN  [a \in touched |->
        [balance |-> w.balance[a] + effect.pays[a]
                       - (IF a = contract THEN Total(effect.pays) ELSE 0),
         nonce   |-> w.nonce[a] + (IF a = SystemAddress THEN 1 ELSE 0),
         storage |-> StorageOf(w, a) + (IF a = contract THEN effect.mark ELSE 0)]]

\* Slip: the purge of EIP-161, SYSTEM_ADDRESS is not kept.
CleanUpPurging(diff, w, coinbase) ==
  [a \in DOMAIN diff \ {coinbase, FeeCollector, SystemAddress} |-> diff[a]]

CleanUp(diff, w, coinbase) ==
  [a \in DOMAIN diff \ {coinbase, FeeCollector} |->
     IF a = SystemAddress THEN InfoOf(w, a) ELSE diff[a]]

TransactSystemCall(w, contract, effect, coinbase) ==
  CleanUp(TransactedDiff(w, contract, effect, coinbase), w, coinbase)

CommitDiff(w, diff) ==
  [balance |-> [a \in Accounts |-> IF a \in DOMAIN diff THEN diff[a].balance ELSE w.balance[a]],
   nonce   |-> [a \in Accounts |-> IF a \in DOMAIN diff THEN diff[a].nonce ELSE w.nonce[a]],
   storage |-> [c \in Contracts |-> IF c \in DOMAIN diff THEN diff[c].storage ELSE w.storage[c]],
   present |-> w.present \/ SystemAddress \in DOMAIN diff]

\* A system call whose diff is committed whatever the call returns.
SystemCallAndCommit(w, contract, effect, coinbase) ==
  CommitDiff(w, TransactSystemCall(w, contract, effect, coinbase))

-----------------------------------------------------------------------------
(* The call of the block rewards contract.                                 *)

\* Slip: the rewards are paid although the call was dropped from the diff.
RewardCallWithoutCheck(w, contract, rewards, coinbase) ==
  [world   |-> SystemCallAndCommit(w, contract, Effect(Total(rewards), Nothing), coinbase),
   rewards |-> rewards]

\* The contract answers with rewards, and its storage has their total.  When
\* it has no code, or was dropped from the diff, there are no rewards and the
\* diff is not committed.
RewardCall(w, contract, rewards, coinbase) ==
  LET diff == TransactSystemCall(w, contract, Effect(Total(rewards), Nothing), coinbase)
  IN  IF contract \in Deployed \cap DOMAIN diff
      THEN [world |-> CommitDiff(w, diff), rewards |-> rewards]
      ELSE [world |-> w, rewards |-> Nothing]

IncrementBalances(w, rewards) ==
  [w EXCEPT !.balance = [a \in Accounts |-> @[a] + rewards[a]]]
=============================================================================
