--------------------------- MODULE PayloadBuilder ---------------------------
(***************************************************************************)
(* Building payloads on the head (src/payload.rs, src/payload_builder.rs). *)
(*                                                                         *)
(* A job builds a block again and again while the pool changes, each time  *)
(* by driving the executor of BlockExecution with the transactions the     *)
(* pool yields, and keeps the best outcome.  The engine then imports that  *)
(* outcome, and the next job starts while the pool may still know the      *)
(* state before it.  The pool, the blob store and the job that calls the   *)
(* builder are reth's: they are modelled by what this code may meet.       *)
(***************************************************************************)
EXTENDS BlockExecution

CONSTANTS MaxBlobCount,   \* the protocol's limit of blobs in a block
          MaxBlockSize,   \* the transactions that fit a block from Osaka on
          Beneficiaries   \* the fee recipients the engine may suggest

Formats == {"blob_proofs", "cell_proofs"}

\* The block of the executor, with the limits of a block.
BlockType ==
  [fork : Range(ForkOrder), coinbase : Accounts, world : WorldType,
   gas : 0..BlockGasLimit, blobs : 0..MaxBlobCount, txs : Seq(Transactions)]

BuildType ==
  [left : SUBSET Transactions, cumulative : Nat, blobs : Nat, fees : Nat,
   sidecars : Seq(Formats), failed : BOOLEAN]

PayloadType ==
  [coinbase : Beneficiaries, txs : Seq(Transactions), fees : Nat,
   sidecars : Seq(Formats), reward : Rewards]

ASSUME PayloadAssumption ==
  /\ MaxBlobCount \in Nat /\ MaxBlockSize \in Nat
  /\ Beneficiaries \subseteq Accounts
  /\ \A i \in DOMAIN Forks : Active(Forks[i], "cancun")
  /\ None \notin BlockType /\ None \notin BuildType /\ None \notin PayloadType

VARIABLES pool,      \* the transactions the pool offers
          sidecars,  \* the sidecars of the blob store: transaction -> format
          beneficiary,  \* the fee recipient of the job, or None
          build,     \* what the builder keeps beside the executor, or None
          best       \* the best payload of the job, or None

payloadVars == <<pool, sidecars, beneficiary, build, best>>

vars == <<execVars, payloadVars>>

IsBlob(tx) == tx.blobs > 0

-----------------------------------------------------------------------------
(* What the builder asks before it executes a transaction, and what it     *)
(* counts after.                                                           *)

\* mark_invalid: the transaction leaves the iterator with its descendants.
MarkInvalid(left, tx) ==
  {t \in left : ~(t.from = tx.from /\ t.nonce >= tx.nonce)}

\* skip_blobs: and so does every blob transaction.
SkipBlobs(left) ==
  {t \in left : \A s \in left :
     ~(IsBlob(s) /\ s.from = t.from /\ s.nonce <= t.nonce)}

Fits(b, tx) == b.cumulative + tx.limit <= BlockGasLimit

SizeFits(b, tx) == Active(NextFork, "osaka") => Len(block.txs) + 1 <= MaxBlockSize

\* Slip: one transaction too many passes.
BlobsFitUntilFull(b, tx) == IsBlob(tx) => b.blobs <= MaxBlobCount

BlobsFit(b, tx) == IsBlob(tx) => b.blobs + tx.blobs <= MaxBlobCount

\* The sidecar format that the fork of the next block asks for.
FormatInForce == IF Active(NextFork, "osaka") THEN "cell_proofs" ELSE "blob_proofs"

\* Slip: any sidecar will do.
HasSomeSidecar(tx) == IsBlob(tx) => tx \in DOMAIN sidecars

HasSidecar(tx) ==
  IsBlob(tx) => tx \in DOMAIN sidecars /\ sidecars[tx] = FormatInForce

\* Slip: the whole tip, although the price may not cover it.
UncappedMinerFee(tx) == IF tx.dynamic THEN tx.tip ELSE tx.price - BaseFee(NextFork)

MinerFee(tx) ==
  IF tx.dynamic THEN Min({tx.price - BaseFee(NextFork), tx.tip})
                ELSE tx.price - BaseFee(NextFork)

\* Slip: the gas limit is counted.
GasLimitOf(tx) == tx.limit

GasOf(tx) == tx.used

CountedIn(b, tx) ==
  LET blobs == b.blobs + tx.blobs
      left  == b.left \ {tx}
  IN  [left       |-> IF IsBlob(tx) /\ blobs = MaxBlobCount THEN SkipBlobs(left) ELSE left,
       cumulative |-> b.cumulative + GasOf(tx),
       blobs      |-> blobs,
       fees       |-> b.fees + MinerFee(tx) * GasOf(tx),
       sidecars   |-> IF IsBlob(tx) THEN Append(b.sidecars, sidecars[tx]) ELSE b.sidecars,
       failed     |-> FALSE]

IsBetter(fees) == best # None => fees > best.fees

-----------------------------------------------------------------------------
PBInit ==
  /\ Init
  /\ pool = {}
  /\ sidecars = <<>>
  /\ beneficiary = None
  /\ build = None
  /\ best = None

(* The pool and the blob store. *)

AddTransaction(tx, format) ==
  /\ tx \notin pool /\ ~NonceTooLow(world, tx)
  /\ pool' = pool \cup {tx}
  /\ sidecars' = IF IsBlob(tx)
                  THEN [t \in DOMAIN sidecars \cup {tx} |->
                          IF t = tx THEN format ELSE sidecars[t]]
                  ELSE sidecars
  /\ UNCHANGED <<execVars, beneficiary, build, best>>

DropSidecar(tx) ==
  /\ sidecars' = RestrictDomain(sidecars, LAMBDA t : t # tx)
  /\ UNCHANGED <<execVars, pool, beneficiary, build, best>>

\* The pool hears of the head and forgets what it can no longer offer.
Maintain ==
  /\ pool' = {tx \in pool : ~NonceTooLow(world, tx)}
  /\ pool' # pool
  /\ UNCHANGED <<execVars, sidecars, beneficiary, build, best>>

\* best_transactions_with_attributes: the descendants of a transaction that
\* does not pay the base fee are not offered either.
Offered ==
  {tx \in pool : \A t \in pool :
     t.from = tx.from /\ t.nonce <= tx.nonce => t.price >= BaseFee(NextFork)}

(* The job. *)

StartJob(coinbase) ==
  /\ beneficiary = None /\ number < Len(Forks)
  /\ beneficiary' = coinbase
  /\ UNCHANGED <<execVars, pool, sidecars, build, best>>

StartBuild ==
  /\ beneficiary # None /\ build = None
  /\ block' = NewBlock(NextFork, beneficiary)
  /\ build' = [left |-> Offered, cumulative |-> 0, blobs |-> 0, fees |-> 0,
               sidecars |-> <<>>, failed |-> FALSE]
  /\ UNCHANGED <<number, world, ledger, pool, sidecars, beneficiary, best>>

\* The iterator yields a transaction after those of its sender before it.
Yields(tx) ==
  /\ build # None /\ ~build.failed
  /\ tx \in build.left
  /\ \A t \in build.left : t.from = tx.from => tx.nonce <= t.nonce

Reject(tx) ==
  /\ build' = [build EXCEPT !.left = MarkInvalid(@, tx)]
  /\ UNCHANGED <<execVars, pool, sidecars, beneficiary, best>>

RejectForGas(tx) == Yields(tx) /\ ~Fits(build, tx) /\ Reject(tx)

RejectForSize(tx) ==
  Yields(tx) /\ Fits(build, tx) /\ ~SizeFits(build, tx) /\ Reject(tx)

RejectForBlobs(tx) ==
  /\ Yields(tx) /\ Fits(build, tx) /\ SizeFits(build, tx)
  /\ ~(BlobsFit(build, tx) /\ HasSidecar(tx))
  /\ Reject(tx)

\* The transaction goes to the executor.
Tried(tx) ==
  /\ Yields(tx) /\ Fits(build, tx) /\ SizeFits(build, tx)
  /\ BlobsFit(build, tx) /\ HasSidecar(tx)

Include(tx) ==
  /\ Tried(tx) /\ Executable(block, tx)
  /\ block' = CommitTransaction(block, tx)
  /\ build' = CountedIn(build, tx)
  /\ UNCHANGED <<number, world, ledger, pool, sidecars, beneficiary, best>>

\* A used nonce costs the transaction its place, any other fault those of its
\* descendants too; an error of the block itself ends the attempt.
Refused(tx) ==
  /\ Tried(tx) /\ ~Executable(block, tx)
  /\ build' = [build EXCEPT
       !.left = IF NonceTooLow(block.world, tx) THEN @ \ {tx} ELSE MarkInvalid(@, tx),
       !.failed = ~HasGasFor(block, tx)]
  /\ UNCHANGED <<execVars, pool, sidecars, beneficiary, best>>

\* Cancelled, failed or not better: the job keeps what it had.
EndBuild ==
  /\ build # None
  /\ build' = None
  /\ block' = None
  /\ UNCHANGED <<number, world, ledger, pool, sidecars, beneficiary, best>>

FinishPayload(reward) ==
  /\ build # None /\ ~build.failed /\ build.left = {}
  /\ IsBetter(build.fees)
  /\ best' = [coinbase |-> beneficiary, txs |-> block.txs, fees |-> build.fees,
              sidecars |-> build.sidecars, reward |-> reward]
  /\ build' = None
  /\ block' = None
  /\ UNCHANGED <<number, world, ledger, pool, sidecars, beneficiary>>

(* The engine takes the payload and, as any block, executes it. *)

Executed(payload) ==
  FoldLeft(CommitTransaction, NewBlock(NextFork, payload.coinbase), payload.txs)

ImportPayload ==
  /\ build = None /\ best # None
  /\ Adopt(Executed(best), Nothing, best.reward)
  /\ beneficiary' = None
  /\ best' = None
  /\ UNCHANGED <<block, pool, sidecars, build>>

PBNext ==
  \/ \E tx \in Transactions, format \in Formats : AddTransaction(tx, format)
  \/ \E tx \in DOMAIN sidecars : DropSidecar(tx)
  \/ Maintain
  \/ \E coinbase \in Beneficiaries : StartJob(coinbase)
  \/ StartBuild
  \/ \E tx \in Transactions : RejectForGas(tx)
  \/ \E tx \in Transactions : RejectForSize(tx)
  \/ \E tx \in Transactions : RejectForBlobs(tx)
  \/ \E tx \in Transactions : Include(tx)
  \/ \E tx \in Transactions : Refused(tx)
  \/ EndBuild
  \/ \E reward \in Rewards : FinishPayload(reward)
  \/ ImportPayload

PBSpec == PBInit /\ [][PBNext]_vars

-----------------------------------------------------------------------------
(* Properties.                                                             *)

\* The types of the state, with the limits of a block: the executor's gas
\* within the gas limit and its blobs within the protocol's (payload.rs, the
\* checks at the head of the loop).
TypeOK ==
  /\ number \in 0..Len(Forks)
  /\ world \in WorldType
  /\ ledger \in [issued : Nat, burnt : Nat, unpaid : Nat]
  /\ block \in BlockType \cup {None}
  /\ build \in BuildType \cup {None}
  /\ block = None <=> build = None
  /\ pool \subseteq Transactions
  /\ DOMAIN sidecars \subseteq Transactions /\ Range(sidecars) \subseteq Formats
  /\ beneficiary \in Beneficiaries \cup {None}
  /\ best \in PayloadType \cup {None}

\* The loop of default_ethereum_payload and the executor count the same gas and
\* the same blobs, each with counters of its own, so the executor never finds
\* the block too full for what the loop lets through: that error is fatal.
BuilderAgreesWithExecutor ==
  build # None =>
    /\ ~build.failed
    /\ build.cumulative = block.gas
    /\ build.blobs = block.blobs

\* The fees by which payloads are compared and which the engine API reports as
\* the value of the block (total_fees) are what its beneficiary earns by it, if
\* it has no other part in the block.
FeesAreEarned ==
  (build # None /\ beneficiary # FeeCollector
     /\ \A tx \in Range(block.txs) : beneficiary \notin {tx.from, tx.to}) =>
  build.fees = block.world.balance[beneficiary] - world.balance[beneficiary]

\* A block that the executor accepts on the head.
ValidPayload(payload) ==
  \A i \in DOMAIN payload.txs :
    Executable(Executed([payload EXCEPT !.txs = SubSeq(@, 1, i - 1)]), payload.txs[i])

\* What the builder keeps as its best payload is a block the same node accepts
\* when the engine hands it back, within the limits of gas and blobs, carrying
\* one sidecar of the fork's format for each blob transaction.
BestPayloadIsValid ==
  best # None =>
    /\ ValidPayload(best)
    /\ Executed(best).blobs <= MaxBlobCount
    /\ Len(best.sidecars) = Quantify(DOMAIN best.txs, LAMBDA i : IsBlob(best.txs[i]))
    /\ Range(best.sidecars) \subseteq {FormatInForce}
=============================================================================
