----------------------------- MODULE ChainForks -----------------------------
(***************************************************************************)
(* Chain specifications: the hard forks of a genesis, what is active where *)
(* and the fork identifiers (src/spec/gnosis_spec.rs, src/evm_config.rs).  *)
(*                                                                         *)
(* A genesis is a record: at, the point of every fork it names (a block    *)
(* number, or a time); merge, the block of the merge, or None.  A fork     *)
(* hash, the checksum of the genesis hash and of the points applied to it, *)
(* is the sequence of these points.                                        *)
(***************************************************************************)
EXTENDS Integers, Sequences, SequencesExt, FiniteSetsExt

CONSTANTS GenesisTime, None

\* The hard forks in the order in which the specification lists them.
BlockForks ==
  <<"homestead", "dao", "tangerine", "spurious_dragon", "byzantium",
    "constantinople", "petersburg", "istanbul", "posdao", "berlin", "london">>

TimeForks == <<"shanghai", "cancun", "prague", "balancer", "osaka">>

Condition(kind, point) == [kind |-> kind, point |-> point]

\* The members of a sequence that are in a set, in their order.
Picked(seq, S) == FoldLeft(LAMBDA t, x : IF x \in S THEN Append(t, x) ELSE t, <<>>, seq)

Conditions(g, kind, names) ==
  LET named == Picked(names, DOMAIN g.at)
  IN  [i \in DOMAIN named |-> Condition(kind, g.at[named[i]])]

\* Slip: the fork of Gnosis' own is not among the conditions.
ForksIterOfEthereum(g) ==
  Conditions(g, "block", BlockForks)
    \o Conditions(g, "time", Picked(TimeForks, Range(TimeForks) \ {"balancer"}))

\* forks_iter.  The merge, whose fork block is left out, is no fork point.
ForksIter(g) == Conditions(g, "block", BlockForks) \o Conditions(g, "time", TimeForks)

-----------------------------------------------------------------------------
(* What is active.                                                         *)

ActiveAt(g, fork, here) == fork \in DOMAIN g.at /\ g.at[fork] <= here

ParisActiveAtBlock(g, number) == g.merge # None /\ g.merge <= number

PreMergeSpecs ==
  <<"frontier", "homestead", "tangerine", "spurious_dragon", "byzantium",
    "constantinople", "petersburg", "istanbul", "berlin", "london">>

SpecIds == PreMergeSpecs \o <<"merge", "shanghai", "cancun", "prague", "osaka">>

SpecAtLeast(spec, since) ==
  \E i, j \in DOMAIN SpecIds : i <= j /\ SpecIds[i] = since /\ SpecIds[j] = spec

\* The last of the names whose fork is active; the first is so from the start.
LatestActive(g, names, here) ==
  names[Max({1} \cup {i \in DOMAIN names : ActiveAt(g, names[i], here)})]

\* revm_spec_by_timestamp_and_block_number, of reth.
RevmSpecByTimestampAndBlockNumber(g, timestamp, number) ==
  LET byTime == LatestActive(g, <<"merge", "shanghai", "cancun", "prague", "osaka">>, timestamp)
  IN  IF byTime # "merge" \/ ParisActiveAtBlock(g, number)
      THEN byTime ELSE LatestActive(g, PreMergeSpecs, number)

\* The header's format decides, the merge of the genesis is not asked.
GnosisRevmSpec(g, header) ==
  IF header.preMerge
  THEN LatestActive(g, PreMergeSpecs, header.number)
  ELSE RevmSpecByTimestampAndBlockNumber(g, header.timestamp, header.number)

-----------------------------------------------------------------------------
(* Fork identifiers.                                                       *)

PointsOf(g, kind) ==
  LET chosen == Picked(ForksIter(g), [kind : {kind}, point : Nat])
  IN  [i \in DOMAIN chosen |-> chosen[i].point]

\* The points up to the first that is not reached, and that one (0: there is
\* none).
Reached(points, here) ==
  LET ahead == {i \in DOMAIN points : points[i] > here}
  IN  IF ahead = {} THEN points ELSE SubSeq(points, 1, Min(ahead) - 1)

Upcoming(points, here) ==
  LET ahead == {i \in DOMAIN points : points[i] > here}
  IN  IF ahead = {} THEN 0 ELSE points[Min(ahead)]

CurrentApplied(hash) == IF hash = <<>> THEN 0 ELSE Last(hash)

\* Slip: every fork is added, although several share a point.
AddAllPoints(hash, points) == hash \o points

\* Forks at one point are added once, those of the genesis block not at all.
AddPoints(hash, points) ==
  FoldLeft(LAMBDA h, p : IF p = CurrentApplied(h) THEN h ELSE Append(h, p), hash, points)

\* fork_id: block forks first, and the time forks after genesis when none of
\* those is ahead.
ForkId(g, head) ==
  LET blocks == PointsOf(g, "block")
      times  == Picked(PointsOf(g, "time"), {t \in Nat : t > GenesisTime})
      hash   == AddPoints(<<>>, Reached(blocks, head.number))
      next   == Upcoming(blocks, head.number)
  IN  IF next # 0
      THEN [hash |-> hash, next |-> next]
      ELSE [hash |-> AddPoints(hash, Reached(times, head.timestamp)),
            next |-> Upcoming(times, head.timestamp)]

\* What fork_filter gives to ForkFilter::new, which sorts it: blocks first.
ForkFilterKeys(g) ==
  LET keys == {c \in Range(ForksIter(g)) :
                 IF c.kind = "block" THEN c.point > 0 ELSE c.point > GenesisTime}
      Before(c, d) == IF c.kind = d.kind THEN c.point < d.point ELSE c.kind = "block"
  IN  [i \in 1..Cardinality(keys) |->
        CHOOSE c \in keys : Cardinality({d \in keys : Before(d, c)}) = i - 1]

\* ForkFilter, of alloy: the hash at each key, those that are past, and the
\* first that is not.
ForkFilter(g, head) ==
  LET keys   == ForkFilterKeys(g)
      hashes == [i \in 0..Len(keys) |-> [j \in 1..i |-> keys[j].point]]
      isPast == [i \in 0..Len(keys) |->
                   i = 0 \/ keys[i].point <= (IF keys[i].kind = "block" THEN head.number
                                                                       ELSE head.timestamp)]
      past   == {i \in 0..Len(keys) : isPast[i]}
      ahead  == {i \in 0..Len(keys) : ~isPast[i]}
  IN  [head   |-> head,
       keys   |-> keys,
       hashes |-> hashes,
       past   |-> past,
       id     |-> [hash |-> hashes[Max(past)],
                   next |-> IF ahead = {} THEN 0 ELSE keys[Min(ahead)].point]]

\* The rules of EIP-2124 in their order: the same hash, and a next fork that is
\* not passed (a number that looks like a time is one); an earlier hash, and the
\* fork that did follow it; a later hash.
Accepts(f, id) ==
  LET here  == IF id.next > GenesisTime THEN f.head.timestamp ELSE f.head.number
      same  == f.id.hash = id.hash
      older == {i \in f.past : f.hashes[i] = id.hash /\ \E j \in f.past : j > i}
      follower(i) == f.keys[Min({j \in f.past : j > i})].point
  IN  \/ same /\ (id.next = 0 \/ here < id.next)
      \/ ~same /\ older # {} /\ id.next = follower(Min(older))
      \/ /\ ~same /\ older = {}
         /\ \E i \in DOMAIN f.hashes \ f.past : f.hashes[i] = id.hash
=============================================================================
