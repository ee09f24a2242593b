---------------------------- MODULE ValidatorChange ----------------------------
(***************************************************************************)
(* What POSDAO promises about a change of the validator set, block by      *)
(* block and without a tracker: an announced set becomes active at the     *)
(* first block whose ancestors since the announcement, the announcing      *)
(* block included, were sealed by more than half of the active set.  An    *)
(* announcement made while one is open replaces the announced set, not the *)
(* support.  AuraExecution implements this (docs/aura-reference.md).       *)
(***************************************************************************)
EXTENDS Naturals, Sequences, FiniteSets, Functions

CONSTANTS Validators, Genesis, NewSets

VARIABLES
  active,     \* the validators in force
  announced,  \* is a change announced and not active yet
  next,       \* the set announced last
  support     \* who sealed since the first open announcement

vars == <<active, announced, next, support>>

Init ==
  /\ active = Genesis
  /\ announced = FALSE
  /\ next = Genesis
  /\ support = {}

Due == announced /\ Cardinality(support \cap Range(active)) * 2 > Len(active)

\* a block that changes the set in force must, and only then may, do so
Activate ==
  /\ Due
  /\ active' = next
  /\ announced' = FALSE
  /\ support' = {}
  /\ UNCHANGED next

\* an ordinary block
Seal(signer) ==
  /\ ~Due
  /\ support' = IF announced THEN support \cup {signer} ELSE {}
  /\ UNCHANGED <<active, announced, next>>

\* a block that announces a change
SealAndAnnounce(signer, newSet) ==
  /\ ~Due
  /\ announced' = TRUE
  /\ next' = newSet
  /\ support' = support \cup {signer}
  /\ UNCHANGED active

Next ==
  \/ Activate
  \/ \E signer \in Validators :
       \/ Seal(signer)
       \/ \E newSet \in NewSets : SealAndAnnounce(signer, newSet)

Spec == Init /\ [][Next]_vars
=============================================================================
