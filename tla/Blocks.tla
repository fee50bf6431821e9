------------------------------- MODULE Blocks -------------------------------
(***************************************************************************)
(* The block universe of a Block Collider node and the pure tests that the *)
(* multiverse (bc/multiverse.es6, bc/validation.es6) applies to it.  What  *)
(* a block contains is a constant table; the arithmetic that relates two   *)
(* neighbouring blocks is abstracted to two constant relations.            *)
(***************************************************************************)
EXTENDS Naturals

CONSTANTS
  Block,          \* the Block Collider blocks of the instance
  Genesis,        \* the genesis block (getGenesisBlock)
  Unknown,        \* a previous hash that names no block of the instance
  Key,            \* keys "<chain>.block.<height>" of rovered headers
  Content,        \* the fields of each block that the node looks at
  DistanceFits,   \* <<p, b>>: validateSequenceTotalDistance(p, b)
  DifficultyFits, \* <<p, b>>: validateSequenceDifficulty(p, b)
  Lag,            \* a child may be this much older than its parent (3 s)
  BlockTtl,       \* age at which a block stops being next (27 s)
  LockTtl,        \* age at which the sync lock is stale (31 s)
  StaleAfter      \* age at which the local tip is stale (32 s)

(***************************************************************************)
(* weight is childrenHeightSum, the sum of the rovered heights; newest is  *)
(* the timestamp of the newest rovered header; keys are the headers.       *)
(***************************************************************************)
Fields == [height : Nat \ {0}, prev : Block \cup {Unknown}, distance : Nat,
           stamp : Nat, weight : Nat, newest : Nat, keys : SUBSET Key]

ASSUME BlocksAssumption ==
  /\ Genesis \in Block /\ Unknown \notin Block
  /\ Content \in [Block -> Fields]
  /\ DistanceFits \subseteq Block \X Block
  /\ DifficultyFits \subseteq Block \X Block

ASSUME ClockAssumption ==
  /\ {Lag, BlockTtl, LockTtl, StaleAfter} \subseteq Nat
  /\ Lag < BlockTtl /\ BlockTtl < LockTtl /\ LockTtl < StaleAfter

(***************************************************************************)
(* bc/genesis.raw: height 1, total distance "1", timestamp 0.  A block     *)
(* made on top of it has a greater height and no smaller total distance.   *)
(***************************************************************************)
ASSUME GenesisAssumption ==
  /\ Content[Genesis].prev = Unknown
  /\ \A b \in Block : /\ Content[b].height = 1 <=> b = Genesis
                      /\ Content[b].distance >= Content[Genesis].distance

Height(b) == Content[b].height
Prev(b) == Content[b].prev
Distance(b) == Content[b].distance
Stamp(b) == Content[b].stamp
Weight(b) == Content[b].weight
Newest(b) == Content[b].newest
Keys(b) == Content[b].keys

(***************************************************************************)
(* Multiverse.addNextBlock after its two reads: every test before the      *)
(* comparison of the previous hash, on the latest block cur it read.       *)
(***************************************************************************)
NextTests(b, cur, now) ==
  /\ Height(b) # 1
  /\ Height(b) = Height(cur) + 1
  /\ Weight(b) >= Weight(cur)
  /\ Weight(b) = Weight(cur) => Newest(b) >= Newest(cur)
  /\ <<cur, b>> \in DistanceFits
  /\ <<cur, b>> \in DifficultyFits
  /\ Distance(b) >= Distance(cur)
  /\ Stamp(b) + Lag > Stamp(cur)
  /\ Stamp(b) + BlockTtl >= now

(***************************************************************************)
(* Multiverse.isSyncLockActive: the lock is a block; genesis means open.   *)
(* Its age is measured from the timestamp of the block that holds it.      *)
(***************************************************************************)
LockOpen(lock) == Height(lock) = 1
LockStale(lock, now) == ~LockOpen(lock) /\ Stamp(lock) + LockTtl < now

(***************************************************************************)
(* Multiverse.addResyncRequest after its reads: the verdict on a block     *)
(* that is not next, with the tip cur it read and the length of the        *)
(* multiverse.  "ask" is a verdict that waits for validateRoveredBlocks.   *)
(***************************************************************************)
GrowsAboveGenesis(b, cur) == Height(cur) = 1 /\ Height(b) > 1
BeatsStaleTip(b, cur, now) == Stamp(cur) + StaleAfter < now
                              /\ Distance(cur) < Distance(b)
BeatsShortMultiverse(b, cur, len) ==
  len < 2 /\ Distance(cur) < Distance(b) /\ Weight(cur) < Weight(b)
LighterButNotWorse(b, cur) ==
  Distance(b) >= Distance(cur) /\ Weight(b) <= Weight(cur)

ResyncVerdict(b, cur, now, len) ==
  IF len = 0 \/ GrowsAboveGenesis(b, cur) THEN "approve"
  ELSE IF b = cur THEN "refuse"
  ELSE IF BeatsStaleTip(b, cur, now) THEN "approve"
  ELSE IF BeatsShortMultiverse(b, cur, len) \/ LighterButNotWorse(b, cur)
       THEN "ask"
  ELSE "refuse"
=============================================================================
