------------------------------ MODULE ChainTree ------------------------------
(***************************************************************************)
(* The block tree of the full-chain library (src/blockchain, src/coins).   *)
(* A block is known by its parent, its cumulative work, the coins it       *)
(* creates and the coins it spends; transactions are not kept apart.  The  *)
(* tables Path and Unspent are determined by the others: the assumption    *)
(* ReferenceAssumption says how.                                           *)
(***************************************************************************)
EXTENDS Naturals

CONSTANTS
  Block,    \* the blocks of the instance
  Genesis,  \* the genesis block of the network
  Parent,   \* prevBlock of every block but genesis
  Height,   \* height of the chain entry of a block
  Chainwork, \* chainwork, the work of a block and of all its ancestors
  Coin,     \* outpoints
  Creates,  \* the spendable outputs a block creates
  Spends,   \* the outputs a block spends, its own included
  Bad,      \* blocks that fail Chain.verify whatever the coins are
  Path,     \* a block and its ancestors
  Unspent,  \* the coins that are unspent after a block
  None      \* no block

Ancestors(b) == Path[Parent[b]]

ASSUME TreeAssumption ==
  /\ Genesis \in Block /\ None \notin Block
  /\ Parent \in [Block \ {Genesis} -> Block]
  /\ Height \in [Block -> Nat] /\ Chainwork \in [Block -> Nat]
  /\ Height[Genesis] = 0
  /\ \A b \in Block \ {Genesis} : /\ Height[b] = Height[Parent[b]] + 1
                                  /\ Chainwork[b] > Chainwork[Parent[b]]

ASSUME CoinAssumption ==
  /\ Creates \in [Block -> SUBSET Coin] /\ Spends \in [Block -> SUBSET Coin]
  /\ Bad \subseteq Block

(***************************************************************************)
(* What Path and Unspent are: the reference the stored chain is compared   *)
(* with.  The coinbase of genesis is unspendable.                          *)
(***************************************************************************)
ASSUME ReferenceAssumption ==
  /\ Path \in [Block -> SUBSET Block] /\ Unspent \in [Block -> SUBSET Coin]
  /\ Path[Genesis] = {Genesis} /\ Unspent[Genesis] = {}
  /\ \A b \in Block \ {Genesis} :
       /\ Genesis \in Ancestors(b)
       /\ \A a \in Ancestors(b) : Height[a] < Height[b]
       /\ Path[b] = Ancestors(b) \cup {b}
       /\ Unspent[b] = (Unspent[Parent[b]] \cup Creates[b]) \ Spends[b]

(***************************************************************************)
(* Chain.verifyDuplicates and Chain.verifyInputs against a set of coins:   *)
(* no output that is still unspent is created again, and every input is    *)
(* unspent or an output of the same block.                                 *)
(***************************************************************************)
NoDuplicates(b, c) == Creates[b] \cap c = {}
InputsUnspent(b, c) == Spends[b] \subseteq c \cup Creates[b]

(***************************************************************************)
(* ChainDB.connectBlock and ChainDB.disconnectBlock on a set of coins,     *)
(* where u is the content of the undo record.                              *)
(***************************************************************************)
ConnectCoins(c, b) == (c \cup Creates[b]) \ Spends[b]
\* Mutant: the outputs of the block are removed before its inputs come back.
DisconnectCoinsOutputsFirst(c, b, u) == (c \ Creates[b]) \cup u

DisconnectCoins(c, b, u) == (c \cup u) \ Creates[b]

(***************************************************************************)
(* Chain.findFork walks both branches down by previous hashes: the blocks  *)
(* it visits, b excepted, and where it stops.                              *)
(***************************************************************************)
Fork(t, b) == CHOOSE f \in Path[t] \cap Path[b] :
                \A a \in Path[t] \cap Path[b] : Height[a] <= Height[f]
WalkedBy(t, b) == ((Path[t] \ Path[b]) \cup (Path[b] \ Path[t]) \cup {Fork(t, b)}) \ {b}
==============================================================================
