-------------------------------- MODULE Chain --------------------------------
(***************************************************************************)
(* The chain of the full-node library: Chain (blockchain/chain.js) over    *)
(* ChainDB (blockchain/chaindb.js).  Every operation runs under one lock   *)
(* with a queue (utils/lock.js); a step is what happens up to the next     *)
(* batch that is written to the database, so a stop or a failed write may  *)
(* come between any two of them.  No pruning, no checkpoints, no SPV.      *)
(***************************************************************************)
EXTENDS ChainTree, Sequences, FiniteSets

CONSTANTS
  Jobs,       \* what callers may ask: records of kind, block and form
  MaxQueue,   \* bound on the queue of the lock, its holder included
  MaxOrphans, \* options.maxOrphans
  Faults      \* whether batches fail and the process stops

Kinds == {"add", "reset", "replay", "invalidate"}
Forms == {"sound", "mutated"}  \* a mutated body keeps the hash of its block
Job == [kind : Kinds, block : Block, form : Forms]

ASSUME JobAssumption ==
  Jobs \subseteq Job /\ {MaxQueue, MaxOrphans} \subseteq Nat /\ Faults \in BOOLEAN

VARIABLES
  entries,  \* keys h, e and b: blocks stored
  tips,     \* keys p: heads of chains
  mainAt,   \* keys H: the main chain by height
  next,     \* keys n: the next block on the main chain
  coins,    \* keys c: unspent outputs
  undo,     \* keys u: what a block of the main chain spent
  best,     \* key R: the tip of the stored chain state
  tip,      \* Chain.tip
  invalid,  \* Chain.invalid
  orphans,  \* Chain.orphanMap and orphanPrev
  jobs,     \* Chain.locker: its holder and those that wait
  holder,   \* what the holder of the lock is doing
  cut,      \* history: a reorganization ended before it was complete
  torn      \* history: a reset failed after it had removed a block

disk == <<entries, tips, mainAt, next, coins, undo, best>>
vars == <<disk, tip, invalid, orphans, jobs, holder, cut, torn>>

Idle == [at |-> "idle", block |-> None, form |-> "sound", moved |-> FALSE]

(***************************************************************************)
(* A connect that has disconnected or reconnected a block has moved.       *)
(***************************************************************************)
HolderRecord ==
  [at : {"connect"}, block : Block \ {Genesis}, form : Forms, moved : BOOLEAN]
    \cup [at : {"blocks"}, block : Block, form : Forms, moved : BOOLEAN]

Orphan == [block : Block \ {Genesis}, form : Forms]

TypeOK ==
  /\ entries \in SUBSET Block /\ tips \in SUBSET Block
  /\ mainAt \in [{Height[b] : b \in Block} -> Block \cup {None}]
  /\ next \in [Block -> Block \cup {None}]
  /\ coins \in SUBSET Coin /\ undo \in [Block -> SUBSET Coin]
  /\ best \in Block /\ tip \in Block /\ invalid \in SUBSET Block
  /\ orphans \in SUBSET Orphan
  /\ jobs \in Seq(Jobs) /\ holder \in HolderRecord \cup {Idle}
  /\ holder # Idle => jobs # <<>>
  /\ cut \in BOOLEAN /\ torn \in BOOLEAN

(***************************************************************************)
(* ChainDB.open on a fresh database writes genesis; Chain._open takes the  *)
(* tip from the stored state.                                              *)
(***************************************************************************)
Init ==
  /\ entries = {Genesis} /\ tips = {Genesis} /\ best = Genesis /\ tip = Genesis
  /\ mainAt = [h \in {Height[b] : b \in Block} |-> IF h = 0 THEN Genesis ELSE None]
  /\ next = [b \in Block |-> None]
  /\ coins = {} /\ undo = [b \in Block |-> {}]
  /\ invalid = {} /\ orphans = {} /\ jobs = <<>> /\ holder = Idle
  /\ cut = FALSE /\ torn = FALSE

------------------------------------------------------------------------------
(***************************************************************************)
(* The lock hands over to the next job in the same step that releases it.  *)
(***************************************************************************)
Submit(j) ==
  /\ Len(jobs) < MaxQueue
  /\ jobs' = Append(jobs, j)
  /\ UNCHANGED <<disk, tip, invalid, orphans, holder, cut, torn>>

Finish == jobs' = Tail(jobs) /\ holder' = Idle

HasPending(b) == \E i \in 2..Len(jobs) : jobs[i].kind = "add" /\ jobs[i].block = b
HasOrphan(b) == \E o \in orphans : o.block = b
HasInvalid(b) == b \in invalid \/ Parent[b] \in invalid

(***************************************************************************)
(* ChainDB.isMainHash and isMainChain, with cold caches.                   *)
(***************************************************************************)
IsMain(b) == b = Genesis \/ b = best \/ next[b] # None

Starts(kinds) == holder = Idle /\ jobs # <<>> /\ Head(jobs).kind \in kinds

Unseen(b) == b # Genesis /\ ~HasPending(b) /\ ~HasOrphan(b)

(***************************************************************************)
(* Chain._add, first part.  A block that is genesis, waits in the queue    *)
(* again, is an orphan or is stored is refused as a duplicate.             *)
(***************************************************************************)
RefuseDuplicate ==
  LET b == Head(jobs).block IN
  /\ Starts({"add"})
  /\ \/ ~Unseen(b)
     \/ Unseen(b) /\ ~HasInvalid(b) /\ b \in entries
  /\ Finish
  /\ UNCHANGED <<disk, tip, invalid, orphans, cut, torn>>

(***************************************************************************)
(* Chain._add and hasInvalid: a child of a condemned block is condemned.   *)
(***************************************************************************)
RefuseInvalid ==
  LET b == Head(jobs).block IN
  /\ Starts({"add"}) /\ Unseen(b) /\ HasInvalid(b)
  /\ invalid' = invalid \cup {b}
  /\ Finish
  /\ UNCHANGED <<disk, tip, orphans, cut, torn>>

(***************************************************************************)
(* Chain.storeOrphan: an orphan with the same parent makes way; then       *)
(* limitOrphans drops those older than an hour (any set of them, there is  *)
(* no clock here) and, if there still are too many, the oldest of the rest *)
(* (any of them).                                                          *)
(***************************************************************************)
StoreOrphan ==
  LET b == Head(jobs).block
      unforked == {o \in orphans : Parent[o.block] # Parent[b]}
  IN
  /\ Starts({"add"}) /\ Unseen(b) /\ ~HasInvalid(b)
  /\ b \notin entries /\ Parent[b] \notin entries
  /\ \E young \in SUBSET unforked :
       \E dropped \in IF Cardinality(young) < MaxOrphans \/ young = {}
                        THEN {{}} ELSE {{o} : o \in young} :
         orphans' = (young \ dropped) \cup {[block |-> b, form |-> Head(jobs).form]}
  /\ Finish
  /\ UNCHANGED <<disk, tip, invalid, cut, torn>>

StartConnect ==
  LET b == Head(jobs).block IN
  /\ Starts({"add"}) /\ Unseen(b) /\ ~HasInvalid(b)
  /\ b \notin entries /\ Parent[b] \in entries
  /\ holder' = [at |-> "connect", block |-> b, form |-> Head(jobs).form, moved |-> FALSE]
  /\ UNCHANGED <<disk, tip, invalid, orphans, jobs, cut, torn>>

------------------------------------------------------------------------------
(***************************************************************************)
(* Chain.verify and Chain.verifyContext on the body that came in.  A       *)
(* reconnected block is the stored one, and it was verified when it was    *)
(* stored.                                                                 *)
(***************************************************************************)
Verified(b, form) == form = "sound" /\ b \notin Bad
ContextVerified(b, form) ==
  Verified(b, form) /\ NoDuplicates(b, coins) /\ InputsUnspent(b, coins)

(***************************************************************************)
(* Chain.setInvalid, unless the error says that the body was malleated.    *)
(***************************************************************************)
\* Mutant: a mutated copy condemns the hash as well.
CondemnAlways(b, form) == invalid' = invalid \cup {b}

Condemn(b, form) ==
  invalid' = IF form = "mutated" THEN invalid ELSE invalid \cup {b}

(***************************************************************************)
(* Chain.connect compares the work; Chain.setBestChain the parent.         *)
(***************************************************************************)
Connecting == holder.at = "connect"
\* Mutant: the height decides.
AlternateByHeight == Height[holder.block] <= Height[tip]

Alternate == Chainwork[holder.block] <= Chainwork[tip]
Extends == ~Alternate /\ Parent[holder.block] = tip
Reorganizes == ~Alternate /\ Parent[holder.block] # tip

(***************************************************************************)
(* Chain.resolveOrphan after block b was connected, in _add and in the     *)
(* loop of handleOrphans: the orphan on b is connected by the same holder. *)
(***************************************************************************)
\* Mutant: nothing is done about orphans.
ResolveNone(b) == Finish /\ UNCHANGED orphans

Resolve(b) ==
  \/ /\ \A o \in orphans : Parent[o.block] # b
     /\ Finish /\ UNCHANGED orphans
  \/ \E o \in orphans :
       /\ Parent[o.block] = b
       /\ orphans' = orphans \ {o}
       /\ holder' = [at |-> "connect", block |-> o.block, form |-> o.form, moved |-> FALSE]
       /\ UNCHANGED jobs

(***************************************************************************)
(* ChainDB.save: the new head takes the place of its parent among the      *)
(* tips.  Without a view (an alternate chain) nothing else is written.     *)
(***************************************************************************)
SaveEntry(b) ==
  /\ entries' = entries \cup {b}
  /\ tips' = (tips \ {Parent[b]}) \cup {b}

SaveAlternate ==
  LET b == holder.block IN
  /\ Connecting /\ Alternate /\ Verified(b, holder.form)
  /\ SaveEntry(b)
  /\ Resolve(b)
  /\ UNCHANGED <<mainAt, next, coins, undo, best, tip, invalid, cut, torn>>

(***************************************************************************)
(* The part of ChainDB.save and reconnect that makes b the stored tip.     *)
(***************************************************************************)
\* Mutant: no undo record is written.
IndexMainOnly(b) ==
  /\ next' = [next EXCEPT ![Parent[b]] = b]
  /\ mainAt' = [mainAt EXCEPT ![Height[b]] = b]
  /\ coins' = ConnectCoins(coins, b)
  /\ UNCHANGED undo
  /\ best' = b

IndexMain(b) ==
  /\ next' = [next EXCEPT ![Parent[b]] = b]
  /\ mainAt' = [mainAt EXCEPT ![Height[b]] = b]
  /\ coins' = ConnectCoins(coins, b)
  /\ undo' = [undo EXCEPT ![b] = Spends[b]]
  /\ best' = b

SetBestChain ==
  LET b == holder.block IN
  /\ Connecting /\ Extends /\ ContextVerified(b, holder.form)
  /\ SaveEntry(b) /\ IndexMain(b)
  /\ tip' = b
  /\ Resolve(b)
  /\ UNCHANGED <<invalid, cut, torn>>

(***************************************************************************)
(* The block fails its verification: the alternate one before anything     *)
(* was written, the best one after the reorganization it caused.           *)
(***************************************************************************)
\* Mutant: the error path leaves the holder of the lock in place.
RefuseBlockHolding ==
  LET b == holder.block IN
  /\ Connecting
  /\ \/ Alternate /\ ~Verified(b, holder.form)
     \/ Extends /\ ~ContextVerified(b, holder.form)
  /\ Condemn(b, holder.form)
  /\ cut' = (cut \/ holder.moved)
  /\ jobs' = Tail(jobs)
  /\ UNCHANGED <<disk, tip, orphans, holder, torn>>

RefuseBlock ==
  LET b == holder.block IN
  /\ Connecting
  /\ \/ Alternate /\ ~Verified(b, holder.form)
     \/ Extends /\ ~ContextVerified(b, holder.form)
  /\ Condemn(b, holder.form)
  /\ cut' = (cut \/ holder.moved)
  /\ Finish
  /\ UNCHANGED <<disk, tip, orphans, torn>>

(***************************************************************************)
(* Chain.reorganize.  An entry that is missing on the way to the fork, a   *)
(* tip whose block or undo record is missing: the operation throws.        *)
(***************************************************************************)
Reversible(b) == b \in entries /\ undo[b] = Spends[b]
CanWalk == WalkedBy(tip, holder.block) \subseteq entries

ReorganizeThrows ==
  /\ Connecting /\ Reorganizes
  /\ \/ ~CanWalk
     \/ tip \notin Path[holder.block] /\ ~Reversible(tip)
  /\ cut' = (cut \/ holder.moved)
  /\ Finish
  /\ UNCHANGED <<disk, tip, invalid, orphans, torn>>

(***************************************************************************)
(* ChainDB._disconnect of block b, in Chain.disconnect and in reset.       *)
(***************************************************************************)
\* Mutant: the key n of the previous block stays.
UnindexMainKeepingNext(b) ==
  /\ UNCHANGED next
  /\ mainAt' = [mainAt EXCEPT ![Height[b]] = None]
  /\ coins' = DisconnectCoins(coins, b, undo[b])
  /\ undo' = [undo EXCEPT ![b] = {}]
  /\ best' = Parent[b]

UnindexMain(b) ==
  /\ next' = [next EXCEPT ![Parent[b]] = None]
  /\ mainAt' = [mainAt EXCEPT ![Height[b]] = None]
  /\ coins' = DisconnectCoins(coins, b, undo[b])
  /\ undo' = [undo EXCEPT ![b] = {}]
  /\ best' = Parent[b]

\* Mutant: Chain.tip is left to the reconnection.
DisconnectKeepingTip ==
  /\ Connecting /\ Reorganizes /\ CanWalk
  /\ tip \notin Path[holder.block] /\ Reversible(tip)
  /\ UnindexMain(tip)
  /\ holder' = [holder EXCEPT !.moved = TRUE]
  /\ UNCHANGED <<entries, tips, tip, invalid, orphans, jobs, cut, torn>>

Disconnect ==
  /\ Connecting /\ Reorganizes /\ CanWalk
  /\ tip \notin Path[holder.block] /\ Reversible(tip)
  /\ UnindexMain(tip)
  /\ tip' = Parent[tip]
  /\ holder' = [holder EXCEPT !.moved = TRUE]
  /\ UNCHANGED <<entries, tips, invalid, orphans, jobs, cut, torn>>

(***************************************************************************)
(* Chain.reconnect of the next block above the fork: the new tip itself is *)
(* left to setBestChain.                                                   *)
(***************************************************************************)
NextUp(c) == c \in Ancestors(holder.block) \ {Genesis} /\ Parent[c] = tip

\* Mutant: the block is not verified on the coins of its new place.
ReconnectUnverified(c) ==
  /\ Connecting /\ Reorganizes /\ CanWalk
  /\ NextUp(c)
  /\ IndexMain(c)
  /\ tip' = c
  /\ holder' = [holder EXCEPT !.moved = TRUE]
  /\ UNCHANGED <<entries, tips, invalid, orphans, jobs, cut, torn>>

Reconnect(c) ==
  /\ Connecting /\ Reorganizes /\ CanWalk
  /\ NextUp(c) /\ ContextVerified(c, "sound")
  /\ IndexMain(c)
  /\ tip' = c
  /\ holder' = [holder EXCEPT !.moved = TRUE]
  /\ UNCHANGED <<entries, tips, invalid, orphans, jobs, cut, torn>>

\* Mutant: the error is swallowed and the loop goes on.
ReconnectFailsSilently(c) ==
  /\ Connecting /\ Reorganizes /\ CanWalk
  /\ NextUp(c) /\ ~ContextVerified(c, "sound")
  /\ Condemn(c, "sound")
  /\ UNCHANGED <<disk, tip, orphans, jobs, holder, cut, torn>>

ReconnectFails(c) ==
  /\ Connecting /\ Reorganizes /\ CanWalk
  /\ NextUp(c) /\ ~ContextVerified(c, "sound")
  /\ Condemn(c, "sound")
  /\ cut' = (cut \/ holder.moved)
  /\ Finish
  /\ UNCHANGED <<disk, tip, orphans, torn>>

------------------------------------------------------------------------------
(***************************************************************************)
(* Chain.reset, replay and invalidate.  The last two reset to the block    *)
(* before the one they name.                                               *)
(***************************************************************************)
Resets == {"reset", "replay", "invalidate"}

Target(j) == IF j.kind = "reset" \/ j.block = Genesis THEN j.block ELSE Parent[j.block]

Main(b) == b \in entries /\ IsMain(b)

(***************************************************************************)
(* ChainDB._removeChain walks from a tip down to the main chain.           *)
(***************************************************************************)
\* Mutant: the walk starts below the tip.
AlternatesBelow == {a \in UNION {Path[t] \ {t} : t \in tips} : ~IsMain(a)}

Alternates == {a \in UNION {Path[t] : t \in tips} : ~IsMain(a)}

ResetStarts ==
  LET j == Head(jobs) IN
  Starts(Resets) /\ Main(j.block) /\ Main(Target(j)) /\ Alternates \subseteq entries

RefuseReset ==
  /\ Starts(Resets) /\ ~ResetStarts
  /\ Finish
  /\ UNCHANGED <<disk, tip, invalid, orphans, cut, torn>>

(***************************************************************************)
(* ChainDB.removeChains: one batch for all alternate chains.               *)
(***************************************************************************)
RemoveChains ==
  /\ ResetStarts
  /\ entries' = entries \ Alternates
  /\ tips' = tips \ Alternates
  /\ holder' = [at |-> "blocks", block |-> Target(Head(jobs)), form |-> "sound",
                moved |-> FALSE]
  /\ UNCHANGED <<mainAt, next, coins, undo, best, tip, invalid, orphans, jobs, cut, torn>>

Removing == holder.at = "blocks"

(***************************************************************************)
(* ChainDB.reset: a batch per block of the main chain, from the tip down.  *)
(***************************************************************************)
\* Mutant: the block before the removed one does not become a tip.
RemoveBlockUnlisted ==
  /\ Removing /\ best # holder.block
  /\ best # Genesis /\ Reversible(best)
  /\ entries' = entries \ {best}
  /\ tips' = tips \ {best}
  /\ UnindexMain(best)
  /\ UNCHANGED <<tip, invalid, orphans, jobs, holder, cut, torn>>

RemoveBlock ==
  /\ Removing /\ best # holder.block
  /\ best # Genesis /\ Reversible(best)
  /\ entries' = entries \ {best}
  /\ tips' = (tips \ {best}) \cup {Parent[best]}
  /\ UnindexMain(best)
  /\ UNCHANGED <<tip, invalid, orphans, jobs, holder, cut, torn>>

(***************************************************************************)
(* Only now Chain._reset takes over the new tip; all orphans are dropped.  *)
(***************************************************************************)
FinishReset ==
  LET j == Head(jobs) IN
  /\ Removing /\ best = holder.block
  /\ tip' = best
  /\ orphans' = {}
  /\ invalid' = IF j.kind = "invalidate" THEN invalid \cup {j.block} ELSE invalid
  /\ Finish
  /\ UNCHANGED <<disk, cut, torn>>

ResetThrows ==
  /\ Removing /\ best # holder.block
  /\ best = Genesis \/ ~Reversible(best)
  /\ torn' = (torn \/ tip # best)
  /\ Finish
  /\ UNCHANGED <<disk, tip, invalid, orphans, cut>>

------------------------------------------------------------------------------
(***************************************************************************)
(* ChainDB.commit throws when the batch cannot be written: the lock is     *)
(* released, what earlier batches wrote stays.                             *)
(***************************************************************************)
WriteFails ==
  /\ Connecting \/ Removing
  /\ cut' = (cut \/ holder.moved)
  /\ torn' = (torn \/ (Removing /\ tip # best))
  /\ Finish
  /\ UNCHANGED <<disk, tip, invalid, orphans>>

(***************************************************************************)
(* The process stops and starts again: Chain._open.                        *)
(***************************************************************************)
Restart ==
  /\ tip' = best /\ invalid' = {} /\ orphans' = {} /\ jobs' = <<>> /\ holder' = Idle
  /\ cut' = (cut \/ holder.moved)
  /\ UNCHANGED <<disk, torn>>

Connect ==
  \/ SaveAlternate \/ SetBestChain \/ RefuseBlock
  \/ Disconnect \/ ReorganizeThrows
  \/ \E c \in Block : Reconnect(c) \/ ReconnectFails(c)

Add == RefuseDuplicate \/ RefuseInvalid \/ StoreOrphan \/ StartConnect

Reset == RefuseReset \/ RemoveChains \/ RemoveBlock \/ FinishReset \/ ResetThrows

HolderStep == Add \/ Connect \/ Reset

Next ==
  \/ \E j \in Jobs : Submit(j)
  \/ HolderStep
  \/ Faults /\ (WriteFails \/ Restart)

(***************************************************************************)
(* The event loop runs every continuation and the database answers every   *)
(* request; nothing is assumed of callers, of stops and of failed writes.  *)
(***************************************************************************)
Spec == Init /\ [][Next]_vars /\ WF_vars(HolderStep)

------------------------------------------------------------------------------
(***************************************************************************)
(* The unspent outputs are those of the stored tip: connecting, the undo   *)
(* records and every interrupted reorganization or reset leave nothing     *)
(* behind and lose nothing (ChainDB.saveView, disconnectBlock).  A reset   *)
(* that failed half way is excepted: see torn and the README.              *)
(***************************************************************************)
CoinsMatch == torn \/ coins = Unspent[best]

(***************************************************************************)
(* The two indexes (getHash by height, getNextHash by hash) describe the   *)
(* path to the stored tip and nothing else, and every block of that path   *)
(* can be disconnected again (ChainDB._save, _reconnect, _disconnect).     *)
(***************************************************************************)
ChainStored ==
  torn \/ \A b \in Block \ {Genesis} :
            /\ b \in Path[best] => Reversible(b)
            /\ mainAt[Height[b]] = b <=> b \in Path[best]
            /\ next[Parent[b]] = b <=> b \in Path[best]

(***************************************************************************)
(* Outside a reset, Chain.tip is the stored tip, although the two are set  *)
(* in different places and a job may end with an error after any batch.    *)
(***************************************************************************)
TipIsBest == torn \/ Removing \/ tip = best

(***************************************************************************)
(* A block is condemned (Chain.invalid) only if it or an ancestor breaks a *)
(* rule on its own branch, or was named by a caller of invalidate: not     *)
(* because of a mutated copy, nor of the branch it was judged on.          *)
(***************************************************************************)
Unsound(a) ==
  \/ a \in Bad
  \/ a # Genesis /\ (~NoDuplicates(a, Unspent[Parent[a]]) \/ ~InputsUnspent(a, Unspent[Parent[a]]))

CondemnedForCause ==
  torn \/ \A b \in invalid : \E a \in Path[b] :
            Unsound(a) \/ \E j \in Jobs : j.kind = "invalidate" /\ j.block = a

(***************************************************************************)
(* An orphan is neither stored nor ready to be connected, there is one per *)
(* hash and one per parent (the assertions of addOrphan), and their number *)
(* is bounded, by one where the limit is zero (limitOrphans).              *)
(***************************************************************************)
OrphansDetached ==
  /\ \A o \in orphans : o.block \notin entries /\ Parent[o.block] \notin entries
  /\ \A o, q \in orphans : o.block = q.block \/ Parent[o.block] = Parent[q.block] => o = q
  /\ Cardinality(orphans) <= (IF MaxOrphans = 0 THEN 1 ELSE MaxOrphans)

(***************************************************************************)
(* While the lock is free, no stored block has more work than the tip,     *)
(* unless a reorganization ended before it was complete: the code of       *)
(* reorganize does not return to the old branch.                           *)
(***************************************************************************)
TipIsHeaviest ==
  cut \/ torn \/ holder # Idle \/ \A b \in entries : Chainwork[b] <= Chainwork[best]

(***************************************************************************)
(* Every stored block is on the main chain or below a listed tip, and its  *)
(* ancestors are stored: what removeChains relies on to find everything a  *)
(* reset must remove.  Again unless a reorganization was cut short.        *)
(***************************************************************************)
AlternatesListed ==
  cut \/ torn \/ \A b \in entries : /\ Path[b] \subseteq entries
                                    /\ IsMain(b) \/ \E t \in tips : b \in Path[t]

(***************************************************************************)
(* As long as no reorganization was cut short and no reset torn, a reset   *)
(* finds every alternate chain: only the main chain up to its target is    *)
(* stored afterwards (ChainDB.removeChains).                               *)
(***************************************************************************)
IntactReset == [][FinishReset /\ ~cut /\ ~torn => entries' = Path[best']]_vars

(***************************************************************************)
(* With the same exceptions, no reorganization and no reset ends because   *)
(* an entry on its way or an undo record is missing (the assertions of     *)
(* Chain.findFork and reorganize, the errors of ChainDB.disconnectBlock).  *)
(***************************************************************************)
WalksSucceed == [][~cut /\ ~torn => ~(ReorganizeThrows \/ ResetThrows)]_vars

(***************************************************************************)
(* The promise of Ledger: the stored state is that of the block R, which   *)
(* moves one block at a time towards the block of a reorganization that    *)
(* has begun to move, or the target of a reset.                            *)
(***************************************************************************)
Sound == {b \in Block \ {Genesis} : ~Unsound(b)}
Goal == IF holder.moved \/ Removing THEN holder.block ELSE None

Book == INSTANCE Ledger WITH head <- best, goal <- Goal, lost <- torn
ImplementsLedger == Book!Spec

(***************************************************************************)
(* The lock is released, whatever a job meets: the loops over orphans, the *)
(* reorganization and the reset end.                                       *)
(***************************************************************************)
HolderFinishes == holder # Idle ~> holder = Idle

(***************************************************************************)
(* ChainDB.reset: "We need to remove all alternate chains first.  This is  *)
(* ugly, but it's the only safe way to reset the chain."  After a reset    *)
(* only the main chain is stored.                                          *)
(***************************************************************************)
ResetLeavesMainOnly == [][FinishReset => entries' \subseteq Path[best']]_vars
==============================================================================
