----------------------------- MODULE ChainProofs -----------------------------
(***************************************************************************)
(* What holds of Chain for every tree of blocks, every set of jobs and     *)
(* every bound.                                                            *)
(***************************************************************************)
EXTENDS Chain, SequenceTheorems, FiniteSetTheorems, TLAPS

------------------------------------------------------------------------------
LEMMA TreeTypes ==
  /\ Genesis \in Block /\ None \notin Block
  /\ \A b \in Block : /\ Height[b] \in Nat /\ Creates[b] \subseteq Coin
                      /\ Spends[b] \subseteq Coin /\ Path[b] \subseteq Block
                      /\ b \in Path[b]
  /\ \A b \in Block \ {Genesis} : Parent[b] \in Block
  /\ \A b \in Block : Genesis \in Path[b]
  BY TreeAssumption, CoinAssumption, ReferenceAssumption DEF Ancestors

(* The release of the lock, as the type invariant sees it.                 *)
LEMMA FinishType ==
  ASSUME TypeOK, jobs # <<>>, Finish
  PROVE  jobs' \in Seq(Jobs) /\ holder' \in HolderRecord \cup {Idle}
         /\ (holder' # Idle => jobs' # <<>>)
  BY HeadTailProperties DEF TypeOK, Finish

LEMMA ResolveType ==
  ASSUME TypeOK, jobs # <<>>, NEW b \in Block, Resolve(b)
  PROVE  /\ jobs' \in Seq(Jobs) /\ holder' \in HolderRecord \cup {Idle}
         /\ (holder' # Idle => jobs' # <<>>)
         /\ orphans' \in SUBSET Orphan
<1>1. CASE Finish /\ UNCHANGED orphans
  BY <1>1, FinishType DEF TypeOK
<1>2. CASE \E o \in orphans :
             /\ orphans' = orphans \ {o}
             /\ holder' = [at |-> "connect", block |-> o.block, form |-> o.form, moved |-> FALSE]
             /\ UNCHANGED jobs
  BY <1>2 DEF TypeOK, HolderRecord, Orphan
<1> QED BY <1>1, <1>2 DEF Resolve

LEMMA TypeInit == Init => TypeOK
<1> SUFFICES ASSUME Init PROVE TypeOK
  OBVIOUS
<1>1. mainAt \in [{Height[b] : b \in Block} -> Block \cup {None}]
  BY TreeTypes DEF Init
<1>2. next \in [Block -> Block \cup {None}] /\ undo \in [Block -> SUBSET Coin]
  BY TreeTypes DEF Init
<1>3. jobs \in Seq(Jobs) /\ (holder # Idle => jobs # <<>>)
  BY DEF Init
<1> QED BY <1>1, <1>2, <1>3, TreeTypes DEF Init, TypeOK

LEMMA HeadType ==
  ASSUME TypeOK, jobs # <<>>
  PROVE  Head(jobs) \in Jobs /\ Head(jobs) \in Job
  BY HeadTailProperties, JobAssumption DEF TypeOK

LEMMA TypeAdd == TypeOK /\ Add => TypeOK'
<1> SUFFICES ASSUME TypeOK, Add PROVE TypeOK'
  OBVIOUS
<1>0. jobs # <<>> /\ Head(jobs) \in Job
  BY HeadType DEF Add, RefuseDuplicate, RefuseInvalid, StoreOrphan, StartConnect, Starts
<1>1. CASE RefuseDuplicate
  BY <1>0, <1>1, FinishType DEF RefuseDuplicate, TypeOK, disk
<1>2. CASE RefuseInvalid
  BY <1>0, <1>2, FinishType DEF RefuseInvalid, TypeOK, disk, Job
<1>3. CASE StoreOrphan
  <2>1. orphans' \in SUBSET Orphan
    BY <1>0, <1>3 DEF StoreOrphan, TypeOK, Job, Orphan, Starts, Unseen
  <2> QED BY <1>0, <1>3, <2>1, FinishType DEF StoreOrphan, TypeOK, disk
<1>4. CASE StartConnect
  BY <1>0, <1>4 DEF StartConnect, TypeOK, disk, Job, HolderRecord, Starts, Unseen
<1> QED BY <1>1, <1>2, <1>3, <1>4 DEF Add

(* What the two index updates do to the types of the stored chain.         *)
LEMMA IndexTypes ==
  ASSUME TypeOK, NEW b \in Block \ {Genesis}, IndexMain(b) \/ UnindexMain(b)
  PROVE  /\ mainAt' \in [{Height[a] : a \in Block} -> Block \cup {None}]
         /\ next' \in [Block -> Block \cup {None}]
         /\ coins' \in SUBSET Coin /\ undo' \in [Block -> SUBSET Coin]
         /\ best' \in Block
  BY TreeTypes DEF TypeOK, IndexMain, UnindexMain, ConnectCoins, DisconnectCoins

(* The block that is being connected is not genesis.                       *)
LEMMA HolderType ==
  ASSUME TypeOK, Connecting
  PROVE  /\ holder \in HolderRecord /\ jobs # <<>>
         /\ holder.block \in Block \ {Genesis}
         /\ holder.form \in Forms /\ holder.moved \in BOOLEAN
  BY DEF TypeOK, Connecting, HolderRecord, Idle

LEMMA TypeConnect == TypeOK /\ Connect => TypeOK'
<1> SUFFICES ASSUME TypeOK, Connect PROVE TypeOK'
  OBVIOUS
<1>0. /\ Connecting /\ jobs # <<>> /\ holder \in HolderRecord
      /\ holder.block \in Block \ {Genesis} /\ holder.moved \in BOOLEAN
      /\ Parent[holder.block] \in Block
  BY HolderType, TreeTypes
     DEF Connect, SaveAlternate, SetBestChain, RefuseBlock, Disconnect, ReorganizeThrows,
         Reconnect, ReconnectFails
<1>1. CASE SaveAlternate
  BY <1>0, <1>1, ResolveType DEF SaveAlternate, SaveEntry, TypeOK
<1>2. CASE SetBestChain
  BY <1>0, <1>2, ResolveType, IndexTypes DEF SetBestChain, SaveEntry, TypeOK
<1>3. CASE RefuseBlock
  BY <1>0, <1>3, FinishType DEF RefuseBlock, Condemn, TypeOK, disk
<1>4. CASE Disconnect
  <2>1. tip \in Block \ {Genesis}
    BY <1>0, <1>4, TreeTypes DEF Disconnect, TypeOK
  <2>2. holder' \in HolderRecord
    BY <1>0, <1>4 DEF Disconnect, HolderRecord
  <2> QED BY <1>0, <1>4, <2>1, <2>2, IndexTypes, TreeTypes DEF Disconnect, TypeOK
<1>5. CASE ReorganizeThrows
  BY <1>0, <1>5, FinishType DEF ReorganizeThrows, TypeOK, disk
<1>6. ASSUME NEW c \in Block, Reconnect(c) PROVE TypeOK'
  <2>1. c \in Block \ {Genesis}
    BY <1>6 DEF Reconnect, NextUp
  <2>2. holder' \in HolderRecord
    BY <1>0, <1>6 DEF Reconnect, HolderRecord
  <2> QED BY <1>0, <1>6, <2>1, <2>2, IndexTypes DEF Reconnect, TypeOK
<1>7. ASSUME NEW c \in Block, ReconnectFails(c) PROVE TypeOK'
  BY <1>0, <1>7, FinishType DEF ReconnectFails, Condemn, TypeOK, disk
<1> QED BY <1>1, <1>2, <1>3, <1>4, <1>5, <1>6, <1>7 DEF Connect

LEMMA RemovingType ==
  ASSUME TypeOK, Removing
  PROVE  holder \in HolderRecord /\ holder.block \in Block /\ jobs # <<>>
         /\ holder.moved \in BOOLEAN
  BY DEF TypeOK, Removing, HolderRecord, Idle

LEMMA TargetType ==
  ASSUME NEW j \in Job PROVE Target(j) \in Block
  BY TreeTypes DEF Target, Job

LEMMA TypeReset == TypeOK /\ Reset => TypeOK'
<1> SUFFICES ASSUME TypeOK, Reset PROVE TypeOK'
  OBVIOUS
<1>1. CASE RefuseReset
  BY <1>1, FinishType DEF RefuseReset, Starts, TypeOK, disk
<1>2. CASE RemoveChains
  <2>1. jobs # <<>> /\ Head(jobs) \in Job
    BY <1>2, HeadType DEF RemoveChains, ResetStarts, Starts
  <2>2. holder' \in HolderRecord
    BY <1>2, <2>1, TargetType DEF RemoveChains, HolderRecord, Forms
  <2> QED BY <1>2, <2>1, <2>2 DEF RemoveChains, TypeOK
<1>3. CASE RemoveBlock
  <2>1. best \in Block \ {Genesis}
    BY <1>3 DEF RemoveBlock, TypeOK
  <2> QED BY <1>3, <2>1, IndexTypes, TreeTypes DEF RemoveBlock, TypeOK
<1>4. CASE FinishReset
  <2>1. jobs # <<>> /\ Head(jobs).block \in Block
    BY <1>4, RemovingType, HeadType DEF FinishReset, Job
  <2> QED BY <1>4, <2>1, FinishType DEF FinishReset, TypeOK, disk
<1>5. CASE ResetThrows
  BY <1>5, RemovingType, FinishType DEF ResetThrows, TypeOK, disk
<1> QED BY <1>1, <1>2, <1>3, <1>4, <1>5 DEF Reset

LEMMA TypeFaults == TypeOK /\ (WriteFails \/ Restart) => TypeOK'
<1>1. ASSUME TypeOK, WriteFails PROVE TypeOK'
  BY <1>1, HolderType, RemovingType, FinishType DEF WriteFails, TypeOK, disk
<1>2. ASSUME TypeOK, Restart PROVE TypeOK'
  <2>1. holder.moved \in BOOLEAN
    <3>1. CASE holder = Idle
      BY <3>1 DEF Idle
    <3>2. CASE holder \in HolderRecord
      <4>1. holder.at \in {"connect", "blocks"}
        BY <3>2 DEF HolderRecord
      <4>2. CASE holder.at = "connect"
        BY <3>2, <4>2, HolderType, <1>2 DEF Connecting
      <4>3. CASE holder.at = "blocks"
        BY <3>2, <4>3, RemovingType, <1>2 DEF Removing
      <4> QED BY <4>1, <4>2, <4>3
    <3> QED BY <1>2, <3>1, <3>2 DEF TypeOK
  <2> QED BY <1>2, <2>1 DEF Restart, TypeOK, disk
<1> QED BY <1>1, <1>2

LEMMA TypeSubmit ==
  ASSUME TypeOK, NEW j \in Jobs, Submit(j) PROVE TypeOK'
<1>1. jobs' \in Seq(Jobs) /\ jobs' # <<>>
  BY AppendProperties DEF Submit, TypeOK
<1> QED BY <1>1 DEF Submit, TypeOK, disk

(***************************************************************************)
(* Whatever callers ask, in whatever order, and wherever a job fails, the  *)
(* state stays of its type; in particular the block that is connected is   *)
(* never genesis, whose parent the code would look up.                     *)
(***************************************************************************)
THEOREM TypeCorrect == Spec => []TypeOK
<1>1. Init => TypeOK
  BY TypeInit
<1>2. TypeOK /\ [Next]_vars => TypeOK'
  <2>1. CASE UNCHANGED vars
    BY <2>1 DEF TypeOK, vars, disk
  <2> QED BY <2>1, TypeAdd, TypeConnect, TypeReset, TypeFaults, TypeSubmit
          DEF Next, HolderStep
<1> QED BY <1>1, <1>2, PTL DEF Spec

------------------------------------------------------------------------------
(***************************************************************************)
(* The strengthening: the blocks of the path to the stored tip obey the    *)
(* rules on coins on their own branch, which is why disconnecting them     *)
(* restores the coins exactly; each but the last has a successor in the    *)
(* index, by which the code tells the main chain from alternate ones.      *)
(***************************************************************************)
Fits(b) ==
  b \notin Bad /\ NoDuplicates(b, Unspent[Parent[b]]) /\ InputsUnspent(b, Unspent[Parent[b]])

PathStored ==
  /\ coins = Unspent[best]
  /\ Path[best] \subseteq entries
  /\ \A b \in Block \ {Genesis} :
       /\ b \in Path[best] => undo[b] = Spends[b] /\ Fits(b)
       /\ mainAt[Height[b]] = b <=> b \in Path[best]
       /\ next[Parent[b]] = b <=> b \in Path[best]
  /\ \A a \in Path[best] : a = best \/ next[a] # None

DiskInv == torn \/ PathStored
MemoryInv == torn \/ Removing \/ tip = best

(* A block is higher than each of its ancestors and not one of them.       *)
LEMMA Above ==
  ASSUME NEW b \in Block \ {Genesis}
  PROVE  /\ \A a \in Path[Parent[b]] : Height[a] < Height[b]
         /\ b \notin Path[Parent[b]] /\ Path[b] = Path[Parent[b]] \cup {b}
         /\ Parent[b] \in Block /\ Height[b] = Height[Parent[b]] + 1
  BY TreeAssumption, ReferenceAssumption, TreeTypes DEF Ancestors

(* ChainDB._save with a view, or _reconnect, of a child of the stored tip. *)
LEMMA ConnectStores ==
  ASSUME TypeOK, PathStored, NEW b \in Block \ {Genesis}, Parent[b] = best,
         Fits(b), IndexMain(b), entries \cup {b} \subseteq entries' \cup {b}, b \in entries'
  PROVE  PathStored'
<1>1. coins' = Unspent[best']
  BY ReferenceAssumption DEF IndexMain, PathStored, ConnectCoins
<1>2. Path[best'] = Path[best] \cup {b} /\ b \notin Path[best] /\ best \in Path[best]
  BY Above, TreeTypes DEF IndexMain, TypeOK
<1>3. Path[best'] \subseteq entries'
  BY <1>2 DEF PathStored
<1>4. ASSUME NEW a \in Block \ {Genesis}
      PROVE  /\ a \in Path[best'] => undo'[a] = Spends[a] /\ Fits(a)
             /\ mainAt'[Height[a]] = a <=> a \in Path[best']
             /\ next'[Parent[a]] = a <=> a \in Path[best']
  <2>1. a \in Path[best'] => undo'[a] = Spends[a] /\ Fits(a)
    BY <1>2 DEF IndexMain, PathStored, TypeOK
  <2>2. a # b /\ Height[a] = Height[b] => a \notin Path[best']
    BY <1>2, Above, TreeTypes
  <2>3. mainAt'[Height[a]] = a <=> a \in Path[best']
    BY <1>2, <2>2, TreeTypes DEF IndexMain, PathStored, TypeOK
  <2>4. a # b /\ Parent[a] = best => a \notin Path[best']
    BY <1>2, Above
  <2>5. next'[Parent[a]] = a <=> a \in Path[best']
    BY <1>2, <2>4, TreeTypes DEF IndexMain, PathStored, TypeOK
  <2> QED BY <2>1, <2>3, <2>5
<1>5. \A a \in Path[best'] : a = best' \/ next'[a] # None
  BY <1>2, TreeTypes DEF IndexMain, PathStored, TypeOK
<1> QED BY <1>1, <1>3, <1>4, <1>5 DEF PathStored

(* ChainDB._disconnect of the stored tip.                                  *)
LEMMA DisconnectStores ==
  ASSUME TypeOK, PathStored, best # Genesis, UnindexMain(best),
         entries \ {best} \subseteq entries'
  PROVE  PathStored'
<1> DEFINE p == Parent[best]
<1>0. best \in Block \ {Genesis}
  BY DEF TypeOK
<1>1. /\ Path[best] = Path[p] \cup {best} /\ best \notin Path[p]
      /\ p \in Block /\ p \in Path[p] /\ best \in Path[best] /\ best' = p
      /\ Height[best] = Height[p] + 1
  BY <1>0, Above, TreeTypes DEF UnindexMain
<1>2. undo[best] = Spends[best] /\ Fits(best)
  BY <1>0, <1>1 DEF PathStored
<1>3. coins' = Unspent[best']
  BY <1>0, <1>1, <1>2, ReferenceAssumption
     DEF UnindexMain, PathStored, DisconnectCoins, Fits, NoDuplicates, InputsUnspent
<1>4. Path[best'] \subseteq entries'
  BY <1>1 DEF PathStored
<1>5. ASSUME NEW a \in Block \ {Genesis}
      PROVE  /\ a \in Path[best'] => undo'[a] = Spends[a] /\ Fits(a)
             /\ mainAt'[Height[a]] = a <=> a \in Path[best']
             /\ next'[Parent[a]] = a <=> a \in Path[best']
  <2>1. a \in Path[best'] => undo'[a] = Spends[a] /\ Fits(a)
    BY <1>1 DEF UnindexMain, PathStored, TypeOK
  <2>2. Height[a] = Height[best] => a \notin Path[best']
    BY <1>0, <1>1, Above, TreeTypes
  <2>3. mainAt'[Height[a]] = a <=> a \in Path[best']
    BY <1>1, <2>2, TreeTypes DEF UnindexMain, PathStored, TypeOK
  <2>4. Parent[a] = p => a \notin Path[best']
    BY <1>1, Above
  <2>5. next'[Parent[a]] = a <=> a \in Path[best']
    BY <1>1, <2>4, TreeTypes DEF UnindexMain, PathStored, TypeOK
  <2> QED BY <2>1, <2>3, <2>5
<1>6. \A a \in Path[best'] : a = best' \/ next'[a] # None
  BY <1>1 DEF UnindexMain, PathStored, TypeOK
<1> QED BY <1>3, <1>4, <1>5, <1>6 DEF PathStored

(* A step that leaves the main chain alone and removes none of its blocks. *)
LEMMA KeepsStored ==
  ASSUME DiskInv, UNCHANGED <<mainAt, next, coins, undo, best>>, torn => torn',
         torn \/ Path[best] \subseteq entries'
  PROVE  DiskInv'
  BY DEF DiskInv, PathStored

(* What the code verifies, on the coins of the stored tip, is Fits.        *)
LEMMA VerifiedFits ==
  ASSUME PathStored, NEW b \in Block \ {Genesis}, NEW f, Parent[b] = best,
         ContextVerified(b, f)
  PROVE  Fits(b)
  BY DEF PathStored, ContextVerified, Verified, Fits

CoreInv == TypeOK /\ DiskInv /\ MemoryInv

LEMMA CoreInit == Init => CoreInv
<1> SUFFICES ASSUME Init PROVE CoreInv
  OBVIOUS
<1>1. ASSUME NEW b \in Block \ {Genesis}
      PROVE  /\ b \notin Path[Genesis] /\ mainAt[Height[b]] # b /\ next[Parent[b]] # b
  BY TreeTypes, Above, ReferenceAssumption DEF Init
<1>2. PathStored
  BY <1>1, ReferenceAssumption DEF Init, PathStored
<1> QED BY <1>2, TypeInit DEF Init, CoreInv, DiskInv, MemoryInv

(* A torn chain stays torn: the exception of the invariant is not left.    *)
LEMMA TornStays == (Connect \/ Reset \/ WriteFails \/ Restart) /\ torn => torn'
  BY DEF Connect, SaveAlternate, SetBestChain, RefuseBlock, Disconnect, ReorganizeThrows,
         Reconnect, ReconnectFails, Reset, RefuseReset, RemoveChains, RemoveBlock,
         FinishReset, ResetThrows, WriteFails, Restart

LEMMA CoreAdd == CoreInv /\ Add => DiskInv' /\ MemoryInv'
<1> SUFFICES ASSUME CoreInv, Add PROVE DiskInv' /\ MemoryInv'
  OBVIOUS
<1>1. /\ UNCHANGED <<entries, mainAt, next, coins, undo, best, tip, torn>>
      /\ holder = Idle
  BY DEF Add, RefuseDuplicate, RefuseInvalid, StoreOrphan, StartConnect, Starts, disk
<1>2. DiskInv'
  BY <1>1, KeepsStored DEF CoreInv, DiskInv, PathStored
<1>3. MemoryInv'
  BY <1>1 DEF CoreInv, MemoryInv, Removing, Idle
<1> QED BY <1>2, <1>3

LEMMA CoreConnect == CoreInv /\ Connect => DiskInv' /\ MemoryInv'
<1> SUFFICES ASSUME CoreInv, Connect, ~torn, ~torn' PROVE PathStored' /\ tip' = best'
  BY TornStays DEF DiskInv, MemoryInv
<1>0. /\ Connecting /\ holder.block \in Block \ {Genesis} /\ TypeOK /\ PathStored
      /\ tip = best /\ Parent[holder.block] \in Block
  BY HolderType, TreeTypes
     DEF Connect, SaveAlternate, SetBestChain, RefuseBlock, Disconnect, ReorganizeThrows,
         Reconnect, ReconnectFails, CoreInv, DiskInv, MemoryInv, Connecting, Removing
<1>1. CASE SaveAlternate
  BY <1>0, <1>1 DEF SaveAlternate, SaveEntry, PathStored
<1>2. CASE SetBestChain
  <2> DEFINE b == holder.block
  <2>1. Parent[b] = best /\ Fits(b)
    BY <1>0, <1>2, VerifiedFits DEF SetBestChain, Extends
  <2>2. b \in entries' /\ entries \cup {b} \subseteq entries' /\ IndexMain(b) /\ tip' = b
    BY <1>2 DEF SetBestChain, SaveEntry
  <2> QED BY <1>0, <2>1, <2>2, ConnectStores DEF IndexMain
<1>3. CASE RefuseBlock
  BY <1>0, <1>3 DEF RefuseBlock, PathStored, disk
<1>4. CASE Disconnect
  <2>1. best # Genesis
    BY <1>0, <1>4, TreeTypes DEF Disconnect
  <2> QED BY <1>0, <1>4, <2>1, DisconnectStores DEF Disconnect, UnindexMain
<1>5. CASE ReorganizeThrows
  BY <1>0, <1>5 DEF ReorganizeThrows, PathStored, disk
<1>6. ASSUME NEW c \in Block, Reconnect(c) PROVE PathStored' /\ tip' = best'
  <2>1. c \in Block \ {Genesis} /\ Parent[c] = best /\ IndexMain(c) /\ tip' = c
    BY <1>0, <1>6 DEF Reconnect, NextUp
  <2>2. Fits(c)
    BY <1>0, <1>6, <2>1, VerifiedFits DEF Reconnect
  <2>3. c \in Path[holder.block] /\ c # holder.block /\ c \notin Path[best]
    BY <1>0, <1>6, <2>1, Above DEF Reconnect, NextUp, Ancestors
  <2>4. c \in entries
    BY <1>0, <1>6, <2>3 DEF Reconnect, CanWalk, WalkedBy
  <2> QED BY <1>0, <1>6, <2>1, <2>2, <2>4, ConnectStores DEF Reconnect, IndexMain
<1>7. ASSUME NEW c \in Block, ReconnectFails(c) PROVE PathStored' /\ tip' = best'
  BY <1>0, <1>7 DEF ReconnectFails, PathStored, disk
<1> QED BY <1>1, <1>2, <1>3, <1>4, <1>5, <1>6, <1>7 DEF Connect

LEMMA CoreReset == CoreInv /\ Reset => DiskInv' /\ MemoryInv'
<1> SUFFICES ASSUME CoreInv, Reset, ~torn, ~torn'
             PROVE  PathStored' /\ (Removing' \/ tip' = best')
  BY TornStays DEF DiskInv, MemoryInv
<1>0. TypeOK /\ PathStored /\ (Removing \/ tip = best)
  BY DEF CoreInv, DiskInv, MemoryInv
<1>1. CASE RefuseReset
  BY <1>0, <1>1 DEF RefuseReset, PathStored, disk, Starts, Removing, Idle
<1>2. CASE RemoveChains
  <2>1. \A a \in Path[best] : IsMain(a)
    BY <1>0 DEF PathStored, IsMain
  <2>2. Path[best] \subseteq entries'
    BY <1>0, <1>2, <2>1 DEF RemoveChains, Alternates, PathStored
  <2> QED BY <1>0, <1>2, <2>2 DEF RemoveChains, PathStored, Removing
<1>3. CASE RemoveBlock
  BY <1>0, <1>3, DisconnectStores DEF RemoveBlock, Removing
<1>4. CASE FinishReset
  BY <1>0, <1>4 DEF FinishReset, PathStored, disk
<1>5. CASE ResetThrows
  BY <1>0, <1>5 DEF ResetThrows, PathStored, disk
<1> QED BY <1>1, <1>2, <1>3, <1>4, <1>5 DEF Reset

LEMMA CoreFaults == CoreInv /\ (WriteFails \/ Restart) => DiskInv' /\ MemoryInv'
<1> SUFFICES ASSUME CoreInv, WriteFails \/ Restart, ~torn, ~torn'
             PROVE  PathStored' /\ tip' = best'
  BY TornStays DEF DiskInv, MemoryInv
<1>1. UNCHANGED disk /\ tip' = best
  BY DEF WriteFails, Restart, CoreInv, MemoryInv, disk
<1> QED BY <1>1 DEF CoreInv, DiskInv, PathStored, disk

LEMMA CoreInductive == Spec => []CoreInv
<1>1. Init => CoreInv
  BY CoreInit
<1>2. CoreInv /\ TypeOK' /\ [Next]_vars => CoreInv'
  <2> SUFFICES ASSUME CoreInv, TypeOK', [Next]_vars PROVE DiskInv' /\ MemoryInv'
    BY DEF CoreInv
  <2>1. CASE UNCHANGED vars
    BY <2>1 DEF CoreInv, DiskInv, PathStored, MemoryInv, Removing, vars, disk
  <2>2. ASSUME NEW j \in Jobs, Submit(j) PROVE DiskInv' /\ MemoryInv'
    BY <2>2 DEF Submit, CoreInv, DiskInv, PathStored, MemoryInv, Removing, disk
  <2> QED BY <2>1, <2>2, CoreAdd, CoreConnect, CoreReset, CoreFaults DEF Next, HolderStep
<1> QED BY <1>1, <1>2, TypeCorrect, PTL DEF Spec

------------------------------------------------------------------------------
(***************************************************************************)
(* The unspent outputs are always those of the stored tip, through         *)
(* reorganizations, resets, failed verifications, failed writes and stops. *)
(***************************************************************************)
THEOREM CoinsCorrect == Spec => []CoinsMatch
<1>1. CoreInv => CoinsMatch
  BY DEF CoreInv, DiskInv, PathStored, CoinsMatch
<1> QED BY <1>1, CoreInductive, PTL

(***************************************************************************)
(* The indexes are always those of the path to the stored tip, and every   *)
(* block of it can be disconnected.                                        *)
(***************************************************************************)
THEOREM StoredCorrect == Spec => []ChainStored
<1>1. CoreInv => ChainStored
  BY DEF CoreInv, DiskInv, PathStored, ChainStored, Reversible
<1> QED BY <1>1, CoreInductive, PTL

(***************************************************************************)
(* Chain.tip and the stored tip agree whenever no reset is under way.      *)
(***************************************************************************)
THEOREM TipCorrect == Spec => []TipIsBest
<1>1. CoreInv => TipIsBest
  BY DEF CoreInv, MemoryInv, TipIsBest
<1> QED BY <1>1, CoreInductive, PTL

------------------------------------------------------------------------------
Cause(b) ==
  \E a \in Path[b] : Unsound(a) \/ \E j \in Jobs : j.kind = "invalidate" /\ j.block = a

(* What fails on the coins of the parent is unsound.                       *)
LEMMA FailureIsUnsound ==
  ASSUME PathStored, NEW b \in Block \ {Genesis}, Parent[b] = best,
         ~ContextVerified(b, "sound")
  PROVE  Cause(b)
  BY TreeTypes DEF PathStored, ContextVerified, Verified, Cause, Unsound

LEMMA CauseStep ==
  ASSUME CoreInv, TypeOK', CondemnedForCause, [Next]_vars
  PROVE  CondemnedForCause'
<1> SUFFICES ASSUME ~torn, NEW b \in invalid', b \notin invalid, b \in Block PROVE Cause(b)
  <2>1. torn => torn'
    BY TornStays DEF Next, HolderStep, Add, RefuseDuplicate, RefuseInvalid, StoreOrphan,
                     StartConnect, Submit, vars
  <2> QED BY <2>1 DEF CondemnedForCause, Cause, TypeOK
<1>0. TypeOK /\ PathStored
  BY DEF CoreInv, DiskInv
<1>1. CASE RefuseInvalid
  <2>1. b = Head(jobs).block /\ b # Genesis /\ Parent[b] \in invalid
    BY <1>1 DEF RefuseInvalid, HasInvalid, Unseen
  <2>2. Cause(Parent[b])
    BY <2>1 DEF CondemnedForCause, Cause
  <2> QED BY <2>1, <2>2, Above DEF Cause
<1>2. CASE RefuseBlock
  <2>1. b = holder.block /\ holder.form = "sound" /\ b \in Block \ {Genesis}
    BY <1>0, <1>2, HolderType DEF RefuseBlock, Condemn, Forms
  <2>2. CASE Alternate /\ ~Verified(b, holder.form)
    BY <2>1, <2>2, TreeTypes DEF Verified, Cause, Unsound
  <2>3. CASE Extends /\ ~ContextVerified(b, holder.form)
    <3>1. Parent[b] = best
      BY <2>1, <2>3, <1>2 DEF Extends, CoreInv, MemoryInv, RefuseBlock, Connecting, Removing
    <3> QED BY <1>0, <2>1, <2>3, <3>1, FailureIsUnsound
  <2> QED BY <1>2, <2>1, <2>2, <2>3 DEF RefuseBlock
<1>3. ASSUME NEW c \in Block, ReconnectFails(c) PROVE Cause(b)
  <2>1. b = c /\ c \in Block \ {Genesis} /\ Parent[c] = best
    BY <1>3 DEF ReconnectFails, Condemn, NextUp, CoreInv, MemoryInv, Connecting, Removing
  <2> QED BY <1>0, <1>3, <2>1, FailureIsUnsound DEF ReconnectFails
<1>4. CASE FinishReset
  <2>1. Head(jobs) \in Jobs /\ Head(jobs).kind = "invalidate" /\ b = Head(jobs).block
    BY <1>0, <1>4, RemovingType, HeadType DEF FinishReset
  <2> QED BY <2>1, TreeTypes DEF Cause
<1>5. invalid' \subseteq invalid \/ RefuseInvalid \/ RefuseBlock
        \/ (\E c \in Block : ReconnectFails(c)) \/ FinishReset
  BY DEF Next, HolderStep, Add, RefuseDuplicate, StoreOrphan, StartConnect, Submit, Connect,
         SaveAlternate, SetBestChain, Disconnect, ReorganizeThrows, Reconnect, Reset,
         RefuseReset, RemoveChains, RemoveBlock, ResetThrows, WriteFails, Restart, vars
<1> QED BY <1>1, <1>2, <1>3, <1>4, <1>5

(***************************************************************************)
(* A block is condemned only for what it or an ancestor does on its own    *)
(* branch, or because a caller named it.                                   *)
(***************************************************************************)
THEOREM CondemnedCorrect == Spec => []CondemnedForCause
<1>1. Init => CondemnedForCause
  BY DEF Init, CondemnedForCause
<1>2. CoreInv /\ CoreInv' /\ CondemnedForCause /\ [Next]_vars => CondemnedForCause'
  BY CauseStep DEF CoreInv
<1> QED BY <1>1, <1>2, CoreInductive, PTL DEF Spec

------------------------------------------------------------------------------
(***************************************************************************)
(* While a block is being connected, no orphan has its hash: the save does *)
(* not turn an orphan into a stored block behind the back of orphanMap.    *)
(***************************************************************************)
Detached ==
  /\ \A o \in orphans : o.block \notin entries /\ Parent[o.block] \notin entries
  /\ \A o, q \in orphans : o.block = q.block \/ Parent[o.block] = Parent[q.block] => o = q

Few(n) == n <= (IF MaxOrphans = 0 THEN 1 ELSE MaxOrphans)

OrphansInv ==
  /\ Detached
  /\ Connecting => \A o \in orphans : o.block # holder.block
  /\ IsFiniteSet(orphans) /\ Few(Cardinality(orphans))

(* A step that only drops orphans and stores nothing new.                  *)
LEMMA OrphansDrop ==
  ASSUME OrphansInv, orphans' \subseteq orphans, entries' \subseteq entries,
         holder'.at # "connect" \/ (holder'.block = holder.block /\ Connecting)
  PROVE  OrphansInv'
<1>1. IsFiniteSet(orphans') /\ Few(Cardinality(orphans'))
  <2>1. /\ IsFiniteSet(orphans') /\ Cardinality(orphans') <= Cardinality(orphans)
        /\ Cardinality(orphans') \in Nat /\ Cardinality(orphans) \in Nat
    BY FS_Subset, FS_CardinalityType DEF OrphansInv
  <2> QED BY <2>1, JobAssumption DEF OrphansInv, Few
<1> QED BY <1>1 DEF OrphansInv, Detached, Connecting

(* The commit that stores b, and the orphan on b that it hands over.       *)
LEMMA OrphansSaved ==
  ASSUME TypeOK, OrphansInv, Connecting, SaveEntry(holder.block), Resolve(holder.block)
  PROVE  OrphansInv'
<1> DEFINE b == holder.block
<1>1. CASE Finish /\ UNCHANGED orphans /\ \A o \in orphans : Parent[o.block] # b
  BY <1>1 DEF OrphansInv, Detached, SaveEntry, Finish, Idle, Connecting
<1>2. ASSUME NEW o \in orphans, Parent[o.block] = b, orphans' = orphans \ {o},
             holder' = [at |-> "connect", block |-> o.block, form |-> o.form, moved |-> FALSE]
      PROVE  OrphansInv'
  <2>1. IsFiniteSet(orphans') /\ Few(Cardinality(orphans'))
    <3>1. IsFiniteSet(orphans') /\ Cardinality(orphans') = Cardinality(orphans) - 1
          /\ Cardinality(orphans) \in Nat
      BY <1>2, FS_RemoveElement, FS_CardinalityType DEF OrphansInv
    <3> QED BY <3>1, JobAssumption DEF OrphansInv, Few
  <2>2. \A q \in orphans' : q.block # o.block /\ Parent[q.block] # b
    BY <1>2 DEF OrphansInv, Detached
  <2>3. Detached'
    BY <1>2, <2>2 DEF OrphansInv, Detached, SaveEntry
  <2> QED BY <1>2, <2>1, <2>2, <2>3 DEF OrphansInv
<1> QED BY <1>1, <1>2 DEF Resolve

(* What limitOrphans leaves has room for one more.                         *)
LEMMA RoomForOne ==
  ASSUME OrphansInv, NEW young \in SUBSET orphans,
         NEW dropped \in IF Cardinality(young) < MaxOrphans \/ young = {}
                           THEN {{}} ELSE {{o} : o \in young}, NEW o
  PROVE  /\ IsFiniteSet((young \ dropped) \cup {o})
         /\ Few(Cardinality((young \ dropped) \cup {o}))
<1>1. IsFiniteSet(young) /\ Cardinality(young) \in Nat /\ Few(Cardinality(young))
  <2>1. IsFiniteSet(young) /\ Cardinality(young) <= Cardinality(orphans)
        /\ Cardinality(young) \in Nat /\ Cardinality(orphans) \in Nat
    BY FS_Subset, FS_CardinalityType DEF OrphansInv
  <2> QED BY <2>1, JobAssumption DEF OrphansInv, Few
<1>2. CASE Cardinality(young) < MaxOrphans \/ young = {}
  <2>1. young \ dropped = young
    BY <1>2
  <2>2. Cardinality(young \cup {o}) \in {Cardinality(young), Cardinality(young) + 1}
        /\ IsFiniteSet(young \cup {o})
    BY <1>1, FS_AddElement
  <2>3. young = {} => Cardinality(young) = 0
    BY FS_EmptySet
  <2> QED BY <1>1, <1>2, <2>1, <2>2, <2>3, JobAssumption DEF Few
<1>3. CASE ~(Cardinality(young) < MaxOrphans \/ young = {})
  <2>1. PICK q \in young : dropped = {q}
    BY <1>3
  <2> DEFINE rest == young \ {q}
  <2>2. IsFiniteSet(rest) /\ Cardinality(rest) = Cardinality(young) - 1
    BY <1>1, <2>1, FS_RemoveElement
  <2>3. Cardinality(rest \cup {o}) \in {Cardinality(rest), Cardinality(rest) + 1}
        /\ IsFiniteSet(rest \cup {o})
    BY <2>2, FS_AddElement
  <2>4. Cardinality(rest \cup {o}) <= Cardinality(young)
    BY <1>1, <2>2, <2>3
  <2>5. Cardinality(rest \cup {o}) \in Nat
    BY <2>3, FS_CardinalityType
  <2>6. Few(Cardinality(rest \cup {o}))
    BY <1>1, <2>4, <2>5, JobAssumption DEF Few
  <2> QED BY <2>1, <2>3, <2>6
<1> QED BY <1>2, <1>3

LEMMA OrphansStored ==
  ASSUME TypeOK, OrphansInv, StoreOrphan
  PROVE  OrphansInv'
<1> DEFINE b == Head(jobs).block
           new == [block |-> b, form |-> Head(jobs).form]
           unforked == {o \in orphans : Parent[o.block] # Parent[b]}
<1>1. PICK young \in SUBSET unforked :
        \E dropped \in IF Cardinality(young) < MaxOrphans \/ young = {}
                         THEN {{}} ELSE {{o} : o \in young} :
          orphans' = (young \ dropped) \cup {new}
  BY DEF StoreOrphan
<1>2. PICK dropped \in IF Cardinality(young) < MaxOrphans \/ young = {}
                         THEN {{}} ELSE {{o} : o \in young} :
        orphans' = (young \ dropped) \cup {new}
  BY <1>1
<1>3. IsFiniteSet(orphans') /\ Few(Cardinality(orphans'))
  BY <1>2, RoomForOne
<1>4. b \notin entries /\ Parent[b] \notin entries /\ entries' = entries
      /\ \A o \in young : o.block # b /\ Parent[o.block] # Parent[b]
  BY DEF StoreOrphan, Unseen, HasOrphan, disk
<1>5. Detached'
  BY <1>2, <1>4 DEF OrphansInv, Detached
<1> QED BY <1>3, <1>5 DEF OrphansInv, StoreOrphan, Finish, Idle, Connecting

LEMMA OrphansStep ==
  ASSUME TypeOK, OrphansInv, [Next]_vars
  PROVE  OrphansInv'
<1>1. CASE StoreOrphan
  BY <1>1, OrphansStored
<1>2. CASE StartConnect
  BY <1>2 DEF StartConnect, OrphansInv, Detached, Unseen, HasOrphan, Connecting, disk
<1>3. CASE SaveAlternate \/ SetBestChain
  BY <1>3, OrphansSaved DEF SaveAlternate, SetBestChain
<1>4. CASE Disconnect \/ \E c \in Block : Reconnect(c)
  <2>1. /\ orphans' = orphans /\ entries' = entries
        /\ holder' = [holder EXCEPT !.moved = TRUE] /\ Connecting
    BY <1>4 DEF Disconnect, Reconnect
  <2>2. holder'.block = holder.block
    BY <2>1, HolderType DEF HolderRecord
  <2> QED BY <2>1, <2>2, OrphansDrop
<1>5. CASE (\E j \in Jobs : Submit(j)) \/ UNCHANGED vars
  BY <1>5 DEF Submit, OrphansInv, Detached, Connecting, vars, disk
<1>6. CASE RefuseDuplicate \/ RefuseInvalid \/ RefuseBlock \/ ReorganizeThrows
           \/ (\E c \in Block : ReconnectFails(c)) \/ Reset \/ WriteFails \/ Restart
  <2>1. orphans' \subseteq orphans /\ entries' \subseteq entries /\ holder'.at # "connect"
    BY <1>6 DEF RefuseDuplicate, RefuseInvalid, RefuseBlock, ReorganizeThrows, ReconnectFails,
           Reset, RefuseReset, RemoveChains, RemoveBlock, FinishReset, ResetThrows, WriteFails,
           Restart, Finish, Idle, Removing, disk
  <2> QED BY <2>1, OrphansDrop
<1> QED BY <1>1, <1>2, <1>3, <1>4, <1>5, <1>6 DEF Next, HolderStep, Add, Connect

(***************************************************************************)
(* No orphan is stored or has a stored parent, the maps of orphans agree,  *)
(* and their number is bounded.                                            *)
(***************************************************************************)
THEOREM OrphansCorrect == Spec => []OrphansDetached
<1>1. Init => OrphansInv
  BY FS_EmptySet, JobAssumption DEF Init, OrphansInv, Detached, Few, Connecting, Idle
<1>2. TypeOK /\ OrphansInv /\ [Next]_vars => OrphansInv'
  BY OrphansStep
<1>3. OrphansInv => OrphansDetached
  BY DEF OrphansInv, Detached, Few, OrphansDetached
<1> QED BY <1>1, <1>2, <1>3, TypeCorrect, PTL DEF Spec
==============================================================================
