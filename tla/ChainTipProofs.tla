--------------------------- MODULE ChainTipProofs ----------------------------
(***************************************************************************)
(* What holds of the block tree that Chain stores, for every tree, every   *)
(* set of jobs and every bound: the tip is the heaviest stored block, and  *)
(* the listed tips lead to everything that is stored.                      *)
(***************************************************************************)
EXTENDS ChainProofs, WellFoundedInduction

------------------------------------------------------------------------------
(***************************************************************************)
(* Paths are closed under ancestors, and ancestors have no more work.  The *)
(* assumptions only speak of parents: the lowest block for which it fails  *)
(* would have a parent for which it holds.                                 *)
(***************************************************************************)
Rooted(b) == \A a \in Path[b] : Path[a] \subseteq Path[b] /\ Chainwork[a] <= Chainwork[b]

LEMMA AllRooted == \A b \in Block : Rooted(b)
<1> DEFINE T == {Height[b] : b \in {c \in Block : ~Rooted(c)}}
           R == OpToRel(<, Nat)
<1> SUFFICES ASSUME T # {} PROVE FALSE
  OBVIOUS
<1>1. \A x, y \in Nat : <<x, y>> \in R <=> x < y
  BY DEF OpToRel
<1>2. IsWellFoundedOn(R, Nat)
  BY NatLessThanWellFounded
<1>3. T \subseteq Nat
  BY TreeTypes
<1> HIDE DEF R, T
<1>4. PICK h \in T : \A i \in T : ~(<<i, h>> \in R)
  BY <1>2, <1>3, WFMin
<1>5. \A i \in T : ~(i < h)
  BY <1>1, <1>3, <1>4
<1>6. PICK b \in Block : h = Height[b] /\ ~Rooted(b)
  BY DEF T
<1>7. CASE b = Genesis
  BY <1>6, <1>7, ReferenceAssumption, TreeAssumption DEF Rooted
<1>8. CASE b # Genesis
  <2>1. Parent[b] \in Block /\ Height[Parent[b]] < h /\ Path[b] = Path[Parent[b]] \cup {b}
        /\ Chainwork[b] > Chainwork[Parent[b]]
    BY <1>6, <1>8, Above, TreeTypes, TreeAssumption
  <2>2. Height[Parent[b]] \notin T
    BY <1>5, <2>1
  <2>3. Rooted(Parent[b])
    BY <2>1, <2>2 DEF T
  <2>4. \A a \in Block : Chainwork[a] \in Nat
    BY TreeAssumption
  <2>5. Path[Parent[b]] \subseteq Block
    BY <2>1, TreeTypes
  <2>6. ASSUME NEW a \in Path[Parent[b]]
        PROVE  Path[a] \subseteq Path[b] /\ Chainwork[a] <= Chainwork[b]
    <3>1. /\ Chainwork[a] \in Nat /\ Chainwork[b] \in Nat /\ Chainwork[Parent[b]] \in Nat
      BY <2>1, <2>4, <2>5
    <3>2. Path[a] \subseteq Path[Parent[b]] /\ Chainwork[a] <= Chainwork[Parent[b]]
      BY <2>3 DEF Rooted
    <3> QED BY <2>1, <3>1, <3>2
  <2>7. Path[b] \subseteq Path[b] /\ Chainwork[b] <= Chainwork[b]
    BY <2>4
  <2>8. Rooted(b)
    BY <2>1, <2>6, <2>7 DEF Rooted
  <2> QED BY <1>6, <2>8
<1> QED BY <1>7, <1>8

------------------------------------------------------------------------------
(***************************************************************************)
(* A key n leads to a child.                                               *)
(***************************************************************************)
KeysLead ==
  \A a \in Block : next[a] # None => next[a] \in Block \ {Genesis} /\ Parent[next[a]] = a

LEMMA KeyAdded ==
  ASSUME TypeOK, KeysLead, NEW b \in Block \ {Genesis},
         next' = [next EXCEPT ![Parent[b]] = b]
  PROVE  KeysLead'
  BY DEF KeysLead, TypeOK

LEMMA KeyRemoved ==
  ASSUME TypeOK, KeysLead, NEW a \in Block, next' = [next EXCEPT ![a] = None]
  PROVE  KeysLead'
  BY DEF KeysLead, TypeOK

(***************************************************************************)
(* As long as no reorganization was cut short and no reset is torn.  While *)
(* a reorganization is under way the stored tip is neither listed nor the  *)
(* heaviest, but the block it makes room for is heavier than all.          *)
(***************************************************************************)
ListedInv ==
  /\ \A b \in entries : Path[b] \subseteq entries /\ \E t \in tips : b \in Path[t]
  /\ ~holder.moved => best \in tips
  /\ Removing => ~holder.moved /\ entries \subseteq Path[best]
  /\ Connecting => Parent[holder.block] \in entries
  /\ \A b \in entries : IF holder.moved THEN Chainwork[b] < Chainwork[holder.block]
                                        ELSE Chainwork[b] <= Chainwork[best]
  /\ KeysLead

TreeInv == cut \/ torn \/ ListedInv

LEMMA TreeInit == Init => TreeInv
<1> SUFFICES ASSUME Init PROVE ListedInv
  BY DEF TreeInv
<1>1. Path[Genesis] = {Genesis} /\ Chainwork[Genesis] \in Nat
  BY ReferenceAssumption, TreeAssumption
<1> QED BY <1>1 DEF Init, ListedInv, KeysLead, Idle, Connecting, Removing

(* A step that stores nothing and ends the job, or goes on as it was.      *)
LEMMA ListedQuiet ==
  ASSUME ListedInv, UNCHANGED <<entries, tips, next, best>>,
         \/ UNCHANGED holder
         \/ holder' = Idle /\ ~holder.moved
  PROVE  ListedInv'
  BY DEF ListedInv, KeysLead, Connecting, Removing, Idle

(* Once a reorganization has moved the tip, its block is not an alternate. *)
LEMMA MovedHeavier ==
  ASSUME CoreInv, ~torn, ListedInv, Connecting, holder.moved PROVE ~Alternate
<1>1. /\ tip = best /\ best \in entries /\ holder.block \in Block /\ best \in Block
  BY HolderType, TreeTypes DEF CoreInv, MemoryInv, DiskInv, PathStored, Connecting, Removing,
                               TypeOK
<1>2. Chainwork[best] < Chainwork[holder.block]
  BY <1>1 DEF ListedInv
<1> QED BY <1>1, <1>2, TreeAssumption DEF Alternate

(* The commit that stores a block as one more head.                        *)
LEMMA SavedListed ==
  ASSUME CoreInv, ~torn, ListedInv, Connecting, SaveEntry(holder.block)
  PROVE  /\ \A b \in entries' : Path[b] \subseteq entries' /\ \E t \in tips' : b \in Path[t]
         /\ holder.block \in tips'
<1> DEFINE h == holder.block
           p == Parent[holder.block]
<1>1. /\ h \in Block \ {Genesis} /\ p \in Block /\ p \in entries
      /\ entries' = entries \cup {h} /\ tips' = (tips \ {p}) \cup {h}
      /\ Path[h] = Path[p] \cup {h}
  BY HolderType, Above DEF CoreInv, ListedInv, SaveEntry
<1> HIDE DEF h, p
<1>2. Path[h] \subseteq entries'
  BY <1>1 DEF ListedInv
<1>3. \A b \in entries' : \E t \in tips' : b \in Path[t]
  <2>1. h \in tips' /\ h \in Path[h] /\ Path[p] \subseteq Path[h]
    BY <1>1
  <2>2. ASSUME NEW b \in entries PROVE \E t \in tips' : b \in Path[t]
    <3>1. PICK t \in tips : b \in Path[t]
      BY DEF ListedInv
    <3> QED BY <1>1, <2>1, <3>1
  <2> QED BY <1>1, <2>1, <2>2
<1> QED BY <1>1, <1>2, <1>3 DEF ListedInv, h

(* What Resolve leaves the holder with.                                    *)
LEMMA Resolved ==
  ASSUME NEW b \in Block, Resolve(b)
  PROVE  ~holder'.moved /\ holder'.at # "blocks"
         /\ (holder'.at = "connect" => Parent[holder'.block] = b)
<1>1. CASE Finish
  BY <1>1 DEF Finish, Idle
<1>2. CASE \E o \in orphans :
             /\ Parent[o.block] = b
             /\ holder' = [at |-> "connect", block |-> o.block, form |-> o.form, moved |-> FALSE]
  BY <1>2
<1> QED BY <1>1, <1>2 DEF Resolve

LEMMA TreeConnect ==
  ASSUME CoreInv, ~torn, ListedInv, Connect, ~cut'
  PROVE  ListedInv'
<1> DEFINE h == holder.block
<1>0. /\ Connecting /\ TypeOK /\ PathStored /\ tip = best
      /\ h \in Block \ {Genesis} /\ Parent[h] \in Block /\ best \in Block
      /\ h \in entries' => ~Removing
      /\ \A b \in Block : Chainwork[b] \in Nat
      /\ entries \subseteq Block
  BY HolderType, TreeTypes, TreeAssumption
     DEF Connect, SaveAlternate, SetBestChain, RefuseBlock, Disconnect, ReorganizeThrows,
         Reconnect, ReconnectFails, CoreInv, DiskInv, MemoryInv, Connecting, Removing, TypeOK
<1>1. CASE SaveAlternate
  <2>1. ~holder.moved /\ Chainwork[h] <= Chainwork[best]
    BY <1>0, <1>1, MovedHeavier DEF SaveAlternate, Alternate
  <2>2. Parent[h] # best
    BY <1>0, <2>1, TreeAssumption
  <2>3. best \in tips'
    BY <1>1, <2>1, <2>2 DEF SaveAlternate, SaveEntry, ListedInv
  <2>4. \A b \in entries' : Chainwork[b] <= Chainwork[best]
    BY <1>1, <2>1 DEF SaveAlternate, SaveEntry, ListedInv
  <2>5. ~holder'.moved /\ ~Removing' /\ (Connecting' => Parent[holder'.block] = h)
    BY <1>0, <1>1, Resolved DEF SaveAlternate, Removing, Connecting
  <2>6. h \in entries'
    BY <1>1 DEF SaveAlternate, SaveEntry
  <2>7. UNCHANGED <<best, next>>
    BY <1>1 DEF SaveAlternate
  <2>8. \A b \in entries' : Path[b] \subseteq entries' /\ \E t \in tips' : b \in Path[t]
    BY <1>0, <1>1, SavedListed DEF SaveAlternate
  <2> QED BY <2>3, <2>4, <2>5, <2>6, <2>7, <2>8 DEF ListedInv, KeysLead
<1>2. CASE SetBestChain
  <2>1. \A b \in entries' : Chainwork[b] <= Chainwork[h]
    <3>1. Chainwork[best] < Chainwork[h]
      BY <1>0, <1>2 DEF SetBestChain, Extends, Alternate
    <3> QED BY <1>0, <1>2, <3>1 DEF SetBestChain, SaveEntry, ListedInv
  <2>2. ~holder'.moved /\ ~Removing' /\ (Connecting' => Parent[holder'.block] = h)
    BY <1>0, <1>2, Resolved DEF SetBestChain, Removing, Connecting
  <2>3. h \in entries' /\ best' = h /\ next' = [next EXCEPT ![Parent[h]] = h]
    BY <1>2 DEF SetBestChain, SaveEntry, IndexMain
  <2>4. /\ \A b \in entries' : Path[b] \subseteq entries' /\ \E t \in tips' : b \in Path[t]
        /\ h \in tips'
    BY <1>0, <1>2, SavedListed DEF SetBestChain
  <2>5. KeysLead'
    BY <1>0, <2>3, KeyAdded DEF ListedInv
  <2> QED BY <2>1, <2>2, <2>3, <2>4, <2>5 DEF ListedInv
<1>3. CASE RefuseBlock \/ ReorganizeThrows \/ \E c \in Block : ReconnectFails(c)
  <2>1. ~holder.moved /\ holder' = Idle /\ UNCHANGED disk
    BY <1>3 DEF RefuseBlock, ReorganizeThrows, ReconnectFails, Finish
  <2> QED BY <2>1, ListedQuiet DEF disk
<1>4. CASE Disconnect \/ \E c \in Block : Reconnect(c)
  <2>1. /\ UNCHANGED <<entries, tips>> /\ Reorganizes
        /\ holder' = [holder EXCEPT !.moved = TRUE] /\ holder \in HolderRecord
    BY <1>0, <1>4, HolderType DEF Disconnect, Reconnect
  <2>2. holder'.moved /\ holder'.at = "connect" /\ holder'.block = h
    BY <1>0, <2>1 DEF HolderRecord, Connecting
  <2>3. \A b \in entries : Chainwork[b] < Chainwork[h]
    <3>1. Chainwork[best] < Chainwork[h]
      BY <1>0, <2>1 DEF Reorganizes, Alternate
    <3> QED BY <1>0, <3>1 DEF ListedInv
  <2>4. KeysLead'
    <3>1. CASE Disconnect
      <4>1. tip # Genesis
        BY <1>0, <3>1, TreeTypes DEF Disconnect
      <4>2. next' = [next EXCEPT ![Parent[tip]] = None] /\ Parent[tip] \in Block
        BY <1>0, <3>1, <4>1, Above DEF Disconnect, UnindexMain
      <4> QED BY <1>0, <4>2, KeyRemoved DEF ListedInv
    <3>2. ASSUME NEW c \in Block, Reconnect(c) PROVE KeysLead'
      <4>1. c # Genesis /\ next' = [next EXCEPT ![Parent[c]] = c]
        BY <3>2 DEF Reconnect, NextUp, IndexMain
      <4> QED BY <1>0, <4>1, KeyAdded DEF ListedInv
    <3> QED BY <1>4, <3>1, <3>2
  <2> HIDE DEF h
  <2>5. Connecting' /\ ~Removing' /\ (Parent[h] \in entries)
    BY <1>0, <2>2 DEF Connecting, Removing, ListedInv, h
  <2> QED BY <2>1, <2>2, <2>3, <2>4, <2>5 DEF ListedInv
<1> QED BY <1>1, <1>2, <1>3, <1>4 DEF Connect

(* By its key n the code finds the blocks of the path to the stored tip.   *)
LEMMA MainIsPath ==
  ASSUME CoreInv, ~torn, KeysLead, NEW b \in Block
  PROVE  IsMain(b) <=> b \in Path[best]
<1>1. PathStored /\ best \in Block /\ best \in Path[best] /\ Genesis \in Path[best]
  BY TreeTypes DEF CoreInv, DiskInv, TypeOK
<1>2. ASSUME next[b] # None PROVE b \in Path[best]
  <2>1. next[b] \in Block \ {Genesis} /\ Parent[next[b]] = b
    BY <1>2 DEF KeysLead
  <2>2. next[b] \in Path[best]
    BY <1>1, <2>1 DEF PathStored
  <2>3. Path[next[b]] \subseteq Path[best]
    BY <1>1, <2>2, AllRooted DEF Rooted
  <2>4. b \in Path[next[b]]
    BY <2>1, Above, TreeTypes
  <2> QED BY <2>3, <2>4
<1> QED BY <1>1, <1>2 DEF IsMain, PathStored

LEMMA TreeReset ==
  ASSUME CoreInv, CoreInv', ~torn, ~torn', ListedInv, Reset
  PROVE  ListedInv'
<1>0. /\ TypeOK /\ PathStored /\ PathStored' /\ best \in Block
      /\ \A b \in Path[best] : Path[b] \subseteq Path[best] /\ Chainwork[b] <= Chainwork[best]
      /\ best \in Path[best] /\ entries \subseteq Block
  BY AllRooted, TreeTypes DEF CoreInv, DiskInv, Rooted, TypeOK
<1>1. CASE RefuseReset
  <2>1. ~holder.moved /\ holder' = Idle /\ UNCHANGED disk
    BY <1>1 DEF RefuseReset, Starts, Finish, Idle
  <2> QED BY <2>1, ListedQuiet DEF disk
<1>2. CASE RemoveChains
  <2>1. /\ ~holder.moved /\ UNCHANGED <<best, next>>
        /\ entries' = entries \ Alternates /\ tips' = tips \ Alternates
        /\ holder'.at = "blocks" /\ ~holder'.moved
    BY <1>2 DEF RemoveChains, ResetStarts, Starts, Idle
  <2>2. entries' \subseteq Path[best]
    <3> SUFFICES ASSUME NEW b \in entries, b \notin Alternates PROVE b \in Path[best]
      BY <2>1
    <3>1. PICK t \in tips : b \in Path[t]
      BY DEF ListedInv
    <3>2. IsMain(b)
      BY <3>1 DEF Alternates
    <3> QED BY <1>0, <3>2, MainIsPath DEF ListedInv
  <2>3. Path[best] \subseteq entries'
    BY <1>0, <2>1 DEF PathStored
  <2>4. best \in tips'
    BY <1>0, <2>1, MainIsPath DEF ListedInv, Alternates
  <2> QED BY <1>0, <2>1, <2>2, <2>3, <2>4 DEF ListedInv, KeysLead, Connecting
<1>3. CASE RemoveBlock
  <2> DEFINE p == Parent[best]
  <2>1. /\ best \in Block \ {Genesis} /\ ~holder.moved /\ entries \subseteq Path[best]
        /\ entries' = entries \ {best} /\ p \in tips' /\ best' = p
        /\ next' = [next EXCEPT ![p] = None] /\ UNCHANGED holder
    BY <1>0, <1>3 DEF RemoveBlock, UnindexMain, ListedInv
  <2>2. Path[best] = Path[p] \cup {best} /\ p \in Block
    BY <2>1, Above
  <2>3. entries' \subseteq Path[p] /\ Path[p] \subseteq entries'
    BY <1>0, <2>1, <2>2 DEF PathStored
  <2>4. \A b \in Path[p] : Path[b] \subseteq Path[p] /\ Chainwork[b] <= Chainwork[p]
    BY <2>2, AllRooted DEF Rooted
  <2>5. KeysLead'
    BY <1>0, <2>1, <2>2, KeyRemoved DEF ListedInv
  <2>6. ~Connecting' /\ ~holder'.moved
    BY <1>3, <2>1 DEF RemoveBlock, Removing, Connecting
  <2> HIDE DEF p
  <2> QED BY <2>1, <2>3, <2>4, <2>5, <2>6 DEF ListedInv
<1>4. CASE FinishReset \/ ResetThrows
  <2>1. ~holder.moved /\ holder' = Idle /\ UNCHANGED disk
    BY <1>4 DEF FinishReset, ResetThrows, Finish, ListedInv
  <2> QED BY <2>1, ListedQuiet DEF disk
<1> QED BY <1>1, <1>2, <1>3, <1>4 DEF Reset

LEMMA TreeStep ==
  ASSUME CoreInv, CoreInv', TreeInv, [Next]_vars
  PROVE  TreeInv'
<1>0. cut => cut'
  BY DEF Next, HolderStep, Add, RefuseDuplicate, RefuseInvalid, StoreOrphan, StartConnect,
         Submit, Connect, SaveAlternate, SetBestChain, RefuseBlock, Disconnect,
         ReorganizeThrows, Reconnect, ReconnectFails, Reset, RefuseReset, RemoveChains,
         RemoveBlock, FinishReset, ResetThrows, WriteFails, Restart, vars
<1>1. torn => torn'
  BY TornStays DEF Next, HolderStep, Add, RefuseDuplicate, RefuseInvalid, StoreOrphan,
                   StartConnect, Submit, vars
<1> SUFFICES ASSUME ListedInv, ~cut, ~torn, ~cut', ~torn' PROVE ListedInv'
  BY <1>0, <1>1 DEF TreeInv
<1>2. CASE Add
  <2>1. CASE StartConnect
    BY <2>1 DEF StartConnect, Starts, Idle, disk, ListedInv, KeysLead, Connecting, Removing
  <2>2. CASE ~StartConnect
    <3>1. ~holder.moved /\ holder' = Idle /\ UNCHANGED disk
      BY <1>2, <2>2 DEF Add, RefuseDuplicate, RefuseInvalid, StoreOrphan, Starts, Finish, Idle
    <3> QED BY <3>1, ListedQuiet DEF disk
  <2> QED BY <2>1, <2>2
<1>3. CASE WriteFails \/ Restart
  <2>1. ~holder.moved /\ holder' = Idle /\ UNCHANGED disk
    BY <1>3 DEF WriteFails, Restart, Finish
  <2> QED BY <2>1, ListedQuiet DEF disk
<1>4. CASE (\E j \in Jobs : Submit(j)) \/ UNCHANGED vars
  BY <1>4, ListedQuiet DEF Submit, vars, disk
<1> QED BY <1>2, <1>3, <1>4, TreeConnect, TreeReset DEF Next, HolderStep

LEMMA TreeAlways == Spec => []TreeInv
<1>1. CoreInv /\ CoreInv' /\ TreeInv /\ [Next]_vars => TreeInv'
  BY TreeStep
<1> QED BY <1>1, TreeInit, CoreInductive, PTL DEF Spec

------------------------------------------------------------------------------
(***************************************************************************)
(* While the lock is free no stored block has more work than the tip,      *)
(* unless a reorganization was cut short or a reset is torn.               *)
(***************************************************************************)
THEOREM HeaviestCorrect == Spec => []TipIsHeaviest
<1>1. TreeInv => TipIsHeaviest
  BY DEF TreeInv, ListedInv, TipIsHeaviest, Idle
<1> QED BY <1>1, TreeAlways, PTL

(***************************************************************************)
(* The listed tips lead to every stored block, with the same exceptions:   *)
(* what removeChains relies on.                                            *)
(***************************************************************************)
THEOREM ListedCorrect == Spec => []AlternatesListed
<1>1. TreeInv => AlternatesListed
  BY DEF TreeInv, ListedInv, AlternatesListed
<1> QED BY <1>1, TreeAlways, PTL
==============================================================================
