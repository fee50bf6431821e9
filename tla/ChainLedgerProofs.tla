-------------------------- MODULE ChainLedgerProofs ---------------------------
(***************************************************************************)
(* Chain implements Ledger, for every tree, every set of jobs and every    *)
(* bound, with faults and without; and its jobs find what they walk over.  *)
(***************************************************************************)
EXTENDS ChainTipProofs

------------------------------------------------------------------------------
(***************************************************************************)
(* Chain.findFork stops on a block of both paths, the highest of them.     *)
(***************************************************************************)
LEMMA PathHeights ==
  ASSUME NEW b \in Block
  PROVE  \A a \in Path[b] : a \in Block /\ Height[a] \in Nat /\ Height[a] <= Height[b]
<1>1. CASE b = Genesis
  BY <1>1, ReferenceAssumption, TreeAssumption
<1>2. CASE b # Genesis
  BY <1>2, Above, TreeTypes, TreeAssumption
<1> QED BY <1>1, <1>2

LEMMA ForkIsHighest ==
  ASSUME NEW t \in Block, NEW b \in Block
  PROVE  /\ Fork(t, b) \in Path[t] \cap Path[b]
         /\ \A a \in Path[t] \cap Path[b] : Height[a] <= Height[Fork(t, b)]
<1> DEFINE S == Path[t] \cap Path[b]
           T == {Height[t] - Height[a] : a \in S}
           R == OpToRel(<, Nat)
<1>1. \A x, y \in Nat : <<x, y>> \in R <=> x < y
  BY DEF OpToRel
<1>2. IsWellFoundedOn(R, Nat)
  BY NatLessThanWellFounded
<1>3. \A a \in S : Height[a] \in Nat /\ Height[t] \in Nat /\ Height[a] <= Height[t]
  BY PathHeights, TreeAssumption
<1>4. T \subseteq Nat
  BY <1>3
<1>5. T # {}
  BY TreeTypes
<1> HIDE DEF R, T
<1>6. PICK d \in T : \A e \in T : ~(<<e, d>> \in R)
  BY <1>2, <1>4, <1>5, WFMin
<1>7. \A e \in T : ~(e < d)
  BY <1>1, <1>4, <1>6
<1>8. PICK f \in S : d = Height[t] - Height[f]
  BY DEF T
<1>9. ASSUME NEW a \in S PROVE Height[a] <= Height[f]
  <2>1. ~(Height[t] - Height[a] < Height[t] - Height[f])
    BY <1>7, <1>8 DEF T
  <2> QED BY <1>3, <2>1
<1>10. \E g \in Path[t] \cap Path[b] : \A a \in Path[t] \cap Path[b] : Height[a] <= Height[g]
  BY <1>9
<1> QED BY <1>10 DEF Fork

(***************************************************************************)
(* What lies between tip and new block shrinks as the tip moves: a walk    *)
(* that could be made once can be made again after every batch.            *)
(***************************************************************************)
LEMMA WalkDown ==
  ASSUME NEW t \in Block \ {Genesis}, NEW b \in Block, t \notin Path[b]
  PROVE  WalkedBy(Parent[t], b) \subseteq WalkedBy(t, b)
<1>1. Path[t] = Path[Parent[t]] \cup {t}
  BY Above
<1>2. Path[Parent[t]] \cap Path[b] = Path[t] \cap Path[b]
  BY <1>1
<1>3. Fork(Parent[t], b) = Fork(t, b)
  BY <1>2 DEF Fork
<1> QED BY <1>1, <1>3 DEF WalkedBy

LEMMA WalkUp ==
  ASSUME NEW b \in Block \ {Genesis}, NEW c \in Path[Parent[b]] \ {Genesis}
  PROVE  WalkedBy(c, b) \subseteq WalkedBy(Parent[c], b)
<1> DEFINE t == Parent[c]
<1>1. /\ c \in Block \ {Genesis} /\ Path[c] = Path[t] \cup {c} /\ t \in Block
      /\ c \notin Path[t] /\ \A a \in Path[t] : Height[a] < Height[c]
  BY Above, TreeTypes
<1>2. c \in Path[b] /\ c # b
  BY Above
<1>3. Path[c] \subseteq Path[b]
  BY <1>2, AllRooted DEF Rooted
<1>4. Fork(c, b) = c
  <2>1. Fork(c, b) \in Path[c] /\ Height[c] <= Height[Fork(c, b)]
    BY <1>1, <1>2, <1>3, ForkIsHighest
  <2>2. \A a \in Path[t] : ~(Height[c] <= Height[a])
    BY <1>1, PathHeights, TreeAssumption
  <2> QED BY <1>1, <2>1, <2>2
<1> QED BY <1>1, <1>2, <1>3, <1>4 DEF WalkedBy

LEMMA StrictlyLighter ==
  ASSUME NEW b \in Block \ {Genesis}, NEW c \in Path[Parent[b]]
  PROVE  Chainwork[c] < Chainwork[b]
<1>1. c \in Block /\ Parent[b] \in Block /\ Chainwork[c] <= Chainwork[Parent[b]]
  BY Above, TreeTypes, AllRooted DEF Rooted
<1>2. Chainwork[b] > Chainwork[Parent[b]]
  BY TreeAssumption
<1>3. Chainwork[b] \in Nat /\ Chainwork[c] \in Nat /\ Chainwork[Parent[b]] \in Nat
  BY <1>1, TreeAssumption
<1> QED BY <1>1, <1>2, <1>3

------------------------------------------------------------------------------
(***************************************************************************)
(* What holds on the way, also where an earlier reorganization was cut     *)
(* short: a reorganization that has moved the tip can go on and leads to   *)
(* more work, a reset leads down the main chain.                           *)
(***************************************************************************)
Journey ==
  /\ holder.moved => /\ Connecting
                     /\ Chainwork[best] < Chainwork[holder.block]
                     /\ WalkedBy(best, holder.block) \subseteq entries
  /\ Removing => ~holder.moved /\ holder.block \in Path[best]
  /\ KeysLead

JourneyInv == torn \/ Journey

LEMMA JourneyInit == Init => JourneyInv
  BY DEF Init, JourneyInv, Journey, KeysLead, Idle, Removing

(* A holder that has not moved the tip and removes nothing.                *)
LEMMA JourneyRests ==
  ASSUME KeysLead', ~holder'.moved, holder'.at # "blocks"
  PROVE  Journey'
  BY DEF Journey, Removing

LEMMA JourneyKept ==
  ASSUME Journey, UNCHANGED <<entries, next, best, holder>>
  PROVE  Journey'
  BY DEF Journey, KeysLead, Connecting, Removing

LEMMA JourneyEnds ==
  ASSUME Journey, holder' = Idle, UNCHANGED next
  PROVE  Journey'
<1>1. KeysLead'
  BY DEF Journey, KeysLead
<1> QED BY <1>1, JourneyRests DEF Idle

LEMMA JourneyAdd == ASSUME Journey, Add PROVE Journey'
<1>1. CASE StartConnect
  <2>1. KeysLead' /\ ~holder'.moved /\ holder'.at = "connect"
    BY <1>1 DEF StartConnect, disk, Journey, KeysLead
  <2> QED BY <2>1, JourneyRests
<1>2. CASE ~StartConnect
  <2>1. holder' = Idle /\ UNCHANGED next
    BY <1>2 DEF Add, RefuseDuplicate, RefuseInvalid, StoreOrphan, Finish, disk
  <2> QED BY <2>1, JourneyEnds
<1> QED BY <1>1, <1>2

(* The places of the blocks a connect works on.                            *)
LEMMA ConnectPlaces ==
  ASSUME CoreInv, ~torn, Connecting
  PROVE  /\ TypeOK /\ PathStored /\ tip = best /\ best \in Block
         /\ holder \in HolderRecord
         /\ holder.block \in Block \ {Genesis} /\ Parent[holder.block] \in Block
  BY HolderType, TreeTypes, TreeAssumption
     DEF CoreInv, DiskInv, MemoryInv, Connecting, Removing, TypeOK

LEMMA JourneyConnect ==
  ASSUME CoreInv, ~torn, Journey, Connect
  PROVE  Journey'
<1> DEFINE h == holder.block
<1>0. Connecting
  BY DEF Connect, SaveAlternate, SetBestChain, RefuseBlock, Disconnect, ReorganizeThrows,
         Reconnect, ReconnectFails
<1>1. /\ TypeOK /\ PathStored /\ tip = best /\ best \in Block /\ holder \in HolderRecord
      /\ h \in Block \ {Genesis} /\ Parent[h] \in Block /\ KeysLead
  BY <1>0, ConnectPlaces DEF Journey
<1>2. CASE SaveAlternate \/ SetBestChain
  <2>1. ~holder'.moved /\ holder'.at # "blocks"
    BY <1>1, <1>2, Resolved DEF SaveAlternate, SetBestChain
  <2>2. KeysLead'
    <3>1. CASE SaveAlternate
      BY <1>1, <3>1 DEF SaveAlternate, KeysLead
    <3>2. CASE SetBestChain
      BY <1>1, <3>2, KeyAdded DEF SetBestChain, IndexMain
    <3> QED BY <1>2, <3>1, <3>2
  <2> QED BY <2>1, <2>2, JourneyRests
<1>3. CASE RefuseBlock \/ ReorganizeThrows \/ \E c \in Block : ReconnectFails(c)
  <2>1. holder' = Idle /\ UNCHANGED next
    BY <1>3 DEF RefuseBlock, ReorganizeThrows, ReconnectFails, Finish, disk
  <2> QED BY <2>1, JourneyEnds
<1>4. CASE Disconnect
  <2>1. /\ tip # Genesis /\ tip \notin Path[h] /\ WalkedBy(tip, h) \subseteq entries
        /\ ~Alternate
    BY <1>1, <1>4, TreeTypes DEF Disconnect, CanWalk, Reorganizes
  <2>2. /\ best' = Parent[best] /\ next' = [next EXCEPT ![Parent[best]] = None]
        /\ UNCHANGED entries /\ holder' = [holder EXCEPT !.moved = TRUE]
    BY <1>1, <1>4 DEF Disconnect, UnindexMain
  <2>3. Parent[best] \in Block
    BY <1>1, <2>1, Above
  <2>4. KeysLead'
    BY <1>1, <2>2, <2>3, KeyRemoved
  <2>5. WalkedBy(best', h) \subseteq entries'
    BY <1>1, <2>1, <2>2, WalkDown
  <2>6. Chainwork[best'] < Chainwork[h]
    <3>1. Chainwork[Parent[best]] < Chainwork[best] /\ Chainwork[best] < Chainwork[h]
      BY <1>1, <2>1, TreeAssumption DEF Alternate
    <3>2. /\ Chainwork[Parent[best]] \in Nat /\ Chainwork[best] \in Nat
          /\ Chainwork[h] \in Nat
      BY <1>1, <2>3, TreeAssumption
    <3> QED BY <2>2, <3>1, <3>2
  <2>7. holder'.block = h /\ holder'.at = "connect"
    BY <1>0, <1>1, <2>2 DEF HolderRecord, Connecting
  <2> HIDE DEF h
  <2> QED BY <2>4, <2>5, <2>6, <2>7 DEF Journey, Connecting, Removing
<1>5. ASSUME NEW c \in Block, Reconnect(c) PROVE Journey'
  <2>1. /\ c \in Path[Parent[h]] \ {Genesis} /\ Parent[c] = best
        /\ WalkedBy(best, h) \subseteq entries
    BY <1>1, <1>5 DEF Reconnect, NextUp, CanWalk, Ancestors
  <2>2. /\ best' = c /\ next' = [next EXCEPT ![Parent[c]] = c]
        /\ UNCHANGED entries /\ holder' = [holder EXCEPT !.moved = TRUE]
    BY <1>5 DEF Reconnect, IndexMain
  <2>3. KeysLead'
    BY <1>1, <2>1, <2>2, KeyAdded
  <2>4. WalkedBy(best', h) \subseteq entries'
    BY <1>1, <2>1, <2>2, WalkUp
  <2>5. Chainwork[best'] < Chainwork[h]
    BY <1>1, <2>1, <2>2, StrictlyLighter
  <2>6. holder'.block = h /\ holder'.at = "connect"
    BY <1>0, <1>1, <2>2 DEF HolderRecord, Connecting
  <2> HIDE DEF h
  <2> QED BY <2>3, <2>4, <2>5, <2>6 DEF Journey, Connecting, Removing
<1> QED BY <1>2, <1>3, <1>4, <1>5 DEF Connect

LEMMA JourneyReset ==
  ASSUME CoreInv, ~torn, Journey, Reset
  PROVE  Journey'
<1>0. TypeOK /\ PathStored /\ best \in Block /\ KeysLead
  BY DEF CoreInv, DiskInv, TypeOK, Journey
<1>1. CASE RefuseReset \/ FinishReset \/ ResetThrows
  <2>1. holder' = Idle /\ UNCHANGED next
    BY <1>1 DEF RefuseReset, FinishReset, ResetThrows, Finish, disk
  <2> QED BY <2>1, JourneyEnds
<1>2. CASE RemoveChains
  <2>1. /\ holder' = [at |-> "blocks", block |-> Target(Head(jobs)), form |-> "sound",
                      moved |-> FALSE]
        /\ UNCHANGED <<best, next>> /\ IsMain(Target(Head(jobs)))
    BY <1>2 DEF RemoveChains, ResetStarts, Main
  <2>2. Target(Head(jobs)) \in Block
    BY <1>2, <1>0 DEF RemoveChains, ResetStarts, Main, TypeOK
  <2>3. Target(Head(jobs)) \in Path[best]
    BY <1>0, <2>1, <2>2, MainIsPath
  <2>4. holder'.block \in Path[best'] /\ ~holder'.moved
    BY <2>1, <2>3
  <2>5. KeysLead'
    BY <1>0, <2>1 DEF KeysLead
  <2> QED BY <2>4, <2>5 DEF Journey
<1>3. CASE RemoveBlock
  <2>1. /\ best \in Block \ {Genesis} /\ holder.block \in Path[best] \ {best} /\ ~holder.moved
        /\ best' = Parent[best] /\ next' = [next EXCEPT ![Parent[best]] = None]
        /\ UNCHANGED holder
    BY <1>0, <1>3 DEF RemoveBlock, UnindexMain, Journey
  <2>2. Path[best] = Path[Parent[best]] \cup {best} /\ Parent[best] \in Block
    BY <2>1, Above
  <2>3. KeysLead'
    BY <1>0, <2>1, <2>2, KeyRemoved
  <2>4. holder'.block \in Path[best'] /\ ~holder'.moved
    BY <2>1, <2>2
  <2> QED BY <2>3, <2>4 DEF Journey
<1> QED BY <1>1, <1>2, <1>3 DEF Reset

LEMMA TornForever == [Next]_vars /\ torn => torn'
  BY TornStays DEF Next, HolderStep, Add, RefuseDuplicate, RefuseInvalid, StoreOrphan,
                   StartConnect, Submit, vars

LEMMA JourneyStep == CoreInv /\ JourneyInv /\ [Next]_vars => JourneyInv'
<1> SUFFICES ASSUME CoreInv, ~torn, Journey, [Next]_vars PROVE Journey'
  BY TornForever DEF JourneyInv
<1>1. CASE (\E j \in Jobs : Submit(j)) \/ UNCHANGED vars
  <2>1. UNCHANGED <<entries, next, best, holder>>
    BY <1>1 DEF Submit, vars, disk
  <2> QED BY <2>1, JourneyKept
<1>2. CASE WriteFails \/ Restart
  <2>1. holder' = Idle /\ UNCHANGED next
    BY <1>2 DEF WriteFails, Restart, Finish, disk
  <2> QED BY <2>1, JourneyEnds
<1> QED BY <1>1, <1>2, JourneyAdd, JourneyConnect, JourneyReset DEF Next, HolderStep

LEMMA JourneyAlways == Spec => []JourneyInv
<1>1. CoreInv /\ JourneyInv /\ [Next]_vars => JourneyInv'
  BY JourneyStep
<1> QED BY <1>1, JourneyInit, CoreInductive, PTL DEF Spec

------------------------------------------------------------------------------
(***************************************************************************)
(* A reset that finishes leaves the path to its target and nothing else,   *)
(* unless a reorganization was cut short or a reset is torn: nothing that  *)
(* removeChains had to remove stays behind, and nothing is lost.           *)
(***************************************************************************)
THEOREM ResetCorrect == Spec => IntactReset
<1>1. CoreInv /\ TreeInv => [FinishReset /\ ~cut /\ ~torn => entries' = Path[best']]_vars
  <2> SUFFICES ASSUME CoreInv, ListedInv, FinishReset, ~torn PROVE entries' = Path[best']
    BY DEF TreeInv
  <2>1. entries \subseteq Path[best] /\ Path[best] \subseteq entries
    BY DEF FinishReset, ListedInv, CoreInv, DiskInv, PathStored
  <2> QED BY <2>1 DEF FinishReset, disk
<1> QED BY <1>1, CoreInductive, TreeAlways, PTL DEF IntactReset

(* What a reset would throw on: not reached before the chain is torn.      *)
LEMMA ResetGoesOn ==
  ASSUME CoreInv, Journey, ~torn
  PROVE  ~ResetThrows
<1> SUFFICES ASSUME Removing, best # holder.block PROVE best # Genesis /\ Reversible(best)
  BY DEF ResetThrows
<1>1. PathStored /\ best \in Block /\ best \in Path[best] /\ holder.block \in Path[best]
  BY TreeTypes DEF CoreInv, DiskInv, TypeOK, Journey
<1>2. best # Genesis
  BY <1>1, ReferenceAssumption
<1> QED BY <1>1, <1>2 DEF PathStored, Reversible

(* The tip that a reorganization disconnects can be disconnected.          *)
LEMMA TipReversible ==
  ASSUME CoreInv, ~torn, Connecting, tip \notin Path[holder.block]
  PROVE  tip \in Block \ {Genesis} /\ Reversible(tip)
  BY ConnectPlaces, TreeTypes DEF PathStored, Reversible

(***************************************************************************)
(* With the same exceptions no reorganization and no reset fails because   *)
(* of something missing: both branches are stored down to the fork.        *)
(***************************************************************************)
THEOREM WalksCorrect == Spec => WalksSucceed
<1>1. CoreInv /\ JourneyInv /\ TreeInv
        => [~cut /\ ~torn => ~(ReorganizeThrows \/ ResetThrows)]_vars
  <2> SUFFICES ASSUME CoreInv, Journey, ListedInv, ~torn, ReorganizeThrows PROVE FALSE
    BY ResetGoesOn DEF JourneyInv, TreeInv
  <2> DEFINE h == holder.block
  <2>1. /\ Connecting /\ PathStored /\ tip = best /\ best \in Block
        /\ h \in Block \ {Genesis} /\ Parent[h] \in entries
    BY ConnectPlaces DEF ReorganizeThrows, ListedInv
  <2>2. Path[best] \subseteq entries /\ Path[Parent[h]] \subseteq entries
    BY <2>1 DEF PathStored, ListedInv
  <2>3. Path[h] = Path[Parent[h]] \cup {h} /\ Fork(tip, h) \in Path[tip]
    BY <2>1, Above, ForkIsHighest
  <2>4. CanWalk
    BY <2>1, <2>2, <2>3 DEF CanWalk, WalkedBy
  <2> QED BY <2>1, <2>4, TipReversible DEF ReorganizeThrows
<1> QED BY <1>1, CoreInductive, JourneyAlways, TreeAlways, PTL DEF WalksSucceed

------------------------------------------------------------------------------
(***************************************************************************)
(* The steps of Chain are steps of Ledger.  What the code verifies on the  *)
(* coins it has is what Ledger calls sound.                                *)
(***************************************************************************)
LEMMA VerifiedSound ==
  ASSUME PathStored, NEW b \in Block \ {Genesis}, Parent[b] = best
  PROVE  /\ \A f : ContextVerified(b, f) => b \in Sound
         /\ ~ContextVerified(b, "sound") => b \notin Sound
  BY DEF PathStored, ContextVerified, Verified, Sound, Unsound

LEMMA GoalIs ==
  /\ holder.moved \/ Removing => Goal = holder.block
  /\ ~holder.moved /\ ~Removing => Goal = None
  /\ holder'.moved \/ holder'.at = "blocks" => Goal' = holder'.block
  /\ ~holder'.moved /\ holder'.at # "blocks" => Goal' = None
  BY DEF Goal, Removing

LEMMA LedgerInit == Init => Book!Init
  BY ReferenceAssumption DEF Init, Book!Init, Goal, Idle, Removing

(* A step that leaves the stored state and the goal alone.                 *)
LEMMA LedgerQuiet ==
  ASSUME UNCHANGED <<best, coins, torn>>, Goal' = Goal
  PROVE  UNCHANGED Book!vars
  BY DEF Book!vars

LEMMA LedgerConnect ==
  ASSUME CoreInv, CoreInv', Journey, ~torn, Connect
  PROVE  Book!Next \/ UNCHANGED Book!vars
<1> DEFINE h == holder.block
<1>0. Connecting
  BY DEF Connect, SaveAlternate, SetBestChain, RefuseBlock, Disconnect, ReorganizeThrows,
         Reconnect, ReconnectFails
<1>1. /\ TypeOK /\ PathStored /\ tip = best /\ best \in Block /\ holder \in HolderRecord
      /\ h \in Block \ {Genesis} /\ Parent[h] \in Block /\ h # None
      /\ Path[h] = Path[Parent[h]] \cup {h} /\ h \notin Path[Parent[h]]
      /\ coins = Unspent[best]
  BY <1>0, ConnectPlaces, Above, TreeTypes DEF PathStored
<1>2. /\ holder.moved => Goal = h
      /\ ~holder.moved => Goal = None
  BY <1>0, GoalIs DEF Connecting, Removing
<1>3. ~Alternate => Book!Bound(h)
  <2>1. ~Alternate => Chainwork[h] > Chainwork[best]
    BY <1>1, TreeAssumption DEF Alternate
  <2> QED BY <1>2, <2>1 DEF Book!Bound
<1>4. holder.moved => ~Alternate
  BY <1>1, TreeAssumption DEF Journey, Alternate
<1>5. torn' = torn
  BY DEF Connect, SaveAlternate, SetBestChain, RefuseBlock, Disconnect, ReorganizeThrows,
         Reconnect, ReconnectFails
<1>6. coins' = Unspent[best']
  BY <1>5 DEF CoreInv, DiskInv, PathStored
<1>7. Parent[h] = best => Book!NextUp(h, h)
  BY <1>1, TreeTypes DEF Book!NextUp
<1>8. ASSUME NEW c \in Block, NextUp(c)
      PROVE  c \in Block \ {Genesis} /\ Parent[c] = best /\ c # h /\ Book!NextUp(h, c)
  <2>1. c \in Path[Parent[h]] \ {Genesis} /\ Parent[c] = best
    BY <1>1, <1>8 DEF NextUp, Ancestors
  <2>2. Path[c] \subseteq Path[h] /\ best \in Path[c]
    BY <1>1, <2>1, Above, AllRooted, TreeTypes DEF Rooted
  <2> QED BY <1>1, <2>1, <2>2 DEF Book!NextUp
<1>9. CASE SaveAlternate
  <2>1. ~holder.moved /\ ~holder'.moved /\ holder'.at # "blocks" /\ UNCHANGED <<best, coins>>
    BY <1>1, <1>4, <1>9, Resolved DEF SaveAlternate
  <2>2. Goal' = None
    BY <2>1, GoalIs
  <2> QED BY <1>2, <1>5, <2>1, <2>2, LedgerQuiet
<1>10. CASE SetBestChain
  <2>1. ~holder'.moved /\ holder'.at # "blocks"
    BY <1>1, <1>10, Resolved DEF SetBestChain
  <2>2. Goal' = None
    BY <2>1, GoalIs
  <2>3. best' = h /\ Parent[h] = best /\ ~Alternate /\ h \in Sound
    BY <1>1, <1>10, VerifiedSound DEF SetBestChain, Extends, IndexMain
  <2>4. Book!Connect(h, h)
    BY <1>3, <1>5, <1>6, <1>7, <2>2, <2>3 DEF Book!Connect, Book!Move
  <2> QED BY <1>1, <2>4 DEF Book!Next
<1>11. ASSUME holder' = Idle, UNCHANGED disk,
              \E b \in Block : Book!NextUp(h, b) /\ (b = h \/ b \notin Sound)
       PROVE  Book!Next \/ UNCHANGED Book!vars
  <2>1. Goal' = None /\ UNCHANGED <<best, coins>>
    BY <1>11, GoalIs DEF Idle, disk
  <2>2. CASE holder.moved
    <3>1. Goal = h
      BY <1>2, <2>2
    <3>2. Book!Refused
      BY <1>11, <3>1 DEF Book!Refused
    <3> QED BY <1>1, <1>5, <2>1, <3>1, <3>2 DEF Book!Next, Book!Rest
  <2>3. CASE ~holder.moved
    BY <1>2, <1>5, <2>1, <2>3, LedgerQuiet
  <2> QED BY <2>2, <2>3
<1>12. CASE RefuseBlock
  <2>1. holder' = Idle /\ UNCHANGED disk
    BY <1>12 DEF RefuseBlock, Finish
  <2>2. CASE Extends
    BY <1>1, <1>7, <1>11, <2>1, <2>2 DEF Extends
  <2>3. CASE Alternate
    <3>1. Goal' = None /\ Goal = None
      BY <1>2, <1>4, <2>1, <2>3, GoalIs DEF Idle
    <3> QED BY <1>5, <2>1, <3>1, LedgerQuiet DEF disk
  <2> QED BY <1>12, <2>2, <2>3 DEF RefuseBlock
<1>13. CASE Disconnect
  <2>1. /\ ~Alternate /\ best \notin Path[h] /\ best' = Parent[best]
        /\ holder' = [holder EXCEPT !.moved = TRUE]
    BY <1>1, <1>13 DEF Disconnect, Reorganizes, UnindexMain
  <2>2. Goal' = h
    BY <1>1, <2>1, GoalIs DEF HolderRecord
  <2>3. Book!Disconnect(h)
    BY <1>3, <1>5, <1>6, <2>1, <2>2 DEF Book!Disconnect, Book!Move
  <2> QED BY <1>1, <2>3 DEF Book!Next
<1>14. CASE ReorganizeThrows
  <2>1. CASE holder.moved
    <3>1. CanWalk
      BY <1>1, <2>1 DEF CanWalk, Journey
    <3> QED BY <1>0, <1>14, <3>1, TipReversible DEF ReorganizeThrows
  <2>2. CASE ~holder.moved
    <3>1. Goal' = None /\ UNCHANGED <<best, coins>>
      BY <1>14, GoalIs DEF ReorganizeThrows, Finish, Idle, disk
    <3> QED BY <1>2, <1>5, <2>2, <3>1, LedgerQuiet
  <2> QED BY <2>1, <2>2
<1>15. ASSUME NEW c \in Block, Reconnect(c) PROVE Book!Next
  <2>1. NextUp(c) /\ ~Alternate /\ best' = c /\ holder' = [holder EXCEPT !.moved = TRUE]
    BY <1>15 DEF Reconnect, Reorganizes, IndexMain
  <2>2. c # h /\ Book!NextUp(h, c) /\ c \in Sound
    BY <1>1, <1>8, <1>15, <2>1, VerifiedSound DEF Reconnect
  <2>3. Goal' = h
    BY <1>1, <2>1, GoalIs DEF HolderRecord
  <2>4. Book!Connect(h, c)
    BY <1>3, <1>5, <1>6, <2>1, <2>2, <2>3 DEF Book!Connect, Book!Move
  <2> QED BY <1>1, <2>4 DEF Book!Next
<1>16. ASSUME NEW c \in Block, ReconnectFails(c) PROVE Book!Next \/ UNCHANGED Book!vars
  <2>1. holder' = Idle /\ UNCHANGED disk /\ NextUp(c) /\ ~ContextVerified(c, "sound")
    BY <1>16 DEF ReconnectFails, Finish
  <2>2. Book!NextUp(h, c) /\ c \notin Sound
    BY <1>1, <1>8, <2>1, VerifiedSound
  <2> QED BY <1>11, <2>1, <2>2
<1> QED BY <1>9, <1>10, <1>12, <1>13, <1>14, <1>15, <1>16 DEF Connect

LEMMA LedgerReset ==
  ASSUME CoreInv, CoreInv', Journey, Journey', ~torn, Reset
  PROVE  Book!Next \/ UNCHANGED Book!vars
<1>1. PathStored /\ coins = Unspent[best] /\ best \in Block
  BY DEF CoreInv, DiskInv, PathStored, TypeOK
<1>2. CASE RefuseReset
  <2>1. Goal = None /\ Goal' = None /\ UNCHANGED <<best, coins, torn>>
    BY <1>2, GoalIs DEF RefuseReset, Starts, Finish, Idle, Removing, disk
  <2> QED BY <2>1, LedgerQuiet
<1>3. CASE RemoveChains
  <2>1. /\ Goal = None /\ Goal' = holder'.block /\ UNCHANGED <<best, coins, torn>>
        /\ holder'.block \in Path[best]
    BY <1>3, GoalIs DEF RemoveChains, ResetStarts, Starts, Idle, Removing, Journey
  <2>2. Book!Recall(holder'.block)
    BY <2>1 DEF Book!Recall
  <2>3. holder'.block \in Block
    BY <1>1, <2>1, TreeTypes
  <2> QED BY <2>2, <2>3 DEF Book!Next
<1>4. CASE RemoveBlock
  <2> DEFINE h == holder.block
  <2>1. /\ best \in Block \ {Genesis} /\ h \in Path[best] \ {best} /\ Removing
        /\ best' = Parent[best] /\ UNCHANGED <<holder, torn>>
    BY <1>1, <1>4, ReferenceAssumption DEF RemoveBlock, UnindexMain, Journey
  <2>2. h \in Path[Parent[best]] /\ best \notin Path[Parent[best]] /\ Parent[best] \in Block
    BY <2>1, Above
  <2>3. best \notin Path[h] /\ h \in Block
    BY <2>2, AllRooted, TreeTypes DEF Rooted
  <2>4. Goal = h /\ Goal' = h
    BY <2>1, GoalIs DEF Removing
  <2>5. coins' = Unspent[best']
    BY <2>1 DEF CoreInv, DiskInv, PathStored
  <2>6. Book!Disconnect(h)
    BY <2>1, <2>3, <2>4, <2>5 DEF Book!Disconnect, Book!Bound, Book!Move
  <2> QED BY <2>3, <2>6 DEF Book!Next
<1>5. CASE FinishReset
  <2>1. /\ Goal = best /\ Goal' = None /\ UNCHANGED <<best, coins, torn>>
    BY <1>5, GoalIs DEF FinishReset, Finish, Idle, disk
  <2>2. Goal # None
    BY <1>1, <2>1, TreeTypes
  <2>3. Book!Rest
    BY <2>1, <2>2 DEF Book!Rest
  <2> QED BY <2>3 DEF Book!Next
<1> QED BY <1>2, <1>3, <1>4, <1>5, ResetGoesOn DEF Reset

LEMMA LedgerFaults ==
  ASSUME CoreInv, Journey, ~torn, Faults, WriteFails \/ Restart
  PROVE  Book!Next \/ UNCHANGED Book!vars
<1>1. Goal' = None /\ UNCHANGED <<best, coins>>
  BY GoalIs DEF WriteFails, Restart, Finish, Idle, disk
<1>2. CASE ~holder.moved /\ ~Removing
  <2>1. Goal = None
    BY <1>2, GoalIs
  <2>2. UNCHANGED torn
    BY <1>2 DEF WriteFails, Restart, CoreInv, TypeOK
  <2> QED BY <1>1, <2>1, <2>2, LedgerQuiet
<1>3. CASE holder.moved \/ Removing
  <2>1. Goal = holder.block /\ holder.block # None
    BY <1>3, GoalIs, RemovingType, HolderType, TreeTypes DEF Journey, CoreInv
  <2>2. CASE UNCHANGED torn
    <3>1. Book!Rest
      BY <1>1, <2>1, <2>2 DEF Book!Rest
    <3> QED BY <3>1 DEF Book!Next
  <2>3. CASE ~UNCHANGED torn
    <3>1. Removing /\ torn' = TRUE
      BY <2>3 DEF WriteFails, Restart, CoreInv, TypeOK
    <3>2. Book!Lose
      BY <1>1, <2>1, <3>1 DEF Book!Lose, Journey
    <3> QED BY <3>2 DEF Book!Next
  <2> QED BY <2>2, <2>3
<1> QED BY <1>2, <1>3

LEMMA LedgerStep ==
  ASSUME CoreInv, CoreInv', JourneyInv, JourneyInv', [Next]_vars
  PROVE  Book!Next \/ UNCHANGED Book!vars
<1>1. CASE torn
  <2>1. Book!Astray
    BY <1>1, TornForever DEF Book!Astray
  <2> QED BY <2>1 DEF Book!Next
<1>2. CASE ~torn /\ (Connect \/ Reset)
  <2>1. Journey /\ (Reset /\ ~torn' => Journey')
    BY <1>2 DEF JourneyInv
  <2>2. Reset => ~torn'
    BY <1>2, <2>1, ResetGoesOn
       DEF Reset, RefuseReset, RemoveChains, RemoveBlock, FinishReset
  <2> QED BY <1>2, <2>1, <2>2, LedgerConnect, LedgerReset
<1>3. CASE ~torn /\ Faults /\ (WriteFails \/ Restart)
  BY <1>3, LedgerFaults DEF JourneyInv
<1>4. CASE Add
  <2>1. Goal = None /\ Goal' = None /\ UNCHANGED <<best, coins, torn>>
    BY <1>4, GoalIs DEF Add, RefuseDuplicate, RefuseInvalid, StoreOrphan, StartConnect, Starts,
                        Finish, Idle, Removing, disk
  <2> QED BY <2>1, LedgerQuiet
<1>5. CASE (\E j \in Jobs : Submit(j)) \/ UNCHANGED vars
  <2>1. UNCHANGED <<best, coins, torn, holder>>
    BY <1>5 DEF Submit, vars, disk
  <2>2. Goal' = Goal
    BY <2>1 DEF Goal, Removing
  <2> QED BY <2>1, <2>2, LedgerQuiet
<1> QED BY <1>1, <1>2, <1>3, <1>4, <1>5 DEF Next, HolderStep

(***************************************************************************)
(* Chain implements Ledger: whatever is stored, the unspent outputs are    *)
(* those of one block, which moves along the tree by connecting sound      *)
(* blocks and disconnecting, towards a block with more work or a target    *)
(* that was asked for, and stops on the way for a bad block or a fault.    *)
(***************************************************************************)
THEOREM LedgerCorrect == Spec => ImplementsLedger
<1>1. CoreInv /\ CoreInv' /\ JourneyInv /\ JourneyInv' /\ [Next]_vars
        => [Book!Next]_(Book!vars)
  BY LedgerStep
<1> QED BY <1>1, LedgerInit, CoreInductive, JourneyAlways, PTL
        DEF Spec, ImplementsLedger, Book!Spec

------------------------------------------------------------------------------
(***************************************************************************)
(* Where the exceptions come from.                                         *)
(***************************************************************************)
Whole == ~Faults /\ ~torn

(***************************************************************************)
(* Only a batch that is not written tears a reset (ChainDB.reset): as long *)
(* as none fails and the process does not stop, what is stated of untorn   *)
(* chains holds of all.                                                    *)
(***************************************************************************)
THEOREM NeverTorn == Spec /\ ~Faults => []~torn
<1>1. Init /\ ~Faults => Whole
  BY DEF Init, Whole
<1>2. CoreInv /\ JourneyInv /\ Whole /\ [Next]_vars => Whole'
  <2> SUFFICES ASSUME CoreInv, Journey, ~torn, ~Faults, [Next]_vars PROVE ~torn'
    BY DEF Whole, JourneyInv
  <2>1. ~ResetThrows
    BY ResetGoesOn
  <2> QED BY <2>1
          DEF Next, HolderStep, Add, RefuseDuplicate, RefuseInvalid, StoreOrphan,
              StartConnect, Submit, Connect, SaveAlternate, SetBestChain, RefuseBlock,
              Disconnect, ReorganizeThrows, Reconnect, ReconnectFails, Reset, RefuseReset,
              RemoveChains, RemoveBlock, FinishReset, vars
<1>3. Whole => ~torn
  BY DEF Whole
<1> QED BY <1>1, <1>2, <1>3, CoreInductive, JourneyAlways, PTL DEF Spec

(***************************************************************************)
(* No block breaks a rule on its own branch, and no body is mutated.       *)
(***************************************************************************)
AllSound == Block \ {Genesis} \subseteq Sound /\ \A j \in Jobs : j.form = "sound"

FormsSound == holder.form = "sound" /\ \A o \in orphans : o.form = "sound"

Undisturbed == ~Faults /\ AllSound /\ ~torn /\ ~cut /\ FormsSound

LEMMA FormsStep ==
  ASSUME TypeOK, AllSound, FormsSound, [Next]_vars
  PROVE  FormsSound'
<1>1. CASE Add
  <2>1. Head(jobs).form = "sound"
    BY <1>1, HeadType DEF AllSound, Add, RefuseDuplicate, RefuseInvalid, StoreOrphan,
                          StartConnect, Starts
  <2> QED BY <1>1, <2>1 DEF FormsSound, Add, RefuseDuplicate, RefuseInvalid, StoreOrphan,
                            StartConnect, Finish, Idle
<1>2. CASE SaveAlternate \/ SetBestChain
  BY <1>2 DEF FormsSound, SaveAlternate, SetBestChain, Resolve, Finish, Idle
<1>3. CASE Disconnect \/ \E c \in Block : Reconnect(c)
  <2>1. holder' = [holder EXCEPT !.moved = TRUE] /\ orphans' = orphans /\ Connecting
    BY <1>3 DEF Disconnect, Reconnect
  <2>2. holder'.form = holder.form
    BY <2>1, HolderType DEF HolderRecord
  <2> QED BY <2>1, <2>2 DEF FormsSound
<1>4. CASE (\E j \in Jobs : Submit(j)) \/ RemoveBlock \/ UNCHANGED vars
  BY <1>4 DEF FormsSound, Submit, RemoveBlock, vars
<1>5. CASE RefuseBlock \/ ReorganizeThrows \/ (\E c \in Block : ReconnectFails(c))
           \/ RefuseReset \/ RemoveChains \/ FinishReset \/ ResetThrows
           \/ WriteFails \/ Restart
  <2>1. orphans' \subseteq orphans /\ holder'.form = "sound"
    BY <1>5 DEF RefuseBlock, ReorganizeThrows, ReconnectFails, RefuseReset, RemoveChains,
                FinishReset, ResetThrows, WriteFails, Restart, Finish, Idle
  <2> QED BY <2>1 DEF FormsSound
<1> QED BY <1>1, <1>2, <1>3, <1>4, <1>5 DEF Next, HolderStep, Connect, Reset

(* A reorganization that has moved the tip is not given up.                *)
LEMMA MovedGoesOn ==
  ASSUME CoreInv, ~torn, Journey, AllSound, FormsSound, holder.moved
  PROVE  ~RefuseBlock /\ ~ReorganizeThrows /\ \A c \in Block : ~ReconnectFails(c)
<1> DEFINE h == holder.block
<1>1. /\ Connecting /\ PathStored /\ tip = best /\ best \in Block
      /\ h \in Block \ {Genesis} /\ Chainwork[best] < Chainwork[h] /\ holder.form = "sound"
  BY ConnectPlaces DEF Journey, FormsSound
<1>2. ~Alternate
  BY <1>1, TreeAssumption DEF Alternate
<1>3. \A c \in Block \ {Genesis} : Parent[c] = best => ContextVerified(c, "sound")
  BY <1>1, VerifiedSound DEF AllSound
<1>4. ~RefuseBlock
  BY <1>1, <1>2, <1>3 DEF RefuseBlock, Extends
<1>5. ~ReorganizeThrows
  BY <1>1, TipReversible DEF ReorganizeThrows, CanWalk, Journey
<1>6. \A c \in Block : ~ReconnectFails(c)
  BY <1>1, <1>3 DEF ReconnectFails, NextUp
<1> QED BY <1>4, <1>5, <1>6

(***************************************************************************)
(* And only such a block cuts a reorganization short (Chain.reorganize):   *)
(* without one and without faults, every reorganization completes.         *)
(***************************************************************************)
THEOREM NeverCut == Spec /\ ~Faults /\ AllSound => []~cut
<1>1. Init /\ ~Faults /\ AllSound => Undisturbed
  BY DEF Init, Undisturbed, FormsSound, Idle
<1>2. CoreInv /\ JourneyInv /\ ~torn' /\ Undisturbed /\ [Next]_vars => Undisturbed'
  <2> SUFFICES ASSUME CoreInv, Journey, ~torn, ~cut, ~Faults, AllSound, FormsSound, [Next]_vars
               PROVE  ~cut' /\ FormsSound'
    BY DEF Undisturbed, JourneyInv, AllSound
  <2>1. FormsSound'
    BY FormsStep DEF CoreInv
  <2>2. ASSUME RefuseBlock \/ ReorganizeThrows \/ \E c \in Block : ReconnectFails(c)
        PROVE  ~cut'
    <3>1. ~holder.moved
      BY <2>2, MovedGoesOn
    <3>2. cut' = (cut \/ holder.moved)
      BY <2>2 DEF RefuseBlock, ReorganizeThrows, ReconnectFails
    <3> QED BY <3>1, <3>2
  <2>3. ASSUME ~(RefuseBlock \/ ReorganizeThrows \/ \E c \in Block : ReconnectFails(c))
        PROVE  ~cut'
    BY <2>3 DEF Next, HolderStep, Add, RefuseDuplicate, RefuseInvalid, StoreOrphan,
                StartConnect, Submit, Connect, SaveAlternate, SetBestChain, Disconnect,
                Reconnect, Reset, RefuseReset, RemoveChains, RemoveBlock, FinishReset,
                ResetThrows, vars
  <2>4. ~cut'
    BY <2>2, <2>3
  <2> QED BY <2>1, <2>4
<1>3. Undisturbed => ~cut
  BY DEF Undisturbed
<1> QED BY <1>1, <1>2, <1>3, NeverTorn, CoreInductive, JourneyAlways, PTL DEF Spec

(***************************************************************************)
(* So without faults and bad blocks the tip has the most work of all that  *)
(* is stored whenever the lock is free,                                    *)
(***************************************************************************)
THEOREM HeaviestUnlessRefused ==
  Spec /\ ~Faults /\ AllSound
    => [](holder = Idle => \A b \in entries : Chainwork[b] <= Chainwork[best])
<1>1. ~cut /\ ~torn /\ TipIsHeaviest
        => (holder = Idle => \A b \in entries : Chainwork[b] <= Chainwork[best])
  BY DEF TipIsHeaviest
<1> QED BY <1>1, NeverTorn, NeverCut, HeaviestCorrect, PTL

(***************************************************************************)
(* and a reset leaves the main chain only, as the comment of reset says.   *)
(***************************************************************************)
THEOREM ResetUnlessRefused == Spec /\ ~Faults /\ AllSound => ResetLeavesMainOnly
<1>1. ~cut /\ ~torn /\ [FinishReset /\ ~cut /\ ~torn => entries' = Path[best']]_vars
        => [FinishReset => entries' \subseteq Path[best']]_vars
  OBVIOUS
<1> QED BY <1>1, NeverTorn, NeverCut, ResetCorrect, PTL DEF IntactReset, ResetLeavesMainOnly
==============================================================================
