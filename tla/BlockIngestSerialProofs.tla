---------------------- MODULE BlockIngestSerialProofs -----------------------
(***************************************************************************)
(* What holds of BlockIngest while one block is handled at a time: the     *)
(* regime of a node to which blocks come slower than its store answers.    *)
(* The proofs rest on one idea: what the only handler chain has read is    *)
(* still what is stored, because nobody else writes the tip.               *)
(***************************************************************************)
EXTENDS BlockIngestProofs

OneSlot == \E s \in Slot : Slot = {s}

-----------------------------------------------------------------------------
ReadsTip == {"judge", "weigh", "askNew", "askOld", "parent", "decide",
             "putLock", "putParent", "putLatest"}
UnderOpenLock == {"tip", "weigh", "askNew", "askOld", "putLock"}
Updating == {"latest", "parent", "decide", "putLock", "putParent", "putLatest"}

(* What the chain has read of the tip, the parent and the lock is stored.  *)
ReadsHold(t) ==
  /\ t.pc \in ReadsTip => t.cur = latest
  /\ t.pc = "decide" => t.par = parent
  /\ t.pc \in {"putLock", "putParent"} => t.par = latest
  /\ t.pc \in UnderOpenLock => LockOpen(synclock)
  /\ t.pc = "reset" => LockStale(synclock, now)
  /\ t.pc \in Updating /\ t.force =>
       \/ LockOpen(synclock)
       \/ t.pc \in {"putParent", "putLatest"} /\ synclock = t.blk

Linked == parent = Prev(latest) \/ (latest = Genesis /\ parent = Genesis)

(* The parent key follows the tip, except between its put and that of the  *)
(* latest block; so does the index, except between the last two puts.      *)
KeysFollow(t) ==
  /\ ~grafted =>
       IF t.pc = "putLatest" THEN Prev(t.blk) = latest => parent = latest
                             ELSE Linked
  /\ restarts = 0 =>
       IF t.pc = "putHeight" THEN latest = t.blk
                             ELSE index[Height(latest)] = latest

SerialInv == OneSlot /\ \A s \in Slot : ReadsHold(task[s]) /\ KeysFollow(task[s])

LEMMA SerialInit == Init /\ OneSlot => SerialInv
<1> SUFFICES ASSUME Init, OneSlot PROVE SerialInv
  OBVIOUS
<1>1. Height(Genesis) = 1
  BY BlocksAssumption, GenesisAssumption DEF Height
<1>2. index[Height(Genesis)] = Genesis /\ restarts = 0
  BY <1>1, ContentTypes DEF Init
<1>3. \A s \in Slot : task[s] = Idle
  BY DEF Init
<1>4. ReadsHold(Idle) /\ KeysFollow(Idle)
  BY <1>2 DEF Init, ReadsHold, KeysFollow, Linked, Idle, ReadsTip, UnderOpenLock, Updating
<1> QED BY <1>3, <1>4 DEF SerialInv

(* It is enough to look at the slot that moves.                            *)
LEMMA Alone ==
  ASSUME SerialInv, NEW s \in Slot, ReadsHold(task[s])', KeysFollow(task[s])'
  PROVE  SerialInv'
  BY DEF SerialInv, OneSlot

(* A chain that is not in an update, with the keys as they were.           *)
LEMMA Quiet ==
  ASSUME SerialInv, NEW s \in Slot,
         UNCHANGED <<latest, parent, index, restarts, grafted>>,
         task[s].pc \notin {"putLatest", "putHeight"},
         task'[s].pc \notin {"putLatest", "putHeight"},
         ReadsHold(task[s])'
  PROVE  SerialInv'
<1>1. KeysFollow(task[s])'
  BY DEF SerialInv, KeysFollow, Linked
<1> QED BY <1>1, Alone

LEMMA SerialEnter ==
  ASSUME TypeOK, SerialInv, NEW s \in Slot, NEW b \in Block, NEW m \in BOOLEAN,
         task[s] = Idle, Enter(s, b, m)
  PROVE  SerialInv'
<1> DEFINE t == [Idle EXCEPT !.pc = "next", !.blk = b, !.mined = m]
<1>1. /\ t \in Task /\ t.pc = "next"
      /\ LET u == [t EXCEPT !.pc = "latest", !.force = FALSE]
         IN u.pc = "latest" /\ u.force = FALSE
      /\ Idle.pc = "idle"
  BY IdleType DEF Task, PC, Idle
<1>2. \/ task'[s] = Idle
      \/ task'[s] = t
      \/ task'[s] = [t EXCEPT !.pc = "latest", !.force = FALSE]
  BY DEF Enter, Accept, StartUpdate, TypeOK
<1> HIDE DEF t
<1>3. \/ task'[s].pc \in {"idle", "next"}
      \/ task'[s].pc = "latest" /\ ~task'[s].force
  BY <1>1, <1>2
<1>4. ReadsHold(task[s])'
  BY <1>3 DEF ReadsHold, ReadsTip, UnderOpenLock, Updating
<1>5. UNCHANGED <<latest, parent, index, restarts, grafted>>
  BY DEF Enter, disk, clock
<1> QED BY <1>1, <1>3, <1>4, <1>5, Quiet

LEMMA SerialWeigh ==
  ASSUME TypeOK, SerialInv, NEW s \in Slot,
         Judge(s) \/ CheckLock(s) \/ Weigh(s) \/ AskNew(s) \/ AskOld(s)
  PROVE  SerialInv'
<1>1. task[s] \in Task /\ ReadsHold(task[s]) /\ Idle.pc = "idle"
  BY DEF TypeOK, SerialInv, Idle
<1>2. UNCHANGED <<latest, parent, synclock, index, now, restarts, grafted>>
  BY DEF Judge, CheckLock, Weigh, AskNew, AskOld, disk, clock
<1>3. task[s].pc \in {"judge", "lock", "weigh", "askNew", "askOld"}
  BY DEF Judge, CheckLock, Weigh, AskNew, AskOld
<1>4. \/ task'[s] = Idle
      \/ task'[s] = [task[s] EXCEPT !.pc = "lock"]
      \/ LockStale(synclock, now) /\ task'[s] = [task[s] EXCEPT !.pc = "reset"]
      \/ LockOpen(synclock) /\ task'[s] = [task[s] EXCEPT !.pc = "tip"]
      \/ /\ task[s].pc = "weigh" /\ task'[s] = [task[s] EXCEPT !.pc = "askNew"]
      \/ /\ task[s].pc = "askNew" /\ task'[s] = [task[s] EXCEPT !.pc = "askOld"]
      \/ task'[s] = [task[s] EXCEPT !.pc = "latest", !.force = FALSE]
      \/ /\ task[s].pc \in {"weigh", "askNew", "askOld"}
         /\ task'[s] = [task[s] EXCEPT !.pc = "latest", !.force = TRUE]
  BY DEF Judge, CheckLock, Weigh, AskNew, AskOld, Accept, Decline, Approve, Refuse,
         StartUpdate, TypeOK
<1>5. ReadsHold(task[s])' /\ task'[s].pc \notin {"putLatest", "putHeight"}
  BY <1>1, <1>2, <1>4 DEF ReadsHold, ReadsTip, UnderOpenLock, Updating, Task
<1> QED BY <1>2, <1>3, <1>5, Quiet

LEMMA SerialRead ==
  ASSUME TypeOK, SerialInv, NEW s \in Slot,
         \/ ReadLatest(s) \/ ResetLock(s) \/ ReadTip(s)
         \/ ReadPreviousLatest(s) \/ ReadParent(s)
  PROVE  SerialInv'
<1>1. task[s] \in Task /\ ReadsHold(task[s]) /\ LockOpen(Genesis)
  BY BlocksAssumption, GenesisAssumption DEF TypeOK, SerialInv, LockOpen, Height
<1>2. UNCHANGED <<latest, parent, index, restarts, grafted, now>>
  BY DEF ReadLatest, ResetLock, ReadTip, ReadPreviousLatest, ReadParent, disk, clock, history
<1>3. task[s].pc \in {"next", "reset", "tip", "latest", "parent"}
  BY DEF ReadLatest, ResetLock, ReadTip, ReadPreviousLatest, ReadParent
<1>4. ReadsHold(task[s])' /\ task'[s].pc \notin {"putLatest", "putHeight"}
  <2>1. CASE ReadLatest(s)
    BY <1>1, <2>1 DEF ReadLatest, disk, clock, TypeOK, Task, ReadsHold, ReadsTip,
                      UnderOpenLock, Updating
  <2>2. CASE ResetLock(s)
    BY <1>1, <2>2 DEF ResetLock, clock, TypeOK, Task, ReadsHold, ReadsTip, UnderOpenLock,
                      Updating
  <2>3. CASE ReadTip(s)
    BY <1>1, <2>3 DEF ReadTip, disk, clock, TypeOK, Task, ReadsHold, ReadsTip,
                      UnderOpenLock, Updating
  <2>4. CASE ReadPreviousLatest(s)
    BY <1>1, <2>4 DEF ReadPreviousLatest, disk, clock, TypeOK, Task, ReadsHold, ReadsTip,
                      UnderOpenLock, Updating
  <2>5. CASE ReadParent(s)
    BY <1>1, <2>5 DEF ReadParent, disk, clock, TypeOK, Task, ReadsHold, ReadsTip,
                      UnderOpenLock, Updating
  <2> QED BY <2>1, <2>2, <2>3, <2>4, <2>5
<1> QED BY <1>2, <1>3, <1>4, Quiet

(***************************************************************************)
(* The branch that puts genesis as the parent is out of reach: it is tried *)
(* only when a forced update finds the lock held.  The first branch leaves *)
(* the parent alone, which is right on top of genesis and otherwise only   *)
(* after the tip was grafted.                                              *)
(***************************************************************************)
LEMMA SerialDecide ==
  ASSUME TypeOK, SerialInv, NEW s \in Slot, Decide(s)
  PROVE  SerialInv'
<1> DEFINE t == task[s]
<1>1. /\ t \in Task /\ t.pc = "decide" /\ t.cur = latest /\ t.par = parent
      /\ t.force => LockOpen(synclock)
      /\ ~grafted => Linked
      /\ restarts = 0 => index[Height(latest)] = latest
  BY DEF Decide, TypeOK, SerialInv, ReadsHold, KeysFollow, ReadsTip, Updating
<1>2. UNCHANGED <<latest, parent, synclock, index, restarts, grafted, now>>
  BY DEF Decide, disk, clock, history
<1>3. task'[s] = Plan(t)
  BY DEF Decide, TypeOK
<1>4. CASE TakesBetterPath(t)
  <2>1. task'[s] = [t EXCEPT !.pc = "putLatest"]
    BY <1>3, <1>4 DEF Plan
  <2>2. ~grafted => latest = Genesis /\ parent = Genesis
    BY <1>1, <1>4 DEF TakesBetterPath, Linked
  <2>3. /\ task'[s].pc = "putLatest" /\ task'[s].cur = latest
        /\ task'[s].force = t.force /\ task'[s].blk = t.blk
    BY <1>1, <2>1 DEF Task
  <2> HIDE DEF t
  <2>4. ReadsHold(task[s])' /\ KeysFollow(task[s])'
    BY <1>1, <1>2, <2>2, <2>3 DEF ReadsHold, KeysFollow, ReadsTip, UnderOpenLock, Updating
  <2> QED BY <2>4, Alone
<1>5. CASE ~TakesBetterPath(t)
  <2>1. \/ task'[s] = [t EXCEPT !.pc = "putParent", !.par = t.cur]
        \/ LockOpen(synclock) /\ task'[s] = [t EXCEPT !.pc = "putLock", !.par = t.cur]
        \/ task'[s] = Idle
    BY <1>1, <1>3, <1>5 DEF Plan
  <2>2. ReadsHold(task[s])' /\ task'[s].pc \in {"putParent", "putLock", "idle"}
    <3>1. CASE task'[s] = Idle
      BY <3>1 DEF Idle, ReadsHold, ReadsTip, UnderOpenLock, Updating
    <3>2. CASE task'[s] # Idle
      BY <1>1, <1>2, <2>1, <3>2 DEF Task, ReadsHold, ReadsTip, UnderOpenLock, Updating
    <3> QED BY <3>1, <3>2
  <2> QED BY <1>1, <1>2, <2>2, Quiet
<1> QED BY <1>4, <1>5

LEMMA SerialPut ==
  ASSUME TypeOK, SerialInv, NEW s \in Slot,
         PutLock(s) \/ PutParent(s) \/ PutLatest(s) \/ PutHeight(s) \/ PutHeaders(s)
  PROVE  SerialInv'
<1> DEFINE t == task[s]
<1>1. t \in Task /\ t.blk \in Block /\ ReadsHold(t) /\ KeysFollow(t)
  BY DEF TypeOK, SerialInv, Task
<1>2. Height(t.blk) \in Heights /\ index \in [Heights -> Block \cup {Unknown}]
  BY <1>1, ContentTypes DEF TypeOK
<1>3. CASE PutLock(s)
  <2>1. /\ t.pc = "putLock" /\ synclock' = t.blk
        /\ task'[s].pc = "putParent" /\ task'[s].cur = t.cur /\ task'[s].par = t.par
        /\ task'[s].blk = t.blk
        /\ UNCHANGED <<latest, parent, index, restarts, grafted>>
    BY <1>1, <1>3 DEF PutLock, TypeOK, Task, clock, history
  <2>2. ReadsHold(task[s])'
    BY <1>1, <2>1 DEF ReadsHold, ReadsTip, UnderOpenLock, Updating
  <2> QED BY <2>1, <2>2, Quiet
<1>4. CASE PutParent(s)
  <2>1. /\ t.pc = "putParent" /\ parent' = t.par
        /\ task'[s].pc = "putLatest" /\ task'[s].cur = t.cur
        /\ task'[s].blk = t.blk /\ task'[s].force = t.force
        /\ UNCHANGED <<latest, synclock, index, restarts, grafted>>
    BY <1>1, <1>4 DEF PutParent, TypeOK, Task, clock, history
  <2>2. t.par = latest /\ t.cur = latest
        /\ (t.force => LockOpen(synclock) \/ synclock = t.blk)
        /\ (restarts = 0 => index[Height(latest)] = latest)
    BY <1>1, <2>1 DEF ReadsHold, KeysFollow, ReadsTip, Updating
  <2> HIDE DEF t
  <2>3. ReadsHold(task[s])' /\ KeysFollow(task[s])'
    BY <2>1, <2>2 DEF ReadsHold, KeysFollow, ReadsTip, UnderOpenLock
  <2> QED BY <2>3, Alone
<1>5. CASE PutLatest(s)
  <2>1. /\ t.pc = "putLatest" /\ latest' = t.blk
        /\ task'[s].pc = "putHeight" /\ task'[s].blk = t.blk
        /\ grafted' = (grafted \/ Prev(t.blk) # latest)
        /\ UNCHANGED <<parent, index, restarts>>
    BY <1>1, <1>5 DEF PutLatest, TypeOK, Task, clock
  <2>2. ~grafted' => parent' = Prev(latest')
    BY <1>1, <2>1 DEF KeysFollow
  <2> HIDE DEF t
  <2>3. ReadsHold(task[s])' /\ KeysFollow(task[s])'
    BY <2>1, <2>2 DEF ReadsHold, KeysFollow, Linked, ReadsTip, UnderOpenLock, Updating
  <2> QED BY <2>3, Alone
<1>6. CASE PutHeight(s)
  <2>1. /\ t.pc = "putHeight" /\ index' = [index EXCEPT ![Height(t.blk)] = t.blk]
        /\ task'[s].pc = "putHeaders"
        /\ UNCHANGED <<latest, parent, restarts, grafted>>
    BY <1>1, <1>6 DEF PutHeight, TypeOK, Task, clock, history
  <2>2. restarts = 0 => index'[Height(latest)] = latest
    BY <1>1, <1>2, <2>1 DEF KeysFollow
  <2>3. ~grafted => Linked
    BY <1>1, <2>1 DEF KeysFollow
  <2> HIDE DEF t
  <2>4. ReadsHold(task[s])' /\ KeysFollow(task[s])'
    BY <2>1, <2>2, <2>3 DEF ReadsHold, KeysFollow, Linked, ReadsTip, UnderOpenLock, Updating
  <2> QED BY <2>4, Alone
<1>7. CASE PutHeaders(s)
  <2>1. /\ t.pc = "putHeaders" /\ task'[s] = Idle
        /\ UNCHANGED <<latest, parent, index, restarts, grafted>>
    BY <1>1, <1>7 DEF PutHeaders, TypeOK, clock, history
  <2>2. ReadsHold(task[s])' /\ task'[s].pc = "idle"
    BY <2>1 DEF Idle, ReadsHold, ReadsTip, UnderOpenLock, Updating
  <2> QED BY <2>1, <2>2, Quiet
<1> QED BY <1>3, <1>4, <1>5, <1>6, <1>7

LEMMA SerialEnvironment ==
  ASSUME TypeOK, SerialInv, Environment
  PROVE  SerialInv'
<1>1. CASE Restart
  <2>1. \A s \in Slot : task'[s] = Idle
    BY <1>1 DEF Restart
  <2>2. grafted' /\ restarts' # 0
    BY <1>1, IngestAssumption DEF Restart, TypeOK
  <2>3. Idle.pc = "idle"
    BY DEF Idle
  <2> QED BY <2>1, <2>2, <2>3
          DEF SerialInv, ReadsHold, KeysFollow, ReadsTip, UnderOpenLock, Updating
<1>2. CASE ~Restart
  <2>1. /\ UNCHANGED <<latest, parent, synclock, index, task, restarts, grafted>>
        /\ now' \in {now, now + 1} /\ now \in Nat
    BY <1>2, IngestAssumption
       DEF Environment, MinedDuplicate, PutAside, RoverStores, Purge, Tick, disk, memory,
           clock, history, TypeOK
  <2>2. LockStale(synclock, now) => LockStale(synclock, now')
    BY <2>1, ContentTypes, ClockAssumption DEF LockStale, TypeOK
  <2> QED BY <2>1, <2>2 DEF SerialInv, ReadsHold, KeysFollow, Linked
<1> QED BY <1>1, <1>2

LEMMA SerialStep == TypeOK /\ SerialInv /\ [Next]_vars => SerialInv'
<1> SUFFICES ASSUME TypeOK, SerialInv, [Next]_vars PROVE SerialInv'
  OBVIOUS
<1>1. ASSUME NEW s \in Slot, Receive(s) PROVE SerialInv'
  BY <1>1, SerialEnter DEF Receive, BlockFromPeer, MinedBlock
<1>2. ASSUME NEW s \in Slot, Step(s) PROVE SerialInv'
  BY <1>2, SerialWeigh, SerialRead, SerialDecide, SerialPut DEF Step
<1>3. CASE UNCHANGED vars
  BY <1>3 DEF vars, disk, clock, history, SerialInv, ReadsHold, KeysFollow, Linked
<1> QED BY <1>1, <1>2, <1>3, SerialEnvironment DEF Next

LEMMA SerialAlways == Spec /\ OneSlot => []SerialInv
<1>1. TypeOK /\ SerialInv /\ [Next]_vars => SerialInv'
  BY SerialStep
<1> QED BY <1>1, SerialInit, TypeCorrect, PTL DEF Spec

(***************************************************************************)
(* When nothing is in flight in the first session, the height index leads  *)
(* to the latest block.                                                    *)
(***************************************************************************)
THEOREM IndexCorrect == Spec /\ OneSlot => []IndexHoldsTip
<1>1. SerialInv => IndexHoldsTip
  BY DEF SerialInv, OneSlot, KeysFollow, IndexHoldsTip, AtRest, Idle
<1> QED BY <1>1, SerialAlways, PTL

(***************************************************************************)
(* When nothing is in flight and the tip only ever moved to its children,  *)
(* the parent key lets the node mine.                                      *)
(***************************************************************************)
THEOREM LinkedCorrect == Spec /\ OneSlot => []LinkedWhileExtending
<1>1. SerialInv => LinkedWhileExtending
  BY DEF SerialInv, OneSlot, KeysFollow, Linked, LinkedWhileExtending, AtRest, MayMine, Idle
<1> QED BY <1>1, SerialAlways, PTL
-----------------------------------------------------------------------------
(***************************************************************************)
(* The promise of TipRegister.  A block that enters an empty multiverse is *)
(* accepted without a test, so the node must not be purged.  A chain that  *)
(* will move the tip holds a block at least as heavy as the tip, and one   *)
(* that is not forced holds a child of it.                                 *)
(***************************************************************************)
Heavy(t) ==
  /\ t.pc \in {"askNew", "askOld"} \cup Updating => Distance(t.blk) >= Distance(latest)
  /\ t.pc \in Updating /\ ~t.force => Prev(t.blk) = latest

HeavyInv == /\ OneSlot /\ MaxPurges = 0 /\ chain # <<>>
            /\ \A s \in Slot : Heavy(task[s])

LEMMA HeavyInit == Init /\ OneSlot /\ MaxPurges = 0 => HeavyInv
<1> SUFFICES ASSUME Init, OneSlot, MaxPurges = 0 PROVE HeavyInv
  OBVIOUS
<1>1. Heavy(Idle)
  BY DEF Heavy, Idle, Updating
<1> QED BY <1>1 DEF Init, HeavyInv

LEMMA HeavyAlone ==
  ASSUME HeavyInv, NEW s \in Slot, chain' # <<>>, Heavy(task[s])'
  PROVE  HeavyInv'
  BY DEF HeavyInv, OneSlot

LEMMA HeavyJudge ==
  ASSUME TypeOK, SerialInv, HeavyInv, NEW s \in Slot, Judge(s)
  PROVE  HeavyInv'
<1> DEFINE t == task[s]
<1>1. /\ t \in Task /\ t.blk \in Block /\ t.cur = latest /\ UNCHANGED latest
      /\ chain \in Seq(Block) /\ chain # <<>>
  BY DEF Judge, TypeOK, SerialInv, ReadsHold, ReadsTip, Task, HeavyInv, disk
<1>2. CASE IsNext(t)
  <2>1. Len(chain') # 0 /\ Len(<<>>) = 0
    BY <1>1, <1>2, OnTop, LenProperties DEF Judge
  <2>2. \/ task'[s] = Idle
        \/ task'[s] = [t EXCEPT !.pc = "latest", !.force = FALSE]
    BY <1>2 DEF Judge, Accept, StartUpdate, TypeOK
  <2>3. Distance(t.blk) >= Distance(latest) /\ Prev(t.blk) = latest
    BY <1>1, <1>2 DEF IsNext, NextTests
  <2>4. task'[s].pc = "idle" \/ (task'[s].blk = t.blk /\ task'[s].pc = "latest")
    <3>1. CASE task'[s] = Idle
      BY <3>1 DEF Idle
    <3>2. CASE task'[s] = [t EXCEPT !.pc = "latest", !.force = FALSE]
      BY <1>1, <3>2 DEF Task
    <3> QED BY <2>2, <3>1, <3>2
  <2> HIDE DEF t
  <2>5. Heavy(task[s])'
    BY <1>1, <2>3, <2>4 DEF Heavy, Updating
  <2> QED BY <2>1, <2>5, HeavyAlone
<1>3. CASE ~IsNext(t)
  <2>1. ~IsBestOfNone(t)
    BY <1>1 DEF IsBestOfNone
  <2>2. UNCHANGED chain /\ (task'[s] = Idle \/ task'[s] = [t EXCEPT !.pc = "lock"])
    BY <1>3, <2>1 DEF Judge, Decline, TypeOK
  <2>3. task'[s].pc \in {"idle", "lock"}
    BY <1>1, <2>2 DEF Idle, Task
  <2>4. Heavy(task[s])'
    BY <2>3 DEF Heavy, Updating
  <2> QED BY <1>1, <2>2, <2>4, HeavyAlone
<1> QED BY <1>2, <1>3

(* Every verdict but "refuse" is about a block that is at least as heavy.  *)
LEMMA VerdictHeavy ==
  ASSUME NEW b \in Block, NEW c \in Block, NEW n \in Nat, NEW len \in Nat \ {0},
         ResyncVerdict(b, c, n, len) \in {"approve", "ask"}
  PROVE  Distance(b) >= Distance(c)
<1>1. Distance(b) \in Nat /\ Distance(c) \in Nat
  BY ContentTypes
<1>2. Height(c) = 1 => Distance(b) >= Distance(c)
  BY GenesisAssumption DEF Height, Distance
<1> QED BY <1>1, <1>2
        DEF ResyncVerdict, GrowsAboveGenesis, BeatsStaleTip, BeatsShortMultiverse,
            LighterButNotWorse

LEMMA HeavyWeigh ==
  ASSUME TypeOK, SerialInv, HeavyInv, NEW s \in Slot,
         CheckLock(s) \/ Weigh(s) \/ AskNew(s) \/ AskOld(s)
  PROVE  HeavyInv'
<1> DEFINE t == task[s]
<1>1. /\ t \in Task /\ t.blk \in Block /\ latest \in Block /\ now \in Nat
      /\ UNCHANGED <<latest, chain>> /\ chain # <<>> /\ Len(chain) \in Nat \ {0}
  BY EmptySeq, LenProperties, IngestAssumption
     DEF CheckLock, Weigh, AskNew, AskOld, TypeOK, Task, HeavyInv, disk
<1>2. \/ task'[s].pc \in {"idle", "reset", "tip"}
      \/ Distance(t.blk) >= Distance(latest) /\ task'[s].blk = t.blk
         /\ (task'[s].pc \in {"askNew", "askOld"} \/ task'[s].force)
  <2>1. CASE CheckLock(s)
    BY <1>1, <2>1 DEF CheckLock, Refuse, TypeOK, Task, Idle
  <2>2. CASE Weigh(s)
    <3>1. t.cur = latest
      BY <2>2 DEF Weigh, SerialInv, ReadsHold, ReadsTip
    <3>2. \/ task'[s] = Idle
          \/ /\ ResyncVerdict(t.blk, t.cur, now, Len(chain)) \in {"approve", "ask"}
             /\ \/ task'[s] = [t EXCEPT !.pc = "askNew"]
                \/ task'[s] = [t EXCEPT !.pc = "latest", !.force = TRUE]
      BY <2>2 DEF Weigh, Approve, Refuse, StartUpdate, TypeOK
    <3>3. CASE task'[s] = Idle
      BY <3>3 DEF Idle
    <3>4. CASE task'[s] # Idle
      <4>1. Distance(t.blk) >= Distance(latest)
        BY <1>1, <3>1, <3>2, <3>4, VerdictHeavy
      <4> QED BY <1>1, <3>2, <3>4, <4>1 DEF Task
    <3> QED BY <3>3, <3>4
  <2>3. CASE AskNew(s) \/ AskOld(s)
    <3>1. Distance(t.blk) >= Distance(latest)
      BY <2>3 DEF AskNew, AskOld, HeavyInv, Heavy
    <3>2. \/ task'[s] = Idle
          \/ task'[s] = [t EXCEPT !.pc = "askOld"]
          \/ task'[s] = [t EXCEPT !.pc = "latest", !.force = TRUE]
      BY <2>3 DEF AskNew, AskOld, Approve, Refuse, StartUpdate, TypeOK
    <3>3. CASE task'[s] = Idle
      BY <3>3 DEF Idle
    <3>4. CASE task'[s] # Idle
      BY <1>1, <3>1, <3>2, <3>4 DEF Task
    <3> QED BY <3>3, <3>4
  <2> QED BY <2>1, <2>2, <2>3
<1> HIDE DEF t
<1>3. Heavy(task[s])'
  BY <1>1, <1>2 DEF Heavy, Updating
<1> QED BY <1>1, <1>3, HeavyAlone

(* The steps of an update keep the block and whether it is forced.         *)
LEMMA HeavyUpdate ==
  ASSUME TypeOK, HeavyInv, NEW s \in Slot,
         \/ ReadLatest(s) \/ ResetLock(s) \/ ReadTip(s)
         \/ ReadPreviousLatest(s) \/ ReadParent(s) \/ Decide(s)
         \/ PutLock(s) \/ PutParent(s) \/ PutLatest(s) \/ PutHeight(s) \/ PutHeaders(s)
  PROVE  HeavyInv'
<1>1. task[s] \in Task /\ Heavy(task[s]) /\ chain' # <<>>
  BY DEF TypeOK, HeavyInv, memory, ReadLatest, ResetLock, ReadTip, ReadPreviousLatest,
         ReadParent, Decide, PutLock, PutParent, PutLatest, PutHeight, PutHeaders
<1>2. CASE ReadLatest(s) \/ ResetLock(s) \/ ReadTip(s)
  <2>1. task'[s].pc \in {"judge", "tip", "weigh"}
    BY <1>1, <1>2 DEF ReadLatest, ResetLock, ReadTip, TypeOK, Task
  <2>2. Heavy(task[s])'
    BY <2>1 DEF Heavy, Updating
  <2> QED BY <1>1, <2>2, HeavyAlone
<1>3. CASE ReadPreviousLatest(s) \/ ReadParent(s) \/ Decide(s) \/ PutLock(s) \/ PutParent(s)
  <2>1. task[s].pc \in Updating /\ UNCHANGED latest
    BY <1>3 DEF ReadPreviousLatest, ReadParent, Decide, PutLock, PutParent, Updating, disk
  <2>2. \/ task'[s].pc = "idle"
        \/ task'[s].blk = task[s].blk /\ task'[s].force = task[s].force
    <3>1. CASE Decide(s)
      BY <1>1, <3>1 DEF Decide, Plan, TypeOK, Task, Idle
    <3>2. CASE ~Decide(s)
      BY <1>1, <1>3, <3>2 DEF ReadPreviousLatest, ReadParent, PutLock, PutParent, TypeOK, Task
    <3> QED BY <3>1, <3>2
  <2>3. Heavy(task[s])'
    BY <1>1, <2>1, <2>2 DEF Heavy, Updating
  <2> QED BY <1>1, <2>3, HeavyAlone
<1>4. CASE PutLatest(s) \/ PutHeight(s) \/ PutHeaders(s)
  <2>1. task'[s].pc \in {"putHeight", "putHeaders", "idle"}
    BY <1>1, <1>4 DEF PutLatest, PutHeight, PutHeaders, TypeOK, Task, Idle
  <2>2. Heavy(task[s])'
    BY <2>1 DEF Heavy, Updating
  <2> QED BY <1>1, <2>2, HeavyAlone
<1> QED BY <1>2, <1>3, <1>4

LEMMA HeavyStep == TypeOK /\ SerialInv /\ HeavyInv /\ [Next]_vars => HeavyInv'
<1> SUFFICES ASSUME TypeOK, SerialInv, HeavyInv, [Next]_vars PROVE HeavyInv'
  OBVIOUS
<1>1. ASSUME NEW s \in Slot, NEW b \in Block, NEW m \in BOOLEAN, Enter(s, b, m)
      PROVE  HeavyInv'
  <2>1. chain' = chain /\ task'[s] = [Idle EXCEPT !.pc = "next", !.blk = b, !.mined = m]
    BY <1>1 DEF Enter, HeavyInv, TypeOK
  <2>2. task'[s].pc = "next"
    BY <2>1, IdleType DEF Task
  <2>3. Heavy(task[s])' /\ chain' # <<>>
    BY <2>1, <2>2 DEF Heavy, Updating, HeavyInv
  <2> QED BY <2>3, HeavyAlone
<1>2. ASSUME NEW s \in Slot, Receive(s) PROVE HeavyInv'
  BY <1>1, <1>2 DEF Receive, BlockFromPeer, MinedBlock
<1>3. ASSUME NEW s \in Slot, Step(s) PROVE HeavyInv'
  BY <1>3, HeavyJudge, HeavyWeigh, HeavyUpdate DEF Step
<1>4. CASE Restart
  <2>1. chain' = <<latest>> /\ Len(<<latest>>) = 1 /\ Len(<<>>) = 0
    BY <1>4 DEF Restart
  <2>2. \A s \in Slot : Heavy(task[s])'
    BY <1>4 DEF Restart, Heavy, Idle, Updating
  <2> QED BY <2>1, <2>2 DEF HeavyInv
<1>5. CASE Environment /\ ~Restart
  <2>1. ~Purge
    BY IngestAssumption DEF Purge, HeavyInv, TypeOK
  <2>2. UNCHANGED <<latest, task, chain>>
    BY <1>5, <2>1 DEF Environment, MinedDuplicate, PutAside, RoverStores, Tick, disk,
                      memory, history
  <2> QED BY <2>2 DEF HeavyInv, Heavy
<1>6. CASE UNCHANGED vars
  BY <1>6 DEF vars, disk, memory, HeavyInv, Heavy
<1> QED BY <1>2, <1>3, <1>4, <1>5, <1>6 DEF Next

LEMMA RegisterInit == Init => Tip!Init
  BY DEF Init, Tip!Init

(* Only the lock, the tip, the clock and a restart are seen by the         *)
(* register; each of these steps is one of its own.                        *)
LEMMA RegisterStep ==
  TypeOK /\ SerialInv /\ HeavyInv /\ [Next]_vars => [Tip!Next]_(Tip!vars)
<1> SUFFICES ASSUME TypeOK, SerialInv, HeavyInv, [Next]_vars
             PROVE  Tip!Next \/ UNCHANGED Tip!vars
  OBVIOUS
<1>1. ASSUME NEW s \in Slot, ResetLock(s) PROVE Tip!Expire
  <2>1. LockStale(synclock, now)
    BY <1>1 DEF ResetLock, SerialInv, ReadsHold
  <2> QED BY <1>1, <2>1 DEF ResetLock, Tip!Expire, clock, Tip!LockStale, LockStale,
             Tip!LockOpen, LockOpen, Tip!Height, Height, Tip!Stamp, Stamp
<1>2. ASSUME NEW s \in Slot, PutLock(s) PROVE Tip!BeginSync(task[s].blk)
  <2>1. LockOpen(synclock) /\ Distance(task[s].blk) >= Distance(latest)
    BY <1>2 DEF PutLock, SerialInv, ReadsHold, UnderOpenLock, HeavyInv, Heavy, Updating
  <2> QED BY <1>2, <2>1 DEF PutLock, clock, Tip!BeginSync, Tip!Heavier, Tip!LockOpen,
             LockOpen, Tip!Height, Height, Tip!Distance, Distance
<1>3. ASSUME NEW s \in Slot, PutLatest(s)
      PROVE  Tip!Advance(task[s].blk) \/ Tip!Graft(task[s].blk)
  <2>1. /\ Distance(task[s].blk) >= Distance(latest)
        /\ \/ Prev(task[s].blk) = latest
           \/ LockOpen(synclock) \/ synclock = task[s].blk
    BY <1>3 DEF PutLatest, SerialInv, ReadsHold, HeavyInv, Heavy, Updating
  <2> QED BY <1>3, <2>1 DEF PutLatest, clock, Tip!Advance, Tip!Graft, Tip!Heavier,
             Tip!LockOpen, LockOpen, Tip!Height, Height, Tip!Distance, Distance, Tip!Prev, Prev
<1>4. ASSUME NEW s \in Slot, Step(s), ~ResetLock(s), ~PutLock(s), ~PutLatest(s)
      PROVE  UNCHANGED Tip!vars
  BY <1>4 DEF Step, Judge, CheckLock, Weigh, AskNew, AskOld, ReadLatest, ReadTip,
     ReadPreviousLatest, ReadParent, Decide, PutParent, PutHeight, PutHeaders, disk, clock,
     Tip!vars
<1>5. ASSUME NEW s \in Slot, Receive(s) PROVE UNCHANGED Tip!vars
  BY <1>5 DEF Receive, BlockFromPeer, MinedBlock, Enter, disk, clock, Tip!vars
<1>6. CASE Environment
  <2>1. CASE Restart
    BY <2>1 DEF Restart, Tip!Recover, Tip!Next
  <2>2. CASE Tick
    BY <2>2 DEF Tick, disk, Tip!Tick, Tip!Next
  <2>3. CASE ~Restart /\ ~Tick
    BY <1>6, <2>3 DEF Environment, MinedDuplicate, PutAside, RoverStores, Purge, disk,
       clock, Tip!vars
  <2> QED BY <2>1, <2>2, <2>3
<1>7. CASE UNCHANGED vars
  BY <1>7 DEF vars, disk, clock, Tip!vars
<1>8. \A s \in Slot : task[s].blk \in Block
  BY DEF TypeOK, Task
<1> QED BY <1>1, <1>2, <1>3, <1>4, <1>5, <1>6, <1>7, <1>8 DEF Next, Tip!Next

(***************************************************************************)
(* A node that is not purged and handles one block at a time keeps the     *)
(* promise of TipRegister: the total distance of the tip never falls, and  *)
(* the tip leaves its branch only under an open lock or its own.           *)
(***************************************************************************)
THEOREM RegisterCorrect == Spec /\ OneSlot /\ MaxPurges = 0 => ImplementsTipRegister
<1>1. Init /\ OneSlot /\ MaxPurges = 0 => HeavyInv
  BY HeavyInit
<1>2. TypeOK /\ SerialInv /\ HeavyInv /\ [Next]_vars => HeavyInv'
  BY HeavyStep
<1>3. Init => Tip!Init
  BY RegisterInit
<1>4. TypeOK /\ SerialInv /\ HeavyInv /\ [Next]_vars => [Tip!Next]_(Tip!vars)
  BY RegisterStep
<1> QED BY <1>1, <1>2, <1>3, <1>4, TypeCorrect, SerialAlways, PTL
        DEF Spec, ImplementsTipRegister, Tip!Spec
=============================================================================
