------------------------- MODULE BlockIngestProofs --------------------------
(***************************************************************************)
(* What holds of BlockIngest for every set of blocks, every number of      *)
(* handler chains and every bound.                                         *)
(***************************************************************************)
EXTENDS BlockIngest, SequenceTheorems, TLAPS

-----------------------------------------------------------------------------
(* The first block of the table has a height, and every height is indexed. *)
LEMMA ContentTypes ==
  /\ Genesis \in Block
  /\ \A b \in Block : /\ Height(b) \in Heights /\ Height(b) \in Nat
                      /\ Prev(b) \in Block \cup {Unknown}
                      /\ Distance(b) \in Nat /\ Stamp(b) \in Nat
                      /\ Weight(b) \in Nat /\ Newest(b) \in Nat
                      /\ Keys(b) \subseteq Key
  BY BlocksAssumption, SMT
     DEF Fields, Heights, Height, Prev, Distance, Stamp, Weight, Newest, Keys

LEMMA IdleType == Idle \in Task
  BY ContentTypes DEF Idle, Task, PC

(* Prepending a block to the multiverse and popping it keeps its bound.    *)
LEMMA BoundedType ==
  ASSUME NEW b \in Block, NEW c \in Seq(Block), Len(c) <= ChainMax
  PROVE  /\ Bounded(<<b>> \o c) \in Seq(Block)
         /\ Len(Bounded(<<b>> \o c)) <= ChainMax
<1> DEFINE d == <<b>> \o c
<1>1. d \in Seq(Block) /\ Len(d) \in Nat
  BY ConcatProperties, LenProperties
<1>2. CASE Len(d) > ChainMax
  <2>1. SubSeq(d, 1, ChainMax) \in Seq(Block)
        /\ Len(SubSeq(d, 1, ChainMax)) = ChainMax
    BY <1>1, <1>2, SubSeqProperties, IngestAssumption
  <2> QED BY <2>1, <1>2, IngestAssumption DEF Bounded
<1>3. CASE ~(Len(d) > ChainMax)
  BY <1>1, <1>3, IngestAssumption DEF Bounded
<1> QED BY <1>2, <1>3

-----------------------------------------------------------------------------
LEMMA TypeInit == Init => TypeOK
<1> SUFFICES ASSUME Init PROVE TypeOK
  OBVIOUS
<1>1. chain \in Seq(Block) /\ Len(chain) <= ChainMax
  BY ContentTypes, IngestAssumption DEF Init
<1>2. index \in [Heights -> Block \cup {Unknown}]
  BY ContentTypes DEF Init
<1>3. task \in [Slot -> Task]
  BY IdleType DEF Init
<1>4. now \in 0..MaxTime /\ restarts \in 0..MaxRestarts
      /\ purges \in 0..MaxPurges
  BY IngestAssumption DEF Init
<1>5. latest \in Block /\ parent \in Block /\ synclock \in Block
      /\ tips \subseteq Block /\ grafted \in BOOLEAN
  BY ContentTypes DEF Init
<1> QED BY <1>1, <1>2, <1>3, <1>4, <1>5 DEF Init, TypeOK

(* A step that only changes one handler chain, to another of its type.     *)
LEMMA TaskStep ==
  ASSUME TypeOK, NEW s \in Slot, NEW t \in Task,
         task' = [task EXCEPT ![s] = t]
  PROVE  task' \in [Slot -> Task]
  BY DEF TypeOK

LEMMA PlanType ==
  ASSUME NEW t \in Task
  PROVE  Plan(t) \in Task
  BY ContentTypes, IdleType DEF Plan, Task, PC, Reads, Puts

LEMMA AcceptType ==
  ASSUME TypeOK, NEW s \in Slot, NEW t \in Task, Accept(s, t)
  PROVE  /\ task' \in [Slot -> Task] /\ evaluated' \subseteq Block
         /\ announced' \subseteq Block /\ accepted' \subseteq Block
         /\ aside' \subseteq Block
<1>1. [t EXCEPT !.pc = "latest", !.force = FALSE] \in Task /\ t.blk \in Block
  BY DEF Task, PC, Reads
<1> QED BY <1>1, IdleType DEF Accept, StartUpdate, TypeOK

LEMMA ApproveType ==
  ASSUME TypeOK, NEW s \in Slot, NEW t \in Task, Approve(s, t)
  PROVE  /\ task' \in [Slot -> Task] /\ evaluated' \subseteq Block
         /\ aside' \subseteq Block
<1>1. [t EXCEPT !.pc = "latest", !.force = TRUE] \in Task /\ t.blk \in Block
  BY DEF Task, PC, Reads
<1> QED BY <1>1, IdleType DEF Approve, StartUpdate, TypeOK

LEMMA RefuseType ==
  ASSUME TypeOK, NEW s \in Slot, NEW t \in Task, Refuse(s, t)
  PROVE  /\ task' \in [Slot -> Task] /\ evaluated' \subseteq Block
         /\ aside' \subseteq Block
  BY IdleType DEF Refuse, TypeOK

LEMMA DeclineType ==
  ASSUME TypeOK, NEW s \in Slot, NEW t \in Task, Decline(s, t)
  PROVE  /\ task' \in [Slot -> Task] /\ evaluated' \subseteq Block
         /\ announced' \subseteq Block /\ accepted' \subseteq Block
         /\ aside' \subseteq Block
<1>1. [t EXCEPT !.pc = "lock"] \in Task /\ t.blk \in Block
  BY DEF Task, PC
<1> QED BY <1>1, IdleType DEF Decline, TypeOK

LEMMA EnterType ==
  ASSUME TypeOK, NEW s \in Slot, NEW b \in Block, NEW m \in BOOLEAN,
         Enter(s, b, m)
  PROVE  TypeOK'
<1> DEFINE t == [Idle EXCEPT !.pc = "next", !.blk = b, !.mined = m]
<1>1. t \in Task
  BY IdleType DEF Task, PC
<1>2. CASE chain = <<>>
  <2>0. chain' = <<b>>
    BY <1>2 DEF Enter
  <2>1. chain' \in Seq(Block) /\ Len(chain') <= ChainMax
    BY <2>0, IngestAssumption
  <2>2. Accept(s, t)
    BY <1>2 DEF Enter
  <2> HIDE DEF t
  <2> QED BY <1>1, <1>2, <2>1, <2>2, AcceptType
          DEF Enter, TypeOK, disk, clock
<1>3. CASE chain # <<>>
  <2>1. task' = [task EXCEPT ![s] = t] /\ UNCHANGED chain
    BY <1>3 DEF Enter
  <2>2. UNCHANGED <<evaluated, aside, announced, accepted>>
    BY <1>3 DEF Enter
  <2> HIDE DEF t
  <2> QED BY <1>1, <2>1, <2>2, TaskStep DEF Enter, TypeOK, disk, clock
<1> QED BY <1>2, <1>3

LEMMA JudgeType ==
  ASSUME TypeOK, NEW s \in Slot, Judge(s)
  PROVE  TypeOK'
<1> DEFINE t == task[s]
<1>1. t \in Task /\ t.blk \in Block
  BY DEF TypeOK, Task
<1>2. chain' \in Seq(Block) /\ Len(chain') <= ChainMax
  BY <1>1, BoundedType DEF Judge, TypeOK
<1>3. Accept(s, t) \/ Decline(s, t)
  BY DEF Judge
<1>4. UNCHANGED <<disk, known, clock, tips, grafted>>
  BY DEF Judge
<1> HIDE DEF t
<1> QED BY <1>1, <1>2, <1>3, <1>4, AcceptType, DeclineType
        DEF TypeOK, disk, clock

(* The steps that weigh a candidate for a resync share their frame.        *)
LEMMA ResyncType ==
  ASSUME TypeOK, NEW s \in Slot,
         CheckLock(s) \/ Weigh(s) \/ AskNew(s) \/ AskOld(s)
  PROVE  TypeOK'
<1> DEFINE t == task[s]
           Moves == \E p \in PC : /\ task' = [task EXCEPT ![s].pc = p]
                                  /\ UNCHANGED <<evaluated, aside>>
<1>1. t \in Task
  BY DEF TypeOK
<1>2. UNCHANGED <<disk, chain, known, clock, announced, accepted, tips,
                  grafted>>
  BY DEF CheckLock, Weigh, AskNew, AskOld
<1>3. Approve(s, t) \/ Refuse(s, t) \/ Moves
  BY DEF CheckLock, Weigh, AskNew, AskOld, PC
<1>4. Moves => task' \in [Slot -> Task]
  <2> SUFFICES ASSUME NEW p \in PC, task' = [task EXCEPT ![s].pc = p]
               PROVE  task' \in [Slot -> Task]
    OBVIOUS
  <2>1. [t EXCEPT !.pc = p] \in Task
    BY <1>1 DEF Task
  <2> QED BY <2>1 DEF TypeOK
<1> HIDE DEF t
<1> QED BY <1>1, <1>2, <1>3, <1>4, ApproveType, RefuseType
        DEF TypeOK, disk, clock

LEMMA ReadType ==
  ASSUME TypeOK, NEW s \in Slot,
         \/ ReadLatest(s) \/ ReadTip(s)
         \/ ReadPreviousLatest(s) \/ ReadParent(s) \/ Decide(s)
  PROVE  TypeOK'
<1>1. task[s] \in Task /\ latest \in Block /\ parent \in Block
  BY DEF TypeOK
<1>2. UNCHANGED <<disk, memory, aside, clock, history>>
  BY DEF ReadLatest, ReadTip, ReadPreviousLatest, ReadParent, Decide
<1>3. \E t \in Task : task' = [task EXCEPT ![s] = t]
  <2> DEFINE At(p, c, r) == [task[s] EXCEPT !.pc = p, !.cur = c, !.par = r]
  <2>1. \A p \in PC, c, r \in Block : At(p, c, r) \in Task
    BY <1>1 DEF Task
  <2>2. {"judge", "weigh", "parent", "decide"} \subseteq PC
    BY DEF PC, Reads
  <2>3. CASE ReadLatest(s)
    BY <1>1, <2>1, <2>2, <2>3 DEF ReadLatest, TypeOK, Task
  <2>4. CASE ReadTip(s)
    BY <1>1, <2>1, <2>2, <2>4 DEF ReadTip, TypeOK, Task
  <2>5. CASE ReadPreviousLatest(s)
    BY <1>1, <2>1, <2>2, <2>5 DEF ReadPreviousLatest, TypeOK, Task
  <2>6. CASE ReadParent(s)
    BY <1>1, <2>1, <2>2, <2>6 DEF ReadParent, TypeOK, Task
  <2>7. CASE Decide(s)
    BY <1>1, <2>7, PlanType DEF Decide
  <2> QED BY <2>3, <2>4, <2>5, <2>6, <2>7
<1> QED BY <1>2, <1>3, TaskStep DEF TypeOK, disk, memory, clock, history

LEMMA PutType ==
  ASSUME TypeOK, NEW s \in Slot,
         \/ ResetLock(s) \/ PutLock(s) \/ PutParent(s)
         \/ PutLatest(s) \/ PutHeight(s) \/ PutHeaders(s)
  PROVE  TypeOK'
<1>1. /\ task[s] \in Task
      /\ task[s].blk \in Block /\ task[s].par \in Block
      /\ Height(task[s].blk) \in Heights /\ Keys(task[s].blk) \subseteq Key
      /\ Genesis \in Block
  BY ContentTypes DEF TypeOK, Task
<1>2. task' \in [Slot -> Task]
  <2>1. \A p \in PC : [task[s] EXCEPT !.pc = p] \in Task
    BY <1>1 DEF Task
  <2>2. {"tip", "putParent", "putLatest", "putHeight", "putHeaders"}
          \subseteq PC
    BY DEF PC, Puts
  <2> QED BY <2>1, <2>2, IdleType
          DEF TypeOK, ResetLock, PutLock, PutParent, PutLatest, PutHeight,
              PutHeaders
<1>3. /\ latest' \in Block /\ parent' \in Block /\ synclock' \in Block
      /\ index' \in [Heights -> Block \cup {Unknown}]
      /\ headers' \subseteq Key /\ tips' \subseteq Block
      /\ grafted' \in BOOLEAN
  <2>1. CASE ResetLock(s)
    BY <1>1, <2>1 DEF ResetLock, TypeOK, history
  <2>2. CASE PutLock(s)
    BY <1>1, <2>2 DEF PutLock, TypeOK, history
  <2>3. CASE PutParent(s)
    BY <1>1, <2>3 DEF PutParent, TypeOK, history
  <2>4. CASE PutLatest(s)
    BY <1>1, <2>4 DEF PutLatest, TypeOK
  <2>5. CASE PutHeight(s)
    BY <1>1, <2>5 DEF PutHeight, TypeOK, history
  <2>6. CASE PutHeaders(s)
    BY <1>1, <2>6 DEF PutHeaders, TypeOK, history
  <2> QED BY <2>1, <2>2, <2>3, <2>4, <2>5, <2>6
<1>4. UNCHANGED <<memory, aside, clock, announced, accepted>>
  BY DEF ResetLock, PutLock, PutParent, PutLatest, PutHeight, PutHeaders,
         history
<1> QED BY <1>2, <1>3, <1>4 DEF TypeOK, memory, clock

LEMMA EnvironmentType ==
  ASSUME TypeOK, Environment
  PROVE  TypeOK'
<1>1. CASE \E b \in Block : MinedDuplicate(b)
  BY <1>1 DEF MinedDuplicate, TypeOK, disk, memory, clock
<1>2. CASE \E b \in Block : PutAside(b)
  BY <1>2, ContentTypes DEF PutAside, TypeOK, memory, clock, history
<1>3. CASE \E k \in Key : RoverStores(k)
  BY <1>3 DEF RoverStores, TypeOK, memory, clock, history
<1>4. CASE Purge
  <2>1. chain' = <<>> /\ Len(<<>>) = 0 /\ <<>> \in Seq(Block)
    BY <1>4 DEF Purge
  <2>2. purges' \in 0..MaxPurges
    BY <1>4, IngestAssumption DEF Purge, TypeOK
  <2> QED BY <1>4, <2>1, <2>2, IngestAssumption
          DEF Purge, TypeOK, disk, history
<1>5. CASE Restart
  <2>1. chain' = <<latest>> /\ latest \in Block
    BY <1>5 DEF Restart, TypeOK
  <2>2. chain' \in Seq(Block) /\ Len(chain') <= ChainMax
    BY <2>1, IngestAssumption
  <2>3. restarts' \in 0..MaxRestarts
    BY <1>5, IngestAssumption DEF Restart, TypeOK
  <2> QED BY <1>5, <2>2, <2>3, ContentTypes, IdleType DEF Restart, TypeOK
<1>6. CASE Tick
  <2>1. now' \in 0..MaxTime
    BY <1>6, IngestAssumption DEF Tick, TypeOK
  <2> QED BY <1>6, <2>1 DEF Tick, TypeOK, disk, memory, history
<1> QED BY <1>1, <1>2, <1>3, <1>4, <1>5, <1>6 DEF Environment

LEMMA TypeStep == TypeOK /\ [Next]_vars => TypeOK'
<1> SUFFICES ASSUME TypeOK, [Next]_vars PROVE TypeOK'
  OBVIOUS
<1>1. ASSUME NEW s \in Slot, Receive(s) PROVE TypeOK'
  <2>1. PICK b \in Block : BlockFromPeer(s, b) \/ MinedBlock(s, b)
    BY <1>1 DEF Receive
  <2> QED BY <2>1, EnterType DEF BlockFromPeer, MinedBlock
<1>2. ASSUME NEW s \in Slot, Step(s) PROVE TypeOK'
  BY <1>2, JudgeType, ResyncType, ReadType, PutType DEF Step
<1>3. CASE Environment
  BY <1>3, EnvironmentType
<1>4. CASE UNCHANGED vars
  BY <1>4 DEF TypeOK, vars, disk, memory, clock, history
<1> QED BY <1>1, <1>2, <1>3, <1>4 DEF Next

(***************************************************************************)
(* Every variable keeps its type, and the multiverse its bound, under any  *)
(* interleaving of handlers.                                               *)
(***************************************************************************)
THEOREM TypeCorrect == Spec => []TypeOK
<1>1. Init => TypeOK
  BY TypeInit
<1>2. TypeOK /\ [Next]_vars => TypeOK'
  BY TypeStep
<1> QED BY <1>1, <1>2, PTL DEF Spec

-----------------------------------------------------------------------------
(***************************************************************************)
(* PointersWereTips is not inductive: what a handler has read and will put *)
(* must be a former tip as well, and so must the block it is about to      *)
(* index.                                                                  *)
(***************************************************************************)
TaskHoldsTips(t) == /\ t.cur \in tips /\ t.par \in tips
                    /\ t.pc = "putHeight" => t.blk \in tips

TipsInv == /\ Genesis \in tips
           /\ PointersWereTips
           /\ \A s \in Slot : TaskHoldsTips(task[s])

LEMMA TipsInit == Init => TipsInv
<1> SUFFICES ASSUME Init PROVE TipsInv
  OBVIOUS
<1>1. \A s \in Slot : TaskHoldsTips(task[s])
  BY DEF Init, TaskHoldsTips, Idle
<1> QED BY <1>1 DEF Init, TipsInv, PointersWereTips

(* What a step of one chain does not touch stays true of the others.       *)
LEMMA OtherTasks ==
  ASSUME TypeOK, TipsInv, NEW s \in Slot, tips \subseteq tips',
         \A r \in Slot : r # s => task'[r] = task[r],
         TaskHoldsTips(task[s])'
  PROVE  \A r \in Slot : TaskHoldsTips(task[r])'
  BY DEF TipsInv, TaskHoldsTips

LEMMA IdleHoldsTips == TipsInv => TaskHoldsTips(Idle)
  BY DEF TipsInv, TaskHoldsTips, Idle

(* The steps that neither put anything nor add a tip.                      *)
LEMMA TipsQuiet ==
  ASSUME TypeOK, TipsInv, NEW s \in Slot,
         UNCHANGED <<latest, parent, index, tips>>,
         \A r \in Slot : r # s => task'[r] = task[r],
         TaskHoldsTips(task[s])'
  PROVE  TipsInv'
<1>1. \A r \in Slot : TaskHoldsTips(task[r])'
  BY OtherTasks
<1> QED BY <1>1 DEF TipsInv, PointersWereTips

LEMMA TipsEnter ==
  ASSUME TypeOK, TipsInv, NEW s \in Slot, NEW b \in Block,
         NEW m \in BOOLEAN, Enter(s, b, m)
  PROVE  TipsInv'
<1>1. /\ UNCHANGED <<latest, parent, index, tips>>
      /\ \A r \in Slot : r # s => task'[r] = task[r]
  BY DEF Enter, Accept, StartUpdate, disk, TypeOK
<1>2. TaskHoldsTips(task[s])'
  <2> DEFINE t == [Idle EXCEPT !.pc = "next", !.blk = b, !.mined = m]
  <2>1. /\ t.cur = Genesis /\ t.par = Genesis /\ t.pc = "next"
        /\ t \in Task /\ Genesis \in tips
    BY IdleType DEF Task, PC, Idle, TipsInv
  <2> HIDE DEF t
  <2>2. CASE chain = <<>>
    <3>1. task'[s] = Idle \/ task'[s] = [t EXCEPT !.pc = "latest",
                                                  !.force = FALSE]
      BY <2>2 DEF Enter, Accept, StartUpdate, TypeOK, t
    <3>2. CASE task'[s] = Idle
      BY <1>1, <2>1, <3>2 DEF TaskHoldsTips, Idle
    <3>3. CASE task'[s] = [t EXCEPT !.pc = "latest", !.force = FALSE]
      BY <1>1, <2>1, <3>3 DEF TaskHoldsTips, Task
    <3> QED BY <3>1, <3>2, <3>3
  <2>3. CASE chain # <<>>
    <3>1. task'[s] = t
      BY <2>3 DEF Enter, TypeOK, t
    <3> QED BY <1>1, <2>1, <3>1 DEF TaskHoldsTips
  <2> QED BY <2>2, <2>3
<1> QED BY <1>1, <1>2, TipsQuiet

LEMMA TipsJudge ==
  ASSUME TypeOK, TipsInv, NEW s \in Slot,
         Judge(s) \/ CheckLock(s) \/ Weigh(s) \/ AskNew(s) \/ AskOld(s)
  PROVE  TipsInv'
<1>1. /\ UNCHANGED <<latest, parent, index, tips>>
      /\ \A r \in Slot : r # s => task'[r] = task[r]
  BY DEF Judge, CheckLock, Weigh, AskNew, AskOld, Accept, Decline, Approve,
         Refuse, StartUpdate, disk, TypeOK
<1>2. /\ task[s] \in Task /\ TaskHoldsTips(task[s])
      /\ task[s].cur \in tips /\ task[s].par \in tips /\ Genesis \in tips
  BY DEF TypeOK, TipsInv, TaskHoldsTips
<1>3. \/ task'[s] = Idle
      \/ \E p \in PC \ {"putHeight"} : task'[s] = [task[s] EXCEPT !.pc = p]
      \/ \E f \in BOOLEAN :
           task'[s] = [task[s] EXCEPT !.pc = "latest", !.force = f]
  BY DEF Judge, CheckLock, Weigh, AskNew, AskOld, Accept, Decline, Approve,
         Refuse, StartUpdate, PC, TypeOK
<1>4. /\ task'[s].cur \in tips /\ task'[s].par \in tips
      /\ task'[s].pc # "putHeight"
  <2>1. CASE task'[s] = Idle
    BY <1>2, <2>1 DEF Idle
  <2>2. ASSUME NEW p \in PC \ {"putHeight"},
               task'[s] = [task[s] EXCEPT !.pc = p]
        PROVE  /\ task'[s].cur \in tips /\ task'[s].par \in tips
               /\ task'[s].pc # "putHeight"
    BY <1>2, <2>2 DEF Task
  <2>3. ASSUME NEW f \in BOOLEAN,
               task'[s] = [task[s] EXCEPT !.pc = "latest", !.force = f]
        PROVE  /\ task'[s].cur \in tips /\ task'[s].par \in tips
               /\ task'[s].pc # "putHeight"
    BY <1>2, <2>3 DEF Task
  <2> QED BY <1>3, <2>1, <2>2, <2>3
<1>5. TaskHoldsTips(task[s])'
  BY <1>1, <1>4 DEF TaskHoldsTips
<1> QED BY <1>1, <1>5, TipsQuiet

LEMMA TipsRead ==
  ASSUME TypeOK, TipsInv, NEW s \in Slot,
         \/ ReadLatest(s) \/ ReadTip(s) \/ ResetLock(s)
         \/ ReadPreviousLatest(s) \/ ReadParent(s) \/ Decide(s)
  PROVE  TipsInv'
<1>1. /\ UNCHANGED <<latest, parent, index, tips>>
      /\ \A r \in Slot : r # s => task'[r] = task[r]
  BY DEF ReadLatest, ReadTip, ResetLock, ReadPreviousLatest, ReadParent,
         Decide, disk, history, TypeOK
<1>2. /\ task[s] \in Task
      /\ task[s].cur \in tips /\ task[s].par \in tips /\ Genesis \in tips
      /\ latest \in tips /\ parent \in tips
  BY DEF TypeOK, TipsInv, TaskHoldsTips, PointersWereTips
<1>3. /\ task'[s].cur \in tips /\ task'[s].par \in tips
      /\ task'[s].pc # "putHeight"
  <2>1. CASE Decide(s)
    BY <1>2, <2>1 DEF Decide, Plan, Idle, Task, TypeOK
  <2>2. CASE ~Decide(s)
    BY <1>2, <2>2 DEF ReadLatest, ReadTip, ResetLock, ReadPreviousLatest,
                      ReadParent, Task, TypeOK
  <2> QED BY <2>1, <2>2
<1>4. TaskHoldsTips(task[s])'
  BY <1>1, <1>3 DEF TaskHoldsTips
<1> QED BY <1>1, <1>4, TipsQuiet

LEMMA TipsPut ==
  ASSUME TypeOK, TipsInv, NEW s \in Slot,
         \/ PutLock(s) \/ PutParent(s) \/ PutLatest(s)
         \/ PutHeight(s) \/ PutHeaders(s)
  PROVE  TipsInv'
<1> DEFINE t == task[s]
<1>1. /\ t \in Task /\ t.blk \in Block /\ Height(t.blk) \in Heights
      /\ t.cur \in tips /\ t.par \in tips /\ Genesis \in tips
      /\ latest \in tips /\ parent \in tips
      /\ t.pc = "putHeight" => t.blk \in tips
      /\ index \in [Heights -> Block \cup {Unknown}]
      /\ \A h \in Heights : index[h] # Unknown => index[h] \in tips
  BY ContentTypes DEF TypeOK, TipsInv, TaskHoldsTips, PointersWereTips, Task
<1>2. /\ tips \subseteq tips'
      /\ \A r \in Slot : r # s => task'[r] = task[r]
  BY DEF PutLock, PutParent, PutLatest, PutHeight, PutHeaders, history,
         TypeOK
<1>3. TaskHoldsTips(task[s])'
  <2>1. CASE PutLatest(s)
    BY <1>1, <2>1 DEF PutLatest, TaskHoldsTips, Task, TypeOK
  <2>2. CASE PutHeaders(s)
    BY <1>1, <1>2, <2>2 DEF PutHeaders, TaskHoldsTips, Idle, TypeOK
  <2>3. CASE PutLock(s) \/ PutParent(s) \/ PutHeight(s)
    BY <1>1, <1>2, <2>3 DEF PutLock, PutParent, PutHeight, TaskHoldsTips,
                            Task, TypeOK
  <2> QED BY <2>1, <2>2, <2>3
<1>4. PointersWereTips'
  <2>1. CASE PutLatest(s)
    BY <1>1, <2>1 DEF PutLatest, PointersWereTips
  <2>2. CASE PutHeight(s)
    BY <1>1, <2>2 DEF PutHeight, PointersWereTips, history
  <2>3. CASE PutLock(s) \/ PutParent(s) \/ PutHeaders(s)
    BY <1>1, <2>3 DEF PutLock, PutParent, PutHeaders, PointersWereTips,
                      history
  <2> QED BY <2>1, <2>2, <2>3
<1>5. \A r \in Slot : TaskHoldsTips(task[r])'
  BY <1>2, <1>3, OtherTasks
<1> QED BY <1>1, <1>2, <1>4, <1>5 DEF TipsInv

LEMMA TipsEnvironment ==
  ASSUME TypeOK, TipsInv, Environment
  PROVE  TipsInv'
<1>1. UNCHANGED <<latest, index, tips>>
  BY DEF Environment, MinedDuplicate, PutAside, RoverStores, Purge, Restart,
         Tick, disk, history
<1>2. /\ parent' = parent \/ parent' = Genesis
      /\ task' = task \/ task' = [s \in Slot |-> Idle]
  BY DEF Environment, MinedDuplicate, PutAside, RoverStores, Purge, Restart,
         Tick, disk
<1>3. \A s \in Slot : TaskHoldsTips(task[s])'
  BY <1>1, <1>2, IdleHoldsTips DEF TipsInv, TaskHoldsTips
<1> QED BY <1>1, <1>2, <1>3 DEF TipsInv, PointersWereTips

LEMMA TipsStep == TypeOK /\ TipsInv /\ [Next]_vars => TipsInv'
<1> SUFFICES ASSUME TypeOK, TipsInv, [Next]_vars PROVE TipsInv'
  OBVIOUS
<1>1. ASSUME NEW s \in Slot, Receive(s) PROVE TipsInv'
  <2>1. PICK b \in Block : BlockFromPeer(s, b) \/ MinedBlock(s, b)
    BY <1>1 DEF Receive
  <2> QED BY <2>1, TipsEnter DEF BlockFromPeer, MinedBlock
<1>2. ASSUME NEW s \in Slot, Step(s) PROVE TipsInv'
  BY <1>2, TipsJudge, TipsRead, TipsPut DEF Step
<1>3. CASE Environment
  BY <1>3, TipsEnvironment
<1>4. CASE UNCHANGED vars
  BY <1>4 DEF TipsInv, TaskHoldsTips, PointersWereTips, vars, disk, history
<1> QED BY <1>1, <1>2, <1>3, <1>4 DEF Next

(***************************************************************************)
(* The parent key and the height index never hold a block that was not the *)
(* latest block before, under any interleaving of updates and any restart. *)
(***************************************************************************)
THEOREM PointersCorrect == Spec => []PointersWereTips
<1>1. Init => TipsInv
  BY TipsInit
<1>2. TypeOK /\ TipsInv /\ [Next]_vars => TipsInv'
  BY TipsStep
<1>3. TipsInv => PointersWereTips
  BY DEF TipsInv
<1> QED BY <1>1, <1>2, <1>3, TypeCorrect, PTL DEF Spec

-----------------------------------------------------------------------------
(***************************************************************************)
(* In one session (a restart empties the known-blocks cache): the blocks   *)
(* of the multiverse and those on their way to it are known, except        *)
(* genesis, which no test lets in twice; those on their way are pairwise   *)
(* different and not in the multiverse yet.                                *)
(***************************************************************************)
Entering(s) == task[s].pc \in {"next", "judge"} /\ task[s].blk # Genesis

OnceInv ==
  /\ MaxRestarts = 0
  /\ ChainHasNoDuplicates
  /\ \A i \in 1..Len(chain) : chain[i] \in known \cup {Genesis}
  /\ \A s \in Slot : Entering(s) => /\ task[s].blk \in known
                                    /\ \A i \in 1..Len(chain) : chain[i] # task[s].blk
  /\ \A r, s \in Slot : Entering(r) /\ Entering(s) /\ task[r].blk = task[s].blk => r = s

LEMMA OnceInit == Init /\ MaxRestarts = 0 => OnceInv
  BY DEF Init, OnceInv, ChainHasNoDuplicates, Entering, Idle

(* Steps that leave the multiverse and the cache and bring no block in.    *)
LEMMA OnceQuiet ==
  ASSUME TypeOK, OnceInv, UNCHANGED <<chain, known>>,
         \A s \in Slot : Entering(s)' => Entering(s) /\ task'[s].blk = task[s].blk
  PROVE  OnceInv'
  BY DEF OnceInv, ChainHasNoDuplicates

(* A new block on top of the multiverse, popped or not.                    *)
LEMMA OnTop ==
  ASSUME NEW b \in Block, NEW c \in Seq(Block)
  PROVE  LET d == Bounded(<<b>> \o c)
         IN  /\ Len(d) \in 1..(Len(c) + 1)
             /\ \A i \in 1..Len(d) : d[i] = (IF i = 1 THEN b ELSE c[i - 1])
<1> DEFINE e == <<b>> \o c
<1>1. /\ e \in Seq(Block) /\ Len(c) \in Nat /\ Len(e) = Len(c) + 1
      /\ \A i \in 1..Len(e) : e[i] = (IF i = 1 THEN b ELSE c[i - 1])
  BY ConcatProperties, LenProperties
<1>2. CASE Len(e) > ChainMax
  <2>1. /\ Len(SubSeq(e, 1, ChainMax)) = ChainMax
        /\ \A i \in 1..ChainMax : SubSeq(e, 1, ChainMax)[i] = e[i]
    BY <1>1, <1>2, SubSeqProperties, IngestAssumption
  <2> QED BY <1>1, <1>2, <2>1, IngestAssumption DEF Bounded
<1>3. CASE ~(Len(e) > ChainMax)
  BY <1>1, <1>3 DEF Bounded
<1> QED BY <1>2, <1>3

LEMMA OnceEnter ==
  ASSUME TypeOK, OnceInv, NEW s \in Slot, NEW b \in Block \ known,
         NEW m \in BOOLEAN, Enter(s, b, m)
  PROVE  OnceInv'
<1> DEFINE t == [Idle EXCEPT !.pc = "next", !.blk = b, !.mined = m]
<1>1. /\ known' = known \cup {b}
      /\ \A r \in Slot : r # s => task'[r] = task[r]
  BY DEF Enter, Accept, StartUpdate, TypeOK
<1>2. t \in Task /\ t.blk = b /\ [t EXCEPT !.pc = "latest", !.force = FALSE].pc = "latest"
  BY IdleType DEF Task, PC
<1> HIDE DEF t
<1>3. CASE chain = <<>>
  <2>1. chain' = <<b>> /\ Len(chain') = 1 /\ chain'[1] = b
    BY <1>3 DEF Enter
  <2>2. task'[s] = Idle \/ task'[s] = [t EXCEPT !.pc = "latest", !.force = FALSE]
    BY <1>3 DEF Enter, Accept, StartUpdate, TypeOK, t
  <2>3. ~Entering(s)'
    <3>1. CASE task'[s] = Idle
      BY <3>1 DEF Entering, Idle
    <3>2. CASE task'[s] = [t EXCEPT !.pc = "latest", !.force = FALSE]
      BY <1>2, <3>2 DEF Entering
    <3> QED BY <2>2, <3>1, <3>2
  <2>4. \A r \in Slot : Entering(r)' => Entering(r) /\ task'[r] = task[r]
    BY <1>1, <2>3 DEF Entering
  <2>5. ChainHasNoDuplicates' /\ \A i \in 1..Len(chain') : chain'[i] = b
    BY <2>1 DEF ChainHasNoDuplicates
  <2>6. \A r \in Slot : Entering(r)' => task'[r].blk \in known
    BY <2>4 DEF OnceInv
  <2>7. \A q, r \in Slot : Entering(q)' /\ Entering(r)' /\ task'[q].blk = task'[r].blk => q = r
    BY <2>4 DEF OnceInv
  <2> QED BY <1>1, <2>5, <2>6, <2>7 DEF OnceInv
<1>4. CASE chain # <<>>
  <2>1. chain' = chain /\ task'[s] = t
    BY <1>4 DEF Enter, TypeOK, t
  <2>2. \A r \in Slot : r # s /\ Entering(r)' => Entering(r) /\ task[r].blk # b /\ task'[r] = task[r]
    BY <1>1 DEF Entering, OnceInv
  <2>3. Entering(s)' => b # Genesis /\ \A i \in 1..Len(chain) : chain[i] # b
    BY <1>2, <2>1 DEF Entering, OnceInv
  <2> QED BY <1>1, <1>2, <2>1, <2>2, <2>3 DEF OnceInv, ChainHasNoDuplicates
<1> QED BY <1>3, <1>4

LEMMA OnceJudge ==
  ASSUME TypeOK, OnceInv, NEW s \in Slot, Judge(s)
  PROVE  OnceInv'
<1> DEFINE t == task[s]
           b == task[s].blk
<1>1. /\ t \in Task /\ b \in Block /\ t.pc = "judge" /\ UNCHANGED known
      /\ chain \in Seq(Block) /\ Len(chain) \in Nat
      /\ \A r \in Slot : r # s => task'[r] = task[r]
  BY LenProperties DEF Judge, Accept, Decline, StartUpdate, TypeOK, Task
<1>2. task'[s].pc \in {"idle", "latest", "lock"}
  <2>1. \/ task'[s] = Idle
        \/ task'[s] = [task[s] EXCEPT !.pc = "lock"]
        \/ task'[s] = [task[s] EXCEPT !.pc = "latest", !.force = FALSE]
    BY DEF Judge, Accept, Decline, StartUpdate, TypeOK
  <2>2. task[s] \in Task
    BY DEF TypeOK
  <2>3. CASE task'[s] = Idle
    BY <2>3 DEF Idle
  <2>4. CASE task'[s] = [task[s] EXCEPT !.pc = "lock"]
    BY <2>2, <2>4 DEF Task
  <2>5. CASE task'[s] = [task[s] EXCEPT !.pc = "latest", !.force = FALSE]
    BY <2>2, <2>5 DEF Task
  <2> QED BY <2>1, <2>3, <2>4, <2>5
<1>3. \A r \in Slot : Entering(r)' => r # s /\ Entering(r) /\ task'[r] = task[r]
  BY <1>1, <1>2 DEF Entering
<1>4. CASE UNCHANGED chain
  <2>1. \A r \in Slot : Entering(r)' => Entering(r) /\ task'[r].blk = task[r].blk
    BY <1>3
  <2> QED BY <1>1, <1>4, <2>1, OnceQuiet
<1>5. CASE IsNext(t) /\ chain' = Bounded(<<b>> \o chain)
  <2>1. b # Genesis
    BY <1>1, <1>5, GenesisAssumption DEF IsNext, NextTests, Height
  <2>2. /\ b \in known /\ Entering(s)
        /\ \A i \in 1..Len(chain) : chain[i] # b
    BY <1>1, <2>1 DEF Entering, OnceInv
  <2>3. /\ Len(chain') \in 1..(Len(chain) + 1)
        /\ \A i \in 1..Len(chain') : chain'[i] = (IF i = 1 THEN b ELSE chain[i - 1])
    BY <1>1, <1>5, OnTop
  <2>4. \A i \in 1..Len(chain') : i # 1 => i - 1 \in 1..Len(chain) /\ chain'[i] = chain[i - 1]
    BY <1>1, <2>3
  <2>5. ChainHasNoDuplicates'
    <3> SUFFICES ASSUME NEW i \in 1..Len(chain'), NEW j \in 1..Len(chain'),
                        chain'[i] = chain'[j]
                 PROVE  i = j
      BY DEF ChainHasNoDuplicates
    <3>1. CASE i = 1 \/ j = 1
      BY <2>2, <2>3, <2>4, <3>1
    <3>2. CASE i # 1 /\ j # 1
      <4>1. i - 1 = j - 1
        BY <2>4, <3>2 DEF OnceInv, ChainHasNoDuplicates
      <4> QED BY <4>1, <2>3
    <3> QED BY <3>1, <3>2
  <2>6. \A i \in 1..Len(chain') : chain'[i] \in known \cup {Genesis}
    BY <2>2, <2>3, <2>4 DEF OnceInv
  <2>7. \A r \in Slot : Entering(r)' =>
          /\ task'[r].blk \in known /\ task[r].blk # b
          /\ \A i \in 1..Len(chain') : chain'[i] # task'[r].blk
    <3> SUFFICES ASSUME NEW r \in Slot, Entering(r)'
                 PROVE  /\ task'[r].blk \in known /\ task[r].blk # b
                        /\ \A i \in 1..Len(chain') : chain'[i] # task'[r].blk
      OBVIOUS
    <3>1. r # s /\ Entering(r) /\ task'[r] = task[r]
      BY <1>3
    <3>2. task[r].blk \in known /\ task[r].blk # b
      BY <2>2, <3>1 DEF OnceInv
    <3>3. \A i \in 1..Len(chain) : chain[i] # task[r].blk
      BY <3>1 DEF OnceInv
    <3> QED BY <2>3, <2>4, <3>1, <3>2, <3>3
  <2>8. \A q, r \in Slot : Entering(q)' /\ Entering(r)' /\ task'[q].blk = task'[r].blk => q = r
    BY <1>3 DEF OnceInv
  <2> QED BY <1>1, <2>5, <2>6, <2>7, <2>8 DEF OnceInv
<1> QED BY <1>4, <1>5 DEF Judge

LEMMA OnceStep == TypeOK /\ OnceInv /\ [Next]_vars => OnceInv'
<1> SUFFICES ASSUME TypeOK, OnceInv, [Next]_vars PROVE OnceInv'
  OBVIOUS
<1>1. ASSUME NEW s \in Slot, Receive(s) PROVE OnceInv'
  BY <1>1, OnceEnter DEF Receive, BlockFromPeer, MinedBlock
<1>2. ASSUME NEW s \in Slot, Step(s), ~Judge(s) PROVE OnceInv'
  <2>1. UNCHANGED <<chain, known>> /\ \A r \in Slot : r # s => task'[r] = task[r]
    BY <1>2 DEF Step, ReadLatest, CheckLock, ResetLock, ReadTip, Weigh, AskNew, AskOld,
                ReadPreviousLatest, ReadParent, Decide, PutLock, PutParent, PutLatest,
                PutHeight, PutHeaders, Approve, Refuse, StartUpdate, memory, TypeOK
  <2>2. Entering(s)' => Entering(s) /\ task'[s].blk = task[s].blk
    <3>1. task[s] \in Task
      BY DEF TypeOK
    <3>2. CASE ReadLatest(s)
      BY <3>1, <3>2 DEF ReadLatest, Entering, TypeOK, Task
    <3>3. CASE CheckLock(s) \/ Weigh(s) \/ AskNew(s) \/ AskOld(s)
      <4>1. \/ task'[s] = Idle
            \/ \E q \in {"reset", "tip", "askNew", "askOld"} :
                 task'[s] = [task[s] EXCEPT !.pc = q]
            \/ task'[s] = [task[s] EXCEPT !.pc = "latest", !.force = TRUE]
        BY <3>3 DEF CheckLock, Weigh, AskNew, AskOld, Approve, Refuse, StartUpdate, TypeOK
      <4>2. CASE task'[s] = Idle
        BY <4>2 DEF Entering, Idle
      <4>3. ASSUME NEW q \in {"reset", "tip", "askNew", "askOld"},
                   task'[s] = [task[s] EXCEPT !.pc = q]
            PROVE  ~Entering(s)'
        BY <3>1, <4>3 DEF Entering, Task
      <4>4. CASE task'[s] = [task[s] EXCEPT !.pc = "latest", !.force = TRUE]
        BY <3>1, <4>4 DEF Entering, Task
      <4> QED BY <4>1, <4>2, <4>3, <4>4
    <3>4. CASE ResetLock(s) \/ ReadTip(s) \/ ReadPreviousLatest(s) \/ ReadParent(s)
      BY <3>1, <3>4 DEF ResetLock, ReadTip, ReadPreviousLatest, ReadParent, Entering,
                        TypeOK, Task
    <3>5. CASE Decide(s)
      BY <3>1, <3>5 DEF Decide, Plan, Entering, TypeOK, Task, Idle
    <3>6. CASE PutLock(s) \/ PutParent(s) \/ PutLatest(s) \/ PutHeight(s) \/ PutHeaders(s)
      BY <3>1, <3>6 DEF PutLock, PutParent, PutLatest, PutHeight, PutHeaders, Entering,
                        TypeOK, Task, Idle
    <3> QED BY <1>2, <3>2, <3>3, <3>4, <3>5, <3>6 DEF Step
  <2>3. \A r \in Slot : Entering(r)' => Entering(r) /\ task'[r].blk = task[r].blk
    BY <2>1, <2>2 DEF Entering
  <2> QED BY <2>1, <2>3, OnceQuiet
<1>3. CASE Environment
  <2>1. ~Restart
    BY IngestAssumption DEF OnceInv, Restart, TypeOK
  <2>2. CASE Purge
    <3>1. chain' = <<>> /\ Len(chain') = 0 /\ UNCHANGED <<known, task>>
      BY <2>2 DEF Purge
    <3> QED BY <3>1 DEF OnceInv, ChainHasNoDuplicates, Entering
  <2>3. CASE ~Purge
    <3>1. UNCHANGED <<chain, known, task>>
      BY <1>3, <2>1, <2>3 DEF Environment, MinedDuplicate, PutAside, RoverStores, Tick, memory
    <3> QED BY <3>1, OnceQuiet DEF Entering
  <2> QED BY <2>2, <2>3
<1>4. CASE UNCHANGED vars
  BY <1>4, OnceQuiet DEF Entering, vars, memory
<1> QED BY <1>1, <1>2, <1>3, <1>4, OnceJudge DEF Next

(***************************************************************************)
(* In one session no block enters the multiverse twice, whatever number of *)
(* peers and miners deliver it, and however it is purged in between.       *)
(***************************************************************************)
THEOREM NoDuplicates == Spec /\ MaxRestarts = 0 => []ChainHasNoDuplicates
<1>1. Init /\ MaxRestarts = 0 => OnceInv
  BY OnceInit
<1>2. TypeOK /\ OnceInv /\ [Next]_vars => OnceInv'
  BY OnceStep
<1>3. OnceInv => ChainHasNoDuplicates
  BY DEF OnceInv
<1> QED BY <1>1, <1>2, <1>3, TypeCorrect, PTL DEF Spec
=============================================================================
