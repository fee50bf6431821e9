---------------------------- MODULE BlockIngest -----------------------------
(***************************************************************************)
(* How a Block Collider node takes in a block: Engine.blockFromPeer and    *)
(* Engine._processMinedBlock, Multiverse.addNextBlock and                  *)
(* Multiverse.addResyncRequest, and Engine.updateLatestAndStore, over the  *)
(* key-value store.  The handlers are async functions: a step of the model *)
(* runs from one await to the next, and the chains of several blocks       *)
(* interleave.  Nothing in the code serialises them, so a Slot is one such *)
(* chain and their number is a parameter.                                  *)
(***************************************************************************)
EXTENDS Blocks, Sequences

CONSTANTS
  Slot,         \* the handler chains that may be in flight at once
  Own,          \* blocks this node mines; the others come from peers only
  ChainMax,     \* length of the multiverse (7)
  MaxTime,      \* bound on the clock
  MaxRestarts,  \* bound on restarts
  MaxPurges     \* bound on the purges that web clients send

ASSUME IngestAssumption ==
  /\ Own \subseteq Block \ {Genesis}
  /\ ChainMax \in Nat \ {0}
  /\ MaxTime \in Nat /\ MaxRestarts \in Nat /\ MaxPurges \in Nat

VARIABLES
  \* the persisted keys
  latest,     \* bc.block.latest
  parent,     \* bc.block.parent
  synclock,   \* synclock
  index,      \* bc.block.<height>, Unknown where nothing was put
  headers,    \* the rovered headers that are stored
  \* the memory of the process
  chain,      \* Multiverse._chain, newest first
  known,      \* Engine._knownBlocksCache
  evaluated,  \* Engine._knownEvaluationsCache
  task,       \* the handler chains in flight
  aside,      \* blocks whose unawaited putChildHeaders has not finished
  \* the environment and history
  now, restarts, purges,
  announced,  \* blocks the node broadcast to its peers
  accepted,   \* blocks addNextBlock accepted
  tips,       \* blocks that have been bc.block.latest
  grafted     \* the tip moved other than to a child, or a restart happened

disk == <<latest, parent, synclock, index, headers>>
memory == <<chain, known, evaluated>>
clock == <<now, restarts, purges>>
history == <<announced, accepted, tips, grafted>>
vars == <<disk, memory, task, aside, clock, history>>

Heights == {Height(b) : b \in Block}

Reads == {"latest", "parent", "decide"}
Puts == {"putLock", "putParent", "putLatest", "putHeight", "putHeaders"}
PC == {"idle", "next", "judge", "lock", "reset", "tip", "weigh", "askNew",
       "askOld"} \cup Reads \cup Puts

Task == [pc : PC, blk : Block, cur : Block, par : Block,
         mined : BOOLEAN, force : BOOLEAN]

Idle == [pc |-> "idle", blk |-> Genesis, cur |-> Genesis, par |-> Genesis,
         mined |-> FALSE, force |-> FALSE]

AtRest == /\ \A s \in Slot : task[s] = Idle
          /\ aside = {}

-----------------------------------------------------------------------------
(* Engine.init on an empty database: genesis is put under every key.       *)
Init ==
  /\ latest = Genesis /\ parent = Genesis /\ synclock = Genesis
  /\ index = [h \in Heights |-> IF h = 1 THEN Genesis ELSE Unknown]
  /\ headers = {}
  /\ chain = <<Genesis>> /\ known = {} /\ evaluated = {}
  /\ task = [s \in Slot |-> Idle]
  /\ aside = {}
  /\ now = 0 /\ restarts = 0 /\ purges = 0
  /\ announced = {} /\ accepted = {}
  /\ tips = {Genesis} /\ grafted = FALSE

(***************************************************************************)
(* publish('update.block.latest'): the subscriber starts                   *)
(* updateLatestAndStore unless the block was evaluated before.             *)
(***************************************************************************)
StartUpdate(s, t, force) ==
  /\ evaluated' = evaluated \cup {t.blk}
  /\ task' = [task EXCEPT ![s] =
                IF t.blk \in evaluated THEN Idle
                ELSE [t EXCEPT !.pc = "latest", !.force = force]]

(* addNextBlock resolved true: the update is published and the block       *)
(* broadcast, in both handlers.                                            *)
Accept(s, t) ==
  /\ StartUpdate(s, t, FALSE)
  /\ announced' = announced \cup {t.blk}
  /\ accepted' = accepted \cup {t.blk}
  /\ UNCHANGED aside

(***************************************************************************)
(* addNextBlock resolved false: a block of a peer becomes a candidate for  *)
(* a resync, a mined block is broadcast all the same, unless logging the   *)
(* highest block of a multiverse that was purged throws.                   *)
(***************************************************************************)
Decline(s, t) ==
  /\ IF t.mined
     THEN /\ task' = [task EXCEPT ![s] = Idle]
          /\ announced' = announced \cup (IF chain = <<>> THEN {} ELSE {t.blk})
     ELSE /\ task' = [task EXCEPT ![s] = [t EXCEPT !.pc = "lock"]]
          /\ UNCHANGED announced
  /\ UNCHANGED <<evaluated, aside, accepted>>

(* A block enters addNextBlock, which pushes it at once on an empty        *)
(* multiverse and otherwise starts to read the latest block.               *)
Enter(s, b, mined) ==
  LET t == [Idle EXCEPT !.pc = "next", !.blk = b, !.mined = mined]
  IN /\ known' = known \cup {b}
     /\ IF chain = <<>>
        THEN chain' = <<b>> /\ Accept(s, t)
        ELSE /\ task' = [task EXCEPT ![s] = t]
             /\ UNCHANGED <<chain, evaluated, aside, announced, accepted>>
     /\ UNCHANGED <<disk, clock, tips, grafted>>

\* Mutant: the known-blocks cache is not consulted.
BlockFromPeerUnchecked(s, b) ==
  /\ task[s] = Idle
  /\ b \in Own => b \in announced
  /\ Enter(s, b, FALSE)

(* Engine.blockFromPeer.  Our own blocks come back after we announced them.*)
BlockFromPeer(s, b) ==
  /\ task[s] = Idle
  /\ b \notin known
  /\ b \in Own => b \in announced
  /\ Enter(s, b, FALSE)

(* Engine._processMinedBlock: a solution for a block on a former tip.      *)
MinedBlock(s, b) ==
  /\ task[s] = Idle
  /\ b \in Own /\ b \notin known
  /\ Prev(b) \in tips
  /\ Enter(s, b, TRUE)

(* A second solution for the same block, or one for a block that a peer    *)
(* sent back: "duplicate", and broadcast again.                            *)
MinedDuplicate(b) ==
  /\ b \in Own \cap known
  /\ announced' = announced \cup {b}
  /\ UNCHANGED <<disk, memory, task, aside, clock, accepted, tips, grafted>>

-----------------------------------------------------------------------------
(* Multiverse.addNextBlock: it reads bc.block.latest, yields once more for *)
(* bc.block.parent, which decides nothing, and then judges the block.      *)
ReadLatest(s) ==
  /\ task[s].pc = "next"
  /\ task' = [task EXCEPT ![s].pc = "judge", ![s].cur = latest]
  /\ UNCHANGED <<disk, memory, aside, clock, history>>

\* Mutant: the multiverse is never popped.
BoundedNever(c) == c

Bounded(c) == IF Len(c) > ChainMax THEN SubSeq(c, 1, ChainMax) ELSE c

(* The block extends the tip it was compared with.                         *)
IsNext(t) == NextTests(t.blk, t.cur, now) /\ Prev(t.blk) = t.cur

(* addBestBlock finds no highest block in a multiverse purged meanwhile.   *)
IsBestOfNone(t) == /\ NextTests(t.blk, t.cur, now) /\ Prev(t.blk) # t.cur
                   /\ chain = <<>>

Judge(s) ==
  LET t == task[s]
  IN /\ t.pc = "judge"
     /\ \/ IsNext(t) /\ chain' = Bounded(<<t.blk>> \o chain) /\ Accept(s, t)
        \/ IsBestOfNone(t) /\ UNCHANGED chain /\ Accept(s, t)
        \/ ~IsNext(t) /\ ~IsBestOfNone(t) /\ UNCHANGED chain /\ Decline(s, t)
     /\ UNCHANGED <<disk, known, clock, tips, grafted>>

-----------------------------------------------------------------------------
(* A block that is not to be resynced goes back to its peer ('sendblock'). *)
Refuse(s, t) ==
  /\ task' = [task EXCEPT ![s] = Idle]
  /\ UNCHANGED <<evaluated, aside>>

(* A block to be resynced: the forced update is published and its headers  *)
(* are put without waiting for them.                                       *)
Approve(s, t) ==
  /\ StartUpdate(s, t, TRUE)
  /\ aside' = aside \cup {t.blk}

\* Mutant: a lock that is held does not refuse the block.
CheckLockIgnored(s) ==
  /\ task[s].pc = "lock"
  /\ task' = [task EXCEPT ![s].pc = IF LockStale(synclock, now)
                                     THEN "reset" ELSE "tip"]
  /\ UNCHANGED <<disk, memory, aside, clock, history>>

(* Multiverse.isSyncLockActive reads the lock.                             *)
CheckLock(s) ==
  LET t == task[s]
  IN /\ t.pc = "lock"
     /\ \/ /\ LockStale(synclock, now)
           /\ task' = [task EXCEPT ![s].pc = "reset"]
           /\ UNCHANGED <<evaluated, aside>>
        \/ /\ LockOpen(synclock)
           /\ task' = [task EXCEPT ![s].pc = "tip"]
           /\ UNCHANGED <<evaluated, aside>>
        \/ /\ ~LockOpen(synclock) /\ ~LockStale(synclock, now)
           /\ Refuse(s, t)
     /\ UNCHANGED <<disk, chain, known, clock, announced, accepted,
                    tips, grafted>>

ResetLock(s) ==
  /\ task[s].pc = "reset"
  /\ synclock' = Genesis
  /\ task' = [task EXCEPT ![s].pc = "tip"]
  /\ UNCHANGED <<latest, parent, index, headers, memory, aside, clock,
                 history>>

(* Multiverse.addResyncRequest reads bc.block.latest and weighs the block. *)
ReadTip(s) ==
  /\ task[s].pc = "tip"
  /\ task' = [task EXCEPT ![s].pc = "weigh", ![s].cur = latest]
  /\ UNCHANGED <<disk, memory, aside, clock, history>>

Weigh(s) ==
  LET t == task[s]
      verdict == ResyncVerdict(t.blk, t.cur, now, Len(chain))
  IN /\ t.pc = "weigh"
     /\ \/ verdict = "approve" /\ Approve(s, t)
        \/ verdict = "refuse" /\ Refuse(s, t)
        \/ /\ verdict = "ask"
           /\ task' = [task EXCEPT ![s].pc = "askNew"]
           /\ UNCHANGED <<evaluated, aside>>
     /\ UNCHANGED <<disk, chain, known, clock, announced, accepted,
                    tips, grafted>>

(* Multiverse.validateRoveredBlocks: every header of b is stored.          *)
Rovered(b) == Keys(b) \subseteq headers

(* A heavier block is approved when its headers are known; one that is not *)
(* heavier only if, in addition, those of the tip are not.                 *)
AskNew(s) ==
  LET t == task[s]
  IN /\ t.pc = "askNew"
     /\ \/ Rovered(t.blk) /\ Weight(t.blk) > Weight(t.cur) /\ Approve(s, t)
        \/ /\ Rovered(t.blk) /\ Weight(t.blk) <= Weight(t.cur)
           /\ task' = [task EXCEPT ![s].pc = "askOld"]
           /\ UNCHANGED <<evaluated, aside>>
        \/ ~Rovered(t.blk) /\ Refuse(s, t)
     /\ UNCHANGED <<disk, chain, known, clock, announced, accepted,
                    tips, grafted>>

\* Mutant: no answer when the headers of the tip are known as well.
AskOldUnanswered(s) ==
  LET t == task[s]
  IN /\ t.pc = "askOld" /\ ~Rovered(t.cur)
     /\ Approve(s, t)
     /\ UNCHANGED <<disk, chain, known, clock, announced, accepted, tips,
                    grafted>>

AskOld(s) ==
  LET t == task[s]
  IN /\ t.pc = "askOld"
     /\ \/ ~Rovered(t.cur) /\ Approve(s, t)
        \/ Rovered(t.cur) /\ Refuse(s, t)
     /\ UNCHANGED <<disk, chain, known, clock, announced, accepted,
                    tips, grafted>>

-----------------------------------------------------------------------------
(* Engine.updateLatestAndStore: three reads, a decision, and the puts of   *)
(* the chosen branch, each of them awaited.                                *)
ReadPreviousLatest(s) ==
  /\ task[s].pc = "latest"
  /\ task' = [task EXCEPT ![s].pc = "parent", ![s].cur = latest]
  /\ UNCHANGED <<disk, memory, aside, clock, history>>

ReadParent(s) ==
  /\ task[s].pc = "parent"
  /\ task' = [task EXCEPT ![s].pc = "decide", ![s].par = parent]
  /\ UNCHANGED <<disk, memory, aside, clock, history>>

(* "a decision tree cycle": the parent read is not that of the latest.     *)
TakesBetterPath(t) == /\ t.par # Prev(t.cur)
                      /\ Distance(t.blk) > Distance(t.cur)
                      /\ Stamp(t.blk) >= Stamp(t.cur)

Extends(t) == /\ Prev(t.blk) = t.cur
              /\ Stamp(t.blk) > Stamp(t.par)
              /\ <<t.cur, t.blk>> \in DifficultyFits

\* Mutant: a block that extends the tip leaves the parent as it was.
PlanKeepsParent(t) ==
  IF TakesBetterPath(t) \/ Extends(t) \/ Height(t.cur) = 1
  THEN [t EXCEPT !.pc = "putLatest"]
  ELSE IF t.force /\ LockOpen(synclock)
       THEN [t EXCEPT !.pc = "putLock", !.par = t.cur]
  ELSE IF t.par = Prev(t.blk) /\ t.force
       THEN [t EXCEPT !.pc = "putParent", !.par = Genesis]
  ELSE Idle

(***************************************************************************)
(* The branches in the order of the code: the first put each one makes and *)
(* the parent it will put.  The branch for a sibling of the latest block   *)
(* reads msg.multiverse[1] of an undefined multiverse; the exception is    *)
(* caught, and the handler stores a forced block and nothing else.  The    *)
(* branch for an array msg.multiverse compares a constructor with          *)
(* Array.constructor and is never taken.                                   *)
(***************************************************************************)
Plan(t) ==
  IF TakesBetterPath(t) THEN [t EXCEPT !.pc = "putLatest"]
  ELSE IF Extends(t) \/ Height(t.cur) = 1
       THEN [t EXCEPT !.pc = "putParent", !.par = t.cur]
  ELSE IF t.force /\ LockOpen(synclock)
       THEN [t EXCEPT !.pc = "putLock", !.par = t.cur]
  ELSE IF t.par = Prev(t.blk) /\ t.force
       THEN [t EXCEPT !.pc = "putParent", !.par = Genesis]
  ELSE Idle

Decide(s) ==
  /\ task[s].pc = "decide"
  /\ task' = [task EXCEPT ![s] = Plan(task[s])]
  /\ UNCHANGED <<disk, memory, aside, clock, history>>

PutLock(s) ==
  /\ task[s].pc = "putLock"
  /\ synclock' = task[s].blk
  /\ task' = [task EXCEPT ![s].pc = "putParent"]
  /\ UNCHANGED <<latest, parent, index, headers, memory, aside, clock,
                 history>>

\* Mutant: the block is indexed before it is put as the latest.
PutParentThenHeight(s) ==
  /\ task[s].pc = "putParent"
  /\ parent' = task[s].par
  /\ index' = [index EXCEPT ![Height(task[s].blk)] = task[s].blk]
  /\ task' = [task EXCEPT ![s].pc = "putLatest"]
  /\ UNCHANGED <<latest, synclock, headers, memory, aside, clock, history>>

PutParent(s) ==
  /\ task[s].pc = "putParent"
  /\ parent' = task[s].par
  /\ task' = [task EXCEPT ![s].pc = "putLatest"]
  /\ UNCHANGED <<latest, synclock, index, headers, memory, aside, clock,
                 history>>

\* Mutant: the latest block is not indexed by its height.
PutLatestUnindexed(s) ==
  /\ task[s].pc = "putLatest"
  /\ latest' = task[s].blk
  /\ task' = [task EXCEPT ![s].pc = "putHeaders"]
  /\ tips' = tips \cup {task[s].blk}
  /\ grafted' = (grafted \/ Prev(task[s].blk) # latest)
  /\ UNCHANGED <<parent, synclock, index, headers, memory, aside, clock,
                 announced, accepted>>

PutLatest(s) ==
  /\ task[s].pc = "putLatest"
  /\ latest' = task[s].blk
  /\ task' = [task EXCEPT ![s].pc = "putHeight"]
  /\ tips' = tips \cup {task[s].blk}
  /\ grafted' = (grafted \/ Prev(task[s].blk) # latest)
  /\ UNCHANGED <<parent, synclock, index, headers, memory, aside, clock,
                 announced, accepted>>

PutHeight(s) ==
  /\ task[s].pc = "putHeight"
  /\ index' = [index EXCEPT ![Height(task[s].blk)] = task[s].blk]
  /\ task' = [task EXCEPT ![s].pc = "putHeaders"]
  /\ UNCHANGED <<latest, parent, synclock, headers, memory, aside, clock,
                 history>>

(* The last put of the chain is PersistenceRocksDb.putChildHeaders.        *)
PutHeaders(s) ==
  /\ task[s].pc = "putHeaders"
  /\ headers' = headers \cup Keys(task[s].blk)
  /\ task' = [task EXCEPT ![s] = Idle]
  /\ UNCHANGED <<latest, parent, synclock, index, memory, aside, clock,
                 history>>

(* The putChildHeaders of an approved resync, which nobody awaits.         *)
PutAside(b) ==
  /\ b \in aside
  /\ headers' = headers \cup Keys(b)
  /\ aside' = aside \ {b}
  /\ UNCHANGED <<latest, parent, synclock, index, memory, task, clock,
                 history>>

-----------------------------------------------------------------------------
(* A rover delivers a header (collectBlock), which is stored.              *)
RoverStores(k) ==
  /\ k \notin headers
  /\ headers' = headers \cup {k}
  /\ UNCHANGED <<latest, parent, synclock, index, memory, task, aside, clock,
                 history>>

(* Multiverse.purge, sent by a web client.                                 *)
Purge ==
  /\ chain # <<>> /\ purges < MaxPurges
  /\ chain' = <<>>
  /\ purges' = purges + 1
  /\ UNCHANGED <<disk, known, evaluated, task, aside, now, restarts,
                 history>>

(***************************************************************************)
(* The process stops between two awaits and starts again: Engine.init      *)
(* keeps bc.block.latest, resets the parent and the lock to genesis and    *)
(* enters the latest block in the empty multiverse.                        *)
(***************************************************************************)
Restart ==
  /\ restarts < MaxRestarts
  /\ restarts' = restarts + 1
  /\ parent' = Genesis /\ synclock' = Genesis
  /\ chain' = <<latest>> /\ known' = {} /\ evaluated' = {}
  /\ task' = [s \in Slot |-> Idle]
  /\ aside' = {}
  /\ grafted' = TRUE
  /\ UNCHANGED <<latest, index, headers, now, purges, announced, accepted,
                 tips>>

Tick ==
  /\ now < MaxTime
  /\ now' = now + 1
  /\ UNCHANGED <<disk, memory, task, aside, restarts, purges, history>>

-----------------------------------------------------------------------------
Step(s) ==
  \/ ReadLatest(s) \/ Judge(s)
  \/ CheckLock(s) \/ ResetLock(s) \/ ReadTip(s)
  \/ Weigh(s) \/ AskNew(s) \/ AskOld(s)
  \/ ReadPreviousLatest(s) \/ ReadParent(s) \/ Decide(s)
  \/ PutLock(s) \/ PutParent(s) \/ PutLatest(s)
  \/ PutHeight(s) \/ PutHeaders(s)

Receive(s) == \E b \in Block : BlockFromPeer(s, b) \/ MinedBlock(s, b)

Environment ==
  \/ \E b \in Block : MinedDuplicate(b) \/ PutAside(b)
  \/ \E k \in Key : RoverStores(k)
  \/ Purge \/ Restart \/ Tick

Next == (\E s \in Slot : Receive(s) \/ Step(s)) \/ Environment

Spec == Init /\ [][Next]_vars

(* The event loop runs every continuation and the store answers.           *)
Fairness == /\ \A s \in Slot : WF_vars(Step(s))
            /\ \A b \in Block : WF_vars(PutAside(b))

FairSpec == Spec /\ Fairness
-----------------------------------------------------------------------------
(* Every variable has its type; the multiverse never exceeds its length.   *)
TypeOK ==
  /\ latest \in Block /\ parent \in Block /\ synclock \in Block
  /\ index \in [Heights -> Block \cup {Unknown}]
  /\ headers \subseteq Key
  /\ chain \in Seq(Block) /\ Len(chain) <= ChainMax
  /\ known \subseteq Block /\ evaluated \subseteq Block
  /\ task \in [Slot -> Task]
  /\ aside \subseteq Block
  /\ now \in 0..MaxTime /\ restarts \in 0..MaxRestarts
  /\ purges \in 0..MaxPurges
  /\ announced \subseteq Block /\ accepted \subseteq Block
  /\ tips \subseteq Block /\ grafted \in BOOLEAN

(***************************************************************************)
(* The parent key, the height index and the tip hold nothing but blocks    *)
(* that were bc.block.latest at some time, whatever interleaving of        *)
(* updates and whatever crash between two puts (updateLatestAndStore puts  *)
(* the latest block before it indexes it).                                 *)
(***************************************************************************)
PointersWereTips ==
  /\ {latest, parent} \subseteq tips
  /\ \A h \in Heights : index[h] # Unknown => index[h] \in tips

(***************************************************************************)
(* No block enters the multiverse twice, although it may arrive from       *)
(* several peers and from our own miner while it is being judged (the      *)
(* known-blocks cache of blockFromPeer and _processMinedBlock).            *)
(***************************************************************************)
ChainHasNoDuplicates ==
  \A i, j \in 1..Len(chain) : chain[i] = chain[j] => i = j

(***************************************************************************)
(* When nothing is in flight and the process has not been restarted, the   *)
(* block indexed at the height of the latest block is the latest block.    *)
(***************************************************************************)
IndexHoldsTip == AtRest /\ restarts = 0 => index[Height(latest)] = latest

(***************************************************************************)
(* As long as the tip only moved to children of itself in one session, the *)
(* parent key is the parent of the latest block whenever nothing is in     *)
(* flight, so that MiningOfficer.newRoveredBlock lets the node mine.       *)
(***************************************************************************)
MayMine == parent = Prev(latest)
LinkedWhileExtending == AtRest /\ ~grafted => MayMine \/ latest = Genesis

(* The promise of TipRegister, with the persisted keys as its tip and lock.*)
Tip == INSTANCE TipRegister WITH tip <- latest, lock <- synclock,
                                 epoch <- restarts
ImplementsTipRegister == Tip!Spec

(* Every block that enters a handler leaves it: each await is answered and *)
(* no branch of the resync evaluation waits for another.                   *)
EveryBlockSettles == \A s \in Slot : task[s].pc # "idle" ~> task[s].pc = "idle"

-----------------------------------------------------------------------------
(***************************************************************************)
(* What comments of the code claim and the code does not keep.             *)
(***************************************************************************)

(* mining/officer.es6, "make sure the miner has at least two blocks of the *)
(* depth": with two linked blocks on top of the multiverse, the upper one  *)
(* the latest, the gate that follows the comment lets the node mine.       *)
TwoLinkedBlocksOpenGate ==
  AtRest /\ Len(chain) >= 2 /\ chain[1] = latest /\ chain[2] = Prev(latest)
    => MayMine

(* engine/index.es6, "behavior must be echoed in multiverse": whatever     *)
(* path updateLatestAndStore takes, the top of the multiverse is the       *)
(* latest block when nothing is in flight.                                 *)
LatestEchoedInMultiverse == AtRest => chain # <<>> /\ chain[1] = latest

(* bc/multiverse.es6, "check if the node is currently syncing, if so do    *)
(* not approve a sync": no two approved syncs are carried out at once.     *)
OneSyncAtATime ==
  \A s, t \in Slot : task[s].force /\ task[t].force => s = t

(* engine/index.es6, _broadcastMinedBlock: a block that is broadcast is    *)
(* "considered next block in current multiverse".  A second solution may   *)
(* announce a block that addNextBlock still judges; a block whose judging  *)
(* is over has been accepted.                                              *)
OnlyNextBlocksAnnounced ==
  \A b \in announced \ accepted :
    \E s \in Slot : task[s].blk = b /\ task[s].pc \in {"next", "judge"}
=============================================================================
