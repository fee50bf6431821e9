-------------------------------- MODULE Mining --------------------------------
(***************************************************************************)
(* The mining officer (mining/officer.es6) with the rovers that drive it   *)
(* (rpc/service/rover/collectBlock.es6) and the worker pool it hands work  *)
(* to.  A rovered header is one call: it is stored, passes the gate of     *)
(* newRoveredBlock and becomes work in startMining.  A step runs from one  *)
(* await to the next.  The intake of blocks and the peers are the          *)
(* environment: they move the tip, its parent and the quorum.  The tip is  *)
(* past genesis and MIN_HEALTH_NET is off.                                 *)
(***************************************************************************)
EXTENDS WorkerPool, FiniteSetsExt

CONSTANTS
  Call,      \* rovered headers in flight
  Chain,     \* opts.rovers
  Block,     \* blocks that may become the tip
  Genesis,   \* the first of them
  Prev,      \* block -> its previous block
  Headers,   \* block -> chain -> heights of the headers it lists
  MaxHeight, \* bound on the heights of headers
  MaxListed, \* unfinished blocks kept (50)
  MaxCount,  \* headers of an unfinished block from which it is dropped (6)
  Window,    \* headers looked back for (30)
  MaxMoves,  \* bound on the moves of the environment
  MaxWorks,  \* bound on the works handed out
  None       \* no block

ASSUME MiningAssumption ==
  /\ {MaxHeight, MaxCount, Window, MaxMoves, MaxWorks} \subseteq Nat /\ MaxListed \in Nat \ {0}
  /\ Genesis \in Block /\ Prev \in [Block -> Block \cup {None}]
  /\ Headers \in [Block -> [Chain -> SUBSET (1..MaxHeight)]]
  /\ \A b \in Block \ {Genesis}, c \in Chain : Headers[b][c] # {}

VARIABLES
  tip,             \* bc.block.latest
  parent,          \* bc.block.parent
  quorum,          \* bc.dht.quorum is 1
  moves,           \* moves of the environment so far
  latest,          \* <chain>.block.latest
  stored,          \* heights of the keys <chain>.block.<height>
  collected,       \* chains whose entry in _collectedBlocks is at least 1
  canMine,         \* _canMine
  calls,           \* the calls of collectBlock and newRoveredBlock
  unfinished,      \* _unfinished
  unfinishedBlock, \* _unfinishedBlock
  handed,          \* history: the works handed out
  mined            \* history: the blocks published as miner.block.new

store == <<tip, parent, quorum, moves>>
headerStore == <<latest, stored>>
gate == <<collected, canMine>>
officer == <<unfinished, unfinishedBlock, handed, mined>>
vars == <<store, headerStore, gate, calls, officer, poolVars>>

Heights == 1..MaxHeight
HeaderLists == [Chain -> SUBSET Heights]
Tips == Block \ {Genesis}
NewBlock == [prev : Tips, headers : [Chain -> (SUBSET Heights) \ {{}}]]
Listed == [id : Nat, block : NewBlock]
Mined == [work : Nat, block : NewBlock]

Idle == [pc |-> "idle"]
Collecting == [pc : {"stored"}, chain : Chain, height : Heights]
Gating == [pc : {"quorum", "parent", "latest", "tip"}, parent : Block \cup {None}]
Starting == [pc : {"heights", "headers"}, tip : Tips, to : [Chain -> 0..MaxHeight]]

TypeOK ==
  /\ tip \in Tips /\ parent \in Block /\ quorum \in BOOLEAN /\ moves \in 0..MaxMoves
  /\ latest \in [Chain -> Heights] /\ stored \in HeaderLists
  /\ collected \in SUBSET Chain /\ canMine \in BOOLEAN
  /\ calls \in [Call -> {Idle} \cup Collecting \cup Gating \cup Starting]
  /\ unfinished \in Seq(Listed) /\ Len(unfinished) <= MaxListed
  /\ unfinishedBlock \in NewBlock \cup {None}
  /\ handed \in Seq(NewBlock) /\ Len(handed) <= MaxWorks
  /\ mined \in Seq(Mined)
  /\ PoolTypeOK

Newest(headers) == Max(headers \cup {0})

(***************************************************************************)
(* A start: the store is kept, the parent is reset to genesis.             *)
(***************************************************************************)
Init ==
  /\ tip \in Tips /\ parent = Genesis /\ quorum \in BOOLEAN /\ moves = 0
  /\ stored = Headers[tip] /\ latest = [c \in Chain |-> Newest(stored[c])]
  /\ collected = {} /\ canMine = FALSE /\ calls = [r \in Call |-> Idle]
  /\ unfinished = <<>> /\ unfinishedBlock = None /\ handed = <<>> /\ mined = <<>>
  /\ PoolInit

------------------------------------------------------------------------------
(***************************************************************************)
(* The bounds: once MaxWorks works are handed out, nothing more is read.   *)
(***************************************************************************)
Open == Len(handed) < MaxWorks
Moves == Open /\ moves < MaxMoves /\ moves' = moves + 1

(***************************************************************************)
(* The environment: the puts of updateLatestAndStore, in whatever order,   *)
(* and its tail, which counts the chains that have a latest header; the    *)
(* headers of the tip (putChildHeaders); the quorum flag of the peer node. *)
(***************************************************************************)
PutLatest(b) ==
  /\ Moves /\ b # tip /\ tip' = b
  /\ UNCHANGED <<parent, quorum, headerStore, gate, calls, officer, poolVars>>
PutParent(b) ==
  /\ Moves /\ b # parent /\ parent' = b
  /\ UNCHANGED <<tip, quorum, headerStore, gate, calls, officer, poolVars>>
PutQuorum ==
  /\ Moves /\ quorum' = ~quorum
  /\ UNCHANGED <<tip, parent, headerStore, gate, calls, officer, poolVars>>
PutChildHeaders ==
  /\ Open
  /\ stored' = [c \in Chain |-> stored[c] \cup Headers[tip][c]]
  /\ latest' = [c \in Chain |-> Newest({latest[c]} \cup Headers[tip][c])]
  /\ headerStore' # headerStore
  /\ UNCHANGED <<store, gate, calls, officer, poolVars>>
CountStored ==
  /\ Open /\ ~canMine /\ collected' = Chain
  /\ UNCHANGED <<store, headerStore, canMine, calls, officer, poolVars>>

------------------------------------------------------------------------------
(***************************************************************************)
(* collectBlock: the height key, then the latest key.  Nothing compares    *)
(* the heights.                                                            *)
(***************************************************************************)
Goes(r, call) == calls' = [calls EXCEPT ![r] = call]

CollectBlock(r, c, h) ==
  /\ Open /\ calls[r] = Idle
  /\ stored' = [stored EXCEPT ![c] = @ \cup {h}]
  /\ Goes(r, [pc |-> "stored", chain |-> c, height |-> h])
  /\ UNCHANGED <<store, latest, gate, officer, poolVars>>

(***************************************************************************)
(* The latest key; then the event collectBlock and newRoveredBlock up to   *)
(* its first await.                                                        *)
(***************************************************************************)
NewRoveredBlock(r) ==
  LET call == calls[r] IN
  /\ call.pc = "stored"
  /\ latest' = [latest EXCEPT ![call.chain] = call.height]
  /\ collected' = collected \cup {call.chain}
  /\ canMine' = (canMine \/ collected' = Chain)
  /\ Goes(r, IF canMine' THEN [pc |-> "quorum", parent |-> None] ELSE Idle)
  /\ UNCHANGED <<store, stored, officer, poolVars>>

------------------------------------------------------------------------------
(***************************************************************************)
(* The gate: _canMine is shared, and each await may end after another call *)
(* has closed or opened it.                                                *)
(***************************************************************************)
ReadQuorum(r) ==
  /\ calls[r].pc = "quorum"
  /\ canMine' = (canMine /\ quorum)
  /\ Goes(r, IF canMine' THEN [calls[r] EXCEPT !.pc = "parent"] ELSE Idle)
  /\ UNCHANGED <<store, headerStore, collected, officer, poolVars>>

ReadParent(r) ==
  /\ calls[r].pc = "parent"
  /\ Goes(r, [pc |-> "latest", parent |-> parent])
  /\ UNCHANGED <<store, headerStore, gate, officer, poolVars>>

ReadLatest(r) ==
  LET linked == Prev[tip] = calls[r].parent IN
  /\ calls[r].pc = "latest"
  /\ canMine' = (canMine /\ linked)
  /\ Goes(r, IF canMine' THEN [calls[r] EXCEPT !.pc = "tip"] ELSE Idle)
  /\ UNCHANGED <<store, headerStore, collected, officer, poolVars>>

------------------------------------------------------------------------------
(***************************************************************************)
(* startMining reads the tip, the latest header of each chain, and the     *)
(* headers since those of the tip.                                         *)
(***************************************************************************)
ReadTip(r) ==
  /\ calls[r].pc = "tip"
  /\ Goes(r, [pc |-> "heights", tip |-> tip, to |-> [c \in Chain |-> 0]])
  /\ UNCHANGED <<store, headerStore, gate, officer, poolVars>>

ReadHeights(r) ==
  /\ calls[r].pc = "heights"
  /\ Goes(r, [calls[r] EXCEPT !.pc = "headers", !.to = latest])
  /\ UNCHANGED <<store, headerStore, gate, officer, poolVars>>

\* Mutant: the headers start with the last one of the tip.
KeysFromLast(b, c, to) ==
  LET from == Newest(Headers[b][c]) IN
  {h \in Heights : from <= h /\ h <= to /\ to <= h + Window}

NewBlockHeadersKeys(b, c, to) ==
  LET from == Newest(Headers[b][c]) + 1 IN
  {h \in Heights : from <= h /\ h <= to /\ to <= h + Window}

(***************************************************************************)
(* prepareNewBlock: a chain without new headers takes the last header of   *)
(* the unfinished block, if there is one, or else of the tip.              *)
(***************************************************************************)
Count(block) == FoldSet(LAMBDA c, n : n + Cardinality(block.headers[c]), 0, Chain)

Reused == IF unfinishedBlock # None /\ Count(unfinishedBlock) < MaxCount THEN unfinishedBlock ELSE None

Found(r) == [c \in Chain |-> NewBlockHeadersKeys(calls[r].tip, c, calls[r].to[c]) \cap stored[c]]

Carried(r) == IF Reused = None THEN Headers[calls[r].tip] ELSE Reused.headers

PrepareNewBlock(r) ==
  [prev |-> calls[r].tip,
   headers |-> [c \in Chain |-> IF Found(r)[c] # {} THEN Found(r)[c]
                                ELSE {Newest(Carried(r)[c])}]]

\* Mutant: the list is cut when it is already too long.
ListedLate(new) ==
  LET longer == Append(unfinished, new) IN
  IF Len(unfinished) > MaxListed THEN Tail(longer) ELSE longer

ListedWith(new) ==
  LET longer == Append(unfinished, new) IN
  IF Len(longer) > MaxListed THEN Tail(longer) ELSE longer

StartMining(r) ==
  LET block == PrepareNewBlock(r)
      id == Len(handed) + 1
  IN
  /\ calls[r].pc = "headers" /\ Open
  /\ unfinished' = ListedWith([id |-> id, block |-> block])
  /\ unfinishedBlock' = block /\ handed' = Append(handed, block)
  /\ SendMessage(id)
  /\ Goes(r, Idle)
  /\ UNCHANGED <<store, headerStore, gate, mined>>

------------------------------------------------------------------------------
(***************************************************************************)
(* _handleWorkerFinishedMessage: the solution of a work that is no longer  *)
(* listed is ignored; a listed id is unique.                               *)
(***************************************************************************)
\* Mutant: the id of the work is not compared.
CandidatesAny(id) == DOMAIN unfinished

Candidates(id) == {i \in DOMAIN unfinished : unfinished[i].id = id}

\* Mutant: the solved work stays listed.
RemainingAll(i) == unfinished

Remaining(i) == SubSeq(unfinished, 1, i - 1) \o SubSeq(unfinished, i + 1, Len(unfinished))

\* Mutant: a solution that comes too late clears the list as well.
HandleWorkerFinishedClearing(c) ==
  LET id == Head(controllers[c].outbox) IN
  /\ TakeSolution(c) /\ unfinishedBlock' = None
  /\ \/ \E i \in Candidates(id) :
          /\ mined' = Append(mined, [work |-> id, block |-> unfinished[i].block])
          /\ unfinished' = Remaining(i)
     \/ Candidates(id) = {} /\ unfinished' = <<>> /\ UNCHANGED mined
  /\ UNCHANGED <<store, headerStore, gate, calls, handed>>

HandleWorkerFinished(c) ==
  LET id == Head(controllers[c].outbox) IN
  /\ TakeSolution(c)
  /\ \/ \E i \in Candidates(id) :
          /\ mined' = Append(mined, [work |-> id, block |-> unfinished[i].block])
          /\ unfinished' = Remaining(i) /\ unfinishedBlock' = None
     \/ Candidates(id) = {} /\ UNCHANGED <<mined, unfinished, unfinishedBlock>>
  /\ UNCHANGED <<store, headerStore, gate, calls, handed>>

------------------------------------------------------------------------------
Environment ==
  \/ (\E b \in Tips : PutLatest(b)) \/ (\E b \in Block : PutParent(b))
  \/ PutQuorum \/ PutChildHeaders \/ CountStored

Rovered(r) ==
  \/ \E c \in Chain, h \in Heights : CollectBlock(r, c, h)
  \/ NewRoveredBlock(r) \/ ReadQuorum(r) \/ ReadParent(r) \/ ReadLatest(r)
  \/ ReadTip(r) \/ ReadHeights(r) \/ StartMining(r)

Pool == PoolStep /\ UNCHANGED <<store, headerStore, gate, calls, officer>>

Next ==
  \/ Environment \/ \E r \in Call : Rovered(r)
  \/ Pool \/ \E c \in DOMAIN controllers : HandleWorkerFinished(c)

Spec == Init /\ [][Next]_vars

------------------------------------------------------------------------------
(***************************************************************************)
(* A published block is the one its solution was mined for, although every *)
(* work shares one _unfinishedBlock and solutions come late, from several  *)
(* workers and from controllers that were replaced (MiningOfficer.         *)
(* _handleWorkerFinishedMessage).                                          *)
(***************************************************************************)
SolutionFitsBlock == \A i \in DOMAIN mined : mined[i].block = handed[mined[i].work]

(***************************************************************************)
(* Several workers solve the same work before they are killed: only the    *)
(* first solution makes a block, so a distance is added once.              *)
(***************************************************************************)
OneBlockPerWork == \A i, j \in DOMAIN mined : mined[i].work = mined[j].work => i = j

(***************************************************************************)
(* The promise of WorkBoard: a listed work is on offer until it is solved  *)
(* or is the oldest of a full list (_unfinished, unfinishedBlock and the   *)
(* history of what was handed out and published, together).                *)
(***************************************************************************)
Offered == {unfinished[i].id : i \in DOMAIN unfinished}

Board == INSTANCE WorkBoard WITH Work <- NewBlock, offered <- Offered, published <- mined
ImplementsWorkBoard == Board!Spec

(***************************************************************************)
(* Work contains, per chain, headers newer than all those of the block it  *)
(* builds on, from no wider a range than is looked back for; or a single   *)
(* one carried over, the last of that block or of the work before, if that *)
(* was small enough to be reused.  The tip, the rovers' keys and           *)
(* _unfinishedBlock move between the reads, and a latest header may move   *)
(* back (MiningOfficer.startMining, prepareNewBlock).                      *)
(***************************************************************************)
IsFresh(block, c) ==
  \A h \in block.headers[c] :
    /\ \A k \in Headers[block.prev][c] : h > k
    /\ \A k \in block.headers[c] : k <= h + Window

FreshOrCarried ==
  \A i \in DOMAIN handed, c \in Chain :
    \/ IsFresh(handed[i], c)
    \/ handed[i].headers[c] = {Newest(Headers[handed[i].prev][c])}
    \/ /\ i > 1 /\ Count(handed[i - 1]) < MaxCount
       /\ handed[i].headers[c] = {Newest(handed[i - 1].headers[c])}

(***************************************************************************)
(* Messages never go to a controller whose exit was already handled, in    *)
(* whatever order the error of a send and the exit event fork a new one    *)
(* (WorkerPool._handlePoolExit, _handlePoolError).                         *)
(***************************************************************************)
PoolIsReplaced == controllers[current].at # "gone"

(***************************************************************************)
(* prepareChildBlockHeadersMap: "if any list in header is empty take last  *)
(* header from previous block": the headers of a chain never go back from  *)
(* a block to the one mined on it.                                         *)
(***************************************************************************)
HeadersNeverGoBack ==
  \A i \in DOMAIN handed, c \in Chain :
    Newest(handed[i].headers[c]) >= Newest(Headers[handed[i].prev][c])
==============================================================================
