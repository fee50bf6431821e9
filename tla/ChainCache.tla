------------------------------ MODULE ChainCache ------------------------------
(***************************************************************************)
(* ChainDB (blockchain/chaindb.js) between its database and its three      *)
(* caches (utils/lru.js).  The holder of the chain lock writes one batch   *)
(* after the other; readers take no lock.  The database works in threads   *)
(* of its own: a request takes effect, and its callback runs later, in any *)
(* order with the callbacks of other requests.                             *)
(***************************************************************************)
EXTENDS ChainTree, FiniteSets

CONSTANTS
  Readers,    \* calls that read at the same time
  CoinCache,  \* options.coinCache, in coins
  EntryCache, \* options.entryCache
  MaxStates,  \* bound on the chain states that are committed
  Unread      \* no answer of the database yet

ASSUME CacheAssumption ==
  /\ {CoinCache, EntryCache, MaxStates} \subseteq Nat
  /\ None \notin Coin /\ Unread \notin Block \cup {None}

VARIABLES
  entries,     \* database: blocks stored
  mainAt,      \* database: the main chain by height
  coins,       \* database: unspent outputs with the block that made them
  undo,        \* database: the coins a block of the main chain spent
  best,        \* database: the tip of the main chain
  state,       \* ChainDB.state: which object it is
  batch,       \* ChainDB.current
  coinCache,   \* ChainDB.coinCache
  cacheHash,   \* ChainDB.cacheHash
  cacheHeight, \* ChainDB.cacheHeight
  readers,     \* the calls of readers
  acked        \* history: the coins when the last batch called back

database == <<entries, mainAt, coins, undo, best>>
caches == <<coinCache, cacheHash, cacheHeight>>
vars == <<database, state, batch, caches, readers, acked>>

Heights == {Height[b] : b \in Block}
BlockOrNone == Block \cup {None}
CoinTable == [Coin -> BlockOrNone]

Kinds == {"save", "alternate", "reconnect", "disconnect", "reset", "removeChains"}
NoBatch == [at |-> "none"]
BatchOf(kinds, blocks) ==
  [at : {"open", "written"}, kind : kinds, block : blocks, gone : SUBSET Block]
Batch == BatchOf(Kinds \ {"removeChains"}, Block \ {Genesis}) \cup BatchOf({"removeChains"}, {Genesis})

Free == [at |-> "free"]
CallFor(at, keys) ==
  [at : {at}, key : keys, state : Nat, raw : BlockOrNone \cup {Unread}, byHeight : BOOLEAN]
Call == CallFor("coin", Coin) \cup CallFor("height", Heights) \cup CallFor("entry", Block)

Held(f) == {k \in DOMAIN f : f[k] # None}

TypeOK ==
  /\ entries \in SUBSET Block /\ mainAt \in [Heights -> BlockOrNone]
  /\ coins \in CoinTable /\ undo \in [Block -> CoinTable] /\ best \in Block
  /\ state \in Nat /\ batch \in Batch \cup {NoBatch}
  /\ coinCache \in CoinTable /\ cacheHeight \in [Heights -> BlockOrNone]
  /\ cacheHash \in SUBSET Block
  /\ Cardinality(Held(coinCache)) <= CoinCache
  /\ Cardinality(Held(cacheHeight)) <= EntryCache /\ Cardinality(cacheHash) <= EntryCache
  /\ readers \in [Readers -> Call \cup {Free}]
  /\ acked \in CoinTable

NoCoins == [c \in Coin |-> None]

Init ==
  /\ entries = {Genesis} /\ best = Genesis
  /\ mainAt = [h \in Heights |-> IF h = 0 THEN Genesis ELSE None]
  /\ coins = NoCoins /\ undo = [b \in Block |-> NoCoins]
  /\ state = 0 /\ batch = NoBatch
  /\ coinCache = NoCoins /\ cacheHash = {} /\ cacheHeight = [h \in Heights |-> None]
  /\ readers = [r \in Readers |-> Free] /\ acked = NoCoins

------------------------------------------------------------------------------
(***************************************************************************)
(* LRU.set and LRUBatch.commit end in _compact.  Which items it evicts     *)
(* depends on their sizes and on when they were used; neither is kept      *)
(* here, so any may go.                                                    *)
(***************************************************************************)
\* Mutant: LRU._compact stops one item too late.
EvictedLate(f, capacity) ==
  {g \in [DOMAIN f -> BlockOrNone] : /\ \A k \in DOMAIN f : g[k] \in {f[k], None}
                                     /\ Cardinality(Held(g)) <= capacity + 1}

Evicted(f, capacity) ==
  {g \in [DOMAIN f -> BlockOrNone] : /\ \A k \in DOMAIN f : g[k] \in {f[k], None}
                                     /\ Cardinality(Held(g)) <= capacity}

EvictedBlocks(s) == {t \in SUBSET s : Cardinality(t) <= EntryCache}

------------------------------------------------------------------------------
(***************************************************************************)
(* What a batch writes: ChainDB._save, _reconnect, _disconnect, one turn   *)
(* of the loop of reset, and removeChains.                                 *)
(***************************************************************************)
Connects == {"save", "reconnect"}
Disconnects == {"disconnect", "reset"}

Stale == {b \in entries : mainAt[Height[b]] # b}
Touched(b) == Creates[b] \cup Spends[b]

Connectable(b) ==
  /\ b # Genesis /\ Parent[b] = best
  /\ NoDuplicates(b, Held(coins)) /\ InputsUnspent(b, Held(coins))

Legal(kind, b) ==
  \/ kind = "save" /\ b \notin entries /\ Connectable(b)
  \/ kind = "reconnect" /\ b \in entries /\ Connectable(b)
  \/ kind = "alternate" /\ b \notin entries /\ b # Genesis /\ Parent[b] \in entries
  \/ kind = "disconnect" /\ b = best /\ b # Genesis
  \/ kind = "reset" /\ b = best /\ b # Genesis /\ Stale = {}
  \/ kind = "removeChains" /\ b = Genesis

Start(kind, b) ==
  /\ batch = NoBatch /\ state < MaxStates /\ Legal(kind, b)
  /\ batch' = [at |-> "open", kind |-> kind, block |-> b,
               gone |-> CASE kind = "reset" -> {b} [] kind = "removeChains" -> Stale
                          [] OTHER -> {}]
  /\ UNCHANGED <<database, state, caches, readers, acked>>

(***************************************************************************)
(* The database applies the whole batch.                                   *)
(***************************************************************************)
ConnectedCoins(b) ==
  [c \in Coin |-> CASE c \in Spends[b] -> None [] c \in Creates[b] -> b [] OTHER -> coins[c]]
DisconnectedCoins(b) ==
  [c \in Coin |-> CASE c \in Creates[b] -> None [] c \in Spends[b] -> undo[b][c]
                    [] OTHER -> coins[c]]

BatchWritten ==
  LET b == batch.block IN
  /\ batch.at = "open"
  /\ batch' = [batch EXCEPT !.at = "written"]
  /\ entries' = (IF batch.kind \in {"save", "alternate"} THEN entries \cup {b} ELSE entries)
                  \ batch.gone
  /\ \/ /\ batch.kind \in Connects
        /\ mainAt' = [mainAt EXCEPT ![Height[b]] = b] /\ best' = b
        /\ coins' = ConnectedCoins(b)
        /\ undo' = [undo EXCEPT ![b] = [c \in Coin |-> IF c \in Spends[b] THEN coins[c] ELSE None]]
     \/ /\ batch.kind \in Disconnects
        /\ mainAt' = [mainAt EXCEPT ![Height[b]] = None] /\ best' = Parent[b]
        /\ coins' = DisconnectedCoins(b)
        /\ undo' = [undo EXCEPT ![b] = NoCoins]
     \/ /\ batch.kind \notin Connects \cup Disconnects
        /\ UNCHANGED <<mainAt, coins, undo, best>>
  /\ UNCHANGED <<state, caches, readers, acked>>

(***************************************************************************)
(* ChainDB.commit after a write that failed: the pending changes of the    *)
(* caches are dropped.                                                     *)
(***************************************************************************)
BatchFails ==
  /\ batch.at = "open"
  /\ batch' = NoBatch
  /\ UNCHANGED <<database, state, caches, readers, acked>>

(***************************************************************************)
(* ChainDB.commit after the write: a new state object if the batch         *)
(* committed one, and the pending changes of the caches.  In a reset the   *)
(* block leaves the two entry caches right after.                          *)
(***************************************************************************)
CommitCoins(b) ==
  Evicted([c \in Coin |-> IF c \in Touched(b) THEN coins[c] ELSE coinCache[c]], CoinCache)

CommitHashes(b) ==
  EvictedBlocks((IF batch.kind \in Connects \cup {"alternate"} THEN cacheHash \cup {b}
                 ELSE cacheHash) \ batch.gone)

CommitHeights(b) ==
  Evicted(CASE batch.kind \in Connects -> [cacheHeight EXCEPT ![Height[b]] = b]
            [] batch.kind \in Disconnects -> [cacheHeight EXCEPT ![Height[b]] = None]
            [] OTHER -> cacheHeight, EntryCache)

Commit ==
  LET b == batch.block IN
  /\ batch.at = "written"
  /\ \/ batch.kind \in Connects \cup Disconnects
        /\ state' = state + 1 /\ coinCache' \in CommitCoins(b)
     \/ batch.kind \notin Connects \cup Disconnects
        /\ UNCHANGED <<state, coinCache>>
  /\ cacheHash' \in CommitHashes(b) /\ cacheHeight' \in CommitHeights(b)
  /\ batch' = NoBatch /\ acked' = coins
  /\ UNCHANGED <<database, readers>>

------------------------------------------------------------------------------
(***************************************************************************)
(* A call that finds nothing in its cache asks the database; one that does *)
(* changes nothing.  ChainDB.readCoin, getEntryByHeight, getEntryByHash.   *)
(***************************************************************************)
Asks(at, key, byHeight) ==
  [at |-> at, key |-> key, state |-> state, raw |-> Unread, byHeight |-> byHeight]

Reads(r, call) ==
  /\ readers' = [readers EXCEPT ![r] = call]
  /\ UNCHANGED <<database, state, batch, acked>>

ReadCoin(r, c) ==
  /\ readers[r] = Free /\ coinCache[c] = None
  /\ Reads(r, Asks("coin", c, FALSE)) /\ UNCHANGED caches

GetEntryByHeight(r, h) ==
  /\ readers[r] = Free /\ cacheHeight[h] = None
  /\ Reads(r, Asks("height", h, TRUE)) /\ UNCHANGED caches

GetEntryByHash(r, b) ==
  /\ readers[r] = Free /\ b \notin cacheHash
  /\ Reads(r, Asks("entry", b, FALSE)) /\ UNCHANGED caches

Lookup(call) ==
  CASE call.at = "coin" -> coins[call.key]
    [] call.at = "height" -> mainAt[call.key]
    [] OTHER -> IF call.key \in entries THEN call.key ELSE None

DatabaseReads(r) ==
  /\ readers[r] # Free /\ readers[r].raw = Unread
  /\ Reads(r, [readers[r] EXCEPT !.raw = Lookup(readers[r])]) /\ UNCHANGED caches

Answered(r, at) == readers[r].at = at /\ readers[r].raw # Unread

Current(call) == call.raw # None /\ call.state = state

\* Mutant: the state is not compared.
CoinArrivesUnguarded(r) ==
  LET call == readers[r] IN
  /\ Answered(r, "coin")
  /\ \/ /\ call.raw # None
        /\ coinCache' \in Evicted([coinCache EXCEPT ![call.key] = call.raw], CoinCache)
     \/ call.raw = None /\ UNCHANGED coinCache
  /\ Reads(r, Free) /\ UNCHANGED <<cacheHash, cacheHeight>>

CoinArrives(r) ==
  LET call == readers[r] IN
  /\ Answered(r, "coin")
  /\ \/ /\ Current(call)
        /\ coinCache' \in Evicted([coinCache EXCEPT ![call.key] = call.raw], CoinCache)
     \/ ~Current(call) /\ UNCHANGED coinCache
  /\ Reads(r, Free) /\ UNCHANGED <<cacheHash, cacheHeight>>

(***************************************************************************)
(* getEntryByHeight goes on with the hash it was given.  Only now it takes *)
(* note of the state it compares with in the end.                          *)
(***************************************************************************)
HashArrives(r) ==
  LET b == readers[r].raw IN
  /\ Answered(r, "height")
  /\ \/ b = None /\ Reads(r, Free) /\ UNCHANGED cacheHeight
     \/ /\ b # None /\ b \in cacheHash
        /\ cacheHeight' \in Evicted([cacheHeight EXCEPT ![Height[b]] = b], EntryCache)
        /\ Reads(r, Free)
     \/ b # None /\ b \notin cacheHash /\ Reads(r, Asks("entry", b, TRUE))
        /\ UNCHANGED cacheHeight
  /\ UNCHANGED <<coinCache, cacheHash>>

EntryArrives(r) ==
  LET call == readers[r]
      b == call.key
  IN
  /\ Answered(r, "entry")
  /\ \/ call.raw # None /\ cacheHash' \in EvictedBlocks(cacheHash \cup {b})
     \/ call.raw = None /\ UNCHANGED cacheHash
  /\ \/ /\ call.byHeight /\ Current(call)
        /\ cacheHeight' \in Evicted([cacheHeight EXCEPT ![Height[b]] = b], EntryCache)
     \/ ~(call.byHeight /\ Current(call)) /\ UNCHANGED cacheHeight
  /\ Reads(r, Free) /\ UNCHANGED coinCache

------------------------------------------------------------------------------
Write ==
  \/ \E kind \in Kinds, b \in Block : Start(kind, b)
  \/ BatchWritten \/ BatchFails \/ Commit

Read(r) ==
  \/ \E c \in Coin : ReadCoin(r, c)
  \/ \E h \in Heights : GetEntryByHeight(r, h)
  \/ \E b \in Block : GetEntryByHash(r, b)
  \/ DatabaseReads(r) \/ CoinArrives(r) \/ HashArrives(r) \/ EntryArrives(r)

Next == Write \/ \E r \in Readers : Read(r)

Spec == Init /\ [][Next]_vars

------------------------------------------------------------------------------
(***************************************************************************)
(* A cached coin is the one in the database, whatever batches were written *)
(* while readers were waiting for their answers; between the write of a    *)
(* batch and its callback it may still be the one before (ChainDB.readCoin *)
(* and saveView).                                                          *)
(***************************************************************************)
CoinCacheCurrent ==
  \A c \in Coin : \/ coinCache[c] \in {None, coins[c]}
                  \/ batch.at = "written" /\ coinCache[c] = acked[c]

(***************************************************************************)
(* getEntryByHeight: "By the time getEntry has completed, a reorg may have *)
(* occurred.  This entry may not be on the main chain anymore."  Such an   *)
(* entry does not stay in the cache by height.                             *)
(***************************************************************************)
HeightCacheOnMain ==
  batch = NoBatch => \A h \in Heights : cacheHeight[h] \in {None, mainAt[h]}
==============================================================================
