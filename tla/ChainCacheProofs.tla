--------------------------- MODULE ChainCacheProofs ---------------------------
(***************************************************************************)
(* Proofs about ChainCache.  The coin cache is safe because a reader only  *)
(* puts what it read if the state object is still the one it saw before it *)
(* asked: every batch that changes coins makes a new state object when it  *)
(* calls back, and then overwrites the cached coins it changed.            *)
(***************************************************************************)
EXTENDS ChainCache, FiniteSetTheorems, TLAPS

LEMMA EvictedKeeps ==
  ASSUME NEW f, NEW capacity, NEW g \in Evicted(f, capacity)
  PROVE  /\ g \in [DOMAIN f -> BlockOrNone]
         /\ \A k \in DOMAIN f : g[k] \in {f[k], None}
         /\ Cardinality(Held(g)) <= capacity
BY DEF Evicted

LEMMA HeightType == \A b \in Block : Height[b] \in Heights
BY DEF Heights

LEMMA InitType == Init => TypeOK
<1> SUFFICES ASSUME Init PROVE TypeOK
  OBVIOUS
<1>1. Held(coinCache) = {} /\ Held(cacheHeight) = {} /\ cacheHash = {}
  BY DEF Init, Held, NoCoins
<1>2. Cardinality({}) = 0
  BY FS_EmptySet
<1>3. /\ Cardinality(Held(coinCache)) <= CoinCache
      /\ Cardinality(Held(cacheHeight)) <= EntryCache /\ Cardinality(cacheHash) <= EntryCache
  BY <1>1, <1>2, CacheAssumption
<1>4. acked \in CoinTable /\ coins \in CoinTable /\ coinCache \in CoinTable
      /\ undo \in [Block -> CoinTable]
  BY DEF Init, CoinTable, NoCoins, BlockOrNone
<1>5. mainAt \in [Heights -> BlockOrNone] /\ cacheHeight \in [Heights -> BlockOrNone]
  BY TreeAssumption DEF Init, BlockOrNone
<1>. QED
  BY <1>3, <1>4, <1>5, TreeAssumption DEF Init, TypeOK

(***************************************************************************)
(* What a batch writes has its type.                                       *)
(***************************************************************************)
LEMMA TablesType ==
  ASSUME TypeOK, NEW b \in Block
  PROVE  /\ ConnectedCoins(b) \in CoinTable
         /\ DisconnectedCoins(b) \in CoinTable
         /\ [c \in Coin |-> IF c \in Spends[b] THEN coins[c] ELSE None] \in CoinTable
         /\ NoCoins \in CoinTable
<1>1. coins \in [Coin -> BlockOrNone] /\ undo[b] \in [Coin -> BlockOrNone]
  BY DEF TypeOK, CoinTable
<1>2. b \in BlockOrNone /\ None \in BlockOrNone
  BY DEF BlockOrNone
<1>3. ConnectedCoins(b) \in CoinTable
  BY <1>1, <1>2 DEF ConnectedCoins, CoinTable
<1>4. DisconnectedCoins(b) \in CoinTable
  BY <1>1, <1>2 DEF DisconnectedCoins, CoinTable
<1>. QED
  BY <1>1, <1>2, <1>3, <1>4 DEF CoinTable, NoCoins

LEMMA StartType ==
  ASSUME TypeOK, NEW kind \in Kinds, NEW b \in Block, Start(kind, b)
  PROVE  TypeOK'
<1>1. IF kind = "removeChains" THEN b = Genesis ELSE b # Genesis
  BY DEF Start, Legal, Connectable
<1>2. batch' \in Batch
  BY <1>1 DEF Start, Batch, BatchOf, Stale, TypeOK
<1>. QED
  BY <1>2 DEF Start, TypeOK, database, caches, Held

LEMMA BatchType ==
  ASSUME TypeOK, batch.at # "none"
  PROVE  /\ batch \in Batch /\ batch.block \in Block /\ batch.gone \in SUBSET Block
         /\ batch.kind # "removeChains" => batch.block # Genesis /\ Parent[batch.block] \in Block
<1>1. batch \in Batch
  BY DEF TypeOK, NoBatch
<1>2. batch.block \in Block /\ (batch.kind # "removeChains" => batch.block # Genesis)
  BY <1>1, TreeAssumption DEF Batch, BatchOf
<1>. QED
  BY <1>1, <1>2, TreeAssumption DEF Batch, BatchOf

LEMMA WrittenType == ASSUME TypeOK, BatchWritten PROVE TypeOK'
<1> DEFINE b == batch.block
<1>1. batch \in Batch /\ b \in Block /\ Height[b] \in Heights
      /\ (batch.kind # "removeChains" => Parent[b] \in Block)
  BY BatchType, HeightType DEF BatchWritten
<1>2. batch' \in Batch
  BY <1>1 DEF Batch, BatchOf, BatchWritten
<1>3. entries' \in SUBSET Block
  BY <1>1 DEF BatchWritten, TypeOK
<1>4. /\ ConnectedCoins(b) \in CoinTable /\ DisconnectedCoins(b) \in CoinTable
      /\ [c \in Coin |-> IF c \in Spends[b] THEN coins[c] ELSE None] \in CoinTable
      /\ NoCoins \in CoinTable
  BY <1>1, TablesType
<1>5. /\ mainAt' \in [Heights -> BlockOrNone] /\ best' \in Block
      /\ coins' \in CoinTable /\ undo' \in [Block -> CoinTable]
  BY <1>1, <1>4 DEF BatchWritten, TypeOK, BlockOrNone, Connects, Disconnects
<1>. QED
  BY <1>2, <1>3, <1>5 DEF BatchWritten, TypeOK, caches, Held

LEMMA FailsType == ASSUME TypeOK, BatchFails PROVE TypeOK'
  BY DEF BatchFails, TypeOK, database, caches, Held

LEMMA CommitType == ASSUME TypeOK, Commit PROVE TypeOK'
<1> DEFINE b == batch.block
<1>1. b \in Block /\ Height[b] \in Heights
  BY BatchType, HeightType DEF Commit
<1>2. coinCache' \in CoinTable /\ Cardinality(Held(coinCache')) <= CoinCache
  <2>1. CASE coinCache' \in CommitCoins(b)
    BY <2>1, EvictedKeeps DEF CommitCoins, CoinTable
  <2>2. CASE UNCHANGED coinCache
    BY <2>2 DEF TypeOK
  <2>. QED
    BY <2>1, <2>2 DEF Commit
<1>3. /\ cacheHeight' \in [Heights -> BlockOrNone]
      /\ Cardinality(Held(cacheHeight')) <= EntryCache
  <2> DEFINE f == CASE batch.kind \in Connects -> [cacheHeight EXCEPT ![Height[b]] = b]
                    [] batch.kind \in Disconnects -> [cacheHeight EXCEPT ![Height[b]] = None]
                    [] OTHER -> cacheHeight
  <2>1. DOMAIN f = Heights
    BY <1>1 DEF TypeOK
  <2>2. cacheHeight' \in Evicted(f, EntryCache)
    BY DEF Commit, CommitHeights
  <2>. HIDE DEF f
  <2>. QED
    BY <2>1, <2>2, EvictedKeeps
<1>4. cacheHash' \in SUBSET Block /\ Cardinality(cacheHash') <= EntryCache
  BY <1>1 DEF Commit, CommitHashes, EvictedBlocks, TypeOK
<1>5. state' \in Nat /\ acked' \in CoinTable /\ batch' = NoBatch
  BY DEF Commit, TypeOK
<1>. QED
  BY <1>2, <1>3, <1>4, <1>5 DEF Commit, TypeOK, database, Held

(***************************************************************************)
(* The steps of readers.                                                   *)
(***************************************************************************)
LEMMA ReadsType ==
  ASSUME TypeOK, NEW r \in Readers, NEW call \in Call \cup {Free}, Reads(r, call),
         coinCache' \in CoinTable, Cardinality(Held(coinCache')) <= CoinCache,
         cacheHeight' \in [Heights -> BlockOrNone],
         Cardinality(Held(cacheHeight')) <= EntryCache,
         cacheHash' \in SUBSET Block, Cardinality(cacheHash') <= EntryCache
  PROVE  TypeOK'
<1>1. readers' \in [Readers -> Call \cup {Free}]
  BY DEF Reads, TypeOK
<1>. QED
  BY <1>1 DEF Reads, TypeOK, database, Held

LEMMA CachesKept ==
  ASSUME TypeOK, UNCHANGED caches
  PROVE  /\ coinCache' \in CoinTable /\ Cardinality(Held(coinCache')) <= CoinCache
         /\ cacheHeight' \in [Heights -> BlockOrNone]
         /\ Cardinality(Held(cacheHeight')) <= EntryCache
         /\ cacheHash' \in SUBSET Block /\ Cardinality(cacheHash') <= EntryCache
BY DEF TypeOK, caches, Held

LEMMA AsksType ==
  ASSUME TypeOK, NEW flag \in BOOLEAN
  PROVE  /\ \A c \in Coin : Asks("coin", c, flag) \in Call
         /\ \A h \in Heights : Asks("height", h, flag) \in Call
         /\ \A b \in Block : Asks("entry", b, flag) \in Call
BY DEF Asks, Call, CallFor, TypeOK

LEMMA CallType ==
  ASSUME TypeOK, NEW r \in Readers, readers[r].at # "free"
  PROVE  /\ readers[r] \in Call
         /\ readers[r].at = "coin" => readers[r].key \in Coin
         /\ readers[r].at = "height" => readers[r].key \in Heights
         /\ readers[r].at = "entry" => readers[r].key \in Block
         /\ readers[r].raw \in BlockOrNone \cup {Unread}
<1>1. readers[r] \in Call
  BY DEF TypeOK, Free
<1>. QED
  BY <1>1 DEF Call, CallFor

LEMMA LookupType ==
  ASSUME TypeOK, NEW r \in Readers, readers[r].at # "free"
  PROVE  Lookup(readers[r]) \in BlockOrNone
<1>1. readers[r].at \in {"coin", "height", "entry"}
  BY CallType DEF Call, CallFor
<1>. QED
  BY <1>1, CallType DEF Lookup, TypeOK, CoinTable, BlockOrNone

LEMMA DatabaseReadsType == ASSUME TypeOK, NEW r \in Readers, DatabaseReads(r) PROVE TypeOK'
<1>1. readers[r] \in Call /\ readers[r].at # "free"
  BY DEF DatabaseReads, TypeOK, Call, CallFor
<1>2. Lookup(readers[r]) \in BlockOrNone
  BY <1>1, LookupType
<1>3. [readers[r] EXCEPT !.raw = Lookup(readers[r])] \in Call
  BY <1>1, <1>2 DEF Call, CallFor
<1>. QED
  BY <1>3, CachesKept, ReadsType DEF DatabaseReads

LEMMA CoinArrivesType == ASSUME TypeOK, NEW r \in Readers, CoinArrives(r) PROVE TypeOK'
<1> DEFINE f == [coinCache EXCEPT ![readers[r].key] = readers[r].raw]
<1>1. coinCache' \in CoinTable /\ Cardinality(Held(coinCache')) <= CoinCache
  <2>1. CASE coinCache' \in Evicted(f, CoinCache)
    <3>1. DOMAIN f = Coin
      BY DEF TypeOK, CoinTable
    <3>. HIDE DEF f
    <3>. QED
      BY <2>1, <3>1, EvictedKeeps DEF CoinTable
  <2>2. CASE UNCHANGED coinCache
    BY <2>2 DEF TypeOK
  <2>. QED
    BY <2>1, <2>2 DEF CoinArrives
<1>2. /\ cacheHeight' \in [Heights -> BlockOrNone]
      /\ Cardinality(Held(cacheHeight')) <= EntryCache
      /\ cacheHash' \in SUBSET Block /\ Cardinality(cacheHash') <= EntryCache
  BY DEF CoinArrives, TypeOK
<1>. QED
  BY <1>1, <1>2, ReadsType DEF CoinArrives

LEMMA HeightsSet ==
  ASSUME TypeOK, NEW b, NEW f \in Evicted([cacheHeight EXCEPT ![Height[b]] = b], EntryCache)
  PROVE  f \in [Heights -> BlockOrNone] /\ Cardinality(Held(f)) <= EntryCache
<1> DEFINE e == [cacheHeight EXCEPT ![Height[b]] = b]
<1>1. DOMAIN e = Heights
  BY DEF TypeOK
<1>. HIDE DEF e
<1>. QED
  BY <1>1, EvictedKeeps DEF e

LEMMA HashArrivesType == ASSUME TypeOK, NEW r \in Readers, HashArrives(r) PROVE TypeOK'
<1> DEFINE b == readers[r].raw
<1>1. /\ cacheHeight' \in [Heights -> BlockOrNone]
      /\ Cardinality(Held(cacheHeight')) <= EntryCache
  BY HeightsSet DEF HashArrives, TypeOK
<1>2. /\ coinCache' \in CoinTable /\ Cardinality(Held(coinCache')) <= CoinCache
      /\ cacheHash' \in SUBSET Block /\ Cardinality(cacheHash') <= EntryCache
  BY DEF HashArrives, TypeOK
<1>3. b \in Block \/ b = None
  BY CallType DEF HashArrives, Answered, BlockOrNone
<1>4. b # None => Asks("entry", b, TRUE) \in Call
  BY <1>3, AsksType
<1>5. CASE Reads(r, Free)
  BY <1>1, <1>2, <1>5, ReadsType
<1>6. CASE b # None /\ Reads(r, Asks("entry", b, TRUE))
  BY <1>1, <1>2, <1>4, <1>6, ReadsType
<1>. QED
  BY <1>5, <1>6 DEF HashArrives

LEMMA EntryArrivesType == ASSUME TypeOK, NEW r \in Readers, EntryArrives(r) PROVE TypeOK'
<1> DEFINE b == readers[r].key
<1>1. /\ cacheHeight' \in [Heights -> BlockOrNone]
      /\ Cardinality(Held(cacheHeight')) <= EntryCache
  BY HeightsSet DEF EntryArrives, TypeOK
<1>2. b \in Block
  BY CallType DEF EntryArrives, Answered
<1>3. cacheHash' \in SUBSET Block /\ Cardinality(cacheHash') <= EntryCache
  BY <1>2 DEF EntryArrives, EvictedBlocks, TypeOK
<1>4. coinCache' \in CoinTable /\ Cardinality(Held(coinCache')) <= CoinCache
  BY DEF EntryArrives, TypeOK
<1>. QED
  BY <1>1, <1>3, <1>4, ReadsType DEF EntryArrives

LEMMA ReadType == ASSUME TypeOK, NEW r \in Readers, Read(r) PROVE TypeOK'
<1>1. ASSUME NEW c \in Coin, ReadCoin(r, c) PROVE TypeOK'
  BY <1>1, AsksType, CachesKept, ReadsType DEF ReadCoin
<1>2. ASSUME NEW h \in Heights, GetEntryByHeight(r, h) PROVE TypeOK'
  BY <1>2, AsksType, CachesKept, ReadsType DEF GetEntryByHeight
<1>3. ASSUME NEW b \in Block, GetEntryByHash(r, b) PROVE TypeOK'
  BY <1>3, AsksType, CachesKept, ReadsType DEF GetEntryByHash
<1>. QED
  BY <1>1, <1>2, <1>3, DatabaseReadsType, CoinArrivesType, HashArrivesType, EntryArrivesType
  DEF Read

(***************************************************************************)
(* Every variable keeps its type and the caches their capacity.            *)
(***************************************************************************)
THEOREM TypeCorrect == Spec => []TypeOK
<1>1. TypeOK /\ [Next]_vars => TypeOK'
  <2>1. ASSUME TypeOK, UNCHANGED vars PROVE TypeOK'
    BY <2>1 DEF TypeOK, vars, database, caches, Held
  <2>. QED
    BY <2>1, StartType, WrittenType, FailsType, CommitType, ReadType DEF Next, Write
<1>. QED
  BY <1>1, InitType, PTL DEF Spec
------------------------------------------------------------------------------
(***************************************************************************)
(* The invariant.  Fresh says what the database and the last callback have *)
(* to do with each other, Pending what the answer of a reader is worth     *)
(* while the state object is the one it saw before it asked.               *)
(***************************************************************************)
Changes == IF batch.kind \in Connects \cup Disconnects THEN Touched(batch.block) ELSE {}

Fresh ==
  /\ batch.at # "written" => acked = coins
  /\ batch.at = "written" => \A c \in Coin \ Changes : acked[c] = coins[c]

Known(c, value) == value = coins[c] \/ (batch.at = "written" /\ value = acked[c])

Pending ==
  \A r \in Readers :
    readers[r].at = "coin" =>
      /\ readers[r].state <= state
      /\ readers[r].state = state /\ readers[r].raw # Unread
           => Known(readers[r].key, readers[r].raw)

Cached == \A c \in Coin : coinCache[c] = None \/ Known(c, coinCache[c])

IInv == TypeOK /\ Fresh /\ Pending /\ Cached

LEMMA InitHolds == Init => IInv
<1> SUFFICES ASSUME Init PROVE IInv
  OBVIOUS
<1>1. Fresh
  BY DEF Init, Fresh, NoBatch
<1>2. Pending
  BY DEF Init, Pending, Free
<1>3. Cached
  BY DEF Init, Cached, NoCoins
<1>. QED
  BY <1>1, <1>2, <1>3, InitType DEF IInv

(***************************************************************************)
(* A step that leaves coins, state, caches and readers alone, and does not *)
(* end the time between a write and its callback.                          *)
(***************************************************************************)
LEMMA QuietStep ==
  ASSUME IInv, TypeOK', UNCHANGED <<coins, state, acked, coinCache, readers>>,
         batch.at # "written", batch'.at # "written"
  PROVE  IInv'
BY DEF IInv, Fresh, Pending, Cached, Known

LEMMA StartHolds ==
  ASSUME IInv, TypeOK', NEW kind \in Kinds, NEW b \in Block, Start(kind, b)
  PROVE  IInv'
BY QuietStep DEF Start, NoBatch, database, caches

LEMMA FailsHolds == ASSUME IInv, TypeOK', BatchFails PROVE IInv'
BY QuietStep DEF BatchFails, NoBatch, database, caches

(***************************************************************************)
(* The write changes the coins of its block only, and what was current     *)
(* before it is what the last callback saw.                                *)
(***************************************************************************)
LEMMA WrittenHolds == ASSUME IInv, TypeOK', BatchWritten PROVE IInv'
<1>1. batch.at = "open" /\ batch'.at = "written" /\ Changes' = Changes
  <2>1. batch \in Batch
    BY BatchType DEF BatchWritten, IInv
  <2>2. batch'.at = "written" /\ batch'.kind = batch.kind /\ batch'.block = batch.block
    BY <2>1 DEF BatchWritten, Batch, BatchOf
  <2>. QED
    BY <2>2 DEF BatchWritten, Changes, Touched
<1>2. acked' = acked /\ acked = coins /\ coinCache' = coinCache /\ readers' = readers
      /\ state' = state
  BY <1>1 DEF BatchWritten, IInv, Fresh, caches
<1>3. \A c \in Coin \ Changes : coins'[c] = coins[c]
  BY DEF BatchWritten, Changes, Touched, ConnectedCoins, DisconnectedCoins
<1>4. Fresh'
  BY <1>1, <1>2, <1>3 DEF Fresh
<1>5. Pending'
  BY <1>1, <1>2 DEF IInv, Pending, Known
<1>6. Cached'
  BY <1>1, <1>2 DEF IInv, Cached, Known
<1>. QED
  BY <1>4, <1>5, <1>6 DEF IInv

(***************************************************************************)
(* The callback overwrites every coin that was changed; if there are any,  *)
(* no reader compares equal any more.                                      *)
(***************************************************************************)
LEMMA CommitHolds == ASSUME IInv, TypeOK', Commit PROVE IInv'
<1> DEFINE b == batch.block
<1>1. batch.at = "written" /\ batch'.at # "written" /\ acked' = coins /\ coins' = coins
      /\ readers' = readers
  BY DEF Commit, NoBatch, database
<1>2. Fresh'
  BY <1>1 DEF Fresh
<1>3. CASE batch.kind \in Connects \cup Disconnects
  <2>1. state' = state + 1 /\ coinCache' \in CommitCoins(b) /\ Changes = Touched(b)
    BY <1>3 DEF Commit, Changes
  <2>2. \A c \in Coin : coinCache'[c] \in
          {IF c \in Touched(b) THEN coins[c] ELSE coinCache[c], None}
    BY <2>1, EvictedKeeps DEF CommitCoins
  <2>3. Cached'
    BY <1>1, <2>1, <2>2 DEF IInv, Cached, Known, Fresh
  <2>4. Pending'
    <3> SUFFICES ASSUME NEW r \in Readers, readers[r].at = "coin"
                 PROVE  readers[r].state < state'
      BY <1>1, <2>1 DEF Pending, IInv, TypeOK, Call, CallFor, Free
    <3>1. readers[r].state <= state /\ readers[r].state \in Nat /\ state \in Nat
      BY CallType DEF IInv, Pending, Call, CallFor, TypeOK
    <3>. QED
      BY <2>1, <3>1
  <2>. QED
    BY <1>2, <2>3, <2>4 DEF IInv
<1>4. CASE batch.kind \notin Connects \cup Disconnects
  <2>1. state' = state /\ coinCache' = coinCache /\ acked = coins
    <3>1. \A c \in Coin : acked[c] = coins[c]
      BY <1>1, <1>4 DEF IInv, Fresh, Changes
    <3>. QED
      BY <3>1, <1>4 DEF Commit, IInv, TypeOK, CoinTable
  <2>2. Cached'
    BY <1>1, <2>1 DEF IInv, Cached, Known
  <2>3. Pending'
    BY <1>1, <2>1 DEF IInv, Pending, Known
  <2>. QED
    BY <1>2, <2>2, <2>3 DEF IInv
<1>. QED
  BY <1>3, <1>4

(***************************************************************************)
(* A reader that gets a new call or none.                                  *)
(***************************************************************************)
LEMMA ReadsHolds ==
  ASSUME IInv, TypeOK', NEW r \in Readers, NEW call, Reads(r, call), Cached',
         call.at = "coin" =>
           /\ call.state <= state
           /\ call.state = state /\ call.raw # Unread => Known(call.key, call.raw)
  PROVE  IInv'
<1>1. UNCHANGED <<coins, state, batch, acked>>
  BY DEF Reads, database
<1>2. Fresh'
  BY <1>1 DEF IInv, Fresh, Changes, Touched
<1>3. \A q \in Readers : readers'[q] = IF q = r THEN call ELSE readers[q]
  BY DEF Reads, IInv, TypeOK
<1>4. Pending'
  BY <1>1, <1>3 DEF IInv, Pending, Known
<1>. QED
  BY <1>2, <1>4 DEF IInv

LEMMA CachedKept ==
  ASSUME IInv, UNCHANGED <<coins, batch, acked, coinCache>>
  PROVE  Cached'
BY DEF IInv, Cached, Known

LEMMA AsksHolds ==
  ASSUME IInv, TypeOK', NEW r \in Readers, NEW at, NEW key, NEW flag,
         Reads(r, Asks(at, key, flag)), UNCHANGED coinCache
  PROVE  IInv'
<1>1. Cached'
  BY CachedKept DEF Reads, database
<1>2. Asks(at, key, flag).state = state /\ Asks(at, key, flag).raw = Unread /\ state \in Nat
  BY DEF Asks, IInv, TypeOK
<1>. QED
  BY <1>1, <1>2, ReadsHolds

LEMMA FreeHolds ==
  ASSUME IInv, TypeOK', NEW r \in Readers, Reads(r, Free), Cached'
  PROVE  IInv'
BY ReadsHolds DEF Free

LEMMA DatabaseReadsHolds ==
  ASSUME IInv, TypeOK', NEW r \in Readers, DatabaseReads(r)
  PROVE  IInv'
<1> DEFINE call == [readers[r] EXCEPT !.raw = Lookup(readers[r])]
<1>1. readers[r] \in Call /\ readers[r].at # "free"
  BY DEF DatabaseReads, IInv, TypeOK, Call, CallFor
<1>2. call.at = readers[r].at /\ call.state = readers[r].state /\ call.key = readers[r].key
      /\ call.raw = Lookup(readers[r])
  BY <1>1 DEF Call, CallFor
<1>3. call.at = "coin" => call.state <= state /\ Known(call.key, call.raw)
  BY <1>2 DEF IInv, Pending, Known, Lookup
<1>4. Cached'
  BY CachedKept DEF DatabaseReads, Reads, database, caches
<1>. HIDE DEF call
<1>5. Reads(r, call)
  BY DEF DatabaseReads, call
<1>. QED
  BY <1>3, <1>4, <1>5, ReadsHolds

LEMMA CoinArrivesHolds ==
  ASSUME IInv, TypeOK', NEW r \in Readers, CoinArrives(r)
  PROVE  IInv'
<1> DEFINE call == readers[r]
           f == [coinCache EXCEPT ![call.key] = call.raw]
<1>1. UNCHANGED <<coins, batch, acked>>
  BY DEF CoinArrives, Reads, database
<1>2. CASE Current(call) /\ coinCache' \in Evicted(f, CoinCache)
  <2>1. Known(call.key, call.raw)
    BY <1>2 DEF IInv, Pending, CoinArrives, Answered, Current
  <2>2. DOMAIN f = Coin
    BY DEF IInv, TypeOK, CoinTable
  <2>3. \A c \in Coin : f[c] = IF c = call.key THEN call.raw ELSE coinCache[c]
    BY DEF IInv, TypeOK, CoinTable
  <2>. HIDE DEF f
  <2>4. \A c \in Coin : coinCache'[c] \in {f[c], None}
    BY <1>2, <2>2, EvictedKeeps
  <2>. QED
    <3>1. Cached'
      BY <1>1, <2>1, <2>3, <2>4 DEF IInv, Cached, Known
    <3>. QED
      BY <3>1, FreeHolds DEF CoinArrives
<1>3. CASE UNCHANGED coinCache
  BY <1>1, <1>3, CachedKept, FreeHolds DEF CoinArrives
<1>. QED
  BY <1>2, <1>3 DEF CoinArrives

LEMMA ReadHolds == ASSUME IInv, TypeOK', NEW r \in Readers, Read(r) PROVE IInv'
<1>1. ASSUME NEW c \in Coin, ReadCoin(r, c) PROVE IInv'
  BY <1>1, AsksHolds DEF ReadCoin, caches
<1>2. ASSUME NEW h \in Heights, GetEntryByHeight(r, h) PROVE IInv'
  BY <1>2, AsksHolds DEF GetEntryByHeight, caches
<1>3. ASSUME NEW b \in Block, GetEntryByHash(r, b) PROVE IInv'
  BY <1>3, AsksHolds DEF GetEntryByHash, caches
<1>4. CASE HashArrives(r)
  <2>1. UNCHANGED <<coins, batch, acked, coinCache>>
    BY <1>4 DEF HashArrives, Reads, database
  <2>. QED
    BY <1>4, <2>1, CachedKept, AsksHolds, FreeHolds DEF HashArrives
<1>5. CASE EntryArrives(r)
  <2>1. UNCHANGED <<coins, batch, acked, coinCache>>
    BY <1>5 DEF EntryArrives, Reads, database
  <2>. QED
    BY <1>5, <2>1, CachedKept, FreeHolds DEF EntryArrives
<1>. QED
  BY <1>1, <1>2, <1>3, <1>4, <1>5, DatabaseReadsHolds, CoinArrivesHolds DEF Read

(***************************************************************************)
(* A cached coin is the one in the database, for any number of readers,    *)
(* any block tree and any capacity: readCoin and saveView together.        *)
(***************************************************************************)
THEOREM CoinCacheCorrect == Spec => []CoinCacheCurrent
<1>1. IInv /\ TypeOK' /\ [Next]_vars => IInv'
  <2>1. ASSUME IInv, TypeOK', UNCHANGED vars PROVE IInv'
    BY <2>1 DEF IInv, Fresh, Pending, Cached, Known, Changes, Touched, vars, database, caches
  <2>. QED
    BY <2>1, StartHolds, WrittenHolds, FailsHolds, CommitHolds, ReadHolds DEF Next, Write
<1>2. IInv => CoinCacheCurrent
  BY DEF IInv, Cached, Known, CoinCacheCurrent
<1>. QED
  BY <1>1, <1>2, InitHolds, TypeCorrect, PTL DEF Spec
==============================================================================
