---------------------------- MODULE SeenCacheOps ----------------------------
(***************************************************************************)
(* The critical sections of internal/safety/seen_cache.go as operators on  *)
(* the cache value.  A cache is the record                                 *)
(*    items     - the keys of the Go map sc.items                          *)
(*    evictList - the doubly linked LRU list, front (most recent) first,   *)
(*                of entries [key, expiresAt]                              *)
(* Each operator is what one method does while it holds sc.mu, so the      *)
(* modules that use them choose where the lock is given up.                *)
(***************************************************************************)
EXTENDS Naturals, Sequences, SequencesExt

CONSTANTS
    NoKey,       \* the empty string: a delivery without that identifier
    TTL,         \* cfg.TTL after fillDedupConfig
    MaxEntries   \* cfg.MaxEntries after fillDedupConfig

(* fillDedupConfig replaces a non-positive value by a default. *)
ASSUME DedupConfigFilled == TTL \in Nat \ {0} /\ MaxEntries \in Nat \ {0}

(* NewSeenCache: an empty map and an empty list. *)
NewSeenCache == [items |-> {}, evictList |-> <<>>]

(* sc.items[key] is the list element of that key. *)
Place(c, key) == CHOOSE i \in DOMAIN c.evictList : c.evictList[i].key = key
Entry(c, key) == c.evictList[Place(c, key)]

(* evictList.Remove(elem) *)
Without(c, key) == RemoveAt(c.evictList, Place(c, key))

(* evictList.Remove(elem); delete(sc.items, key) *)
Forget(c, key) == [items |-> c.items \ {key}, evictList |-> Without(c, key)]

(* evictList.MoveToFront(elem), its expiry being set to x *)
ToFront(c, key, x) ==
    [c EXCEPT !.evictList = <<[key |-> key, expiresAt |-> x]>> \o Without(c, key)]

(* evictList.PushFront and the entry of the map *)
Push(c, key, x) ==
    [items     |-> c.items \cup {key},
     evictList |-> <<[key |-> key, expiresAt |-> x]>> \o c.evictList]

(* Faulty variant: the evicted key stays in the map. *)
EvictOldestKeepsKey(c) ==
    IF Len(c.evictList) > MaxEntries THEN [c EXCEPT !.evictList = Front(@)] ELSE c

(* The eviction loop of addToMemory: the oldest entry goes, list and map. *)
EvictOldest(c) ==
    IF Len(c.evictList) > MaxEntries
    THEN [items |-> c.items \ {Last(c.evictList).key}, evictList |-> Front(c.evictList)]
    ELSE c

(* Faulty variant: an existing entry moves to the front but keeps its expiry. *)
addToMemoryKeepsExpiry(c, key, expiresAt) ==
    IF key \in c.items THEN ToFront(c, key, Entry(c, key).expiresAt)
    ELSE EvictOldest(Push(c, key, expiresAt))

(* addToMemory: refresh and move an existing entry, or push a new one. *)
addToMemory(c, key, expiresAt) ==
    IF key \in c.items THEN ToFront(c, key, expiresAt)
    ELSE EvictOldest(Push(c, key, expiresAt))

(* One turn of the memory loop of Has: a live hit ends the loop, an expired *)
(* entry met on the way is dropped at once.                                 *)
LookUp(r, key, now) ==
    IF r.hit # NoKey \/ key = NoKey \/ key \notin r.cache.items
    THEN r
    ELSE IF now < Entry(r.cache, key).expiresAt
         THEN [hit |-> key, cache |-> ToFront(r.cache, key, Entry(r.cache, key).expiresAt)]
         ELSE [r EXCEPT !.cache = Forget(@, key)]

(* Has, the memory level (L1): hit is the key that was found, or NoKey. *)
HasInMemory(c, keys, now) ==
    LET turn[i \in 0 .. Len(keys)] ==
            IF i = 0 THEN [hit |-> NoKey, cache |-> c] ELSE LookUp(turn[i - 1], keys[i], now)
    IN  turn[Len(keys)]

(* Has as a whole.  inRedis is the set of keys for which redis.Exists       *)
(* answers true ({} for a cache without Redis); a Redis hit is copied into  *)
(* memory for a full TTL.                                                   *)
Has(c, keys, now, inRedis) ==
    LET mem    == HasInMemory(c, keys, now)
        shared == {i \in DOMAIN keys : keys[i] # NoKey /\ keys[i] \in inRedis}
        first  == keys[Min(shared)]
    IN  IF mem.hit # NoKey \/ shared = {}
        THEN mem
        ELSE [hit |-> first, cache |-> addToMemory(mem.cache, first, now + TTL)]

(* Add, the memory level: every non-empty key, in order. *)
Add(c, keys, now) ==
    LET turn[i \in 0 .. Len(keys)] ==
            IF i = 0 THEN c
            ELSE IF keys[i] = NoKey THEN turn[i - 1]
            ELSE addToMemory(turn[i - 1], keys[i], now + TTL)
    IN  turn[Len(keys)]

(* sweep walks from the back and stops at the first entry still alive. *)
sweep(c, now) ==
    LET kept == Max({0} \cup {i \in DOMAIN c.evictList : now < c.evictList[i].expiresAt})
        gone == {c.evictList[i].key : i \in (kept + 1) .. Len(c.evictList)}
    IN  [items |-> c.items \ gone, evictList |-> SubSeq(c.evictList, 1, kept)]
=============================================================================
