------------------------------ MODULE SeenCache ------------------------------
(***************************************************************************)
(* The de-duplication cache of internal/safety/seen_cache.go shared by the *)
(* goroutines that handle frames.  One step is one critical section of     *)
(* sc.mu: CheckAndMark is a Has section followed by an Add section, with   *)
(* the lock free in between.                                               *)
(***************************************************************************)
EXTENDS SeenCacheOps, FiniteSets

CONSTANTS
    Keys,        \* protocol ids, message ids and fingerprints
    Callers,     \* goroutines
    KeySeqs,     \* the argument lists keys... that callers pass
    UseRedis,    \* whether a RedisClient was injected
    LastTime     \* bound on the clock

ASSUME CacheAssumption ==
    /\ NoKey \notin Keys /\ KeySeqs \subseteq Seq(Keys \cup {NoKey})
    /\ UseRedis \in BOOLEAN /\ LastTime \in Nat

VARIABLES
    cache,       \* items and evictList
    redis,       \* external: the keys Redis holds
    clock,       \* time.Now()
    pending,     \* pending[p]: keys p found absent and has still to Add, or <<>>
    stopped,     \* stopSweep closed by Dispose
    marked,      \* history: expiry promised by the last Add of a key, 0 if none
    newer        \* history: keys used since a key was last used itself

cachevars == <<cache, redis, clock, pending, stopped, marked, newer>>
history == <<marked, newer>>

Named(keys) == ToSet(keys) \ {NoKey}

CacheInit ==
    /\ cache = NewSeenCache
    /\ redis = {}
    /\ clock = 0
    /\ pending = [p \in Callers |-> <<>>]
    /\ stopped = FALSE
    /\ marked = [k \in Keys |-> 0]
    /\ newer = [k \in Keys |-> {}]

(* external: redis.Exists; a client that Dispose closed finds nothing. *)
Exists == IF UseRedis /\ ~stopped THEN redis ELSE {}

(* history only: k becomes the most recently used key *)
Used(n, k) == [x \in Keys |-> IF x = k THEN {} ELSE n[x] \cup {k}]

(* history only: so do the keys of a list, one by one *)
UsedAll(n, keys) ==
    LET after[i \in 0 .. Len(keys)] ==
            IF i = 0 THEN n
            ELSE IF keys[i] = NoKey THEN after[i - 1] ELSE Used(after[i - 1], keys[i])
    IN  after[Len(keys)]

(* The Has section: the cache after it, and the key that was hit. *)
HasSection(keys) ==
    LET r == Has(cache, keys, clock, Exists)
    IN  /\ cache' = r.cache
        /\ newer' = IF r.hit = NoKey THEN newer ELSE Used(newer, r.hit)
        /\ UNCHANGED <<redis, clock, stopped, marked>>

(* The Add section.  redis.SetEx may fail; its error is ignored. *)
AddSection(keys) ==
    /\ cache' = Add(cache, keys, clock)
    /\ \E stored \in SUBSET Named(keys) :
          /\ stored # {} => UseRedis /\ ~stopped
          /\ redis' = redis \cup stored
    /\ marked' = [k \in Keys |-> IF k \in Named(keys) THEN clock + TTL ELSE marked[k]]
    /\ newer' = UsedAll(newer, keys)
    /\ UNCHANGED <<clock, stopped>>

(* CheckAndMark, first half: the lock is taken and given up inside Has. *)
CheckAndMark(p, keys) ==
    /\ pending[p] = <<>>
    /\ HasSection(keys)
    /\ pending' = [pending EXCEPT ![p] =
                     IF Has(cache, keys, clock, Exists).hit = NoKey THEN keys ELSE <<>>]

(* CheckAndMark, second half: Add, then the caller is told "first". *)
MarkFirst(p) ==
    /\ pending[p] # <<>>
    /\ AddSection(pending[p])
    /\ pending' = [pending EXCEPT ![p] = <<>>]

(* A caller of Has alone, as in MarkAfterHandler mode. *)
Query(p, keys) ==
    /\ pending[p] = <<>>
    /\ HasSection(keys)
    /\ UNCHANGED pending

(* A caller of Add alone, after a handler that succeeded. *)
AddOnly(p, keys) ==
    /\ pending[p] = <<>>
    /\ AddSection(keys)
    /\ UNCHANGED pending

(* sweepLoop: the ticker, until stopSweep is closed. *)
Sweep ==
    /\ ~stopped
    /\ cache' = sweep(cache, clock)
    /\ UNCHANGED <<redis, clock, pending, stopped, marked, newer>>

(* Dispose: closing a closed stopSweep is avoided by the select. *)
Dispose ==
    /\ stopped' = TRUE
    /\ UNCHANGED <<cache, redis, clock, pending, history>>

(* external: another process that shares the Redis marks a key. *)
PeerSetEx(k) ==
    /\ UseRedis
    /\ redis' = redis \cup {k}
    /\ UNCHANGED <<cache, clock, pending, stopped, history>>

(* external: Redis drops a key at the end of its own TTL, or earlier. *)
RedisExpire(k) ==
    /\ k \in redis
    /\ redis' = redis \ {k}
    /\ UNCHANGED <<cache, clock, pending, stopped, history>>

CacheTick ==
    /\ clock < LastTime
    /\ clock' = clock + 1
    /\ UNCHANGED <<cache, redis, pending, stopped, history>>

CacheNext ==
    \/ \E p \in Callers : MarkFirst(p)
    \/ \E p \in Callers, keys \in KeySeqs :
          CheckAndMark(p, keys) \/ Query(p, keys) \/ AddOnly(p, keys)
    \/ Sweep
    \/ Dispose
    \/ \E k \in Keys : PeerSetEx(k) \/ RedisExpire(k)
    \/ CacheTick

CacheSpec == CacheInit /\ [][CacheNext]_cachevars
-----------------------------------------------------------------------------
CacheTypeOK ==
    /\ cache.items \subseteq Keys
    /\ cache.evictList \in Seq([key : Keys, expiresAt : 0 .. LastTime + TTL])
    /\ redis \subseteq Keys
    /\ clock \in 0 .. LastTime
    /\ pending \in [Callers -> KeySeqs \cup {<<>>}]
    /\ stopped \in BOOLEAN

(* The map and the linked list of the cache describe the same entries, each *)
(* key once, and never more than MaxEntries of them, however lookups that   *)
(* drop expired entries, refreshes, sweeps and evictions are interleaved.   *)
MapAndListAgree ==
    /\ CacheTypeOK
    /\ cache.items = {e.key : e \in ToSet(cache.evictList)}
    /\ Cardinality(cache.items) = Len(cache.evictList)
    /\ Len(cache.evictList) <= MaxEntries

(* A key that Add promised to remember until marked[k] is forgotten earlier *)
(* only because MaxEntries other keys were used since: neither a sweep nor  *)
(* a lookup nor an eviction in the wrong order may lose it.                 *)
RememberedUntilExpiry ==
    \A k \in Keys :
        (clock < marked[k] /\ k \notin cache.items) => Cardinality(newer[k]) >= MaxEntries
=============================================================================
