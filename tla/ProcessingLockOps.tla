-------------------------- MODULE ProcessingLockOps --------------------------
(***************************************************************************)
(* The critical sections of internal/safety/processing_lock.go as          *)
(* operators on the map locks: id -> expireAt (Unix ms).  There is no      *)
(* owner in an entry: Release deletes whatever entry the id has.           *)
(***************************************************************************)
EXTENDS Naturals

CONSTANT ttlMs    \* lock lifetime; 0 when LockTTL is left unset

ASSUME TtlAssumption == ttlMs \in Nat

NoLocks == [id \in {} |-> 0]

(* Faulty variant: an entry counts as expired one millisecond early. *)
AvailableEarly(locks, id, now) == ~(id \in DOMAIN locks /\ locks[id] > now + 1)

(* Acquire succeeds unless an entry exists and exp > now. *)
Available(locks, id, now) == ~(id \in DOMAIN locks /\ locks[id] > now)

(* Faulty variant: the lifetime is subtracted. *)
LockedBackwards(locks, id, now) ==
    [x \in DOMAIN locks \cup {id} |-> IF x = id THEN now - ttlMs ELSE locks[x]]

(* Acquire: locks[id] = now + ttlMs *)
Locked(locks, id, now) ==
    [x \in DOMAIN locks \cup {id} |-> IF x = id THEN now + ttlMs ELSE locks[x]]

(* Release: delete(pl.locks, id) *)
Released(locks, id) == [x \in DOMAIN locks \ {id} |-> locks[x]]

(* Faulty variant: the comparison is the wrong way round. *)
SweptDropsLive(locks, now) ==
    [x \in {y \in DOMAIN locks : locks[y] <= now} |-> locks[x]]

(* sweep: the entries with exp <= now are deleted. *)
Swept(locks, now) ==
    [x \in {y \in DOMAIN locks : locks[y] > now} |-> locks[x]]
=============================================================================
