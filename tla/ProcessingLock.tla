--------------------------- MODULE ProcessingLock ---------------------------
(***************************************************************************)
(* The processing lock of internal/safety/processing_lock.go with its      *)
(* callers: a goroutine of the pipeline acquires the id of an event, runs  *)
(* the handler, and releases the id when the handler returns, however long *)
(* that took.                                                              *)
(***************************************************************************)
EXTENDS ProcessingLockOps, FiniteSets

CONSTANTS
    Ids,       \* message and event ids
    Procs,     \* goroutines that handle deliveries
    NoId,      \* "holds nothing"
    MaxTime    \* bound on the clock

ASSUME NoIdAssumption == NoId \notin Ids
ASSUME MaxTimeAssumption == MaxTime \in Nat

VARIABLES
    locks,     \* pl.locks
    now,       \* time.Now().UnixMilli()
    hold,      \* hold[p]: the id whose handler p is running, or NoId
    since,     \* since[p]: when p acquired it
    stopped,   \* stopCh closed by Dispose
    panicked,  \* Dispose closed stopCh a second time: the process is gone
    overrun    \* history: ids of which some handler outlived its lock

vars == <<locks, now, hold, since, stopped, panicked, overrun>>

Init ==
    /\ locks = NoLocks
    /\ now = 0
    /\ hold = [p \in Procs |-> NoId]
    /\ since = [p \in Procs |-> 0]
    /\ stopped = FALSE
    /\ panicked = FALSE
    /\ overrun = {}

(* history only: the ids held past their expiry at time t *)
Outlived(t, h, s) == {id \in Ids : \E p \in Procs : h[p] = id /\ s[p] + ttlMs <= t}

(* Acquire returned true: p goes on to run the handler of id. *)
Acquire(p, id) ==
    /\ ~panicked
    /\ hold[p] = NoId
    /\ Available(locks, id, now)
    /\ locks' = Locked(locks, id, now)
    /\ hold' = [hold EXCEPT ![p] = id]
    /\ since' = [since EXCEPT ![p] = now]
    /\ overrun' = overrun \cup Outlived(now, hold', since')
    /\ UNCHANGED <<now, stopped, panicked>>

(* The handler returned: Release deletes the entry of the id. *)
Release(p) ==
    /\ ~panicked
    /\ hold[p] # NoId
    /\ locks' = Released(locks, hold[p])
    /\ hold' = [hold EXCEPT ![p] = NoId]
    /\ UNCHANGED <<now, since, stopped, panicked, overrun>>

(* sweepLoop, until stopCh is closed *)
Sweep ==
    /\ ~panicked
    /\ ~stopped
    /\ locks' = Swept(locks, now)
    /\ UNCHANGED <<now, hold, since, stopped, panicked, overrun>>

(* Dispose: close(stopCh), which panics when it is closed already, then a *)
(* fresh map; handlers that still run lose their entries.                 *)
Dispose ==
    /\ ~panicked
    /\ stopped' = TRUE
    /\ panicked' = stopped
    /\ locks' = IF stopped THEN locks ELSE NoLocks
    /\ UNCHANGED <<now, hold, since, overrun>>

Tick ==
    /\ ~panicked
    /\ now < MaxTime
    /\ now' = now + 1
    /\ overrun' = overrun \cup Outlived(now', hold, since)
    /\ UNCHANGED <<locks, hold, since, stopped, panicked>>

Next ==
    \/ \E p \in Procs, id \in Ids : Acquire(p, id)
    \/ \E p \in Procs : Release(p)
    \/ Sweep
    \/ Dispose
    \/ Tick

Spec == Init /\ [][Next]_vars
-----------------------------------------------------------------------------
TypeOK ==
    /\ DOMAIN locks \subseteq Ids
    /\ \A id \in DOMAIN locks : locks[id] \in Nat
    /\ now \in Nat
    /\ hold \in [Procs -> Ids \cup {NoId}]
    /\ since \in [Procs -> Nat]
    /\ stopped \in BOOLEAN
    /\ panicked \in BOOLEAN
    /\ overrun \subseteq Ids

(* While every handler of an id has finished within the lifetime of its     *)
(* lock and the lock was not disposed of, at most one goroutine runs the    *)
(* handler of that id: neither the sweep nor a Release of another id, nor   *)
(* an expiry at the boundary, lets a second one in.                         *)
ExclusiveUnlessOverrun ==
    \A p, q \in Procs :
        (p # q /\ hold[p] # NoId /\ hold[p] = hold[q]) => (hold[p] \in overrun \/ stopped)

(* A handler that has not outlived its lock finds its own entry in the map, *)
(* with the expiry it was given: the reason for ExclusiveUnlessOverrun.     *)
HolderHasEntry ==
    \A p \in Procs :
        (hold[p] # NoId /\ hold[p] \notin overrun /\ ~stopped) =>
            /\ hold[p] \in DOMAIN locks
            /\ locks[hold[p]] = since[p] + ttlMs
            /\ now < since[p] + ttlMs
=============================================================================
