------------------------ MODULE ProcessingLockProofs ------------------------
(***************************************************************************)
(* Mutual exclusion of the processing lock for any number of goroutines,   *)
(* ids and any lock lifetime.  ExclusiveUnlessOverrun is not inductive: it *)
(* says nothing of the map.  HolderHasEntry ties every handler that is in  *)
(* time to its own entry, and the two together are.                        *)
(***************************************************************************)
EXTENDS ProcessingLock, TLAPS

IInv == TypeOK /\ HolderHasEntry /\ ExclusiveUnlessOverrun

(* Every initial state has the inductive invariant: nobody holds anything. *)
LEMMA InitIInv == Init => IInv
<1> SUFFICES ASSUME Init PROVE IInv
  OBVIOUS
<1>1. TypeOK
  BY DEF Init, TypeOK, NoLocks
<1>2. HolderHasEntry /\ ExclusiveUnlessOverrun
  BY DEF Init, HolderHasEntry, ExclusiveUnlessOverrun
<1> QED
  BY <1>1, <1>2 DEF IInv

(* The types are kept by every step of the lock and its callers. *)
LEMMA StepTypeOK == TypeOK /\ [Next]_vars => TypeOK'
<1> SUFFICES ASSUME TypeOK, [Next]_vars PROVE TypeOK'
  OBVIOUS
<1> USE TtlAssumption DEF TypeOK
<1>1. ASSUME NEW p \in Procs, NEW id \in Ids, Acquire(p, id) PROVE TypeOK'
  BY <1>1 DEF Acquire, Locked, Outlived
<1>2. ASSUME NEW p \in Procs, Release(p) PROVE TypeOK'
  BY <1>2 DEF Release, Released
<1>3. CASE Sweep
  BY <1>3 DEF Sweep, Swept
<1>4. CASE Dispose
  BY <1>4 DEF Dispose, NoLocks
<1>5. CASE Tick
  BY <1>5 DEF Tick, Outlived
<1>6. CASE UNCHANGED vars
  BY <1>6 DEF vars
<1> QED
  BY <1>1, <1>2, <1>3, <1>4, <1>5, <1>6 DEF Next

(* A handler in time keeps its own entry through every step. *)
LEMMA StepHolderHasEntry == IInv /\ [Next]_vars => HolderHasEntry'
<1> SUFFICES ASSUME IInv, [Next]_vars,
                    NEW r \in Procs,
                    hold'[r] # NoId, hold'[r] \notin overrun', ~stopped'
             PROVE  /\ hold'[r] \in DOMAIN locks'
                    /\ locks'[hold'[r]] = since'[r] + ttlMs
                    /\ now' < since'[r] + ttlMs
  BY DEF HolderHasEntry
<1> USE TtlAssumption, NoIdAssumption DEF IInv, TypeOK, HolderHasEntry
<1>1. ASSUME NEW p \in Procs, NEW id \in Ids, Acquire(p, id)
      PROVE  /\ hold'[r] \in DOMAIN locks'
             /\ locks'[hold'[r]] = since'[r] + ttlMs
             /\ now' < since'[r] + ttlMs
  <2>1. CASE r = p
    BY <1>1, <2>1 DEF Acquire, Locked, Outlived
  <2>2. CASE r # p
    BY <1>1, <2>2 DEF Acquire, Locked, Available, Outlived
  <2> QED
    BY <2>1, <2>2
<1>2. ASSUME NEW p \in Procs, Release(p)
      PROVE  /\ hold'[r] \in DOMAIN locks'
             /\ locks'[hold'[r]] = since'[r] + ttlMs
             /\ now' < since'[r] + ttlMs
  BY <1>2 DEF Release, Released, ExclusiveUnlessOverrun
<1>3. CASE Sweep
  BY <1>3 DEF Sweep, Swept
<1>4. CASE Dispose
  BY <1>4 DEF Dispose
<1>5. CASE Tick
  BY <1>5 DEF Tick, Outlived
<1>6. CASE UNCHANGED vars
  BY <1>6 DEF vars
<1> QED
  BY <1>1, <1>2, <1>3, <1>4, <1>5, <1>6 DEF Next

(* No step lets a second goroutine into an id whose holders are in time. *)
LEMMA StepExclusive == IInv /\ [Next]_vars => ExclusiveUnlessOverrun'
<1> SUFFICES ASSUME IInv, [Next]_vars,
                    NEW q \in Procs, NEW r \in Procs,
                    q # r, hold'[q] # NoId, hold'[q] = hold'[r],
                    hold'[q] \notin overrun', ~stopped'
             PROVE  FALSE
  BY DEF ExclusiveUnlessOverrun
<1> USE TtlAssumption DEF IInv, TypeOK, ExclusiveUnlessOverrun
<1>1. ASSUME NEW p \in Procs, NEW id \in Ids, Acquire(p, id) PROVE FALSE
  BY <1>1 DEF Acquire, Available, HolderHasEntry
<1>2. ASSUME NEW p \in Procs, Release(p) PROVE FALSE
  BY <1>2 DEF Release
<1>3. CASE Sweep
  BY <1>3 DEF Sweep
<1>4. CASE Dispose
  BY <1>4 DEF Dispose
<1>5. CASE Tick
  BY <1>5 DEF Tick
<1>6. CASE UNCHANGED vars
  BY <1>6 DEF vars
<1> QED
  BY <1>1, <1>2, <1>3, <1>4, <1>5, <1>6 DEF Next

(* The inductive invariant holds in every reachable state. *)
THEOREM Inductive == Spec => []IInv
<1>1. IInv /\ [Next]_vars => IInv'
  BY StepTypeOK, StepHolderHasEntry, StepExclusive DEF IInv
<1> QED
  BY InitIInv, <1>1, PTL DEF Spec

(* The state of the lock and of its callers is always well typed. *)
THEOREM TypeCorrect == Spec => []TypeOK
<1>1. IInv => TypeOK
  BY DEF IInv
<1> QED
  BY Inductive, <1>1, PTL

(* For any lifetime and any number of goroutines, two handlers of one id    *)
(* run at the same time only after some handler of that id outlived its     *)
(* lock, or after Dispose.                                                  *)
THEOREM MutualExclusion == Spec => []ExclusiveUnlessOverrun
<1>1. IInv => ExclusiveUnlessOverrun
  BY DEF IInv
<1> QED
  BY Inductive, <1>1, PTL

(* A handler that is in time always has its own entry in the map: no sweep, *)
(* no expiry at the boundary and no Release of somebody else takes it away. *)
THEOREM EntryKept == Spec => []HolderHasEntry
<1>1. IInv => HolderHasEntry
  BY DEF IInv
<1> QED
  BY Inductive, <1>1, PTL
=============================================================================
