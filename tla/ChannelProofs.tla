--------------------------- MODULE ChannelProofs ----------------------------
(***************************************************************************)
(* getOrCreate gives a scope one queue, for any number of deliveries that  *)
(* look for it at the same moment, and any number of queues and of calls   *)
(* of Close.  OneQueuePerScope says nothing of the map; what makes it      *)
(* inductive is that every queue that is not closed is the one the map     *)
(* holds for its scope, so that a second one is made only when Dispose has *)
(* closed the first.                                                       *)
(*                                                                         *)
(* Two further invariants are about what reaches the handlers.  Books says *)
(* what may sit in each queue: a delivery waits, or runs, as the kind of   *)
(* task that its registration calls for.  CloseInv says what holds of a    *)
(* Close that no delivery races: the barrier FlushNow puts in a queue is   *)
(* its last task, so nothing is left behind it when Close has waited.      *)
(***************************************************************************)
EXTENDS Channel, TLAPS

ManagerType ==
    /\ made \in 0 .. MaxQueues
    /\ queues \in [Scopes -> 0 .. made]
    /\ scope \in [Queues -> Scopes]
    /\ closed \in [Queues -> BOOLEAN]

OpenIsInMap == \A x \in 1 .. made : closed[x] \/ queues[scope[x]] = x

IInv == ManagerType /\ OpenIsInMap /\ OneQueuePerScope

(* The manager starts without queues. *)
LEMMA InitIInv == Init => IInv
<1> SUFFICES ASSUME Init PROVE IInv
  OBVIOUS
<1>0. Scopes # {}
  BY DeliveriesAssumption DEF Scopes
<1> USE <1>0, QueuesAssumption DEF Init, Queues
<1>1. ManagerType
  BY DEF ManagerType
<1>2. OpenIsInMap /\ OneQueuePerScope
  BY DEF OpenIsInMap, OneQueuePerScope
<1> QED
  BY <1>1, <1>2 DEF IInv

(* A step that leaves the manager and closed alone keeps the invariant. *)
LEMMA FrameIInv == IInv /\ UNCHANGED <<mgr, closed>> => IInv'
  BY DEF IInv, ManagerType, OpenIsInMap, OneQueuePerScope, mgr

(* A new queue is made under the write lock, for a scope without a queue.   *)
LEMMA CreateIInv ==
  ASSUME IInv, NEW d \in Deliveries, Create(d)
  PROVE  IInv'
<1>1. CASE UNCHANGED mgr
  BY <1>1, FrameIInv DEF Create
<1>2. CASE queues[Scope[d]] = 0 /\ New(d)
  <2> USE QueuesAssumption DEF Queues
  <2> DEFINE s == Scope[d]
  <2>1. s \in Scopes /\ made + 1 \in Queues /\ closed' = closed
    BY <1>2 DEF Scopes, New, Create, IInv, ManagerType
  <2>2. ManagerType'
    BY <1>2, <2>1 DEF New, IInv, ManagerType
  <2>3. \A x \in 1 .. made : scope[x] = s => closed[x]
    BY <1>2 DEF IInv, OpenIsInMap
  <2>4. OpenIsInMap'
    BY <1>2, <2>1, <2>3 DEF New, IInv, ManagerType, OpenIsInMap
  <2>5. OneQueuePerScope'
    BY <1>2, <2>1, <2>3 DEF New, IInv, ManagerType, OneQueuePerScope
  <2> QED
    BY <2>2, <2>4, <2>5 DEF IInv
<1> QED
  BY <1>1, <1>2 DEF Create

(* Dispose closes the queues of the map, and these are all that were open. *)
LEMMA DisposeIInv == IInv /\ Dispose => IInv'
<1> SUFFICES ASSUME IInv, Dispose PROVE IInv'
  OBVIOUS
<1> USE QueuesAssumption DEF Queues, IInv, ManagerType, OpenIsInMap
<1>1. ManagerType'
  BY DEF Dispose
<1>2. \A x \in 1 .. made' : closed'[x]
  <2> SUFFICES ASSUME NEW x \in 1 .. made PROVE closed'[x]
    BY DEF Dispose
  <2>1. x \in Queues /\ scope[x] \in Scopes
    OBVIOUS
  <2>2. closed[x] \/ \E s \in Scopes : queues[s] = x
    BY <2>1
  <2>3. closed'[x] = (closed[x] \/ \E s \in Scopes : queues[s] = x)
    BY <2>1 DEF Dispose
  <2> QED
    BY <2>2, <2>3
<1>3. OneQueuePerScope'
  BY <1>2 DEF Dispose, OneQueuePerScope
<1> QED
  BY <1>1, <1>2, <1>3

(* Every step of the channel keeps the invariant. *)
LEMMA StepIInv == IInv /\ [Next]_vars => IInv'
<1> SUFFICES ASSUME IInv, [Next]_vars PROVE IInv'
  OBVIOUS
<1>1. CASE OnMessage \/ OnBatchMessage
  BY <1>1, FrameIInv DEF OnMessage, OnBatchMessage
<1>2. ASSUME NEW d \in Deliveries,
             Dispatch(d) \/ Direct(d) \/ Lookup(d) \/ Push(d) \/ Run(d)
      PROVE  IInv'
  BY <1>2, FrameIInv DEF Dispatch, Direct, Lookup, Push, Run
<1>3. ASSUME NEW d \in Deliveries, Create(d) PROVE IInv'
  BY <1>3, CreateIInv
<1>4. ASSUME NEW x \in Queues, Fire(x) \/ WorkerStep(x) PROVE IInv'
  BY <1>4, FrameIInv DEF Fire, WorkerStep, Take, Finish, Exit
<1>5. ASSUME NEW who \in Queues \cup {App}, Close(who) PROVE IInv'
  BY <1>5, FrameIInv DEF Close
<1>6. CASE FlushAll \/ (\E x \in Queues : FlushNow(x)) \/ Flushes
  BY <1>6, FrameIInv DEF FlushAll, FlushNow, Flushes
<1>7. CASE Dispose
  BY <1>7, DisposeIInv
<1>8. CASE UNCHANGED vars
  BY <1>8, FrameIInv DEF vars
<1> QED
  BY <1>1, <1>2, <1>3, <1>4, <1>5, <1>6, <1>7, <1>8 DEF Next, Step, CloseStep

(* A conversation, or a card, never has two open queues, whatever looks for *)
(* its queue at the same moment.                                            *)
THEOREM OneQueue == Spec => []OneQueuePerScope
<1>1. IInv => OneQueuePerScope
  BY DEF IInv
<1> QED
  BY InitIInv, StepIInv, <1>1, PTL DEF Spec
-----------------------------------------------------------------------------
(* d waits in the queue x *)
Placed(d, x) ==
    \/ d \in Elements(buffer[x])
    \/ \E t \in Elements(tasks[x]) : d \in Elements(t.ds)

(* Who has a handler: a closure is chosen by what was registered when the   *)
(* message was dispatched, and a handler that is registered stays.          *)
Registered ==
    /\ onMessage \/ onBatch
    /\ \A d \in Deliveries : pc[d] # "new" =>
          /\ route[d] = "push" => onBatch
          /\ route[d] = "run" /\ Kind[d] # "action" => onMessage
    /\ \A d \in Deliveries :
          /\ pc[d] = "enter" => at[d] \in Queues
          /\ pc[d] = "bucket" => Kind[d] = "media" /\ ~queueOn

(* what waits in a queue was dispatched and can be handled *)
Served(x) ==
    /\ buffer[x] # <<>> => onBatch
    /\ \A t \in Elements(tasks[x]) : /\ t.kind = "message" => onMessage
                                     /\ t.kind = "batch" => onBatch
    /\ \A d \in Deliveries :
          Placed(d, x) \/ d \in Elements(running[x].ds) => pc[d] # "new"

HandlerInv == Registered /\ \A x \in Queues : Served(x)

Clean(x) == buffer[x] = <<>> /\ tasks[x] = <<>> /\ running[x] = Idle
InMap(x) == \E s \in Scopes : queues[s] = x

NoBarrier(x) ==
    /\ running[x].kind # "barrier"
    /\ \A t \in Elements(tasks[x]) : t.kind # "barrier"

(* the one barrier of x is its last task, or runs and there is nothing else *)
BarrierLast(x) ==
    /\ buffer[x] = <<>>
    /\ tasks[x] = <<>> => running[x].kind = "barrier"
    /\ tasks[x] # <<>> => running[x].kind # "barrier"
    /\ \A i \in DOMAIN tasks[x] : tasks[x][i].kind = "barrier" <=> i = Len(tasks[x])

(* whether x still waits for Close, its barrier is on its way, or it has    *)
(* come to rest                                                             *)
Settled(x) ==
    /\ phase \in {"idle", "flush"} => InMap(x) \/ Clean(x)
    /\ phase = "flushing" => x \in toFlush \/ x \in waitFor \/ Clean(x)
    /\ phase \in {"dispose", "done"} => Clean(x)
    /\ x \in waitFor => BarrierLast(x) /\ x \notin toFlush
    /\ x \notin waitFor => NoBarrier(x)
    /\ InMap(x) => ~closed[x]
    /\ x \in toFlush => InMap(x)
    /\ x > made => ~closed[x]

(* a delivery has left before Close, and waits or is handled *)
OnItsWay(d) ==
    /\ phase # "idle" => pc[d] \in {"new", "wait", "done"}
    /\ pc[d] = "enter" => InMap(at[d])
    /\ pc[d] \in {"wait", "done"} => d \in handled \cup dropped \/ \E x \in Queues : Placed(d, x)

Quiet ==
    /\ phase # "flushing" => toFlush = {} /\ waitFor = {}
    /\ \A x \in Queues : Settled(x) /\ Elements(running[x].ds) \subseteq handled \cup dropped
    /\ \A d \in Deliveries : OnItsWay(d)

CloseInv == PanicNeedsRace /\ (~raced => Quiet)
-----------------------------------------------------------------------------
(* A flush makes a batch, or several, of what waited, of all of it.         *)
LEMMA FlushedTasks ==
  ASSUME NEW x, NEW ds \in Seq(Deliveries)
  PROVE  /\ Flushed(x, ds) \in Seq(Tasks)
         /\ \A t \in Elements(Flushed(x, ds)) :
               t.kind = "batch" /\ ds # <<>> /\ Elements(t.ds) \subseteq Elements(ds)
         /\ \A d \in Elements(ds) : \E t \in Elements(Flushed(x, ds)) : d \in Elements(t.ds)
<1> DEFINE f == Flushed(x, ds)
<1>1. CASE ds = <<>>
  BY <1>1 DEF Flushed, Elements
<1>2. CASE ds # <<>> /\ serial[x]
  <2>1. f = [i \in DOMAIN ds |-> [kind |-> "batch", ds |-> <<ds[i]>>]]
    BY <1>2 DEF Flushed
  <2>2. \A i \in DOMAIN ds : f[i] \in Tasks /\ f[i].kind = "batch" /\ f[i].ds = <<ds[i]>>
    BY <2>1 DEF Tasks, Kinds
  <2>3. DOMAIN f = 1 .. Len(ds) /\ Len(ds) \in Nat /\ DOMAIN ds = 1 .. Len(ds)
    BY <2>1
  <2>4. f \in Seq(Tasks)
    BY <2>1, <2>2, <2>3
  <2>5. \A i \in DOMAIN ds : ds[i] \in Elements(f[i].ds)
    BY <2>2 DEF Elements
  <2> HIDE DEF f
  <2>6. \A t \in Elements(f) : t.kind = "batch" /\ Elements(t.ds) \subseteq Elements(ds)
    BY <2>2, <2>3 DEF Elements
  <2>7. \A d \in Elements(ds) : \E t \in Elements(f) : d \in Elements(t.ds)
    <3> SUFFICES ASSUME NEW i \in DOMAIN ds PROVE \E t \in Elements(f) : ds[i] \in Elements(t.ds)
      BY DEF Elements
    <3>1. f[i] \in Elements(f)
      BY <2>3 DEF Elements
    <3> QED
      BY <2>5, <3>1
  <2> QED
    BY <1>2, <2>4, <2>6, <2>7 DEF f
<1>3. CASE ds # <<>> /\ ~serial[x]
  <2>1. f = <<[kind |-> "batch", ds |-> ds]>>
    BY <1>3 DEF Flushed
  <2>2. f \in Seq(Tasks) /\ DOMAIN f = {1} /\ f[1].kind = "batch" /\ f[1].ds = ds
    BY <2>1 DEF Tasks, Kinds
  <2> QED
    BY <1>3, <2>2 DEF Elements
<1> QED
  BY <1>1, <1>2, <1>3

(* What is in a sequence of tasks that is put together. *)
LEMMA JoinedTwo ==
  ASSUME NEW u \in Seq(Tasks), NEW v \in Seq(Tasks)
  PROVE  u \o v \in Seq(Tasks) /\ Elements(u \o v) = Elements(u) \cup Elements(v)
<1> DEFINE j == u \o v
<1>1. /\ j \in Seq(Tasks) /\ Len(j) = Len(u) + Len(v)
      /\ \A i \in 1 .. Len(u) : j[i] = u[i]
      /\ \A i \in 1 .. Len(v) : j[Len(u) + i] = v[i]
      /\ DOMAIN u = 1 .. Len(u) /\ DOMAIN v = 1 .. Len(v) /\ DOMAIN j = 1 .. Len(j)
      /\ Len(u) \in Nat /\ Len(v) \in Nat
  OBVIOUS
<1> HIDE DEF j
<1>2. ASSUME NEW i \in DOMAIN j PROVE j[i] \in Elements(u) \cup Elements(v)
  <2>1. CASE i <= Len(u)
    BY <1>1, <2>1 DEF Elements
  <2>2. CASE i > Len(u)
    <3>1. i - Len(u) \in 1 .. Len(v) /\ Len(u) + (i - Len(u)) = i
      BY <1>1, <2>2
    <3> QED
      BY <1>1, <3>1 DEF Elements
  <2> QED
    BY <1>1, <2>1, <2>2
<1>3. \A i \in DOMAIN u : u[i] \in Elements(j)
  <2>1. \A i \in DOMAIN u : i \in DOMAIN j /\ j[i] = u[i]
    BY <1>1
  <2> QED
    BY <2>1 DEF Elements
<1>4. \A i \in DOMAIN v : v[i] \in Elements(j)
  <2>1. \A i \in DOMAIN v : Len(u) + i \in DOMAIN j /\ j[Len(u) + i] = v[i]
    BY <1>1
  <2> QED
    BY <2>1 DEF Elements
<1>5. Elements(j) = Elements(u) \cup Elements(v)
  BY <1>2, <1>3, <1>4 DEF Elements
<1> QED
  BY <1>1, <1>5 DEF j

LEMMA JoinedTasks ==
  ASSUME NEW t \in Seq(Tasks), NEW f \in Seq(Tasks), NEW m \in Seq(Tasks)
  PROVE  /\ (t \o f) \o m \in Seq(Tasks)
         /\ Elements((t \o f) \o m) = (Elements(t) \cup Elements(f)) \cup Elements(m)
<1>1. t \o f \in Seq(Tasks) /\ Elements(t \o f) = Elements(t) \cup Elements(f)
  BY JoinedTwo
<1> QED
  BY <1>1, JoinedTwo

(* What is in a sequence that got longer or shorter by one. *)
LEMMA AppendElements ==
  ASSUME NEW S, NEW q \in Seq(S), NEW e \in S
  PROVE  Append(q, e) \in Seq(S) /\ Elements(Append(q, e)) = Elements(q) \cup {e}
<1> DEFINE r == Append(q, e)
<1>1. /\ r \in Seq(S) /\ DOMAIN q = 1 .. Len(q) /\ DOMAIN r = DOMAIN q \cup {Len(q) + 1}
      /\ r[Len(q) + 1] = e /\ \A i \in DOMAIN q : r[i] = q[i]
  OBVIOUS
<1> HIDE DEF r
<1>2. Elements(r) = Elements(q) \cup {e}
  BY <1>1 DEF Elements
<1> QED
  BY <1>1, <1>2 DEF r

LEMMA HeadAndTail ==
  ASSUME NEW S, NEW q \in Seq(S), q # <<>>
  PROVE  /\ Head(q) \in S /\ Tail(q) \in Seq(S) /\ Head(q) = q[1]
         /\ Len(q) \in Nat \ {0} /\ DOMAIN q = 1 .. Len(q)
         /\ Len(Tail(q)) = Len(q) - 1 /\ DOMAIN Tail(q) = 1 .. Len(q) - 1
         /\ \A i \in 1 .. Len(q) - 1 : Tail(q)[i] = q[i + 1]
         /\ Elements(q) = {Head(q)} \cup Elements(Tail(q))
<1> DEFINE h == Head(q)
           r == Tail(q)
<1>1. /\ h \in S /\ r \in Seq(S) /\ h = q[1] /\ Len(q) \in Nat \ {0} /\ DOMAIN q = 1 .. Len(q)
      /\ Len(r) = Len(q) - 1 /\ DOMAIN r = 1 .. Len(q) - 1
      /\ \A i \in 1 .. Len(q) - 1 : r[i] = q[i + 1]
  OBVIOUS
<1> HIDE DEF h, r
<1>2. ASSUME NEW i \in DOMAIN q PROVE q[i] \in {h} \cup Elements(r)
  <2>1. CASE i = 1
    BY <1>1, <2>1
  <2>2. CASE i # 1
    <3>1. i - 1 \in DOMAIN r /\ r[i - 1] = q[i]
      BY <1>1, <2>2
    <3> QED
      BY <3>1 DEF Elements
  <2> QED
    BY <2>1, <2>2
<1>3. \A i \in DOMAIN r : r[i] \in Elements(q)
  <2>1. \A i \in DOMAIN r : i + 1 \in DOMAIN q /\ r[i] = q[i + 1]
    BY <1>1
  <2> QED
    BY <2>1 DEF Elements
<1>4. h \in Elements(q)
  BY <1>1 DEF Elements
<1>5. Elements(q) = {h} \cup Elements(r)
  BY <1>2, <1>3, <1>4 DEF Elements
<1> QED
  BY <1>1, <1>5 DEF h, r

(* The queue x after it was flushed and given more tasks. *)
LEMMA EnqueueFacts ==
  ASSUME TypeOK, NEW x \in Queues, NEW ds \in Seq(Deliveries), NEW more \in Seq(Tasks),
         Enqueue(x, ds, more)
  PROVE  /\ buffer' \in [Queues -> Seq(Deliveries)] /\ tasks' \in [Queues -> Seq(Tasks)]
         /\ panicked' \in BOOLEAN
         /\ buffer'[x] = <<>>
         /\ \A y \in Queues \ {x} : buffer'[y] = buffer[y] /\ tasks'[y] = tasks[y]
         /\ Elements(tasks'[x])
               = (Elements(tasks[x]) \cup Elements(Flushed(x, ds))) \cup Elements(more)
<1> DEFINE f == Flushed(x, ds)
           t == tasks[x]
           j == (t \o f) \o more
<1>1. t \in Seq(Tasks) /\ f \in Seq(Tasks)
  BY FlushedTasks DEF TypeOK
<1> HIDE DEF f, t
<1>2. j \in Seq(Tasks) /\ Elements(j) = (Elements(t) \cup Elements(f)) \cup Elements(more)
  BY <1>1, JoinedTasks
<1>3. tasks' = [tasks EXCEPT ![x] = j]
  BY DEF Enqueue, f, t
<1>4. panicked' \in BOOLEAN
  BY DEF Enqueue
<1>5. buffer' = [buffer EXCEPT ![x] = <<>>]
  BY DEF Enqueue
<1> HIDE DEF j
<1>6. buffer' \in [Queues -> Seq(Deliveries)] /\ tasks' \in [Queues -> Seq(Tasks)]
  BY <1>2, <1>3, <1>5 DEF TypeOK
<1>7. tasks'[x] = j /\ buffer'[x] = <<>>
  BY <1>3, <1>5 DEF TypeOK
<1>8. \A y \in Queues \ {x} : buffer'[y] = buffer[y] /\ tasks'[y] = tasks[y]
  BY <1>3, <1>5 DEF TypeOK
<1> QED
  BY <1>2, <1>4, <1>6, <1>7, <1>8 DEF f, t

(* The tasks that Run and FlushNow put behind what they flush. *)
LEMMA OneTask ==
  ASSUME NEW k \in Kinds, NEW ds \in Seq(Deliveries)
  PROVE  /\ <<[kind |-> k, ds |-> ds]>> \in Seq(Tasks)
         /\ \A t \in Elements(<<[kind |-> k, ds |-> ds]>>) : t.kind = k /\ t.ds = ds
         /\ \E t \in Elements(<<[kind |-> k, ds |-> ds]>>) : t.ds = ds
<1>1. PICK u : u = [kind |-> k, ds |-> ds]
  OBVIOUS
<1>2. u \in Tasks /\ u.kind = k /\ u.ds = ds
  BY <1>1 DEF Tasks
<1>3. <<u>> \in Seq(Tasks) /\ Elements(<<u>>) = {u}
  BY <1>2 DEF Elements
<1> QED
  BY <1>1, <1>2, <1>3

(* Types of the channel at the start. *)
LEMMA InitTypes == Init => TypeOK
<1> SUFFICES ASSUME Init PROVE TypeOK
  OBVIOUS
<1>1. Scopes # {}
  BY DeliveriesAssumption DEF Scopes
<1>2. scope \in [Queues -> Scopes]
  BY <1>1 DEF Init
<1>3. onMessage \in BOOLEAN /\ onBatch \in BOOLEAN /\ queueOn \in BOOLEAN
      /\ panicked \in BOOLEAN /\ raced \in BOOLEAN
  BY Zenon DEF Init
<1>4. /\ made = 0 /\ queues = [s \in Scopes |-> 0] /\ at = [d \in Deliveries |-> 0]
      /\ serial = [x \in Queues |-> FALSE] /\ closed = [x \in Queues |-> FALSE]
      /\ exited = [x \in Queues |-> FALSE] /\ running = [x \in Queues |-> Idle]
      /\ buffer = [x \in Queues |-> <<>>] /\ tasks = [x \in Queues |-> <<>>]
  BY DEF Init
<1>5. /\ pc = [d \in Deliveries |-> "new"] /\ route = [d \in Deliveries |-> "run"]
      /\ closer = 0 /\ round = 0 /\ phase = "idle" /\ toFlush = {} /\ waitFor = {} /\ closes = 0
      /\ handled = {} /\ dropped = {}
  BY DEF Init, Nobody
<1> QED
  BY <1>2, <1>3, <1>4, <1>5, QueuesAssumption DEF TypeOK, Nobody, App

(* A step keeps the types; that a delivery enters a queue that exists is    *)
(* part of Registered.                                                      *)
LEMMA TypesKept == TypeOK /\ Registered /\ [Next]_vars => TypeOK'
<1> SUFFICES ASSUME TypeOK, Registered, [Next]_vars PROVE TypeOK'
  OBVIOUS
<1> USE QueuesAssumption DEF Goto, config, mgr, worker, callers, closing, history
<1>0. /\ \A d \in Deliveries : Scope[d] \in Scopes
      /\ 1 .. made \subseteq Queues
  BY DEF Scopes, Queues, TypeOK
<1>1. CASE OnMessage \/ OnBatchMessage
  BY <1>1 DEF OnMessage, OnBatchMessage, TypeOK
<1>2. ASSUME NEW d \in Deliveries, Dispatch(d) PROVE TypeOK'
  <2>1. raced' \in BOOLEAN
    BY <1>2, Zenon DEF Dispatch
  <2> QED
    BY <1>2, <2>1 DEF Dispatch, TypeOK
<1>3. ASSUME NEW d \in Deliveries, Direct(d) PROVE TypeOK'
  <2>1. Elements(<<d>>) \subseteq Deliveries
    BY DEF Elements
  <2>2. handled' \subseteq Deliveries /\ dropped' \subseteq Deliveries
    BY <1>3, <2>1 DEF Direct, Invoke, TypeOK
  <2> QED
    BY <1>3, <2>2 DEF Direct, TypeOK
<1>4. ASSUME NEW d \in Deliveries, Lookup(d) PROVE TypeOK'
  <2>1. queues[Scope[d]] \in 0 .. made
    BY <1>0 DEF TypeOK
  <2> QED
    BY <1>4, <2>1 DEF Lookup, TypeOK
<1>5. ASSUME NEW d \in Deliveries, Create(d) PROVE TypeOK'
  <2>1. Scope[d] \in Scopes /\ queues[Scope[d]] \in 0 .. made
    BY <1>0 DEF TypeOK
  <2>2. CASE New(d)
    <3>1. made' = made + 1 /\ made' \in 0 .. MaxQueues /\ made' \in Queues
      BY <2>2 DEF New, TypeOK, Queues
    <3>2. queues' \in [Scopes -> 0 .. made'] /\ at' \in [Deliveries -> 0 .. made']
      BY <2>1, <2>2, <3>1 DEF New, TypeOK
    <3>3. serial' \in [Queues -> BOOLEAN] /\ scope' \in [Queues -> Scopes]
      BY <2>1, <2>2, <3>1 DEF New, TypeOK
    <3>4. toFlush \subseteq 1 .. made' /\ waitFor \subseteq 1 .. made'
      BY <3>1 DEF TypeOK
    <3> QED
      BY <1>5, <3>1, <3>2, <3>3, <3>4 DEF Create, TypeOK
  <2>3. CASE UNCHANGED mgr /\ at' = [at EXCEPT ![d] = queues[Scope[d]]]
    BY <1>5, <2>1, <2>3 DEF Create, TypeOK
  <2> QED
    BY <1>5, <2>2, <2>3 DEF Create
<1>6. ASSUME NEW d \in Deliveries, Push(d) PROVE TypeOK'
  <2> DEFINE x == at[d]
  <2>1. x \in Queues /\ Append(buffer[x], d) \in Seq(Deliveries) /\ <<>> \in Seq(Tasks)
    BY <1>6 DEF Push, Registered, TypeOK
  <2>2. /\ buffer' \in [Queues -> Seq(Deliveries)] /\ tasks' \in [Queues -> Seq(Tasks)]
        /\ panicked' \in BOOLEAN
    <3>1. CASE Enqueue(x, Append(buffer[x], d), <<>>)
      BY <2>1, <3>1, EnqueueFacts
    <3>2. CASE buffer' = [buffer EXCEPT ![x] = Append(@, d)] /\ UNCHANGED <<tasks, panicked>>
      BY <2>1, <3>2 DEF TypeOK
    <3> QED
      BY <1>6, <3>1, <3>2 DEF Push
  <2> QED
    BY <1>6, <2>2 DEF Push, TypeOK
<1>7. ASSUME NEW d \in Deliveries, Run(d) PROVE TypeOK'
  <2> DEFINE x == at[d]
             k == IF Kind[d] = "action" THEN "action" ELSE "message"
  <2>1. x \in Queues /\ buffer[x] \in Seq(Deliveries) /\ k \in Kinds /\ <<d>> \in Seq(Deliveries)
    BY <1>7 DEF Run, Registered, TypeOK, Kinds
  <2>2. <<[kind |-> k, ds |-> <<d>>]>> \in Seq(Tasks)
    BY <2>1, OneTask
  <2>3. Enqueue(x, buffer[x], <<[kind |-> k, ds |-> <<d>>]>>)
    BY <1>7 DEF Run
  <2>4. /\ buffer' \in [Queues -> Seq(Deliveries)] /\ tasks' \in [Queues -> Seq(Tasks)]
        /\ panicked' \in BOOLEAN
    BY <2>1, <2>2, <2>3, EnqueueFacts
  <2> QED
    BY <1>7, <2>4 DEF Run, TypeOK
<1>8. ASSUME NEW x \in Queues, Fire(x) PROVE TypeOK'
  <2>1. buffer[x] \in Seq(Deliveries) /\ <<>> \in Seq(Tasks)
    BY DEF TypeOK
  <2>2. /\ buffer' \in [Queues -> Seq(Deliveries)] /\ tasks' \in [Queues -> Seq(Tasks)]
        /\ panicked' \in BOOLEAN
    BY <1>8, <2>1, EnqueueFacts DEF Fire
  <2> QED
    BY <1>8, <2>2 DEF Fire, TypeOK
<1>9. ASSUME NEW x \in Queues, Take(x) PROVE TypeOK'
  <2>1. tasks[x] \in Seq(Tasks) /\ tasks[x] # <<>>
    BY <1>9 DEF Take, TypeOK
  <2>2. Head(tasks[x]) \in Tasks /\ Tail(tasks[x]) \in Seq(Tasks)
    BY <2>1
  <2>3. Elements(Head(tasks[x]).ds) \subseteq Deliveries
    BY <2>2 DEF Tasks, Elements
  <2>4. handled' \subseteq Deliveries /\ dropped' \subseteq Deliveries
    BY <1>9, <2>3 DEF Take, Invoke, TypeOK
  <2>5. running' \in [Queues -> Tasks \cup {Idle}] /\ tasks' \in [Queues -> Seq(Tasks)]
    BY <1>9, <2>2 DEF Take, TypeOK
  <2> QED
    BY <1>9, <2>4, <2>5 DEF Take, TypeOK
<1>10. ASSUME NEW x \in Queues, Finish(x) PROVE TypeOK'
  <2>1. running' \in [Queues -> Tasks \cup {Idle}] /\ waitFor' \subseteq 1 .. made
    BY <1>10 DEF Finish, TypeOK
  <2>2. pc' \in [Deliveries -> {"new", "lookup", "create", "enter", "wait", "direct", "bucket",
                                "done"}]
    BY <1>10 DEF Finish, TypeOK
  <2> QED
    BY <1>10, <2>1, <2>2 DEF Finish, TypeOK
<1>11. ASSUME NEW x \in Queues, Exit(x) PROVE TypeOK'
  BY <1>11 DEF Exit, TypeOK
<1>12. ASSUME NEW who \in Queues \cup {App}, Close(who) PROVE TypeOK'
  <2>1. raced' \in BOOLEAN
    BY <1>12, Zenon DEF Close
  <2>2. closer' \in Nobody .. App /\ closes' \in 0 .. MaxCloses /\ round' \in 0 .. 2
    BY <1>12 DEF Close, TypeOK, Queues, App, Nobody
  <2> QED
    BY <1>12, <2>1, <2>2 DEF Close, TypeOK
<1>13. CASE FlushAll
  <2>1. toFlush' \subseteq 1 .. made
    BY <1>13 DEF FlushAll, TypeOK
  <2> QED
    BY <1>13, <2>1 DEF FlushAll, TypeOK
<1>14. ASSUME NEW x \in Queues, FlushNow(x) PROVE TypeOK'
  <2>1. buffer[x] \in Seq(Deliveries) /\ <<[kind |-> "barrier", ds |-> <<>>]>> \in Seq(Tasks)
    <3>1. "barrier" \in Kinds /\ <<>> \in Seq(Deliveries)
      BY DEF Kinds
    <3> QED
      BY <3>1, OneTask DEF TypeOK
  <2>2. /\ buffer' \in [Queues -> Seq(Deliveries)] /\ tasks' \in [Queues -> Seq(Tasks)]
        /\ panicked' \in BOOLEAN
    BY <1>14, <2>1, EnqueueFacts DEF FlushNow
  <2>3. toFlush' \subseteq 1 .. made /\ waitFor' \subseteq 1 .. made
    BY <1>14 DEF FlushNow, TypeOK
  <2> QED
    BY <1>14, <2>2, <2>3 DEF FlushNow, TypeOK
<1>15. CASE Flushes
  BY <1>15 DEF Flushes, TypeOK
<1>16. CASE Dispose
  <2>1. closed' \in [Queues -> BOOLEAN] /\ queues' \in [Scopes -> 0 .. made]
    BY <1>16 DEF Dispose, TypeOK
  <2>2. buffer' \in [Queues -> Seq(Deliveries)] /\ panicked' \in BOOLEAN
    BY <1>16 DEF Dispose, TypeOK
  <2> QED
    BY <1>16, <2>1, <2>2 DEF Dispose, TypeOK
<1>17. CASE UNCHANGED vars
  BY <1>17 DEF vars, TypeOK
<1> QED
  BY <1>1, <1>2, <1>3, <1>4, <1>5, <1>6, <1>7, <1>8, <1>9, <1>10, <1>11, <1>12, <1>13, <1>14,
     <1>15, <1>16, <1>17 DEF Next, Step, WorkerStep, CloseStep
-----------------------------------------------------------------------------
(* A flush loses nothing and adds nothing. *)
LEMMA EnqueuePlaced ==
  ASSUME TypeOK, NEW x \in Queues, NEW ds \in Seq(Deliveries), NEW more \in Seq(Tasks),
         Enqueue(x, ds, more), Elements(buffer[x]) \subseteq Elements(ds)
  PROVE  \A d \in Deliveries, y \in Queues :
            Placed(d, y)' <=> \/ Placed(d, y)
                              \/ y = x /\ d \in Elements(ds)
                              \/ y = x /\ \E t \in Elements(more) : d \in Elements(t.ds)
<1>1. /\ buffer'[x] = <<>>
      /\ \A y \in Queues \ {x} : buffer'[y] = buffer[y] /\ tasks'[y] = tasks[y]
      /\ Elements(tasks'[x])
            = (Elements(tasks[x]) \cup Elements(Flushed(x, ds))) \cup Elements(more)
  BY EnqueueFacts
<1>2. /\ \A t \in Elements(Flushed(x, ds)) : Elements(t.ds) \subseteq Elements(ds)
      /\ \A d \in Elements(ds) : \E t \in Elements(Flushed(x, ds)) : d \in Elements(t.ds)
  BY FlushedTasks
<1>3. Elements(buffer'[x]) = {}
  BY <1>1 DEF Elements
<1> SUFFICES ASSUME NEW d \in Deliveries, NEW y \in Queues
             PROVE  Placed(d, y)' <=> \/ Placed(d, y)
                                      \/ y = x /\ d \in Elements(ds)
                                      \/ y = x /\ \E t \in Elements(more) : d \in Elements(t.ds)
  OBVIOUS
<1>4. CASE y = x
  <2>1. Placed(d, y)' <=> \E t \in Elements(tasks'[x]) : d \in Elements(t.ds)
    <3>1. d \notin Elements(buffer'[y])
      BY <1>3, <1>4
    <3>2. Placed(d, y)' <=> \/ d \in Elements(buffer'[y])
                            \/ \E t \in Elements(tasks'[y]) : d \in Elements(t.ds)
      BY DEF Placed, Elements
    <3> QED
      BY <1>4, <3>1, <3>2
  <2>2. (\E t \in Elements(tasks'[x]) : d \in Elements(t.ds))
          <=> \/ \E t \in Elements(tasks[x]) : d \in Elements(t.ds)
              \/ d \in Elements(ds)
              \/ \E t \in Elements(more) : d \in Elements(t.ds)
    BY <1>1, <1>2
  <2> QED
    BY <1>4, <2>1, <2>2 DEF Placed
<1>5. CASE y # x
  BY <1>1, <1>5 DEF Placed, Elements
<1> QED
  BY <1>4, <1>5

(* What a flush leaves in a queue can be handled. *)
LEMMA EnqueueServed ==
  ASSUME TypeOK, \A y \in Queues : Served(y), UNCHANGED <<onMessage, onBatch, running>>,
         NEW x \in Queues, NEW ds \in Seq(Deliveries), NEW more \in Seq(Tasks),
         Enqueue(x, ds, more), ds # <<>> => onBatch, Elements(buffer[x]) \subseteq Elements(ds),
         \A t \in Elements(more) : t.kind # "batch" /\ (t.kind = "message" => onMessage),
         \A d \in Elements(ds) : Placed(d, x) \/ pc'[d] # "new",
         \A t \in Elements(more) : \A d \in Elements(t.ds) : pc'[d] # "new",
         \A d \in Deliveries : pc'[d] = "new" => pc[d] = "new"
  PROVE  \A y \in Queues : Served(y)'
<1>1. /\ buffer'[x] = <<>>
      /\ \A y \in Queues \ {x} : buffer'[y] = buffer[y] /\ tasks'[y] = tasks[y]
      /\ Elements(tasks'[x])
            = (Elements(tasks[x]) \cup Elements(Flushed(x, ds))) \cup Elements(more)
  BY EnqueueFacts
<1>2. \A t \in Elements(Flushed(x, ds)) : t.kind = "batch" /\ ds # <<>>
  BY FlushedTasks
<1>3. ASSUME NEW t \in Elements(tasks'[x])
      PROVE  (t.kind = "message" => onMessage) /\ (t.kind = "batch" => onBatch)
  BY <1>1, <1>2, <1>3 DEF Served
<1>4. ASSUME NEW y \in Queues, NEW d \in Deliveries,
             Placed(d, y)' \/ d \in Elements(running[y].ds)
      PROVE  pc'[d] # "new"
  <2>1. Placed(d, y) \/ d \in Elements(running[y].ds) => pc[d] # "new"
    BY DEF Served
  <2>2. CASE Placed(d, y)'
    <3>1. Placed(d, y) \/ (y = x /\ d \in Elements(ds))
              \/ (y = x /\ \E t \in Elements(more) : d \in Elements(t.ds))
      BY <2>2, EnqueuePlaced
    <3> QED
      BY <2>1, <3>1
  <2> QED
    BY <1>4, <2>1, <2>2
<1>5. Served(x)'
  BY <1>1, <1>3, <1>4 DEF Served, Elements
<1>6. ASSUME NEW y \in Queues \ {x} PROVE Served(y)'
  <2>1. Elements(tasks[y])' = Elements(tasks[y])
    BY <1>1 DEF Elements
  <2> QED
    BY <1>1, <1>4, <2>1 DEF Served, Elements
<1> QED
  BY <1>5, <1>6

(* What has been dispatched does not become new. *)
LEMMA NotNewAgain ==
  TypeOK /\ [Next]_vars => \A d \in Deliveries : pc'[d] = "new" => pc[d] = "new"
<1> SUFFICES ASSUME TypeOK, [Next]_vars, NEW e \in Deliveries PROVE pc'[e] = "new" => pc[e] = "new"
  OBVIOUS
<1> USE DEF Goto, callers
<1>1. CASE UNCHANGED pc
  BY <1>1
<1>2. ASSUME NEW d \in Deliveries, Dispatch(d) \/ Direct(d) \/ Lookup(d) \/ Create(d)
      PROVE  pc'[e] = "new" => pc[e] = "new"
  BY <1>2 DEF Dispatch, Direct, Lookup, Create, TypeOK
<1>3. ASSUME NEW d \in Deliveries, Push(d) \/ Run(d) PROVE pc'[e] = "new" => pc[e] = "new"
  BY <1>3 DEF Push, Run, TypeOK
<1>4. ASSUME NEW x \in Queues, Finish(x) PROVE pc'[e] = "new" => pc[e] = "new"
  BY <1>4 DEF Finish
<1>5. ASSUME NEW x \in Queues, Fire(x) \/ Take(x) \/ Exit(x) \/ FlushNow(x) PROVE UNCHANGED pc
  BY <1>5 DEF Fire, Take, Exit, FlushNow
<1>6. CASE OnMessage \/ OnBatchMessage \/ (\E who \in Queues \cup {App} : Close(who)) \/ FlushAll
             \/ Flushes \/ Dispose \/ UNCHANGED vars
  BY <1>1, <1>6 DEF OnMessage, OnBatchMessage, Close, FlushAll, Flushes, Dispose, vars
<1> QED
  BY <1>1, <1>2, <1>3, <1>4, <1>5, <1>6 DEF Next, Step, WorkerStep, CloseStep

(* Nothing is dispatched to a closure without a handler. *)
LEMMA HandlersKept == TypeOK /\ HandlerInv /\ [Next]_vars => HandlerInv'
<1> SUFFICES ASSUME TypeOK, HandlerInv, [Next]_vars PROVE HandlerInv'
  OBVIOUS
<1> USE DEF HandlerInv, config, mgr, worker, callers, closing, history
<1>a. \A d \in Deliveries : pc'[d] = "new" => pc[d] = "new"
  BY NotNewAgain
<1>0. ASSUME UNCHANGED <<buffer, tasks, running>>, onMessage => onMessage', onBatch => onBatch'
      PROVE  \A x \in Queues : Served(x)'
  BY <1>a, <1>0 DEF Served, Elements, Placed
<1>1. CASE OnMessage \/ OnBatchMessage
  <2>1. Registered'
    BY <1>1 DEF OnMessage, OnBatchMessage, Registered
  <2>2. \A x \in Queues : Served(x)'
    BY <1>0, <1>1 DEF OnMessage, OnBatchMessage
  <2> QED
    BY <2>1, <2>2
<1>2. ASSUME NEW d \in Deliveries, Dispatch(d) PROVE HandlerInv'
  <2>1. Registered'
    <3>1. /\ route' = [route EXCEPT ![d] = IF onBatch /\ Kind[d] # "action" THEN "push" ELSE "run"]
          /\ pc' = [pc EXCEPT ![d] = IF queueOn THEN "lookup"
                                     ELSE IF Kind[d] = "media" THEN "bucket" ELSE "direct"]
          /\ UNCHANGED <<onMessage, onBatch, queueOn, at>>
      BY <1>2 DEF Dispatch, Goto, batchMode
    <3>2. \A e \in Deliveries \ {d} : pc'[e] = pc[e] /\ route'[e] = route[e]
      BY <3>1 DEF TypeOK
    <3>3. /\ route'[d] = (IF onBatch /\ Kind[d] # "action" THEN "push" ELSE "run")
          /\ pc'[d] \in {"lookup", "bucket", "direct"}
          /\ pc'[d] = "bucket" => Kind[d] = "media" /\ ~queueOn
      BY <3>1 DEF TypeOK
    <3> QED
      BY <3>1, <3>2, <3>3 DEF Registered
  <2>2. \A x \in Queues : Served(x)'
    BY <1>0, <1>2 DEF Dispatch
  <2> QED
    BY <2>1, <2>2
<1>3. ASSUME NEW d \in Deliveries, Direct(d) PROVE HandlerInv'
  <2>1. Registered'
    BY <1>3 DEF Direct, Goto, Registered, TypeOK
  <2>2. \A x \in Queues : Served(x)'
    BY <1>0, <1>3 DEF Direct
  <2> QED
    BY <2>1, <2>2
<1>4. ASSUME NEW d \in Deliveries, Lookup(d) PROVE HandlerInv'
  <2>1. Registered'
    <3>1. queues[Scope[d]] \in 0 .. made /\ (queues[Scope[d]] # 0 => queues[Scope[d]] \in Queues)
      BY QueuesAssumption DEF TypeOK, Scopes, Queues
    <3> QED
      BY <1>4, <3>1 DEF Lookup, Goto, Registered, TypeOK
  <2>2. \A x \in Queues : Served(x)'
    BY <1>0, <1>4 DEF Lookup
  <2> QED
    BY <2>1, <2>2
<1>5. ASSUME NEW d \in Deliveries, Create(d) PROVE HandlerInv'
  <2>1. Registered'
    <3>1. at' = [at EXCEPT ![d] = at'[d]] /\ at'[d] \in Queues
      <4>1. CASE New(d)
        BY <4>1, QueuesAssumption DEF New, TypeOK, Queues
      <4>2. CASE queues[Scope[d]] # 0 /\ at' = [at EXCEPT ![d] = queues[Scope[d]]]
        <5>1. queues[Scope[d]] \in 0 .. made /\ made \in 0 .. MaxQueues
          BY DEF TypeOK, Scopes
        <5>2. queues[Scope[d]] \in Queues
          BY <4>2, <5>1, QueuesAssumption DEF Queues
        <5>3. at'[d] = queues[Scope[d]]
          BY <4>2 DEF TypeOK
        <5> QED
          BY <4>2, <5>2, <5>3
      <4> QED
        BY <1>5, <4>1, <4>2 DEF Create
    <3> QED
      BY <1>5, <3>1 DEF Create, Goto, Registered, TypeOK
  <2>2. \A x \in Queues : Served(x)'
    BY <1>0, <1>5 DEF Create
  <2> QED
    BY <2>1, <2>2
<1>6. ASSUME NEW d \in Deliveries, Push(d) PROVE HandlerInv'
  <2> DEFINE x == at[d]
             ds == Append(buffer[x], d)
  <2>1. Registered'
    BY <1>6 DEF Push, Goto, Registered, TypeOK
  <2>2. /\ x \in Queues /\ buffer[x] \in Seq(Deliveries) /\ onBatch /\ pc'[d] # "new"
        /\ UNCHANGED <<onMessage, onBatch, running>>
    BY <1>6 DEF Push, Goto, Registered, TypeOK
  <2> HIDE DEF x
  <2>3. ds \in Seq(Deliveries) /\ Elements(ds) = Elements(buffer[x]) \cup {d}
    BY <2>2, AppendElements
  <2>4. <<>> \in Seq(Tasks) /\ Elements(<<>>) = {}
    BY DEF Elements
  <2>5. \A e \in Elements(ds) : Placed(e, x) \/ pc'[e] # "new"
    BY <2>2, <2>3 DEF Placed
  <2>6. CASE Enqueue(x, ds, <<>>)
    <3> HIDE DEF ds
    <3>1. \A y \in Queues : Served(y)'
      BY <1>a, <2>2, <2>3, <2>4, <2>5, <2>6, EnqueueServed
    <3> QED
      BY <2>1, <3>1
  <2>7. CASE buffer' = [buffer EXCEPT ![x] = ds] /\ UNCHANGED tasks
    <3>1. \A y \in Queues : Elements(tasks[y])' = Elements(tasks[y])
      BY <2>7 DEF Elements
    <3>2. \A y \in Queues : Elements(buffer'[y]) \subseteq Elements(buffer[y]) \cup {d}
      <4> HIDE DEF ds
      <4> QED
        BY <2>3, <2>7 DEF TypeOK
    <3>3. ASSUME NEW y \in Queues, NEW e \in Deliveries, Placed(e, y)' PROVE Placed(e, y) \/ e = d
      BY <2>7, <3>2, <3>3 DEF Placed, Elements
    <3>4. ASSUME NEW y \in Queues PROVE Served(y)'
      BY <1>a, <2>2, <3>1, <3>3 DEF Served
    <3> QED
      BY <2>1, <3>4
  <2> QED
    BY <1>6, <2>6, <2>7 DEF Push, x
<1>7. ASSUME NEW d \in Deliveries, Run(d) PROVE HandlerInv'
  <2> DEFINE x == at[d]
             k == IF Kind[d] = "action" THEN "action" ELSE "message"
             m == <<[kind |-> k, ds |-> <<d>>]>>
  <2>1. Registered'
    BY <1>7 DEF Run, Goto, Registered, TypeOK
  <2>2. /\ x \in Queues /\ buffer[x] \in Seq(Deliveries) /\ k \in Kinds /\ <<d>> \in Seq(Deliveries)
        /\ k = "message" => onMessage
        /\ k # "batch" /\ UNCHANGED <<onMessage, onBatch, running>> /\ pc'[d] # "new"
    BY <1>7 DEF Run, Goto, Registered, TypeOK, Kinds
  <2>3. Enqueue(x, buffer[x], m)
    BY <1>7 DEF Run
  <2>4. Elements(<<d>>) = {d}
    BY DEF Elements
  <2> HIDE DEF k, x
  <2>5. m \in Seq(Tasks) /\ \A t \in Elements(m) : t.kind = k /\ t.ds = <<d>>
    BY <2>2, OneTask
  <2>6. \A t \in Elements(m) : \A e \in Elements(t.ds) : pc'[e] # "new"
    BY <2>2, <2>4, <2>5
  <2>7. buffer[x] # <<>> => onBatch
    BY <2>2 DEF Served
  <2>8. \A e \in Elements(buffer[x]) : Placed(e, x)
    BY DEF Placed
  <2> HIDE DEF m
  <2>9. \A y \in Queues : Served(y)'
    BY <1>a, <2>2, <2>3, <2>5, <2>6, <2>7, <2>8, EnqueueServed
  <2> QED
    BY <2>1, <2>9
<1>8. ASSUME NEW x \in Queues, Fire(x) PROVE HandlerInv'
  <2>1. Registered'
    BY <1>8 DEF Fire, Registered
  <2>2. /\ buffer[x] \in Seq(Deliveries) /\ <<>> \in Seq(Tasks) /\ Elements(<<>>) = {}
        /\ UNCHANGED <<onMessage, onBatch, running>> /\ Enqueue(x, buffer[x], <<>>)
        /\ buffer[x] # <<>> => onBatch
    BY <1>8 DEF Fire, TypeOK, Elements, Served
  <2>3. \A e \in Elements(buffer[x]) : Placed(e, x)
    BY DEF Placed
  <2>4. \A y \in Queues : Served(y)'
    BY <1>a, <2>2, <2>3, EnqueueServed
  <2> QED
    BY <2>1, <2>4
<1>9. ASSUME NEW x \in Queues, Take(x) PROVE HandlerInv'
  <2>1. Registered'
    BY <1>9 DEF Take, Registered
  <2>2. PICK h \in Tasks, r \in Seq(Tasks) :
           /\ h = Head(tasks[x]) /\ r = Tail(tasks[x])
           /\ h \in Elements(tasks[x]) /\ Elements(r) \subseteq Elements(tasks[x])
    <3>1. tasks[x] \in Seq(Tasks) /\ tasks[x] # <<>>
      BY <1>9 DEF Take, TypeOK
    <3>2. /\ Head(tasks[x]) \in Tasks /\ Tail(tasks[x]) \in Seq(Tasks)
          /\ Elements(tasks[x]) = {Head(tasks[x])} \cup Elements(Tail(tasks[x]))
      BY <3>1, HeadAndTail
    <3> QED
      BY <3>2
  <2>3. /\ running' = [running EXCEPT ![x] = h] /\ tasks' = [tasks EXCEPT ![x] = r]
        /\ UNCHANGED <<buffer, onMessage, onBatch, pc>>
    BY <1>9, <2>2 DEF Take
  <2>4. ASSUME NEW y \in Queues PROVE Served(y)'
    <3>1. Elements(tasks'[y]) \subseteq Elements(tasks[y])
      BY <2>2, <2>3 DEF TypeOK
    <3>2. \A d \in Deliveries : Placed(d, y)' => Placed(d, y)
      BY <2>3, <3>1 DEF Placed, Elements
    <3>3. \A d \in Deliveries : d \in Elements(running'[y].ds) =>
             Placed(d, y) \/ d \in Elements(running[y].ds)
      BY <2>2, <2>3 DEF TypeOK, Placed
    <3> QED
      BY <2>3, <3>1, <3>2, <3>3 DEF Served, Elements
  <2> QED
    BY <2>1, <2>4
<1>10. ASSUME NEW x \in Queues, Finish(x) PROVE HandlerInv'
  <2>1. \A d \in Deliveries : pc'[d] = pc[d] \/ (pc'[d] = "done" /\ d \in Elements(running[x].ds))
    BY <1>10 DEF Finish
  <2>2. \A d \in Deliveries : d \in Elements(running[x].ds) => pc[d] # "new"
    BY DEF Served
  <2>3. Registered'
    BY <1>10, <2>1, <2>2 DEF Finish, Registered
  <2>4. Elements(Idle.ds) = {}
    BY DEF Idle, Elements
  <2>5. \A y \in Queues, d \in Deliveries :
           d \in Elements(running'[y].ds) => d \in Elements(running[y].ds)
    BY <1>10, <2>4 DEF Finish, TypeOK
  <2>6. \A y \in Queues : Served(y)'
    BY <1>a, <1>10, <2>5 DEF Finish, Served, Placed, Elements
  <2> QED
    BY <2>3, <2>6
<1>11. ASSUME NEW x \in Queues, Exit(x) PROVE HandlerInv'
  BY <1>0, <1>11 DEF Exit, Registered
<1>12. ASSUME NEW who \in Queues \cup {App}, Close(who) PROVE HandlerInv'
  BY <1>0, <1>12 DEF Close, Registered
<1>13. CASE FlushAll \/ Flushes
  BY <1>0, <1>13 DEF FlushAll, Flushes, Registered
<1>14. ASSUME NEW x \in Queues, FlushNow(x) PROVE HandlerInv'
  <2> DEFINE m == <<[kind |-> "barrier", ds |-> <<>>]>>
  <2>1. Registered'
    BY <1>14 DEF FlushNow, Registered
  <2>2. "barrier" \in Kinds /\ <<>> \in Seq(Deliveries) /\ Elements(<<>>) = {}
    BY DEF Kinds, Elements
  <2>3. m \in Seq(Tasks) /\ \A t \in Elements(m) : t.kind = "barrier" /\ t.ds = <<>>
    BY <2>2, OneTask
  <2>4. /\ buffer[x] \in Seq(Deliveries) /\ UNCHANGED <<onMessage, onBatch, running>>
        /\ Enqueue(x, buffer[x], m) /\ (buffer[x] # <<>> => onBatch)
    BY <1>14 DEF FlushNow, TypeOK, Served
  <2>5. \A e \in Elements(buffer[x]) : Placed(e, x)
    BY DEF Placed
  <2>6. \A t \in Elements(m) : \A e \in Elements(t.ds) : pc'[e] # "new"
    BY <2>2, <2>3
  <2> HIDE DEF m
  <2>7. \A y \in Queues : Served(y)'
    BY <1>a, <2>3, <2>4, <2>5, <2>6, EnqueueServed
  <2> QED
    BY <2>1, <2>7
<1>15. CASE Dispose
  <2>1. Registered'
    BY <1>15 DEF Dispose, Registered
  <2>2. \A y \in Queues : buffer'[y] = <<>> \/ buffer'[y] = buffer[y]
    BY <1>15 DEF Dispose
  <2>3. ASSUME NEW y \in Queues PROVE Served(y)'
    <3>1. Elements(buffer'[y]) \subseteq Elements(buffer[y])
      BY <2>2 DEF Elements
    <3>2. \A d \in Deliveries : Placed(d, y)' => Placed(d, y)
      BY <1>15, <3>1 DEF Dispose, Placed, Elements
    <3> QED
      BY <1>15, <2>2, <3>2 DEF Dispose, Served, Elements
  <2> QED
    BY <2>1, <2>3
<1>16. CASE UNCHANGED vars
  BY <1>0, <1>16 DEF vars, Registered
<1> QED
  BY <1>1, <1>2, <1>3, <1>4, <1>5, <1>6, <1>7, <1>8, <1>9, <1>10, <1>11, <1>12, <1>13, <1>14,
     <1>15, <1>16 DEF Next, Step, WorkerStep, CloseStep

(* Only a bucket leads to a closure whose handler may be missing. *)
LEMMA DroppedKept ==
  TypeOK /\ HandlerInv /\ DroppedOnlyFromBucket /\ [Next]_vars => DroppedOnlyFromBucket'
<1> SUFFICES ASSUME TypeOK, HandlerInv, DroppedOnlyFromBucket, [Next]_vars
             PROVE  DroppedOnlyFromBucket'
  OBVIOUS
<1> USE DEF config, history
<1>1. CASE UNCHANGED <<queueOn, dropped>>
  BY <1>1 DEF DroppedOnlyFromBucket
<1>2. ASSUME NEW d \in Deliveries, Direct(d) PROVE DroppedOnlyFromBucket'
  <2>1. Elements(<<d>>) = {d} /\ queueOn' = queueOn
    BY <1>2 DEF Elements, Direct
  <2>2. CASE pc[d] = "bucket"
    <3>1. Kind[d] = "media" /\ ~queueOn
      BY <2>2 DEF HandlerInv, Registered
    <3>2. dropped' \subseteq dropped \cup {d}
      BY <1>2, <2>1 DEF Direct, Invoke
    <3> QED
      BY <2>1, <3>1, <3>2 DEF DroppedOnlyFromBucket
  <2>3. CASE pc[d] = "direct"
    <3>1. /\ route[d] = "push" => onBatch
          /\ route[d] = "run" /\ Kind[d] # "action" => onMessage
      BY <2>3 DEF HandlerInv, Registered
    <3>2. CASE Kind[d] = "action"
      <4>1. Invoke("action", <<d>>)
        BY <1>2, <3>2 DEF Direct
      <4>2. dropped' = dropped
        BY <4>1 DEF Invoke
      <4> QED
        BY <1>1, <2>1, <4>2
    <3>3. CASE Kind[d] # "action" /\ route[d] = "push"
      BY <1>1, <1>2, <2>1, <2>3, <3>1, <3>3 DEF Direct, Invoke
    <3>4. CASE Kind[d] # "action" /\ route[d] = "run"
      BY <1>1, <1>2, <2>1, <2>3, <3>1, <3>4 DEF Direct, Invoke
    <3> QED
      BY <3>2, <3>3, <3>4 DEF TypeOK
  <2> QED
    BY <1>2, <2>2, <2>3 DEF Direct
<1>3. ASSUME NEW x \in Queues, Take(x) PROVE DroppedOnlyFromBucket'
  <2>1. tasks[x] \in Seq(Tasks) /\ tasks[x] # <<>>
    BY <1>3 DEF Take, TypeOK
  <2>2. Head(tasks[x]) \in Tasks /\ Elements(tasks[x]) = {Head(tasks[x])} \cup Elements(Tail(tasks[x]))
    BY <2>1, HeadAndTail
  <2>3. PICK h \in Tasks : h = Head(tasks[x]) /\ h \in Elements(tasks[x])
    BY <2>2
  <2>4. (h.kind = "message" => onMessage) /\ (h.kind = "batch" => onBatch)
    BY <2>3 DEF HandlerInv, Served
  <2>5. Invoke(h.kind, h.ds) /\ queueOn' = queueOn
    BY <1>3, <2>3 DEF Take
  <2>6. dropped' = dropped
    BY <2>4, <2>5 DEF Invoke
  <2> QED
    BY <1>1, <2>5, <2>6
<1>4. ASSUME NEW d \in Deliveries, Dispatch(d) \/ Lookup(d) \/ Create(d) \/ Push(d) \/ Run(d)
      PROVE  DroppedOnlyFromBucket'
  BY <1>1, <1>4 DEF Dispatch, Lookup, Create, Push, Run
<1>5. ASSUME NEW x \in Queues, Fire(x) \/ Finish(x) \/ Exit(x) \/ FlushNow(x)
      PROVE  DroppedOnlyFromBucket'
  BY <1>1, <1>5 DEF Fire, Finish, Exit, FlushNow
<1>6. CASE OnMessage \/ OnBatchMessage \/ (\E who \in Queues \cup {App} : Close(who)) \/ FlushAll
             \/ Flushes \/ Dispose \/ UNCHANGED vars
  BY <1>1, <1>6 DEF OnMessage, OnBatchMessage, Close, FlushAll, Flushes, Dispose, vars
<1> QED
  BY <1>2, <1>3, <1>4, <1>5, <1>6 DEF Next, Step, WorkerStep, CloseStep

(* The books of the manager and of the handlers, together. *)
Books == TypeOK /\ HandlerInv /\ DroppedOnlyFromBucket

LEMMA InitBooks == Init => Books
<1> SUFFICES ASSUME Init PROVE Books
  OBVIOUS
<1>1. TypeOK
  BY InitTypes
<1>2. onMessage \/ onBatch
  BY Zenon DEF Init
<1>3. /\ \A d \in Deliveries : pc[d] = "new"
      /\ \A x \in Queues : buffer[x] = <<>> /\ tasks[x] = <<>> /\ running[x] = Idle
      /\ dropped = {} /\ made = 0
  BY DEF Init
<1>4. Elements(<<>>) = {} /\ Idle.ds = <<>>
  BY DEF Elements, Idle
<1>5. HandlerInv
  BY <1>2, <1>3, <1>4 DEF HandlerInv, Registered, Served, Placed
<1> QED
  BY <1>1, <1>3, <1>5 DEF Books, DroppedOnlyFromBucket

LEMMA BooksKept == Books /\ [Next]_vars => Books'
<1> SUFFICES ASSUME Books, [Next]_vars PROVE Books'
  OBVIOUS
<1> USE DEF Books
<1>1. TypeOK'
  BY TypesKept DEF HandlerInv
<1>2. HandlerInv'
  BY HandlersKept
<1>3. DroppedOnlyFromBucket'
  BY DroppedKept
<1> QED
  BY <1>1, <1>2, <1>3

(* A message vanishes in a closure without a handler only as media from a   *)
(* bucket, however registrations and dispatches interleave.                 *)
THEOREM NothingDropped == Spec => []DroppedOnlyFromBucket
<1>1. Books => DroppedOnlyFromBucket
  BY DEF Books
<1> QED
  BY InitBooks, BooksKept, <1>1, PTL DEF Spec

-----------------------------------------------------------------------------
(* A queue nobody touches. *)
LEMMA SameQueue ==
  ASSUME NEW y \in Queues,
         buffer'[y] = buffer[y], tasks'[y] = tasks[y], running'[y] = running[y]
  PROVE  /\ Clean(y)' <=> Clean(y)
         /\ NoBarrier(y)' <=> NoBarrier(y)
         /\ BarrierLast(y)' <=> BarrierLast(y)
         /\ \A d : Placed(d, y)' <=> Placed(d, y)
<1>1. Elements(tasks[y])' = Elements(tasks[y]) /\ Elements(buffer[y])' = Elements(buffer[y])
  BY DEF Elements
<1> QED
  BY <1>1 DEF Clean, NoBarrier, BarrierLast, Placed, Elements

LEMMA SameSettled ==
  ASSUME NEW y \in Queues, Settled(y),
         buffer'[y] = buffer[y], tasks'[y] = tasks[y], running'[y] = running[y],
         UNCHANGED <<phase, toFlush, waitFor, queues, closed, made>>
  PROVE  Settled(y)'
<1>1. InMap(y)' <=> InMap(y)
  BY DEF InMap
<1> QED
  BY <1>1, SameQueue DEF Settled

(* A queue that Close has not come to, or will come to, takes what it is    *)
(* given and is not closed.                                                 *)
LEMMA EnqueueQuiet ==
  ASSUME TypeOK, \A y \in Queues : Settled(y),
         NEW x \in Queues, NEW ds \in Seq(Deliveries), NEW more \in Seq(Tasks),
         Enqueue(x, ds, more), \A t \in Elements(more) : t.kind # "barrier",
         InMap(x), x \notin waitFor, phase \in {"idle", "flush"} \/ (phase = "flushing" /\ x \in toFlush),
         UNCHANGED <<phase, toFlush, waitFor, queues, closed, made, running>>
  PROVE  ~panicked' /\ \A y \in Queues : Settled(y)'
<1>1. ~panicked'
  BY DEF Enqueue, Settled
<1>2. /\ buffer'[x] = <<>>
      /\ \A y \in Queues \ {x} : buffer'[y] = buffer[y] /\ tasks'[y] = tasks[y]
      /\ Elements(tasks'[x])
            = (Elements(tasks[x]) \cup Elements(Flushed(x, ds))) \cup Elements(more)
  BY EnqueueFacts
<1>3. \A t \in Elements(Flushed(x, ds)) : t.kind = "batch"
  BY FlushedTasks
<1>4. NoBarrier(x)'
  <2>1. NoBarrier(x)
    BY DEF Settled
  <2>2. \A t \in Elements(tasks'[x]) : t.kind # "barrier"
    BY <1>2, <1>3, <2>1 DEF NoBarrier
  <2> QED
    BY <2>1, <2>2 DEF NoBarrier, Elements
<1>5. Settled(x)'
  <2>1. InMap(x)'
    BY DEF InMap
  <2> QED
    BY <1>4, <2>1 DEF Settled
<1>6. \A y \in Queues \ {x} : Settled(y)'
  BY <1>2, SameSettled
<1> QED
  BY <1>1, <1>5, <1>6

(* no task of q is a barrier; the last one is, and no other                 *)
NoneIsBarrier(q) == \A u \in Elements(q) : u.kind # "barrier"
LastIsBarrier(q) == q # <<>> /\ \A i \in DOMAIN q : q[i].kind = "barrier" <=> i = Len(q)

(* The barrier of FlushNow is behind everything. *)
LEMMA BarrierAtEnd ==
  ASSUME NEW t \in Seq(Tasks), NEW f \in Seq(Tasks), NEW b \in Tasks, b.kind = "barrier",
         NoneIsBarrier(t), NoneIsBarrier(f)
  PROVE  LastIsBarrier((t \o f) \o <<b>>)
<1>0. PICK j : j = (t \o f) \o <<b>>
  OBVIOUS
<1> DEFINE g == t \o f
<1>1. g \in Seq(Tasks) /\ Elements(g) = Elements(t) \cup Elements(f)
  BY JoinedTwo
<1>a. j = g \o <<b>>
  BY <1>0
<1> HIDE DEF g
<1>2. /\ Len(g) \in Nat /\ DOMAIN g = 1 .. Len(g) /\ Len(j) = Len(g) + 1 /\ DOMAIN j = 1 .. Len(g) + 1
      /\ j[Len(g) + 1] = b /\ \A i \in 1 .. Len(g) : j[i] = g[i]
  BY <1>1, <1>a
<1>3. j # <<>>
  BY <1>2
<1>4. \A i \in 1 .. Len(g) : g[i].kind # "barrier"
  BY <1>1, <1>2 DEF NoneIsBarrier, Elements
<1>5. \A i \in DOMAIN j : j[i].kind = "barrier" <=> i = Len(j)
  BY <1>2, <1>4
<1> QED
  BY <1>0, <1>3, <1>5 DEF LastIsBarrier

(* A race is not forgotten. *)
LEMMA RaceStays == [Next]_vars /\ raced => raced'
<1> SUFFICES ASSUME [Next]_vars, raced PROVE raced'
  OBVIOUS
<1> USE DEF history
<1>1. ASSUME NEW d \in Deliveries, Dispatch(d) \/ Step(d) PROVE raced'
  BY <1>1 DEF Dispatch, Step, Direct, Lookup, Create, Push, Run
<1>2. ASSUME NEW x \in Queues, Fire(x) \/ WorkerStep(x) PROVE raced'
  BY <1>2 DEF Fire, WorkerStep, Take, Finish, Exit
<1>3. ASSUME NEW who \in Queues \cup {App}, Close(who) PROVE raced'
  BY <1>3 DEF Close
<1>4. CASE CloseStep
  BY <1>4 DEF CloseStep, FlushAll, FlushNow, Flushes, Dispose
<1>5. CASE OnMessage \/ OnBatchMessage \/ UNCHANGED vars
  BY <1>5 DEF OnMessage, OnBatchMessage, vars
<1> QED
  BY <1>1, <1>2, <1>3, <1>4, <1>5 DEF Next

(* A step that concerns no queue, neither its tasks nor its place. *)
LEMMA QueuesAlone ==
  ASSUME Quiet, UNCHANGED <<phase, toFlush, waitFor, queues, closed, made, buffer, tasks, running>>,
         handled \cup dropped \subseteq handled' \cup dropped'
  PROVE  /\ phase' # "flushing" => toFlush' = {} /\ waitFor' = {}
         /\ \A x \in Queues :
               Settled(x)' /\ Elements(running'[x].ds) \subseteq handled' \cup dropped'
         /\ \A x : InMap(x)' <=> InMap(x)
         /\ \A d \in Deliveries, x \in Queues : Placed(d, x)' <=> Placed(d, x)
<1>1. \A x \in Queues : Settled(x)'
  BY SameSettled DEF Quiet
<1>2. \A d \in Deliveries, x \in Queues : Placed(d, x)' <=> Placed(d, x)
  BY SameQueue
<1> QED
  BY <1>1, <1>2 DEF Quiet, InMap, Elements

(* While a delivery is on its way to a queue, Close has not begun. *)
LEMMA EnterQuiet ==
  ASSUME TypeOK, HandlerInv, Quiet, ~panicked, ~raced', NEW d \in Deliveries,
         Dispatch(d) \/ Direct(d) \/ Lookup(d) \/ Create(d)
  PROVE  Quiet' /\ ~panicked'
<1> USE DEF Goto, config, mgr, worker, callers, closing, history
<1>0. ~panicked'
  BY DEF Dispatch, Direct, Lookup, Create
<1>1. phase = "idle" /\ phase' = "idle"
  <2>1. CASE Dispatch(d)
    BY <2>1 DEF Dispatch
  <2>2. CASE Direct(d) \/ Lookup(d) \/ Create(d)
    BY <2>2 DEF Direct, Lookup, Create, Quiet, OnItsWay
  <2> QED
    BY <2>1, <2>2
<1>2. CASE Dispatch(d)
  <2>1. /\ UNCHANGED <<phase, toFlush, waitFor, queues, closed, made, buffer, tasks, running, at>>
        /\ UNCHANGED <<handled, dropped>>
        /\ pc'[d] \in {"lookup", "bucket", "direct"}
        /\ \A e \in Deliveries \ {d} : pc'[e] = pc[e]
    BY <1>2 DEF Dispatch, TypeOK
  <2>2. \A e \in Deliveries : OnItsWay(e)'
    BY <1>1, <2>1, QueuesAlone DEF Quiet, OnItsWay
  <2> QED
    BY <1>0, <2>1, <2>2, QueuesAlone DEF Quiet
<1>3. CASE Direct(d)
  <2>1. /\ UNCHANGED <<phase, toFlush, waitFor, queues, closed, made, buffer, tasks, running, at>>
        /\ pc'[d] = "done" /\ \A e \in Deliveries \ {d} : pc'[e] = pc[e]
    BY <1>3 DEF Direct, TypeOK
  <2>2. d \in Elements(<<d>>)
    BY DEF Elements
  <2>3. handled' \cup dropped' = (handled \cup dropped) \cup Elements(<<d>>)
    BY <1>3 DEF Direct, Invoke
  <2>4. \A e \in Deliveries : OnItsWay(e)'
    BY <1>1, <2>1, <2>2, <2>3, QueuesAlone DEF Quiet, OnItsWay
  <2> QED
    BY <1>0, <2>1, <2>3, <2>4, QueuesAlone DEF Quiet
<1>4. CASE Lookup(d)
  <2>1. /\ UNCHANGED <<phase, toFlush, waitFor, queues, closed, made, buffer, tasks, running>>
        /\ UNCHANGED <<handled, dropped>>
        /\ pc'[d] \in {"create", "enter"} /\ at'[d] = queues[Scope[d]]
        /\ \A e \in Deliveries \ {d} : pc'[e] = pc[e] /\ at'[e] = at[e]
    BY <1>4 DEF Lookup, TypeOK
  <2>2. InMap(at'[d])
    BY <2>1 DEF InMap, Scopes
  <2>3. \A e \in Deliveries : OnItsWay(e)'
    BY <1>1, <2>1, <2>2, QueuesAlone DEF Quiet, OnItsWay
  <2> QED
    BY <1>0, <2>1, <2>3, QueuesAlone DEF Quiet
<1>5. CASE Create(d)
  <2>1. /\ UNCHANGED <<phase, toFlush, waitFor, closed, buffer, tasks, running, handled, dropped>>
        /\ pc'[d] = "enter" /\ \A e \in Deliveries \ {d} : pc'[e] = pc[e]
        /\ toFlush = {} /\ waitFor = {}
    BY <1>1, <1>5 DEF Create, TypeOK, Quiet
  <2>2. CASE queues[Scope[d]] # 0 /\ UNCHANGED mgr /\ at' = [at EXCEPT ![d] = queues[Scope[d]]]
    <3>1. at'[d] = queues[Scope[d]] /\ \A e \in Deliveries \ {d} : at'[e] = at[e]
      BY <2>2 DEF TypeOK
    <3>2. InMap(at'[d])
      BY <3>1 DEF InMap, Scopes
    <3>3. \A e \in Deliveries : OnItsWay(e)'
      BY <1>1, <2>1, <2>2, <3>1, <3>2, QueuesAlone DEF Quiet, OnItsWay
    <3> QED
      BY <1>0, <2>1, <2>2, <3>3, QueuesAlone DEF Quiet
  <2>3. CASE queues[Scope[d]] = 0 /\ New(d)
    <3> DEFINE s == Scope[d]
    <3>1. /\ s \in Scopes /\ made' = made + 1 /\ made \in Nat /\ made + 1 \in Queues
          /\ queues'[s] = made + 1 /\ \A u \in Scopes \ {s} : queues'[u] = queues[u]
          /\ at'[d] = made + 1 /\ \A e \in Deliveries \ {d} : at'[e] = at[e]
      <4>1. made \in 0 .. MaxQueues /\ DOMAIN queues = Scopes /\ DOMAIN at = Deliveries
        BY DEF TypeOK
      <4>2. /\ made < MaxQueues /\ made' = made + 1
            /\ queues' = [queues EXCEPT ![s] = made + 1] /\ at' = [at EXCEPT ![d] = made + 1]
        BY <2>3 DEF New
      <4>3. made \in Nat /\ made + 1 \in Queues
        BY <4>1, <4>2, QueuesAssumption DEF Queues
      <4>4. s \in Scopes
        BY DEF Scopes
      <4> QED
        BY <4>1, <4>2, <4>3, <4>4
    <3>2. \A x \in Queues : InMap(x)' <=> (InMap(x) \/ x = made + 1)
      BY <2>3, <3>1 DEF InMap, Queues
    <3>3. \A x \in Queues : /\ Clean(x)' <=> Clean(x)
                            /\ NoBarrier(x)' <=> NoBarrier(x)
                            /\ \A e : Placed(e, x)' <=> Placed(e, x)
      BY <2>1, SameQueue
    <3>4. \A x \in Queues : Settled(x) /\ x \in Nat
      BY DEF Quiet, Queues
    <3>5. \A x \in Queues : Settled(x)'
      BY <1>1, <2>1, <3>1, <3>2, <3>3, <3>4 DEF Settled
    <3>6. \A e \in Deliveries : pc[e] = "enter" => at[e] \in Queues
      BY DEF HandlerInv, Registered
    <3>7. ASSUME NEW e \in Deliveries PROVE OnItsWay(e)'
      <4>1. OnItsWay(e)
        BY DEF Quiet
      <4>2. pc'[e] = "enter" => InMap(at[e])'
        BY <2>1, <3>1, <3>2, <3>6, <4>1 DEF OnItsWay
      <4>3. pc'[e] \in {"wait", "done"} =>
               e \in handled' \cup dropped' \/ \E x \in Queues : Placed(e, x)'
        BY <2>1, <3>3, <4>1 DEF OnItsWay
      <4> QED
        BY <1>1, <4>2, <4>3 DEF OnItsWay
    <3>8. \A x \in Queues : Elements(running'[x].ds) \subseteq handled' \cup dropped'
      BY <2>1 DEF Quiet, Elements
    <3> QED
      BY <1>0, <2>1, <3>5, <3>7, <3>8 DEF Quiet
  <2> QED
    BY <1>5, <2>2, <2>3 DEF Create
<1> QED
  BY <1>2, <1>3, <1>4, <1>5

(* A message, a task or the timer of a buffer comes to a queue. *)
LEMMA FillQuiet ==
  ASSUME TypeOK, HandlerInv, Quiet, ~panicked, NEW x \in Queues,
         \/ Fire(x)
         \/ \E d \in Deliveries : x = at[d] /\ (Push(d) \/ Run(d))
  PROVE  Quiet' /\ ~panicked'
<1> USE DEF Goto, config, mgr, worker, callers, closing, history
<1>0. /\ \A y \in Queues : Settled(y) /\ Elements(running[y].ds) \subseteq handled \cup dropped
      /\ \A d \in Deliveries : OnItsWay(d)
      /\ phase # "flushing" => toFlush = {} /\ waitFor = {}
  BY DEF Quiet
<1>1. /\ UNCHANGED <<phase, toFlush, waitFor, queues, closed, made, running, at, handled, dropped>>
      /\ \A y : InMap(y)' <=> InMap(y)
  BY DEF Fire, Push, Run, InMap
<1>2. ASSUME ~panicked', \A y \in Queues : Settled(y)', \A d \in Deliveries : OnItsWay(d)'
      PROVE  Quiet' /\ ~panicked'
  BY <1>0, <1>1, <1>2 DEF Quiet, Elements
<1>3. buffer[x] \in Seq(Deliveries) /\ <<>> \in Seq(Tasks) /\ Elements(<<>>) = {}
  BY DEF TypeOK, Elements
<1>4. CASE Fire(x)
  <2>1. Enqueue(x, buffer[x], <<>>) /\ buffer[x] # <<>> /\ UNCHANGED pc
    BY <1>4 DEF Fire
  <2>2. /\ InMap(x) /\ x \notin waitFor
        /\ phase \in {"idle", "flush"} \/ (phase = "flushing" /\ x \in toFlush)
    <3>1. ~Clean(x) /\ ~BarrierLast(x)
      BY <2>1 DEF Clean, BarrierLast
    <3>2. Settled(x) /\ phase \in {"idle", "flush", "flushing", "dispose", "done"}
      BY <1>0 DEF TypeOK
    <3> QED
      BY <3>1, <3>2 DEF Settled
  <2>3. ~panicked' /\ \A y \in Queues : Settled(y)'
    BY <1>0, <1>1, <1>3, <2>1, <2>2, EnqueueQuiet
  <2>4. \A d \in Deliveries, y \in Queues : Placed(d, y) => Placed(d, y)'
    BY <1>3, <2>1, EnqueuePlaced
  <2>5. \A d \in Deliveries : OnItsWay(d)'
    BY <1>0, <1>1, <2>1, <2>4 DEF OnItsWay
  <2> QED
    BY <1>2, <2>3, <2>5
<1>5. ASSUME NEW d \in Deliveries, x = at[d], Push(d) \/ Run(d)
      PROVE  /\ phase = "idle" /\ InMap(x) /\ toFlush = {} /\ waitFor = {}
             /\ pc'[d] \in {"wait", "done"} /\ \A e \in Deliveries \ {d} : pc'[e] = pc[e]
  <2>1. pc[d] = "enter"
    BY <1>5 DEF Push, Run
  <2>2. OnItsWay(d)
    BY <1>0
  <2> QED
    BY <1>0, <1>5, <2>1, <2>2 DEF Push, Run, OnItsWay, TypeOK
<1>6. ASSUME NEW d \in Deliveries, x = at[d], Push(d) \/ Run(d), Placed(d, x)',
             \A e \in Deliveries, y \in Queues : Placed(e, y) => Placed(e, y)'
      PROVE  \A e \in Deliveries : OnItsWay(e)'
  BY <1>0, <1>1, <1>5, <1>6 DEF OnItsWay
<1>7. ASSUME NEW d \in Deliveries, x = at[d], Push(d) PROVE Quiet' /\ ~panicked'
  <2> DEFINE ds == Append(buffer[x], d)
  <2>1. ds \in Seq(Deliveries) /\ Elements(ds) = Elements(buffer[x]) \cup {d}
    BY <1>3, AppendElements
  <2>2. CASE Enqueue(x, ds, <<>>)
    <3> HIDE DEF ds
    <3>1. ~panicked' /\ \A y \in Queues : Settled(y)'
      BY <1>0, <1>1, <1>3, <1>5, <1>7, <2>1, <2>2, EnqueueQuiet
    <3>2. Placed(d, x)' /\ \A e \in Deliveries, y \in Queues : Placed(e, y) => Placed(e, y)'
      BY <1>3, <2>1, <2>2, EnqueuePlaced
    <3>3. \A e \in Deliveries : OnItsWay(e)'
      BY <1>6, <1>7, <3>2
    <3> QED
      BY <1>2, <3>1, <3>3
  <2>3. CASE buffer' = [buffer EXCEPT ![x] = ds] /\ UNCHANGED <<tasks, panicked>>
    <3> HIDE DEF ds
    <3>1. buffer'[x] = ds /\ \A y \in Queues \ {x} : buffer'[y] = buffer[y]
      BY <2>3 DEF TypeOK
    <3>2. ASSUME NEW y \in Queues PROVE Settled(y)'
      <4>1. CASE y = x
        <5>1. NoBarrier(x)
          BY <1>0, <1>5, <1>7 DEF Settled
        <5>2. NoBarrier(x)'
          BY <1>1, <2>3, <5>1 DEF NoBarrier, Elements
        <5> QED
          BY <1>0, <1>1, <1>5, <1>7, <4>1, <5>2 DEF Settled
      <4>2. CASE y # x
        BY <1>0, <1>1, <2>3, <3>1, <4>2, SameSettled
      <4> QED
        BY <4>1, <4>2
    <3>3. Placed(d, x)' /\ \A e \in Deliveries, y \in Queues : Placed(e, y) => Placed(e, y)'
      <4>1. \A y \in Queues : Elements(tasks[y])' = Elements(tasks[y])
        BY <2>3 DEF Elements
      <4>2. \A y \in Queues : Elements(buffer[y])' = Elements(buffer'[y])
        BY DEF Elements
      <4>3. \A y \in Queues : Elements(buffer[y]) \subseteq Elements(buffer[y])'
        BY <2>1, <3>1, <4>2
      <4>4. d \in Elements(buffer[x])'
        BY <2>1, <3>1, <4>2
      <4>5. Placed(d, x)'
        BY <4>4 DEF Placed
      <4> QED
        BY <4>1, <4>3, <4>5 DEF Placed
    <3>4. \A e \in Deliveries : OnItsWay(e)'
      BY <1>6, <1>7, <3>3
    <3> QED
      BY <1>2, <2>3, <3>2, <3>4
  <2> QED
    BY <1>7, <2>2, <2>3 DEF Push
<1>8. ASSUME NEW d \in Deliveries, x = at[d], Run(d) PROVE Quiet' /\ ~panicked'
  <2> DEFINE k == IF Kind[d] = "action" THEN "action" ELSE "message"
             m == <<[kind |-> k, ds |-> <<d>>]>>
  <2>1. k \in Kinds /\ k # "barrier" /\ <<d>> \in Seq(Deliveries) /\ d \in Elements(<<d>>)
    BY DEF Kinds, Elements
  <2>2. Enqueue(x, buffer[x], m)
    BY <1>8 DEF Run
  <2> HIDE DEF k
  <2>3. /\ m \in Seq(Tasks) /\ \A t \in Elements(m) : t.kind = k /\ t.ds = <<d>>
        /\ \E t \in Elements(m) : t.ds = <<d>>
    BY <2>1, OneTask
  <2> HIDE DEF m
  <2>4. ~panicked' /\ \A y \in Queues : Settled(y)'
    BY <1>0, <1>1, <1>3, <1>5, <1>8, <2>1, <2>2, <2>3, EnqueueQuiet
  <2>5. Placed(d, x)' /\ \A e \in Deliveries, y \in Queues : Placed(e, y) => Placed(e, y)'
    BY <1>3, <2>1, <2>2, <2>3, EnqueuePlaced
  <2>6. \A e \in Deliveries : OnItsWay(e)'
    BY <1>6, <1>8, <2>5
  <2> QED
    BY <1>2, <2>4, <2>6
<1> QED
  BY <1>4, <1>7, <1>8

(* The worker: the task it takes is known to have a handler, and the        *)
(* barrier is the last thing it runs.                                       *)
LEMMA WorkQuiet ==
  ASSUME TypeOK, HandlerInv, Quiet, ~panicked, NEW x \in Queues, WorkerStep(x)
  PROVE  Quiet' /\ ~panicked'
<1> USE DEF config, mgr, worker, callers, closing, history
<1>0. /\ \A y \in Queues : Settled(y) /\ Elements(running[y].ds) \subseteq handled \cup dropped
      /\ \A d \in Deliveries : OnItsWay(d)
      /\ phase # "flushing" => toFlush = {} /\ waitFor = {}
  BY DEF Quiet
<1>1. /\ UNCHANGED <<phase, toFlush, queues, closed, made, buffer, at, panicked>>
      /\ \A y : InMap(y)' <=> InMap(y)
  BY DEF WorkerStep, Take, Finish, Exit, InMap
<1>2. CASE Take(x)
  <2>1. tasks[x] \in Seq(Tasks) /\ tasks[x] # <<>> /\ running[x] = Idle
    BY <1>2 DEF Take, TypeOK
  <2>2. PICK q \in Seq(Tasks), h \in Tasks, r \in Seq(Tasks) :
           q = tasks[x] /\ h = Head(q) /\ r = Tail(q) /\ q # <<>>
    BY <2>1, HeadAndTail
  <2>3. /\ h = q[1] /\ Len(q) \in Nat \ {0} /\ DOMAIN q = 1 .. Len(q)
        /\ Len(r) = Len(q) - 1 /\ DOMAIN r = 1 .. Len(q) - 1
        /\ \A i \in 1 .. Len(q) - 1 : r[i] = q[i + 1]
        /\ Elements(q) = {h} \cup Elements(r)
    BY <2>2, HeadAndTail
  <2>4. /\ running' = [running EXCEPT ![x] = h] /\ tasks' = [tasks EXCEPT ![x] = r]
        /\ UNCHANGED <<pc, waitFor>>
        /\ handled' \cup dropped' = (handled \cup dropped) \cup Elements(h.ds)
    BY <1>2, <2>2 DEF Take, Invoke
  <2>5. /\ running'[x] = h /\ tasks'[x] = r
        /\ \A y \in Queues \ {x} : running'[y] = running[y] /\ tasks'[y] = tasks[y]
    BY <2>4 DEF TypeOK
  <2>6. Settled(x)'
    <3>1. Settled(x) /\ ~Clean(x)
      BY <1>0, <2>1 DEF Clean
    <3>2. NoBarrier(x) => NoBarrier(x)'
      BY <2>2, <2>3, <2>5 DEF NoBarrier
    <3>3. ASSUME BarrierLast(x) PROVE BarrierLast(x)'
      <4>1. /\ buffer[x] = <<>> /\ \A i \in DOMAIN q : q[i].kind = "barrier" <=> i = Len(q)
        BY <2>2, <3>3 DEF BarrierLast
      <4>2. h.kind = "barrier" <=> Len(q) = 1
        <5>1. 1 \in DOMAIN q
          BY <2>3
        <5> QED
          BY <2>3, <4>1, <5>1
      <4>3. r = <<>> <=> Len(q) = 1
        <5>1. r = <<>> <=> Len(r) = 0
          OBVIOUS
        <5> QED
          BY <2>3, <5>1
      <4>4. \A i \in DOMAIN r : r[i].kind = "barrier" <=> i = Len(r)
        BY <2>3, <4>1
      <4> QED
        BY <1>1, <2>5, <4>1, <4>2, <4>3, <4>4 DEF BarrierLast
    <3> QED
      BY <1>1, <2>4, <3>1, <3>2, <3>3 DEF Settled
  <2>7. \A y \in Queues \ {x} : Settled(y)'
    BY <1>0, <1>1, <2>4, <2>5, SameSettled
  <2>8. \A y \in Queues : Elements(running'[y].ds) \subseteq handled' \cup dropped'
    BY <1>0, <2>4, <2>5
  <2>9. ASSUME NEW d \in Deliveries, NEW y \in Queues, Placed(d, y)
        PROVE  Placed(d, y)' \/ d \in handled' \cup dropped'
    <3>1. CASE y = x
      <4>1. Elements(tasks[x])' = Elements(r) /\ Elements(buffer[x])' = Elements(buffer[x])
        BY <1>1, <2>5 DEF Elements
      <4>2. \/ d \in Elements(buffer[x]) \/ d \in Elements(h.ds)
            \/ \E t \in Elements(r) : d \in Elements(t.ds)
        BY <2>2, <2>3, <2>9, <3>1 DEF Placed
      <4> QED
        BY <2>4, <3>1, <4>1, <4>2 DEF Placed
    <3>2. CASE y # x
      BY <1>1, <2>5, <2>9, <3>2 DEF Placed, Elements
    <3> QED
      BY <3>1, <3>2
  <2>10. \A d \in Deliveries : OnItsWay(d)'
    BY <1>0, <1>1, <2>4, <2>9 DEF OnItsWay
  <2> QED
    BY <1>0, <1>1, <2>4, <2>6, <2>7, <2>8, <2>10 DEF Quiet
<1>3. CASE Finish(x)
  <2>1. /\ running'[x] = Idle /\ \A y \in Queues \ {x} : running'[y] = running[y]
        /\ running[x] # Idle /\ UNCHANGED <<tasks, handled, dropped>>
        /\ waitFor' = IF running[x].kind = "barrier" THEN waitFor \ {x} ELSE waitFor
        /\ \A d \in Deliveries : pc'[d] = IF d \in Elements(running[x].ds) THEN "done" ELSE pc[d]
    BY <1>3 DEF Finish, TypeOK
  <2>2. Idle.kind = "none" /\ Elements(Idle.ds) = {}
    BY DEF Idle, Elements
  <2>3. Settled(x)'
    <3>1. Settled(x) /\ ~Clean(x)
      BY <1>0, <2>1 DEF Clean
    <3>2. CASE x \in waitFor /\ running[x].kind = "barrier"
      <4>1. tasks[x] = <<>> /\ buffer[x] = <<>>
        BY <3>1, <3>2 DEF Settled, BarrierLast
      <4>2. Clean(x)' /\ NoBarrier(x)' /\ x \notin waitFor'
        BY <1>1, <2>1, <2>2, <3>2, <4>1 DEF Clean, NoBarrier, Elements
      <4> QED
        BY <1>1, <3>1, <4>2 DEF Settled
    <3>3. CASE x \in waitFor /\ running[x].kind # "barrier"
      <4>1. BarrierLast(x) /\ x \in waitFor'
        BY <2>1, <3>1, <3>3 DEF Settled
      <4>2. tasks[x] # <<>> /\ running'[x].kind # "barrier"
        BY <2>1, <2>2, <3>3, <4>1 DEF BarrierLast
      <4>3. BarrierLast(x)'
        BY <1>1, <2>1, <4>1, <4>2 DEF BarrierLast
      <4> QED
        BY <1>1, <3>1, <3>3, <4>1, <4>3 DEF Settled
    <3>4. CASE x \notin waitFor
      <4>1. NoBarrier(x)' /\ x \notin waitFor'
        BY <1>1, <2>1, <2>2, <3>1, <3>4 DEF Settled, NoBarrier, Elements
      <4> QED
        BY <1>1, <3>1, <3>4, <4>1 DEF Settled
    <3> QED
      BY <3>2, <3>3, <3>4
  <2>4. ASSUME NEW y \in Queues \ {x} PROVE Settled(y)'
    <3>1. /\ Clean(y)' <=> Clean(y)
          /\ NoBarrier(y)' <=> NoBarrier(y)
          /\ BarrierLast(y)' <=> BarrierLast(y)
      BY <1>1, <2>1, SameQueue
    <3>2. y \in waitFor' <=> y \in waitFor
      BY <2>1
    <3> QED
      BY <1>0, <1>1, <3>1, <3>2 DEF Settled
  <2>5. \A y \in Queues : Elements(running'[y].ds) \subseteq handled' \cup dropped'
    BY <1>0, <2>1, <2>2
  <2>6. \A d \in Deliveries, y \in Queues : Placed(d, y)' <=> Placed(d, y)
    BY <1>1, <2>1 DEF Placed, Elements
  <2>7. \A d \in Deliveries : OnItsWay(d)'
    BY <1>0, <1>1, <2>1, <2>6 DEF OnItsWay
  <2>8. waitFor' \subseteq waitFor
    BY <2>1
  <2> QED
    BY <1>0, <1>1, <2>3, <2>4, <2>5, <2>7, <2>8 DEF Quiet
<1>4. CASE Exit(x)
  <2>1. UNCHANGED <<phase, toFlush, waitFor, queues, closed, made, buffer, tasks, running, pc, at,
                    handled, dropped>>
    BY <1>4 DEF Exit
  <2>2. \A d \in Deliveries : OnItsWay(d)'
    BY <1>0, <2>1, QueuesAlone DEF OnItsWay
  <2> QED
    BY <1>1, <2>1, <2>2, QueuesAlone DEF Quiet
<1> QED
  BY <1>2, <1>3, <1>4 DEF WorkerStep

(* Close: what it finds in the map gets a barrier, and what it finds        *)
(* without one is at rest.                                                  *)
LEMMA CloseQuiet ==
  ASSUME TypeOK, HandlerInv, Quiet, ~panicked, ~raced',
         (\E who \in Queues \cup {App} : Close(who)) \/ CloseStep
  PROVE  Quiet' /\ (panicked' => closes' > 1)
<1> USE DEF config, mgr, worker, callers, closing, history
<1>0. /\ \A y \in Queues : Settled(y) /\ Elements(running[y].ds) \subseteq handled \cup dropped
      /\ \A d \in Deliveries : OnItsWay(d)
      /\ phase # "flushing" => toFlush = {} /\ waitFor = {}
  BY DEF Quiet
<1>1. /\ UNCHANGED <<made, running, pc, at, handled, dropped>>
      /\ \A y \in Queues : y \in Nat /\ y # 0
  BY DEF Close, CloseStep, FlushAll, FlushNow, Flushes, Dispose, Queues
<1>2. \A y \in Queues : Elements(running'[y].ds) \subseteq handled' \cup dropped'
  BY <1>0, <1>1
<1>3. ASSUME UNCHANGED <<queues, closed, buffer, tasks>>
      PROVE  /\ \A y : InMap(y)' <=> InMap(y)
             /\ \A y \in Queues : /\ Clean(y)' <=> Clean(y)
                                  /\ NoBarrier(y)' <=> NoBarrier(y)
                                  /\ \A d : Placed(d, y)' <=> Placed(d, y)
  BY <1>1, <1>3, SameQueue DEF InMap
<1>4. ASSUME NEW who \in Queues \cup {App}, Close(who) PROVE Quiet' /\ (panicked' => closes' > 1)
  <2>1. /\ UNCHANGED <<queues, closed, buffer, tasks, toFlush, waitFor, panicked>>
        /\ phase \in {"idle", "done"} /\ phase' = "flush" /\ toFlush = {} /\ waitFor = {}
    BY <1>0, <1>4 DEF Close
  <2>2. \A d \in Deliveries : pc[d] \in {"new", "wait", "done"}
    BY <1>4 DEF Close, TypeOK
  <2>3. ASSUME NEW y \in Queues PROVE Settled(y)'
    BY <1>0, <1>1, <1>3, <2>1 DEF Settled
  <2>4. ASSUME NEW d \in Deliveries PROVE OnItsWay(d)'
    BY <1>0, <1>1, <1>3, <2>1, <2>2 DEF OnItsWay
  <2> QED
    BY <1>2, <2>1, <2>3, <2>4 DEF Quiet
<1>5. CASE FlushAll
  <2>1. /\ UNCHANGED <<queues, closed, buffer, tasks, waitFor, panicked>>
        /\ phase = "flush" /\ phase' = "flushing" /\ toFlush = {} /\ waitFor = {}
        /\ toFlush' = {queues[s] : s \in Scopes} \ {0}
    BY <1>0, <1>5 DEF FlushAll
  <2>2. \A y \in Queues : y \in toFlush' <=> InMap(y)
    BY <1>1, <2>1 DEF InMap
  <2>3. ASSUME NEW y \in Queues PROVE Settled(y)'
    BY <1>0, <1>1, <1>3, <2>1, <2>2 DEF Settled
  <2>4. ASSUME NEW d \in Deliveries PROVE OnItsWay(d)'
    BY <1>0, <1>1, <1>3, <2>1 DEF OnItsWay
  <2> QED
    BY <1>2, <2>1, <2>3, <2>4 DEF Quiet
<1>6. ASSUME NEW x \in Queues, FlushNow(x) PROVE Quiet' /\ (panicked' => closes' > 1)
  <2>1. PICK b : b = [kind |-> "barrier", ds |-> <<>>]
    OBVIOUS
  <2>2. b \in Tasks /\ b.kind = "barrier" /\ <<b>> \in Seq(Tasks) /\ buffer[x] \in Seq(Deliveries)
    BY <2>1 DEF Tasks, Kinds, TypeOK
  <2>3. /\ Enqueue(x, buffer[x], <<b>>) /\ x \in toFlush /\ x \notin waitFor
        /\ toFlush' = toFlush \ {x} /\ waitFor' = waitFor \cup {x}
        /\ UNCHANGED <<phase, queues, closed>> /\ phase = "flushing"
    BY <1>0, <1>6, <2>1 DEF FlushNow, Settled
  <2>4. \A y : InMap(y)' <=> InMap(y)
    BY <2>3 DEF InMap
  <2>5. ~panicked'
    BY <1>0, <2>3 DEF Settled, Enqueue
  <2>6. /\ buffer'[x] = <<>>
        /\ \A y \in Queues \ {x} : buffer'[y] = buffer[y] /\ tasks'[y] = tasks[y]
    BY <2>2, <2>3, EnqueueFacts
  <2>7. BarrierLast(x)'
    <3>1. PICK t, f : t = tasks[x] /\ f = Flushed(x, buffer[x])
      OBVIOUS
    <3>2. t \in Seq(Tasks) /\ f \in Seq(Tasks) /\ NoneIsBarrier(f)
      <4>1. t \in Seq(Tasks) /\ f \in Seq(Tasks) /\ \A u \in Elements(f) : u.kind = "batch"
        BY <2>2, <3>1, FlushedTasks DEF TypeOK
      <4> QED
        BY <4>1 DEF NoneIsBarrier
    <3>3. NoBarrier(x)
      BY <1>0, <2>3 DEF Settled
    <3>4. PICK j : j = (t \o f) \o <<b>>
      OBVIOUS
    <3>5. tasks'[x] = j
      BY <2>3, <3>1, <3>4 DEF Enqueue, TypeOK
    <3>6. NoneIsBarrier(t)
      BY <3>1, <3>3 DEF NoBarrier, NoneIsBarrier
    <3>7. LastIsBarrier(j)
      BY <2>2, <3>2, <3>4, <3>6, BarrierAtEnd
    <3> QED
      <4>1. running'[x].kind # "barrier"
        BY <1>1, <3>3 DEF NoBarrier
      <4>2. tasks'[x] # <<>> /\ \A i \in DOMAIN tasks'[x] :
               tasks'[x][i].kind = "barrier" <=> i = Len(tasks'[x])
        BY <3>5, <3>7 DEF LastIsBarrier
      <4> QED
        BY <2>6, <4>1, <4>2 DEF BarrierLast
  <2>8. Settled(x)'
    BY <1>0, <1>1, <2>3, <2>4, <2>7 DEF Settled
  <2>9. ASSUME NEW y \in Queues \ {x} PROVE Settled(y)'
    <3>1. /\ Clean(y)' <=> Clean(y)
          /\ NoBarrier(y)' <=> NoBarrier(y)
          /\ BarrierLast(y)' <=> BarrierLast(y)
      BY <1>1, <2>6, SameQueue
    <3>2. (y \in waitFor' <=> y \in waitFor) /\ (y \in toFlush' <=> y \in toFlush)
      BY <2>3
    <3> QED
      BY <1>0, <1>1, <2>3, <2>4, <3>1, <3>2 DEF Settled
  <2>10. \A d \in Deliveries, y \in Queues : Placed(d, y) => Placed(d, y)'
    BY <2>2, <2>3, EnqueuePlaced
  <2>11. ASSUME NEW d \in Deliveries PROVE OnItsWay(d)'
    BY <1>0, <1>1, <2>3, <2>4, <2>10 DEF OnItsWay
  <2> QED
    BY <1>2, <2>3, <2>5, <2>8, <2>9, <2>11 DEF Quiet
<1>7. CASE Flushes
  <2>1. /\ UNCHANGED <<queues, closed, buffer, tasks, toFlush, waitFor, panicked>>
        /\ phase = "flushing" /\ phase' \in {"flush", "dispose"} /\ toFlush = {} /\ waitFor = {}
    BY <1>7 DEF Flushes
  <2>2. ASSUME NEW y \in Queues PROVE Settled(y)'
    BY <1>0, <1>1, <1>3, <2>1 DEF Settled
  <2>3. ASSUME NEW d \in Deliveries PROVE OnItsWay(d)'
    BY <1>0, <1>1, <1>3, <2>1 DEF OnItsWay
  <2> QED
    BY <1>2, <2>1, <2>2, <2>3 DEF Quiet
<1>8. CASE Dispose
  <2>1. /\ UNCHANGED <<tasks, toFlush, waitFor, closes>>
        /\ phase = "dispose" /\ phase' = "done" /\ toFlush = {} /\ waitFor = {}
        /\ panicked' = (closes > 1)
        /\ \A y \in Queues : closed'[y] = (closed[y] \/ InMap(y))
        /\ \A s \in Scopes : queues'[s] = 0
    BY <1>0, <1>8 DEF Dispose, InMap
  <2>2. \A y \in Queues : Clean(y) /\ NoBarrier(y) /\ (y > made => ~closed[y])
    BY <1>0, <2>1 DEF Settled
  <2>3. \A y \in Queues : buffer'[y] = <<>>
    BY <1>8, <2>2 DEF Dispose, Clean
  <2>4. \A y \in Queues : ~InMap(y)'
    BY <1>1, <2>1 DEF InMap
  <2>5. \A y \in Queues : InMap(y) => y <= made
    BY QueuesAssumption DEF InMap, TypeOK
  <2>6. ASSUME NEW y \in Queues PROVE Settled(y)'
    <3>1. buffer'[y] = buffer[y] /\ tasks'[y] = tasks[y] /\ running'[y] = running[y]
      BY <1>1, <2>1, <2>2, <2>3 DEF Clean
    <3>2. Clean(y)' /\ NoBarrier(y)'
      BY <2>2, <3>1, SameQueue
    <3>3. y > made' => ~closed'[y]
      <4> SUFFICES ASSUME y > made PROVE ~closed'[y]
        BY <1>1
      <4>1. ~InMap(y)
        BY <1>1, <2>5, QueuesAssumption DEF TypeOK
      <4> QED
        BY <2>1, <2>2, <4>1
    <3> QED
      BY <1>1, <2>1, <2>4, <3>2, <3>3 DEF Settled
  <2>7. \A d \in Deliveries, y \in Queues : ~Placed(d, y)
    BY <2>2 DEF Placed, Clean, Elements
  <2>8. ASSUME NEW d \in Deliveries PROVE OnItsWay(d)'
    BY <1>0, <1>1, <2>1, <2>7 DEF OnItsWay
  <2> QED
    BY <1>2, <2>1, <2>6, <2>8 DEF Quiet
<1> QED
  BY <1>4, <1>5, <1>6, <1>7, <1>8 DEF CloseStep

(* Before the first delivery everything is at rest. *)
LEMMA InitClose == Init => CloseInv
<1> SUFFICES ASSUME Init PROVE CloseInv
  OBVIOUS
<1>1. /\ phase = "idle" /\ toFlush = {} /\ waitFor = {} /\ panicked = FALSE
      /\ \A d \in Deliveries : pc[d] = "new"
      /\ \A x \in Queues : buffer[x] = <<>> /\ tasks[x] = <<>> /\ running[x] = Idle /\ closed[x] = FALSE
  BY DEF Init
<1>2. Elements(<<>>) = {} /\ Idle.ds = <<>> /\ Idle.kind = "none"
  BY DEF Elements, Idle
<1>3. \A x \in Queues : Settled(x) /\ Elements(running[x].ds) \subseteq handled \cup dropped
  BY <1>1, <1>2 DEF Settled, Clean, NoBarrier
<1> QED
  BY <1>1, <1>3 DEF CloseInv, PanicNeedsRace, Quiet, OnItsWay

LEMMA CloseKept == Books /\ CloseInv /\ [Next]_vars => CloseInv'
<1> SUFFICES ASSUME Books, CloseInv, [Next]_vars, ~raced' PROVE Quiet' /\ (panicked' => closes' > 1)
  BY DEF CloseInv, PanicNeedsRace
<1>1. TypeOK /\ HandlerInv /\ ~raced /\ Quiet /\ (panicked => closes > 1)
  BY RaceStays DEF Books, CloseInv, PanicNeedsRace
<1> USE DEF history
<1>2. CASE UNCHANGED <<phase, toFlush, waitFor, queues, closed, made, buffer, tasks, running, pc, at,
                       handled, dropped, panicked, closes>>
  <2>1. \A d \in Deliveries : OnItsWay(d)'
    BY <1>1, <1>2, QueuesAlone DEF Quiet, OnItsWay
  <2> QED
    BY <1>1, <1>2, <2>1, QueuesAlone DEF Quiet
<1>3. CASE OnMessage \/ OnBatchMessage \/ UNCHANGED vars
  BY <1>2, <1>3 DEF OnMessage, OnBatchMessage, vars, config, mgr, worker, callers, closing
<1>4. ASSUME NEW d \in Deliveries, Dispatch(d) \/ Direct(d) \/ Lookup(d) \/ Create(d)
      PROVE  Quiet' /\ ~panicked'
  <2>1. ~panicked
    BY <1>4 DEF Dispatch, Direct, Lookup, Create
  <2> QED
    BY <1>1, <1>4, <2>1, EnterQuiet
<1>5. ASSUME NEW d \in Deliveries, Push(d) \/ Run(d) PROVE Quiet' /\ ~panicked'
  <2>1. ~panicked /\ at[d] \in Queues
    BY <1>1, <1>5 DEF Push, Run, HandlerInv, Registered
  <2> QED
    BY <1>1, <1>5, <2>1, FillQuiet
<1>6. ASSUME NEW x \in Queues, Fire(x) PROVE Quiet' /\ ~panicked'
  <2>1. ~panicked
    BY <1>6 DEF Fire
  <2> QED
    BY <1>1, <1>6, <2>1, FillQuiet
<1>7. ASSUME NEW x \in Queues, WorkerStep(x) PROVE Quiet' /\ ~panicked'
  <2>1. ~panicked
    BY <1>7 DEF WorkerStep, Take, Finish, Exit
  <2> QED
    BY <1>1, <1>7, <2>1, WorkQuiet
<1>8. CASE (\E who \in Queues \cup {App} : Close(who)) \/ CloseStep
  <2>1. ~panicked
    BY <1>8 DEF Close, CloseStep, FlushAll, FlushNow, Flushes, Dispose
  <2> QED
    BY <1>1, <1>8, <2>1, CloseQuiet
<1> QED
  BY <1>3, <1>4, <1>5, <1>6, <1>7, <1>8 DEF Next, Step

(* A Close that no delivery races leaves nothing unhandled and no handler   *)
(* running, and only a race or a second Close brings the process down.      *)
THEOREM QuietClose == Spec => []QuietCloseIsClean
<1>1. Books /\ CloseInv => QuietCloseIsClean
  <2> SUFFICES ASSUME Books, CloseInv PROVE QuietCloseIsClean
    OBVIOUS
  <2>1. TypeOK /\ PanicNeedsRace
    BY DEF Books, CloseInv
  <2>2. ASSUME phase = "done", ~raced
        PROVE  /\ \A d \in Deliveries : pc[d] # "new" => d \in handled \cup dropped
               /\ \A x \in Queues : running[x] = Idle
    <3>1. \A x \in Queues : Clean(x)
      BY <2>2 DEF CloseInv, Quiet, Settled
    <3>2. \A d \in Deliveries, x \in Queues : ~Placed(d, x)
      BY <3>1 DEF Placed, Clean, Elements
    <3>3. \A d \in Deliveries : OnItsWay(d)
      BY <2>2 DEF CloseInv, Quiet
    <3> QED
      BY <2>2, <3>1, <3>2, <3>3 DEF OnItsWay, Clean
  <2> QED
    BY <2>1, <2>2 DEF QuietCloseIsClean
<1>2. Init => Books /\ CloseInv
  BY InitBooks, InitClose
<1>3. (Books /\ CloseInv) /\ [Next]_vars => (Books /\ CloseInv)'
  BY BooksKept, CloseKept
<1> QED
  BY <1>1, <1>2, <1>3, PTL DEF Spec
=============================================================================
