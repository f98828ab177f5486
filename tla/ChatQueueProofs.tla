--------------------------- MODULE ChatQueueProofs ---------------------------
(***************************************************************************)
(* A chat queue, for any messages, tasks, limits and channel capacity:     *)
(*   - no message is stranded in the debounce buffer.  NeverStranded is    *)
(*     not inductive: it speaks only of states in which cq.mu is free, and *)
(*     giving the mutex up would break it.  Waiting is the strengthening:  *)
(*     whoever owns the mutex, a buffer that is not empty has a live timer;*)
(*   - batches keep to the limits (LimitInv);                              *)
(*   - the queue implements SerialDispatch (LogInv);                       *)
(*   - a close that no caller races loses nothing (QuietInv).              *)
(***************************************************************************)
EXTENDS ChatQueue, SequenceTheorems, TLAPS

TimersTyped ==
    /\ buffer \in Seq(Msgs)
    /\ tstate \in [Msgs -> {"off", "armed", "fired"}]

(* A buffer of an open queue that is not empty has a timer that is armed,   *)
(* or whose callback is on its way, even while cq.mu is taken.              *)
Waiting == (buffer # <<>> /\ ~closed) => \E m \in Msgs : tstate[m] # "off"

IInv == TimersTyped /\ Waiting

(* A new queue has an empty buffer and no timer. *)
LEMMA InitIInv == Init => IInv
  BY DEF Init, IInv, TimersTyped, Waiting

(* clearTimer leaves every timer in a known state. *)
LEMMA StoppedType ==
  ASSUME TimersTyped
  PROVE  Stopped \in [Msgs -> {"off", "armed", "fired"}]
  BY DEF TimersTyped, Stopped

(* After enqueueFlush the buffer is empty, which is all that IInv asks. *)
LEMMA FlushedIInv ==
  ASSUME buffer' = <<>>, tstate' \in [Msgs -> {"off", "armed", "fired"}]
  PROVE  IInv'
  BY DEF IInv, TimersTyped, Waiting

(* A step that leaves the buffer, the timers and closed alone keeps IInv. *)
LEMMA FrameIInv ==
  ASSUME IInv, UNCHANGED <<buffer, tstate, closed>>
  PROVE  IInv'
  BY DEF IInv, TimersTyped, Waiting

(* Push either flushes, or arms the timer of the message it buffers. *)
LEMMA PushIInv ==
  ASSUME IInv, NEW m \in Msgs, Push(m)
  PROVE  IInv'
<1> DEFINE b == Append(buffer, m)
<1>1. Stopped \in [Msgs -> {"off", "armed", "fired"}]
  BY StoppedType DEF IInv
<1>2. CASE tstate' = Stopped /\ enqueueFlush(m, b)
  BY <1>1, <1>2, FlushedIInv DEF enqueueFlush
<1>3. CASE Arm(m, b)
  <2>1. /\ buffer' \in Seq(Msgs)
        /\ tstate' \in [Msgs -> {"off", "armed", "fired"}]
        /\ tstate'[m] = "armed"
    BY <1>1, <1>3 DEF Arm, IInv, TimersTyped
  <2> QED
    BY <2>1 DEF IInv, TimersTyped, Waiting
<1> QED
  BY <1>2, <1>3 DEF Push

(* The first section of Run and of FlushNow flushes or changes nothing. *)
LEMMA FlushPendingIInv ==
  ASSUME IInv, NEW owner, FlushPending(owner), UNCHANGED closed
  PROVE  IInv'
<1>1. CASE buffer = <<>>
  BY <1>1, FrameIInv DEF FlushPending, queue
<1>2. CASE buffer # <<>>
  <2>1. buffer' = <<>> /\ tstate' = Stopped
    BY <1>2 DEF FlushPending, enqueueFlush
  <2> QED
    BY <2>1, StoppedType, FlushedIInv DEF IInv
<1> QED
  BY <1>1, <1>2

(* A timer that fires is still on its way; its callback empties the buffer. *)
LEMMA TimerIInv ==
  ASSUME IInv, NEW m \in Msgs, Fire(m) \/ Callback(m)
  PROVE  IInv'
<1>1. CASE Fire(m)
  <2>1. tstate' \in [Msgs -> {"off", "armed", "fired"}]
    BY <1>1 DEF Fire, IInv, TimersTyped
  <2>2. \A n \in Msgs : tstate[n] # "off" => tstate'[n] # "off"
    BY <1>1 DEF Fire, IInv, TimersTyped
  <2> QED
    BY <1>1, <2>1, <2>2 DEF Fire, IInv, TimersTyped, Waiting
<1>2. CASE Callback(m)
  <2>1. tstate' \in [Msgs -> {"off", "armed", "fired"}] /\ buffer' = <<>>
    BY <1>2 DEF Callback, enqueueFlush, IInv, TimersTyped
  <2> QED
    BY <2>1, FlushedIInv
<1> QED
  BY <1>1, <1>2

(* Dispose stops the timer and closes the queue. *)
LEMMA DisposeIInv == IInv /\ Dispose => IInv'
<1> SUFFICES ASSUME IInv, Dispose PROVE IInv'
  OBVIOUS
<1>1. tstate' \in [Msgs -> {"off", "armed", "fired"}]
  BY StoppedType DEF Dispose, IInv
<1> QED
  BY <1>1 DEF Dispose, IInv, TimersTyped, Waiting

(* Every step of the queue and of its callers keeps the invariant. *)
THEOREM Inductive == IInv /\ [Next]_vars => IInv'
<1> SUFFICES ASSUME IInv, [Next]_vars PROVE IInv'
  OBVIOUS
<1>1. ASSUME NEW m \in Msgs, Push(m) PROVE IInv'
  BY <1>1, PushIInv
<1>2. ASSUME NEW m \in Msgs, Fire(m) \/ Callback(m) PROVE IInv'
  BY <1>2, TimerIInv
<1>3. ASSUME NEW r \in Runs, RunFlush(r) PROVE IInv'
  BY <1>3, FlushPendingIInv DEF RunFlush
<1>4. CASE CloseFlush
  BY <1>4, FlushPendingIInv DEF CloseFlush
<1>5. CASE Dispose
  BY <1>5, DisposeIInv
<1>6. CASE Send
  BY <1>6, FrameIInv DEF Send
<1>7. ASSUME NEW r \in Runs, RunSend(r) \/ RunReturn(r) PROVE IInv'
  BY <1>7, FrameIInv DEF RunSend, RunReturn, queue
<1>8. CASE Take \/ Finish \/ Exit \/ CloseBarrier
  BY <1>8, FrameIInv DEF Take, Finish, Exit, CloseBarrier, queue
<1>9. CASE Rest \/ UNCHANGED vars
  BY <1>9, FrameIInv DEF Rest, vars, queue
<1> QED
  BY <1>1, <1>2, <1>3, <1>4, <1>5, <1>6, <1>7, <1>8, <1>9 DEF Next, System

(* Whatever flushes, stale callbacks and blocked senders do to each other,  *)
(* a message that waits in the buffer of an open queue has a timer.         *)
THEOREM NothingStranded == Spec => []NeverStranded
<1>1. IInv => NeverStranded
  BY DEF IInv, Waiting, NeverStranded
<1> QED
  BY <1>1, InitIInv, Inductive, PTL DEF Spec
-----------------------------------------------------------------------------
(* A batch that passes a limit does so with its last message only: what was *)
(* before it in the buffer had passed none, or it would have been flushed.  *)
(* So the invariant speaks of the buffer too.  That closepc stays in its    *)
(* range (TypeOK) needs that Finish meets a barrier only while the closer   *)
(* waits for one, and that there is no second one behind it.                *)
Bounded(b) ==
    Len(b) > 1 => ~serialOnly /\ Len(b) <= MaxMessages /\ ~(bufferChars(Front(b)) >= MaxChars)

Jobs == [kind : {"batch", "run", "barrier"}, msgs : Seq(Msgs), run : Runs \cup {None}]

AllBounded(q) == \A i \in DOMAIN q : Bounded(q[i].msgs)

(* no limit is reached by what waits *)
RoomLeft(b) == b # <<>> => ~serialOnly /\ Len(b) < MaxMessages /\ ~(bufferChars(b) >= MaxChars)

AllBatches(q) == \A i \in DOMAIN q : q[i].kind = "batch"

JobTypes ==
    /\ tasks \in Seq(Jobs) /\ outbox \in Seq(Jobs) /\ current \in Jobs \cup {None}
    /\ AllBatches(outbox)

OneBarrier ==
    /\ \A i \in DOMAIN tasks : tasks[i].kind = "barrier" => closepc \in {2, 5}
    /\ \A i, j \in DOMAIN tasks : tasks[i].kind = "barrier" /\ tasks[j].kind = "barrier" => i = j
    /\ current # None /\ current.kind = "barrier" =>
          closepc \in {2, 5} /\ \A i \in DOMAIN tasks : tasks[i].kind # "barrier"

Limits == RoomLeft(buffer) /\ Bounded(buffer) /\ AllBounded(tasks) /\ AllBounded(outbox)

LimitInv == TypeOK /\ JobTypes /\ OneBarrier /\ Limits

(* What was in the buffer before a message is the batch without it. *)
LEMMA FrontOfAppend ==
  ASSUME NEW s \in Seq(Msgs), NEW m \in Msgs
  PROVE  Front(Append(s, m)) = s
<1>1. Len(Append(s, m)) - 1 = Len(s) /\ \A i \in 1 .. Len(s) : Append(s, m)[i] = s[i]
  OBVIOUS
<1>2. Front(Append(s, m)) = SubSeq(Append(s, m), 1, Len(s))
  BY <1>1 DEF Front
<1>3. /\ Front(Append(s, m)) \in Seq(Msgs) /\ Len(Front(Append(s, m))) = Len(s)
      /\ \A i \in 1 .. Len(s) : Front(Append(s, m))[i] = s[i]
  BY <1>1, <1>2
<1> QED
  BY <1>3, SeqEqual

(* A message that finds room in the buffer makes a batch within the limits. *)
LEMMA BoundedAppend ==
  ASSUME NEW s \in Seq(Msgs), NEW m \in Msgs, RoomLeft(s)
  PROVE  Append(s, m) \in Seq(Msgs) /\ Append(s, m) # <<>> /\ Bounded(Append(s, m))
<1>1. Len(Append(s, m)) = Len(s) + 1 /\ Len(s) \in Nat
  OBVIOUS
<1>2. CASE s = <<>>
  BY <1>1, <1>2 DEF Bounded
<1>3. CASE s # <<>>
  BY <1>1, <1>3, FrontOfAppend, LimitAssumption DEF Bounded, RoomLeft
<1> QED
  BY <1>2, <1>3

(* The tasks of a flush are batches, and within the limits if the buffer is. *)
LEMMA DispatchedBounded ==
  ASSUME NEW b \in Seq(Msgs), b # <<>>, Bounded(b)
  PROVE  /\ Dispatches(b) \in Seq(Jobs) /\ Dispatches(b) # <<>>
         /\ AllBatches(Dispatches(b)) /\ AllBounded(Dispatches(b))
<1>1. CASE serialOnly
  <2>0. PICK q : q = Dispatches(b)
    OBVIOUS
  <2>1. \A i \in DOMAIN b : /\ Batch(<<b[i]>>) \in Jobs /\ Batch(<<b[i]>>).kind = "batch"
                            /\ Batch(<<b[i]>>).msgs = <<b[i]>> /\ Len(<<b[i]>>) = 1
    BY DEF Batch, Jobs
  <2>2. q = [i \in 1 .. Len(b) |-> Batch(<<b[i]>>)] /\ Len(b) \in Nat /\ DOMAIN b = 1 .. Len(b)
    BY <1>1, <2>0 DEF Dispatches
  <2>3. q \in Seq(Jobs) /\ DOMAIN q = DOMAIN b /\ \A i \in DOMAIN b : q[i] = Batch(<<b[i]>>)
    BY <2>1, <2>2
  <2>4. q # <<>>
    <3>1. 1 \in DOMAIN q /\ DOMAIN <<>> = {}
      BY <2>2, <2>3
    <3> QED
      BY <3>1
  <2>5. AllBatches(q)
    BY <2>1, <2>3 DEF AllBatches
  <2>6. AllBounded(q)
    <3>1. ASSUME NEW i \in DOMAIN q PROVE ~(Len(q[i].msgs) > 1)
      <4>1. q[i].msgs = <<b[i]>>
        BY <2>1, <2>3
      <4>2. Len(<<b[i]>>) = 1
        OBVIOUS
      <4> QED
        BY <4>1, <4>2
    <3> QED
      BY <3>1, Zenon DEF AllBounded, Bounded
  <2> QED
    BY <2>0, <2>3, <2>4, <2>5, <2>6
<1>2. CASE ~serialOnly
  <2>1. Batch(b) \in Jobs /\ Batch(b).kind = "batch" /\ Batch(b).msgs = b
    BY DEF Batch, Jobs
  <2>2. Dispatches(b) = <<Batch(b)>>
    BY <1>2 DEF Dispatches
  <2>3. PICK t : t = Batch(b)
    OBVIOUS
  <2>4. <<t>> \in Seq(Jobs) /\ <<t>> # <<>> /\ AllBatches(<<t>>) /\ AllBounded(<<t>>)
    BY <2>1, <2>3 DEF AllBatches, AllBounded
  <2> QED
    BY <2>2, <2>3, <2>4
<1> QED
  BY <1>1, <1>2

Owners == Msgs \cup Runs \cup {Closer, Timer}

(* enqueueFlush of a batch within the limits. *)
LEMMA EnqueueBounded ==
  ASSUME NEW b \in Seq(Msgs), Bounded(b), NEW o \in Owners, enqueueFlush(o, b),
         UNCHANGED serialOnly
  PROVE  /\ mu' \in Owners \cup {None} /\ buffer' \in Seq(Msgs)
         /\ outbox' \in Seq(Jobs) /\ AllBatches(outbox')
         /\ RoomLeft(buffer)' /\ Bounded(buffer)' /\ AllBounded(outbox)'
<1>1. buffer' = <<>> /\ mu' \in Owners \cup {None}
  BY DEF enqueueFlush
<1>2. RoomLeft(buffer)' /\ Bounded(buffer)' /\ buffer' \in Seq(Msgs)
  BY <1>1 DEF RoomLeft, Bounded
<1>3. outbox' \in Seq(Jobs) /\ AllBatches(outbox') /\ AllBounded(outbox')
  <2>1. CASE b = <<>>
    BY <2>1 DEF enqueueFlush, AllBatches, AllBounded
  <2>2. CASE b # <<>>
    BY <2>2, DispatchedBounded DEF enqueueFlush
  <2> QED
    BY <2>1, <2>2
<1>4. AllBounded(outbox)'
  BY <1>3 DEF AllBounded, Bounded
<1> QED
  BY <1>1, <1>2, <1>3, <1>4

(* Tasks are taken from the front and sent to the end. *)
LEMMA TailOfJobs ==
  ASSUME NEW q \in Seq(Jobs), q # <<>>
  PROVE  /\ Tail(q) \in Seq(Jobs) /\ Head(q) \in Jobs /\ Head(q) = q[1] /\ 1 \in DOMAIN q
         /\ Len(Tail(q)) = Len(q) - 1 /\ Len(q) \in Nat /\ DOMAIN q = 1 .. Len(q)
         /\ \A i \in DOMAIN Tail(q) : i + 1 \in DOMAIN q /\ i \in Nat /\ Tail(q)[i] = q[i + 1]
  OBVIOUS

LEMMA AppendOfJobs ==
  ASSUME NEW q \in Seq(Jobs), NEW t \in Jobs
  PROVE  /\ Append(q, t) \in Seq(Jobs) /\ Len(Append(q, t)) = Len(q) + 1
         /\ Len(q) \in Nat /\ DOMAIN q = 1 .. Len(q)
         /\ DOMAIN Append(q, t) = DOMAIN q \cup {Len(q) + 1}
         /\ Append(q, t)[Len(q) + 1] = t
         /\ \A i \in DOMAIN q : Append(q, t)[i] = q[i]
  OBVIOUS

(* The bound of a batch depends on nothing that changes. *)
LEMMA SameBound ==
  ASSUME UNCHANGED serialOnly
  PROVE  \A b : Bounded(b)' <=> Bounded(b)
  BY DEF Bounded

(* A step that touches no task keeps the tasks and the one barrier. *)
LEMMA SameTasks ==
  ASSUME JobTypes, OneBarrier, Limits, UNCHANGED <<serialOnly, tasks, current>>
  PROVE  /\ AllBounded(tasks)'
         /\ tasks' \in Seq(Jobs) /\ current' \in Jobs \cup {None}
         /\ closepc' = closepc \/ closepc \in {0, 1, 3, 4, 6} => OneBarrier'
<1>1. AllBounded(tasks)'
  BY SameBound DEF AllBounded, Limits
<1>2. CASE closepc' = closepc
  BY <1>1, <1>2 DEF OneBarrier, JobTypes
<1>3. CASE closepc \in {0, 1, 3, 4, 6}
  <2>1. /\ \A i \in DOMAIN tasks : tasks[i].kind # "barrier"
        /\ current = None \/ current.kind # "barrier"
    BY <1>3 DEF OneBarrier
  <2> QED
    BY <1>1, <2>1 DEF OneBarrier, JobTypes
<1> QED
  BY <1>1, <1>2, <1>3 DEF JobTypes

(* A step that touches neither the tasks nor the buffer. *)
LEMMA FrameLimits ==
  ASSUME LimitInv, TypeOK', UNCHANGED <<serialOnly, tasks, current, buffer, outbox>>,
         closepc' = closepc \/ closepc \in {0, 1, 3, 4, 6}
  PROVE  LimitInv'
<1>1. AllBounded(tasks)' /\ OneBarrier' /\ tasks' \in Seq(Jobs) /\ current' \in Jobs \cup {None}
  BY SameTasks DEF LimitInv
<1>2. RoomLeft(buffer)' /\ Bounded(buffer)' /\ AllBounded(outbox)'
  BY DEF LimitInv, Limits, RoomLeft, Bounded, AllBounded
<1>3. outbox' \in Seq(Jobs) /\ AllBatches(outbox)'
  BY DEF LimitInv, JobTypes, AllBatches
<1> QED
  BY <1>1, <1>2, <1>3 DEF LimitInv, Limits, JobTypes

(* A flush of a buffer within the limits. *)
LEMMA FlushLimits ==
  ASSUME LimitInv, NEW b \in Seq(Msgs), Bounded(b), NEW o \in Owners, enqueueFlush(o, b),
         UNCHANGED <<cfg, tasks, current, worker, closed, panicked>>,
         timer' = None, tstate' \in [Msgs -> {"off", "armed", "fired"}],
         pushpc' \in [Msgs -> {"idle", "done"}],
         runpc' \in [Runs -> {"idle", "send", "wait", "ran", "done"}],
         closepc' = closepc \/ (closepc \in {0, 3} /\ closepc' = closepc + 1)
  PROVE  LimitInv'
<1>0. UNCHANGED <<serialOnly, debounced, quiesce>>
  BY DEF cfg
<1>1. /\ mu' \in Owners \cup {None} /\ buffer' \in Seq(Msgs)
      /\ outbox' \in Seq(Jobs) /\ AllBatches(outbox')
      /\ RoomLeft(buffer)' /\ Bounded(buffer)' /\ AllBounded(outbox)'
  BY <1>0, EnqueueBounded
<1>2. AllBounded(tasks)' /\ OneBarrier' /\ tasks' \in Seq(Jobs) /\ current' \in Jobs \cup {None}
  BY <1>0, SameTasks DEF LimitInv
<1>3. closepc' \in 0 .. 7
  BY DEF LimitInv, TypeOK
<1>4. TypeOK'
  BY <1>0, <1>1, <1>3 DEF LimitInv, TypeOK, Owners
<1>5. AllBatches(outbox)'
  BY <1>1 DEF AllBatches
<1> QED
  BY <1>1, <1>2, <1>4, <1>5 DEF LimitInv, Limits, JobTypes

(* Push flushes a batch that the buffer had room for, or leaves room. *)
LEMMA PushLimits == ASSUME LimitInv, NEW m \in Msgs, Push(m) PROVE LimitInv'
<1>0. PICK b : b = Append(buffer, m)
  OBVIOUS
<1>1. b \in Seq(Msgs) /\ b # <<>> /\ Bounded(b)
  BY <1>0, BoundedAppend DEF LimitInv, Limits, TypeOK
<1>2. /\ UNCHANGED <<cfg, tasks, current, worker, closed, runpc, closepc, panicked>>
      /\ pushpc' = [pushpc EXCEPT ![m] = "done"]
  BY DEF Push
<1>3. /\ Stopped \in [Msgs -> {"off", "armed", "fired"}]
      /\ pushpc' \in [Msgs -> {"idle", "done"}]
      /\ runpc' \in [Runs -> {"idle", "send", "wait", "ran", "done"}]
  BY <1>2 DEF Stopped, LimitInv, TypeOK
<1>4. CASE timer' = None /\ tstate' = Stopped /\ enqueueFlush(m, b)
  BY <1>1, <1>2, <1>3, <1>4, FlushLimits DEF Owners
<1>5. CASE ~LimitReached(b) /\ ~serialOnly /\ Arm(m, b)
  <2>0. UNCHANGED <<serialOnly, debounced, quiesce>>
    BY <1>2 DEF cfg
  <2>1. buffer' = b /\ UNCHANGED <<mu, outbox>> /\ timer' = m
        /\ tstate' \in [Msgs -> {"off", "armed", "fired"}]
    BY <1>3, <1>5 DEF Arm
  <2>2. TypeOK'
    BY <1>1, <1>2, <1>3, <2>0, <2>1 DEF LimitInv, TypeOK
  <2>3. AllBounded(tasks)' /\ OneBarrier' /\ tasks' \in Seq(Jobs) /\ current' \in Jobs \cup {None}
    BY <1>2, <2>0, SameTasks DEF LimitInv
  <2>4. Bounded(buffer)' /\ AllBounded(outbox)'
    BY <1>1, <2>0, <2>1 DEF LimitInv, Limits, Bounded, AllBounded
  <2>5. ~(Len(b) >= MaxMessages) /\ ~(bufferChars(b) >= MaxChars)
    BY <1>5 DEF LimitReached
  <2>6. outbox' \in Seq(Jobs) /\ AllBatches(outbox)'
    BY <2>1 DEF LimitInv, JobTypes, AllBatches
  <2>7. RoomLeft(buffer)'
    BY <1>1, <1>5, <2>0, <2>1, <2>5, LimitAssumption DEF RoomLeft
  <2> QED
    BY <2>2, <2>3, <2>4, <2>6, <2>7 DEF LimitInv, Limits, JobTypes
<1> QED
  BY <1>0, <1>4, <1>5 DEF Push

(* The first section of Run and of FlushNow flushes what is buffered. *)
LEMMA PendingLimits ==
  ASSUME LimitInv, NEW o \in Owners, FlushPending(o),
         UNCHANGED <<cfg, tasks, current, worker, closed, pushpc, panicked>>,
         runpc' \in [Runs -> {"idle", "send", "wait", "ran", "done"}],
         closepc' = closepc \/ (closepc \in {0, 3} /\ closepc' = closepc + 1)
  PROVE  LimitInv'
<1>0. UNCHANGED <<serialOnly, debounced, quiesce>>
  BY DEF cfg
<1>1. CASE buffer = <<>>
  <2>1. UNCHANGED <<mu, buffer, timer, tstate, outbox>>
    BY <1>1 DEF FlushPending, queue
  <2>2. closepc' \in 0 .. 7
    BY DEF LimitInv, TypeOK
  <2>3. TypeOK'
    BY <1>0, <2>1, <2>2 DEF LimitInv, TypeOK
  <2> QED
    BY <1>0, <2>1, <2>3, FrameLimits
<1>2. CASE buffer # <<>>
  <2>1. timer' = None /\ tstate' = Stopped /\ enqueueFlush(o, buffer)
    BY <1>2 DEF FlushPending
  <2>2. /\ Stopped \in [Msgs -> {"off", "armed", "fired"}] /\ buffer \in Seq(Msgs)
        /\ pushpc' \in [Msgs -> {"idle", "done"}] /\ Bounded(buffer)
    BY DEF Stopped, LimitInv, TypeOK, Limits
  <2> QED
    BY <2>1, <2>2, FlushLimits
<1> QED
  BY <1>1, <1>2

(* A task sent to the channel joins the others. *)
LEMMA SentLimits ==
  ASSUME LimitInv, NEW t \in Jobs, Bounded(t.msgs), tasks' = Append(tasks, t),
         UNCHANGED <<serialOnly, current>>,
         \/ t.kind # "barrier" /\ closepc' = closepc
         \/ closepc \in {1, 4} /\ closepc' = closepc + 1
  PROVE  tasks' \in Seq(Jobs) /\ AllBounded(tasks)' /\ OneBarrier'
<1>1. PICK q, p : q = tasks /\ p = tasks'
  OBVIOUS
<1>2. /\ p \in Seq(Jobs) /\ DOMAIN q = 1 .. Len(q) /\ Len(q) \in Nat
      /\ DOMAIN p = DOMAIN q \cup {Len(q) + 1} /\ p[Len(q) + 1] = t
      /\ \A i \in DOMAIN q : p[i] = q[i]
  BY <1>1, AppendOfJobs DEF LimitInv, JobTypes
<1>3. AllBounded(tasks)'
  <2>1. \A i \in DOMAIN p : Bounded(p[i].msgs)
    BY <1>1, <1>2 DEF LimitInv, Limits, AllBounded
  <2> QED
    BY <1>1, <2>1, SameBound DEF AllBounded
<1>4. OneBarrier'
  <2>1. CASE t.kind # "barrier" /\ closepc' = closepc
    BY <1>1, <1>2, <2>1 DEF LimitInv, OneBarrier
  <2>2. CASE closepc \in {1, 4} /\ closepc' = closepc + 1
    <3>1. /\ \A i \in DOMAIN q : q[i].kind # "barrier"
          /\ current = None \/ current.kind # "barrier"
      BY <1>1, <2>2 DEF LimitInv, OneBarrier
    <3>2. closepc' \in {2, 5}
      BY <2>2
    <3> QED
      BY <1>1, <1>2, <3>1, <3>2 DEF OneBarrier
  <2> QED
    BY <2>1, <2>2
<1> QED
  BY <1>1, <1>2, <1>3, <1>4

(* Send takes from the outbox what it puts in the channel. *)
LEMMA SendLimits == ASSUME LimitInv, Send PROVE LimitInv'
<1>0. UNCHANGED <<serialOnly, debounced, quiesce, buffer, timer, tstate, current, worker, closed,
                  pushpc, runpc, closepc>>
  BY DEF Send, cfg, pcs
<1>1. CASE panicked' = TRUE /\ UNCHANGED <<mu, outbox, tasks>>
  <2>1. TypeOK'
    BY <1>0, <1>1 DEF LimitInv, TypeOK
  <2> QED
    BY <1>0, <1>1, <2>1, FrameLimits
<1>2. CASE /\ ~closed /\ Len(tasks) < Cap /\ tasks' = Append(tasks, Head(outbox))
           /\ outbox' = Tail(outbox) /\ UNCHANGED panicked
           /\ mu' = IF Len(outbox) = 1 THEN None ELSE mu
  <2>1. PICK o, t : o = outbox /\ t = Head(outbox)
    OBVIOUS
  <2>2. o \in Seq(Jobs) /\ o # <<>> /\ AllBounded(o) /\ AllBatches(o)
    BY <2>1 DEF Send, LimitInv, JobTypes, Limits
  <2>3. /\ Tail(o) \in Seq(Jobs) /\ t \in Jobs /\ t = o[1] /\ 1 \in DOMAIN o
        /\ \A i \in DOMAIN Tail(o) : i + 1 \in DOMAIN o /\ Tail(o)[i] = o[i + 1]
    BY <2>1, <2>2, TailOfJobs
  <2>4. Bounded(t.msgs) /\ t.kind = "batch"
    BY <2>2, <2>3 DEF AllBounded, AllBatches
  <2>5. AllBatches(Tail(o)) /\ AllBounded(Tail(o))
    BY <2>2, <2>3 DEF AllBounded, AllBatches
  <2>6. tasks' \in Seq(Jobs) /\ AllBounded(tasks)' /\ OneBarrier'
    BY <1>0, <1>2, <2>1, <2>3, <2>4, SentLimits
  <2>7. AllBatches(outbox)' /\ AllBounded(outbox)' /\ outbox' \in Seq(Jobs)
    BY <1>0, <1>2, <2>1, <2>3, <2>5, SameBound DEF AllBatches, AllBounded
  <2>8. Len(tasks') <= Cap
    <3>1. Len(tasks') = Len(tasks) + 1 /\ Len(tasks) \in Nat
      BY <1>2, <2>1, <2>3, AppendOfJobs DEF LimitInv, JobTypes
    <3> QED
      BY <1>2, <3>1, LimitAssumption
  <2>9. TypeOK'
    BY <1>0, <1>2, <2>8 DEF LimitInv, TypeOK
  <2>10. RoomLeft(buffer)' /\ Bounded(buffer)'
    BY <1>0 DEF LimitInv, Limits, RoomLeft, Bounded
  <2> QED
    BY <1>0, <2>6, <2>7, <2>9, <2>10 DEF LimitInv, Limits, JobTypes
<1> QED
  BY <1>1, <1>2 DEF Send

(* Run's task and FlushNow's barrier are sent without the mutex. *)
LEMMA SendTaskLimits ==
  ASSUME LimitInv, NEW t \in Jobs, t.msgs = <<>>, SendTask(t),
         UNCHANGED <<cfg, mu, queue, current, worker, closed, pushpc>>,
         runpc' \in [Runs -> {"idle", "send", "wait", "ran", "done"}],
         \/ t.kind # "barrier" /\ closepc' = closepc
         \/ closepc \in {1, 4} /\ closepc' = closepc + 1
  PROVE  LimitInv'
<1>0. /\ UNCHANGED <<serialOnly, debounced, quiesce, mu, buffer, timer, tstate, outbox>>
      /\ closepc' \in 0 .. 7
  BY DEF cfg, queue, LimitInv, TypeOK
<1>1. CASE panicked' = TRUE /\ UNCHANGED tasks
  <2>1. TypeOK'
    BY <1>0, <1>1 DEF LimitInv, TypeOK
  <2>2. closepc' = closepc \/ closepc \in {0, 1, 3, 4, 6}
    OBVIOUS
  <2> QED
    BY <1>0, <1>1, <2>1, <2>2, FrameLimits
<1>2. CASE ~closed /\ Len(tasks) < Cap /\ tasks' = Append(tasks, t) /\ UNCHANGED panicked
  <2>1. Bounded(t.msgs)
    BY DEF Bounded
  <2>2. tasks' \in Seq(Jobs) /\ AllBounded(tasks)' /\ OneBarrier'
    BY <1>0, <1>2, <2>1, SentLimits
  <2>3. Len(tasks') <= Cap
    <3>1. Len(tasks') = Len(tasks) + 1 /\ Len(tasks) \in Nat
      BY <1>2, AppendOfJobs DEF LimitInv, JobTypes
    <3> QED
      BY <1>2, <3>1, LimitAssumption
  <2>4. TypeOK'
    BY <1>0, <1>2, <2>3 DEF LimitInv, TypeOK
  <2>5. RoomLeft(buffer)' /\ Bounded(buffer)' /\ AllBounded(outbox)' /\ AllBatches(outbox)'
    BY <1>0 DEF LimitInv, Limits, JobTypes, RoomLeft, Bounded, AllBounded, AllBatches
  <2> QED
    BY <1>0, <2>2, <2>4, <2>5 DEF LimitInv, Limits, JobTypes
<1> QED
  BY <1>1, <1>2 DEF SendTask

(* The worker takes the first task, which may be the barrier. *)
LEMMA TakeLimits == ASSUME LimitInv, Take PROVE LimitInv'
<1>0. /\ UNCHANGED <<serialOnly, debounced, quiesce, mu, buffer, timer, tstate, outbox, worker,
                     closed, pushpc, runpc, closepc, panicked>>
      /\ current' = Head(tasks) /\ tasks' = Tail(tasks) /\ tasks # <<>>
  BY DEF Take, cfg, queue, pcs
<1>1. PICK q, p : q = tasks /\ p = tasks'
  OBVIOUS
<1>2. /\ p \in Seq(Jobs) /\ current' \in Jobs /\ current' = q[1] /\ 1 \in DOMAIN q
      /\ Len(p) = Len(q) - 1 /\ Len(q) \in Nat
      /\ \A i \in DOMAIN p : i + 1 \in DOMAIN q /\ i \in Nat /\ p[i] = q[i + 1]
      /\ DOMAIN p = 1 .. Len(p)
  BY <1>0, <1>1, TailOfJobs DEF LimitInv, JobTypes
<1>3. AllBounded(tasks)'
  <2>1. \A i \in DOMAIN p : Bounded(p[i].msgs)
    BY <1>1, <1>2 DEF LimitInv, Limits, AllBounded
  <2> QED
    BY <1>0, <1>1, <2>1, SameBound DEF AllBounded
<1>4. OneBarrier'
  <2>1. \A i \in DOMAIN p : p[i].kind = "barrier" => closepc \in {2, 5} /\ q[1].kind # "barrier"
    BY <1>1, <1>2 DEF LimitInv, OneBarrier
  <2>2. \A i, j \in DOMAIN p : p[i].kind = "barrier" /\ p[j].kind = "barrier" => i = j
    BY <1>1, <1>2 DEF LimitInv, OneBarrier
  <2>3. q[1].kind = "barrier" => closepc \in {2, 5}
    BY <1>1, <1>2 DEF LimitInv, OneBarrier
  <2> QED
    BY <1>0, <1>1, <1>2, <2>1, <2>2, <2>3 DEF OneBarrier
<1>5. Len(tasks') <= Cap
  BY <1>1, <1>2, LimitAssumption DEF LimitInv, TypeOK
<1>6. TypeOK'
  BY <1>0, <1>5 DEF LimitInv, TypeOK
<1>7. RoomLeft(buffer)' /\ Bounded(buffer)' /\ AllBounded(outbox)' /\ AllBatches(outbox)'
  BY <1>0 DEF LimitInv, Limits, JobTypes, RoomLeft, Bounded, AllBounded, AllBatches
<1> QED
  BY <1>0, <1>1, <1>2, <1>3, <1>4, <1>6, <1>7 DEF LimitInv, Limits, JobTypes

(* The task returns; the barrier lets the closer go on. *)
LEMMA FinishLimits == ASSUME LimitInv, Finish PROVE LimitInv'
<1>0. /\ UNCHANGED <<serialOnly, debounced, quiesce, mu, buffer, timer, tstate, outbox, tasks,
                     worker, closed, pushpc, panicked>>
      /\ current # None /\ current' = None
      /\ runpc' = [r \in Runs |-> IF r = current.run THEN "ran" ELSE runpc[r]]
      /\ closepc' = IF current.kind = "barrier" THEN closepc + 1 ELSE closepc
  BY DEF Finish, cfg, queue
<1>1. /\ closepc' \in 0 .. 7
      /\ \A i \in DOMAIN tasks : tasks[i].kind = "barrier" => closepc' \in {2, 5}
  <2>1. CASE current.kind = "barrier"
    BY <1>0, <2>1 DEF LimitInv, OneBarrier, TypeOK
  <2>2. CASE current.kind # "barrier"
    BY <1>0, <2>2 DEF LimitInv, OneBarrier, TypeOK
  <2> QED
    BY <2>1, <2>2
<1>2. OneBarrier'
  BY <1>0, <1>1 DEF LimitInv, OneBarrier
<1>3. runpc' \in [Runs -> {"idle", "send", "wait", "ran", "done"}]
  BY <1>0 DEF LimitInv, TypeOK
<1>4. TypeOK'
  BY <1>0, <1>1, <1>3 DEF LimitInv, TypeOK
<1>5. RoomLeft(buffer)' /\ Bounded(buffer)' /\ AllBounded(outbox)' /\ AllBatches(outbox)'
  BY <1>0 DEF LimitInv, Limits, JobTypes, RoomLeft, Bounded, AllBounded, AllBatches
<1>6. AllBounded(tasks)'
  BY <1>0 DEF LimitInv, Limits, AllBounded, Bounded
<1> QED
  BY <1>0, <1>2, <1>4, <1>5, <1>6 DEF LimitInv, Limits, JobTypes

(* Every step keeps the tasks within the limits, and the barrier alone. *)
LEMMA LimitsKept == LimitInv /\ [Next]_vars => LimitInv'
<1> SUFFICES ASSUME LimitInv, [Next]_vars PROVE LimitInv'
  OBVIOUS
<1>1. ASSUME NEW m \in Msgs, Push(m) PROVE LimitInv'
  BY <1>1, PushLimits
<1>2. ASSUME NEW m \in Msgs, Fire(m) PROVE LimitInv'
  <2>1. /\ UNCHANGED <<serialOnly, debounced, quiesce, mu, buffer, timer, outbox, tasks, current,
                       worker, closed, pushpc, runpc, closepc, panicked>>
        /\ tstate' \in [Msgs -> {"off", "armed", "fired"}]
    BY <1>2 DEF Fire, cfg, pcs, LimitInv, TypeOK
  <2>2. TypeOK'
    BY <2>1 DEF LimitInv, TypeOK
  <2> QED
    BY <2>1, <2>2, FrameLimits
<1>3. ASSUME NEW m \in Msgs, Callback(m) PROVE LimitInv'
  <2>1. /\ UNCHANGED <<cfg, tasks, current, worker, closed, pushpc, runpc, closepc, panicked>>
        /\ timer' = None /\ enqueueFlush(Timer, buffer)
        /\ tstate' \in [Msgs -> {"off", "armed", "fired"}]
    BY <1>3 DEF Callback, pcs, LimitInv, TypeOK
  <2>2. /\ buffer \in Seq(Msgs) /\ Bounded(buffer) /\ Timer \in Owners
        /\ pushpc' \in [Msgs -> {"idle", "done"}]
        /\ runpc' \in [Runs -> {"idle", "send", "wait", "ran", "done"}]
    BY <2>1 DEF LimitInv, TypeOK, Limits, Owners
  <2> QED
    BY <2>1, <2>2, FlushLimits
<1>4. ASSUME NEW r \in Runs, RunFlush(r) PROVE LimitInv'
  <2>1. /\ UNCHANGED <<cfg, tasks, current, worker, closed, pushpc, closepc, panicked>>
        /\ FlushPending(r) /\ r \in Owners
        /\ runpc' \in [Runs -> {"idle", "send", "wait", "ran", "done"}]
    BY <1>4 DEF RunFlush, Owners, LimitInv, TypeOK
  <2> QED
    BY <2>1, PendingLimits
<1>5. CASE CloseFlush
  <2>1. /\ UNCHANGED <<cfg, tasks, current, worker, closed, pushpc, panicked>>
        /\ FlushPending(Closer) /\ Closer \in Owners
        /\ runpc' \in [Runs -> {"idle", "send", "wait", "ran", "done"}]
        /\ closepc \in {0, 3} /\ closepc' = closepc + 1
    BY <1>5 DEF CloseFlush, Owners, LimitInv, TypeOK
  <2> QED
    BY <2>1, PendingLimits
<1>6. CASE Send
  BY <1>6, SendLimits
<1>7. ASSUME NEW r \in Runs, RunSend(r) PROVE LimitInv'
  <2>1. PICK t : t = Task(r)
    OBVIOUS
  <2>2. t \in Jobs /\ t.msgs = <<>> /\ t.kind # "barrier"
    BY <2>1 DEF Task, Jobs
  <2>3. /\ UNCHANGED <<cfg, mu, queue, current, worker, closed, pushpc, closepc>> /\ SendTask(t)
        /\ runpc' \in [Runs -> {"idle", "send", "wait", "ran", "done"}]
    BY <1>7, <2>1 DEF RunSend, LimitInv, TypeOK
  <2> QED
    BY <2>2, <2>3, SendTaskLimits
<1>8. CASE CloseBarrier
  <2>1. PICK t : t = Barrier
    OBVIOUS
  <2>2. t \in Jobs /\ t.msgs = <<>>
    BY <2>1 DEF Barrier, Jobs
  <2>3. /\ UNCHANGED <<cfg, mu, queue, current, worker, closed, pushpc>> /\ SendTask(t)
        /\ runpc' \in [Runs -> {"idle", "send", "wait", "ran", "done"}]
        /\ closepc \in {1, 4} /\ closepc' = closepc + 1
    BY <1>8, <2>1 DEF CloseBarrier, LimitInv, TypeOK
  <2> QED
    BY <2>2, <2>3, SendTaskLimits
<1>9. ASSUME NEW r \in Runs, RunReturn(r) PROVE LimitInv'
  <2>1. /\ UNCHANGED <<serialOnly, debounced, quiesce, mu, buffer, timer, tstate, outbox, tasks,
                       current, worker, closed, pushpc, closepc, panicked>>
        /\ runpc' \in [Runs -> {"idle", "send", "wait", "ran", "done"}]
    BY <1>9 DEF RunReturn, cfg, queue, LimitInv, TypeOK
  <2>2. TypeOK'
    BY <2>1 DEF LimitInv, TypeOK
  <2> QED
    BY <2>1, <2>2, FrameLimits
<1>10. CASE Take
  BY <1>10, TakeLimits
<1>11. CASE Finish
  BY <1>11, FinishLimits
<1>12. CASE Exit
  <2>1. /\ UNCHANGED <<serialOnly, debounced, quiesce, mu, buffer, timer, tstate, outbox, tasks,
                       current, closed, pushpc, runpc, closepc, panicked>>
        /\ worker' = "exited"
    BY <1>12 DEF Exit, cfg, queue, pcs
  <2>2. TypeOK'
    BY <2>1 DEF LimitInv, TypeOK
  <2> QED
    BY <2>1, <2>2, FrameLimits
<1>13. CASE Dispose
  <2>1. /\ UNCHANGED <<serialOnly, debounced, quiesce, mu, buffer, outbox, tasks, current, worker,
                       pushpc, runpc, panicked>>
        /\ closed' = TRUE /\ timer' = None /\ closepc = 6 /\ closepc' = 7
        /\ tstate' \in [Msgs -> {"off", "armed", "fired"}]
    BY <1>13 DEF Dispose, Stopped, cfg, LimitInv, TypeOK
  <2>2. TypeOK'
    BY <2>1 DEF LimitInv, TypeOK
  <2> QED
    BY <2>1, <2>2, FrameLimits
<1>14. CASE Rest \/ UNCHANGED vars
  <2>1. UNCHANGED <<serialOnly, debounced, quiesce, mu, buffer, timer, tstate, outbox, tasks,
                    current, worker, closed, pushpc, runpc, closepc, panicked>>
    BY <1>14 DEF Rest, vars, cfg, queue, pcs
  <2>2. TypeOK'
    BY <2>1 DEF LimitInv, TypeOK
  <2> QED
    BY <2>1, <2>2, FrameLimits
<1> QED
  BY <1>1, <1>2, <1>3, <1>4, <1>5, <1>6, <1>7, <1>8, <1>9, <1>10, <1>11, <1>12, <1>13, <1>14
     DEF Next, System

(* A new queue is empty. *)
LEMMA InitLimits == Init => LimitInv
<1> SUFFICES ASSUME Init PROVE LimitInv
  OBVIOUS
<1>1. TypeOK
  <2>1. /\ mu = None /\ timer = None /\ buffer \in Seq(Msgs) /\ Len(tasks) <= Cap
        /\ worker \in {"running", "exited"} /\ closepc \in 0 .. 7
    BY LimitAssumption DEF Init
  <2>2. /\ tstate \in [Msgs -> {"off", "armed", "fired"}]
        /\ pushpc \in [Msgs -> {"idle", "done"}]
        /\ runpc \in [Runs -> {"idle", "send", "wait", "ran", "done"}]
    BY DEF Init
  <2>3. /\ serialOnly \in BOOLEAN /\ debounced \in BOOLEAN /\ quiesce \in BOOLEAN
        /\ closed \in BOOLEAN /\ panicked \in BOOLEAN
    BY Zenon DEF Init
  <2> QED
    BY <2>1, <2>2, <2>3 DEF TypeOK
<1>2. JobTypes /\ OneBarrier
  BY DEF Init, JobTypes, OneBarrier, AllBatches
<1>3. Limits
  BY DEF Init, Limits, RoomLeft, Bounded, AllBounded
<1> QED
  BY <1>1, <1>2, <1>3 DEF LimitInv

(* In every reachable state the books of the tasks are in order. *)
THEOREM TasksKept == Spec => []LimitInv
  BY InitLimits, LimitsKept, PTL DEF Spec

(* For any limits, lengths of messages and capacity, the channel keeps to   *)
(* its capacity and a batch passes a limit by its last message at most,     *)
(* whichever of Push, Run, FlushNow and stale callbacks flushes it.         *)
THEOREM LimitsRespected == Spec => []BatchWithinLimits
<1>1. LimitInv => BatchWithinLimits
  <2> SUFFICES ASSUME LimitInv PROVE BatchWithinLimits
    OBVIOUS
  <2>1. ASSUME NEW t \in ToSet(tasks) \cup ToSet(outbox) PROVE Bounded(t.msgs)
    BY DEF LimitInv, Limits, AllBounded, ToSet
  <2> QED
    BY <2>1 DEF BatchWithinLimits, Bounded, LimitInv
<1> QED
  BY <1>1, TasksKept, PTL
-----------------------------------------------------------------------------
(* What has been accepted is in order: handled, with the worker, in the     *)
(* channel, in the hands of the owner of cq.mu, in the buffer.  Where one   *)
(* task ends and the next begins in the log is told by an offset per task,  *)
(* which does not change while the task moves towards the worker.           *)

(* The tasks q are the messages a + 1 to z of the log acc, and a task of    *)
(* Run is behind those it has to wait for.                                  *)
Offsets(acc, d, q, off) ==
    \A i \in DOMAIN q :
        /\ off[i + 1] = off[i] + Len(q[i].msgs)
        /\ q[i].msgs = SubSeq(acc, off[i] + 1, off[i + 1])
        /\ q[i].kind = "run" => d[q[i].run] <= off[i]

Chain(acc, d, q, a, z) ==
    \E off \in [1 .. Len(q) + 1 -> 0 .. z] :
        off[1] = a /\ off[Len(q) + 1] = z /\ Offsets(acc, d, q, off)

Taken == IF current = None THEN Len(handled) ELSE Len(handled) + Len(current.msgs)
Flushed == Len(accepted) - Len(buffer)

(* A task is a call of the handler, of Run's function, or a barrier. *)
WellFormed(t) ==
    \/ t.kind = "batch" /\ t.msgs # <<>> /\ t.run = None
    \/ t.kind = "run" /\ t.msgs = <<>> /\ t.run \in Runs
    \/ t.kind = "barrier" /\ t.msgs = <<>> /\ t.run = None

(* The task of a call of Run is in one place, and the caller waits for it. *)
OneTask ==
    /\ \A i \in DOMAIN tasks : tasks[i].kind = "run" => runpc[tasks[i].run] = "wait"
    /\ \A i, j \in DOMAIN tasks :
          tasks[i].kind = "run" /\ tasks[j].kind = "run" /\ tasks[i].run = tasks[j].run => i = j
    /\ current # None /\ current.kind = "run" =>
          /\ runpc[current.run] = "wait"
          /\ \A i \in DOMAIN tasks : tasks[i].kind = "run" => tasks[i].run # current.run

(* Who owns cq.mu has something to send. *)
OwnerSends ==
    /\ mu = None <=> outbox = <<>>
    /\ \A r \in Runs : mu = r => runpc[r] = "send"

HistoryTypes ==
    /\ accepted \in Seq(Msgs) /\ handled \in Seq(Msgs) /\ due \in [Runs -> Nat]
    /\ \A i \in DOMAIN tasks : WellFormed(tasks[i])
    /\ \A i \in DOMAIN outbox : WellFormed(outbox[i])
    /\ current # None => WellFormed(current)

Split(t) ==
    /\ Chain(accepted, due, tasks, Taken, t)
    /\ Chain(accepted, due, outbox, t, Flushed)
    /\ \A r \in Runs : runpc[r] = "send" => due[r] <= IF mu = r THEN Flushed ELSE t

InLog ==
    /\ Len(buffer) <= Len(accepted) /\ buffer = SubSeq(accepted, Flushed + 1, Len(accepted))
    /\ current # None => current.msgs = SubSeq(accepted, Len(handled) + 1, Taken)
    /\ \E t \in 0 .. Flushed : Split(t)

LogInv == LimitInv /\ HistoryTypes /\ OneTask /\ OwnerSends /\ InLog
-----------------------------------------------------------------------------
(* No task, no message. *)
LEMMA ChainEmpty ==
  ASSUME NEW acc, NEW d, NEW a \in Nat
  PROVE  Chain(acc, d, <<>>, a, a)
<1>1. PICK off : off = [i \in 1 .. 1 |-> a]
  OBVIOUS
<1>2. Len(<<>>) + 1 = 1 /\ DOMAIN <<>> = {}
  OBVIOUS
<1>3. off \in [1 .. 1 -> 0 .. a] /\ off[1] = a
  BY <1>1
<1>4. Offsets(acc, d, <<>>, off)
  BY <1>2 DEF Offsets
<1> QED
  BY <1>2, <1>3, <1>4 DEF Chain

LEMMA ChainOfNone ==
  ASSUME NEW acc, NEW d, NEW a, NEW z, Chain(acc, d, <<>>, a, z)
  PROVE  a = z
<1>1. Len(<<>>) + 1 = 1
  OBVIOUS
<1> QED
  BY <1>1 DEF Chain

LEMMA ChainRange ==
  ASSUME NEW acc, NEW d, NEW q \in Seq(Jobs), NEW a, NEW z \in Nat, Chain(acc, d, q, a, z)
  PROVE  a \in 0 .. z
  BY DEF Chain

(* A task sent behind the others takes the messages that come next. *)
LEMMA ChainAppend ==
  ASSUME NEW acc, NEW d, NEW q \in Seq(Jobs), NEW a, NEW z \in Nat,
         Chain(acc, d, q, a, z), NEW t \in Jobs,
         t.msgs = SubSeq(acc, z + 1, z + Len(t.msgs)), t.kind # "run" \/ d[t.run] <= z
  PROVE  Chain(acc, d, Append(q, t), a, z + Len(t.msgs))
<1>1. PICK off \in [1 .. Len(q) + 1 -> 0 .. z] :
         off[1] = a /\ off[Len(q) + 1] = z /\ Offsets(acc, d, q, off)
  BY DEF Chain
<1>2. PICK p, n, y : p = Append(q, t) /\ n = Len(q) /\ y = z + Len(t.msgs)
  OBVIOUS
<1>3. /\ p \in Seq(Jobs) /\ Len(p) = n + 1 /\ n \in Nat /\ DOMAIN q = 1 .. n
      /\ DOMAIN p = DOMAIN q \cup {n + 1} /\ p[n + 1] = t
      /\ \A i \in DOMAIN q : p[i] = q[i]
  BY <1>2, AppendOfJobs
<1>4. Len(t.msgs) \in Nat
  BY DEF Jobs
<1>5. PICK ff : ff = [i \in 1 .. n + 2 |-> IF i = n + 2 THEN y ELSE off[i]]
  OBVIOUS
<1>6. /\ ff \in [1 .. Len(p) + 1 -> 0 .. y] /\ ff[1] = a /\ ff[Len(p) + 1] = y
      /\ \A i \in 1 .. n + 1 : ff[i] = off[i]
  BY <1>1, <1>2, <1>3, <1>4, <1>5
<1>7. Offsets(acc, d, p, ff)
  <2> SUFFICES ASSUME NEW i \in DOMAIN p
               PROVE  /\ ff[i + 1] = ff[i] + Len(p[i].msgs)
                      /\ p[i].msgs = SubSeq(acc, ff[i] + 1, ff[i + 1])
                      /\ p[i].kind = "run" => d[p[i].run] <= ff[i]
    BY DEF Offsets
  <2>1. CASE i = n + 1
    <3>1. ff[i] = z /\ ff[i + 1] = y /\ p[i] = t
      BY <1>1, <1>2, <1>3, <1>5, <1>6, <2>1
    <3> QED
      BY <1>2, <3>1
  <2>2. CASE i \in DOMAIN q
    <3>1. ff[i] = off[i] /\ ff[i + 1] = off[i + 1] /\ p[i] = q[i]
      BY <1>3, <1>6, <2>2
    <3> QED
      BY <1>1, <2>2, <3>1 DEF Offsets
  <2> QED
    BY <1>3, <2>1, <2>2
<1>8. Chain(acc, d, p, a, y)
  BY <1>6, <1>7 DEF Chain
<1> QED
  BY <1>2, <1>8

(* The first task has the first messages, and the rest follow. *)
LEMMA ChainTail ==
  ASSUME NEW acc, NEW d, NEW q \in Seq(Jobs), q # <<>>, NEW a \in Nat, NEW z \in Nat,
         Chain(acc, d, q, a, z)
  PROVE  /\ a + Len(Head(q).msgs) \in 0 .. z
         /\ Head(q).msgs = SubSeq(acc, a + 1, a + Len(Head(q).msgs))
         /\ Head(q).kind = "run" => d[Head(q).run] <= a
         /\ Chain(acc, d, Tail(q), a + Len(Head(q).msgs), z)
<1>1. PICK off \in [1 .. Len(q) + 1 -> 0 .. z] :
         off[1] = a /\ off[Len(q) + 1] = z /\ Offsets(acc, d, q, off)
  BY DEF Chain
<1>2. PICK p, n, y : p = Tail(q) /\ n = Len(q) /\ y = a + Len(Head(q).msgs)
  OBVIOUS
<1>3. /\ p \in Seq(Jobs) /\ Head(q) = q[1] /\ 1 \in DOMAIN q
      /\ Len(p) = n - 1 /\ n \in Nat /\ DOMAIN q = 1 .. n
      /\ \A i \in DOMAIN p : i + 1 \in DOMAIN q /\ i \in Nat /\ p[i] = q[i + 1]
  BY <1>2, TailOfJobs
<1>4. /\ off[2] = y /\ Head(q).msgs = SubSeq(acc, a + 1, off[2])
      /\ Head(q).kind = "run" => d[Head(q).run] <= a
  <2>1. /\ off[1 + 1] = off[1] + Len(q[1].msgs) /\ q[1].msgs = SubSeq(acc, off[1] + 1, off[1 + 1])
        /\ q[1].kind = "run" => d[q[1].run] <= off[1]
    BY <1>1, <1>3 DEF Offsets
  <2>2. 1 + 1 = 2
    OBVIOUS
  <2> QED
    BY <1>1, <1>2, <1>3, <2>1, <2>2
<1>5. off[2] \in 0 .. z
  BY <1>1, <1>2, <1>3
<1>6. PICK ff : ff = [i \in 1 .. n |-> off[i + 1]]
  OBVIOUS
<1>7. /\ ff \in [1 .. Len(p) + 1 -> 0 .. z] /\ ff[1] = y /\ ff[Len(p) + 1] = z
      /\ \A i \in 1 .. n : ff[i] = off[i + 1]
  <2>1. /\ \A i \in 1 .. n : ff[i] = off[i + 1] /\ i + 1 \in 1 .. Len(q) + 1
        /\ ff \in [1 .. n -> 0 .. z]
    <3>1. n = Len(q) /\ n \in Nat
      BY <1>2, <1>3
    <3>2. \A i \in 1 .. n : i + 1 \in 1 .. Len(q) + 1
      BY <3>1
    <3>3. \A i \in 1 .. n : off[i + 1] \in 0 .. z
      BY <1>1, <3>2
    <3> QED
      BY <1>6, <3>2, <3>3
  <2>2. Len(p) + 1 = n /\ 1 \in 1 .. n /\ n \in 1 .. n
    BY <1>3
  <2>3. ff[1] = off[2] /\ ff[n] = off[n + 1]
    BY <2>1, <2>2
  <2> QED
    BY <1>1, <1>2, <1>4, <2>1, <2>2, <2>3
<1>8. Offsets(acc, d, p, ff)
  <2> SUFFICES ASSUME NEW i \in DOMAIN p
               PROVE  /\ ff[i + 1] = ff[i] + Len(p[i].msgs)
                      /\ p[i].msgs = SubSeq(acc, ff[i] + 1, ff[i + 1])
                      /\ p[i].kind = "run" => d[p[i].run] <= ff[i]
    BY DEF Offsets
  <2>1. PICK j : j = i + 1
    OBVIOUS
  <2>2. j \in DOMAIN q /\ p[i] = q[j] /\ ff[i] = off[j] /\ ff[i + 1] = off[j + 1]
    <3>1. i + 1 \in 1 .. n /\ i \in 1 .. n
      BY <1>3
    <3> QED
      BY <1>3, <1>7, <2>1, <3>1
  <2> QED
    BY <1>1, <2>2 DEF Offsets
<1>9. Chain(acc, d, p, y, z)
  BY <1>7, <1>8 DEF Chain
<1> QED
  BY <1>2, <1>4, <1>5, <1>9

(* The log grows behind what is in it. *)
LEMMA SubSeqStays ==
  ASSUME NEW s \in Seq(Msgs), NEW m \in Msgs, NEW i \in Nat, NEW j \in 0 .. Len(s)
  PROVE  SubSeq(Append(s, m), i + 1, j) = SubSeq(s, i + 1, j)
<1>1. PICK u : u = Append(s, m)
  OBVIOUS
<1>2. /\ u \in Seq(Msgs) /\ Len(s) \in Nat /\ DOMAIN s = 1 .. Len(s)
      /\ \A k \in 1 .. Len(s) : u[k] = s[k] /\ s[k] \in Msgs
  BY <1>1
<1>3. \A k \in i + 1 .. j : s[k] \in Msgs /\ u[k] = s[k] /\ u[k] \in Msgs
  BY <1>2
<1>4. i + 1 \in Int /\ j \in Int
  OBVIOUS
<1>5. PICK v, w : v = SubSeq(u, i + 1, j) /\ w = SubSeq(s, i + 1, j)
  OBVIOUS
<1>6. /\ v \in Seq(Msgs) /\ Len(v) = IF i + 1 <= j THEN j - (i + 1) + 1 ELSE 0
      /\ \A k \in 1 .. j - (i + 1) + 1 : v[k] = u[(i + 1) + k - 1]
  BY <1>3, <1>4, <1>5, SubSeqProperties
<1>7. /\ w \in Seq(Msgs) /\ Len(w) = IF i + 1 <= j THEN j - (i + 1) + 1 ELSE 0
      /\ \A k \in 1 .. j - (i + 1) + 1 : w[k] = s[(i + 1) + k - 1]
  BY <1>3, <1>4, <1>5, SubSeqProperties
<1>8. ASSUME NEW k \in 1 .. Len(v) PROVE v[k] = w[k]
  <2>1. k \in 1 .. j - (i + 1) + 1 /\ (i + 1) + k - 1 \in i + 1 .. j
    BY <1>6
  <2>2. v[k] = u[(i + 1) + k - 1] /\ w[k] = s[(i + 1) + k - 1]
    BY <1>6, <1>7, <2>1
  <2> QED
    BY <1>3, <2>1, <2>2
<1>9. v = w
  BY <1>6, <1>7, <1>8, SeqEqual
<1> QED
  BY <1>1, <1>5, <1>9

LEMMA ChainGrows ==
  ASSUME NEW acc \in Seq(Msgs), NEW m \in Msgs, NEW d, NEW q \in Seq(Jobs), NEW a,
         NEW z \in 0 .. Len(acc), Chain(acc, d, q, a, z)
  PROVE  Chain(Append(acc, m), d, q, a, z)
<1>0. z \in Nat /\ Len(acc) \in Nat
  OBVIOUS
<1>1. PICK off \in [1 .. Len(q) + 1 -> 0 .. z] :
         off[1] = a /\ off[Len(q) + 1] = z /\ Offsets(acc, d, q, off)
  BY DEF Chain
<1>2. \A i \in DOMAIN q : off[i] \in Nat /\ off[i + 1] \in 0 .. Len(acc)
  <2>1. \A i \in DOMAIN q : i \in 1 .. Len(q) + 1 /\ i + 1 \in 1 .. Len(q) + 1
    OBVIOUS
  <2> QED
    BY <1>0, <1>1, <2>1
<1>3. \A i \in DOMAIN q : SubSeq(Append(acc, m), off[i] + 1, off[i + 1])
                             = SubSeq(acc, off[i] + 1, off[i + 1])
  BY <1>2, SubSeqStays
<1>4. Offsets(Append(acc, m), d, q, off)
  BY <1>1, <1>3 DEF Offsets
<1> QED
  BY <1>1, <1>4 DEF Chain

(* A call of Run that has no task in q does not concern q. *)
LEMMA ChainOfOthers ==
  ASSUME NEW acc, NEW d, NEW e, NEW q, NEW a, NEW z, Chain(acc, d, q, a, z),
         \A i \in DOMAIN q : q[i].kind = "run" => e[q[i].run] = d[q[i].run]
  PROVE  Chain(acc, e, q, a, z)
<1>1. PICK off \in [1 .. Len(q) + 1 -> 0 .. z] :
         off[1] = a /\ off[Len(q) + 1] = z /\ Offsets(acc, d, q, off)
  BY DEF Chain
<1>2. Offsets(acc, e, q, off)
  BY <1>1 DEF Offsets
<1> QED
  BY <1>1, <1>2 DEF Chain

(* One message of the log. *)
LEMMA OneOfLog ==
  ASSUME NEW acc \in Seq(Msgs), NEW k \in 1 .. Len(acc)
  PROVE  SubSeq(acc, k, k) = <<acc[k]>>
<1>1. k \in Int /\ acc[k] \in Msgs /\ \A j \in k .. k : j = k
  OBVIOUS
<1>2. \A j \in k .. k : acc[j] \in Msgs
  BY <1>1
<1>3. /\ SubSeq(acc, k, k) \in Seq(Msgs)
      /\ Len(SubSeq(acc, k, k)) = IF k <= k THEN k - k + 1 ELSE 0
      /\ \A j \in 1 .. k - k + 1 : SubSeq(acc, k, k)[j] = acc[k + j - 1]
  BY <1>1, <1>2, SubSeqProperties
<1>4. PICK v, w : v = SubSeq(acc, k, k) /\ w = <<acc[k]>>
  OBVIOUS
<1>5. k - k + 1 = 1 /\ k + 1 - 1 = k /\ 1 \in 1 .. 1
  BY <1>1
<1>6. v \in Seq(Msgs) /\ Len(v) = 1 /\ v[1] = acc[k]
  BY <1>3, <1>4, <1>5
<1>7. w \in Seq(Msgs) /\ Len(w) = 1 /\ w[1] = acc[k]
  BY <1>1, <1>4
<1>8. \A j \in 1 .. Len(v) : v[j] = w[j]
  BY <1>6, <1>7
<1>9. v = w
  BY <1>6, <1>7, <1>8, SeqEqual
<1> QED
  BY <1>4, <1>9

(* A flush turns the end of the log into tasks. *)
LEMMA ChainFlush ==
  ASSUME NEW acc \in Seq(Msgs), NEW d, NEW b \in Seq(Msgs), b # <<>>, NEW t \in Nat,
         t + Len(b) <= Len(acc), b = SubSeq(acc, t + 1, t + Len(b))
  PROVE  /\ Chain(acc, d, Dispatches(b), t, t + Len(b))
         /\ \A i \in DOMAIN Dispatches(b) : WellFormed(Dispatches(b)[i])
<1>0. PICK n, z : n = Len(b) /\ z = t + n
  OBVIOUS
<1>1. n \in Nat /\ z \in Nat /\ DOMAIN b = 1 .. n /\ n > 0 /\ Len(acc) \in Nat
  BY <1>0
<1>2. CASE serialOnly
  <2>1. PICK q : q = Dispatches(b)
    OBVIOUS
  <2>2. q = [i \in 1 .. n |-> Batch(<<b[i]>>)]
    BY <1>1, <1>2, <2>1 DEF Dispatches
  <2>3. \A i \in 1 .. n : q[i].kind = "batch" /\ q[i].msgs = <<b[i]>> /\ q[i].run = None
    BY <2>2 DEF Batch
  <2>4. Len(q) = n /\ DOMAIN q = 1 .. n
    BY <1>1, <2>2
  <2>5. ASSUME NEW i \in DOMAIN q PROVE WellFormed(q[i])
    <3>1. <<b[i]>> # <<>>
      OBVIOUS
    <3> QED
      BY <2>3, <2>4, <3>1 DEF WellFormed
  <2>6. PICK off : off = [i \in 1 .. n + 1 |-> t + i - 1]
    OBVIOUS
  <2>7. off \in [1 .. Len(q) + 1 -> 0 .. z] /\ off[1] = t /\ off[Len(q) + 1] = z
    BY <1>0, <1>1, <2>4, <2>6
  <2>8. ASSUME NEW i \in DOMAIN q
        PROVE  /\ off[i + 1] = off[i] + Len(q[i].msgs)
               /\ q[i].msgs = SubSeq(acc, off[i] + 1, off[i + 1])
    <3>1. i \in 1 .. n /\ off[i] = t + i - 1 /\ off[i + 1] = t + i /\ t + i \in 1 .. Len(acc)
      BY <1>0, <1>1, <2>4, <2>6
    <3>2. b[i] = acc[t + i]
      BY <1>0, <1>1, <3>1
    <3>3. SubSeq(acc, t + i, t + i) = <<acc[t + i]>>
      BY <3>1, OneOfLog
    <3>4. off[i] + 1 = t + i
      BY <3>1
    <3>5. q[i].msgs = <<b[i]>> /\ Len(<<b[i]>>) = 1
      BY <2>3, <3>1
    <3>6. off[i + 1] = off[i] + 1
      BY <3>1
    <3> QED
      BY <3>1, <3>2, <3>3, <3>4, <3>5, <3>6
  <2>9. Offsets(acc, d, q, off)
    BY <2>3, <2>4, <2>8 DEF Offsets
  <2>10. Chain(acc, d, q, t, z)
    BY <2>7, <2>9 DEF Chain
  <2> QED
    BY <1>0, <2>1, <2>5, <2>10
<1>3. CASE ~serialOnly
  <2>1. PICK c : c = Batch(b)
    OBVIOUS
  <2>2. c.kind = "batch" /\ c.msgs = b /\ c.run = None /\ c \in Jobs
    BY <2>1 DEF Batch, Jobs
  <2>3. Dispatches(b) = <<c>> /\ <<c>> = Append(<<>>, c)
    BY <1>3, <2>1 DEF Dispatches
  <2>4. Chain(acc, d, <<>>, t, t) /\ <<>> \in Seq(Jobs)
    BY ChainEmpty
  <2>5. c.msgs = SubSeq(acc, t + 1, t + Len(c.msgs)) /\ (c.kind # "run" \/ d[c.run] <= t)
    BY <2>2
  <2>6. Chain(acc, d, Append(<<>>, c), t, t + Len(c.msgs))
    BY <2>2, <2>4, <2>5, ChainAppend
  <2>7. \A i \in DOMAIN <<c>> : WellFormed(<<c>>[i])
    BY <2>2 DEF WellFormed
  <2> QED
    BY <2>2, <2>3, <2>6, <2>7
<1> QED
  BY <1>2, <1>3

-----------------------------------------------------------------------------
(* The places a message passes on its way, in numbers. *)
LEMMA LogFacts ==
  ASSUME LogInv
  PROVE  /\ Len(accepted) \in Nat /\ Len(buffer) \in Nat /\ Len(handled) \in Nat
         /\ Flushed \in 0 .. Len(accepted) /\ Taken \in 0 .. Flushed
         /\ Len(accepted) = Flushed + Len(buffer)
<1>1. /\ accepted \in Seq(Msgs) /\ handled \in Seq(Msgs) /\ buffer \in Seq(Msgs)
      /\ Len(buffer) <= Len(accepted) /\ tasks \in Seq(Jobs) /\ outbox \in Seq(Jobs)
  BY DEF LogInv, LimitInv, TypeOK, JobTypes, HistoryTypes, InLog
<1>2. /\ Len(accepted) \in Nat /\ Len(buffer) \in Nat /\ Len(handled) \in Nat
      /\ Flushed \in 0 .. Len(accepted) /\ Len(accepted) = Flushed + Len(buffer)
  BY <1>1 DEF Flushed
<1>3. PICK t \in 0 .. Flushed : Split(t)
  BY DEF LogInv, InLog
<1>4. t \in Nat /\ t <= Flushed
  BY <1>2, <1>3
<1>5. Taken \in 0 .. t
  BY <1>1, <1>3, <1>4, ChainRange DEF Split
<1>6. Taken \in 0 .. Flushed
  BY <1>2, <1>4, <1>5
<1> QED
  BY <1>2, <1>6

(* While cq.mu is free, all that was flushed is in the channel or beyond. *)
LEMMA FreeFacts ==
  ASSUME LogInv, mu = None
  PROVE  outbox = <<>> /\ Split(Flushed)
<1>1. outbox = <<>>
  BY DEF LogInv, OwnerSends
<1>2. PICK t \in 0 .. Flushed : Split(t)
  BY DEF LogInv, InLog
<1>3. t = Flushed
  BY <1>1, <1>2, ChainOfNone DEF Split
<1> QED
  BY <1>1, <1>2, <1>3

(* A step that moves no message and calls nobody. *)
LEMMA FrameLog ==
  ASSUME LogInv, LimitInv',
         UNCHANGED <<tasks, outbox, current, buffer, mu, runpc, accepted, handled, due>>
  PROVE  LogInv'
<1>1. HistoryTypes'
  BY DEF LogInv, HistoryTypes, WellFormed
<1>2. OneTask' /\ OwnerSends'
  BY DEF LogInv, OneTask, OwnerSends
<1>3. Taken' = Taken /\ Flushed' = Flushed
  BY DEF Taken, Flushed
<1>4. InLog'
  <2>1. PICK t \in 0 .. Flushed : Split(t)
    BY DEF LogInv, InLog
  <2>2. Split(t)'
    BY <1>3, <2>1 DEF Split
  <2>3. /\ Len(buffer') <= Len(accepted')
        /\ buffer' = SubSeq(accepted', Flushed' + 1, Len(accepted'))
        /\ current' # None => current'.msgs = SubSeq(accepted', Len(handled') + 1, Taken')
    BY <1>3 DEF LogInv, InLog
  <2> QED
    BY <1>3, <2>1, <2>2, <2>3 DEF InLog
<1> QED
  BY <1>1, <1>2, <1>4 DEF LogInv

(* A flush: what is behind Flushed in the log becomes tasks, in the hands   *)
(* of o, who calls for what it may wait for.                                *)
LEMMA FlushLog ==
  ASSUME LogInv, LimitInv', mu = None,
         NEW b \in Seq(Msgs), NEW o \in Owners, enqueueFlush(o, b),
         UNCHANGED <<tasks, current, handled>>, OneTask',
         accepted' \in Seq(Msgs), due' \in [Runs -> Nat],
         Chain(accepted', due', tasks, Taken, Flushed),
         Flushed + Len(b) = Len(accepted'), b = SubSeq(accepted', Flushed + 1, Len(accepted')),
         current # None => current.msgs = SubSeq(accepted', Len(handled) + 1, Taken),
         \A r \in Runs : r = o => runpc'[r] = "send",
         \A r \in Runs : runpc'[r] = "send" =>
             due'[r] <= IF r = o THEN Len(accepted') ELSE Flushed
  PROVE  LogInv'
<1>0. /\ Flushed \in Nat /\ Len(b) \in Nat /\ Len(accepted') \in Nat /\ Flushed <= Len(accepted')
      /\ (b = <<>> => Len(accepted') = Flushed)
  <2>1. Flushed \in 0 .. Len(accepted) /\ Len(accepted) \in Nat
    BY LogFacts
  <2>2. PICK f, l, n : f = Flushed /\ l = Len(accepted') /\ n = Len(b)
    OBVIOUS
  <2>3. n \in Nat /\ f \in Nat /\ f + n = l /\ (b = <<>> => n = 0)
    <3>1. Len(b) \in Nat /\ Len(<<>>) = 0
      BY ONLY b \in Seq(Msgs)
    <3>2. Flushed \in Nat
      BY ONLY <2>1
    <3>3. Flushed + Len(b) = Len(accepted')
      OBVIOUS
    <3> QED
      BY ONLY <2>2, <3>1, <3>2, <3>3
  <2>4. l \in Nat /\ f <= l /\ (b = <<>> => l = f)
    BY <2>3
  <2> QED
    BY <2>2, <2>3, <2>4
<1>1. buffer' = <<>> /\ Taken' = Taken /\ Flushed' = Len(accepted')
  BY <1>0 DEF enqueueFlush, Taken, Flushed
<1>2. /\ OwnerSends' /\ Chain(accepted', due', outbox', Flushed, Len(accepted'))
      /\ \A i \in DOMAIN outbox' : WellFormed(outbox'[i])
  <2>0. o # None /\ \A r \in Runs : r # None
    BY OwnersDistinct DEF Owners
  <2>1. CASE b = <<>>
    <3>1. outbox' = <<>> /\ mu' = None /\ Len(accepted') = Flushed
      BY <1>0, <2>1, Zenon DEF enqueueFlush
    <3>2. Chain(accepted', due', <<>>, Flushed, Flushed)
      BY <1>0, ChainEmpty
    <3> QED
      BY <2>0, <3>1, <3>2 DEF OwnerSends
  <2>2. CASE b # <<>>
    <3>1. outbox' = Dispatches(b) /\ mu' = o
      BY <2>2 DEF enqueueFlush
    <3>2. PICK acc, d, f : acc = accepted' /\ d = due' /\ f = Flushed
      OBVIOUS
    <3>3. acc \in Seq(Msgs) /\ f \in Nat /\ f + Len(b) <= Len(acc) /\ f + Len(b) = Len(acc)
          /\ b = SubSeq(acc, f + 1, f + Len(b))
      BY <1>0, <3>2
    <3>4. /\ Chain(acc, d, Dispatches(b), f, f + Len(b))
          /\ \A i \in DOMAIN Dispatches(b) : WellFormed(Dispatches(b)[i])
      BY <2>2, <3>3, ChainFlush
    <3>5. Dispatches(b) # <<>>
      <4>1. CASE serialOnly
        <5>1. 1 \in DOMAIN b /\ DOMAIN Dispatches(b) = DOMAIN b
          BY <2>2, <4>1 DEF Dispatches
        <5>2. DOMAIN <<>> = {}
          OBVIOUS
        <5> QED
          BY <5>1, <5>2
      <4>2. CASE ~serialOnly
        BY <4>2 DEF Dispatches
      <4> QED
        BY <4>1, <4>2
    <3> QED
      BY <2>0, <3>1, <3>2, <3>3, <3>4, <3>5 DEF OwnerSends
  <2> QED
    BY <2>1, <2>2
<1>3. HistoryTypes'
  <2>1. \A i \in DOMAIN outbox' : WellFormed(outbox'[i])
    BY <1>2
  <2> QED
    BY <2>1 DEF LogInv, HistoryTypes, WellFormed
<1>4. \A r \in Runs : runpc'[r] = "send" => due'[r] <= IF mu' = r THEN Len(accepted') ELSE Flushed
  <2>1. /\ \A r \in Runs : r # None
        /\ mu' = IF b = <<>> THEN None ELSE o
    BY OwnersDistinct DEF enqueueFlush
  <2>2. CASE b = <<>>
    BY <1>0, <2>1, <2>2
  <2>3. CASE b # <<>>
    BY <2>1, <2>3
  <2> QED
    BY <2>2, <2>3
<1>5. PICK f : f = Flushed
  OBVIOUS
<1>6. Split(f)'
  BY <1>1, <1>2, <1>4, <1>5 DEF Split
<1>7. f \in 0 .. Flushed' /\ Len(buffer') <= Len(accepted')
  BY <1>0, <1>1, <1>5
<1>8. buffer' = SubSeq(accepted', Flushed' + 1, Len(accepted'))
  <2>1. PICK l, acc : l = Len(accepted') /\ acc = accepted'
    OBVIOUS
  <2>2. SubSeq(acc, l + 1, l) = <<>>
    <3>1. l \in Int /\ l + 1 \in Int /\ l < l + 1
      BY <1>0, <2>1
    <3> QED
      BY <3>1, SubSeqEmpty
  <2> QED
    BY <1>1, <2>1, <2>2
<1>9. current' # None => current'.msgs = SubSeq(accepted', Len(handled') + 1, Taken')
  BY <1>1
<1>10. InLog'
  BY <1>6, <1>7, <1>8, <1>9 DEF InLog
<1> QED
  BY <1>2, <1>3, <1>10 DEF LogInv

(* The end of the log and the buffer grow together. *)
LEMMA BufferGrows ==
  ASSUME NEW acc \in Seq(Msgs), NEW m \in Msgs, NEW f \in 0 .. Len(acc), NEW b,
         b = SubSeq(acc, f + 1, Len(acc))
  PROVE  Append(b, m) = SubSeq(Append(acc, m), f + 1, Len(acc) + 1)
<1>1. PICK u, l : u = Append(acc, m) /\ l = Len(acc)
  OBVIOUS
<1>2. u \in Seq(Msgs) /\ Len(u) = l + 1 /\ u[l + 1] = m /\ l \in Nat
  BY <1>1
<1>3. f + 1 \in 1 .. Len(u) /\ l + 1 \in f + 1 .. Len(u) /\ l + 1 - 1 = l /\ f \in Nat /\ l \in 0 .. Len(acc)
  BY <1>1, <1>2
<1>4. SubSeq(u, f + 1, l + 1) = SubSeq(u, f + 1, l) \o <<m>>
  <2>1. PICK k, j : k = f + 1 /\ j = l + 1
    OBVIOUS
  <2>2. k \in 1 .. Len(u) /\ j \in k .. Len(u) /\ u \in Seq(Msgs)
    BY <1>2, <1>3, <2>1
  <2>3. SubSeq(u, k, j) = SubSeq(u, k, j - 1) \o <<u[j]>>
    BY ONLY <2>2, SubSeqRecursiveSecond
  <2>4. j - 1 = l /\ u[j] = m
    BY <1>2, <2>1
  <2> QED
    BY ONLY <2>1, <2>3, <2>4, Zenon
<1>5. SubSeq(u, f + 1, l) = b
  BY <1>1, <1>3, SubSeqStays
<1>6. b \in Seq(Msgs)
  <2>1. \A i \in f + 1 .. Len(acc) : acc[i] \in Msgs
    OBVIOUS
  <2>2. f + 1 \in Int /\ Len(acc) \in Int
    OBVIOUS
  <2>3. SubSeq(acc, f + 1, Len(acc)) \in Seq(Msgs)
    BY <2>1, <2>2, SubSeqProperties
  <2> QED
    BY <2>3
<1>7. Append(b, m) = b \o <<m>>
  BY <1>6, AppendIsConcat
<1> QED
  BY <1>1, <1>4, <1>5, <1>7

(* Push puts a message at the end of the log, and of the buffer. *)
LEMMA PushLog == ASSUME LogInv, LimitInv', NEW m \in Msgs, Push(m) PROVE LogInv'
<1>0. /\ mu = None /\ accepted' = Append(accepted, m)
      /\ UNCHANGED <<tasks, current, runpc, handled, due>>
  BY DEF Push
<1>1. outbox = <<>> /\ Split(Flushed)
  BY <1>0, FreeFacts
<1>2. PICK b, acc, f : b = Append(buffer, m) /\ acc = accepted /\ f = Flushed
  OBVIOUS
<1>3. /\ Len(acc) \in Nat /\ f \in 0 .. Len(acc) /\ Len(acc) = f + Len(buffer) /\ Taken \in 0 .. f
      /\ Len(handled) \in Nat
  BY <1>2, LogFacts
<1>4. acc \in Seq(Msgs) /\ buffer \in Seq(Msgs) /\ buffer = SubSeq(acc, f + 1, Len(acc))
  BY <1>2 DEF LogInv, HistoryTypes, LimitInv, TypeOK, InLog
<1>5. /\ b \in Seq(Msgs) /\ Len(b) = Len(buffer) + 1
      /\ Append(acc, m) \in Seq(Msgs) /\ Len(Append(acc, m)) = Len(acc) + 1
      /\ b = SubSeq(Append(acc, m), f + 1, Len(acc) + 1)
  <2>1. buffer \in Seq(Msgs) /\ acc \in Seq(Msgs)
    BY <1>4
  <2>2. /\ b \in Seq(Msgs) /\ Len(b) = Len(buffer) + 1
        /\ Append(acc, m) \in Seq(Msgs) /\ Len(Append(acc, m)) = Len(acc) + 1
    BY <1>2, <2>1, AppendProperties
  <2>3. PICK c : c = buffer
    OBVIOUS
  <2>4. Append(c, m) = SubSeq(Append(acc, m), f + 1, Len(acc) + 1)
    BY <1>3, <1>4, <2>3, BufferGrows
  <2> QED
    BY <1>2, <2>2, <2>3, <2>4
<1>6. f + Len(b) = Len(acc) + 1 /\ Len(buffer) \in Nat
  <2>1. Len(buffer) \in Nat
    BY LogFacts
  <2>2. PICK k, l : k = Len(buffer) /\ l = Len(b)
    OBVIOUS
  <2> QED
    BY <1>3, <1>5, <2>1, <2>2
<1>7. Chain(Append(acc, m), due, tasks, Taken, f)
  <2>1. tasks \in Seq(Jobs) /\ Chain(acc, due, tasks, Taken, f)
    BY <1>1, <1>2 DEF Split, LogInv, LimitInv, JobTypes
  <2> QED
    BY <1>3, <1>4, <2>1, ChainGrows
<1>8. current # None => current.msgs = SubSeq(Append(acc, m), Len(handled) + 1, Taken)
  <2>1. SubSeq(Append(acc, m), Len(handled) + 1, Taken) = SubSeq(acc, Len(handled) + 1, Taken)
    <3>1. Taken \in 0 .. Len(acc)
      BY <1>3
    <3> QED
      BY <1>3, <1>4, <3>1, SubSeqStays
  <2> QED
    BY <1>2, <2>1 DEF LogInv, InLog
<1>9. OneTask' /\ due' \in [Runs -> Nat]
  BY <1>0 DEF LogInv, OneTask, HistoryTypes
<1>10. \A r \in Runs : r # m
  BY OwnersDistinct
<1>11. \A r \in Runs : runpc'[r] = "send" => due'[r] <= Flushed
  <2>1. \A r \in Runs : r # None
    BY OwnersDistinct
  <2> QED
    BY <1>0, <1>1, <2>1 DEF Split
<1>12. CASE enqueueFlush(m, b)
  <2>1. m \in Owners
    BY DEF Owners
  <2>2. /\ accepted' \in Seq(Msgs) /\ Chain(accepted', due', tasks, Taken, Flushed)
        /\ Flushed + Len(b) = Len(accepted') /\ b = SubSeq(accepted', Flushed + 1, Len(accepted'))
        /\ current # None => current.msgs = SubSeq(accepted', Len(handled) + 1, Taken)
    BY <1>0, <1>2, <1>5, <1>6, <1>7, <1>8
  <2>3. \A r \in Runs : runpc'[r] = "send" => due'[r] <= IF r = m THEN Len(accepted') ELSE Flushed
    BY <1>10, <1>11
  <2>4. \A r \in Runs : r = m => runpc'[r] = "send"
    BY <1>10
  <2> QED
    BY <1>0, <1>5, <1>9, <1>12, <2>1, <2>2, <2>3, <2>4, FlushLog
<1>13. CASE Arm(m, b)
  <2>1. buffer' = b /\ UNCHANGED <<mu, outbox>>
    BY <1>13 DEF Arm
  <2>2. Taken' = Taken /\ Flushed' = f
    BY <1>0, <1>2, <1>3, <1>5, <1>6, <2>1 DEF Taken, Flushed
  <2>3. HistoryTypes'
    BY <1>0, <1>2, <1>5, <2>1 DEF LogInv, HistoryTypes, WellFormed
  <2>4. OwnerSends'
    BY <1>0, <2>1 DEF LogInv, OwnerSends
  <2>5. Chain(accepted', due', outbox', f, f)
    BY <1>1, <1>3, <2>1, ChainEmpty
  <2>6. Split(f)'
    <3>1. Chain(accepted', due', tasks', Taken', f)
      BY <1>0, <1>2, <1>7, <2>2
    <3>2. \A r \in Runs : runpc'[r] = "send" => due'[r] <= f
      BY <1>2, <1>11
    <3> QED
      BY <2>2, <2>5, <3>1, <3>2 DEF Split
  <2>7. /\ Len(buffer') <= Len(accepted') /\ f \in 0 .. Flushed'
        /\ buffer' = SubSeq(accepted', Flushed' + 1, Len(accepted'))
    <3>1. Len(accepted') = Len(acc) + 1
      BY <1>0, <1>2, <1>5
    <3> QED
      BY <1>0, <1>2, <1>3, <1>5, <1>6, <2>1, <2>2, <3>1
  <2>8. current' # None => current'.msgs = SubSeq(accepted', Len(handled') + 1, Taken')
    BY <1>0, <1>2, <1>8, <2>2
  <2>9. InLog'
    BY <2>6, <2>7, <2>8 DEF InLog
  <2> QED
    BY <1>9, <2>3, <2>4, <2>9 DEF LogInv
<1> QED
  BY <1>2, <1>12, <1>13 DEF Push

(* A flush of the buffer as it stands, by o, who may be a caller of Run. *)
LEMMA PendingLog ==
  ASSUME LogInv, LimitInv', mu = None, NEW o \in Owners, enqueueFlush(o, buffer),
         UNCHANGED <<tasks, current, handled, accepted>>, OneTask',
         due' \in [Runs -> Nat],
         \A i \in DOMAIN tasks : tasks[i].kind = "run" => due'[tasks[i].run] = due[tasks[i].run],
         \A r \in Runs : r = o => runpc'[r] = "send",
         \A r \in Runs \ {o} : runpc'[r] = "send" => runpc[r] = "send" /\ due'[r] = due[r],
         \A r \in Runs : r = o => due'[r] <= Len(accepted)
  PROVE  LogInv'
<1>1. Split(Flushed)
  BY FreeFacts
<1>2. PICK b : b = buffer
  OBVIOUS
<1>3. /\ b \in Seq(Msgs) /\ accepted' \in Seq(Msgs) /\ enqueueFlush(o, b)
      /\ b = SubSeq(accepted', Flushed + 1, Len(accepted'))
      /\ current # None => current.msgs = SubSeq(accepted', Len(handled) + 1, Taken)
  BY <1>2 DEF LogInv, LimitInv, TypeOK, HistoryTypes, InLog
<1>4. Flushed + Len(b) = Len(accepted')
  BY <1>2, LogFacts
<1>5. Chain(accepted', due', tasks, Taken, Flushed)
  <2>1. PICK acc, d, e, q, a, z : /\ acc = accepted /\ d = due /\ e = due' /\ q = tasks
                                  /\ a = Taken /\ z = Flushed
    OBVIOUS
  <2>2. Chain(acc, d, q, a, z) /\ \A i \in DOMAIN q : q[i].kind = "run" => e[q[i].run] = d[q[i].run]
    BY <1>1, <2>1 DEF Split
  <2>3. Chain(acc, e, q, a, z)
    BY <2>2, ChainOfOthers
  <2> QED
    BY <2>1, <2>3
<1>6. \A r \in Runs : runpc'[r] = "send" => due'[r] <= IF r = o THEN Len(accepted') ELSE Flushed
  <2>1. \A r \in Runs : r # None
    BY OwnersDistinct
  <2> QED
    BY <1>1, <2>1 DEF Split
<1> QED
  BY <1>3, <1>4, <1>5, <1>6, FlushLog

(* The tasks of Run and their callers, when one caller that has no task     *)
(* goes on.                                                                 *)
LEMMA OneTaskElsewhere ==
  ASSUME OneTask, HistoryTypes, UNCHANGED <<tasks, current>>, NEW r \in Runs, NEW l,
         runpc \in [Runs -> {"idle", "send", "wait", "ran", "done"}],
         runpc' = [runpc EXCEPT ![r] = l], runpc[r] # "wait"
  PROVE  /\ OneTask'
         /\ \A i \in DOMAIN tasks : tasks[i].kind = "run" => tasks[i].run # r
<1>1. \A s \in Runs \ {r} : runpc'[s] = runpc[s]
  OBVIOUS
<1>2. \A i \in DOMAIN tasks : tasks[i].kind = "run" =>
         tasks[i].run # r /\ runpc'[tasks[i].run] = "wait"
  BY <1>1 DEF OneTask, HistoryTypes, WellFormed
<1>3. current # None /\ current.kind = "run" => runpc'[current.run] = "wait"
  BY <1>1 DEF OneTask, HistoryTypes, WellFormed
<1> QED
  BY <1>2, <1>3 DEF OneTask

(* The callbacks of timers, and the closer, flush for nobody. *)
LEMMA CallbackLog == ASSUME LogInv, LimitInv', NEW m \in Msgs, Callback(m) PROVE LogInv'
<1>1. /\ mu = None /\ enqueueFlush(Timer, buffer) /\ Timer \in Owners
      /\ UNCHANGED <<tasks, current, handled, accepted, due, runpc>>
  BY DEF Callback, Owners, pcs, ghosts
<1>2. OneTask' /\ due' \in [Runs -> Nat] /\ \A r \in Runs : r # Timer
  BY <1>1, OwnersDistinct DEF LogInv, OneTask, HistoryTypes
<1> QED
  BY <1>1, <1>2, PendingLog

LEMMA CloseFlushLog == ASSUME LogInv, LimitInv', CloseFlush PROVE LogInv'
<1>1. /\ mu = None /\ UNCHANGED <<tasks, current, handled, accepted, due, runpc>> /\ Closer \in Owners
  BY DEF CloseFlush, FlushPending, Owners, ghosts
<1>2. OneTask' /\ due' \in [Runs -> Nat] /\ \A r \in Runs : r # Closer
  BY <1>1, OwnersDistinct DEF LogInv, OneTask, HistoryTypes
<1>3. CASE buffer = <<>>
  BY <1>1, <1>3, FrameLog DEF CloseFlush, FlushPending, queue
<1>4. CASE enqueueFlush(Closer, buffer)
  BY <1>1, <1>2, <1>4, PendingLog
<1> QED
  BY <1>3, <1>4 DEF CloseFlush, FlushPending

(* Run waits for what was accepted before its call, and flushes it. *)
LEMMA RunFlushLog == ASSUME LogInv, LimitInv', NEW r \in Runs, RunFlush(r) PROVE LogInv'
<1>0. runpc \in [Runs -> {"idle", "send", "wait", "ran", "done"}] /\ due \in [Runs -> Nat]
  BY DEF LogInv, LimitInv, TypeOK, HistoryTypes
<1>1. /\ mu = None /\ UNCHANGED <<tasks, current, handled, accepted>> /\ r \in Owners
      /\ runpc[r] = "idle" /\ runpc' = [runpc EXCEPT ![r] = "send"]
      /\ due' = [due EXCEPT ![r] = Len(accepted)]
  BY DEF RunFlush, FlushPending, Owners
<1>2. OneTask' /\ \A i \in DOMAIN tasks : tasks[i].kind = "run" => tasks[i].run # r
  BY <1>0, <1>1, OneTaskElsewhere DEF LogInv
<1>3. /\ due' \in [Runs -> Nat] /\ due'[r] = Len(accepted) /\ runpc'[r] = "send"
      /\ \A s \in Runs \ {r} : due'[s] = due[s] /\ runpc'[s] = runpc[s]
  BY <1>0, <1>1, LogFacts
<1>4. \A i \in DOMAIN tasks : tasks[i].kind = "run" => due'[tasks[i].run] = due[tasks[i].run]
  BY <1>2, <1>3 DEF LogInv, HistoryTypes, WellFormed
<1>5. due'[r] <= Len(accepted)
  BY <1>3, LogFacts
<1>6. CASE buffer = <<>>
  <2>1. UNCHANGED <<mu, buffer, outbox>> /\ outbox = <<>> /\ Split(Flushed)
    BY <1>1, <1>6, FreeFacts DEF RunFlush, FlushPending, queue
  <2>2. Taken' = Taken /\ Flushed' = Flushed /\ Flushed = Len(accepted) /\ Flushed \in Nat
    <3>1. Len(buffer) = 0
      BY <1>6
    <3> QED
      BY <1>1, <2>1, <3>1, LogFacts DEF Taken, Flushed
  <2>3. PICK acc, d, e, q, a, z : /\ acc = accepted /\ d = due /\ e = due' /\ q = tasks
                                  /\ a = Taken /\ z = Flushed
    OBVIOUS
  <2>4. Chain(acc, d, q, a, z) /\ \A i \in DOMAIN q : q[i].kind = "run" => e[q[i].run] = d[q[i].run]
    BY <1>4, <2>1, <2>3 DEF Split
  <2>5. Chain(acc, e, q, a, z) /\ Chain(acc, e, <<>>, z, z)
    BY <2>2, <2>3, <2>4, ChainOfOthers, ChainEmpty
  <2>6. \A s \in Runs : runpc'[s] = "send" => due'[s] <= z
    <3>1. \A s \in Runs : s # None
      BY OwnersDistinct
    <3>2. due'[r] <= z
      BY <1>5, <2>2, <2>3
    <3>3. \A s \in Runs \ {r} : runpc'[s] = "send" => due'[s] <= z
      BY <1>1, <1>3, <2>1, <2>3, <3>1 DEF Split
    <3> QED
      BY <3>2, <3>3
  <2>7. Split(z)'
    BY <1>1, <2>1, <2>2, <2>3, <2>5, <2>6 DEF Split
  <2>8. InLog'
    <3>1. z \in 0 .. Flushed'
      BY <2>2, <2>3
    <3>2. /\ Len(buffer') <= Len(accepted')
          /\ buffer' = SubSeq(accepted', Flushed' + 1, Len(accepted'))
          /\ current' # None => current'.msgs = SubSeq(accepted', Len(handled') + 1, Taken')
      BY <1>1, <2>1, <2>2 DEF LogInv, InLog
    <3> QED
      BY <2>7, <3>1, <3>2 DEF InLog
  <2>9. HistoryTypes'
    BY <1>1, <1>3, <2>1 DEF LogInv, HistoryTypes, WellFormed
  <2>10. OwnerSends'
    <3>1. \A s \in Runs : s # None
      BY OwnersDistinct
    <3> QED
      BY <1>1, <2>1, <3>1 DEF OwnerSends
  <2> QED
    BY <1>2, <2>8, <2>9, <2>10 DEF LogInv
<1>7. CASE enqueueFlush(r, buffer)
  <2>1. \A s \in Runs : s = r => runpc'[s] = "send" /\ due'[s] <= Len(accepted)
    BY <1>3, <1>5
  <2>2. \A s \in Runs \ {r} : runpc'[s] = "send" => runpc[s] = "send" /\ due'[s] = due[s]
    BY <1>3
  <2> QED
    BY <1>1, <1>2, <1>3, <1>4, <1>7, <2>1, <2>2, PendingLog
<1> QED
  BY <1>6, <1>7 DEF RunFlush, FlushPending

(* A caller of Run that has no task goes on, and not to send one. *)
LEMMA CallerLog ==
  ASSUME LogInv, LimitInv', NEW r \in Runs, NEW l, l # "send",
         UNCHANGED <<tasks, outbox, current, buffer, mu, accepted, handled, due>>,
         runpc' = [runpc EXCEPT ![r] = l], runpc[r] # "wait", mu # r
  PROVE  LogInv'
<1>1. runpc \in [Runs -> {"idle", "send", "wait", "ran", "done"}]
  BY DEF LogInv, LimitInv, TypeOK
<1>2. OneTask'
  BY <1>1, OneTaskElsewhere DEF LogInv
<1>3. HistoryTypes'
  BY DEF LogInv, HistoryTypes, WellFormed
<1>4. OwnerSends'
  BY <1>1 DEF LogInv, OwnerSends
<1>5. Taken' = Taken /\ Flushed' = Flushed
  BY DEF Taken, Flushed
<1>6. InLog'
  <2>1. PICK t \in 0 .. Flushed : Split(t)
    BY DEF LogInv, InLog
  <2>2. \A s \in Runs : runpc'[s] = "send" => runpc[s] = "send"
    BY <1>1
  <2>3. Split(t)'
    BY <1>5, <2>1, <2>2 DEF Split
  <2>4. /\ Len(buffer') <= Len(accepted')
        /\ buffer' = SubSeq(accepted', Flushed' + 1, Len(accepted'))
        /\ current' # None => current'.msgs = SubSeq(accepted', Len(handled') + 1, Taken')
    BY <1>5 DEF LogInv, InLog
  <2> QED
    BY <1>5, <2>1, <2>3, <2>4 DEF InLog
<1> QED
  BY <1>2, <1>3, <1>4, <1>6 DEF LogInv

(* Send moves the first of the owner's tasks to the end of the channel. *)
LEMMA SendLog == ASSUME LogInv, LimitInv', Send PROVE LogInv'
<1>0. UNCHANGED <<buffer, current, runpc, accepted, handled, due>>
  BY DEF Send, pcs, ghosts
<1>1. CASE UNCHANGED <<mu, outbox, tasks>>
  BY <1>0, <1>1, FrameLog
<1>2. CASE /\ tasks' = Append(tasks, Head(outbox)) /\ outbox' = Tail(outbox)
           /\ mu' = IF Len(outbox) = 1 THEN None ELSE mu
  <2>0. PICK t \in 0 .. Flushed : Split(t)
    BY DEF LogInv, InLog
  <2>1. PICK o, q, h, acc, d, a, z : /\ o = outbox /\ q = tasks /\ h = Head(outbox)
                                     /\ acc = accepted /\ d = due /\ a = Taken /\ z = Flushed
    OBVIOUS
  <2>2. /\ o \in Seq(Jobs) /\ o # <<>> /\ q \in Seq(Jobs) /\ t \in Nat /\ z \in Nat /\ t <= z
        /\ Chain(acc, d, q, a, t) /\ Chain(acc, d, o, t, z)
    BY <2>0, <2>1, LogFacts DEF Send, Split, LogInv, LimitInv, JobTypes
  <2>3. h \in Jobs /\ h = o[1] /\ 1 \in DOMAIN o /\ h.kind = "batch" /\ WellFormed(h)
    <3>1. h \in Jobs /\ h = o[1] /\ 1 \in DOMAIN o
      BY <2>1, <2>2, TailOfJobs
    <3> QED
      BY <2>1, <3>1 DEF LogInv, LimitInv, JobTypes, AllBatches, HistoryTypes
  <2>4. PICK y : y = t + Len(h.msgs)
    OBVIOUS
  <2>5. /\ y \in 0 .. z /\ h.msgs = SubSeq(acc, t + 1, y) /\ Chain(acc, d, Tail(o), y, z)
    <3>1. /\ t + Len(Head(o).msgs) \in 0 .. z
          /\ Head(o).msgs = SubSeq(acc, t + 1, t + Len(Head(o).msgs))
          /\ Chain(acc, d, Tail(o), t + Len(Head(o).msgs), z)
      BY <2>2, ChainTail
    <3>2. h = Head(o)
      BY <2>1
    <3> QED
      BY <2>4, <3>1, <3>2
  <2>6. Chain(acc, d, Append(q, h), a, y)
    BY <2>2, <2>3, <2>4, <2>5, ChainAppend
  <2>7. t <= y /\ Len(h.msgs) \in Nat
    <3>1. Len(h.msgs) \in Nat
      BY <2>3 DEF Jobs
    <3> QED
      BY <2>2, <2>4, <3>1
  <2>8. Len(o) = 1 <=> Tail(o) = <<>>
    <3>1. PICK p, n : p = Tail(o) /\ n = Len(o)
      OBVIOUS
    <3>2. p \in Seq(Jobs) /\ Len(p) = n - 1 /\ n \in Nat
      BY <2>2, <3>1, TailOfJobs
    <3>3. p = <<>> <=> Len(p) = 0
      BY <3>2
    <3> QED
      BY <3>1, <3>2, <3>3
  <2>9. mu # None /\ \A r \in Runs : r # None
    BY <2>1, <2>2, OwnersDistinct DEF LogInv, OwnerSends
  <2>10. OwnerSends'
    BY <1>0, <1>2, <2>1, <2>8, <2>9 DEF LogInv, OwnerSends
  <2>11. Taken' = a /\ Flushed' = z
    BY <1>0, <2>1 DEF Taken, Flushed
  <2>12. Split(y)'
    <3>1. ASSUME NEW r \in Runs, runpc[r] = "send" PROVE due[r] <= IF mu' = r THEN z ELSE y
      <4>1. CASE mu = r
        <5>1. CASE Len(o) = 1
          <6>1. y = z
            BY <2>5, <2>8, <5>1, ChainOfNone
          <6> QED
            BY <2>0, <2>1, <3>1, <4>1, <6>1 DEF Split
        <5>2. CASE Len(o) # 1
          BY <1>2, <2>0, <2>1, <3>1, <4>1, <5>2 DEF Split
        <5> QED
          BY <5>1, <5>2
      <4>2. CASE mu # r
        <5>1. mu' # r
          BY <1>2, <2>9, <4>2
        <5>2. due[r] <= t /\ due[r] \in Nat
          BY <2>0, <3>1, <4>2 DEF Split, LogInv, HistoryTypes
        <5>3. y \in Nat
          BY <2>2, <2>5
        <5> QED
          BY <2>2, <2>7, <5>1, <5>2, <5>3
      <4> QED
        BY <4>1, <4>2
    <3> QED
      BY <1>0, <1>2, <2>1, <2>5, <2>6, <2>11, <3>1 DEF Split
  <2>13. InLog'
    <3>1. /\ Len(buffer') <= Len(accepted')
          /\ buffer' = SubSeq(accepted', Flushed' + 1, Len(accepted'))
          /\ current' # None => current'.msgs = SubSeq(accepted', Len(handled') + 1, Taken')
      BY <1>0, <2>1, <2>11 DEF LogInv, InLog
    <3> QED
      BY <2>5, <2>11, <2>12, <3>1 DEF InLog
  <2>14. /\ Append(q, h) \in Seq(Jobs) /\ Len(q) \in Nat /\ DOMAIN q = 1 .. Len(q)
         /\ DOMAIN Append(q, h) = DOMAIN q \cup {Len(q) + 1}
         /\ Append(q, h)[Len(q) + 1] = h
         /\ \A i \in DOMAIN q : Append(q, h)[i] = q[i]
    BY <2>2, <2>3, AppendOfJobs
  <2>15. OneTask'
    <3>1. PICK p : p = Append(q, h)
      OBVIOUS
    <3>2. \A i \in DOMAIN p : p[i].kind = "run" => i \in DOMAIN q /\ p[i] = q[i]
      BY <2>3, <2>14, <3>1
    <3> QED
      BY <1>0, <1>2, <2>1, <3>1, <3>2 DEF LogInv, OneTask
  <2>16. HistoryTypes'
    <3>1. \A i \in DOMAIN Append(q, h) : WellFormed(Append(q, h)[i])
      BY <2>1, <2>3, <2>14 DEF LogInv, HistoryTypes
    <3>2. \A i \in DOMAIN Tail(o) : WellFormed(Tail(o)[i])
      <4>1. \A i \in DOMAIN Tail(o) : i + 1 \in DOMAIN o /\ Tail(o)[i] = o[i + 1]
        BY <2>2, TailOfJobs
      <4> QED
        BY <2>1, <4>1 DEF LogInv, HistoryTypes
    <3> QED
      BY <1>0, <1>2, <2>1, <3>1, <3>2 DEF LogInv, HistoryTypes
  <2> QED
    BY <2>10, <2>13, <2>15, <2>16 DEF LogInv
<1> QED
  BY <1>1, <1>2 DEF Send

(* A task without messages joins the channel, behind what it waits for. *)
LEMMA SentTaskLog ==
  ASSUME LogInv, LimitInv', NEW c \in Jobs, c.msgs = <<>>, WellFormed(c),
         tasks' = Append(tasks, c),
         UNCHANGED <<outbox, current, buffer, mu, accepted, handled, due>>, OneTask',
         \A s \in Runs : runpc'[s] = "send" => runpc[s] = "send",
         \A s \in Runs : mu = s => runpc'[s] = "send",
         c.kind = "run" => runpc[c.run] = "send" /\ mu # c.run
  PROVE  LogInv'
<1>1. PICK t \in 0 .. Flushed : Split(t)
  BY DEF LogInv, InLog
<1>2. PICK q, acc, d, a, z : q = tasks /\ acc = accepted /\ d = due /\ a = Taken /\ z = Flushed
  OBVIOUS
<1>3. q \in Seq(Jobs) /\ t \in Nat /\ Chain(acc, d, q, a, t) /\ z \in Nat
  BY <1>1, <1>2, LogFacts DEF Split, LogInv, LimitInv, JobTypes
<1>4. c.kind # "run" \/ d[c.run] <= t
  BY <1>1, <1>2 DEF Split, WellFormed
<1>5. Len(c.msgs) = 0 /\ t + 0 = t
  BY <1>3
<1>6. c.msgs = SubSeq(acc, t + 1, t + Len(c.msgs))
  <2>1. SubSeq(acc, t + 1, t) = <<>>
    <3>1. t \in Int /\ t + 1 \in Int /\ t < t + 1
      BY <1>3
    <3> QED
      BY <3>1, SubSeqEmpty
  <2> QED
    BY <1>5, <2>1
<1>7. Chain(acc, d, Append(q, c), a, t)
  <2>1. Chain(acc, d, Append(q, c), a, t + Len(c.msgs))
    BY <1>3, <1>4, <1>6, ChainAppend
  <2> QED
    BY <1>5, <2>1
<1>8. Taken' = a /\ Flushed' = z
  BY <1>2 DEF Taken, Flushed
<1>9. Split(t)'
  BY <1>1, <1>2, <1>7, <1>8 DEF Split
<1>10. InLog'
  <2>1. /\ Len(buffer') <= Len(accepted')
        /\ buffer' = SubSeq(accepted', Flushed' + 1, Len(accepted'))
        /\ current' # None => current'.msgs = SubSeq(accepted', Len(handled') + 1, Taken')
    BY <1>2, <1>8 DEF LogInv, InLog
  <2> QED
    BY <1>1, <1>2, <1>8, <1>9, <2>1 DEF InLog
<1>11. OwnerSends'
  BY DEF LogInv, OwnerSends
<1>12. HistoryTypes'
  <2>1. /\ Append(q, c)[Len(q) + 1] = c /\ DOMAIN Append(q, c) = DOMAIN q \cup {Len(q) + 1}
        /\ \A i \in DOMAIN q : Append(q, c)[i] = q[i]
    BY <1>3, AppendOfJobs
  <2>2. \A i \in DOMAIN Append(q, c) : WellFormed(Append(q, c)[i])
    BY <1>2, <2>1 DEF LogInv, HistoryTypes
  <2> QED
    BY <1>2, <2>2 DEF LogInv, HistoryTypes
<1> QED
  BY <1>10, <1>11, <1>12 DEF LogInv

LEMMA RunSendLog == ASSUME LogInv, LimitInv', NEW r \in Runs, RunSend(r) PROVE LogInv'
<1>0. /\ UNCHANGED <<outbox, current, buffer, mu, accepted, handled, due>>
      /\ runpc[r] = "send" /\ mu # r /\ runpc' = [runpc EXCEPT ![r] = "wait"]
      /\ runpc \in [Runs -> {"idle", "send", "wait", "ran", "done"}]
  BY DEF RunSend, queue, ghosts, LogInv, LimitInv, TypeOK
<1>1. CASE UNCHANGED tasks
  BY <1>0, <1>1, CallerLog
<1>2. CASE tasks' = Append(tasks, Task(r))
  <2>1. PICK c : c = Task(r)
    OBVIOUS
  <2>2. c \in Jobs /\ c.msgs = <<>> /\ c.kind = "run" /\ c.run = r /\ WellFormed(c)
    BY <2>1 DEF Task, Jobs, WellFormed
  <2>3. /\ runpc'[r] = "wait" /\ \A s \in Runs \ {r} : runpc'[s] = runpc[s]
        /\ \A s \in Runs : runpc'[s] = "send" => runpc[s] = "send"
        /\ \A s \in Runs : mu = s => runpc'[s] = "send"
    BY <1>0 DEF LogInv, OwnerSends
  <2>4. OneTask'
    <3>1. PICK q, p : q = tasks /\ p = tasks'
      OBVIOUS
    <3>2. /\ DOMAIN p = DOMAIN q \cup {Len(q) + 1} /\ p[Len(q) + 1] = c
          /\ \A i \in DOMAIN q : p[i] = q[i]
      BY <1>2, <2>1, <2>2, <3>1, AppendOfJobs DEF LogInv, LimitInv, JobTypes
    <3>3. \A i \in DOMAIN q : q[i].kind = "run" => /\ q[i].run \in Runs \ {r}
                                                  /\ runpc'[q[i].run] = "wait"
      BY <1>0, <2>3, <3>1 DEF LogInv, OneTask, HistoryTypes, WellFormed
    <3>4. \A i \in DOMAIN p : p[i].kind = "run" => runpc'[p[i].run] = "wait"
      BY <2>2, <2>3, <3>2, <3>3
    <3>5. \A i, j \in DOMAIN p : p[i].kind = "run" /\ p[j].kind = "run" /\ p[i].run = p[j].run
                                  => i = j
      <4>1. \A i, j \in DOMAIN q : q[i].kind = "run" /\ q[j].kind = "run" /\ q[i].run = q[j].run
                                  => i = j
        BY <3>1 DEF LogInv, OneTask
      <4> QED
        BY <2>2, <3>2, <3>3, <4>1
    <3>6. current # None /\ current.kind = "run" =>
            /\ current.run \in Runs \ {r} /\ runpc'[current.run] = "wait"
            /\ \A i \in DOMAIN q : q[i].kind = "run" => q[i].run # current.run
      BY <1>0, <2>3, <3>1 DEF LogInv, OneTask, HistoryTypes, WellFormed
    <3>7. current # None /\ current.kind = "run" =>
            \A i \in DOMAIN p : p[i].kind = "run" => p[i].run # current.run
      BY <2>2, <3>2, <3>6
    <3> QED
      BY <1>0, <3>1, <3>4, <3>5, <3>6, <3>7 DEF OneTask
  <2> QED
    BY <1>0, <1>2, <2>1, <2>2, <2>3, <2>4, SentTaskLog
<1> QED
  BY <1>1, <1>2 DEF RunSend, SendTask

LEMMA CloseBarrierLog == ASSUME LogInv, LimitInv', CloseBarrier PROVE LogInv'
<1>0. UNCHANGED <<outbox, current, buffer, mu, runpc, accepted, handled, due>>
  BY DEF CloseBarrier, queue, ghosts
<1>1. CASE UNCHANGED tasks
  BY <1>0, <1>1, FrameLog
<1>2. CASE tasks' = Append(tasks, Barrier)
  <2>1. PICK c : c = Barrier
    OBVIOUS
  <2>2. c \in Jobs /\ c.msgs = <<>> /\ c.kind = "barrier" /\ WellFormed(c)
    BY <2>1 DEF Barrier, Jobs, WellFormed
  <2>3. OneTask'
    <3>1. PICK q, p : q = tasks /\ p = tasks'
      OBVIOUS
    <3>2. /\ DOMAIN p = DOMAIN q \cup {Len(q) + 1} /\ p[Len(q) + 1] = c
          /\ \A i \in DOMAIN q : p[i] = q[i]
      BY <1>2, <2>1, <2>2, <3>1, AppendOfJobs DEF LogInv, LimitInv, JobTypes
    <3>3. \A i \in DOMAIN p : p[i].kind = "run" => i \in DOMAIN q /\ p[i] = q[i]
      BY <2>2, <3>2
    <3> QED
      BY <1>0, <3>1, <3>3 DEF LogInv, OneTask
  <2>4. \A s \in Runs : mu = s => runpc'[s] = "send"
    BY <1>0 DEF LogInv, OwnerSends
  <2> QED
    BY <1>0, <1>2, <2>1, <2>2, <2>3, <2>4, SentTaskLog
<1> QED
  BY <1>1, <1>2 DEF CloseBarrier, SendTask

(* The worker takes the next messages of the log. *)
LEMMA TakeLog == ASSUME LogInv, LimitInv', Take PROVE LogInv'
<1>0. /\ UNCHANGED <<outbox, buffer, mu, runpc, accepted, handled, due>>
      /\ current = None /\ current' = Head(tasks) /\ tasks' = Tail(tasks) /\ tasks # <<>>
  BY DEF Take, queue, pcs, ghosts
<1>1. PICK t \in 0 .. Flushed : Split(t)
  BY DEF LogInv, InLog
<1>2. PICK q, p, c, acc, d, a, z : /\ q = tasks /\ p = tasks' /\ c = current' /\ acc = accepted
                                   /\ d = due /\ a = Taken /\ z = Flushed
  OBVIOUS
<1>3. /\ q \in Seq(Jobs) /\ q # <<>> /\ t \in Nat /\ Chain(acc, d, q, a, t) /\ z \in Nat /\ a \in Nat
      /\ a = Len(handled)
  BY <1>0, <1>1, <1>2, LogFacts DEF Split, LogInv, LimitInv, JobTypes, Taken
<1>4. /\ p \in Seq(Jobs) /\ c \in Jobs /\ c = q[1] /\ 1 \in DOMAIN q
      /\ \A i \in DOMAIN p : i + 1 \in DOMAIN q /\ i \in Nat /\ p[i] = q[i + 1]
      /\ p = Tail(q) /\ c = Head(q)
  BY <1>0, <1>2, <1>3, TailOfJobs
<1>4a. \A i \in DOMAIN p : i + 1 # 1
  BY <1>4
<1>5. PICK y : y = a + Len(c.msgs)
  OBVIOUS
<1>6. /\ y \in 0 .. t /\ c.msgs = SubSeq(acc, a + 1, y) /\ Chain(acc, d, p, y, t)
      /\ c.kind = "run" => d[c.run] <= a
  <2>1. q \in Seq(Jobs) /\ q # <<>> /\ t \in Nat /\ a \in Nat /\ Chain(acc, d, q, a, t)
    BY <1>3
  <2>2. /\ a + Len(Head(q).msgs) \in 0 .. t
        /\ Head(q).msgs = SubSeq(acc, a + 1, a + Len(Head(q).msgs))
        /\ Head(q).kind = "run" => d[Head(q).run] <= a
        /\ Chain(acc, d, Tail(q), a + Len(Head(q).msgs), t)
    BY <2>1, ChainTail
  <2>3. p = Tail(q) /\ c = Head(q)
    BY <1>4
  <2> QED
    BY <1>5, <2>2, <2>3
<1>7. HistoryTypes'
  <2>1. \A i \in DOMAIN p : WellFormed(p[i])
    BY <1>2, <1>4 DEF LogInv, HistoryTypes
  <2>2. WellFormed(c)
    BY <1>2, <1>4 DEF LogInv, HistoryTypes
  <2> QED
    BY <1>0, <1>2, <2>1, <2>2 DEF LogInv, HistoryTypes
<1>8. c # None
  BY <1>4, NoneIsNoTask DEF Jobs
<1>9. Taken' = y /\ Flushed' = z
  BY <1>0, <1>2, <1>3, <1>5, <1>8 DEF Taken, Flushed
<1>10. Split(t)'
  BY <1>0, <1>1, <1>2, <1>6, <1>9 DEF Split
<1>11. InLog'
  <2>1. /\ Len(buffer') <= Len(accepted')
        /\ buffer' = SubSeq(accepted', Flushed' + 1, Len(accepted'))
    BY <1>0, <1>2, <1>9 DEF LogInv, InLog
  <2>2. current' # None => current'.msgs = SubSeq(accepted', Len(handled') + 1, Taken')
    BY <1>0, <1>2, <1>3, <1>6, <1>9
  <2> QED
    BY <1>1, <1>2, <1>9, <1>10, <2>1, <2>2 DEF InLog
<1>12. OneTask'
  <2>1. \A i \in DOMAIN q : q[i].kind = "run" => runpc[q[i].run] = "wait"
    BY <1>2 DEF LogInv, OneTask
  <2>2. \A i, j \in DOMAIN q : q[i].kind = "run" /\ q[j].kind = "run" /\ q[i].run = q[j].run => i = j
    BY <1>2 DEF LogInv, OneTask
  <2>3. \A i \in DOMAIN p : p[i].kind = "run" => runpc[p[i].run] = "wait"
    BY <1>4, <2>1
  <2>4. \A i, j \in DOMAIN p : p[i].kind = "run" /\ p[j].kind = "run" /\ p[i].run = p[j].run => i = j
    <3> SUFFICES ASSUME NEW i \in DOMAIN p, NEW j \in DOMAIN p, p[i].kind = "run",
                        p[j].kind = "run", p[i].run = p[j].run
                 PROVE  i = j
      OBVIOUS
    <3>1. i + 1 = j + 1 /\ i \in Nat /\ j \in Nat
      BY <1>4, <2>2
    <3> QED
      BY <3>1
  <2>5. c.kind = "run" => /\ runpc[c.run] = "wait"
                          /\ \A i \in DOMAIN p : p[i].kind = "run" => p[i].run # c.run
    <3> SUFFICES ASSUME c.kind = "run"
                 PROVE  /\ runpc[c.run] = "wait"
                        /\ \A i \in DOMAIN p : p[i].kind = "run" => p[i].run # c.run
      OBVIOUS
    <3>1. runpc[c.run] = "wait"
      BY <1>4, <2>1
    <3>2. ASSUME NEW i \in DOMAIN p, p[i].kind = "run" PROVE p[i].run # c.run
      BY <1>4, <1>4a, <2>2, <3>2
    <3> QED
      BY <3>1, <3>2
  <2> QED
    BY <1>0, <1>2, <2>3, <2>4, <2>5 DEF OneTask
<1>13. OwnerSends'
  BY <1>0 DEF LogInv, OwnerSends
<1> QED
  BY <1>7, <1>11, <1>12, <1>13 DEF LogInv

(* What the worker has done was the next part of the log. *)
LEMMA FinishLog == ASSUME LogInv, LimitInv', Finish PROVE LogInv'
<1>0. /\ UNCHANGED <<tasks, outbox, buffer, mu, accepted, due>> /\ current # None /\ current' = None
      /\ handled' = handled \o current.msgs
      /\ runpc' = [r \in Runs |-> IF r = current.run THEN "ran" ELSE runpc[r]]
  BY DEF Finish, queue
<1>1. PICK t \in 0 .. Flushed : Split(t)
  BY DEF LogInv, InLog
<1>2. PICK c : c = current
  OBVIOUS
<1>3. c \in Jobs /\ WellFormed(c) /\ handled \in Seq(Msgs) /\ c.msgs \in Seq(Msgs)
  BY <1>0, <1>2 DEF LogInv, LimitInv, JobTypes, Jobs, HistoryTypes
<1>4. handled' \in Seq(Msgs) /\ Len(handled') = Len(handled) + Len(c.msgs)
  BY <1>0, <1>2, <1>3
<1>5. Taken' = Taken /\ Flushed' = Flushed
  BY <1>0, <1>2, <1>4 DEF Taken, Flushed
<1>6. \A r \in Runs : runpc'[r] = IF r = c.run THEN "ran" ELSE runpc[r]
  BY <1>0, <1>2
<1>7. Split(t)'
  <2>1. \A r \in Runs : runpc'[r] = "send" => runpc[r] = "send"
    BY <1>6
  <2> QED
    BY <1>0, <1>1, <1>5, <2>1 DEF Split
<1>8. InLog'
  BY <1>0, <1>1, <1>5, <1>7 DEF LogInv, InLog
<1>9. /\ \A i \in DOMAIN tasks : tasks[i].kind = "run" => /\ tasks[i].run \in Runs
                                                          /\ tasks[i].run # c.run
      /\ \A r \in Runs : mu = r => r # c.run
  <2>1. CASE c.kind = "run"
    BY <1>0, <1>2, <2>1 DEF LogInv, OneTask, OwnerSends, HistoryTypes, WellFormed
  <2>2. CASE c.kind # "run"
    <3>1. c.run = None /\ \A r \in Runs : r # None
      BY <1>3, <2>2, OwnersDistinct DEF WellFormed
    <3> QED
      BY <3>1 DEF LogInv, HistoryTypes, WellFormed
  <2> QED
    BY <2>1, <2>2
<1>10. OneTask'
  BY <1>0, <1>6, <1>9 DEF LogInv, OneTask
<1>11. OwnerSends'
  BY <1>0, <1>6, <1>9 DEF LogInv, OwnerSends
<1>12. HistoryTypes'
  BY <1>0, <1>4 DEF LogInv, HistoryTypes, WellFormed
<1> QED
  BY <1>8, <1>10, <1>11, <1>12 DEF LogInv

(* Every step of the queue and of its callers keeps the log in order. *)
LEMMA LogKept == LogInv /\ [Next]_vars => LogInv'
<1> SUFFICES ASSUME LogInv, [Next]_vars PROVE LogInv'
  OBVIOUS
<1>0. LimitInv'
  BY LimitsKept DEF LogInv
<1>1. ASSUME NEW m \in Msgs, Push(m) \/ Callback(m) PROVE LogInv'
  BY <1>0, <1>1, PushLog, CallbackLog
<1>2. ASSUME NEW m \in Msgs, Fire(m) PROVE LogInv'
  BY <1>0, <1>2, FrameLog DEF Fire, pcs, ghosts
<1>3. ASSUME NEW r \in Runs, RunFlush(r) \/ RunSend(r) PROVE LogInv'
  BY <1>0, <1>3, RunFlushLog, RunSendLog
<1>4. ASSUME NEW r \in Runs, RunReturn(r) PROVE LogInv'
  <2>1. /\ UNCHANGED <<tasks, outbox, current, buffer, mu, accepted, handled, due>>
        /\ runpc[r] = "ran" /\ runpc' = [runpc EXCEPT ![r] = "done"]
    BY <1>4 DEF RunReturn, queue, ghosts
  <2>2. mu # r
    BY <2>1 DEF LogInv, OwnerSends
  <2> QED
    BY <1>0, <2>1, <2>2, CallerLog
<1>5. CASE CloseFlush \/ CloseBarrier
  BY <1>0, <1>5, CloseFlushLog, CloseBarrierLog
<1>6. CASE Dispose
  BY <1>0, <1>6, FrameLog DEF Dispose
<1>7. CASE Send \/ Take \/ Finish
  BY <1>0, <1>7, SendLog, TakeLog, FinishLog
<1>8. CASE Exit
  BY <1>0, <1>8, FrameLog DEF Exit, queue, pcs, ghosts
<1>9. CASE Rest \/ UNCHANGED vars
  BY <1>0, <1>9, FrameLog DEF Rest, vars, queue, pcs, ghosts
<1> QED
  BY <1>1, <1>2, <1>3, <1>4, <1>5, <1>6, <1>7, <1>8, <1>9 DEF Next, System

LEMMA InitLog == Init => LogInv
<1> SUFFICES ASSUME Init PROVE LogInv
  OBVIOUS
<1>1. /\ tasks = <<>> /\ outbox = <<>> /\ buffer = <<>> /\ accepted = <<>> /\ handled = <<>>
      /\ current = None /\ mu = None /\ due = [r \in Runs |-> 0] /\ runpc = [r \in Runs |-> "idle"]
  BY DEF Init
<1>2. LimitInv
  BY InitLimits
<1>3. \A r \in Runs : r # None /\ runpc[r] = "idle"
  BY <1>1, OwnersDistinct
<1>4. HistoryTypes /\ OneTask /\ OwnerSends
  BY <1>1, <1>3 DEF HistoryTypes, OneTask, OwnerSends
<1>5. Taken = 0 /\ Flushed = 0 /\ 0 \in 0 .. Flushed
  BY <1>1 DEF Taken, Flushed
<1>6. Split(0)
  BY <1>1, <1>3, <1>5, ChainEmpty DEF Split
<1>7. SubSeq(accepted, 1, 0) = <<>>
  BY <1>1
<1>8. InLog
  BY <1>1, <1>5, <1>6, <1>7 DEF InLog
<1> QED
  BY <1>2, <1>4, <1>8 DEF LogInv

(* What was accepted is at any time handled, with the worker, in the        *)
(* channel, with the owner of cq.mu or in the buffer, in this order and     *)
(* each message in one place; and the task of a Run is behind every message *)
(* that was accepted before the call.                                       *)
THEOREM LogInOrder == Spec => []LogInv
  BY InitLog, LogKept, PTL DEF Spec
-----------------------------------------------------------------------------
(* The refinement: taking a batch begins it, its return ends it, the first  *)
(* section of Run is the call; whatever moves tasks towards the worker, and *)
(* what concerns barriers, is invisible.                                    *)
Active == IF current = None THEN <<>> ELSE current.msgs
RunStates == [r \in Runs |-> RunState(r)]

LEMMA Unseen ==
  ASSUME UNCHANGED <<accepted, due>>, Len(handled') = Len(handled), Active' = Active,
         RunStates' = RunStates
  PROVE  UNCHANGED Dispatch!dvars
  BY DEF Dispatch!dvars, Active, RunStates

(* A step that moves no message and calls nobody. *)
LEMMA FrameUnseen ==
  ASSUME UNCHANGED <<accepted, due, handled, current, runpc>>
  PROVE  UNCHANGED Dispatch!dvars
<1>1. Active' = Active /\ RunStates' = RunStates
  BY DEF Active, RunStates, RunState
<1> QED
  BY <1>1, Unseen

(* The worker has nothing in its hands. *)
LEMMA FreeWorker ==
  ASSUME current = None
  PROVE  Dispatch!Idle /\ Active = <<>> /\ \A r \in Runs : RunState(r) # "active"
<1>1. \A r \in Runs : RunState(r) # "active"
  BY DEF RunState
<1>2. \A r \in Runs : RunStates[r] # "active"
  BY <1>1 DEF RunStates
<1> QED
  BY <1>1, <1>2 DEF Dispatch!Idle, Active, RunStates

(* What the worker is about to take is the next part of the log. *)
LEMMA NextTask ==
  ASSUME LogInv, current = None, tasks # <<>>, NEW c, c = Head(tasks)
  PROVE  /\ c \in Jobs /\ c # None /\ WellFormed(c) /\ Len(c.msgs) \in Nat
         /\ Len(handled) \in Nat /\ Len(accepted) \in Nat
         /\ Len(handled) + Len(c.msgs) <= Len(accepted)
         /\ c.msgs = SubSeq(accepted, Len(handled) + 1, Len(handled) + Len(c.msgs))
         /\ c.kind = "run" => due[c.run] <= Len(handled) /\ runpc[c.run] = "wait"
<1>1. PICK t \in 0 .. Flushed : Split(t)
  BY DEF LogInv, InLog
<1>2. PICK q, acc, d, a : q = tasks /\ acc = accepted /\ d = due /\ a = Taken
  OBVIOUS
<1>3. /\ q \in Seq(Jobs) /\ q # <<>> /\ t \in Nat /\ Chain(acc, d, q, a, t) /\ a \in Nat
      /\ a = Len(handled) /\ Len(accepted) \in Nat /\ t <= Len(accepted)
  BY <1>1, <1>2, LogFacts DEF Split, LogInv, LimitInv, JobTypes, Taken
<1>4. c \in Jobs /\ c = q[1] /\ 1 \in DOMAIN q /\ c = Head(q)
  BY <1>2, <1>3, TailOfJobs
<1>5. /\ a + Len(Head(q).msgs) \in 0 .. t
      /\ Head(q).msgs = SubSeq(acc, a + 1, a + Len(Head(q).msgs))
      /\ Head(q).kind = "run" => d[Head(q).run] <= a
  BY <1>3, ChainTail
<1>6. WellFormed(c) /\ (c.kind = "run" => runpc[c.run] = "wait")
  BY <1>2, <1>4 DEF LogInv, HistoryTypes, OneTask
<1>7. c # None
  BY <1>4, NoneIsNoTask DEF Jobs
<1>8. Len(c.msgs) \in Nat
  BY <1>4 DEF Jobs
<1>9. a + Len(c.msgs) <= Len(accepted)
  BY <1>3, <1>4, <1>5, <1>8
<1> QED
  BY <1>2, <1>3, <1>4, <1>5, <1>6, <1>7, <1>8, <1>9

(* The worker begins a batch or a task of Run. *)
LEMMA TakeStep == ASSUME LogInv, Take PROVE [Dispatch!DNext]_(Dispatch!dvars)
<1>0. /\ UNCHANGED <<runpc, accepted, handled, due>>
      /\ current = None /\ current' = Head(tasks) /\ tasks # <<>>
  BY DEF Take, pcs, ghosts
<1>1. PICK c : c = Head(tasks)
  OBVIOUS
<1>2. /\ c \in Jobs /\ c # None /\ WellFormed(c) /\ Len(c.msgs) \in Nat
      /\ Len(handled) \in Nat /\ Len(accepted) \in Nat
      /\ Len(handled) + Len(c.msgs) <= Len(accepted)
      /\ c.msgs = SubSeq(accepted, Len(handled) + 1, Len(handled) + Len(c.msgs))
      /\ c.kind = "run" => due[c.run] <= Len(handled) /\ runpc[c.run] = "wait"
  BY <1>0, <1>1, NextTask
<1>3. Dispatch!Idle /\ Active = <<>>
  BY <1>0, FreeWorker
<1>4. current' = c /\ Active' = c.msgs
  BY <1>0, <1>1, <1>2 DEF Active
<1>5. ASSUME c.run = None PROVE RunStates' = RunStates
  <2>1. \A r \in Runs : r # c.run
    BY <1>5, OwnersDistinct
  <2>2. \A r \in Runs : RunState(r)' = RunState(r)
    BY <1>0, <1>4, <2>1 DEF RunState
  <2> QED
    BY <2>2 DEF RunStates
<1>6. CASE c.kind = "batch" /\ c.msgs # <<>> /\ c.run = None
  <2>1. Len(c.msgs) \in 1 .. Len(accepted) - Len(handled)
    <3>1. Len(c.msgs) # 0
      BY <1>2, <1>6 DEF Jobs
    <3> QED
      BY <1>2, <3>1
  <2>2. PICK n \in 1 .. Len(accepted) - Len(handled) : n = Len(c.msgs)
    BY <2>1
  <2>3. Dispatch!BeginBatch(n)
    BY <1>0, <1>2, <1>3, <1>4, <1>5, <1>6, <2>2 DEF Dispatch!BeginBatch, Active, RunStates
  <2> QED
    BY <2>3 DEF Dispatch!DNext
<1>7. CASE c.kind = "run" /\ c.msgs = <<>> /\ c.run \in Runs
  <2>1. PICK r \in Runs : r = c.run
    BY <1>7
  <2>2. RunState(r) = "called" /\ RunState(r)' = "active"
    BY <1>0, <1>2, <1>4, <1>7, <2>1 DEF RunState
  <2>3. \A s \in Runs \ {r} : RunState(s)' = RunState(s)
    BY <1>0, <1>4, <2>1 DEF RunState
  <2>4. RunStates' = [RunStates EXCEPT ![r] = "active"]
    BY <2>2, <2>3 DEF RunStates
  <2>5. RunStates[r] = "called"
    BY <2>2 DEF RunStates
  <2>6. Dispatch!BeginRun(r)
    BY <1>0, <1>2, <1>3, <1>4, <1>7, <2>1, <2>4, <2>5 DEF Dispatch!BeginRun, Active, RunStates
  <2> QED
    BY <2>6 DEF Dispatch!DNext
<1>8. CASE c.kind = "barrier" /\ c.msgs = <<>> /\ c.run = None
  BY <1>0, <1>3, <1>4, <1>5, <1>8, Unseen
<1> QED
  BY <1>2, <1>6, <1>7, <1>8 DEF WellFormed

(* The worker ends what it began. *)
LEMMA FinishStep == ASSUME LogInv, Finish PROVE [Dispatch!DNext]_(Dispatch!dvars)
<1>0. /\ UNCHANGED <<accepted, due>> /\ current # None /\ current' = None
      /\ handled' = handled \o current.msgs
      /\ runpc' = [r \in Runs |-> IF r = current.run THEN "ran" ELSE runpc[r]]
  BY DEF Finish
<1>1. PICK c : c = current
  OBVIOUS
<1>2. /\ c \in Jobs /\ WellFormed(c) /\ c.msgs \in Seq(Msgs) /\ handled \in Seq(Msgs)
      /\ c.kind = "run" => runpc[c.run] = "wait"
  BY <1>0, <1>1 DEF LogInv, LimitInv, JobTypes, Jobs, HistoryTypes, OneTask
<1>3. Len(handled') = Len(handled) + Len(c.msgs) /\ Len(handled) \in Nat
  BY <1>0, <1>1, <1>2
<1>4. Active = c.msgs /\ Active' = <<>>
  BY <1>0, <1>1 DEF Active
<1>5. \A r \in Runs : runpc'[r] = IF r = c.run THEN "ran" ELSE runpc[r]
  BY <1>0, <1>1
<1>6. \A r \in Runs : r # c.run => RunState(r)' = RunState(r)
  BY <1>0, <1>1, <1>5 DEF RunState
<1>7. ASSUME c.run = None PROVE RunStates' = RunStates
  <2>1. \A r \in Runs : r # c.run
    BY <1>7, OwnersDistinct
  <2>2. \A r \in Runs : RunState(r)' = RunState(r)
    BY <1>6, <2>1
  <2> QED
    BY <2>2 DEF RunStates
<1>8. CASE c.kind = "batch" /\ c.msgs # <<>> /\ c.run = None
  <2>1. Dispatch!EndBatch
    BY <1>0, <1>3, <1>4, <1>7, <1>8 DEF Dispatch!EndBatch, Active, RunStates
  <2> QED
    BY <2>1 DEF Dispatch!DNext
<1>9. ASSUME c.msgs = <<>> PROVE Len(handled') = Len(handled)
  <2>1. Len(<<>>) = 0
    OBVIOUS
  <2> QED
    BY <1>3, <1>9, <2>1
<1>10. CASE c.kind = "run" /\ c.msgs = <<>> /\ c.run \in Runs
  <2>1. PICK r \in Runs : r = c.run
    BY <1>10
  <2>2. RunState(r) = "active" /\ RunState(r)' = "done"
    BY <1>0, <1>1, <1>2, <1>5, <1>10, <2>1 DEF RunState
  <2>3. RunStates' = [RunStates EXCEPT ![r] = "done"]
    BY <1>6, <2>1, <2>2 DEF RunStates
  <2>4. RunStates[r] = "active"
    BY <2>2 DEF RunStates
  <2>5. Dispatch!EndRun(r)
    BY <1>0, <1>4, <1>9, <1>10, <2>3, <2>4 DEF Dispatch!EndRun, Active, RunStates
  <2> QED
    BY <2>5 DEF Dispatch!DNext
<1>11. CASE c.kind = "barrier" /\ c.msgs = <<>> /\ c.run = None
  BY <1>0, <1>4, <1>7, <1>9, <1>11, Unseen
<1> QED
  BY <1>2, <1>8, <1>10, <1>11 DEF WellFormed

(* Run is called when its first section is over. *)
LEMMA RunFlushStep ==
  ASSUME LogInv, NEW r \in Runs, RunFlush(r) PROVE [Dispatch!DNext]_(Dispatch!dvars)
<1>1. /\ UNCHANGED <<current, handled, accepted>> /\ runpc[r] = "idle"
      /\ runpc' = [runpc EXCEPT ![r] = "send"] /\ due' = [due EXCEPT ![r] = Len(accepted)]
      /\ runpc \in [Runs -> {"idle", "send", "wait", "ran", "done"}]
  BY DEF RunFlush, LogInv, LimitInv, TypeOK
<1>2. current # None => current.run # r
  BY <1>1, OwnersDistinct DEF LogInv, OneTask, HistoryTypes, WellFormed
<1>3. RunState(r) = "idle" /\ RunState(r)' = "called"
  BY <1>1, <1>2 DEF RunState
<1>4. \A s \in Runs \ {r} : RunState(s)' = RunState(s)
  BY <1>1 DEF RunState
<1>5. RunStates' = [RunStates EXCEPT ![r] = "called"] /\ RunStates[r] = "idle"
  BY <1>3, <1>4 DEF RunStates
<1>6. Active' = Active
  BY <1>1 DEF Active
<1>7. Dispatch!Call(r)
  BY <1>1, <1>5, <1>6 DEF Dispatch!Call, Active, RunStates
<1> QED
  BY <1>7 DEF Dispatch!DNext

(* A caller of Run that goes on is called or done before and after. *)
LEMMA CallerUnseen ==
  ASSUME LogInv, NEW r \in Runs, RunSend(r) \/ RunReturn(r)
  PROVE  UNCHANGED Dispatch!dvars
<1>1. /\ UNCHANGED <<current, handled, accepted, due>>
      /\ \/ runpc[r] = "send" /\ runpc' = [runpc EXCEPT ![r] = "wait"]
         \/ runpc[r] = "ran" /\ runpc' = [runpc EXCEPT ![r] = "done"]
      /\ runpc \in [Runs -> {"idle", "send", "wait", "ran", "done"}]
  BY DEF RunSend, RunReturn, ghosts, LogInv, LimitInv, TypeOK
<1>2. current # None => current.run # r
  BY <1>1, OwnersDistinct DEF LogInv, OneTask, HistoryTypes, WellFormed
<1>3. \A s \in Runs : RunState(s)' = RunState(s)
  BY <1>1, <1>2 DEF RunState
<1>4. RunStates' = RunStates /\ Active' = Active
  BY <1>1, <1>3 DEF RunStates, Active
<1> QED
  BY <1>1, <1>4, Unseen

(* Every step of the queue is a step of SerialDispatch, or invisible to it. *)
LEMMA DispatchStep == LogInv /\ [Next]_vars => [Dispatch!DNext]_(Dispatch!dvars)
<1> SUFFICES ASSUME LogInv, [Next]_vars PROVE [Dispatch!DNext]_(Dispatch!dvars)
  OBVIOUS
<1>1. ASSUME NEW m \in Msgs, Push(m) PROVE Dispatch!DNext
  <2>1. UNCHANGED <<current, handled, due, runpc>> /\ accepted' = Append(accepted, m)
    BY <1>1 DEF Push
  <2>2. Active' = Active /\ RunStates' = RunStates
    BY <2>1 DEF Active, RunStates, RunState
  <2>3. Dispatch!Accept(m)
    BY <2>1, <2>2 DEF Dispatch!Accept, Active, RunStates
  <2> QED
    BY <2>3 DEF Dispatch!DNext
<1>2. ASSUME NEW m \in Msgs, Fire(m) \/ Callback(m) PROVE UNCHANGED Dispatch!dvars
  BY <1>2, FrameUnseen DEF Fire, Callback, pcs, ghosts
<1>3. ASSUME NEW r \in Runs, RunFlush(r) PROVE [Dispatch!DNext]_(Dispatch!dvars)
  BY <1>3, RunFlushStep
<1>4. ASSUME NEW r \in Runs, RunSend(r) \/ RunReturn(r) PROVE UNCHANGED Dispatch!dvars
  BY <1>4, CallerUnseen
<1>5. CASE CloseFlush \/ CloseBarrier \/ Dispose
  BY <1>5, FrameUnseen DEF CloseFlush, CloseBarrier, Dispose, ghosts
<1>6. CASE Send \/ Exit
  BY <1>6, FrameUnseen DEF Send, Exit, pcs, ghosts
<1>7. CASE Take \/ Finish
  BY <1>7, TakeStep, FinishStep
<1>8. CASE Rest \/ UNCHANGED vars
  BY <1>8, FrameUnseen DEF Rest, vars, pcs, ghosts
<1> QED
  BY <1>1, <1>2, <1>3, <1>4, <1>5, <1>6, <1>7, <1>8 DEF Next, System

(* ChatQueue implements SerialDispatch for any messages, tasks, limits and  *)
(* capacity, also when it is closed under running callers or panics:        *)
(* messages are handled in the order they were accepted, none skipped and   *)
(* none twice, one batch at a time, and a Run task after all that was       *)
(* accepted before the call.                                                *)
THEOREM ImplementsDispatch == Spec => SerialInOrder
<1>1. Init => Dispatch!DInit
  <2> SUFFICES ASSUME Init PROVE Dispatch!DInit
    OBVIOUS
  <2>1. /\ accepted = <<>> /\ handled = <<>> /\ current = None /\ due = [r \in Runs |-> 0]
        /\ runpc = [r \in Runs |-> "idle"]
    BY DEF Init
  <2>2. Len(handled) = 0 /\ Active = <<>>
    BY <2>1 DEF Active
  <2>3. \A r \in Runs : RunState(r) = "idle"
    BY <2>1 DEF RunState
  <2>4. RunStates = [r \in Runs |-> "idle"]
    BY <2>3 DEF RunStates
  <2> QED
    BY <2>1, <2>2, <2>4 DEF Dispatch!DInit, Active, RunStates
<1> QED
  BY <1>1, LogInOrder, DispatchStep, PTL DEF Spec, SerialInOrder, Dispatch!DSpec
-----------------------------------------------------------------------------
(* An application that stops its callers first closes the queue without     *)
(* loss.  Once the callers have returned nothing can enter any more, and    *)
(* after each step of the closer one more place is empty; the second flush  *)
(* finds nothing to do.  A late timer callback finds an empty buffer.       *)

(* The barrier is the last task the worker will see. *)
BarrierLast ==
    /\ \A i \in DOMAIN tasks : tasks[i].kind = "barrier" <=> i = Len(tasks)
    /\ tasks = <<>> <=> current # None /\ current.kind = "barrier"

(* The callers have returned, and the closer empties one place after the    *)
(* other: the buffer, its own hands, the channel, the worker.               *)
Emptied ==
    /\ closepc >= 1 => /\ \A m \in Msgs : pushpc[m] = "done"
                       /\ \A r \in Runs : runpc[r] = "done"
                       /\ buffer = <<>> /\ mu \in {Closer, None}
    /\ closepc >= 2 => mu = None
    /\ closepc \in {2, 5} => BarrierLast
    /\ closepc \in {3, 4, 6, 7} => tasks = <<>> /\ current = None

(* The queue is closed at the end, and the worker stops after that. *)
ClosedLast ==
    /\ closepc = 7 <=> closed
    /\ worker = "exited" => closed
    /\ closed => closedAt = Len(accepted)
    /\ ~panicked

QuietInv == quiesce => Emptied /\ ClosedLast

(* A step before the end that closes nothing. *)
LEMMA StillOpen ==
  ASSUME ClosedLast, UNCHANGED <<closed, worker, panicked, closedAt>>,
         closepc' = 7 <=> closepc = 7, closepc = 7 => accepted' = accepted
  PROVE  ClosedLast'
<1>1. closedAt' = closedAt /\ (closed => Len(accepted') = Len(accepted))
  BY DEF ClosedLast
<1> QED
  BY <1>1, Zenon DEF ClosedLast

(* A step of a caller, while the closer waits for the callers. *)
LEMMA CallersFirst ==
  ASSUME closepc = 0, closepc' = closepc, ClosedLast,
         UNCHANGED <<closed, worker, panicked, closedAt>>
  PROVE  Emptied' /\ ClosedLast'
<1>1. Emptied'
  BY DEF Emptied
<1>2. ClosedLast'
  BY StillOpen
<1> QED
  BY <1>1, <1>2

(* A step that moves nothing. *)
LEMMA FrameQuiet ==
  ASSUME Emptied, ClosedLast,
         UNCHANGED <<pushpc, runpc, buffer, mu, closepc, tasks, current, closed, worker,
                     panicked, closedAt, accepted>>
  PROVE  Emptied' /\ ClosedLast'
<1>1. Emptied'
  BY DEF Emptied, BarrierLast
<1>2. ClosedLast'
  BY StillOpen
<1> QED
  BY <1>1, <1>2

(* The worker comes nearer to the barrier. *)
LEMMA TakeQuiet == ASSUME LogInv, Emptied, ClosedLast, Take PROVE Emptied' /\ ClosedLast'
<1>0. /\ UNCHANGED <<pushpc, runpc, buffer, mu, closepc, closed, worker, panicked, closedAt,
                     accepted>>
      /\ current' = Head(tasks) /\ tasks' = Tail(tasks) /\ tasks # <<>> /\ current = None
  BY DEF Take, queue, pcs, ghosts
<1>1. ClosedLast'
  BY <1>0, StillOpen
<1>2. closepc \notin {3, 4, 6, 7}
  BY <1>0 DEF Emptied
<1>3. ASSUME BarrierLast PROVE BarrierLast'
  <2>1. PICK q, p, c : q = tasks /\ p = tasks' /\ c = current'
    OBVIOUS
  <2>2. /\ p \in Seq(Jobs) /\ c = q[1] /\ 1 \in DOMAIN q /\ Len(p) = Len(q) - 1 /\ Len(q) \in Nat
        /\ \A i \in DOMAIN p : i + 1 \in DOMAIN q /\ i \in Nat /\ p[i] = q[i + 1]
    BY <1>0, <2>1, TailOfJobs DEF LogInv, LimitInv, JobTypes
  <2>3. \A i \in DOMAIN q : q[i].kind = "barrier" <=> i = Len(q)
    BY <1>3, <2>1 DEF BarrierLast
  <2>4. \A i \in DOMAIN p : p[i].kind = "barrier" <=> i = Len(p)
    BY <2>2, <2>3
  <2>5. p = <<>> <=> Len(p) = 0
    BY <2>2
  <2>6. p = <<>> <=> c.kind = "barrier"
    BY <2>2, <2>3, <2>5
  <2>7. c # None
    BY <1>0, <2>1, NextTask
  <2> QED
    BY <2>1, <2>4, <2>6, <2>7 DEF BarrierLast
<1>4. Emptied'
  BY <1>0, <1>2, <1>3 DEF Emptied
<1> QED
  BY <1>1, <1>4

(* When the worker returns from the barrier, all is done. *)
LEMMA FinishQuiet == ASSUME LogInv, Emptied, ClosedLast, Finish PROVE Emptied' /\ ClosedLast'
<1>0. /\ UNCHANGED <<pushpc, buffer, mu, tasks, closed, worker, panicked, closedAt, accepted>>
      /\ current # None /\ current' = None
      /\ runpc' = [r \in Runs |-> IF r = current.run THEN "ran" ELSE runpc[r]]
      /\ closepc' = IF current.kind = "barrier" THEN closepc + 1 ELSE closepc
      /\ closepc \in 0 .. 7
  BY DEF Finish, queue, LogInv, LimitInv, TypeOK
<1>1. closepc \in {0, 1, 2, 5}
  BY <1>0 DEF Emptied
<1>2. closepc >= 1 => \A r \in Runs : runpc'[r] = "done"
  <2> SUFFICES ASSUME closepc >= 1, NEW r \in Runs PROVE runpc'[r] = "done"
    OBVIOUS
  <2>1. \A s \in Runs : runpc[s] = "done" /\ s # None
    BY OwnersDistinct DEF Emptied
  <2>2. r # current.run
    BY <1>0, <2>1 DEF LogInv, OneTask, HistoryTypes, WellFormed
  <2> QED
    BY <1>0, <2>1, <2>2
<1>3. CASE current.kind = "barrier"
  <2>1. closepc \in {2, 5} /\ closepc' \in {3, 6}
    BY <1>0, <1>3 DEF LogInv, LimitInv, OneBarrier
  <2>2. tasks = <<>>
    BY <1>0, <1>3, <2>1 DEF Emptied, BarrierLast
  <2>3. Emptied'
    BY <1>0, <1>2, <2>1, <2>2 DEF Emptied
  <2>4. ClosedLast'
    BY <1>0, <2>1, StillOpen
  <2> QED
    BY <2>3, <2>4
<1>4. CASE current.kind # "barrier"
  <2>1. closepc' = closepc
    BY <1>0, <1>4
  <2>2. BarrierLast => BarrierLast'
    BY <1>0, <1>4 DEF BarrierLast
  <2>3. Emptied'
    BY <1>0, <1>1, <1>2, <2>1, <2>2 DEF Emptied
  <2>4. ClosedLast'
    BY <1>0, <2>1, StillOpen
  <2> QED
    BY <2>3, <2>4
<1> QED
  BY <1>3, <1>4

(* Nobody but the closer still has something to send, and the queue is open. *)
LEMMA SendQuiet == ASSUME LogInv, Emptied, ClosedLast, Send PROVE Emptied' /\ ClosedLast'
<1>0. UNCHANGED <<pushpc, runpc, buffer, closepc, current, closed, worker, closedAt, accepted>>
      /\ outbox # <<>> /\ closepc \in 0 .. 7
  BY DEF Send, pcs, ghosts, LogInv, LimitInv, TypeOK
<1>1. mu # None
  BY <1>0 DEF LogInv, OwnerSends
<1>2. closepc \in {0, 1}
  BY <1>0, <1>1 DEF Emptied
<1>3. ~closed
  <2>1. closepc # 7
    BY <1>2
  <2> QED
    BY <2>1, Zenon DEF ClosedLast
<1>4. UNCHANGED panicked /\ mu' = IF Len(outbox) = 1 THEN None ELSE mu
  BY <1>3 DEF Send
<1>5. Emptied'
  BY <1>0, <1>2, <1>4 DEF Emptied
<1>6. ClosedLast'
  BY <1>0, <1>4, StillOpen
<1> QED
  BY <1>5, <1>6

(* A callback that outran Stop finds nothing to flush. *)
LEMMA CallbackQuiet ==
  ASSUME LogInv, Emptied, ClosedLast, NEW m \in Msgs, Callback(m) PROVE Emptied' /\ ClosedLast'
<1>0. /\ UNCHANGED <<pushpc, runpc, closepc, tasks, current, closed, worker, panicked, closedAt,
                     accepted>>
      /\ mu = None /\ enqueueFlush(Timer, buffer)
  BY DEF Callback, pcs, ghosts
<1>1. CASE buffer = <<>>
  <2>1. UNCHANGED <<buffer, mu>>
    BY <1>0, <1>1 DEF enqueueFlush
  <2> QED
    BY <1>0, <2>1, FrameQuiet
<1>2. CASE buffer # <<>>
  <2>1. closepc = 0
    BY <1>2 DEF Emptied, LogInv, LimitInv, TypeOK
  <2> QED
    BY <1>0, <2>1, CallersFirst
<1> QED
  BY <1>1, <1>2

(* The closer flushes when the callers have returned. *)
LEMMA CloseFlushQuiet ==
  ASSUME LogInv, quiesce, Emptied, ClosedLast, CloseFlush PROVE Emptied' /\ ClosedLast'
<1>0. /\ UNCHANGED <<pushpc, runpc, tasks, current, closed, worker, panicked, closedAt, accepted>>
      /\ closepc \in {0, 3} /\ closepc' = closepc + 1 /\ mu = None
      /\ closepc = 0 => Returned
  BY DEF CloseFlush, FlushPending, ghosts
<1>1. ClosedLast'
  BY <1>0, StillOpen
<1>2. (\A m \in Msgs : pushpc[m] = "done") /\ (\A r \in Runs : runpc[r] = "done")
  BY <1>0 DEF Returned, Emptied
<1>3. buffer' = <<>> /\ mu' \in {Closer, None} /\ (closepc = 3 => mu' = None)
  <2>1. CASE buffer = <<>>
    BY <1>0, <2>1 DEF CloseFlush, FlushPending, queue
  <2>2. CASE buffer # <<>>
    <3>1. closepc = 0
      BY <1>0, <2>2 DEF Emptied
    <3> QED
      BY <2>2, <3>1 DEF CloseFlush, FlushPending, enqueueFlush
  <2> QED
    BY <2>1, <2>2
<1>4. Emptied'
  BY <1>0, <1>2, <1>3 DEF Emptied
<1> QED
  BY <1>1, <1>4

(* Nothing comes behind the barrier. *)
LEMMA CloseBarrierQuiet ==
  ASSUME LogInv, Emptied, ClosedLast, CloseBarrier PROVE Emptied' /\ ClosedLast'
<1>0. /\ UNCHANGED <<pushpc, runpc, buffer, mu, current, closed, worker, closedAt, accepted>>
      /\ closepc \in {1, 4} /\ closepc' = closepc + 1 /\ mu # Closer
  BY DEF CloseBarrier, queue, ghosts
<1>1. mu = None
  BY <1>0 DEF Emptied
<1>2. ~closed
  <2>1. closepc # 7
    BY <1>0
  <2> QED
    BY <2>1, Zenon DEF ClosedLast
<1>3. tasks' = Append(tasks, Barrier) /\ UNCHANGED panicked
  BY <1>2 DEF CloseBarrier, SendTask
<1>4. BarrierLast'
  <2>1. PICK q, p, c : q = tasks /\ p = tasks' /\ c = Barrier
    OBVIOUS
  <2>2. c \in Jobs /\ c.kind = "barrier"
    BY <2>1 DEF Barrier, Jobs
  <2>3. /\ p \in Seq(Jobs) /\ Len(p) = Len(q) + 1 /\ Len(q) \in Nat /\ DOMAIN q = 1 .. Len(q)
        /\ DOMAIN p = DOMAIN q \cup {Len(q) + 1} /\ p[Len(q) + 1] = c
        /\ \A i \in DOMAIN q : p[i] = q[i]
    BY <1>3, <2>1, <2>2, AppendOfJobs DEF LogInv, LimitInv, JobTypes
  <2>4. /\ \A i \in DOMAIN q : q[i].kind # "barrier"
        /\ ~(current # None /\ current.kind = "barrier")
    BY <1>0, <2>1 DEF LogInv, LimitInv, OneBarrier
  <2>5. \A i \in DOMAIN p : p[i].kind = "barrier" <=> i = Len(p)
    BY <2>2, <2>3, <2>4
  <2>6. p # <<>>
    BY <2>3
  <2> QED
    BY <1>0, <2>1, <2>4, <2>5, <2>6 DEF BarrierLast
<1>5. Emptied'
  BY <1>0, <1>1, <1>4 DEF Emptied
<1>6. ClosedLast'
  BY <1>0, <1>3, StillOpen
<1> QED
  BY <1>5, <1>6

(* The channel is closed when it is empty, and the worker stops after that. *)
LEMMA EndQuiet ==
  ASSUME Emptied, ClosedLast, Dispose \/ Exit PROVE Emptied' /\ ClosedLast'
<1>1. CASE Dispose
  <2>0. /\ UNCHANGED <<pushpc, runpc, buffer, mu, tasks, current, worker, panicked, accepted>>
        /\ closepc = 6 /\ closepc' = 7 /\ closed' = TRUE /\ closedAt' = Len(accepted)
    BY <1>1 DEF Dispose
  <2>1. Emptied'
    BY <2>0 DEF Emptied
  <2>2. ClosedLast'
    <3>1. Len(accepted') = Len(accepted) /\ closedAt' = Len(accepted') /\ ~panicked
      BY <2>0, Zenon DEF ClosedLast
    <3> QED
      BY <2>0, <3>1 DEF ClosedLast
  <2> QED
    BY <2>1, <2>2
<1>2. CASE Exit
  <2>0. /\ UNCHANGED <<pushpc, runpc, buffer, mu, closepc, tasks, current, panicked, closed,
                       closedAt, accepted>> /\ closed
    BY <1>2 DEF Exit, queue, pcs, ghosts
  <2>1. Emptied'
    BY <2>0 DEF Emptied, BarrierLast
  <2>2. Len(accepted') = Len(accepted)
    BY <2>0
  <2>3. ClosedLast'
    BY <2>0, <2>2, Zenon DEF ClosedLast
  <2> QED
    BY <2>1, <2>3
<1> QED
  BY <1>1, <1>2

LEMMA QuietKept == LogInv /\ QuietInv /\ [Next]_vars => QuietInv'
<1> SUFFICES ASSUME LogInv, QuietInv, [Next]_vars, quiesce' PROVE Emptied' /\ ClosedLast'
  BY DEF QuietInv
<1>0. quiesce
  BY DEF Next, System, vars, cfg, Push, Fire, Callback, RunFlush, RunSend, RunReturn, Send, Take,
         Finish, Exit, CloseFlush, CloseBarrier, Dispose, Rest
<1>1. Emptied /\ ClosedLast /\ closepc \in 0 .. 7
  BY <1>0 DEF QuietInv, LogInv, LimitInv, TypeOK
<1>2. ASSUME NEW m \in Msgs, Push(m) PROVE Emptied' /\ ClosedLast'
  BY <1>0, <1>1, <1>2, CallersFirst DEF Push
<1>3. ASSUME NEW m \in Msgs, Fire(m) \/ Callback(m) PROVE Emptied' /\ ClosedLast'
  BY <1>1, <1>3, FrameQuiet, CallbackQuiet DEF Fire, pcs, ghosts
<1>4. ASSUME NEW r \in Runs, RunFlush(r) PROVE Emptied' /\ ClosedLast'
  BY <1>0, <1>1, <1>4, CallersFirst DEF RunFlush
<1>5. ASSUME NEW r \in Runs, RunSend(r) \/ RunReturn(r) PROVE Emptied' /\ ClosedLast'
  <2>1. /\ runpc[r] \in {"send", "ran"} /\ UNCHANGED <<closepc, closed, worker, closedAt, accepted>>
    BY <1>5 DEF RunSend, RunReturn, ghosts
  <2>2. closepc = 0
    BY <1>1, <2>1 DEF Emptied
  <2>3. ~closed
    <3>1. closepc # 7
      BY <2>2
    <3> QED
      BY <1>1, <3>1, Zenon DEF ClosedLast
  <2>4. UNCHANGED panicked
    BY <1>5, <2>3 DEF RunSend, RunReturn, SendTask
  <2> QED
    BY <1>1, <2>1, <2>2, <2>4, CallersFirst
<1>6. CASE CloseFlush
  BY <1>0, <1>1, <1>6, CloseFlushQuiet
<1>7. CASE CloseBarrier \/ Dispose \/ Exit
  BY <1>1, <1>7, CloseBarrierQuiet, EndQuiet
<1>8. CASE Send \/ Take \/ Finish
  BY <1>1, <1>8, SendQuiet, TakeQuiet, FinishQuiet
<1>9. CASE Rest \/ UNCHANGED vars
  BY <1>1, <1>9, FrameQuiet DEF Rest, vars, queue, pcs, ghosts
<1> QED
  BY <1>2, <1>3, <1>4, <1>5, <1>6, <1>7, <1>8, <1>9 DEF Next, System

LEMMA InitQuiet == Init => QuietInv
<1> SUFFICES ASSUME Init PROVE Emptied /\ ClosedLast
  BY DEF QuietInv
<1>1. closepc = 0 /\ closed = FALSE /\ panicked = FALSE /\ worker # "exited"
  BY DEF Init
<1> QED
  BY <1>1 DEF Emptied, ClosedLast

(* An application that stops its callers before it closes the queue loses   *)
(* nothing: no send meets the closed channel, and when the worker is gone   *)
(* all that was accepted has been handled, for any messages, limits and     *)
(* capacity.                                                                *)
THEOREM QuietClose == Spec => []QuietCloseIsClean
<1>1. LogInv /\ QuietInv => QuietCloseIsClean
  <2> SUFFICES ASSUME LogInv, QuietInv, quiesce PROVE ~panicked /\ FlushedBeforeClosed
    BY DEF QuietCloseIsClean
  <2>1. Emptied /\ ClosedLast
    BY DEF QuietInv
  <2>2. ASSUME worker = "exited" PROVE Len(handled) >= closedAt
    <3>1. closepc = 7 /\ closedAt = Len(accepted)
      BY <2>1, <2>2, Zenon DEF ClosedLast
    <3>2. tasks = <<>> /\ current = None /\ buffer = <<>> /\ mu = None
      BY <2>1, <3>1 DEF Emptied
    <3>3. Taken = Flushed
      BY <3>2, FreeFacts, ChainOfNone DEF Split
    <3>4. Len(handled) = Len(accepted) /\ Len(accepted) \in Nat
      <4>1. Len(buffer) = 0
        BY <3>2
      <4> QED
        BY <3>2, <3>3, <4>1, LogFacts DEF Taken
    <3> QED
      BY <3>1, <3>4
  <2> QED
    BY <2>1, <2>2, Zenon DEF ClosedLast, FlushedBeforeClosed
<1> QED
  BY <1>1, InitQuiet, QuietKept, InitLog, LogKept, PTL DEF Spec
=============================================================================
