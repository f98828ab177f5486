------------------------------ MODULE ChatQueue ------------------------------
(***************************************************************************)
(* One ChatQueue of internal/safety/chat_queue.go: the debounce buffer     *)
(* under cq.mu, its timers, the bounded task channel and the worker, with  *)
(* the goroutines that use it:                                             *)
(*   - one goroutine per message, calling Push;                            *)
(*   - one goroutine per task, calling Run and waiting for its result;     *)
(*   - the closer, SafetyPipeline.Dispose: FlushAll, then the manager's    *)
(*     Dispose, which flushes again and then disposes of the queue.        *)
(* A step is a critical section of cq.mu or one channel operation.  A      *)
(* goroutine that holds cq.mu keeps it while its send blocks on a full     *)
(* channel.  Delays are not modelled: an armed timer fires at any moment.  *)
(***************************************************************************)
EXTENDS Integers, Sequences, SequencesExt, FiniteSets

CONSTANTS
    Msgs,          \* messages, one Push each
    Runs,          \* tasks submitted with Run
    Chars,         \* Chars[m]: len(msg.Text)
    MaxMessages,   \* batchCfg.MaxMessages
    MaxChars,      \* batchCfg.MaxChars
    Cap,           \* capacity of cq.tasks (100 in the code)
    Closer, Timer, \* the other two owners of cq.mu
    None           \* no owner, no timer, no task

ASSUME OwnersDistinct ==
    /\ Msgs \cap Runs = {}
    /\ {Closer, Timer, None} \cap (Msgs \cup Runs) = {}
    /\ Closer # Timer /\ Closer # None /\ Timer # None
ASSUME NoneIsNoTask ==
    None \notin [kind : {"batch", "run", "barrier"}, msgs : Seq(Msgs), run : Runs \cup {None}]
ASSUME LimitAssumption == Cap \in Nat \ {0} /\ MaxMessages \in Int /\ MaxChars \in Int

VARIABLES
    serialOnly,    \* fixed when the queue is created
    debounced,     \* batchCfg.DelayMs > 0
    quiesce,       \* the application stops all callers before it closes
    mu,            \* owner of cq.mu, or None
    buffer,        \* cq.buffer
    timer,         \* cq.timer, named after the message that armed it, or None
    tstate,        \* tstate[m]: "off", "armed", or "fired" (callback started)
    outbox,        \* tasks the owner of cq.mu has still to send
    tasks,         \* cq.tasks
    current,       \* the task the worker runs, or None
    worker,        \* "running" or "exited"
    closed,        \* cq.closed, stopCh and tasks closed
    pushpc,        \* "idle", "done"
    runpc,         \* "idle", "send", "wait", "ran", "done"
    closepc,       \* number of the closer's next step
    panicked,      \* send on a closed channel: the process is gone
    accepted,      \* history: messages in the order they entered the buffer
    handled,       \* history: messages in the order their handler returned
    due,           \* history: Len(accepted) when Run was called
    closedAt       \* history: Len(accepted) when the queue was disposed of

queue  == <<buffer, timer, tstate, outbox>>
cfg    == <<serialOnly, debounced, quiesce>>
pcs    == <<pushpc, runpc, closepc>>
ghosts == <<accepted, handled, due, closedAt>>
vars   == <<cfg, mu, queue, tasks, current, worker, closed, pcs, panicked, ghosts>>

Batch(b) == [kind |-> "batch", msgs |-> b, run |-> None]
Task(r)  == [kind |-> "run", msgs |-> <<>>, run |-> r]
Barrier  == [kind |-> "barrier", msgs |-> <<>>, run |-> None]

bufferChars(b) == FoldLeft(LAMBDA n, m : n + Chars[m], 0, b)

Init ==
    /\ serialOnly \in BOOLEAN /\ debounced \in BOOLEAN /\ quiesce \in BOOLEAN
    /\ mu = None
    /\ buffer = <<>>
    /\ timer = None
    /\ tstate = [m \in Msgs |-> "off"]
    /\ outbox = <<>>
    /\ tasks = <<>>
    /\ current = None
    /\ worker = "running"
    /\ closed = FALSE
    /\ pushpc = [m \in Msgs |-> "idle"]
    /\ runpc = [r \in Runs |-> "idle"]
    /\ closepc = 0
    /\ panicked = FALSE
    /\ accepted = <<>> /\ handled = <<>>
    /\ due = [r \in Runs |-> 0]
    /\ closedAt = 0
-----------------------------------------------------------------------------
(* clearTimer: Stop has no effect on a callback that already started. *)
Stopped == [m \in Msgs |-> IF m = timer /\ tstate[m] = "armed" THEN "off" ELSE tstate[m]]

(* Faulty variant: only the last message of the buffer is dispatched. *)
DispatchesLast(b) == <<Batch(<<Last(b)>>)>>

(* enqueueFlush: one task per message in serialOnly mode, one merged else. *)
Dispatches(b) ==
    IF serialOnly THEN [i \in DOMAIN b |-> Batch(<<b[i]>>)] ELSE <<Batch(b)>>

(* enqueueFlush by the owner of cq.mu: the buffer becomes tasks to send and *)
(* the lock is kept until they are sent.                                    *)
enqueueFlush(owner, b) ==
    /\ buffer' = <<>>
    /\ outbox' = IF b = <<>> THEN <<>> ELSE Dispatches(b)
    /\ mu' = IF b = <<>> THEN None ELSE owner

(* Faulty variant: only the number of messages is compared. *)
LimitReachedByCount(b) == Len(b) >= MaxMessages

LimitReached(b) == Len(b) >= MaxMessages \/ bufferChars(b) >= MaxChars

(* Faulty variant: a message buffered behind another one arms no timer. *)
ArmFirstOnly(m, b) ==
    /\ buffer' = b
    /\ timer' = m
    /\ tstate' = IF Len(b) = 1 THEN [Stopped EXCEPT ![m] = "armed"] ELSE Stopped
    /\ UNCHANGED <<mu, outbox>>

(* The rest of Push: clearTimer, then time.AfterFunc for this message. *)
Arm(m, b) ==
    /\ buffer' = b
    /\ timer' = m
    /\ tstate' = [Stopped EXCEPT ![m] = "armed"]
    /\ UNCHANGED <<mu, outbox>>

(* Push, under cq.mu. *)
Push(m) ==
    LET b == Append(buffer, m)
    IN  /\ mu = None /\ pushpc[m] = "idle" /\ ~panicked
        /\ quiesce => closepc = 0
        /\ pushpc' = [pushpc EXCEPT ![m] = "done"]
        /\ accepted' = Append(accepted, m)
        /\ \/ /\ LimitReached(b) \/ ~debounced \/ serialOnly
              /\ timer' = None /\ tstate' = Stopped
              /\ enqueueFlush(m, b)
           \/ /\ ~LimitReached(b) /\ debounced /\ ~serialOnly
              /\ Arm(m, b)
        /\ UNCHANGED <<cfg, tasks, current, worker, closed, runpc, closepc, panicked,
                       handled, due, closedAt>>

(* The runtime starts the callback of an armed timer in its own goroutine. *)
Fire(m) ==
    /\ tstate[m] = "armed" /\ ~panicked
    /\ tstate' = [tstate EXCEPT ![m] = "fired"]
    /\ UNCHANGED <<cfg, mu, buffer, timer, outbox, tasks, current, worker, closed, pcs,
                   panicked, ghosts>>

(* The callback: it clears cq.timer, whichever timer that is by now. *)
Callback(m) ==
    /\ tstate[m] = "fired" /\ mu = None /\ ~panicked
    /\ tstate' = [tstate EXCEPT ![m] = "off"]
    /\ timer' = None
    /\ enqueueFlush(Timer, buffer)
    /\ UNCHANGED <<cfg, tasks, current, worker, closed, pcs, panicked, ghosts>>

(* Faulty variant: the buffered messages stay where they are. *)
FlushPendingSkipped(owner) == mu = None /\ UNCHANGED <<mu, queue>>

(* The first critical section of Run and of FlushNow. *)
FlushPending(owner) ==
    /\ mu = None
    /\ IF buffer = <<>>
       THEN UNCHANGED <<mu, queue>>
       ELSE timer' = None /\ tstate' = Stopped /\ enqueueFlush(owner, buffer)

(* Faulty variant: the early return of a flush forgets the unlock. *)
SendKeepsLock ==
    /\ outbox # <<>> /\ ~panicked /\ ~closed /\ Len(tasks) < Cap
    /\ tasks' = Append(tasks, Head(outbox))
    /\ outbox' = Tail(outbox)
    /\ UNCHANGED <<cfg, mu, buffer, timer, tstate, current, worker, closed, pcs, panicked,
                   ghosts>>

(* One send of the owner of cq.mu; the last one releases the lock.  A send  *)
(* on a closed channel panics.                                              *)
Send ==
    /\ outbox # <<>> /\ ~panicked
    /\ \/ /\ closed
          /\ panicked' = TRUE
          /\ UNCHANGED <<mu, outbox, tasks>>
       \/ /\ ~closed /\ Len(tasks) < Cap
          /\ tasks' = Append(tasks, Head(outbox))
          /\ outbox' = Tail(outbox)
          /\ mu' = IF Len(outbox) = 1 THEN None ELSE mu
          /\ UNCHANGED panicked
    /\ UNCHANGED <<cfg, buffer, timer, tstate, current, worker, closed, pcs, ghosts>>

(* A send that does not hold cq.mu: Run's task and FlushNow's barrier. *)
SendTask(task) ==
    \/ /\ closed
       /\ panicked' = TRUE
       /\ UNCHANGED tasks
    \/ /\ ~closed /\ Len(tasks) < Cap
       /\ tasks' = Append(tasks, task)
       /\ UNCHANGED panicked

(* Run: flush what is buffered, *)
RunFlush(r) ==
    /\ runpc[r] = "idle" /\ ~panicked
    /\ quiesce => closepc = 0
    /\ FlushPending(r)
    /\ runpc' = [runpc EXCEPT ![r] = "send"]
    /\ due' = [due EXCEPT ![r] = Len(accepted)]
    /\ UNCHANGED <<cfg, tasks, current, worker, closed, pushpc, closepc, panicked,
                   accepted, handled, closedAt>>

(* then send the task, *)
RunSend(r) ==
    /\ runpc[r] = "send" /\ mu # r /\ ~panicked
    /\ SendTask(Task(r))
    /\ runpc' = [runpc EXCEPT ![r] = "wait"]
    /\ UNCHANGED <<cfg, mu, queue, current, worker, closed, pushpc, closepc, ghosts>>

(* then receive from errCh. *)
RunReturn(r) ==
    /\ runpc[r] = "ran" /\ ~panicked
    /\ runpc' = [runpc EXCEPT ![r] = "done"]
    /\ UNCHANGED <<cfg, mu, queue, tasks, current, worker, closed, pushpc, closepc,
                   panicked, ghosts>>
-----------------------------------------------------------------------------
(* The worker receives a task; a closed channel still delivers what it holds. *)
Take ==
    /\ worker = "running" /\ current = None /\ tasks # <<>> /\ ~panicked
    /\ current' = Head(tasks)
    /\ tasks' = Tail(tasks)
    /\ UNCHANGED <<cfg, mu, queue, worker, closed, pcs, panicked, ghosts>>

(* The task returns: a handler call, a Run task or a FlushNow barrier. *)
Finish ==
    /\ current # None /\ ~panicked
    /\ current' = None
    /\ handled' = handled \o current.msgs
    /\ runpc' = [r \in Runs |-> IF r = current.run THEN "ran" ELSE runpc[r]]
    /\ closepc' = IF current.kind = "barrier" THEN closepc + 1 ELSE closepc
    /\ UNCHANGED <<cfg, mu, queue, tasks, worker, closed, pushpc, panicked,
                   accepted, due, closedAt>>

(* select may choose stopCh although tasks are left. *)
Exit ==
    /\ worker = "running" /\ current = None /\ closed /\ ~panicked
    /\ worker' = "exited"
    /\ UNCHANGED <<cfg, mu, queue, tasks, current, closed, pcs, panicked, ghosts>>
-----------------------------------------------------------------------------
Returned == (\A m \in Msgs : pushpc[m] = "done" /\ mu # m) /\ (\A r \in Runs : runpc[r] = "done")

(* FlushNow, of FlushAll (steps 0 to 2) and of the manager's Dispose (3 to  *)
(* 5): flush what is buffered,                                              *)
CloseFlush ==
    /\ closepc \in {0, 3} /\ ~panicked
    /\ (quiesce /\ closepc = 0) => Returned
    /\ FlushPending(Closer)
    /\ closepc' = closepc + 1
    /\ UNCHANGED <<cfg, tasks, current, worker, closed, pushpc, runpc, panicked, ghosts>>

(* and wait until the worker reaches the barrier (Finish advances closepc). *)
CloseBarrier ==
    /\ closepc \in {1, 4} /\ mu # Closer /\ ~panicked
    /\ SendTask(Barrier)
    /\ closepc' = closepc + 1
    /\ UNCHANGED <<cfg, mu, queue, current, worker, closed, pushpc, runpc, ghosts>>

(* Dispose of the queue. *)
Dispose ==
    /\ closepc = 6 /\ mu = None /\ ~panicked
    /\ closed' = TRUE
    /\ timer' = None /\ tstate' = Stopped
    /\ closepc' = 7
    /\ closedAt' = Len(accepted)
    /\ UNCHANGED <<cfg, mu, buffer, outbox, tasks, current, worker, pushpc, runpc,
                   panicked, accepted, handled, due>>

(* The process is gone, or everything has come to rest. *)
Rest ==
    /\ \/ panicked
       \/ /\ worker = "exited" /\ mu = None
          /\ \A m \in Msgs : pushpc[m] = "done" /\ tstate[m] = "off"
          /\ \A r \in Runs : runpc[r] \in {"wait", "done"}
    /\ UNCHANGED vars

System ==
    \/ Send \/ Take \/ Finish \/ Exit
    \/ \E m \in Msgs : Fire(m) \/ Callback(m)
    \/ \E r \in Runs : RunSend(r) \/ RunReturn(r)
    \/ CloseBarrier \/ Dispose

Next ==
    \/ System
    \/ \E m \in Msgs : Push(m)
    \/ \E r \in Runs : RunFlush(r)
    \/ CloseFlush
    \/ Rest

(* Whatever was started goes on: the scheduler runs every goroutine, the    *)
(* mutex is starvation free, timers fire and handlers return.  Nobody is    *)
(* obliged to push, to run or to close.                                     *)
Fairness ==
    /\ WF_vars(Send) /\ WF_vars(Take) /\ WF_vars(Finish)
    /\ \A m \in Msgs : WF_vars(Fire(m)) /\ SF_vars(Callback(m))
    /\ \A r \in Runs : SF_vars(RunSend(r)) /\ WF_vars(RunReturn(r))

Spec == Init /\ [][Next]_vars
FairSpec == Spec /\ Fairness
-----------------------------------------------------------------------------
TypeOK ==
    /\ serialOnly \in BOOLEAN /\ debounced \in BOOLEAN /\ quiesce \in BOOLEAN
    /\ mu \in Msgs \cup Runs \cup {Closer, Timer, None}
    /\ buffer \in Seq(Msgs)
    /\ timer \in Msgs \cup {None}
    /\ tstate \in [Msgs -> {"off", "armed", "fired"}]
    /\ Len(tasks) <= Cap
    /\ worker \in {"running", "exited"}
    /\ closed \in BOOLEAN /\ panicked \in BOOLEAN
    /\ pushpc \in [Msgs -> {"idle", "done"}]
    /\ runpc \in [Runs -> {"idle", "send", "wait", "ran", "done"}]
    /\ closepc \in 0 .. 7

(* Messages never wait in the buffer with nobody to flush them: when cq.mu  *)
(* is free and the queue is open, a timer is armed or its callback is on    *)
(* its way, whatever stale callbacks did to cq.timer before.                *)
NeverStranded ==
    (buffer # <<>> /\ mu = None /\ ~closed) => \E m \in Msgs : tstate[m] # "off"

(* The task channel keeps to its capacity (TypeOK), and a batch was below   *)
(* both limits before its last message came, so neither limit is passed by  *)
(* more than that message.                                                  *)
BatchWithinLimits ==
    /\ TypeOK
    /\ \A t \in ToSet(tasks) \cup ToSet(outbox) :
          Len(t.msgs) > 1 => /\ ~serialOnly
                             /\ Len(t.msgs) <= MaxMessages
                             /\ ~(bufferChars(Front(t.msgs)) >= MaxChars)

(* SafetyPipeline.Dispose is documented to flush the pending batches before *)
(* it closes: once the worker is gone, every message that was accepted      *)
(* before the queue was disposed of has been handled.                       *)
FlushedBeforeClosed == worker = "exited" => Len(handled) >= closedAt

(* When the application stops its callers before it closes the queue, this  *)
(* holds, and a timer callback that outran Stop never sends on the closed   *)
(* channel.                                                                 *)
QuietCloseIsClean == quiesce => ~panicked /\ FlushedBeforeClosed

(* Every message that entered the buffer is handled in the end, unless the  *)
(* queue is closed under running callers.                                   *)
EveryMessageHandled ==
    \A m \in Msgs : (quiesce /\ m \in ToSet(accepted)) ~> (m \in ToSet(handled))

(* Every call of Run returns, unless the queue is closed under it. *)
EveryRunReturns ==
    \A r \in Runs : (quiesce /\ runpc[r] = "send") ~> (runpc[r] = "done")

(* how far a call of Run is *)
RunState(r) ==
    IF runpc[r] = "idle" THEN "idle"
    ELSE IF runpc[r] \in {"ran", "done"} THEN "done"
    ELSE IF current # None /\ current.run = r THEN "active"
    ELSE "called"

(* The queue implements in-order, exactly-once, one-at-a-time dispatch. *)
Dispatch == INSTANCE SerialDispatch WITH
    log    <- accepted,
    served <- Len(handled),
    active <- IF current = None THEN <<>> ELSE current.msgs,
    run    <- [r \in Runs |-> RunState(r)]

(* ChatQueue refines SerialDispatch, also when it is closed under callers. *)
SerialInOrder == Dispatch!DSpec
=============================================================================
