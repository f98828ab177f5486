------------------------------- MODULE Channel -------------------------------
(***************************************************************************)
(* The Channel of channel.go: handlers that are registered while it runs,  *)
(* the dispatch of a frame or an HTTP callback, each in a goroutine of its *)
(* own, to the queue of its scope, the ChatQueueManager that creates those *)
(* queues, and Close with everything it disposes of.                       *)
(*                                                                         *)
(* A message begins here when it has passed the checks of SafetyPipeline.  *)
(* A queue is the one of module ChatQueue at the level of its operations:  *)
(* the room of its task channel and the limits of a batch are left to that *)
(* module, and so is the merging of media to MediaPipeline.                *)
(***************************************************************************)
EXTENDS Naturals, Sequences, FiniteSets

CONSTANTS
    Deliveries,   \* frames and HTTP callbacks
    Kind,         \* Kind[d]: "text", "media" or "action"
    Scope,        \* Scope[d]: the conversation, or the card of an action
    MaxQueues,    \* bound on the queues that are created
    MaxCloses     \* bound on the calls of Close

ASSUME DeliveriesAssumption == Deliveries # {}
ASSUME KindAssumption == Kind \in [Deliveries -> {"text", "media", "action"}]
(* the scope of an action has a prefix, "card:", of its own *)
ASSUME ScopeAssumption ==
    \A d, e \in Deliveries : Scope[d] = Scope[e] => (Kind[d] = "action" <=> Kind[e] = "action")
ASSUME QueuesAssumption == MaxQueues \in Nat /\ MaxCloses \in Nat

Scopes == {Scope[d] : d \in Deliveries}
Queues == 1 .. MaxQueues
Nobody == 0
App == MaxQueues + 1
Idle == [kind |-> "none", ds |-> <<>>]

VARIABLES
    queueOn,      \* ChatQueueConfig.Enabled
    onMessage, onBatch,    \* a handler is registered
    queues,       \* cqm.queues: the queue of a scope, 0 for none
    made,         \* queues created so far
    serial, buffer, tasks, closed,    \* per queue: serialOnly, buffer, tasks, closed
    scope,        \* the scope it was created for
    running,      \* the task its worker executes, Idle for none
    exited,       \* its worker has returned
    pc, route, at,    \* per delivery: where it is, "push" or "run", and its queue
    closer,       \* who calls Close: Nobody, App, or the queue whose handler does
    phase,        \* where Close is
    round,        \* which FlushAll it is in
    toFlush, waitFor,    \* queues still to be flushed, and those whose barrier it waits for
    closes,       \* calls of Close
    panicked,     \* the process is gone: a send on a closed channel, or a second close of one
    handled,      \* history: deliveries some handler was called for
    dropped,      \* history: deliveries that reached a closure without a handler
    raced         \* history: a delivery was under way when Close began, or came later

config  == <<queueOn, onMessage, onBatch>>
mgr     == <<queues, made, serial, scope>>
worker  == <<running, exited>>
callers == <<pc, route, at>>
closing == <<closer, phase, round, toFlush, waitFor, closes>>
history == <<handled, dropped, raced>>
vars == <<config, mgr, buffer, tasks, closed, worker, callers, closing, panicked, history>>

Init ==
    /\ queueOn \in BOOLEAN
    /\ onMessage \in BOOLEAN /\ onBatch = ~onMessage
    /\ queues = [s \in Scopes |-> 0] /\ made = 0
    /\ serial = [x \in Queues |-> FALSE] /\ scope = [x \in Queues |-> CHOOSE s \in Scopes : TRUE]
    /\ buffer = [x \in Queues |-> <<>>] /\ tasks = [x \in Queues |-> <<>>]
    /\ closed = [x \in Queues |-> FALSE]
    /\ running = [x \in Queues |-> Idle] /\ exited = [x \in Queues |-> FALSE]
    /\ pc = [d \in Deliveries |-> "new"] /\ route = [d \in Deliveries |-> "run"]
    /\ at = [d \in Deliveries |-> 0]
    /\ closer = Nobody /\ phase = "idle" /\ round = 0 /\ toFlush = {} /\ waitFor = {}
    /\ closes = 0 /\ panicked = FALSE
    /\ handled = {} /\ dropped = {} /\ raced = FALSE

Goto(d, l) == pc' = [pc EXCEPT ![d] = l]
Elements(ds) == {ds[i] : i \in DOMAIN ds}

(* the closures New hands to the pipeline: without a handler they return    *)
(* nil, and the message counts as handled                                   *)
Invoke(kind, ds) ==
    LET registered == CASE kind = "message" -> onMessage [] kind = "batch" -> onBatch
                        [] OTHER -> TRUE
    IN  /\ handled' = IF registered THEN handled \cup Elements(ds) ELSE handled
        /\ dropped' = IF registered THEN dropped ELSE dropped \cup Elements(ds)

(* OnMessage, OnBatchMessage, while messages arrive *)
OnMessage ==
    /\ ~panicked /\ ~onMessage /\ onMessage' = TRUE
    /\ UNCHANGED <<queueOn, onBatch, mgr, buffer, tasks, closed, worker, callers, closing,
                   panicked, history>>

OnBatchMessage ==
    /\ ~panicked /\ ~onBatch /\ onBatch' = TRUE
    /\ UNCHANGED <<queueOn, onMessage, mgr, buffer, tasks, closed, worker, callers, closing,
                   panicked, history>>
-----------------------------------------------------------------------------
(* Faulty variant: hasOnBatch is asked once, when the channel is made. *)
batchModeFixed == FALSE

(* HasOnBatch is asked at every dispatch *)
batchMode == onBatch

(* dispatchFrame, HandleHTTPCallback: the rest of PushMessage, PushAction.  *)
(* Without queues media wait in their buckets, which lead to OnMessage      *)
(* whatever is registered.                                                  *)
Dispatch(d) ==
    /\ ~panicked /\ pc[d] = "new"
    /\ route' = [route EXCEPT ![d] = IF batchMode /\ Kind[d] # "action" THEN "push" ELSE "run"]
    /\ Goto(d, IF queueOn THEN "lookup" ELSE IF Kind[d] = "media" THEN "bucket" ELSE "direct")
    /\ raced' = (raced \/ phase # "idle")
    /\ UNCHANGED <<config, mgr, buffer, tasks, closed, worker, at, closing, panicked, handled,
                   dropped>>

(* a call of the handler in the goroutine of the delivery, or of its bucket *)
Direct(d) ==
    /\ ~panicked /\ pc[d] \in {"direct", "bucket"}
    /\ Goto(d, "done")
    /\ Invoke(IF Kind[d] = "action" THEN "action"
              ELSE IF pc[d] = "direct" /\ route[d] = "push" THEN "batch" ELSE "message", <<d>>)
    /\ UNCHANGED <<config, mgr, buffer, tasks, closed, worker, route, at, closing, panicked,
                   raced>>

(* getOrCreate: the look under the read lock *)
Lookup(d) ==
    /\ ~panicked /\ pc[d] = "lookup"
    /\ at' = [at EXCEPT ![d] = queues[Scope[d]]]
    /\ Goto(d, IF queues[Scope[d]] = 0 THEN "create" ELSE "enter")
    /\ UNCHANGED <<config, mgr, buffer, tasks, closed, worker, route, closing, panicked, history>>

New(d) ==
    /\ made < MaxQueues
    /\ made' = made + 1
    /\ queues' = [queues EXCEPT ![Scope[d]] = made + 1]
    /\ serial' = [serial EXCEPT ![made + 1] = (route[d] = "run")]
    /\ scope' = [scope EXCEPT ![made + 1] = Scope[d]]
    /\ at' = [at EXCEPT ![d] = made + 1]

(* Faulty variant: no second look under the write lock. *)
CreateBlind(d) ==
    /\ ~panicked /\ pc[d] = "create"
    /\ Goto(d, "enter")
    /\ New(d)
    /\ UNCHANGED <<config, buffer, tasks, closed, worker, route, closing, panicked, history>>

(* getOrCreate: the second look, under the write lock, and the new queue    *)
Create(d) ==
    /\ ~panicked /\ pc[d] = "create"
    /\ Goto(d, "enter")
    /\ \/ queues[Scope[d]] = 0 /\ New(d)
       \/ /\ queues[Scope[d]] # 0
          /\ at' = [at EXCEPT ![d] = queues[Scope[d]]]
          /\ UNCHANGED mgr
    /\ UNCHANGED <<config, buffer, tasks, closed, worker, route, closing, panicked, history>>
-----------------------------------------------------------------------------
(* what a flush of the buffer ds puts before the task queue's end: one      *)
(* batch, or, on a serialOnly queue, every message by itself                *)
Flushed(x, ds) ==
    IF ds = <<>> THEN <<>>
    ELSE IF serial[x] THEN [i \in DOMAIN ds |-> [kind |-> "batch", ds |-> <<ds[i]>>]]
    ELSE <<[kind |-> "batch", ds |-> ds]>>

(* buffer and tasks of x after a flush, and after more tasks; a send on the *)
(* closed channel is a panic                                                *)
Enqueue(x, ds, more) ==
    /\ buffer' = [buffer EXCEPT ![x] = <<>>]
    /\ tasks' = [tasks EXCEPT ![x] = @ \o Flushed(x, ds) \o more]
    /\ panicked' = (closed[x] /\ Flushed(x, ds) \o more # <<>>)

(* ChatQueue.Push: closed is not asked; the buffer waits for its timer      *)
Push(d) ==
    LET x == at[d]
    IN  /\ ~panicked /\ pc[d] = "enter" /\ route[d] = "push"
        /\ Goto(d, "done")
        /\ \/ serial[x] /\ Enqueue(x, Append(buffer[x], d), <<>>)
           \/ /\ ~serial[x]
              /\ buffer' = [buffer EXCEPT ![x] = Append(@, d)]
              /\ UNCHANGED <<tasks, panicked>>
        /\ UNCHANGED <<config, mgr, closed, worker, route, at, closing, history>>

(* the timer of a buffer *)
Fire(x) ==
    /\ ~panicked /\ buffer[x] # <<>>
    /\ Enqueue(x, buffer[x], <<>>)
    /\ UNCHANGED <<config, mgr, closed, worker, callers, closing, history>>

(* ChatQueue.Run, which returns when its task has run *)
Run(d) ==
    LET kind == IF Kind[d] = "action" THEN "action" ELSE "message"
    IN  /\ ~panicked /\ pc[d] = "enter" /\ route[d] = "run"
        /\ Goto(d, "wait")
        /\ Enqueue(at[d], buffer[at[d]], <<[kind |-> kind, ds |-> <<d>>]>>)
        /\ UNCHANGED <<config, mgr, closed, worker, route, at, closing, history>>

(* the worker *)
Take(x) ==
    /\ ~panicked /\ running[x] = Idle /\ ~exited[x] /\ tasks[x] # <<>>
    /\ running' = [running EXCEPT ![x] = Head(tasks[x])]
    /\ tasks' = [tasks EXCEPT ![x] = Tail(@)]
    /\ Invoke(Head(tasks[x]).kind, Head(tasks[x]).ds)
    /\ UNCHANGED <<config, mgr, buffer, closed, exited, callers, closing, panicked, raced>>

(* the task returns; a handler that calls Close returns after Close *)
Finish(x) ==
    /\ ~panicked /\ running[x] # Idle
    /\ closer = x => phase = "done"
    /\ running' = [running EXCEPT ![x] = Idle]
    /\ pc' = [d \in Deliveries |-> IF d \in Elements(running[x].ds) THEN "done" ELSE pc[d]]
    /\ waitFor' = IF running[x].kind = "barrier" THEN waitFor \ {x} ELSE waitFor
    /\ UNCHANGED <<config, mgr, buffer, tasks, closed, exited, route, at, closer, phase, round,
                   toFlush, closes, panicked, history>>

(* Faulty variant: a worker without work ends. *)
ExitIdle(x) ==
    /\ ~panicked /\ running[x] = Idle /\ ~exited[x] /\ x <= made /\ (closed[x] \/ tasks[x] = <<>>)
    /\ exited' = [exited EXCEPT ![x] = TRUE]
    /\ UNCHANGED <<config, mgr, buffer, tasks, closed, running, callers, closing, panicked,
                   history>>

Exit(x) ==
    /\ ~panicked /\ running[x] = Idle /\ closed[x] /\ ~exited[x]
    /\ exited' = [exited EXCEPT ![x] = TRUE]
    /\ UNCHANGED <<config, mgr, buffer, tasks, closed, running, callers, closing, panicked,
                   history>>
-----------------------------------------------------------------------------
(* Close, called by the application or from within a handler *)
Close(who) ==
    /\ ~panicked /\ phase \in {"idle", "done"} /\ closes < MaxCloses
    /\ who # App => running[who].kind \in {"message", "batch", "action"}
    /\ closer \notin Queues
    /\ closer' = who
    /\ phase' = "flush" /\ round' = 1 /\ closes' = closes + 1
    /\ raced' = (raced \/ \E d \in Deliveries :
                               pc[d] \in {"lookup", "create", "enter", "direct", "bucket"})
    /\ UNCHANGED <<config, mgr, buffer, tasks, closed, worker, callers, toFlush, waitFor, panicked,
                   handled, dropped>>

(* FlushAll: the queues of this moment, then FlushNow on each, then wait *)
FlushAll ==
    /\ ~panicked /\ phase = "flush"
    /\ toFlush' = {queues[s] : s \in Scopes} \ {0}
    /\ phase' = "flushing"
    /\ UNCHANGED <<config, mgr, buffer, tasks, closed, worker, callers, closer, round, waitFor,
                   closes, panicked, history>>

(* Faulty variant: what waits in the buffer is left there. *)
FlushNowBarrier(x) ==
    /\ ~panicked /\ x \in toFlush
    /\ toFlush' = toFlush \ {x} /\ waitFor' = waitFor \cup {x}
    /\ tasks' = [tasks EXCEPT ![x] = Append(@, [kind |-> "barrier", ds |-> <<>>])]
    /\ UNCHANGED <<config, mgr, buffer, closed, worker, callers, closer, phase, round, closes,
                   panicked, history>>

(* Faulty variant: the flush is not waited for. *)
FlushNowNoWait(x) ==
    /\ ~panicked /\ x \in toFlush
    /\ toFlush' = toFlush \ {x}
    /\ Enqueue(x, buffer[x], <<>>)
    /\ UNCHANGED <<config, mgr, closed, worker, callers, closer, phase, round, waitFor, closes,
                   history>>

FlushNow(x) ==
    /\ ~panicked /\ x \in toFlush
    /\ toFlush' = toFlush \ {x} /\ waitFor' = waitFor \cup {x}
    /\ Enqueue(x, buffer[x], <<[kind |-> "barrier", ds |-> <<>>]>>)
    /\ UNCHANGED <<config, mgr, closed, worker, callers, closer, phase, round, closes, history>>

(* pipeline.Dispose flushes, and the manager's Dispose once more *)
Flushes ==
    /\ ~panicked /\ phase = "flushing" /\ toFlush = {} /\ waitFor = {}
    /\ phase' = IF round = 1 THEN "flush" ELSE "dispose"
    /\ round' = 2
    /\ UNCHANGED <<config, mgr, buffer, tasks, closed, worker, callers, closer, toFlush, waitFor,
                   closes, panicked, history>>

(* the queues of this moment are closed and forgotten, their timers         *)
(* stopped, but for those that have fired and wait for the queue's lock;    *)
(* then the media, the seen cache and the processing lock, whose Dispose    *)
(* closes its stopCh and so cannot be called twice                          *)
Dispose ==
    /\ ~panicked /\ phase = "dispose"
    /\ phase' = "done"
    /\ closed' = [x \in Queues |-> closed[x] \/ \E s \in Scopes : queues[s] = x]
    /\ \E stopped \in SUBSET {x \in Queues : closed'[x] /\ ~closed[x]} :
           buffer' = [x \in Queues |-> IF x \in stopped THEN <<>> ELSE buffer[x]]
    /\ queues' = [s \in Scopes |-> 0]
    /\ panicked' = (closes > 1)
    /\ UNCHANGED <<config, made, serial, scope, tasks, worker, callers, closer, round, toFlush,
                   waitFor, closes, history>>
-----------------------------------------------------------------------------
WorkerStep(x) == Take(x) \/ Finish(x) \/ Exit(x)
CloseStep == FlushAll \/ (\E x \in Queues : FlushNow(x)) \/ Flushes \/ Dispose
Step(d) == Direct(d) \/ Lookup(d) \/ Create(d) \/ Push(d) \/ Run(d)

Next ==
    \/ OnMessage \/ OnBatchMessage
    \/ \E d \in Deliveries : Dispatch(d) \/ Step(d)
    \/ \E x \in Queues : Fire(x) \/ WorkerStep(x)
    \/ \E who \in Queues \cup {App} : Close(who)
    \/ CloseStep

Spec == Init /\ [][Next]_vars

(* Goroutines and timers run, and handlers return. *)
Fairness ==
    /\ \A d \in Deliveries : WF_vars(Step(d))
    /\ \A x \in Queues : WF_vars(WorkerStep(x)) /\ WF_vars(Fire(x))
    /\ WF_vars(CloseStep)

FairSpec == Spec /\ Fairness
-----------------------------------------------------------------------------
Kinds == {"message", "batch", "action", "barrier"}
Tasks == [kind : Kinds, ds : Seq(Deliveries)]

TypeOK ==
    /\ queueOn \in BOOLEAN /\ onMessage \in BOOLEAN /\ onBatch \in BOOLEAN
    /\ panicked \in BOOLEAN /\ raced \in BOOLEAN
    /\ made \in 0 .. MaxQueues /\ queues \in [Scopes -> 0 .. made]
    /\ serial \in [Queues -> BOOLEAN] /\ closed \in [Queues -> BOOLEAN]
    /\ exited \in [Queues -> BOOLEAN] /\ scope \in [Queues -> Scopes]
    /\ buffer \in [Queues -> Seq(Deliveries)] /\ tasks \in [Queues -> Seq(Tasks)]
    /\ running \in [Queues -> Tasks \cup {Idle}]
    /\ pc \in [Deliveries -> {"new", "lookup", "create", "enter", "wait", "direct", "bucket",
                              "done"}]
    /\ route \in [Deliveries -> {"push", "run"}] /\ at \in [Deliveries -> 0 .. made]
    /\ closer \in Nobody .. App /\ round \in 0 .. 2
    /\ phase \in {"idle", "flush", "flushing", "dispose", "done"}
    /\ toFlush \subseteq 1 .. made /\ waitFor \subseteq 1 .. made /\ closes \in 0 .. MaxCloses
    /\ handled \subseteq Deliveries /\ dropped \subseteq Deliveries

(* Handlers of one conversation, or of one card, run one at a time whatever *)
(* goroutines look for its queue at the same moment - unless Close has      *)
(* thrown the queue away and a later delivery made a new one.               *)
OneQueuePerScope ==
    \A x, y \in Queues :
        (x < y /\ y <= made /\ scope[x] = scope[y]) => closed[x]

(* No message vanishes in a closure without a handler, although handlers    *)
(* come and the mode changes while it is queued; except media that went     *)
(* through a bucket, with only OnBatchMessage registered.                   *)
DroppedOnlyFromBucket ==
    \A d \in dropped : Kind[d] = "media" /\ ~queueOn

(* The process is brought down only by a second Close, or by a delivery     *)
(* that met the first one.                                                  *)
PanicNeedsRace == panicked => raced \/ closes > 1

(* When Close has returned, and no delivery was on its way to a queue when  *)
(* it began nor came later, every message that had been accepted was handed *)
(* to a handler and no handler is running.  Media in a bucket count as on   *)
(* their way: Close starts their handler and does not wait for it.          *)
QuietCloseIsClean ==
    /\ TypeOK
    /\ PanicNeedsRace
    /\ (phase = "done" /\ closer = App /\ ~raced)
        => /\ \A d \in Deliveries : pc[d] # "new" => d \in handled \cup dropped
           /\ \A x \in Queues : running[x] = Idle

(* Whatever was dispatched to a queue is answered: getOrCreate, Push and    *)
(* Run return, also when Close flushes and disposes of the queue in         *)
(* between, so that in the end nobody waits for a task in a queue whose     *)
(* worker has gone.  Exempt are deliveries that Close met on their way to   *)
(* the queue or that came later, and a handler that calls Close from within *)
(* its own queue and so waits for itself.                                   *)
EveryDeliveryReturns ==
    <>[](\/ \A d \in Deliveries : pc[d] \notin {"lookup", "create", "enter", "wait"}
         \/ panicked \/ raced \/ closer \in Queues)

(* Close, called from outside a handler, returns.                           *)
CloseReturns == (closer = App /\ phase # "done") ~> (phase = "done" \/ panicked)
=============================================================================
