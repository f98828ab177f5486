--------------------------- MODULE SafetyPipeline ---------------------------
(***************************************************************************)
(* internal/safety/pipeline.go: the goroutines that push deliveries        *)
(* through stale detection, de-duplication, self filter, policy gate and   *)
(* processing lock to a handler, and that release and mark afterwards.     *)
(* It composes SeenCacheOps, ProcessingLockOps and PolicyGate; one step is *)
(* one critical section of one of them, so that other goroutines run       *)
(* between any two.  A ChatQueue appears as what it promises (see          *)
(* SerialDispatch): consecutive messages of a chat, in order, one handler  *)
(* call at a time.  Media buckets merge in the same way, but their handler *)
(* calls run concurrently.                                                 *)
(***************************************************************************)
EXTENDS SeenCacheOps, ProcessingLockOps, PolicyGate, FiniteSets

CONSTANTS
    Deliveries,   \* frames, each handled by a goroutine of its own
    Msg,          \* Msg[d]: what the frame carries (kind, proto, id, ...)
    Scopes,       \* conversations and cards
    Policies,     \* configurations that UpdatePolicy may install
    Bot, NoBot,   \* robotCode of the bot, and "not known yet"
    StaleWindow,  \* cfg.StaleWindow
    Epoch,        \* the clock when the channel starts
    MaxTime,      \* bound on the clock
    Arrivals      \* the sets of deliveries that arrive in one behaviour

ASSUME MsgAssumption == \A d \in Deliveries : Msg[d].conv \in Scopes
ASSUME ClockAssumption == {Epoch, MaxTime} \subseteq Nat /\ Epoch <= MaxTime

VARIABLES
    mode,         \* "direct", "media", "serial" (queue, OnMessage), "batch"
    markAfterHandler,
    policy, bot,  \* PolicyGate.cfg, botRobotCode
    now,
    seen,         \* SeenCache
    locks,        \* ProcessingLock
    stage,        \* stage[d]: where the goroutine of d is
    queue,        \* queue[s]: deliveries in the queue or in the media bucket of scope s
    job,          \* job[d]: the handler call that d leads, phase "none" if none
    heldSince,    \* history: when d acquired its lock
    overrun,      \* history: ids whose handler outlived the lock
    handledOK,    \* history: ids some handler call returned success for
    settled,      \* history: stable keys whose successful handling is complete
    late,         \* history: deliveries that arrived with a settled key
    unseen        \* history: unseen[d]: those not marked yet when the cache let d through

cfgvars == <<mode, markAfterHandler>>
ghosts  == <<heldSince, overrun, handledOK, settled, late, unseen>>
vars    == <<cfgvars, policy, bot, now, seen, locks, stage, queue, job, ghosts>>

Id(d) == Msg[d].id

(* Faulty variant: the message id is forgotten. *)
DedupKeysWithoutId(d) ==
    (IF Msg[d].kind = "message" THEN <<Msg[d].proto>> ELSE <<Id(d)>>)
        \o (IF Msg[d].print = NoKey THEN <<>> ELSE <<Msg[d].print>>)

(* PushMessage: protocol id, message id and, when text and time are known,  *)
(* the fingerprint.  PushAction: event id and fingerprint.  PushLight: the  *)
(* event id.                                                                *)
DedupKeys(d) ==
    (IF Msg[d].kind = "message" THEN <<Msg[d].proto>> ELSE <<>>)
        \o <<Id(d)>> \o (IF Msg[d].print = NoKey THEN <<>> ELSE <<Msg[d].print>>)

(* What is added to the cache after the handler succeeded: batchFlush and   *)
(* messageFlush add the message id only, PushAction every key.              *)
MarkKeys(d) == IF Msg[d].kind = "message" THEN <<Id(d)>> ELSE DedupKeys(d)

(* history only: what a redelivery of the same message or action shares     *)
(* with it: the message id, or the fingerprint of the action.               *)
StableKeys(d) ==
    ({Id(d)} \cup (IF Msg[d].kind = "action" THEN {Msg[d].print} ELSE {})) \ {NoKey}

AllKeys == (UNION {ToSet(DedupKeys(d)) : d \in Deliveries}) \ {NoKey}

NoJob == [phase |-> "none", srcs |-> <<>>, ok |-> FALSE]

Init ==
    /\ mode \in {"direct", "media", "serial", "batch"}
    /\ markAfterHandler \in BOOLEAN
    /\ policy \in Policies
    /\ bot = NoBot
    /\ now = Epoch
    /\ seen = NewSeenCache
    /\ locks = NoLocks
    /\ \E A \in Arrivals : stage = [d \in Deliveries |-> IF d \in A THEN "new" ELSE "absent"]
    /\ queue = [s \in Scopes |-> <<>>]
    /\ job = [d \in Deliveries |-> NoJob]
    /\ heldSince = [d \in Deliveries |-> 0]
    /\ overrun = {} /\ handledOK = {} /\ settled = {} /\ late = {}
    /\ unseen = [d \in Deliveries |-> {}]
-----------------------------------------------------------------------------
To(d, s) == stage' = [stage EXCEPT ![d] = s]

(* emitReject and return *)
Rejections == {"stale", "duplicate", "refused", "contention"}
Reject(d, reason) == reason \in Rejections /\ To(d, reason)

(* where a delivery is once the cache has let it through *)
Passed == {"marked", "admitted", "queued", "busy", "released", "done"}

(* history only: the look of these is over, and their keys, unless that is  *)
(* left to the handler, have been added to the cache                        *)
Known == {d \in Deliveries : stage[d] \in Passed \cup {"refused", "contention"}}

(* StaleDetector.IsStale: an unknown creation time (0) is let through. *)
IsStale(d) == Msg[d].createAt > 0 /\ now - Msg[d].createAt > StaleWindow

(* Faulty variant: CheckAndMark although marking is left to the handler. *)
EnterMarksEarly(d) ==
    LET r == Has(seen, DedupKeys(d), now, {})
    IN  /\ stage[d] = "new"
        /\ seen' = r.cache
        /\ To(d, IF r.hit = NoKey THEN "checked" ELSE "duplicate")
        /\ UNCHANGED <<cfgvars, policy, bot, now, locks, queue, job, ghosts>>

(* The first steps: stale check (messages only), then the Has section of    *)
(* the cache.  A duplicate is reported for messages and dropped otherwise.  *)
Enter(d) ==
    LET r == Has(seen, DedupKeys(d), now, {})
    IN  /\ stage[d] = "new"
        /\ late' = IF StableKeys(d) \cap settled = {} THEN late ELSE late \cup {d}
        /\ IF Msg[d].kind = "message" /\ IsStale(d)
           THEN Reject(d, "stale") /\ UNCHANGED <<seen, unseen>>
           ELSE /\ seen' = r.cache
                /\ \/ r.hit # NoKey /\ Reject(d, "duplicate") /\ UNCHANGED unseen
                   \/ /\ r.hit = NoKey
                      /\ To(d, IF markAfterHandler THEN "marked" ELSE "checked")
                      /\ unseen' = [unseen EXCEPT ![d] = Deliveries \ Known]
        /\ UNCHANGED <<cfgvars, policy, bot, now, locks, queue, job, heldSince, overrun,
                       handledOK, settled>>

(* Faulty variant: only the first key is added. *)
MarkFirstKey(d) ==
    /\ stage[d] = "checked"
    /\ seen' = Add(seen, <<Head(DedupKeys(d))>>, now)
    /\ To(d, "marked")
    /\ UNCHANGED <<cfgvars, policy, bot, now, locks, queue, job, ghosts>>

(* The Add section of CheckAndMark. *)
Mark(d) ==
    /\ stage[d] = "checked"
    /\ seen' = Add(seen, DedupKeys(d), now)
    /\ To(d, "marked")
    /\ UNCHANGED <<cfgvars, policy, bot, now, locks, queue, job, ghosts>>

Messages == {d \in Deliveries : Msg[d].kind = "message"}

(* The messages the policy gate lets through, per configuration. *)
Admits == [p \in Policies |-> {d \in Messages : Evaluate(p, Msg[d]) = Allowed}]

(* Self filter and policy gate; messages only.  DropSelfSent switched off   *)
(* is a behaviour in which the bot is never known.                          *)
Gate(d) ==
    LET selfSent == bot # NoBot /\ Msg[d].sender = bot
    IN  /\ stage[d] = "marked"
        /\ \/ d \notin Messages /\ To(d, "admitted")
           \/ d \in Messages /\ (selfSent \/ d \notin Admits[policy]) /\ Reject(d, "refused")
           \/ d \in Messages /\ ~selfSent /\ d \in Admits[policy] /\ To(d, "admitted")
        /\ UNCHANGED <<cfgvars, policy, bot, now, seen, locks, queue, job, ghosts>>

(* history only *)
Outlived(t, st) ==
    {Id(d) : d \in {e \in Deliveries : /\ st[e] \in {"queued", "busy"}
                                       /\ Msg[e].kind # "light"
                                       /\ heldSince'[e] + ttlMs <= t}}

(* What goes through a queue or a bucket: all but light events if queues    *)
(* are enabled, without them only media.  For the rest the goroutine calls  *)
(* the handler itself.                                                      *)
Ordered(d) ==
    /\ Msg[d].kind # "light"
    /\ mode \in {"serial", "batch"} \/ (mode = "media" /\ Msg[d].media)

(* Faulty variant: one lock for a whole conversation. *)
LockPerScope(d) ==
    LET inUse == \E e \in Deliveries : Msg[e].conv = Msg[d].conv /\ ~Available(locks, Id(e), now)
    IN  /\ stage[d] = "admitted"
        /\ heldSince' = [heldSince EXCEPT ![d] = now]
        /\ \/ inUse /\ Reject(d, "contention") /\ UNCHANGED <<locks, queue, overrun>>
           \/ /\ ~inUse
              /\ locks' = Locked(locks, Id(d), now)
              /\ To(d, "queued")
              /\ queue' = IF Ordered(d) THEN [queue EXCEPT ![Msg[d].conv] = Append(@, d)] ELSE queue
              /\ overrun' = overrun \cup Outlived(now, stage')
        /\ UNCHANGED <<cfgvars, policy, bot, now, seen, job, handledOK, settled, late, unseen>>

(* lock.Acquire, and on success the hand-over to the queue, the bucket or   *)
(* the direct call.  PushLight takes no lock.                               *)
Lock(d) ==
    /\ stage[d] = "admitted"
    /\ heldSince' = [heldSince EXCEPT ![d] = now]
    /\ \/ /\ Msg[d].kind # "light" /\ ~Available(locks, Id(d), now)
          /\ Reject(d, "contention")
          /\ UNCHANGED <<locks, queue, overrun>>
       \/ /\ Msg[d].kind = "light" \/ Available(locks, Id(d), now)
          /\ locks' = IF Msg[d].kind = "light" THEN locks ELSE Locked(locks, Id(d), now)
          /\ To(d, "queued")
          /\ queue' = IF Ordered(d) THEN [queue EXCEPT ![Msg[d].conv] = Append(@, d)] ELSE queue
          /\ overrun' = overrun \cup Outlived(now, stage')
    /\ UNCHANGED <<cfgvars, policy, bot, now, seen, job, handledOK, settled, late,
                   unseen>>
-----------------------------------------------------------------------------
(* the calls a queue has made and that have not returned to it *)
Running(s) == {d \in Deliveries : Msg[d].conv = s /\ Ordered(d) /\ job[d].phase # "none"}

Runs(q) == Prefixes(q) \ {<<>>}

(* Only messages are merged; a task of PushAction runs alone. *)
Mergeable(b) == Len(b) = 1 \/ \A i \in DOMAIN b : Msg[b[i]].kind = "message"

(* The batches the handler may be called with next, for scope s. *)
NextBatches(s) ==
    {<<d>> : d \in {e \in Deliveries : Msg[e].conv = s /\ stage[e] = "queued" /\ ~Ordered(e)}}
        \cup {b \in Runs(queue[s]) :
                 \/ mode = "media"
                 \/ mode = "serial" /\ Running(s) = {} /\ Len(b) = 1
                 \/ mode = "batch" /\ Running(s) = {} /\ Mergeable(b)}

(* The handler is called for the batch b. *)
Start(s, b) ==
    /\ b \in NextBatches(s)
    /\ job' = [job EXCEPT ![b[1]] = [phase |-> "run", srcs |-> b, ok |-> FALSE]]
    /\ queue' = IF Ordered(b[1]) THEN [queue EXCEPT ![s] = SubSeq(@, Len(b) + 1, Len(@))] ELSE queue
    /\ stage' = [d \in Deliveries |-> IF d \in ToSet(b) THEN "busy" ELSE stage[d]]
    /\ UNCHANGED <<cfgvars, policy, bot, now, seen, locks, ghosts>>

(* The handler returns; batchFlush and messageFlush go on to release. *)
Return(d, ok) ==
    LET ids == {Id(x) : x \in ToSet(job[d].srcs)}
    IN  /\ job[d].phase = "run"
        /\ job' = [job EXCEPT ![d] = [@ EXCEPT !.phase = "release", !.ok = ok]]
        /\ handledOK' = IF ok THEN handledOK \cup ids ELSE handledOK
        /\ UNCHANGED <<cfgvars, policy, bot, now, seen, locks, stage, queue,
                       heldSince, overrun, settled, late, unseen>>

Finished(srcs) == [x \in Deliveries |-> IF x \in ToSet(srcs) THEN "done" ELSE stage[x]]

(* Faulty variant: only the lock of the merged message is released. *)
ReleaseFirstOnly(d) ==
    /\ job[d].phase = "release"
    /\ locks' = Released(locks, Id(d))
    /\ job' = [job EXCEPT ![d] = NoJob]
    /\ stage' = Finished(job[d].srcs)
    /\ UNCHANGED <<cfgvars, policy, bot, now, seen, queue, ghosts>>

(* One Release per source; then, in MarkAfterHandler mode, the marking of   *)
(* the sources of a successful call.                                        *)
Release(d) ==
    LET srcs == job[d].srcs
        held == {i \in DOMAIN srcs : stage[srcs[i]] = "busy" /\ Msg[srcs[i]].kind # "light"}
        toMark == markAfterHandler /\ job[d].ok
    IN  /\ job[d].phase = "release"
        /\ \/ \E i \in held :
                 /\ held # {i} /\ \A j \in held : i <= j
                 /\ locks' = Released(locks, Id(srcs[i]))
                 /\ To(srcs[i], "released")
                 /\ UNCHANGED <<job, settled>>
           \/ /\ \A i, j \in held : i = j
              /\ locks' = IF held = {} THEN locks ELSE Released(locks, Id(srcs[CHOOSE i \in held : TRUE]))
              /\ settled' = settled \cup UNION {StableKeys(x) : x \in {y \in ToSet(srcs) : job[d].ok /\ ~toMark}}
              /\ stage' = IF toMark THEN [x \in Deliveries |-> IF x \in ToSet(srcs) THEN "released" ELSE stage[x]]
                                    ELSE Finished(srcs)
              /\ job' = [job EXCEPT ![d] = IF toMark THEN [@ EXCEPT !.phase = "mark"] ELSE NoJob]
        /\ heldSince' = [x \in Deliveries |-> IF stage'[x] \in {"queued", "busy"} THEN heldSince[x] ELSE 0]
        /\ UNCHANGED <<cfgvars, policy, bot, now, seen, queue, overrun, handledOK,
                       late, unseen>>

(* One seen.Add per source. *)
MarkHandled(d) ==
    LET srcs == job[d].srcs
    IN  /\ job[d].phase = "mark"
        /\ seen' = Add(seen, MarkKeys(Head(srcs)), now)
        /\ stage' = [stage EXCEPT ![Head(srcs)] = "done"]
        /\ job' = [job EXCEPT ![d] = IF Len(srcs) = 1 THEN NoJob ELSE [@ EXCEPT !.srcs = Tail(srcs)]]
        /\ settled' = settled \cup StableKeys(Head(srcs))
        /\ UNCHANGED <<cfgvars, policy, bot, now, locks, queue, heldSince, overrun,
                       handledOK, late, unseen>>
-----------------------------------------------------------------------------
UpdatePolicy(p) ==
    /\ policy' = p
    /\ UNCHANGED <<cfgvars, bot, now, seen, locks, stage, queue, job, ghosts>>

(* Setting the same robotCode again changes nothing. *)
SetBotIdentity ==
    /\ bot = NoBot
    /\ bot' = Bot
    /\ UNCHANGED <<cfgvars, policy, now, seen, locks, stage, queue, job, ghosts>>

(* The background sweeps of the cache and of the lock. *)
SweepSeen ==
    /\ seen' = sweep(seen, now)
    /\ UNCHANGED <<cfgvars, policy, bot, now, locks, stage, queue, job, ghosts>>

SweepLocks ==
    /\ locks' = Swept(locks, now)
    /\ UNCHANGED <<cfgvars, policy, bot, now, seen, stage, queue, job, ghosts>>

Tick ==
    /\ now < MaxTime
    /\ now' = now + 1
    /\ UNCHANGED heldSince
    /\ overrun' = overrun \cup Outlived(now', stage)
    /\ UNCHANGED <<cfgvars, policy, bot, seen, locks, stage, queue, job, handledOK,
                   settled, late, unseen>>

Goroutine(d) == Mark(d) \/ Gate(d) \/ Lock(d) \/ Release(d) \/ MarkHandled(d)
                    \/ \E ok \in BOOLEAN : Return(d, ok)

Next ==
    \/ \E d \in Deliveries : Enter(d) \/ Goroutine(d)
    \/ \E s \in Scopes : \E b \in NextBatches(s) : Start(s, b)
    \/ \E p \in Policies \ {policy} : UpdatePolicy(p)
    \/ SetBotIdentity
    \/ SweepSeen
    \/ SweepLocks
    \/ Tick

Spec == Init /\ [][Next]_vars
-----------------------------------------------------------------------------
Stages == {"absent", "new", "checked"} \cup Passed \cup Rejections

TypeOK ==
    /\ mode \in {"direct", "media", "serial", "batch"}
    /\ markAfterHandler \in BOOLEAN
    /\ policy \in Policies
    /\ bot \in {Bot, NoBot}
    /\ now \in Epoch .. MaxTime
    /\ DOMAIN locks \subseteq {Id(d) : d \in Deliveries}
    /\ stage \in [Deliveries -> Stages]
    /\ \A s \in Scopes :
          ToSet(queue[s]) = {d \in Deliveries : Msg[d].conv = s /\ stage[d] = "queued" /\ Ordered(d)}

(* the handler calls in progress, and the ids a call is about *)
Calls == {d \in Deliveries : job[d].phase = "run"}
InHandler(d) == {Id(x) : x \in {y \in ToSet(job[d].srcs) : Msg[y].kind # "light"}}

(* the cache has room for every key, and none expires before the clock ends *)
Roomy == TTL > MaxTime - Epoch /\ IsFiniteSet(AllKeys) /\ Cardinality(AllKeys) <= MaxEntries

(* d and e are one message or action for the cache *)
Copies(d, e) == (ToSet(DedupKeys(d)) \cap ToSet(DedupKeys(e))) \ {NoKey} # {}

(* Two handler calls never process the same message id or event id at the   *)
(* same time, unless one was queued or running for longer than the lock     *)
(* lives.  Copies under different ids take different locks: only the cache  *)
(* keeps the second one out.  CheckAndMark gives the mutex up between its   *)
(* look and its mark, so two copies do get past it, if both were looked up  *)
(* before either was marked, and then both are handled; but a copy that     *)
(* comes later does not, whatever is swept, refused or handled meanwhile    *)
(* (without MarkAfterHandler, and as long as no key expires and the cache   *)
(* has room).                                                               *)
ExclusiveHandling ==
    /\ \A d, e \in Calls : d # e => InHandler(d) \cap InHandler(e) \subseteq overrun
    /\ (Roomy /\ ~markAfterHandler) =>
           \A d, e \in {x \in Deliveries : stage[x] \in Passed} :
               (d # e /\ Copies(d, e)) => d \in unseen[e] /\ e \in unseen[d]

(* A processing lock is held only for deliveries that are queued or in      *)
(* their handler: rejections, failures, merged batches and the release by   *)
(* a handler that outlived its lock leave no lock behind.                   *)
NoLockLeftBehind ==
    /\ TypeOK
    /\ \A id \in DOMAIN locks :
          \E d \in Deliveries : Id(d) = id /\ stage[d] \in {"queued", "busy"}

(* With MarkAfterHandler, what the cache remembers has been handled with    *)
(* success: a message whose handler failed can be delivered again.          *)
SeenOnlyAfterSuccess ==
    markAfterHandler =>
        \A k \in seen.items :
            \E d \in Deliveries : k \in ToSet(DedupKeys(d)) /\ Id(d) \in handledOK

(* A message or card action that was handled with success and marked is     *)
(* never handled again by a delivery that arrives later, under whatever     *)
(* delivery id (as long as the clock stays within the TTL of the cache, and *)
(* the cache has room for the keys of everything that arrives).             *)
LateRedeliveryRejected ==
    Roomy => \A d \in late : stage[d] \in {"new"} \cup Rejections

(* De-duplication and the lock never turn away every copy: of a delivery    *)
(* rejected as a duplicate, or because its id was locked, another delivery  *)
(* got past both and is on its way, was handled, or was refused by the self *)
(* filter or the policy.  The copy it resembles may itself have run into    *)
(* the lock of a third one.                                                 *)
DuplicateHasTwin ==
    \A d \in Deliveries : stage[d] \in {"duplicate", "contention"} =>
        \E e, f \in Deliveries : /\ e = d \/ Copies(d, e)
                                 /\ Id(f) = Id(e) /\ stage[f] \in Passed \cup {"refused"}
=============================================================================
