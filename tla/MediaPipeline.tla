---------------------------- MODULE MediaPipeline ----------------------------
(***************************************************************************)
(* internal/safety/media_pipeline.go: buckets of consecutive media         *)
(* messages per (conversation, type), flushed by a timer, by the limit, by *)
(* a text message of the conversation, or by Dispose.  Every method body   *)
(* is one critical section of m.mu.  A timer callback that has fired waits *)
(* for m.mu like any other goroutine, and then flushes whatever bucket the *)
(* key has by then.  flushBucket starts the handler in a goroutine.        *)
(*                                                                         *)
(* The text path of PushMessage is included: it flushes the conversation   *)
(* and then calls the handler from its own goroutine.  MediaBatch is       *)
(* enabled; disabled, nothing reaches this component.                      *)
(***************************************************************************)
EXTENDS Naturals, Sequences, SequencesExt, FiniteSetsExt

CONSTANTS
    Msgs,        \* the messages that arrive, each from a goroutine of its own
    Conv, Kind,  \* Conv[m], Kind[m]: conversation and MsgType ("text" or media)
    MaxItems     \* cfg.MaxItems

ASSUME MsgsFinite == IsFiniteSet(Msgs)
ASSUME MaxItemsFilled == MaxItems \in Nat \ {0}   \* fillMediaBatchConfig

VARIABLES
    buckets,     \* m.buckets: key -> [sources, timer]
    fired,       \* fired[k]: callbacks of key k that wait for m.mu
    calls,       \* handler calls of flushBucket, in the order of the flushes
    text,        \* text[m]: where the goroutine of a text message is
    disposed,    \* Dispose has run
    accepted     \* history: the messages in the order they took m.mu

vars == <<buckets, fired, calls, text, disposed, accepted>>

(* IsCompatible *)
Compatible(m) == Kind[m] \in {"picture", "file", "audio", "video"}

(* batchKey of a media message; only MsgType "reply", which is not          *)
(* compatible, would have a third part.                                     *)
batchKey(m) == <<Conv[m], Kind[m]>>

isChatKey(k, chat) == k[1] = chat

Keys == {batchKey(m) : m \in {x \in Msgs : Compatible(x)}}

Init ==
    /\ buckets = [k \in {} |-> <<>>]
    /\ fired = [k \in Keys |-> 0]
    /\ calls = <<>>
    /\ text = [m \in {x \in Msgs : ~Compatible(x)} |-> "new"]
    /\ disposed = FALSE
    /\ accepted = <<>>
-----------------------------------------------------------------------------
(* mergeBatchSources: the merged message stands for its sources. *)
mergeBatchSources(sources) == [phase |-> "spawned", sources |-> sources]

Without(bs, ks) == [k \in DOMAIN bs \ ks |-> bs[k]]

(* Faulty variant: the buckets stay in the map. *)
flushBucketsKeeps(bs, ks) ==
    /\ buckets' = bs
    /\ \E order \in SetToSeqs(ks \cap DOMAIN bs) :
          calls' = calls \o [i \in DOMAIN order |-> mergeBatchSources(bs[order[i]].sources)]

(* flushBucket for every key of ks that has a bucket in bs: the bucket      *)
(* leaves the map, its timer is stopped, and a goroutine will call the      *)
(* handler with its sources.  The order of a map iteration is arbitrary.    *)
flushBuckets(bs, ks) ==
    /\ buckets' = Without(bs, ks)
    /\ \E order \in SetToSeqs(ks \cap DOMAIN bs) :
          calls' = calls \o [i \in DOMAIN order |-> mergeBatchSources(bs[order[i]].sources)]

(* Faulty variant: the timer is stopped, but armed only for a new bucket. *)
AppendedArmsOnce(k, m) ==
    [x \in DOMAIN buckets \cup {k} |->
        IF x # k THEN buckets[x]
        ELSE IF k \in DOMAIN buckets
             THEN [sources |-> Append(buckets[k].sources, m), timer |-> "none"]
             ELSE [sources |-> <<m>>, timer |-> "armed"]]

(* The bucket of k with m appended, with a freshly armed timer. *)
Appended(k, m) ==
    LET old == IF k \in DOMAIN buckets THEN buckets[k].sources ELSE <<>>
    IN  [x \in DOMAIN buckets \cup {k} |->
            IF x = k THEN [sources |-> Append(old, m), timer |-> "armed"] ELSE buckets[x]]

(* Faulty variant: the limit is noticed one message late. *)
FullLate(sources) == Len(sources) > MaxItems

Full(sources) == Len(sources) >= MaxItems

(* Push.  cancelTimer stops a timer that has not fired; a callback that     *)
(* waits for m.mu already stays.                                            *)
Push(m) ==
    LET k == batchKey(m)
        bs == Appended(k, m)
    IN  /\ Compatible(m) /\ m \notin ToSet(accepted)
        /\ accepted' = Append(accepted, m)
        /\ \/ Full(bs[k].sources) /\ flushBuckets(bs, {k})
           \/ ~Full(bs[k].sources) /\ buckets' = bs /\ UNCHANGED calls
        /\ UNCHANGED <<fired, text, disposed>>

(* The delay of an armed timer is over: its callback goes for m.mu. *)
Fire(k) ==
    /\ k \in DOMAIN buckets /\ buckets[k].timer = "armed"
    /\ buckets' = [buckets EXCEPT ![k].timer = "fired"]
    /\ fired' = [fired EXCEPT ![k] = @ + 1]
    /\ UNCHANGED <<calls, text, disposed, accepted>>

(* The callback gets m.mu. *)
Callback(k) ==
    /\ fired[k] > 0
    /\ fired' = [fired EXCEPT ![k] = @ - 1]
    /\ flushBuckets(buckets, {k})
    /\ UNCHANGED <<text, disposed, accepted>>

(* Faulty variant: one bucket of the conversation is flushed. *)
ChatKeysOne(chat) ==
    LET ks == {k \in DOMAIN buckets : isChatKey(k, chat)}
    IN  IF ks = {} THEN {} ELSE {CHOOSE k \in ks : TRUE}

ChatKeys(chat) == {k \in DOMAIN buckets : isChatKey(k, chat)}

FlushIncompatibleFor(m) ==
    /\ ~Compatible(m) /\ text[m] = "new"
    /\ text' = [text EXCEPT ![m] = "flushed"]
    /\ accepted' = Append(accepted, m)
    /\ flushBuckets(buckets, ChatKeys(Conv[m]))
    /\ UNCHANGED <<fired, disposed>>

(* Dispose flushes everything; it does not stop later pushes. *)
Dispose ==
    /\ ~disposed
    /\ disposed' = TRUE
    /\ flushBuckets(buckets, DOMAIN buckets)
    /\ UNCHANGED <<fired, text, accepted>>
-----------------------------------------------------------------------------
(* The goroutines that call the handler, in any order and side by side;     *)
(* what the handler does is SafetyPipeline's.                               *)
Begin(i) ==
    /\ i \in DOMAIN calls /\ calls[i].phase = "spawned"
    /\ calls' = [calls EXCEPT ![i].phase = "run"]
    /\ UNCHANGED <<buckets, fired, text, disposed, accepted>>

HandleText(m) ==
    /\ ~Compatible(m) /\ text[m] = "flushed"
    /\ text' = [text EXCEPT ![m] = "run"]
    /\ UNCHANGED <<buckets, fired, calls, disposed, accepted>>

Calls == 1 .. Cardinality(Msgs)

Next ==
    \/ \E m \in Msgs : Push(m) \/ FlushIncompatibleFor(m) \/ HandleText(m)
    \/ \E k \in Keys : Fire(k) \/ Callback(k)
    \/ \E i \in Calls : Begin(i)
    \/ Dispose

Spec == Init /\ [][Next]_vars

(* Timers fire and goroutines run. *)
Fairness ==
    /\ \A k \in Keys : WF_vars(Fire(k)) /\ WF_vars(Callback(k))
    /\ \A i \in Calls : WF_vars(Begin(i))
    /\ \A m \in Msgs : WF_vars(HandleText(m))

FairSpec == Spec /\ Fairness
-----------------------------------------------------------------------------
TypeOK ==
    /\ DOMAIN buckets \subseteq Keys
    /\ \A k \in DOMAIN buckets : /\ buckets[k].sources \in Seq(Msgs) \ {<<>>}
                                 /\ buckets[k].timer \in {"armed", "fired"}
    /\ fired \in [Keys -> Nat]
    /\ \A i \in DOMAIN calls : calls[i].phase \in {"spawned", "run"}
    /\ text \in [{x \in Msgs : ~Compatible(x)} -> {"new", "flushed", "run"}]
    /\ disposed \in BOOLEAN
    /\ accepted \in Seq(Msgs)

NeverStranded == \A k \in DOMAIN buckets : buckets[k].timer = "armed" \/ fired[k] > 0

WithinMaxItems ==
    /\ \A i \in DOMAIN calls : Len(calls[i].sources) <= MaxItems
    /\ \A k \in DOMAIN buckets : Len(buckets[k].sources) < MaxItems

(* A waiting bucket always has somebody who will flush it, its own timer or *)
(* a callback of its key that waits for the mutex, and is not full; and the *)
(* handler gets at most MaxItems messages at once.                          *)
BucketsWellKept == TypeOK /\ NeverStranded /\ WithinMaxItems

Earlier(m, t) ==
    \E i, j \in DOMAIN accepted : i < j /\ accepted[i] = m /\ accepted[j] = t

InOrder(s) == \A i, j \in DOMAIN s : i < j => Earlier(s[i], s[j])

(* what has been handed to a handler goroutine *)
Flushed == UNION {ToSet(calls[i].sources) : i \in DOMAIN calls}

InBucket(k) == IF k \in DOMAIN buckets THEN ToSet(buckets[k].sources) ELSE {}

NothingLost ==
    \A m \in ToSet(accepted) : Compatible(m) => m \in Flushed \cup InBucket(batchKey(m))

(* Batches keep the order of arrival, so do the batches of one key among    *)
(* each other, and what waits in the bucket is later than all of them.  A   *)
(* message arrives once and is not Earlier than itself: it is in one batch. *)
OrderWithinKey ==
    /\ \A i \in DOMAIN calls : InOrder(calls[i].sources)
    /\ \A k \in DOMAIN buckets : InOrder(buckets[k].sources)
    /\ \A i, j \in DOMAIN calls :
          i < j => \A x \in ToSet(calls[i].sources), y \in ToSet(calls[j].sources) :
                      batchKey(x) = batchKey(y) => Earlier(x, y)
    /\ \A x \in Flushed : \A y \in InBucket(batchKey(x)) : Earlier(x, y)

Before(t) == {m \in Msgs : Compatible(m) /\ Conv[m] = Conv[t] /\ Earlier(m, t)}

FlushedBeforeText == \A t \in DOMAIN text : text[t] # "new" => Before(t) \subseteq Flushed

(* Nothing is lost, doubled or reordered within a conversation and type,    *)
(* also when a stale callback flushes a bucket that was created after its   *)
(* timer fired; and once a text message has flushed, every media message of *)
(* its conversation that was pushed before it has been handed to a handler  *)
(* goroutine, of whatever type it is.                                       *)
FlushKeepsOrder == NothingLost /\ OrderWithinKey /\ FlushedBeforeText

(* Every media message that was pushed reaches the handler, also when       *)
(* Dispose and stale callbacks get in between.                              *)
EveryMediaHandled ==
    \A m \in Msgs : (Compatible(m) /\ m \in ToSet(accepted))
        ~> \E i \in DOMAIN calls : m \in ToSet(calls[i].sources) /\ calls[i].phase = "run"
=============================================================================
