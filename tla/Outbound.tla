------------------------------ MODULE Outbound ------------------------------
(***************************************************************************)
(* What leaves the SDK, above ApiClient: replies through the session       *)
(* webhook with their chunks, retries and the proactive fallback           *)
(* (reply.go, send.go, internal/outbound/retry.go, types/errors.go),       *)
(* proactive sends, single API calls (card frames, download urls), and the *)
(* cached bot identity (bot_identity.go).  Footer and BeforeSend rewrite   *)
(* the text before it is cut and are not modelled, nor are the lengths of  *)
(* Retry's pauses.                                                         *)
(***************************************************************************)
EXTENDS ApiClient, TextChunks

CONSTANTS
    Jobs,          \* what the goroutines do: functions from Procs to "reply", "send",
                   \* "call", "identity" or "none"
    Texts,         \* texts to reply with or to send
    MaxAttempts,   \* RetryOptions.MaxAttempts (3)
    MaxCalls,      \* bound on the calls of a goroutine that calls or asks for the identity
    TTL,           \* BotIdentityCacheConfig.TTL, in ticks
    MinRefresh     \* BotIdentityCacheConfig.MinRefreshInterval, in ticks

ASSUME OutboundAssumption ==
    /\ MaxAttempts \in Nat \ {0} /\ MaxCalls \in Nat
    /\ TTL \in Nat \ {0} /\ MinRefresh \in Nat \ {0}
ASSUME TextsAssumption == Texts \subseteq TextType

VARIABLES
    job,           \* the job of every goroutine
    text,          \* the text it sends
    chunks,        \* its pieces, until the first is on its way
    pieces,        \* their number
    index,         \* the piece it is at
    via,           \* "hook" or "api": how it sends that piece
    attempt,       \* Retry's attempt
    calls,         \* calls it has made
    result,        \* what its Text or SendText returned
    idMu,          \* who holds the identity provider's mutex across a fetch
    known,         \* p.identity # nil
    idAge,         \* time since fetchedAt, at most TTL
    failAge,       \* time since lastFailureAt, at most MinRefresh; MinRefresh if it is zero
    fetchAge       \* time since `now' of the last fetch, at most MinRefresh

sendvars == <<job, text, chunks, pieces, index, via, attempt, calls, result>>
idvars   == <<idMu, known, idAge, failAge, fetchAge>>
vars     == <<callvars, sendvars, idvars>>

Init ==
    /\ ClientInit
    /\ job \in Jobs
    /\ text = [p \in Procs |-> NoText]
    /\ chunks = [p \in Procs |-> <<>>] /\ pieces = [p \in Procs |-> 0] /\ index = [p \in Procs |-> 0]
    /\ via = [p \in Procs |-> "hook"] /\ attempt = [p \in Procs |-> 0]
    /\ calls = [p \in Procs |-> 0] /\ result = [p \in Procs |-> "none"]
    /\ idMu = NoProc /\ known = FALSE /\ idAge = TTL
    /\ failAge = MinRefresh /\ fetchAge = MinRefresh

clientrest == <<limits, tokens, held, sleep, ctxDone, served, lost, stale>>
callrest   == <<clientrest, exchange, again, payload>>

(* types.IsRetryable of what classifyCode makes of an answer *)
IsRetryable(a) == a \in {"again", "qps"}
-----------------------------------------------------------------------------
Attempt(p, route, i, n) ==
    /\ via' = [via EXCEPT ![p] = route]
    /\ index' = [index EXCEPT ![p] = i]
    /\ attempt' = [attempt EXCEPT ![p] = n]
    /\ Begin(p, route, i)

Done(p, r) ==
    /\ result' = [result EXCEPT ![p] = r]
    /\ Goto(p, "done")

(* Text, Markdown, Image: webhook with a session webhook that is usable     *)
(* cuts the text; every chunk then goes to deliverOnce                      *)
Text(p) ==
    /\ pc[p] = "idle" /\ job[p] = "reply"
    /\ \E t \in Texts :
          /\ text' = [text EXCEPT ![p] = t]
          /\ chunks' = [chunks EXCEPT ![p] = chunkText(t)]
    /\ Goto(p, "cut")
    /\ UNCHANGED <<callrest, answer, job, pieces, via, index, attempt, result, calls, idvars>>

(* proactiveSend, for SendText and its like, and for a reply whose webhook  *)
(* is missing or expired: the whole text, unless the target is invalid      *)
ProactiveSend(p) ==
    /\ pc[p] = "idle" /\ job[p] \in {"reply", "send"}
    /\ \/ /\ pieces' = [pieces EXCEPT ![p] = 1]
          /\ Attempt(p, "api", 1, 1)
          /\ UNCHANGED result
       \/ /\ Done(p, "err")
          /\ UNCHANGED <<pieces, via, index, attempt, exchange, again, payload>>
    /\ UNCHANGED <<clientrest, answer, job, text, chunks, calls, idvars>>

(* From here on only the number of the chunks matters. *)
SendChunks(p) ==
    /\ pc[p] = "cut"
    /\ pieces' = [pieces EXCEPT ![p] = Len(chunks[p])]
    /\ chunks' = [chunks EXCEPT ![p] = <<>>] /\ text' = [text EXCEPT ![p] = NoText]
    /\ Attempt(p, "hook", 1, 1)
    /\ UNCHANGED <<clientrest, answer, job, calls, result, idvars>>

(* Faulty variant: after the fallback the first chunk is sent once more. *)
DeliveredRestarts(p) ==
    /\ Answered(p) /\ job[p] \in {"reply", "send"} /\ answer[p] = "ok"
    /\ \/ /\ index[p] < pieces[p]
          /\ Attempt(p, "hook", IF via[p] = "api" THEN index[p] ELSE index[p] + 1, 1)
          /\ UNCHANGED result
       \/ /\ index[p] = pieces[p]
          /\ Done(p, "nil")
          /\ UNCHANGED <<via, index, attempt, exchange, again, payload>>
    /\ UNCHANGED <<clientrest, job, text, chunks, pieces, calls, idvars>>

(* the piece is delivered: the next one goes to the webhook first *)
Delivered(p) ==
    /\ Answered(p) /\ job[p] \in {"reply", "send"} /\ answer[p] = "ok"
    /\ \/ /\ index[p] < pieces[p]
          /\ Attempt(p, "hook", index[p] + 1, 1)
          /\ UNCHANGED result
       \/ /\ index[p] = pieces[p]
          /\ Done(p, "nil")
          /\ UNCHANGED <<via, index, attempt, exchange, again, payload>>
    /\ UNCHANGED <<clientrest, job, text, chunks, pieces, calls, idvars>>

(* Faulty variant: a chunk that failed for good does not stop the rest. *)
GiveUpSkips(p) ==
    IF index[p] < pieces[p]
    THEN Attempt(p, "hook", index[p] + 1, 1) /\ UNCHANGED result
    ELSE Done(p, "err") /\ UNCHANGED <<via, index, attempt, exchange, again, payload>>

(* the error is the result of the reply; the chunks behind it are not sent *)
GiveUp(p) ==
    /\ Done(p, "err")
    /\ UNCHANGED <<via, index, attempt, exchange, again, payload>>

(* Retry and deliverOnce after an error: pause and try again, or turn from  *)
(* a webhook that is gone to the proactive send (which may have no valid    *)
(* target), or give up                                                      *)
Failed(p) ==
    /\ Answered(p) /\ job[p] \in {"reply", "send"} /\ answer[p] # "ok"
    /\ \/ /\ IsRetryable(answer[p]) /\ attempt[p] < MaxAttempts
          /\ Goto(p, "pause")
          /\ UNCHANGED <<via, index, attempt, result, exchange, again, payload>>
       \/ /\ answer[p] = "gone" /\ via[p] = "hook"
          /\ Attempt(p, "api", index[p], 1)
          /\ UNCHANGED result
       \/ /\ ~IsRetryable(answer[p]) \/ attempt[p] = MaxAttempts
          /\ GiveUp(p)
    /\ UNCHANGED <<clientrest, job, text, chunks, pieces, calls, idvars>>

(* the pause is over, or the caller's context *)
Retry(p) ==
    /\ pc[p] = "pause"
    /\ \/ Attempt(p, via[p], index[p], attempt[p] + 1) /\ UNCHANGED result
       \/ ctxDone[p] /\ GiveUp(p)
    /\ UNCHANGED <<clientrest, answer, job, text, chunks, pieces, calls, idvars>>
-----------------------------------------------------------------------------
(* call, callChecked: a single exchange, as a card frame makes it *)
CallStart(p) ==
    /\ pc[p] = "idle" /\ job[p] = "call" /\ calls[p] < MaxCalls
    /\ calls' = [calls EXCEPT ![p] = @ + 1]
    /\ Begin(p, "api", 0)
    /\ UNCHANGED <<clientrest, answer, job, text, chunks, pieces, index, via, attempt, result, idvars>>

CallEnd(p) ==
    /\ Answered(p) /\ job[p] = "call"
    /\ Goto(p, "idle")
    /\ UNCHANGED <<callrest, sendvars, idvars>>
-----------------------------------------------------------------------------
isCacheFresh == known /\ idAge < TTL
shouldThrottleRefresh == failAge < MinRefresh

(* botIdentityProvider.Get: the fast path under the mutex, then the slow *)
IdentityFast(p) ==
    /\ pc[p] = "idle" /\ job[p] = "identity" /\ calls[p] < MaxCalls
    /\ idMu = NoProc
    /\ calls' = [calls EXCEPT ![p] = @ + 1]
    /\ Goto(p, IF isCacheFresh THEN "idle" ELSE "slow")
    /\ UNCHANGED <<callrest, answer, job, text, chunks, pieces, index, via, attempt, result, idvars>>

(* Faulty variant: no second look at the cache under the mutex. *)
IdentitySlowBlind(p) ==
    /\ pc[p] = "slow" /\ idMu = NoProc
    /\ \/ /\ shouldThrottleRefresh
          /\ Goto(p, "idle")
          /\ UNCHANGED <<idMu, fetchAge, exchange, again, payload>>
       \/ /\ ~shouldThrottleRefresh
          /\ idMu' = p /\ fetchAge' = 0
          /\ Begin(p, "info", 0)
    /\ UNCHANGED <<clientrest, answer, sendvars, known, idAge, failAge>>

IdentitySlow(p) ==
    /\ pc[p] = "slow" /\ idMu = NoProc
    /\ \/ /\ isCacheFresh \/ shouldThrottleRefresh
          /\ Goto(p, "idle")
          /\ UNCHANGED <<idMu, fetchAge, exchange, again, payload>>
       \/ /\ ~isCacheFresh /\ ~shouldThrottleRefresh
          /\ idMu' = p /\ fetchAge' = 0
          /\ Begin(p, "info", 0)
    /\ UNCHANGED <<clientrest, answer, sendvars, known, idAge, failAge>>

(* the fetch is over; a failure counts from before the fetch, and leaves    *)
(* the identity that was known                                              *)
IdentityFetched(p) ==
    /\ Answered(p) /\ job[p] = "identity"
    /\ idMu' = NoProc
    /\ \/ answer[p] = "ok" /\ known' = TRUE /\ idAge' = 0 /\ failAge' = MinRefresh
       \/ answer[p] # "ok" /\ failAge' = fetchAge /\ UNCHANGED <<known, idAge>>
    /\ Goto(p, "idle")
    /\ UNCHANGED <<callrest, sendvars, fetchAge>>
-----------------------------------------------------------------------------
Tick ==
    /\ Elapse
    /\ idAge' = Smaller(TTL, idAge + 1)
    /\ failAge' = Smaller(MinRefresh, failAge + 1)
    /\ fetchAge' = Smaller(MinRefresh, fetchAge + 1)
    /\ UNCHANGED <<sendvars, idMu, known>>

Client(p) == ClientStep(p) /\ UNCHANGED <<sendvars, idvars>>
CallerCancels(p) == Cancel(p) /\ job[p] # "none" /\ UNCHANGED <<sendvars, idvars>>

Running(p) ==
    \/ Client(p)
    \/ SendChunks(p) \/ Delivered(p) \/ Failed(p) \/ Retry(p)
    \/ CallEnd(p)
    \/ IdentitySlow(p) \/ IdentityFetched(p)

Next ==
    \/ \E p \in Procs : Text(p) \/ ProactiveSend(p) \/ CallStart(p) \/ IdentityFast(p)
    \/ \E p \in Procs : Running(p) \/ CallerCancels(p)
    \/ Tick

Spec == Init /\ [][Next]_vars

(* Goroutines run, time passes, and requests end, by a timeout if need be.  *)
(* A goroutine that waits for a mutex gets it in the end: Go's mutexes hand *)
(* over to one that has waited for a millisecond.                           *)
Fairness ==
    /\ WF_vars(Tick)
    /\ \A p \in Procs : SF_vars(Running(p))

FairSpec == Spec /\ Fairness
-----------------------------------------------------------------------------
TypeOK ==
    /\ bucket \in [tokens : 0 .. Capacity, age : -Backoff .. Second, pause : 0 .. Backoff]
    /\ life \in Nat /\ {tokenMu, idMu} \subseteq Procs \cup {NoProc}
    /\ pc \in [Procs -> {"idle", "wait", "asleep", "get", "fetch", "send", "answered", "pause",
                         "cut", "slow", "done"}]
    /\ exchange \in [Procs -> {"none", "api", "hook", "info"}]
    /\ held \in [Procs -> Nat] /\ sleep \in [Procs -> Nat] /\ payload \in [Procs -> Nat]
    /\ {again, ctxDone} \subseteq [Procs -> BOOLEAN]
    /\ answer \in [Procs -> {"none", "ok", "again", "qps", "gone", "denied"}]
    /\ \A p \in Procs : index[p] \in 0 .. pieces[p] /\ attempt[p] \in 0 .. MaxAttempts
    /\ result \in [Procs -> {"none", "nil", "err"}]
    /\ {known, stale} \subseteq BOOLEAN
    /\ idAge \in 0 .. TTL /\ {failAge, fetchAge} \subseteq 0 .. MinRefresh

(* However calls, sleeps and refills interleave, no stretch of time up to a *)
(* second sees more tokens granted than a full bucket and what the refill   *)
(* adds in the meantime; and a QpsLimit stops all callers: none is granted  *)
(* a token before the pause is over, and then they come at the refill rate, *)
(* without the burst of a bucket that filled up during the pause.           *)
RateBound ==
    /\ \A i \in 0 .. Second - 1 : grants[i] * Unit <= Capacity + i * PerTick
    /\ resumed < Second => paced * Unit <= resumed * PerTick

(* No request carries an expired access token, also when it waited for the  *)
(* bucket, slept through a back-off or was sent again.                      *)
NoStaleToken == ~stale

(* What the platform got of a text: the pieces in their order, none left    *)
(* out, and all of them if nil was returned; a failure leaves the pieces    *)
(* before it delivered and those behind it unsent.                          *)
PiecesInOrder ==
    /\ \A i \in DOMAIN served :
          served[i][2] > 1 => \E j \in 1 .. i - 1 : served[j] = <<served[i][1], served[i][2] - 1>>
    /\ \A i, j \in DOMAIN served :
          (i < j /\ served[i][1] = served[j][1]) => served[i][2] <= served[j][2]
    /\ \A p \in Procs :
          result[p] = "nil" => \E i \in DOMAIN served : served[i] = <<p, pieces[p]>>

(* A piece is delivered twice only if the answer to it was lost once: the   *)
(* retries, callRaw's second attempt and the fallback to the proactive send *)
(* never repeat what is known to have succeeded.                            *)
DuplicateOnlyIfLost ==
    \A i, j \in DOMAIN served : (i < j /\ served[i] = served[j]) => served[i] \in lost

(* Cutting a text that is too long for one message is faithful.             *)
ChunksFaithful ==
    /\ TypeOK
    /\ \A p \in Procs :
          chunks[p] # <<>> => IF text[p].kind = "plain"
                              THEN PlainChunksFaithful(text[p].runes, chunks[p])
                              ELSE FencedChunksFaithful(text[p].lines, chunks[p])

FetchBegins == idMu = NoProc /\ idMu' # NoProc

(* However many goroutines want the identity, and whatever becomes of each  *)
(* fetch, the platform is asked at most once per interval, the shorter of   *)
(* TTL and MinRefreshInterval: those that waited for the mutex do not fetch *)
(* again what was fetched meanwhile, nor what could not be.  The interval   *)
(* runs from the beginning of a fetch to the beginning of the next: after a *)
(* failed fetch that lasted as long, the next may follow at once.           *)
FetchesSpaced == [][FetchBegins => fetchAge >= Smaller(TTL, MinRefresh)]_vars

(* Whatever fails, and also under back-off, with a mutex held across a      *)
(* request, and with contexts cancelled: every operation returns, so that,  *)
(* their number being bounded, all are over in the end.                     *)
EveryOperationReturns == []<>(\A p \in Procs : pc[p] \in {"idle", "done"})
=============================================================================
