----------------------------- MODULE ApiClient ------------------------------
(***************************************************************************)
(* The requests goroutines send to the platform: cardClient.callRaw of     *)
(* card.go behind the shared token bucket, and the access token of         *)
(* token.go, whose mutex is held while it is fetched.  An exchange is      *)
(* "api" (callRaw), "hook" (a POST to a session webhook) or "info"         *)
(* (robotInfo); the latter two take a token and no place in the bucket.    *)
(* A tick is a piece of time.  A goroutine that has got its token sends at *)
(* once: no tick falls between.  Sleeps may last longer than asked for.    *)
(***************************************************************************)
EXTENDS TokenBucket, Sequences, FiniteSets

CONSTANTS
    Procs,       \* goroutines
    NoProc,      \* nobody
    Early,       \* a token is refreshed this long before it expires (60s)
    Lifetimes,   \* lifetimes the platform may report, 0 for none
    DefaultLife  \* the lifetime assumed then (7200s)

ASSUME ProcsAssumption == NoProc \notin Procs
ASSUME TokenAssumption ==
    /\ Early \in Nat /\ DefaultLife \in Nat /\ Lifetimes \subseteq Nat
    /\ Early < DefaultLife

VARIABLES
    bucket,      \* the shared token bucket
    life,        \* remaining lifetime of the cached access token, 0: none or expired
    tokenMu,     \* who holds the token provider's mutex across a fetch
    pc,          \* where every goroutine is
    exchange,    \* the exchange it is in
    again,       \* callRaw is in its second do()
    held,        \* remaining lifetime of the access token it has got
    sleep,       \* what remains of its sleep
    ctxDone,     \* its context is cancelled
    answer,      \* how the exchange ended
    payload,     \* what it is sending: the number of a piece, 0 for nothing to follow up
    served,      \* external: <<p, payload>> in the order the platform acted on them
    lost,        \* history: <<p, payload>> acted on, with the answer lost
    grants,      \* history: grants[i]: tokens granted in the last i ticks and this one
    resumed,     \* history: ticks since the last pause ended, at most Second
    paced,       \* history: tokens granted since then, while resumed < Second
    stale        \* history: a request went out with an expired access token

limits  == <<bucket, grants, resumed, paced>>
tokens  == <<life, tokenMu>>
wire    == <<payload, served, lost>>
callvars == <<limits, tokens, pc, exchange, again, held, sleep, ctxDone, answer, wire, stale>>

ClientInit ==
    /\ bucket = newTokenBucket
    /\ life = 0 /\ tokenMu = NoProc
    /\ pc = [p \in Procs |-> "idle"] /\ exchange = [p \in Procs |-> "none"]
    /\ again = [p \in Procs |-> FALSE]
    /\ held = [p \in Procs |-> 0] /\ sleep = [p \in Procs |-> 0]
    /\ ctxDone = [p \in Procs |-> FALSE] /\ answer = [p \in Procs |-> "none"]
    /\ payload = [p \in Procs |-> 0] /\ served = <<>> /\ lost = {}
    /\ grants = [i \in 0 .. Second - 1 |-> 0] /\ resumed = Second /\ paced = 0
    /\ stale = FALSE

Goto(p, l) == pc' = [pc EXCEPT ![p] = l]

(* an exchange x begins, on behalf of the operations above this module *)
Begin(p, x, load) ==
    /\ exchange' = [exchange EXCEPT ![p] = x]
    /\ again' = [again EXCEPT ![p] = FALSE]
    /\ payload' = [payload EXCEPT ![p] = load]
    /\ Goto(p, IF x = "api" THEN "wait" ELSE "get")

(* and ends; what it was given goes out of scope *)
Answer(p, a) ==
    /\ answer' = [answer EXCEPT ![p] = a]
    /\ Goto(p, "answered")
    /\ held' = [held EXCEPT ![p] = 0]
    /\ again' = [again EXCEPT ![p] = FALSE]

(* the operation above looks at the answer, and goes on *)
Answered(p) ==
    /\ pc[p] = "answered"
    /\ answer' = [answer EXCEPT ![p] = "none"]
-----------------------------------------------------------------------------
(* one round of waitFor *)
WaitFor(p) ==
    /\ pc[p] = "wait"
    /\ \/ /\ Paused(bucket)
          /\ sleep' = [sleep EXCEPT ![p] = bucket.pause]
          /\ Goto(p, "asleep") /\ UNCHANGED limits
       \/ /\ ~Paused(bucket) /\ HasToken(bucket)
          /\ bucket' = take(bucket)
          /\ grants' = [i \in 0 .. Second - 1 |-> grants[i] + 1]
          /\ paced' = IF resumed < Second THEN paced + 1 ELSE paced
          /\ Goto(p, "get") /\ UNCHANGED <<sleep, resumed>>
       \/ /\ ~Paused(bucket) /\ ~HasToken(bucket)
          /\ bucket' = refill(bucket)
          /\ sleep' = [sleep EXCEPT ![p] = need(bucket)]
          /\ Goto(p, "asleep") /\ UNCHANGED <<grants, resumed, paced>>
    /\ UNCHANGED <<tokens, exchange, again, held, ctxDone, answer, wire, stale>>

(* sleepCtx returns: the timer, or the context *)
Wake(p) ==
    /\ pc[p] = "asleep"
    /\ \/ sleep[p] = 0 /\ Goto(p, "wait") /\ UNCHANGED <<held, again, answer, sleep>>
       \/ /\ ctxDone[p]
          /\ sleep' = [sleep EXCEPT ![p] = 0]
          /\ Answer(p, "again")
    /\ UNCHANGED <<limits, tokens, exchange, ctxDone, wire, stale>>

(* Faulty variant: a cached token is used whatever its age. *)
GetTokenLate(p) ==
    /\ pc[p] = "get" /\ tokenMu = NoProc
    /\ Goto(p, "send") /\ held' = [held EXCEPT ![p] = life]
    /\ UNCHANGED <<limits, tokens, exchange, again, sleep, ctxDone, answer, wire, stale>>

(* tokenProvider.Get: under its mutex, the cached token or a fetch *)
GetToken(p) ==
    /\ pc[p] = "get" /\ tokenMu = NoProc
    /\ \/ /\ life > Early
          /\ Goto(p, "send") /\ held' = [held EXCEPT ![p] = life]
          /\ UNCHANGED tokenMu
       \/ /\ life <= Early
          /\ Goto(p, "fetch") /\ tokenMu' = p
          /\ UNCHANGED held
    /\ UNCHANGED <<limits, life, exchange, again, sleep, ctxDone, answer, wire, stale>>

(* Faulty variant: the mutex is not released on an error. *)
FetchedKeepsMu(p) ==
    /\ pc[p] = "fetch"
    /\ \/ /\ ~ctxDone[p]
          /\ \E l \in Lifetimes : life' = IF l = 0 THEN DefaultLife ELSE l
          /\ Goto(p, "send") /\ held' = [held EXCEPT ![p] = life'] /\ tokenMu' = NoProc
          /\ UNCHANGED <<answer, again>>
       \/ Answer(p, "again") /\ UNCHANGED <<life, tokenMu>>
    /\ UNCHANGED <<limits, exchange, sleep, ctxDone, wire, stale>>

(* Get after its request: an error of any kind is one Retry tries again *)
Fetched(p) ==
    /\ pc[p] = "fetch"
    /\ tokenMu' = NoProc
    /\ \/ /\ ~ctxDone[p]
          /\ \E l \in Lifetimes : life' = IF l = 0 THEN DefaultLife ELSE l
          /\ Goto(p, "send") /\ held' = [held EXCEPT ![p] = life']
          /\ UNCHANGED <<answer, again>>
       \/ Answer(p, "again") /\ UNCHANGED life
    /\ UNCHANGED <<limits, exchange, sleep, ctxDone, wire, stale>>
-----------------------------------------------------------------------------
(* external: the platform acts on the request and answers.  "again" stands  *)
(* for every error Retry tries again (429, a timeout, a 5xx, a 401), "gone" *)
(* for a 404, "denied" for a 400 or a 403 (callers without a payload do not *)
(* tell these apart).  A 403 of a webhook carries no code, so that it never *)
(* is "qps".                                                                *)
Act(p, isLost) ==
    IF payload[p] = 0 THEN UNCHANGED <<served, lost>>
    ELSE /\ served' = Append(served, <<p, payload[p]>>)
         /\ lost' = IF isLost THEN lost \cup {<<p, payload[p]>>} ELSE lost

Sent(p) ==
    /\ pc[p] = "send"
    /\ stale' = (stale \/ held[p] = 0)
    /\ UNCHANGED <<tokens, exchange, sleep, ctxDone, payload>>

SendAnswered(p) ==
    /\ Sent(p)
    /\ \/ ~ctxDone[p] /\ Answer(p, "ok") /\ Act(p, FALSE)
       \/ ~ctxDone[p] /\ Answer(p, "again") /\ Act(p, TRUE)
       \/ \E a \in IF payload[p] = 0 THEN {"again"} ELSE {"again", "gone", "denied"} :
             Answer(p, a) /\ UNCHANGED <<served, lost>>
    /\ UNCHANGED limits

(* a QpsLimit: callRaw pauses the bucket for everybody, waits for another   *)
(* place and asks once more; the second QpsLimit is its result              *)
SendLimited(p) ==
    /\ Sent(p) /\ exchange[p] = "api" /\ ~ctxDone[p]
    /\ \/ /\ ~again[p]
          /\ again' = [again EXCEPT ![p] = TRUE]
          /\ bucket' = triggerBackoff(bucket)
          /\ resumed' = 0 /\ paced' = 0
          /\ Goto(p, "wait") /\ held' = [held EXCEPT ![p] = 0]
          /\ UNCHANGED <<answer, grants>>
       \/ again[p] /\ Answer(p, "qps") /\ UNCHANGED limits
    /\ UNCHANGED <<served, lost>>

(* external: whoever waits for the answer gives up *)
Cancel(p) ==
    /\ ~ctxDone[p]
    /\ ctxDone' = [ctxDone EXCEPT ![p] = TRUE]
    /\ UNCHANGED <<limits, tokens, pc, exchange, again, held, sleep, answer, wire, stale>>

(* time as the client's state sees it *)
Elapse ==
    /\ \A p \in Procs : pc[p] # "send"
    /\ bucket' = Pass(bucket)
    /\ life' = IF life > 0 THEN life - 1 ELSE 0
    /\ held' = [p \in Procs |-> IF held[p] > 0 THEN held[p] - 1 ELSE 0]
    /\ sleep' = [p \in Procs |-> IF sleep[p] > 0 THEN sleep[p] - 1 ELSE 0]
    /\ grants' = [i \in 0 .. Second - 1 |-> IF i = 0 THEN 0 ELSE grants[i - 1]]
    /\ resumed' = IF Paused(bucket) THEN 0 ELSE Smaller(Second, resumed + 1)
    /\ paced' = IF resumed' = Second THEN 0 ELSE paced
    /\ UNCHANGED <<tokenMu, pc, exchange, again, ctxDone, answer, wire, stale>>

ClientStep(p) ==
    \/ WaitFor(p) \/ Wake(p) \/ GetToken(p) \/ Fetched(p)
    \/ SendAnswered(p) \/ SendLimited(p)
=============================================================================
