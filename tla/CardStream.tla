----------------------------- MODULE CardStream -----------------------------
(***************************************************************************)
(* The streaming AI card: replier.Stream of reply.go and the cardStreamer  *)
(* of card.go.  One streamer is used by the handler ("h": Append, then     *)
(* Finish or Fail), by somebody who may Abort it ("a"), by the trailing    *)
(* flushes, each a goroutine of its own (Slots), and by the watchdog       *)
(* ("w").  s.mu is held for single steps only; every HTTP call is made     *)
(* without it, so that all of them interleave.                             *)
(*                                                                         *)
(* A text is a sequence of runes.  Durations are not modelled: a timer may *)
(* fire whenever it is armed.  A call to the card API (external) succeeds, *)
(* fails without an effect, or has its effect and fails (a lost answer);   *)
(* with a cancelled context it fails.  The rate limiter and the one retry  *)
(* within a call are ApiClient's.                                          *)
(***************************************************************************)
EXTENDS Naturals, Sequences

CONSTANTS
    Slots,        \* goroutines of trailing flushes: the bound on those in flight
    MaxAppends,   \* bound on the calls of Append
    MaxContent,   \* cardMaxContent
    FinalTexts,   \* texts Finish is called with, <<>> for ""
    ErrText       \* the text Fail is called with

ASSUME SlotsAssumption == Slots \cap {"h", "a", "w"} = {}
ASSUME BoundsAssumption == MaxAppends \in Nat /\ MaxContent \in Nat \ {0}
ASSUME TextsAssumption == FinalTexts \subseteq Seq(Nat) /\ ErrText \in Seq(Nat)

Procs == Slots \cup {"h", "a", "w"}

VARIABLES
    card,         \* s.card # nil
    acc,          \* s.accumulated
    lastUpdate,   \* how many deltas had been appended at s.lastUpdate; 0: the zero time
    closed, hasPending,
    framed,       \* s.frameCount > 0
    inputing,     \* card.inputingStarted
    watchdog,     \* s.watchdog is running
    ctxDone,      \* s.ctx is cancelled
    hot,          \* errLimLast holds a time within the cooldown for this conversation
    pc, arg,      \* where every goroutine is, and the text it carries
    finalize,     \* the update of the handler is the one of Finish
    appends,      \* calls of Append so far
    server,       \* external: the card as the platform shows it
    texts,        \* external: <<text, ok>> for the texts given to the session webhook
    sealer,       \* history: who closed the streamer, "none" before
    quiet,        \* history: no update was in flight then, and no call of the sealer failed since
    broken,       \* history: the last call of whoever closed the streamer failed
    terminals,    \* history: terminal statuses sent
    overtaken,    \* history: an update changed the card after the terminal status was sent
    muted,        \* history: a fallback was suppressed by the cooldown
    result        \* history: what Finish or Fail returned

state   == <<card, acc, lastUpdate, closed, hasPending, finalize>>
frames  == <<framed, inputing, watchdog>>
outside == <<ctxDone, hot, appends, texts>>
history == <<sealer, quiet, broken, terminals, overtaken, muted, result>>
vars    == <<state, frames, outside, pc, arg, server, history>>

Init ==
    /\ card = FALSE /\ acc = <<>> /\ lastUpdate = 0 /\ closed = FALSE
    /\ hasPending = FALSE /\ finalize = FALSE
    /\ framed = FALSE /\ inputing = FALSE /\ watchdog = FALSE
    /\ ctxDone = FALSE /\ hot \in BOOLEAN /\ appends = 0 /\ texts = {}
    /\ pc = [p \in Procs |-> IF p = "h" THEN "new" ELSE "idle"]
    /\ arg = [p \in Procs |-> <<>>]
    /\ server = [status |-> "none", text |-> <<>>, final |-> FALSE]
    /\ sealer = "none" /\ quiet = FALSE /\ broken = FALSE /\ terminals = 0
    /\ overtaken = FALSE /\ muted = FALSE /\ result = "none"

Goto(p, l) == pc' = [pc EXCEPT ![p] = l]
Start(p, l, text) == Goto(p, l) /\ arg' = [arg EXCEPT ![p] = text]

(* the frame limit of update; overflowRemainder *)
Truncate(text) == SubSeq(text, 1, IF Len(text) > MaxContent THEN MaxContent ELSE Len(text))
overflowRemainder(text) == SubSeq(text, MaxContent + 1, Len(text))

(* external: one request that would leave the card as w, answered or not *)
Call(w, ok) ==
    \/ ~ctxDone /\ server' = w
    \/ ~ok /\ server' = server

StatusCall(status, text, ok) == Call([server EXCEPT !.status = status, !.text = text], ok)
StreamCall(text, final, ok) == Call([server EXCEPT !.text = text, !.final = final], ok)

(* a call of whoever closed the streamer succeeded, or failed *)
Closing(ok) == quiet' = (quiet /\ ok) /\ broken' = ~ok

(* an update is noted that changes the card after the terminal status *)
NoteOvertaking == overtaken' = (overtaken \/ (terminals > 0 /\ server' # server))

InUpdate(p) == pc[p] \in {"gap", "inputing", "mark", "stream"}
-----------------------------------------------------------------------------
(* Stream: create and deliver the card, then arm the watchdog.  A failure   *)
(* leaves a streamer without a card; the platform may have delivered one    *)
(* all the same.                                                            *)
Stream ==
    /\ pc["h"] = "new"
    /\ Goto("h", "idle")
    /\ \E ok \in BOOLEAN :
          /\ Call([server EXCEPT !.status = "processing"], ok)
          /\ card' = ok /\ watchdog' = ok
    /\ UNCHANGED <<acc, lastUpdate, closed, hasPending, finalize, framed, inputing, outside, arg,
                   history>>

(* Faulty variant: an append within the window is left to the next one. *)
AppendDrops ==
    /\ pc["h"] = "idle" /\ appends < MaxAppends
    /\ appends' = appends + 1
    /\ IF closed THEN UNCHANGED acc ELSE acc' = Append(acc, appends + 1)
    /\ \/ /\ closed \/ ~card \/ hasPending \/ lastUpdate > 0
          /\ UNCHANGED <<lastUpdate, hasPending, pc, arg>>
       \/ /\ ~closed /\ card /\ ~hasPending
          /\ hasPending' = TRUE
          /\ UNCHANGED <<lastUpdate, pc, arg>>
       \/ /\ ~closed /\ card /\ lastUpdate > 0
          /\ lastUpdate' = Len(acc')
          /\ Start("h", "gap", acc')
          /\ UNCHANGED hasPending
    /\ UNCHANGED <<card, closed, finalize, frames, ctxDone, hot, texts, server, history>>

(* Append: within the throttle window, or after a gap of more than two      *)
(* seconds (which the first append always is, lastUpdate being the zero     *)
(* time), a trailing flush is armed unless one is; otherwise the handler    *)
(* updates the card itself.                                                 *)
Append_ ==
    /\ pc["h"] = "idle" /\ appends < MaxAppends
    /\ appends' = appends + 1
    /\ IF closed THEN UNCHANGED acc ELSE acc' = Append(acc, appends + 1)
    /\ \/ /\ closed \/ ~card
          /\ UNCHANGED <<lastUpdate, hasPending, pc, arg>>
       \/ /\ ~closed /\ card
          /\ hasPending' = TRUE
          /\ UNCHANGED <<lastUpdate, pc, arg>>
       \/ /\ ~closed /\ card /\ lastUpdate > 0
          /\ lastUpdate' = Len(acc')
          /\ Start("h", "gap", acc')
          /\ UNCHANGED hasPending
    /\ UNCHANGED <<card, closed, finalize, frames, ctxDone, hot, texts, server, history>>

(* Faulty variant: a flush that fires late does not look at closed. *)
FlushLate(f) ==
    /\ hasPending /\ pc[f] = "idle"
    /\ hasPending' = FALSE
    /\ lastUpdate' = Len(acc) /\ Start(f, "gap", acc)
    /\ UNCHANGED <<card, acc, closed, finalize, frames, outside, server, history>>

(* the timer of schedulePendingLocked *)
Flush(f) ==
    /\ hasPending /\ pc[f] = "idle"
    /\ hasPending' = FALSE
    /\ \/ closed /\ UNCHANGED <<lastUpdate, pc, arg>>
       \/ ~closed /\ lastUpdate' = Len(acc) /\ Start(f, "gap", acc)
    /\ UNCHANGED <<card, acc, closed, finalize, frames, outside, server, history>>
-----------------------------------------------------------------------------
(* update, on behalf of Append, a flush, or Finish (then final) *)
Final(p) == p = "h" /\ finalize

(* how update returns: only Finish looks at the result *)
Return(p, ok) ==
    \/ /\ ~Final(p)
       /\ Goto(p, "idle") /\ UNCHANGED <<quiet, broken, result>>
    \/ /\ Final(p)
       /\ Goto(p, IF ok THEN "finishStatus" ELSE "updateFailed")
       /\ Closing(ok)
       /\ result' = IF ok THEN result ELSE "err"

(* frameCount++ and resetWatchdogLocked *)
CountFrame == framed' = TRUE /\ watchdog' = TRUE

(* The wait for the frame gap.  frameCount and lastFrameAt are read without *)
(* s.mu; a wait, which a cancelled context ends, takes an earlier frame.    *)
UpdateGap(p) ==
    /\ pc[p] = "gap"
    /\ \/ /\ ctxDone /\ framed
          /\ Return(p, FALSE) /\ UNCHANGED frames
       \/ /\ ~inputing
          /\ Goto(p, "inputing") /\ UNCHANGED <<frames, quiet, broken, result>>
       \/ /\ inputing
          /\ Goto(p, "stream") /\ CountFrame /\ UNCHANGED <<inputing, quiet, broken, result>>
    /\ UNCHANGED <<state, outside, arg, server, sealer, terminals, overtaken, muted>>

UpdateInputing(p) ==
    /\ pc[p] = "inputing"
    /\ \E ok \in BOOLEAN :
          /\ StatusCall("inputing", Truncate(arg[p]), ok)
          /\ IF ok THEN Goto(p, "mark") /\ UNCHANGED <<quiet, broken, result>> ELSE Return(p, FALSE)
    /\ NoteOvertaking
    /\ UNCHANGED <<state, frames, outside, arg, sealer, terminals, muted>>

UpdateMark(p) ==
    /\ pc[p] = "mark"
    /\ inputing' = TRUE /\ CountFrame
    /\ Goto(p, "stream")
    /\ UNCHANGED <<state, outside, arg, server, history>>

UpdateStream(p) ==
    /\ pc[p] = "stream"
    /\ \E ok \in BOOLEAN :
          /\ StreamCall(Truncate(arg[p]), Final(p), ok)
          /\ Return(p, ok)
    /\ NoteOvertaking
    /\ UNCHANGED <<state, frames, outside, arg, sealer, terminals, muted>>
-----------------------------------------------------------------------------
(* closed is tested and set in one critical section *)
Seal(who) ==
    /\ closed' = TRUE
    /\ sealer' = who
    /\ quiet' = \A p \in Procs : ~InUpdate(p)

(* a terminal flowStatus goes out *)
Terminal(status, text, ok) ==
    /\ StatusCall(status, text, ok)
    /\ terminals' = terminals + 1
    /\ Closing(ok)

(* Finish up to its first call *)
Finish(text) ==
    /\ pc["h"] = "idle"
    /\ \/ /\ closed
          /\ Goto("h", "returned") /\ result' = "nil"
          /\ UNCHANGED <<acc, closed, finalize, watchdog, arg, sealer, quiet>>
       \/ /\ ~closed
          /\ Seal("finish") /\ finalize' = TRUE
          /\ watchdog' = FALSE
          /\ acc' = IF text # <<>> THEN text ELSE acc
          /\ Start("h", IF card THEN "gap" ELSE "degraded", acc')
          /\ UNCHANGED result
    /\ UNCHANGED <<card, lastUpdate, hasPending, framed, inputing, outside, server, broken,
                   terminals, overtaken, muted>>

(* Faulty variant: no fallback when the last status fails. *)
FinishStatusOnly ==
    /\ pc["h"] = "finishStatus"
    /\ \E ok \in BOOLEAN :
          /\ Terminal("finished", arg["h"], ok)
          /\ Goto("h", "rest")
          /\ result' = IF ok THEN "nil" ELSE "err"
    /\ UNCHANGED <<state, frames, outside, arg, sealer, overtaken, muted>>

(* Finish after its last frame: the status carries the whole text *)
FinishStatus ==
    /\ pc["h"] = "finishStatus"
    /\ \E ok \in BOOLEAN :
          /\ Terminal("finished", arg["h"], ok)
          /\ Goto("h", IF ok THEN "rest" ELSE "statusFailed")
          /\ result' = IF ok THEN "nil" ELSE "err"
    /\ UNCHANGED <<state, frames, outside, arg, sealer, overtaken, muted>>

(* Finish: what did not fit a frame goes to the webhook, then cancel *)
FinishRest ==
    LET rest == overflowRemainder(arg["h"])
    IN  /\ pc["h"] = "rest"
        /\ \/ rest = <<>> /\ UNCHANGED texts
           \/ rest # <<>> /\ \E ok \in BOOLEAN : texts' = texts \cup {<<rest, ok>>}
        /\ ctxDone' = TRUE
        /\ Goto("h", "returned")
        /\ UNCHANGED <<state, frames, hot, appends, arg, server, history>>

(* tryFallback with errorCooldownPass: within the cooldown nothing is sent  *)
(* and nil is returned; otherwise the cooldown begins, then Text is called. *)
(* A degraded Finish and Fail return its result; Fail cancels.              *)
Fallback(from, to) ==
    /\ pc["h"] = from
    /\ Goto("h", to)
    /\ \E ok \in BOOLEAN :
          /\ \/ arg["h"] = <<>> /\ ok /\ UNCHANGED <<hot, muted, texts>>
             \/ arg["h"] # <<>> /\ hot /\ ok /\ muted' = TRUE /\ UNCHANGED <<hot, texts>>
             \/ /\ arg["h"] # <<>> /\ ~hot
                /\ hot' = TRUE /\ texts' = texts \cup {<<arg["h"], ok>>} /\ UNCHANGED muted
          /\ result' = IF from \notin {"degraded", "failText"} THEN result
                       ELSE IF ok THEN "nil" ELSE "err"
    /\ ctxDone' = (ctxDone \/ from = "failText")
    /\ UNCHANGED <<state, frames, appends, arg, server, sealer, quiet, broken, terminals,
                   overtaken>>
-----------------------------------------------------------------------------
(* Abort, by whoever got the streamer from Stream *)
Abort ==
    /\ pc["a"] = "idle" /\ pc["h"] # "new"
    /\ \/ closed /\ Goto("a", "returned") /\ UNCHANGED <<closed, watchdog, arg, sealer, quiet>>
       \/ /\ ~closed
          /\ Seal("abort")
          /\ watchdog' = FALSE
          /\ Start("a", IF card THEN "abortStream" ELSE "returned", acc)
    /\ UNCHANGED <<card, acc, lastUpdate, hasPending, finalize, framed, inputing, outside, server,
                   broken, terminals, overtaken, muted, result>>

AbortStream ==
    /\ pc["a"] = "abortStream"
    /\ \E ok \in BOOLEAN : StreamCall(arg["a"], TRUE, ok) /\ Closing(ok)
    /\ Goto("a", "abortStatus")
    /\ UNCHANGED <<state, frames, outside, arg, sealer, terminals, overtaken, muted, result>>

AbortStatus ==
    /\ pc["a"] = "abortStatus"
    /\ \E ok \in BOOLEAN : Terminal("failed", arg["a"], ok)
    /\ Goto("a", "returned")
    /\ UNCHANGED <<state, frames, outside, arg, sealer, overtaken, muted, result>>

(* Faulty variant: Fail does not look at closed. *)
FailAgain ==
    /\ pc["h"] = "idle"
    /\ Seal("fail")
    /\ Start("h", IF card THEN "failInputing" ELSE "failText", ErrText)
    /\ UNCHANGED <<card, acc, lastUpdate, hasPending, finalize, frames, outside, server,
                   broken, terminals, overtaken, muted, result>>

(* Fail: the watchdog is left running *)
Fail ==
    /\ pc["h"] = "idle"
    /\ \/ /\ closed
          /\ Goto("h", "returned") /\ result' = "nil"
          /\ UNCHANGED <<closed, arg, sealer, quiet>>
       \/ /\ ~closed
          /\ Seal("fail")
          /\ Start("h", IF card THEN "failInputing" ELSE "failText", ErrText)
          /\ UNCHANGED result
    /\ UNCHANGED <<card, acc, lastUpdate, hasPending, finalize, frames, outside, server,
                   broken, terminals, overtaken, muted>>

(* Fail reads and writes inputingStarted without s.mu. *)
FailInputing ==
    /\ pc["h"] = "failInputing"
    /\ \/ inputing /\ UNCHANGED <<server, quiet, broken>>
       \/ /\ ~inputing
          /\ \E ok \in BOOLEAN : StatusCall("inputing", <<>>, ok) /\ Closing(ok)
    /\ inputing' = TRUE
    /\ Goto("h", "failStream")
    /\ UNCHANGED <<state, framed, watchdog, outside, arg, sealer, terminals, overtaken, muted, result>>

FailStream ==
    /\ pc["h"] = "failStream"
    /\ \E ok \in BOOLEAN : StreamCall(arg["h"], TRUE, ok) /\ Closing(ok)
    /\ Goto("h", "failStatus")
    /\ UNCHANGED <<state, frames, outside, arg, sealer, terminals, overtaken, muted, result>>

FailStatus ==
    /\ pc["h"] = "failStatus"
    /\ \E ok \in BOOLEAN : Terminal("failed", arg["h"], ok)
    /\ Goto("h", "failText")
    /\ UNCHANGED <<state, frames, outside, arg, sealer, overtaken, muted, result>>
-----------------------------------------------------------------------------
(* The watchdog's timer fires; Stop does not reach it any more. *)
WatchdogFires ==
    /\ watchdog /\ pc["w"] = "idle"
    /\ watchdog' = FALSE
    /\ Goto("w", "lock")
    /\ UNCHANGED <<state, framed, inputing, outside, arg, server, history>>

WatchdogSeals ==
    /\ pc["w"] = "lock"
    /\ \/ closed /\ Goto("w", "idle") /\ UNCHANGED <<closed, arg, sealer, quiet>>
       \/ ~closed /\ Seal("watchdog") /\ Start("w", "wdStream", acc)
    /\ UNCHANGED <<card, acc, lastUpdate, hasPending, finalize, frames, outside, server,
                   broken, terminals, overtaken, muted, result>>

(* Faulty variant: updateDirect ends with the last frame. *)
WatchdogStreamOnly ==
    /\ pc["w"] = "wdStream"
    /\ \E ok \in BOOLEAN :
          /\ StreamCall(arg["w"], TRUE, ok)
          /\ Closing(ok)
    /\ Goto("w", "idle")
    /\ UNCHANGED <<state, frames, outside, arg, sealer, terminals, overtaken, muted, result>>

(* updateDirect: without its last frame there is no FINISHED either *)
WatchdogStream ==
    /\ pc["w"] = "wdStream"
    /\ \E ok \in BOOLEAN :
          /\ StreamCall(arg["w"], TRUE, ok)
          /\ Goto("w", IF ok THEN "wdStatus" ELSE "idle")
          /\ Closing(ok)
    /\ UNCHANGED <<state, frames, outside, arg, sealer, terminals, overtaken, muted, result>>

WatchdogStatus ==
    /\ pc["w"] = "wdStatus"
    /\ \E ok \in BOOLEAN : Terminal("finished", arg["w"], ok)
    /\ Goto("w", "idle")
    /\ UNCHANGED <<state, frames, outside, arg, sealer, overtaken, muted, result>>
-----------------------------------------------------------------------------
(* external: the caller's context is cancelled *)
Cancel ==
    /\ ~ctxDone
    /\ ctxDone' = TRUE
    /\ UNCHANGED <<state, frames, hot, appends, texts, pc, arg, server, history>>

(* errorCooldownPass for other streamers: the cooldown of this conversation *)
(* begins with another reply, and ends with time or with the map's reset    *)
OtherReplies ==
    /\ hot' = ~hot
    /\ UNCHANGED <<state, frames, ctxDone, appends, texts, pc, arg, server, history>>
-----------------------------------------------------------------------------
Step(p) == UpdateGap(p) \/ UpdateInputing(p) \/ UpdateMark(p) \/ UpdateStream(p)

FinishSteps ==
    \/ FinishStatus \/ FinishRest
    \/ Fallback("degraded", "returned") \/ Fallback("updateFailed", "returned")
    \/ Fallback("statusFailed", "rest") \/ Fallback("failText", "returned")

CloseSteps ==
    \/ AbortStream \/ AbortStatus
    \/ FailInputing \/ FailStream \/ FailStatus
    \/ WatchdogSeals \/ WatchdogStream \/ WatchdogStatus

Next ==
    \/ Stream \/ Append_
    \/ \E f \in Slots : Flush(f)
    \/ \E p \in Procs : Step(p)
    \/ \E text \in FinalTexts : Finish(text)
    \/ FinishSteps
    \/ Abort \/ Fail \/ CloseSteps
    \/ WatchdogFires
    \/ Cancel \/ OtherReplies

Spec == Init /\ [][Next]_vars

(* Started goroutines go on, calls return (the HTTP client has a timeout)   *)
(* and timers fire.  Nobody is obliged to append, to finish or to abort.    *)
Fairness ==
    /\ WF_vars(Stream)
    /\ \A p \in Procs : WF_vars(Step(p))
    /\ WF_vars(\E f \in Slots : Flush(f))
    /\ WF_vars(FinishSteps)
    /\ WF_vars(WatchdogFires)
    /\ WF_vars(AbortStream \/ AbortStatus)
    /\ WF_vars(FailInputing \/ FailStream \/ FailStatus)
    /\ WF_vars(WatchdogSeals \/ WatchdogStream \/ WatchdogStatus)

FairSpec == Spec /\ Fairness
-----------------------------------------------------------------------------
Labels == {"new", "idle", "returned", "gap", "inputing", "mark", "stream", "finishStatus",
           "rest", "degraded", "updateFailed", "statusFailed", "abortStream", "abortStatus",
           "failInputing", "failStream", "failStatus", "failText", "lock", "wdStream", "wdStatus"}

TypeOK ==
    /\ card \in BOOLEAN /\ closed \in BOOLEAN /\ hasPending \in BOOLEAN /\ finalize \in BOOLEAN
    /\ framed \in BOOLEAN /\ inputing \in BOOLEAN /\ watchdog \in BOOLEAN /\ ctxDone \in BOOLEAN
    /\ hot \in BOOLEAN /\ quiet \in BOOLEAN /\ broken \in BOOLEAN
    /\ overtaken \in BOOLEAN /\ muted \in BOOLEAN
    /\ acc \in Seq(Nat) /\ appends \in Nat /\ lastUpdate \in 0 .. appends /\ terminals \in Nat
    /\ pc \in [Procs -> Labels]
    /\ arg \in [Procs -> Seq(Nat)]
    /\ server \in [status : {"none", "processing", "inputing", "finished", "failed"},
                   text : Seq(Nat), final : BOOLEAN]
    /\ texts \subseteq Seq(Nat) \X BOOLEAN
    /\ sealer \in {"none", "finish", "abort", "fail", "watchdog"}
    /\ result \in {"none", "nil", "err"}

(* Finish, Abort, Fail and the watchdog exclude each other: whatever their  *)
(* order, and also when the watchdog has fired already, at most one         *)
(* terminal status is sent for a card, and only by the one that sealed it.  *)
OneTerminalStatus ==
    /\ terminals <= 1
    /\ terminals = 1 => sealer # "none"

(* While the streamer is open, a delta that no update has picked up has a   *)
(* flush armed for it ("within the window nothing is dropped"), whatever    *)
(* updates are in flight.                                                   *)
EveryDeltaScheduled ==
    TypeOK /\ ((card /\ ~closed /\ Len(acc) > lastUpdate) => hasPending)

SealerProc == CASE sealer \in {"finish", "fail"} -> "h" [] sealer = "abort" -> "a"
                [] sealer = "watchdog" -> "w"

(* When no update was in flight at the moment the streamer was closed and   *)
(* the calls of whoever closed it succeeded, the card shows the closer's    *)
(* text and status for good: a flush that was armed before comes to         *)
(* nothing.                                                                 *)
QuietCloseIsFinal ==
    (card /\ quiet /\ terminals = 1)
        => server = [status |-> IF sealer \in {"finish", "watchdog"} THEN "finished" ELSE "failed",
                     text |-> arg[SealerProc], final |-> TRUE]

(* a text was given to the webhook: the call may have failed *)
Offered(text) == \E ok \in BOOLEAN : <<text, ok>> \in texts

(* the whole text on a finished card that no update has overtaken, the tail *)
(* that no frame holds offered to the webhook as well; without a card, the  *)
(* text accepted by the webhook                                             *)
Delivered(text) ==
    IF card
    THEN /\ (server.status = "finished" /\ server.text = text) \/ overtaken
         /\ overflowRemainder(text) # <<>> => Offered(overflowRemainder(text))
    ELSE <<text, TRUE>> \in texts

(* E4: what Finish returns after closing the streamer is true.  nil: the    *)
(* platform took the FINISHED status with the whole text, and only an       *)
(* update still in flight can have changed the card since (which the code   *)
(* does not prevent, see FinishedStaysFinished); or, without a card, the    *)
(* webhook took the text.  An error: the card failed, and the text was      *)
(* given to the webhook once, with whatever outcome.  The exception is the  *)
(* cooldown, in which the text is held back and nil may be returned.        *)
FinishReachesUser ==
    (pc["h"] = "returned" /\ sealer = "finish" /\ arg["h"] # <<>>)
        => \/ muted
           \/ result = "nil" /\ Delivered(arg["h"])
           \/ result = "err" /\ Offered(arg["h"])

(* A delivered card does not spin for ever: it is closed, by the watchdog   *)
(* if by nobody else, whoever closed it gets to the end of its calls, and   *)
(* the card then shows a terminal status - unless the last of those calls   *)
(* failed, which nobody repeats, or an update in flight overtook it.        *)
EveryCardClosed ==
    card ~> /\ closed /\ pc[SealerProc] \in {"idle", "returned"}
            /\ server.status \in {"finished", "failed"} \/ broken \/ overtaken

(* The documented behaviour of a flush that meets a Finish (closing the     *)
(* streamer invalidates it): a card that was finished without an error      *)
(* stays finished.                                                          *)
FinishedStaysFinished ==
    (sealer = "finish" /\ pc["h"] = "returned" /\ result = "nil" /\ card)
        => server.status = "finished"
=============================================================================
