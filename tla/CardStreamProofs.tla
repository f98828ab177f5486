-------------------------- MODULE CardStreamProofs --------------------------
(***************************************************************************)
(* Finish, Abort, Fail and the watchdog exclude each other, for any number *)
(* of trailing flushes, deltas and texts, however their calls interleave   *)
(* and fail.  OneTerminalStatus speaks of the status that was sent; the    *)
(* inductive invariant also names the goroutine that still owes one: it is *)
(* the one that sealed the streamer, and until it has paid, nothing        *)
(* terminal was sent.                                                      *)
(***************************************************************************)
EXTENDS CardStream, TLAPS

(* the goroutine of each sealer, from its seal to its terminal status *)
FinishOwes == pc["h"] = "finishStatus" \/ (finalize /\ InUpdate("h"))
FailOwes == pc["h"] \in {"failInputing", "failStream", "failStatus"}
AbortOwes == pc["a"] \in {"abortStream", "abortStatus"}
WatchdogOwes == pc["w"] \in {"wdStream", "wdStatus"}

SealType ==
    /\ closed \in BOOLEAN /\ finalize \in BOOLEAN
    /\ terminals \in {0, 1}
    /\ DOMAIN pc = Procs

(* closed and the sealer agree, and only Finish sets finalize *)
SealedOnce ==
    /\ closed <=> sealer # "none"
    /\ finalize => sealer = "finish"
    /\ terminals = 1 => sealer # "none"

SealerOwes ==
    /\ FinishOwes => sealer = "finish" /\ terminals = 0
    /\ FailOwes => sealer = "fail" /\ terminals = 0
    /\ AbortOwes => sealer = "abort" /\ terminals = 0
    /\ WatchdogOwes => sealer = "watchdog" /\ terminals = 0

IInv == SealType /\ SealedOnce /\ SealerOwes

(* A new streamer is open and nobody owes anything. *)
LEMMA InitIInv == Init => IInv
<1> SUFFICES ASSUME Init PROVE IInv
  OBVIOUS
<1>1. pc["h"] = "new" /\ pc["a"] = "idle" /\ pc["w"] = "idle" /\ DOMAIN pc = Procs
  BY DEF Init, Procs
<1>2. closed = FALSE /\ finalize = FALSE /\ terminals = 0 /\ sealer = "none"
  BY DEF Init
<1>4. SealType
  BY <1>1, <1>2 DEF SealType
<1>5. SealedOnce
  BY <1>2 DEF SealedOnce
<1>3. SealerOwes
  BY <1>1 DEF SealerOwes, FinishOwes, FailOwes, AbortOwes, WatchdogOwes, InUpdate
<1> QED
  BY <1>3, <1>4, <1>5 DEF IInv

(* A step that leaves pc and the seal alone keeps the invariant. *)
LEMMA FrameIInv == IInv /\ UNCHANGED <<pc, closed, finalize, sealer, terminals>> => IInv'
  BY DEF IInv, SealType, SealedOnce, SealerOwes, FinishOwes, FailOwes, AbortOwes, WatchdogOwes,
         InUpdate

(* Append and the trailing flushes begin an update only while the streamer  *)
(* is open, so that it is not the last one of Finish.                       *)
LEMMA AppendIInv == IInv /\ (Stream \/ Append_ \/ \E f \in Slots : Flush(f)) => IInv'
<1> USE SlotsAssumption DEF IInv, SealType, SealedOnce, SealerOwes, FinishOwes, FailOwes,
        AbortOwes, WatchdogOwes, InUpdate, Procs, Goto, Start, history
<1>1. ASSUME IInv, Stream PROVE IInv'
  BY <1>1 DEF Stream
<1>2. ASSUME IInv, Append_ PROVE IInv'
  BY <1>2 DEF Append_
<1>3. ASSUME IInv, NEW f \in Slots, Flush(f) PROVE IInv'
  BY <1>3 DEF Flush
<1> QED
  BY <1>1, <1>2, <1>3

(* An update, of whatever goroutine, sends nothing terminal; the one of     *)
(* Finish goes on to the status it owes, or fails.                          *)
LEMMA UpdateIInv ==
  ASSUME IInv, NEW p \in Procs, Step(p)
  PROVE  IInv'
<1> USE SlotsAssumption DEF IInv, SealType, SealedOnce, SealerOwes, FinishOwes, FailOwes,
        AbortOwes, WatchdogOwes, InUpdate, Procs, Goto, Return, Final, state, history
<1>1. CASE UpdateGap(p)
  BY <1>1 DEF UpdateGap
<1>2. CASE UpdateInputing(p)
  BY <1>2 DEF UpdateInputing
<1>3. CASE UpdateMark(p)
  BY <1>3 DEF UpdateMark
<1>4. CASE UpdateStream(p)
  BY <1>4 DEF UpdateStream
<1> QED
  BY <1>1, <1>2, <1>3, <1>4 DEF Step

(* Whoever tests and sets closed becomes the one that owes the status; the  *)
(* others return.                                                           *)
LEMMA SealIInv ==
  IInv /\ ((\E text \in FinalTexts : Finish(text)) \/ Abort \/ Fail \/ WatchdogSeals) => IInv'
<1> USE SlotsAssumption DEF IInv, SealType, SealedOnce, SealerOwes, FinishOwes, FailOwes,
        AbortOwes, WatchdogOwes, InUpdate, Procs, Goto, Start, Seal
<1>1. ASSUME IInv, NEW text \in FinalTexts, Finish(text) PROVE IInv'
  <2>1. CASE closed
    BY <1>1, <2>1 DEF Finish
  <2>2. CASE ~closed /\ card
    BY <1>1, <2>2 DEF Finish
  <2>3. CASE ~closed /\ ~card
    BY <1>1, <2>3 DEF Finish
  <2> QED
    BY <2>1, <2>2, <2>3
<1>2. ASSUME IInv, Abort PROVE IInv'
  BY <1>2 DEF Abort
<1>3. ASSUME IInv, Fail PROVE IInv'
  BY <1>3 DEF Fail
<1>4. ASSUME IInv, WatchdogSeals PROVE IInv'
  BY <1>4 DEF WatchdogSeals
<1> QED
  BY <1>1, <1>2, <1>3, <1>4

(* The terminal status is sent by the goroutine that owes it, once. *)
LEMMA TerminalIInv ==
  IInv /\ (FinishStatus \/ AbortStatus \/ FailStatus \/ WatchdogStatus) => IInv'
<1> USE SlotsAssumption DEF IInv, SealType, SealedOnce, SealerOwes, FinishOwes, FailOwes,
        AbortOwes, WatchdogOwes, InUpdate, Procs, Goto, Terminal, Closing, state
<1>1. ASSUME IInv, FinishStatus PROVE IInv'
  BY <1>1 DEF FinishStatus
<1>2. ASSUME IInv, AbortStatus PROVE IInv'
  BY <1>2 DEF AbortStatus
<1>3. ASSUME IInv, FailStatus PROVE IInv'
  BY <1>3 DEF FailStatus
<1>4. ASSUME IInv, WatchdogStatus PROVE IInv'
  BY <1>4 DEF WatchdogStatus
<1> QED
  BY <1>1, <1>2, <1>3, <1>4

(* The calls in between, and what follows the terminal status. *)
LEMMA CallIInv ==
  IInv /\ (FinishRest \/ AbortStream \/ FailInputing \/ FailStream \/ WatchdogStream
             \/ WatchdogFires) => IInv'
<1> USE SlotsAssumption DEF IInv, SealType, SealedOnce, SealerOwes, FinishOwes, FailOwes,
        AbortOwes, WatchdogOwes, InUpdate, Procs, Goto, state, history
<1>1. ASSUME IInv, FinishRest PROVE IInv'
  BY <1>1 DEF FinishRest
<1>2. ASSUME IInv, AbortStream PROVE IInv'
  BY <1>2 DEF AbortStream
<1>3. ASSUME IInv, FailInputing PROVE IInv'
  BY <1>3 DEF FailInputing
<1>4. ASSUME IInv, FailStream PROVE IInv'
  BY <1>4 DEF FailStream
<1>5. ASSUME IInv, WatchdogStream PROVE IInv'
  BY <1>5 DEF WatchdogStream
<1>6. ASSUME IInv, WatchdogFires PROVE IInv'
  BY <1>6 DEF WatchdogFires
<1> QED
  BY <1>1, <1>2, <1>3, <1>4, <1>5, <1>6

(* A fallback text is no status. *)
LEMMA FallbackIInv ==
  ASSUME IInv, NEW from, NEW to \in {"returned", "rest"}, Fallback(from, to)
  PROVE  IInv'
  BY SlotsAssumption DEF Fallback, IInv, SealType, SealedOnce, SealerOwes, FinishOwes, FailOwes,
     AbortOwes, WatchdogOwes, InUpdate, Procs, Goto, state

(* Every step of the streamer keeps the invariant. *)
LEMMA StepIInv == IInv /\ [Next]_vars => IInv'
<1> SUFFICES ASSUME IInv, [Next]_vars PROVE IInv'
  OBVIOUS
<1>1. CASE Stream \/ Append_ \/ \E f \in Slots : Flush(f)
  BY <1>1, AppendIInv
<1>2. CASE \E p \in Procs : Step(p)
  BY <1>2, UpdateIInv
<1>3. CASE (\E text \in FinalTexts : Finish(text)) \/ Abort \/ Fail \/ WatchdogSeals
  BY <1>3, SealIInv
<1>4. CASE FinishStatus \/ AbortStatus \/ FailStatus \/ WatchdogStatus
  BY <1>4, TerminalIInv
<1>5. CASE FinishRest \/ AbortStream \/ FailInputing \/ FailStream \/ WatchdogStream
             \/ WatchdogFires
  BY <1>5, CallIInv
<1>6. CASE \/ Fallback("degraded", "returned") \/ Fallback("updateFailed", "returned")
           \/ Fallback("statusFailed", "rest") \/ Fallback("failText", "returned")
  BY <1>6, FallbackIInv
<1>7. CASE Cancel \/ OtherReplies \/ UNCHANGED vars
  BY <1>7, FrameIInv DEF Cancel, OtherReplies, vars, state, history
<1> QED
  BY <1>1, <1>2, <1>3, <1>4, <1>5, <1>6, <1>7 DEF Next, FinishSteps, CloseSteps

(* The inductive invariant holds in every reachable state. *)
THEOREM Inductive == Spec => []IInv
  BY InitIInv, StepIInv, PTL DEF Spec

(* At most one terminal status is sent for a card, and only by the one that *)
(* sealed it.                                                               *)
THEOREM OneTerminal == Spec => []OneTerminalStatus
<1>1. IInv => OneTerminalStatus
  BY DEF IInv, SealType, SealedOnce, OneTerminalStatus
<1> QED
  BY Inductive, <1>1, PTL
-----------------------------------------------------------------------------
(* what the flags, the texts and the platform's card may be *)
Flags ==
    /\ card \in BOOLEAN /\ closed \in BOOLEAN /\ hasPending \in BOOLEAN /\ finalize \in BOOLEAN
    /\ framed \in BOOLEAN /\ inputing \in BOOLEAN /\ watchdog \in BOOLEAN /\ ctxDone \in BOOLEAN
    /\ hot \in BOOLEAN /\ quiet \in BOOLEAN /\ broken \in BOOLEAN
    /\ overtaken \in BOOLEAN /\ muted \in BOOLEAN

Card == [status : {"none", "processing", "inputing", "finished", "failed"}, text : Seq(Nat),
         final : BOOLEAN]

(* Every flag is a Boolean whatever a step does to it. *)
LEMMA FlagsKept == Flags /\ [Next]_vars => Flags'
<1> SUFFICES ASSUME Flags, [Next]_vars PROVE Flags'
  OBVIOUS
<1> USE DEF Flags, state, frames, outside, history
<1>1. CASE Stream
  BY <1>1 DEF Stream
<1>2. CASE Append_
  <2>1. hasPending' \in BOOLEAN
    BY <1>2, Zenon DEF Append_
  <2>2. UNCHANGED <<card, closed, finalize, framed, inputing, watchdog, ctxDone, hot, quiet,
                   broken, overtaken, muted>>
    BY <1>2 DEF Append_
  <2> QED
    BY <2>1, <2>2
<1>3. ASSUME NEW f \in Slots, Flush(f) PROVE Flags'
  BY <1>3 DEF Flush
<1>4. ASSUME NEW p \in Procs, Step(p) PROVE Flags'
  <2>1. CASE UpdateGap(p)
    <3>1. framed' \in BOOLEAN /\ watchdog' \in BOOLEAN /\ quiet' \in BOOLEAN /\ broken' \in BOOLEAN
      BY <2>1, Zenon DEF UpdateGap, Return, Closing, CountFrame
    <3>2. UNCHANGED <<card, closed, hasPending, finalize, inputing, ctxDone, hot, overtaken, muted>>
      BY <2>1 DEF UpdateGap
    <3> QED
      BY <3>1, <3>2
  <2>2. CASE UpdateInputing(p)
    <3>1. quiet' \in BOOLEAN /\ broken' \in BOOLEAN /\ overtaken' \in BOOLEAN
      BY <2>2, Zenon DEF UpdateInputing, Return, Closing, NoteOvertaking
    <3>2. UNCHANGED <<card, closed, hasPending, finalize, framed, inputing, watchdog, ctxDone,
                     hot, muted>>
      BY <2>2 DEF UpdateInputing
    <3> QED
      BY <3>1, <3>2
  <2>3. CASE UpdateMark(p)
    BY <2>3 DEF UpdateMark, CountFrame
  <2>4. CASE UpdateStream(p)
    <3>1. quiet' \in BOOLEAN /\ broken' \in BOOLEAN /\ overtaken' \in BOOLEAN
      BY <2>4, Zenon DEF UpdateStream, Return, Closing, NoteOvertaking
    <3>2. UNCHANGED <<card, closed, hasPending, finalize, framed, inputing, watchdog, ctxDone,
                     hot, muted>>
      BY <2>4 DEF UpdateStream
    <3> QED
      BY <3>1, <3>2
  <2> QED
    BY <1>4, <2>1, <2>2, <2>3, <2>4 DEF Step
<1>5. ASSUME NEW text \in FinalTexts, Finish(text) PROVE Flags'
  <2>1. closed' \in BOOLEAN /\ finalize' \in BOOLEAN /\ watchdog' \in BOOLEAN /\ quiet' \in BOOLEAN
    BY <1>5, Zenon DEF Finish, Seal
  <2>2. UNCHANGED <<card, hasPending, framed, inputing, ctxDone, hot, broken, overtaken, muted>>
    BY <1>5 DEF Finish
  <2> QED
    BY <2>1, <2>2
<1>6. CASE FinishStatus
  <2>1. quiet' \in BOOLEAN /\ broken' \in BOOLEAN
    BY <1>6, Zenon DEF FinishStatus, Terminal, Closing
  <2>2. UNCHANGED <<card, closed, hasPending, finalize, framed, inputing, watchdog, ctxDone, hot,
                   overtaken, muted>>
    BY <1>6 DEF FinishStatus
  <2> QED
    BY <2>1, <2>2
<1>7. CASE FinishRest
  BY <1>7 DEF FinishRest
<1>8. ASSUME NEW from, NEW to, Fallback(from, to) PROVE Flags'
  <2>1. ctxDone' \in BOOLEAN /\ hot' \in BOOLEAN /\ muted' \in BOOLEAN
    BY <1>8, Zenon DEF Fallback
  <2>2. UNCHANGED <<card, closed, hasPending, finalize, framed, inputing, watchdog, quiet, broken,
                    overtaken>>
    BY <1>8 DEF Fallback
  <2> QED
    BY <2>1, <2>2
<1>9. CASE Abort
  <2>1. closed' \in BOOLEAN /\ watchdog' \in BOOLEAN /\ quiet' \in BOOLEAN
    BY <1>9, Zenon DEF Abort, Seal
  <2>2. UNCHANGED <<card, hasPending, finalize, framed, inputing, ctxDone, hot, broken, overtaken,
                    muted>>
    BY <1>9 DEF Abort
  <2> QED
    BY <2>1, <2>2
<1>10. CASE Fail
  <2>1. closed' \in BOOLEAN /\ quiet' \in BOOLEAN
    BY <1>10, Zenon DEF Fail, Seal
  <2>2. UNCHANGED <<card, hasPending, finalize, framed, inputing, watchdog, ctxDone, hot, broken,
                    overtaken, muted>>
    BY <1>10 DEF Fail
  <2> QED
    BY <2>1, <2>2
<1>11. CASE AbortStream \/ AbortStatus
  <2>1. quiet' \in BOOLEAN /\ broken' \in BOOLEAN
    BY <1>11, Zenon DEF AbortStream, AbortStatus, Terminal, Closing
  <2> QED
    BY <1>11, <2>1, ZenonT(30) DEF AbortStream, AbortStatus, Terminal
<1>12. CASE FailInputing \/ FailStream \/ FailStatus
  <2>1. CASE FailInputing
    <3>1. inputing' \in BOOLEAN /\ quiet' \in BOOLEAN /\ broken' \in BOOLEAN
      BY <2>1, Zenon DEF FailInputing, Closing
    <3> QED
      BY <2>1, <3>1 DEF FailInputing
  <2>2. CASE FailStream
    BY <2>2 DEF FailStream, Closing
  <2>3. CASE FailStatus
    BY <2>3 DEF FailStatus, Terminal, Closing
  <2> QED
    BY <1>12, <2>1, <2>2, <2>3
<1>13. CASE WatchdogSeals \/ WatchdogStream \/ WatchdogStatus \/ WatchdogFires
  <2>1. CASE WatchdogSeals
    <3>1. closed' \in BOOLEAN /\ quiet' \in BOOLEAN
      BY <2>1, Zenon DEF WatchdogSeals, Seal
    <3>2. UNCHANGED <<card, hasPending, finalize, framed, inputing, watchdog, ctxDone, hot, broken,
                      overtaken, muted>>
      BY <2>1 DEF WatchdogSeals
    <3> QED
      BY <3>1, <3>2
  <2>2. CASE WatchdogStream
    BY <2>2 DEF WatchdogStream, Closing
  <2>3. CASE WatchdogStatus
    <3>1. quiet' \in BOOLEAN /\ broken' \in BOOLEAN
      BY <2>3, Zenon DEF WatchdogStatus, Terminal, Closing
    <3> QED
      BY <2>3, <3>1 DEF WatchdogStatus, Terminal
  <2>4. CASE WatchdogFires
    BY <2>4 DEF WatchdogFires
  <2> QED
    BY <1>13, <2>1, <2>2, <2>3, <2>4
<1>14. CASE Cancel \/ OtherReplies \/ UNCHANGED vars
  <2>1. CASE Cancel
    BY <2>1 DEF Cancel
  <2>2. CASE OtherReplies
    <3>1. hot' \in BOOLEAN
      BY <2>2, Zenon DEF OtherReplies
    <3> QED
      BY <2>2, <3>1 DEF OtherReplies
  <2>3. CASE UNCHANGED vars
    BY <2>3 DEF vars
  <2> QED
    BY <1>14, <2>1, <2>2, <2>3
<1> QED
  BY <1>1, <1>2, <1>3, <1>4, <1>5, <1>6, <1>7, <1>8, <1>9, <1>10, <1>11, <1>12, <1>13, <1>14
     DEF Next, FinishSteps, CloseSteps

(* where the goroutines are *)
Control ==
    /\ pc \in [Procs -> Labels]
    /\ sealer \in {"none", "finish", "abort", "fail", "watchdog"}
    /\ result \in {"none", "nil", "err"}

(* Every goroutine stays on its way. *)
LEMMA ControlKept == Control /\ [Next]_vars => Control'
<1> SUFFICES ASSUME Control, [Next]_vars PROVE Control'
  OBVIOUS
<1> USE DEF Control, Labels, Goto, Start, history
<1>1. CASE Stream \/ Append_
  BY <1>1 DEF Stream, Append_
<1>2. ASSUME NEW f \in Slots, Flush(f) PROVE Control'
  BY <1>2 DEF Flush
<1>3. ASSUME NEW p \in Procs, Step(p) PROVE Control'
  <2>1. CASE UpdateGap(p)
    BY <2>1 DEF UpdateGap, Return
  <2>2. CASE UpdateInputing(p)
    BY <2>2 DEF UpdateInputing, Return
  <2>3. CASE UpdateMark(p)
    BY <2>3 DEF UpdateMark
  <2>4. CASE UpdateStream(p)
    BY <2>4 DEF UpdateStream, Return
  <2> QED
    BY <1>3, <2>1, <2>2, <2>3, <2>4 DEF Step
<1>4. ASSUME NEW text \in FinalTexts, Finish(text) PROVE Control'
  BY <1>4 DEF Finish, Seal
<1>5. CASE FinishStatus \/ FinishRest
  BY <1>5 DEF FinishStatus, FinishRest
<1>6. ASSUME NEW from, NEW to \in {"returned", "rest"}, Fallback(from, to) PROVE Control'
  BY <1>6 DEF Fallback
<1>7. CASE Abort \/ Fail
  BY <1>7 DEF Abort, Fail, Seal
<1>8. CASE AbortStream \/ AbortStatus
  BY <1>8 DEF AbortStream, AbortStatus
<1>9. CASE FailInputing \/ FailStream \/ FailStatus
  BY <1>9 DEF FailInputing, FailStream, FailStatus
<1>10. CASE WatchdogSeals \/ WatchdogStream \/ WatchdogStatus \/ WatchdogFires
  BY <1>10 DEF WatchdogSeals, WatchdogStream, WatchdogStatus, WatchdogFires, Seal
<1>11. CASE Cancel \/ OtherReplies \/ UNCHANGED vars
  BY <1>11 DEF Cancel, OtherReplies, vars
<1> QED
  BY <1>1, <1>2, <1>3, <1>4, <1>5, <1>6, <1>7, <1>8, <1>9, <1>10, <1>11
     DEF Next, FinishSteps, CloseSteps

(* the texts, on their way and on the platform *)
Payload ==
    /\ acc \in Seq(Nat) /\ appends \in Nat
    /\ arg \in [Procs -> Seq(Nat)]
    /\ server \in Card
    /\ texts \subseteq Seq(Nat) \X BOOLEAN

(* A request leaves the platform with a card, done or not. *)
LEMMA CallsKeepCard ==
    ASSUME server \in Card, NEW text \in Seq(Nat), NEW ok
    PROVE  /\ \A st \in {"processing", "inputing", "finished", "failed"} :
                 StatusCall(st, text, ok) => server' \in Card
           /\ \A final \in BOOLEAN : StreamCall(text, final, ok) => server' \in Card
<1>1. ASSUME NEW st \in {"processing", "inputing", "finished", "failed"}, StatusCall(st, text, ok)
      PROVE  server' \in Card
  BY <1>1 DEF StatusCall, Call, Card
<1>2. ASSUME NEW final \in BOOLEAN, StreamCall(text, final, ok) PROVE server' \in Card
  <2>1. [server EXCEPT !.text = text, !.final = final] \in Card
    BY DEF Card
  <2> QED
    BY <1>2, <2>1 DEF StreamCall, Call
<1> QED
  BY <1>1, <1>2

(* Cutting a text leaves a text. *)
LEMMA CutsAreTexts ==
    ASSUME NEW text \in Seq(Nat)
    PROVE  Truncate(text) \in Seq(Nat) /\ overflowRemainder(text) \in Seq(Nat)
<1>1. MaxContent \in Nat /\ Len(text) \in Nat
  BY BoundsAssumption
<1>2. Truncate(text) \in Seq(Nat)
  BY <1>1 DEF Truncate
<1>3. overflowRemainder(text) \in Seq(Nat)
  BY <1>1 DEF overflowRemainder
<1> QED
  BY <1>2, <1>3

(* Texts stay texts. *)
LEMMA PayloadKept == Payload /\ Flags /\ [Next]_vars => Payload'
<1> SUFFICES ASSUME Payload, Flags, [Next]_vars PROVE Payload'
  OBVIOUS
<1> USE DEF Payload, Goto, Start, state, outside
<1>0. {"h", "a", "w"} \subseteq Procs
  BY DEF Procs
<1>1. CASE Stream
  BY <1>1 DEF Stream, Call, Card
<1>2. CASE Append_
  <2>1. acc' \in Seq(Nat) /\ appends' \in Nat
    <3>1. acc' = acc \/ acc' = Append(acc, appends + 1)
      BY <1>2 DEF Append_
    <3>2. appends + 1 \in Nat /\ appends' = appends + 1
      BY <1>2 DEF Append_
    <3>3. Append(acc, appends + 1) \in Seq(Nat)
      BY <3>2
    <3> QED
      BY <3>1, <3>2, <3>3
  <2>2. arg' \in [Procs -> Seq(Nat)]
    BY <1>0, <1>2, <2>1 DEF Append_
  <2> QED
    BY <1>2, <2>1, <2>2 DEF Append_
<1>3. ASSUME NEW f \in Slots, Flush(f) PROVE Payload'
  BY <1>3 DEF Flush
<1>4. ASSUME NEW p \in Procs, Step(p) PROVE Payload'
  <2>1. arg[p] \in Seq(Nat) /\ Truncate(arg[p]) \in Seq(Nat)
    BY CutsAreTexts
  <2>2. CASE UpdateGap(p) \/ UpdateMark(p)
    BY <2>2 DEF UpdateGap, UpdateMark
  <2>3. CASE UpdateInputing(p)
    BY <2>1, <2>3, CallsKeepCard DEF UpdateInputing
  <2>4. CASE UpdateStream(p)
    <3>1. Final(p) \in BOOLEAN
      BY DEF Final
    <3>2. server' \in Card
      BY <2>1, <2>4, <3>1, CallsKeepCard, ZenonT(30) DEF UpdateStream
    <3> QED
      BY <2>4, <3>2 DEF UpdateStream
  <2> QED
    BY <1>4, <2>2, <2>3, <2>4 DEF Step
<1>5. ASSUME NEW text \in FinalTexts, Finish(text) PROVE Payload'
  BY <1>0, <1>5, TextsAssumption, ZenonT(30) DEF Finish
<1>6. CASE FinishStatus
  BY <1>0, <1>6, CallsKeepCard DEF FinishStatus, Terminal
<1>7. CASE FinishRest
  <2>1. overflowRemainder(arg["h"]) \in Seq(Nat)
    BY <1>0, CutsAreTexts
  <2> QED
    BY <1>7, <2>1 DEF FinishRest
<1>8. ASSUME NEW from, NEW to, Fallback(from, to) PROVE Payload'
  <2>1. arg["h"] \in Seq(Nat)
    BY <1>0
  <2> QED
    BY <1>8, <2>1 DEF Fallback
<1>9. CASE Abort \/ Fail
  BY <1>0, <1>9, TextsAssumption DEF Abort, Fail
<1>10. CASE AbortStream \/ AbortStatus
  BY <1>0, <1>10, CallsKeepCard DEF AbortStream, AbortStatus, Terminal
<1>11. CASE FailInputing \/ FailStream \/ FailStatus
  <2>1. <<>> \in Seq(Nat) /\ arg["h"] \in Seq(Nat)
    BY <1>0
  <2>2. CASE FailInputing
    BY <2>1, <2>2, CallsKeepCard DEF FailInputing
  <2>3. CASE FailStream
    BY <2>1, <2>3, CallsKeepCard DEF FailStream
  <2>4. CASE FailStatus
    BY <2>1, <2>4, CallsKeepCard DEF FailStatus, Terminal
  <2> QED
    BY <1>11, <2>2, <2>3, <2>4
<1>12. CASE WatchdogSeals \/ WatchdogFires
  BY <1>0, <1>12 DEF WatchdogSeals, WatchdogFires
<1>13. CASE WatchdogStream \/ WatchdogStatus
  BY <1>0, <1>13, CallsKeepCard DEF WatchdogStream, WatchdogStatus, Terminal
<1>14. CASE Cancel \/ OtherReplies \/ UNCHANGED vars
  BY <1>14 DEF Cancel, OtherReplies, vars
<1> QED
  BY <1>1, <1>2, <1>3, <1>4, <1>5, <1>6, <1>7, <1>8, <1>9, <1>10, <1>11, <1>12, <1>13, <1>14
     DEF Next, FinishSteps, CloseSteps
-----------------------------------------------------------------------------
(* Before Stream has returned, nobody has the streamer. *)
Untouched ==
    pc["h"] = "new" => /\ acc = <<>> /\ lastUpdate = 0 /\ ~closed /\ ~card /\ ~hasPending /\ ~watchdog
                       /\ \A p \in Procs \ {"h"} : pc[p] = "idle"

LEMMA UntouchedKept == Untouched /\ Control /\ [Next]_vars => Untouched'
<1> SUFFICES ASSUME Untouched, Control, [Next]_vars, pc'["h"] = "new" PROVE Untouched'
  BY DEF Untouched
<1> USE DEF Control, Goto, Start, state, frames
<1>0. {"h", "a", "w"} \subseteq Procs /\ Slots \subseteq Procs \ {"h"}
  BY SlotsAssumption DEF Procs
<1>1. CASE Stream \/ Append_
  BY <1>0, <1>1 DEF Untouched, Stream, Append_
<1>2. ASSUME NEW f \in Slots, Flush(f) PROVE Untouched'
  BY <1>0, <1>2 DEF Untouched, Flush
<1>3. ASSUME NEW p \in Procs, Step(p) PROVE Untouched'
  <2>1. pc[p] \notin {"new", "idle"} /\ (p = "h" => pc'["h"] # "new")
    BY <1>0, <1>3 DEF Step, UpdateGap, UpdateInputing, UpdateMark, UpdateStream, Return
  <2>2. pc'["h"] = pc["h"] \/ p = "h"
    BY <1>0, <1>3 DEF Step, UpdateGap, UpdateInputing, UpdateMark, UpdateStream, Return
  <2> QED
    BY <2>1, <2>2 DEF Untouched
<1>4. ASSUME NEW text \in FinalTexts, Finish(text) PROVE Untouched'
  BY <1>0, <1>4 DEF Finish
<1>5. CASE FinishStatus \/ FinishRest
  BY <1>0, <1>5 DEF FinishStatus, FinishRest
<1>6. ASSUME NEW from, NEW to \in {"returned", "rest"}, Fallback(from, to) PROVE Untouched'
  BY <1>0, <1>6 DEF Fallback
<1>7. CASE Abort \/ Fail
  BY <1>0, <1>7 DEF Abort, Fail
<1>8. CASE AbortStream \/ AbortStatus
  BY <1>0, <1>8 DEF AbortStream, AbortStatus, Untouched
<1>9. CASE FailInputing \/ FailStream \/ FailStatus
  BY <1>0, <1>9 DEF FailInputing, FailStream, FailStatus
<1>10. CASE WatchdogSeals \/ WatchdogStream \/ WatchdogStatus \/ WatchdogFires
  BY <1>0, <1>10, SlotsAssumption
     DEF WatchdogSeals, WatchdogStream, WatchdogStatus, WatchdogFires, Untouched
<1>11. CASE Cancel \/ OtherReplies \/ UNCHANGED vars
  BY <1>11 DEF Cancel, OtherReplies, vars, Untouched
<1> QED
  BY <1>1, <1>2, <1>3, <1>4, <1>5, <1>6, <1>7, <1>8, <1>9, <1>10, <1>11
     DEF Next, FinishSteps, CloseSteps

(* A flush is armed for every delta that no update has picked up. *)
Deltas ==
    /\ lastUpdate \in 0 .. appends
    /\ ~closed => Len(acc) <= appends
    /\ (card /\ ~closed /\ Len(acc) > lastUpdate) => hasPending

LEMMA DeltasKept == Deltas /\ Untouched /\ Payload /\ Flags /\ [Next]_vars => Deltas'
<1> SUFFICES ASSUME Deltas, Untouched, Payload, Flags, [Next]_vars PROVE Deltas'
  OBVIOUS
<1>0. acc \in Seq(Nat) /\ appends \in Nat /\ Len(acc) \in Nat /\ lastUpdate \in Nat
  BY DEF Payload, Deltas
<1>a. UNCHANGED <<card, acc, lastUpdate, closed, hasPending, appends>> => Deltas'
  BY DEF Deltas
<1> USE DEF Deltas, state, outside
<1>1. CASE Stream
  BY <1>0, <1>1 DEF Stream, Untouched
<1>2. CASE Append_
  <2>1. appends' = appends + 1 /\ UNCHANGED <<closed, card>>
    BY <1>2 DEF Append_
  <2>2. CASE closed
    BY <1>0, <1>2, <2>1, <2>2 DEF Append_
  <2>3. CASE ~closed
    <3>1. acc' = Append(acc, appends + 1)
      BY <1>2, <2>3 DEF Append_
    <3>2. Len(acc') = Len(acc) + 1
      BY <1>0, <3>1
    <3>3. \/ ~card /\ lastUpdate' = lastUpdate
          \/ hasPending' = TRUE /\ lastUpdate' = lastUpdate
          \/ lastUpdate' = Len(acc')
      BY <1>2, <2>3, Zenon DEF Append_
    <3> QED
      BY <1>0, <2>1, <2>3, <3>2, <3>3
  <2> QED
    BY <2>2, <2>3
<1>3. ASSUME NEW f \in Slots, Flush(f) PROVE Deltas'
  BY <1>0, <1>3 DEF Flush
<1>4. ASSUME NEW p \in Procs, Step(p) PROVE Deltas'
  BY <1>4, <1>a DEF Step, UpdateGap, UpdateInputing, UpdateMark, UpdateStream
<1>5. ASSUME NEW text \in FinalTexts, Finish(text) PROVE Deltas'
  <2>1. closed' = TRUE \/ UNCHANGED <<acc, closed>>
    BY <1>5 DEF Finish, Seal
  <2>2. UNCHANGED <<card, lastUpdate, hasPending, appends>>
    BY <1>5 DEF Finish
  <2> QED
    BY <2>1, <2>2
<1>6. CASE FinishStatus \/ FinishRest \/ \E from, to : Fallback(from, to)
  BY <1>6, <1>a DEF FinishStatus, FinishRest, Fallback
<1>7. CASE Abort \/ Fail \/ WatchdogSeals
  <2>1. closed' = TRUE \/ closed' = closed
    BY <1>7 DEF Abort, Fail, WatchdogSeals, Seal
  <2>2. UNCHANGED <<card, acc, lastUpdate, hasPending, appends>>
    BY <1>7 DEF Abort, Fail, WatchdogSeals
  <2> QED
    BY <2>1, <2>2
<1>8. CASE AbortStream \/ AbortStatus \/ FailInputing \/ FailStream \/ FailStatus
  BY <1>8, <1>a DEF AbortStream, AbortStatus, FailInputing, FailStream, FailStatus
<1>9. CASE WatchdogStream \/ WatchdogStatus \/ WatchdogFires
  BY <1>9, <1>a DEF WatchdogStream, WatchdogStatus, WatchdogFires
<1>10. CASE Cancel \/ OtherReplies \/ UNCHANGED vars
  BY <1>10 DEF Cancel, OtherReplies, vars
<1> QED
  BY <1>1, <1>2, <1>3, <1>4, <1>5, <1>6, <1>7, <1>8, <1>9, <1>10
     DEF Next, FinishSteps, CloseSteps
-----------------------------------------------------------------------------
(* the two ways in which nothing has to be delivered *)
Excused == muted \/ arg["h"] = <<>>

RestSent == overflowRemainder(arg["h"]) # <<>> => Offered(overflowRemainder(arg["h"]))

(* the finished card holds the text of Finish, unless an update overtook it *)
OnCard ==
    /\ card /\ terminals = 1
    /\ (server.status = "finished" /\ server.text = arg["h"]) \/ overtaken

FinishPath == {"gap", "inputing", "mark", "stream", "finishStatus", "rest", "degraded",
               "updateFailed", "statusFailed", "returned"}

(* How far a Finish that closed the streamer has come. *)
Delivery ==
    sealer = "finish" =>
        /\ finalize /\ pc["h"] \in FinishPath
        /\ (InUpdate("h") \/ pc["h"] = "finishStatus") => card
        /\ pc["h"] = "degraded" => ~card
        /\ pc["h"] \in {"updateFailed", "statusFailed"} => result = "err"
        /\ pc["h"] = "rest" => \/ result = "nil" /\ OnCard
                               \/ result = "err" /\ (Excused \/ Offered(arg["h"]))
        /\ pc["h"] = "returned" => \/ Excused
                                   \/ result = "nil" /\ OnCard /\ RestSent
                                   \/ result = "nil" /\ ~card /\ <<arg["h"], TRUE>> \in texts
                                   \/ result = "err" /\ Offered(arg["h"])

(* What others do does not concern Finish. *)
LEMMA DeliverySame ==
    ASSUME Delivery, UNCHANGED <<sealer, finalize, card, result, muted, texts>>,
           OnCard => OnCard', pc'["h"] = pc["h"], arg'["h"] = arg["h"]
    PROVE  Delivery'
BY DEF Delivery, InUpdate, Excused, Offered, RestSent

(* The finished card is as it was when nothing reaches the platform. *)
LEMMA OnCardSame ==
    ASSUME OnCard, UNCHANGED <<card, terminals, server, overtaken>>, arg'["h"] = arg["h"]
    PROVE  OnCard'
BY Zenon DEF OnCard

(* An update of whatever goroutine that changes the card after the terminal *)
(* status is noted.                                                         *)
LEMMA OnCardUpdate ==
    ASSUME OnCard, NEW p \in Procs, Step(p)
    PROVE  OnCard'
<1>1. UNCHANGED <<card, terminals, arg>>
  BY DEF Step, UpdateGap, UpdateInputing, UpdateMark, UpdateStream, state, history
<1>2. NoteOvertaking \/ UNCHANGED <<server, overtaken>>
  BY DEF Step, UpdateGap, UpdateInputing, UpdateMark, UpdateStream, history
<1>3. CASE NoteOvertaking
  <2>1. terminals > 0
    BY DEF OnCard
  <2>2. CASE server' = server
    BY <1>1, <1>3, <2>2, Zenon DEF OnCard, NoteOvertaking
  <2>3. CASE server' # server
    BY <1>1, <1>3, <2>1, <2>3, Zenon DEF OnCard, NoteOvertaking
  <2> QED
    BY <2>2, <2>3
<1>4. CASE UNCHANGED <<server, overtaken>>
  BY <1>1, <1>4, OnCardSame
<1> QED
  BY <1>2, <1>3, <1>4

(* Every way from the seal of Finish to its return ends in an outcome that  *)
(* its result states.                                                       *)
LEMMA DeliveryKept ==
    ASSUME Delivery, IInv, Control, Payload, Untouched, [Next]_vars
    PROVE  Delivery'
<1>0. /\ {"h", "a", "w"} \subseteq Procs /\ \A f \in Slots : f # "h"
      /\ pc \in [Procs -> Labels] /\ arg \in [Procs -> Seq(Nat)]
      /\ sealer = "finish" => closed
      /\ pc["h"] = "idle" => sealer # "finish"
      /\ pc["h"] = "new" => sealer # "finish"
  BY SlotsAssumption DEF Procs, Control, Payload, IInv, SealedOnce, Delivery, FinishPath
<1> USE DEF Goto, Start, state, frames, outside, history
<1>1. CASE Stream \/ Append_
  <2>1. sealer' # "finish"
    BY <1>0, <1>1 DEF Stream, Append_
  <2> QED
    BY <2>1 DEF Delivery
<1>2. ASSUME NEW f \in Slots, Flush(f) PROVE Delivery'
  <2>1. UNCHANGED <<sealer, finalize, card, result, muted, texts, terminals, server, overtaken>>
    BY <1>2 DEF Flush
  <2>2. pc'["h"] = pc["h"] /\ arg'["h"] = arg["h"]
    BY <1>0, <1>2 DEF Flush
  <2> QED
    BY <2>1, <2>2, OnCardSame, DeliverySame
<1>3. ASSUME NEW p \in Procs, p # "h", Step(p) PROVE Delivery'
  <2>1. ~Final(p)
    BY <1>3 DEF Final
  <2>2. UNCHANGED <<sealer, finalize, card, result, muted, texts, arg>>
    BY <1>3, <2>1 DEF Step, UpdateGap, UpdateInputing, UpdateMark, UpdateStream, Return
  <2>3. pc'["h"] = pc["h"]
    BY <1>0, <1>3 DEF Step, UpdateGap, UpdateInputing, UpdateMark, UpdateStream, Return
  <2>4. OnCard => OnCard'
    BY <1>3, OnCardUpdate
  <2> QED
    BY <2>2, <2>3, <2>4, DeliverySame
<1>4. ASSUME Step("h") PROVE Delivery'
  <2> SUFFICES ASSUME sealer = "finish" PROVE Delivery'
    <3>1. sealer' = sealer
      BY <1>4 DEF Step, UpdateGap, UpdateInputing, UpdateMark, UpdateStream
    <3> QED
      BY <3>1 DEF Delivery
  <2>1. InUpdate("h") /\ finalize /\ card
    BY <1>4 DEF Step, UpdateGap, UpdateInputing, UpdateMark, UpdateStream, InUpdate, Delivery
  <2>2. \/ pc'["h"] \in {"inputing", "mark", "stream", "finishStatus"}
        \/ pc'["h"] = "updateFailed" /\ result' = "err"
    BY <1>0, <1>4, <2>1 DEF Step, UpdateGap, UpdateInputing, UpdateMark, UpdateStream, Return, Final
  <2>3. UNCHANGED <<finalize, card>>
    BY <1>4 DEF Step, UpdateGap, UpdateInputing, UpdateMark, UpdateStream
  <2> QED
    BY <2>1, <2>2, <2>3 DEF Delivery, FinishPath
<1>5. ASSUME NEW text \in FinalTexts, Finish(text) PROVE Delivery'
  <2>1. CASE closed
    BY <1>0, <1>5, <2>1 DEF Finish, Delivery
  <2>2. CASE ~closed
    <3>1. finalize' = TRUE /\ card' = card
      BY <1>5, <2>2, Zenon DEF Finish
    <3>2. pc'["h"] = IF card THEN "gap" ELSE "degraded"
      BY <1>0, <1>5, <2>2 DEF Finish
    <3> QED
      BY <3>1, <3>2 DEF Delivery, FinishPath, InUpdate
  <2> QED
    BY <2>1, <2>2
<1>6. CASE FinishStatus
  <2>1. pc["h"] = "finishStatus" /\ sealer = "finish" /\ UNCHANGED <<sealer, finalize, card, arg>>
    BY <1>6 DEF FinishStatus, IInv, SealerOwes, FinishOwes
  <2>2. PICK ok \in BOOLEAN :
           /\ Terminal("finished", arg["h"], ok)
           /\ Goto("h", IF ok THEN "rest" ELSE "statusFailed")
           /\ result' = IF ok THEN "nil" ELSE "err"
    BY <1>6 DEF FinishStatus
  <2>3. CASE ok
    <3>1. pc'["h"] = "rest" /\ result' = "nil"
      BY <1>0, <2>2, <2>3
    <3>2. server' = [server EXCEPT !.status = "finished", !.text = arg["h"]]
      BY <2>2, <2>3 DEF Terminal, StatusCall, Call
    <3>3. server'.status = "finished" /\ server'.text = arg["h"]
      BY <3>2 DEF Payload, Card
    <3>4. terminals' = 1
      BY <2>1, <2>2 DEF Terminal, IInv, SealerOwes, FinishOwes
    <3>5. card /\ finalize
      BY <2>1 DEF Delivery
    <3>6. OnCard'
      BY <2>1, <3>3, <3>4, <3>5 DEF OnCard
    <3> QED
      BY <2>1, <3>1, <3>5, <3>6 DEF Delivery, FinishPath, InUpdate
  <2>4. CASE ~ok
    <3>1. pc'["h"] = "statusFailed" /\ result' = "err"
      BY <1>0, <2>2, <2>4
    <3> QED
      BY <2>1, <3>1 DEF Delivery, FinishPath, InUpdate
  <2> QED
    BY <2>3, <2>4
<1>7. CASE FinishRest
  <2>1. /\ pc["h"] = "rest" /\ pc'["h"] = "returned"
        /\ UNCHANGED <<sealer, finalize, card, result, muted, arg, terminals, server, overtaken>>
    BY <1>0, <1>7 DEF FinishRest
  <2>2. RestSent' /\ texts \subseteq texts'
    BY <1>7, <2>1 DEF FinishRest, RestSent, Offered
  <2>3. (Excused => Excused') /\ (Offered(arg["h"]) => Offered(arg["h"])')
    BY <2>1, <2>2 DEF Excused, Offered
  <2>4. OnCard => OnCard'
    BY <2>1, OnCardSame
  <2> QED
    BY <2>1, <2>2, <2>3, <2>4 DEF Delivery, FinishPath, InUpdate
<1>8. ASSUME NEW from \in {"degraded", "updateFailed", "statusFailed", "failText"},
             NEW to \in {"returned", "rest"}, Fallback(from, to),
             from = "statusFailed" <=> to = "rest"
      PROVE  Delivery'
  <2>1. pc["h"] = from /\ pc'["h"] = to /\ UNCHANGED <<sealer, finalize, card, arg>>
    BY <1>0, <1>8 DEF Fallback
  <2>2. CASE sealer # "finish"
    BY <2>1, <2>2 DEF Delivery
  <2>3. CASE sealer = "finish" /\ from = "degraded"
    <3>1. PICK ok \in BOOLEAN :
             /\ \/ arg["h"] = <<>>
                \/ muted' = TRUE
                \/ texts' = texts \cup {<<arg["h"], ok>>}
             /\ result' = IF ok THEN "nil" ELSE "err"
      BY <1>8, <2>3, Zenon DEF Fallback
    <3>2. ~card /\ to = "returned" /\ finalize
      BY <1>8, <2>1, <2>3 DEF Delivery
    <3>3. CASE arg["h"] = <<>> \/ muted' = TRUE
      <4>1. Excused'
        BY <2>1, <3>3 DEF Excused
      <4> QED
        BY <2>1, <3>2, <4>1 DEF Delivery, FinishPath, InUpdate
    <3>4. CASE texts' = texts \cup {<<arg["h"], ok>>} /\ ok
      <4>1. <<arg["h"], TRUE>> \in texts' /\ result' = "nil"
        BY <3>1, <3>4
      <4> QED
        BY <2>1, <3>2, <4>1 DEF Delivery, FinishPath, InUpdate
    <3>5. CASE texts' = texts \cup {<<arg["h"], ok>>} /\ ~ok
      <4>1. Offered(arg["h"])' /\ result' = "err"
        BY <2>1, <3>1, <3>5 DEF Offered
      <4> QED
        BY <2>1, <3>2, <4>1 DEF Delivery, FinishPath, InUpdate
    <3> QED
      BY <3>1, <3>3, <3>4, <3>5
  <2>4. CASE sealer = "finish" /\ from # "degraded"
    <3>1. from \in {"updateFailed", "statusFailed"} /\ result = "err" /\ finalize
      BY <1>8, <2>1, <2>4 DEF Delivery, FinishPath
    <3>2. result' = "err"
      BY <1>8, <3>1 DEF Fallback
    <3>3. \/ arg["h"] = <<>> \/ muted' = TRUE
          \/ \E ok \in BOOLEAN : texts' = texts \cup {<<arg["h"], ok>>}
      BY <1>8, Zenon DEF Fallback
    <3>4. Excused' \/ Offered(arg["h"])'
      BY <2>1, <3>3 DEF Excused, Offered
    <3> QED
      BY <2>1, <3>1, <3>2, <3>4 DEF Delivery, FinishPath, InUpdate
  <2> QED
    BY <2>2, <2>3, <2>4
<1>9. CASE Abort
  <2>1. CASE closed
    <3>1. UNCHANGED <<sealer, finalize, card, result, muted, texts, terminals, server, overtaken, arg>>
      BY <1>9, <2>1 DEF Abort
    <3>2. pc'["h"] = pc["h"]
      BY <1>0, <1>9, <2>1 DEF Abort
    <3> QED
      BY <3>1, <3>2, OnCardSame, DeliverySame
  <2>2. CASE ~closed
    <3>1. sealer' = "abort"
      BY <1>9, <2>2 DEF Abort, Seal
    <3> QED
      BY <3>1 DEF Delivery
  <2> QED
    BY <2>1, <2>2
<1>10. CASE Fail
  <2>1. sealer' # "finish"
    BY <1>0, <1>10 DEF Fail, Seal
  <2> QED
    BY <2>1 DEF Delivery
<1>11. CASE WatchdogSeals
  <2>1. CASE closed
    <3>1. UNCHANGED <<sealer, finalize, card, result, muted, texts, terminals, server, overtaken, arg>>
      BY <1>11, <2>1 DEF WatchdogSeals
    <3>2. pc'["h"] = pc["h"]
      BY <1>0, <1>11, <2>1 DEF WatchdogSeals
    <3> QED
      BY <3>1, <3>2, OnCardSame, DeliverySame
  <2>2. CASE ~closed
    <3>1. sealer' = "watchdog"
      BY <1>11, <2>2 DEF WatchdogSeals, Seal
    <3> QED
      BY <3>1 DEF Delivery
  <2> QED
    BY <2>1, <2>2
<1>12. CASE AbortStream \/ AbortStatus
  <2>1. UNCHANGED <<sealer, finalize, card, result, muted, texts, arg>>
    BY <1>12 DEF AbortStream, AbortStatus
  <2>2. pc["a"] \in {"abortStream", "abortStatus"} /\ pc'["h"] = pc["h"]
    BY <1>0, <1>12 DEF AbortStream, AbortStatus
  <2>3. sealer' # "finish"
    BY <2>1, <2>2 DEF IInv, SealerOwes, AbortOwes
  <2> QED
    BY <2>3 DEF Delivery
<1>13. CASE FailInputing \/ FailStream \/ FailStatus
  <2>1. pc["h"] \notin FinishPath /\ sealer' = sealer
    BY <1>13 DEF FailInputing, FailStream, FailStatus, FinishPath
  <2> QED
    BY <2>1 DEF Delivery
<1>14. CASE WatchdogStream \/ WatchdogStatus
  <2>1. sealer' = sealer /\ pc["w"] \in {"wdStream", "wdStatus"}
    BY <1>14 DEF WatchdogStream, WatchdogStatus
  <2>2. sealer' # "finish"
    BY <2>1 DEF IInv, SealerOwes, WatchdogOwes
  <2> QED
    BY <2>2 DEF Delivery
<1>15. CASE WatchdogFires \/ Cancel \/ OtherReplies \/ UNCHANGED vars
  <2>1. UNCHANGED <<sealer, finalize, card, result, muted, texts, terminals, server, overtaken, arg>>
    BY <1>15 DEF WatchdogFires, Cancel, OtherReplies, vars
  <2>2. pc'["h"] = pc["h"]
    BY <1>0, <1>15 DEF WatchdogFires, Cancel, OtherReplies, vars
  <2> QED
    BY <2>1, <2>2, OnCardSame, DeliverySame
<1> QED
  BY <1>1, <1>2, <1>3, <1>4, <1>5, <1>6, <1>7, <1>8, <1>9, <1>10, <1>11, <1>12, <1>13, <1>14, <1>15
     DEF Next, FinishSteps, CloseSteps
-----------------------------------------------------------------------------
(* a closer that has sent its last frame and owes the status *)
StatusDue ==
    \/ pc["h"] \in {"finishStatus", "failStatus"}
    \/ pc["a"] = "abortStatus"
    \/ pc["w"] = "wdStatus"

(* After a quiet close nobody but the closer writes to the card, and its    *)
(* frame is there before its status.                                        *)
NobodyElse == \A p \in Procs : InUpdate(p) => p = "h" /\ finalize

QuietInv ==
    quiet => /\ closed /\ NobodyElse
             /\ StatusDue => server.final = TRUE
             /\ QuietCloseIsFinal

LEMMA QuietSame ==
    ASSUME QuietInv, quiet' => quiet, UNCHANGED <<server, terminals, sealer, card, closed, finalize, arg>>,
           \A p \in Procs : InUpdate(p)' => InUpdate(p), StatusDue' => StatusDue
    PROVE  QuietInv'
BY DEF QuietInv, NobodyElse, QuietCloseIsFinal, SealerProc

(* A close: nothing terminal was sent yet. *)
LEMMA QuietSeal ==
    ASSUME closed', quiet' => \A p \in Procs : ~InUpdate(p), terminals' = 0, ~StatusDue',
           \A p \in Procs : InUpdate(p)' => InUpdate(p) \/ (p = "h" /\ finalize')
    PROVE  QuietInv'
BY DEF QuietInv, NobodyElse, QuietCloseIsFinal

(* The calls of the closer before its status. *)
LEMMA QuietFrame ==
    ASSUME QuietInv, quiet' => quiet, UNCHANGED <<terminals, sealer, card, closed, finalize>>,
           terminals = 0, quiet' /\ StatusDue' => server'.final = TRUE,
           \A p \in Procs : InUpdate(p)' => InUpdate(p)
    PROVE  QuietInv'
BY DEF QuietInv, NobodyElse, QuietCloseIsFinal

(* The status of the closer. *)
LEMMA QuietStatus ==
    ASSUME QuietInv, server \in Card, NEW text, NEW st, NEW ok \in BOOLEAN, Terminal(st, text, ok),
           StatusDue, text = arg[SealerProc], ~StatusDue',
           st = IF sealer \in {"finish", "watchdog"} THEN "finished" ELSE "failed",
           UNCHANGED <<sealer, card, closed, finalize, arg>>,
           \A p \in Procs : InUpdate(p)' => InUpdate(p)
    PROVE  QuietInv'
<1> SUFFICES ASSUME quiet' PROVE QuietInv'
  BY DEF QuietInv
<1>1. quiet /\ ok
  BY Zenon DEF Terminal, Closing
<1>2. server' = [server EXCEPT !.status = st, !.text = text]
  BY <1>1 DEF Terminal, StatusCall, Call
<1>3. server.final = TRUE
  BY <1>1 DEF QuietInv
<1>4. server' = [status |-> st, text |-> text, final |-> TRUE]
  BY <1>2, <1>3 DEF Card
<1>5. SealerProc' = SealerProc
  BY DEF SealerProc
<1> QED
  BY <1>1, <1>4, <1>5 DEF QuietInv, NobodyElse, QuietCloseIsFinal

(* Whatever is armed or on its way at a quiet close comes to nothing. *)
LEMMA QuietKept ==
    ASSUME QuietInv, IInv, Control, Payload, Untouched, [Next]_vars
    PROVE  QuietInv'
<1>0. /\ {"h", "a", "w"} \subseteq Procs /\ \A f \in Slots : f # "h" /\ f # "a" /\ f # "w"
      /\ pc \in [Procs -> Labels] /\ arg \in [Procs -> Seq(Nat)] /\ server \in Card
      /\ quiet => closed
  BY SlotsAssumption DEF Procs, Control, Payload, QuietInv
<1>a. terminals \in {0, 1} /\ (~closed => terminals = 0 /\ sealer = "none")
  BY DEF IInv, SealType, SealedOnce
<1>b. ~closed => ~StatusDue
  BY <1>a DEF IInv, SealerOwes, FinishOwes, FailOwes, AbortOwes, WatchdogOwes, StatusDue
<1> USE DEF Goto, Start, state, frames, outside, history
<1>1. CASE Stream
  <2>1. ~quiet'
    BY <1>0, <1>1 DEF Stream, Untouched
  <2> QED
    BY <2>1 DEF QuietInv
<1>2. CASE Append_
  <2>1. CASE closed
    <3>1. UNCHANGED <<quiet, server, terminals, sealer, card, closed, finalize, arg, pc>>
      BY <1>2, <2>1 DEF Append_
    <3> QED
      BY <3>1, QuietSame DEF InUpdate, StatusDue
  <2>2. CASE ~closed
    BY <1>0, <1>2, <2>2 DEF Append_, QuietInv
  <2> QED
    BY <2>1, <2>2
<1>3. ASSUME NEW f \in Slots, Flush(f) PROVE QuietInv'
  <2>1. CASE closed
    <3>1. UNCHANGED <<quiet, server, terminals, sealer, card, closed, finalize, arg, pc>>
      BY <1>3, <2>1 DEF Flush
    <3> QED
      BY <3>1, QuietSame DEF InUpdate, StatusDue
  <2>2. CASE ~closed
    BY <1>0, <1>3, <2>2 DEF Flush, QuietInv
  <2> QED
    BY <2>1, <2>2
<1>4. ASSUME NEW p \in Procs, Step(p) PROVE QuietInv'
  <2> SUFFICES ASSUME quiet' PROVE QuietInv'
    BY DEF QuietInv
  <2>1. quiet /\ InUpdate(p)
    BY <1>4 DEF Step, UpdateGap, UpdateInputing, UpdateMark, UpdateStream, Return, Closing, InUpdate
  <2>2. p = "h" /\ finalize /\ Final("h")
    BY <2>1 DEF QuietInv, NobodyElse, Final
  <2>3. /\ terminals = 0 /\ UNCHANGED <<terminals, sealer, card, closed, finalize>>
        /\ pc["a"] # "abortStatus" /\ pc["w"] # "wdStatus"
    BY <1>4, <2>1, <2>2 DEF Step, UpdateGap, UpdateInputing, UpdateMark, UpdateStream, IInv,
       SealerOwes, FinishOwes, AbortOwes, WatchdogOwes
  <2>4. /\ \A q \in Procs \ {"h"} : pc'[q] = pc[q]
        /\ pc'["h"] \in {"inputing", "mark", "stream", "finishStatus", "updateFailed"}
        /\ pc'["h"] = "finishStatus" => server'.final = TRUE
    <3>1. CASE UpdateGap("h") \/ UpdateMark("h")
      BY <1>0, <2>2, <3>1 DEF UpdateGap, UpdateMark, Return
    <3>2. CASE UpdateInputing("h")
      BY <1>0, <2>2, <3>2 DEF UpdateInputing, Return
    <3>3. CASE UpdateStream("h")
      <4>1. PICK ok \in BOOLEAN : StreamCall(Truncate(arg["h"]), Final("h"), ok) /\ Return("h", ok)
        BY <3>3 DEF UpdateStream
      <4>2. ok
        BY <2>2, <4>1, Zenon DEF Return, Closing
      <4>3. server'.final = TRUE
        <5>1. server' = [server EXCEPT !.text = Truncate(arg["h"]), !.final = Final("h")]
          BY <4>1, <4>2 DEF StreamCall, Call
        <5>2. server'.final = Final("h")
          BY <1>0, <5>1 DEF Card
        <5> QED
          BY <2>2, <5>2 DEF Final
      <4> QED
        BY <1>0, <2>2, <4>1, <4>3 DEF Return
    <3> QED
      BY <1>4, <2>2, <3>1, <3>2, <3>3 DEF Step
  <2>5. \A q \in Procs : InUpdate(q)' => InUpdate(q)
    BY <2>1, <2>2, <2>4 DEF InUpdate
  <2>6. StatusDue' => server'.final = TRUE
    BY <1>0, <2>3, <2>4, SlotsAssumption DEF StatusDue
  <2> QED
    BY <2>1, <2>3, <2>5, <2>6, QuietFrame
<1>5. ASSUME NEW text \in FinalTexts, Finish(text) PROVE QuietInv'
  <2>1. CASE closed
    <3>1. UNCHANGED <<quiet, server, terminals, sealer, card, closed, finalize, arg>>
      BY <1>5, <2>1 DEF Finish
    <3>2. pc' = [pc EXCEPT !["h"] = "returned"]
      BY <1>5, <2>1 DEF Finish
    <3> QED
      BY <1>0, <3>1, <3>2, QuietSame DEF InUpdate, StatusDue
  <2>2. CASE ~closed
    <3>1. closed' /\ finalize'
      BY <1>5, <2>2, Zenon DEF Finish, Seal
    <3>2. quiet' => \A p \in Procs : ~InUpdate(p)
      BY <1>5, <2>2 DEF Finish, Seal
    <3>3. /\ \A p \in Procs \ {"h"} : pc'[p] = pc[p]
          /\ pc'["h"] \in {"gap", "degraded"} /\ terminals' = terminals
      BY <1>0, <1>5, <2>2 DEF Finish
    <3>4. ~StatusDue' /\ \A p \in Procs : InUpdate(p)' => InUpdate(p) \/ (p = "h" /\ finalize')
      BY <1>0, <1>b, <2>2, <3>1, <3>3, SlotsAssumption DEF StatusDue, InUpdate
    <3> QED
      BY <1>a, <2>2, <3>1, <3>2, <3>3, <3>4, QuietSeal
  <2> QED
    BY <2>1, <2>2
<1>6. CASE Abort
  <2>1. CASE closed
    <3>1. UNCHANGED <<quiet, server, terminals, sealer, card, closed, finalize, arg>>
      BY <1>6, <2>1 DEF Abort
    <3>2. pc' = [pc EXCEPT !["a"] = "returned"]
      BY <1>6, <2>1 DEF Abort
    <3> QED
      BY <1>0, <3>1, <3>2, QuietSame DEF InUpdate, StatusDue
  <2>2. CASE ~closed
    <3>1. closed'
      BY <1>6, <2>2, Zenon DEF Abort, Seal
    <3>2. quiet' => \A p \in Procs : ~InUpdate(p)
      BY <1>6, <2>2 DEF Abort, Seal
    <3>3. /\ \A p \in Procs \ {"a"} : pc'[p] = pc[p]
          /\ pc'["a"] \in {"abortStream", "returned"} /\ terminals' = terminals
      BY <1>0, <1>6, <2>2 DEF Abort
    <3>4. ~StatusDue' /\ \A p \in Procs : InUpdate(p)' => InUpdate(p)
      BY <1>0, <1>b, <2>2, <3>3, SlotsAssumption DEF StatusDue, InUpdate
    <3> QED
      BY <1>a, <2>2, <3>1, <3>2, <3>3, <3>4, QuietSeal
  <2> QED
    BY <2>1, <2>2
<1>7. CASE Fail
  <2>1. CASE closed
    <3>1. UNCHANGED <<quiet, server, terminals, sealer, card, closed, finalize, arg>>
      BY <1>7, <2>1 DEF Fail
    <3>2. pc' = [pc EXCEPT !["h"] = "returned"]
      BY <1>7, <2>1 DEF Fail
    <3> QED
      BY <1>0, <3>1, <3>2, QuietSame DEF InUpdate, StatusDue
  <2>2. CASE ~closed
    <3>1. closed'
      BY <1>7, <2>2, Zenon DEF Fail, Seal
    <3>2. quiet' => \A p \in Procs : ~InUpdate(p)
      BY <1>7, <2>2 DEF Fail, Seal
    <3>3. /\ \A p \in Procs \ {"h"} : pc'[p] = pc[p]
          /\ pc'["h"] \in {"failInputing", "failText"} /\ terminals' = terminals
      BY <1>0, <1>7, <2>2 DEF Fail
    <3>4. ~StatusDue' /\ \A p \in Procs : InUpdate(p)' => InUpdate(p)
      BY <1>0, <1>b, <2>2, <3>3, SlotsAssumption DEF StatusDue, InUpdate
    <3> QED
      BY <1>a, <2>2, <3>1, <3>2, <3>3, <3>4, QuietSeal
  <2> QED
    BY <2>1, <2>2
<1>8. CASE WatchdogSeals
  <2>1. CASE closed
    <3>1. UNCHANGED <<quiet, server, terminals, sealer, card, closed, finalize, arg>>
      BY <1>8, <2>1 DEF WatchdogSeals
    <3>2. pc' = [pc EXCEPT !["w"] = "idle"]
      BY <1>8, <2>1 DEF WatchdogSeals
    <3> QED
      BY <1>0, <3>1, <3>2, QuietSame DEF InUpdate, StatusDue
  <2>2. CASE ~closed
    <3>1. closed'
      BY <1>8, <2>2, Zenon DEF WatchdogSeals, Seal
    <3>2. quiet' => \A p \in Procs : ~InUpdate(p)
      BY <1>8, <2>2 DEF WatchdogSeals, Seal
    <3>3. /\ \A p \in Procs \ {"w"} : pc'[p] = pc[p]
          /\ pc'["w"] = "wdStream" /\ terminals' = terminals
      BY <1>0, <1>8, <2>2 DEF WatchdogSeals
    <3>4. ~StatusDue' /\ \A p \in Procs : InUpdate(p)' => InUpdate(p)
      BY <1>0, <1>b, <2>2, <3>3, SlotsAssumption DEF StatusDue, InUpdate
    <3> QED
      BY <1>a, <2>2, <3>1, <3>2, <3>3, <3>4, QuietSeal
  <2> QED
    BY <2>1, <2>2
<1>9. CASE AbortStream
  <2>1. /\ UNCHANGED <<terminals, sealer, card, closed, finalize>>
        /\ \A p \in Procs \ {"a"} : pc'[p] = pc[p]
        /\ pc'["a"] \in {"abortStatus"}
    BY <1>0, <1>9 DEF AbortStream
  <2>2. terminals = 0 /\ sealer = "abort"
    BY <1>9 DEF AbortStream, IInv, SealerOwes, AbortOwes
  <2>3. quiet' => quiet /\ server'.final = TRUE
    <3>1. PICK ok \in BOOLEAN : StreamCall(arg["a"], TRUE, ok) /\ quiet' = (quiet /\ ok)
      BY <1>9, Zenon DEF AbortStream, Closing
    <3>2. ok => server' = [server EXCEPT !.text = arg["a"], !.final = TRUE]
      BY <3>1 DEF StreamCall, Call
    <3>3. [server EXCEPT !.text = arg["a"], !.final = TRUE].final = TRUE
      BY <1>0 DEF Card
    <3> QED
      BY <3>1, <3>2, <3>3
  <2>4. \A p \in Procs : InUpdate(p)' => InUpdate(p)
    BY <2>1 DEF InUpdate
  <2> QED
    BY <2>1, <2>2, <2>3, <2>4, QuietFrame
<1>10. CASE FailInputing
  <2>1. /\ UNCHANGED <<terminals, sealer, card, closed, finalize>>
        /\ \A p \in Procs \ {"h"} : pc'[p] = pc[p]
        /\ pc["h"] = "failInputing" /\ pc'["h"] = "failStream"
    BY <1>0, <1>10 DEF FailInputing
  <2>2. terminals = 0 /\ sealer = "fail"
    BY <2>1 DEF IInv, SealerOwes, FailOwes
  <2>3. quiet' => quiet
    BY <1>10, Zenon DEF FailInputing, Closing
  <2>4. ~StatusDue' /\ \A p \in Procs : InUpdate(p)' => InUpdate(p)
    BY <1>0, <2>1, <2>2 DEF InUpdate, StatusDue, IInv, SealerOwes, AbortOwes, WatchdogOwes
  <2> QED
    BY <2>1, <2>2, <2>3, <2>4, QuietFrame
<1>11. CASE FailStream
  <2>1. /\ UNCHANGED <<terminals, sealer, card, closed, finalize>>
        /\ \A p \in Procs \ {"h"} : pc'[p] = pc[p]
        /\ pc'["h"] \in {"failStatus"}
    BY <1>0, <1>11 DEF FailStream
  <2>2. terminals = 0 /\ sealer = "fail"
    BY <1>11 DEF FailStream, IInv, SealerOwes, FailOwes
  <2>3. quiet' => quiet /\ server'.final = TRUE
    <3>1. PICK ok \in BOOLEAN : StreamCall(arg["h"], TRUE, ok) /\ quiet' = (quiet /\ ok)
      BY <1>11, Zenon DEF FailStream, Closing
    <3>2. ok => server' = [server EXCEPT !.text = arg["h"], !.final = TRUE]
      BY <3>1 DEF StreamCall, Call
    <3>3. [server EXCEPT !.text = arg["h"], !.final = TRUE].final = TRUE
      BY <1>0 DEF Card
    <3> QED
      BY <3>1, <3>2, <3>3
  <2>4. \A p \in Procs : InUpdate(p)' => InUpdate(p)
    BY <2>1 DEF InUpdate
  <2> QED
    BY <2>1, <2>2, <2>3, <2>4, QuietFrame
<1>12. CASE WatchdogStream
  <2>1. /\ UNCHANGED <<terminals, sealer, card, closed, finalize>>
        /\ \A p \in Procs \ {"w"} : pc'[p] = pc[p]
        /\ pc'["w"] \in {"wdStatus", "idle"}
    BY <1>0, <1>12 DEF WatchdogStream
  <2>2. terminals = 0 /\ sealer = "watchdog"
    BY <1>12 DEF WatchdogStream, IInv, SealerOwes, WatchdogOwes
  <2>3. quiet' => quiet /\ server'.final = TRUE
    <3>1. PICK ok \in BOOLEAN : StreamCall(arg["w"], TRUE, ok) /\ quiet' = (quiet /\ ok)
      BY <1>12, Zenon DEF WatchdogStream, Closing
    <3>2. ok => server' = [server EXCEPT !.text = arg["w"], !.final = TRUE]
      BY <3>1 DEF StreamCall, Call
    <3>3. [server EXCEPT !.text = arg["w"], !.final = TRUE].final = TRUE
      BY <1>0 DEF Card
    <3> QED
      BY <3>1, <3>2, <3>3
  <2>4. \A p \in Procs : InUpdate(p)' => InUpdate(p)
    BY <2>1 DEF InUpdate
  <2> QED
    BY <2>1, <2>2, <2>3, <2>4, QuietFrame
<1>13. CASE FinishStatus
  <2>1. PICK ok \in BOOLEAN : Terminal("finished", arg["h"], ok)
    BY <1>13 DEF FinishStatus
  <2>2. /\ UNCHANGED <<sealer, card, closed, finalize, arg>>
        /\ \A p \in Procs \ {"h"} : pc'[p] = pc[p]
        /\ pc'["h"] \in {"rest", "statusFailed"}
    BY <1>0, <1>13 DEF FinishStatus
  <2>3. sealer = "finish" /\ StatusDue
    BY <1>13 DEF FinishStatus, IInv, SealerOwes, FinishOwes, StatusDue
  <2>4. ~StatusDue' /\ \A p \in Procs : InUpdate(p)' => InUpdate(p)
    <3>1. pc["a"] = "abortStatus" => sealer = "abort"
      BY DEF IInv, SealerOwes, AbortOwes
    <3>2. pc["w"] = "wdStatus" => sealer = "watchdog"
      BY DEF IInv, SealerOwes, WatchdogOwes
    <3>3. pc["h"] = "finishStatus" => sealer = "finish"
      BY DEF IInv, SealerOwes, FinishOwes
    <3>4. pc["h"] = "failStatus" => sealer = "fail"
      BY DEF IInv, SealerOwes, FailOwes
    <3> QED
      BY <1>0, <2>2, <2>3, <3>1, <3>2, <3>3, <3>4 DEF StatusDue, InUpdate
  <2>5. /\ arg["h"] = arg[SealerProc]
        /\ "finished" = IF sealer \in {"finish", "watchdog"} THEN "finished" ELSE "failed"
    BY <2>3 DEF SealerProc
  <2> QED
    BY <1>0, <2>1, <2>2, <2>3, <2>4, <2>5, QuietStatus
<1>14. CASE AbortStatus
  <2>1. PICK ok \in BOOLEAN : Terminal("failed", arg["a"], ok)
    BY <1>14 DEF AbortStatus
  <2>2. /\ UNCHANGED <<sealer, card, closed, finalize, arg>>
        /\ \A p \in Procs \ {"a"} : pc'[p] = pc[p]
        /\ pc'["a"] \in {"returned"}
    BY <1>0, <1>14 DEF AbortStatus
  <2>3. sealer = "abort" /\ StatusDue
    BY <1>14 DEF AbortStatus, IInv, SealerOwes, AbortOwes, StatusDue
  <2>4. ~StatusDue' /\ \A p \in Procs : InUpdate(p)' => InUpdate(p)
    <3>1. pc["a"] = "abortStatus" => sealer = "abort"
      BY DEF IInv, SealerOwes, AbortOwes
    <3>2. pc["w"] = "wdStatus" => sealer = "watchdog"
      BY DEF IInv, SealerOwes, WatchdogOwes
    <3>3. pc["h"] = "finishStatus" => sealer = "finish"
      BY DEF IInv, SealerOwes, FinishOwes
    <3>4. pc["h"] = "failStatus" => sealer = "fail"
      BY DEF IInv, SealerOwes, FailOwes
    <3> QED
      BY <1>0, <2>2, <2>3, <3>1, <3>2, <3>3, <3>4 DEF StatusDue, InUpdate
  <2>5. /\ arg["a"] = arg[SealerProc]
        /\ "failed" = IF sealer \in {"finish", "watchdog"} THEN "finished" ELSE "failed"
    BY <2>3 DEF SealerProc
  <2> QED
    BY <1>0, <2>1, <2>2, <2>3, <2>4, <2>5, QuietStatus
<1>15. CASE FailStatus
  <2>1. PICK ok \in BOOLEAN : Terminal("failed", arg["h"], ok)
    BY <1>15 DEF FailStatus
  <2>2. /\ UNCHANGED <<sealer, card, closed, finalize, arg>>
        /\ \A p \in Procs \ {"h"} : pc'[p] = pc[p]
        /\ pc'["h"] \in {"failText"}
    BY <1>0, <1>15 DEF FailStatus
  <2>3. sealer = "fail" /\ StatusDue
    BY <1>15 DEF FailStatus, IInv, SealerOwes, FailOwes, StatusDue
  <2>4. ~StatusDue' /\ \A p \in Procs : InUpdate(p)' => InUpdate(p)
    <3>1. pc["a"] = "abortStatus" => sealer = "abort"
      BY DEF IInv, SealerOwes, AbortOwes
    <3>2. pc["w"] = "wdStatus" => sealer = "watchdog"
      BY DEF IInv, SealerOwes, WatchdogOwes
    <3>3. pc["h"] = "finishStatus" => sealer = "finish"
      BY DEF IInv, SealerOwes, FinishOwes
    <3>4. pc["h"] = "failStatus" => sealer = "fail"
      BY DEF IInv, SealerOwes, FailOwes
    <3> QED
      BY <1>0, <2>2, <2>3, <3>1, <3>2, <3>3, <3>4 DEF StatusDue, InUpdate
  <2>5. /\ arg["h"] = arg[SealerProc]
        /\ "failed" = IF sealer \in {"finish", "watchdog"} THEN "finished" ELSE "failed"
    BY <2>3 DEF SealerProc
  <2> QED
    BY <1>0, <2>1, <2>2, <2>3, <2>4, <2>5, QuietStatus
<1>16. CASE WatchdogStatus
  <2>1. PICK ok \in BOOLEAN : Terminal("finished", arg["w"], ok)
    BY <1>16 DEF WatchdogStatus
  <2>2. /\ UNCHANGED <<sealer, card, closed, finalize, arg>>
        /\ \A p \in Procs \ {"w"} : pc'[p] = pc[p]
        /\ pc'["w"] \in {"idle"}
    BY <1>0, <1>16 DEF WatchdogStatus
  <2>3. sealer = "watchdog" /\ StatusDue
    BY <1>16 DEF WatchdogStatus, IInv, SealerOwes, WatchdogOwes, StatusDue
  <2>4. ~StatusDue' /\ \A p \in Procs : InUpdate(p)' => InUpdate(p)
    <3>1. pc["a"] = "abortStatus" => sealer = "abort"
      BY DEF IInv, SealerOwes, AbortOwes
    <3>2. pc["w"] = "wdStatus" => sealer = "watchdog"
      BY DEF IInv, SealerOwes, WatchdogOwes
    <3>3. pc["h"] = "finishStatus" => sealer = "finish"
      BY DEF IInv, SealerOwes, FinishOwes
    <3>4. pc["h"] = "failStatus" => sealer = "fail"
      BY DEF IInv, SealerOwes, FailOwes
    <3> QED
      BY <1>0, <2>2, <2>3, <3>1, <3>2, <3>3, <3>4 DEF StatusDue, InUpdate
  <2>5. /\ arg["w"] = arg[SealerProc]
        /\ "finished" = IF sealer \in {"finish", "watchdog"} THEN "finished" ELSE "failed"
    BY <2>3 DEF SealerProc
  <2> QED
    BY <1>0, <2>1, <2>2, <2>3, <2>4, <2>5, QuietStatus
<1>17. CASE FinishRest \/ WatchdogFires \/ \E from, to \in Labels : Fallback(from, to) /\ to \in {"returned", "rest"}
  <2>1. UNCHANGED <<quiet, server, terminals, sealer, card, closed, finalize, arg>>
    BY <1>17 DEF FinishRest, WatchdogFires, Fallback
  <2>2. \E p \in Procs, l \in {"returned", "rest", "lock"} : pc' = [pc EXCEPT ![p] = l]
    BY <1>0, <1>17 DEF FinishRest, WatchdogFires, Fallback
  <2>3. \A p \in Procs : InUpdate(p)' => InUpdate(p)
    BY <1>0, <2>2 DEF InUpdate
  <2>4. StatusDue' => StatusDue
    BY <1>0, <2>2 DEF StatusDue
  <2> QED
    BY <2>1, <2>3, <2>4, QuietSame
<1>18. CASE Cancel \/ OtherReplies \/ UNCHANGED vars
  <2>1. UNCHANGED <<quiet, server, terminals, sealer, card, closed, finalize, arg, pc>>
    BY <1>18 DEF Cancel, OtherReplies, vars
  <2> QED
    BY <2>1, QuietSame DEF InUpdate, StatusDue
<1>19. ASSUME FinishSteps PROVE QuietInv'
  BY <1>13, <1>17, <1>19 DEF FinishSteps, Labels
<1> QED
  BY <1>1, <1>2, <1>3, <1>4, <1>5, <1>6, <1>7, <1>8, <1>9, <1>10, <1>11, <1>12, <1>14, <1>15, <1>16,
     <1>17, <1>18, <1>19 DEF Next, CloseSteps
-----------------------------------------------------------------------------
(* All of it together. *)
WholeInv ==
    /\ IInv /\ Flags /\ Control /\ Payload /\ Untouched /\ Deltas /\ Delivery /\ QuietInv

LEMMA InitWhole == Init => WholeInv
<1> SUFFICES ASSUME Init PROVE WholeInv
  OBVIOUS
<1>1. IInv
  BY InitIInv
<1>2. Flags
  BY DEF Init, Flags
<1>3. Control
  BY DEF Init, Control, Labels
<1>4. Payload
  BY DEF Init, Payload, Card
<1>5. Untouched
  BY DEF Init, Untouched
<1>6. Deltas
  BY DEF Init, Deltas
<1>7. Delivery /\ QuietInv
  BY DEF Init, Delivery, QuietInv
<1> QED
  BY <1>1, <1>2, <1>3, <1>4, <1>5, <1>6, <1>7 DEF WholeInv

(* The whole invariant holds in every reachable state. *)
THEOREM Whole == Spec => []WholeInv
<1>1. WholeInv /\ [Next]_vars => WholeInv'
  BY StepIInv, FlagsKept, ControlKept, PayloadKept, UntouchedKept, DeltasKept, DeliveryKept, QuietKept
     DEF WholeInv
<1> QED
  BY <1>1, InitWhole, PTL DEF Spec

(* For any deltas and any updates in flight, a delta that no update has     *)
(* picked up has a flush armed while the streamer is open; types are kept.  *)
THEOREM NoDeltaForgotten == Spec => []EveryDeltaScheduled
<1>1. WholeInv => EveryDeltaScheduled
  <2> SUFFICES ASSUME WholeInv PROVE EveryDeltaScheduled
    OBVIOUS
  <2>1. lastUpdate \in 0 .. appends /\ terminals \in Nat
    BY DEF WholeInv, Deltas, IInv, SealType
  <2>2. TypeOK
    BY <2>1 DEF WholeInv, Flags, Control, Payload, Card, TypeOK
  <2> QED
    BY <2>2 DEF WholeInv, Deltas, EveryDeltaScheduled
<1> QED
  BY <1>1, Whole, PTL

(* A close that met no update in flight and whose calls succeeded leaves    *)
(* the closer's text and status on the card, whatever flush or watchdog     *)
(* fires afterwards.                                                        *)
THEOREM QuietCloseStays == Spec => []QuietCloseIsFinal
<1>1. WholeInv => QuietCloseIsFinal
  BY DEF WholeInv, QuietInv, QuietCloseIsFinal
<1> QED
  BY <1>1, Whole, PTL

(* Whatever calls fail, and for any text, frame limit and number of         *)
(* updates in flight: a Finish that closed the streamer and returned nil    *)
(* has had the whole text accepted, on the finished card (which only an     *)
(* update still in flight can have changed since) or, without a card, by    *)
(* the webhook; one that returned an error has offered it to the webhook;   *)
(* unless the cooldown muted it.                                            *)
THEOREM FinishDelivers == Spec => []FinishReachesUser
<1>1. WholeInv => FinishReachesUser
  <2> SUFFICES ASSUME WholeInv, pc["h"] = "returned", sealer = "finish", arg["h"] # <<>>, ~muted
               PROVE  \/ result = "nil" /\ Delivered(arg["h"])
                      \/ result = "err" /\ Offered(arg["h"])
    BY DEF FinishReachesUser
  <2>1. ~Excused
    BY DEF Excused
  <2>2. OnCard /\ RestSent => Delivered(arg["h"])
    BY Zenon DEF OnCard, RestSent, Delivered
  <2>3. ~card /\ <<arg["h"], TRUE>> \in texts => Delivered(arg["h"])
    BY Zenon DEF Delivered
  <2> QED
    BY <2>1, <2>2, <2>3 DEF WholeInv, Delivery
<1> QED
  BY <1>1, Whole, PTL
=============================================================================
