-------------------------- MODULE StreamConnProofs --------------------------
(***************************************************************************)
(* No connection outlives Run, and the back-off counts failures, for any   *)
(* number of connections, frames and rounds and any capacity of readCh.    *)
(* NoConnectionLeftOpen is not inductive: it allows an open connection     *)
(* while Run decides or waits, which Run would then leave behind.          *)
(* OpenIsHeld says where Run may be when a connection is open: between the *)
(* dial and the end of its cleanup.  BackoffCountsFailures says nothing of *)
(* the moments in which the count is yet to be reset; CountAhead does.     *)
(***************************************************************************)
EXTENDS StreamConn, TLAPS

Frames == {"none", "biz", "disconnect"}

(* Run has a connection, from the dial to the cleanup *)
HasConn == run \in {"dialed", "loop", "pong", "cleanup"}

ChannelTypes ==
    /\ readCh \in [Conns -> Seq(Frames)]
    /\ errCh \in [Conns -> BOOLEAN] /\ pongCh \in [Conns -> BOOLEAN]
    /\ connectedOnce \in BOOLEAN

OpenIsHeld ==
    /\ HasConn => cur \in Conns
    /\ \A c \in Conns : up[c] = "up" => c = cur /\ HasConn

(* what attempt is, or will be once Run has seen that it was connected *)
CountAhead ==
    /\ run \in {"wait", "dial", "dialed"} => attempt = failures /\ ~connectedOnce
    /\ run \in {"loop", "pong", "cleanup"} => connectedOnce /\ failures = 0
    /\ run = "decide" => failures = IF connectedOnce THEN 0 ELSE attempt

IInv == TypeOK /\ ChannelTypes /\ OpenIsHeld /\ CountAhead

(* The delay of a back-off is an int64. *)
LEMMA BackoffDelayType == \A n : backoffDelay(n) \subseteq 0 .. Width - 1
  BY DEF backoffDelay, Shift, DefaultReconnectMax, Width

(* Before the first dial there is no connection and no failure. *)
LEMMA InitIInv == Init => IInv
<1> SUFFICES ASSUME Init PROVE IInv
  OBVIOUS
<1> USE BoundsAssumption DEF Init
<1>1. TypeOK
  <2>1. \A c \in Conns : Len(readCh[c]) <= Cap
    OBVIOUS
  <2>2. cur \in 0 .. MaxConns /\ conn \in 0 .. MaxConns /\ captured \in 0 .. MaxConns
    OBVIOUS
  <2>3. /\ asyncClose \subseteq Conns /\ delay \subseteq 0 .. Width - 1
        /\ attempt \in Nat /\ failures \in Nat /\ frames \in 0 .. MaxFrames
    OBVIOUS
  <2>4. /\ up \in [Conns -> {"none", "up", "down"}]
        /\ reader \in [Conns -> {"none", "read", "push", "done"}]
        /\ holding \in [Conns -> {"none", "biz", "disconnect"}]
    OBVIOUS
  <2> QED
    BY <2>1, <2>2, <2>3, <2>4 DEF TypeOK
<1>2. ChannelTypes
  <2>1. <<>> \in Seq(Frames)
    OBVIOUS
  <2> QED
    BY <2>1 DEF ChannelTypes
<1>3. OpenIsHeld /\ CountAhead
  BY DEF OpenIsHeld, CountAhead, HasConn
<1> QED
  BY <1>1, <1>2, <1>3 DEF IInv

(* Dialling: a new connection is opened only when none is open. *)
LEMMA DialIInv == IInv /\ (DialOK \/ DialFail \/ Register) => IInv'
<1> USE BoundsAssumption DEF IInv, stopvars, connvars, readvars, retryvars
<1>1. ASSUME IInv, DialOK PROVE IInv'
  <2>1. cur + 1 \in Conns /\ cur' = cur + 1 /\ cur' \in 0 .. MaxConns
    BY <1>1 DEF DialOK, TypeOK, Conns
  <2>2. TypeOK' /\ ChannelTypes'
    BY <1>1, <2>1 DEF DialOK, TypeOK, ChannelTypes
  <2>3. OpenIsHeld'
    BY <1>1, <2>1 DEF DialOK, TypeOK, OpenIsHeld, HasConn
  <2>4. CountAhead'
    BY <1>1 DEF DialOK, CountAhead
  <2> QED
    BY <2>2, <2>3, <2>4
<1>2. ASSUME IInv, DialFail PROVE IInv'
  BY <1>2 DEF DialFail, TypeOK, ChannelTypes, OpenIsHeld, CountAhead, HasConn
<1>3. ASSUME IInv, Register PROVE IInv'
  <2>0. TypeOK'
    BY <1>3 DEF Register, Down, TypeOK
  <2>1. ChannelTypes'
    BY <1>3 DEF Register, ChannelTypes
  <2>2. OpenIsHeld'
    BY <1>3 DEF Register, Down, TypeOK, OpenIsHeld, HasConn
  <2>3. CountAhead'
    BY <1>3 DEF Register, TypeOK, CountAhead
  <2> QED
    BY <2>0, <2>1, <2>2, <2>3
<1> QED
  BY <1>1, <1>2, <1>3

(* Readers move frames and errors; none opens or closes a connection.      *)
LEMMA ReaderIInv ==
  ASSUME IInv, NEW c \in Conns,
         (\E kind \in {"biz", "disconnect"} : ReadFrame(c, kind))
            \/ ReadPong(c) \/ ReadError(c) \/ PushFrame(c)
  PROVE  IInv'
<1> USE BoundsAssumption DEF IInv, stopvars, connvars, readvars, retryvars, HasConn, Frames
<1>1. ASSUME NEW kind \in {"biz", "disconnect"}, ReadFrame(c, kind) PROVE IInv'
  BY <1>1 DEF ReadFrame, TypeOK, ChannelTypes, OpenIsHeld, CountAhead
<1>2. ASSUME ReadPong(c) \/ ReadError(c) PROVE IInv'
  <2>1. TypeOK'
    BY <1>2 DEF ReadPong, ReadError, TypeOK
  <2>2. ChannelTypes'
    BY <1>2 DEF ReadPong, ReadError, ChannelTypes
  <2>3. OpenIsHeld' /\ CountAhead'
    BY <1>2 DEF ReadPong, ReadError, OpenIsHeld, CountAhead
  <2> QED
    BY <2>1, <2>2, <2>3
<1>3. ASSUME PushFrame(c) PROVE IInv'
  <2>1. readCh'[c] = Append(readCh[c], holding[c]) /\ Len(readCh'[c]) <= Cap
    BY <1>3 DEF PushFrame, TypeOK, ChannelTypes
  <2>2. ChannelTypes'
    BY <1>3 DEF PushFrame, TypeOK, ChannelTypes
  <2>3. TypeOK'
    BY <1>3, <2>1 DEF PushFrame, TypeOK, ChannelTypes
  <2>4. OpenIsHeld' /\ CountAhead'
    BY <1>3 DEF PushFrame, OpenIsHeld, CountAhead
  <2> QED
    BY <2>2, <2>3, <2>4
<1> QED
  BY <1>1, <1>2, <1>3

(* The read loop keeps its connection until Cleanup closes it.             *)
LEMMA LoopIInv ==
  IInv /\ (HandleFrame \/ LoopError \/ LoopStop \/ Ping \/ Pong \/ PongTimeout \/ Cleanup)
    => IInv'
<1> USE BoundsAssumption DEF IInv, stopvars, connvars, readvars, retryvars, HasConn
<1>1. ASSUME IInv, HandleFrame PROVE IInv'
  <2>1. cur \in Conns
    BY <1>1 DEF HandleFrame, OpenIsHeld
  <2>2. /\ Tail(readCh[cur]) \in Seq(Frames)
        /\ Len(Tail(readCh[cur])) <= Cap
    BY <1>1, <2>1 DEF HandleFrame, TypeOK, ChannelTypes
  <2>3. ChannelTypes'
    BY <1>1, <2>1, <2>2 DEF HandleFrame, ChannelTypes
  <2>4. TypeOK'
    BY <1>1, <2>1, <2>2 DEF HandleFrame, TypeOK, ChannelTypes
  <2>5. OpenIsHeld' /\ CountAhead'
    BY <1>1 DEF HandleFrame, OpenIsHeld, CountAhead
  <2> QED
    BY <2>3, <2>4, <2>5
<1>2. ASSUME IInv, LoopError \/ Pong PROVE IInv'
  BY <1>2 DEF LoopError, Pong, TypeOK, ChannelTypes, OpenIsHeld, CountAhead
<1>3. ASSUME IInv, LoopStop \/ Ping \/ PongTimeout PROVE IInv'
  BY <1>3 DEF LoopStop, Ping, PongTimeout, TypeOK, ChannelTypes, OpenIsHeld, CountAhead
<1>4. ASSUME IInv, Cleanup PROVE IInv'
  BY <1>4 DEF Cleanup, Down, TypeOK, ChannelTypes, OpenIsHeld, CountAhead
<1> QED
  BY <1>1, <1>2, <1>3, <1>4

(* The count is reset where a connection had been established.             *)
LEMMA RetryIInv == IInv /\ (Decide \/ WaitOver \/ WaitStop) => IInv'
<1> USE BoundsAssumption DEF IInv, stopvars, connvars, readvars, retryvars, HasConn
<1>1. ASSUME IInv, Decide PROVE IInv'
  <2>1. CASE closed \/ ctxDone \/ ~ReconnectEnabled
    BY <1>1, <2>1 DEF Decide, Backoff, TypeOK, ChannelTypes, OpenIsHeld, CountAhead
  <2>2. CASE ~(closed \/ ctxDone \/ ~ReconnectEnabled)
    <3>1. /\ delay' \subseteq 0 .. Width - 1
          /\ attempt' = (IF connectedOnce THEN 0 ELSE attempt) + 1
          /\ failures' = failures + 1 /\ run' = "wait" /\ connectedOnce' = FALSE
          /\ run = "decide" /\ UNCHANGED <<cur, conn, stopvars, connvars, readvars>>
      BY <1>1, <2>2, BackoffDelayType DEF Decide, Backoff
    <3>2. attempt' \in Nat /\ failures' \in Nat
      BY <1>1, <3>1 DEF TypeOK
    <3>3. TypeOK'
      BY <1>1, <3>1, <3>2 DEF TypeOK
    <3>4. ChannelTypes'
      BY <1>1, <3>1 DEF ChannelTypes
    <3>5. OpenIsHeld'
      BY <1>1, <3>1 DEF OpenIsHeld
    <3>6. CountAhead'
      BY <1>1, <3>1 DEF CountAhead, TypeOK
    <3> QED
      BY <3>3, <3>4, <3>5, <3>6
  <2> QED
    BY <2>1, <2>2
<1>2. ASSUME IInv, WaitOver \/ WaitStop PROVE IInv'
  <2>1. TypeOK' /\ ChannelTypes'
    BY <1>2 DEF WaitOver, WaitStop, TypeOK, ChannelTypes
  <2>2. OpenIsHeld' /\ CountAhead'
    BY <1>2 DEF WaitOver, WaitStop, OpenIsHeld, CountAhead
  <2> QED
    BY <2>1, <2>2
<1> QED
  BY <1>1, <1>2

(* Whoever else closes a connection only takes it down.                    *)
LEMMA CloserIInv ==
  IInv /\ ((\E c \in Conns : AsyncClose(c) \/ Drop(c)) \/ CloseMark \/ CloseStop \/ CloseConn
              \/ Cancel) => IInv'
<1> USE BoundsAssumption DEF IInv, stopvars, connvars, readvars, retryvars, HasConn
<1>1. ASSUME IInv, NEW c \in Conns, AsyncClose(c) \/ Drop(c) PROVE IInv'
  <2>1. TypeOK'
    BY <1>1 DEF AsyncClose, Drop, Down, TypeOK
  <2>2. ChannelTypes' /\ CountAhead'
    BY <1>1 DEF AsyncClose, Drop, ChannelTypes, CountAhead
  <2>3. OpenIsHeld'
    BY <1>1 DEF AsyncClose, Drop, Down, TypeOK, OpenIsHeld
  <2> QED
    BY <2>1, <2>2, <2>3
<1>2. ASSUME IInv, CloseMark \/ CloseStop \/ Cancel PROVE IInv'
  <2>1. TypeOK'
    BY <1>2 DEF CloseMark, CloseStop, Cancel, TypeOK
  <2>2. ChannelTypes' /\ CountAhead' /\ OpenIsHeld'
    BY <1>2 DEF CloseMark, CloseStop, Cancel, ChannelTypes, CountAhead, OpenIsHeld
  <2> QED
    BY <2>1, <2>2
<1>3. ASSUME IInv, CloseConn PROVE IInv'
  <2>1. TypeOK'
    BY <1>3 DEF CloseConn, TypeOK
  <2>2. ChannelTypes' /\ CountAhead'
    BY <1>3 DEF CloseConn, ChannelTypes, CountAhead
  <2>3. OpenIsHeld'
    BY <1>3 DEF CloseConn, TypeOK, OpenIsHeld
  <2> QED
    BY <2>1, <2>2, <2>3
<1> QED
  BY <1>1, <1>2, <1>3

(* Every step keeps the invariant. *)
LEMMA StepIInv == IInv /\ [Next]_vars => IInv'
<1> SUFFICES ASSUME IInv, [Next]_vars PROVE IInv'
  OBVIOUS
<1>1. CASE RunStep
  BY <1>1, DialIInv, LoopIInv, RetryIInv DEF RunStep
<1>2. ASSUME NEW c \in Conns,
             (\E kind \in {"biz", "disconnect"} : ReadFrame(c, kind))
                \/ ReadPong(c) \/ ReadError(c) \/ PushFrame(c)
      PROVE  IInv'
  BY <1>2, ReaderIInv
<1>3. CASE (\E c \in Conns : AsyncClose(c) \/ Drop(c)) \/ CloseMark \/ CloseStop \/ CloseConn
             \/ Cancel
  BY <1>3, CloserIInv
<1>4. CASE UNCHANGED vars
  BY <1>4 DEF vars, stopvars, connvars, readvars, retryvars, IInv, TypeOK, ChannelTypes,
              OpenIsHeld, CountAhead, HasConn
<1> QED
  BY <1>1, <1>2, <1>3, <1>4 DEF Next

(* The invariant holds throughout. *)
THEOREM Inductive == Spec => []IInv
  BY InitIInv, StepIInv, PTL DEF Spec

(* Whatever Close, the dial in progress, the peer and the cleanup do to     *)
(* each other, at most the connection dialled last is open, and none once   *)
(* Run has returned.                                                        *)
THEOREM NothingLeftOpen == Spec => []NoConnectionLeftOpen
<1>1. IInv => NoConnectionLeftOpen
  BY DEF IInv, OpenIsHeld, HasConn, NoConnectionLeftOpen
<1> QED
  BY Inductive, <1>1, PTL

(* While Run waits or dials, the exponent of the back-off is the number of  *)
(* failures since it was last connected.                                    *)
THEOREM BackoffCorrect == Spec => []BackoffCountsFailures
<1>1. IInv => BackoffCountsFailures
  BY DEF IInv, CountAhead, BackoffCountsFailures
<1> QED
  BY Inductive, <1>1, PTL
=============================================================================
