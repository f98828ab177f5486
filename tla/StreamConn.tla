----------------------------- MODULE StreamConn -----------------------------
(***************************************************************************)
(* stream.go: the Run goroutine (dial, read loop, keep-alive, back-off),   *)
(* the reader goroutine of every connection, a caller of Close, and the    *)
(* gateway, which is external: it accepts or refuses a dial, sends frames, *)
(* answers pings and drops connections as it likes.                        *)
(* Durations are not modelled: a timer may fire whenever it is waited for. *)
(***************************************************************************)
EXTENDS Integers, Sequences, FiniteSetsExt

CONSTANTS
    MaxConns,     \* bound on the connections the gateway accepts
    MaxFrames,    \* bound on the frames read
    MaxRounds,    \* bound on the back-off rounds
    Cap,          \* capacity of readCh (8 in the code)
    ReconnectEnabled   \* cfg.reconnectEnabled()

ASSUME BoundsAssumption ==
    MaxConns \in Nat /\ MaxFrames \in Nat /\ MaxRounds \in Nat /\ Cap \in Nat \ {0}

Conns == 1 .. MaxConns

VARIABLES
    run,          \* where Run is
    cur,          \* the connection it dialled last, 0 before the first
    conn,         \* s.conn, 0 for nil
    closed,       \* s.closed
    stopCh,       \* stopCh is closed
    ctxDone,      \* the context of Run is cancelled
    closing,      \* Close: "idle", "marked", "stopped", "done"
    captured,     \* the connection Close saw, 0 for nil
    up,           \* up[c]: "none", "up", "down"
    asyncClose,   \* connections with a pending go conn.Close()
    reader,       \* reader[c]: "none", "read", "push", "done"
    holding,      \* holding[c]: the frame the reader has still to push
    readCh, errCh, pongCh,   \* the channels of readLoop, per connection
    attempt, connectedOnce, delay,
    frames,       \* frames read so far
    failures      \* history: back-offs begun since a connection was last established

connvars  == <<up, asyncClose>>
readvars  == <<reader, holding, readCh, errCh, pongCh, frames>>
stopvars  == <<closed, stopCh, ctxDone, closing, captured>>
retryvars == <<attempt, connectedOnce, delay, failures>>
vars == <<run, cur, conn, stopvars, connvars, readvars, retryvars>>
-----------------------------------------------------------------------------
(* Back-off.  A time.Duration is an int64; it is written here as the set of *)
(* its bits, since 2^63 is beyond TLC's integers.                           *)
Width == 64
Second == {9, 11, 14, 15, 17, 19, 20, 23, 24, 25, 27, 28, 29}    \* 10^9 ns
DefaultReconnectBase == Second
DefaultReconnectMax ==                                           \* 30 * 10^9 ns
    {10, 11, 13, 15, 16, 17, 21, 26, 27, 28, 29, 30, 31, 33, 34}

Negative(d) == (Width - 1) \in d
Shift(d, n) == {b + n : b \in d} \cap 0 .. Width - 1

(* d > e for two durations of which e is not negative *)
Greater(d, e) ==
    LET diff == (d \cup e) \ (d \cap e)
    IN  ~Negative(d) /\ diff # {} /\ Max(diff) \in d

(* backoffDelay without its jitter of less than a second *)
backoffDelay(n) ==
    LET d == Shift(DefaultReconnectBase, n)
    IN  IF Greater(d, DefaultReconnectMax) THEN DefaultReconnectMax ELSE d
-----------------------------------------------------------------------------
Init ==
    /\ run = "dial" /\ cur = 0 /\ conn = 0
    /\ closed = FALSE /\ stopCh = FALSE /\ ctxDone = FALSE
    /\ closing = "idle" /\ captured = 0
    /\ up = [c \in Conns |-> "none"] /\ asyncClose = {}
    /\ reader = [c \in Conns |-> "none"]
    /\ holding = [c \in Conns |-> "none"]
    /\ readCh = [c \in Conns |-> <<>>]
    /\ errCh = [c \in Conns |-> FALSE]
    /\ pongCh = [c \in Conns |-> FALSE]
    /\ attempt = 0 /\ connectedOnce = FALSE /\ delay = {} /\ frames = 0 /\ failures = 0

Down(c) == up' = [up EXCEPT ![c] = "down"]

(* external: open and DialContext succeed *)
DialOK ==
    /\ run = "dial" /\ cur < MaxConns
    /\ cur' = cur + 1
    /\ up' = [up EXCEPT ![cur + 1] = "up"]
    /\ run' = "dialed"
    /\ UNCHANGED <<conn, stopvars, asyncClose, readvars, retryvars>>

(* external: open or DialContext fails, or the context is cancelled *)
DialFail ==
    /\ run = "dial"
    /\ run' = "decide"
    /\ UNCHANGED <<cur, conn, stopvars, connvars, readvars, retryvars>>

(* runOnce after the dial, under s.mu: a connection that was dialled while  *)
(* Close ran is closed at once, any other becomes s.conn and is read.       *)
Register ==
    /\ run = "dialed"
    /\ \/ /\ closed
          /\ Down(cur) /\ run' = "decide"
          /\ UNCHANGED <<conn, reader, connectedOnce, failures>>
       \/ /\ ~closed
          /\ conn' = cur
          /\ run' = "loop" /\ connectedOnce' = TRUE /\ failures' = 0
          /\ reader' = [reader EXCEPT ![cur] = "read"]
          /\ UNCHANGED up
    /\ UNCHANGED <<cur, stopvars, asyncClose, holding, readCh, errCh, pongCh, attempt, delay,
                   frames>>
-----------------------------------------------------------------------------
(* external: a text frame arrives and the reader goes on to push it *)
ReadFrame(c, kind) ==
    /\ reader[c] = "read" /\ up[c] = "up" /\ frames < MaxFrames
    /\ frames' = frames + 1
    /\ reader' = [reader EXCEPT ![c] = "push"]
    /\ holding' = [holding EXCEPT ![c] = kind]
    /\ UNCHANGED <<run, cur, conn, stopvars, connvars, readCh, errCh, pongCh, retryvars>>

(* external: a pong arrives; its handler runs in ReadMessage and drops it   *)
(* when pongCh is full                                                      *)
ReadPong(c) ==
    /\ reader[c] = "read" /\ up[c] = "up"
    /\ pongCh' = [pongCh EXCEPT ![c] = TRUE]
    /\ UNCHANGED <<run, cur, conn, stopvars, connvars, reader, holding, readCh, errCh, frames,
                   retryvars>>

(* Faulty variant: errCh has no buffer, so that somebody must receive. *)
ReadErrorUnbuffered(c) ==
    /\ reader[c] = "read" /\ up[c] = "down" /\ cur = c /\ run = "loop"
    /\ errCh' = [errCh EXCEPT ![c] = TRUE]
    /\ reader' = [reader EXCEPT ![c] = "done"]
    /\ UNCHANGED <<run, cur, conn, stopvars, connvars, holding, readCh, pongCh, frames,
                   retryvars>>

(* ReadMessage fails on a closed connection; errCh has room for one error. *)
ReadError(c) ==
    /\ reader[c] = "read" /\ up[c] = "down"
    /\ errCh' = [errCh EXCEPT ![c] = TRUE]
    /\ reader' = [reader EXCEPT ![c] = "done"]
    /\ UNCHANGED <<run, cur, conn, stopvars, connvars, holding, readCh, pongCh, frames,
                   retryvars>>

(* readCh <- data blocks while the channel is full. *)
PushFrame(c) ==
    /\ reader[c] = "push" /\ Len(readCh[c]) < Cap
    /\ readCh' = [readCh EXCEPT ![c] = Append(@, holding[c])]
    /\ reader' = [reader EXCEPT ![c] = "read"]
    /\ holding' = [holding EXCEPT ![c] = "none"]
    /\ UNCHANGED <<run, cur, conn, stopvars, connvars, errCh, pongCh, frames, retryvars>>
-----------------------------------------------------------------------------
(* readLoop, case readCh: handleFrame answers, and on SYSTEM/disconnect     *)
(* closes this connection from a goroutine of its own.  What a business     *)
(* frame starts is SafetyPipeline's.  Write errors are ignored.             *)
HandleFrame ==
    /\ run = "loop" /\ readCh[cur] # <<>>
    /\ readCh' = [readCh EXCEPT ![cur] = Tail(@)]
    /\ asyncClose' = IF Head(readCh[cur]) = "disconnect" THEN asyncClose \cup {cur} ELSE asyncClose
    /\ UNCHANGED <<run, cur, conn, stopvars, up, reader, holding, errCh, pongCh, frames,
                   retryvars>>

AsyncClose(c) ==
    /\ c \in asyncClose
    /\ asyncClose' = asyncClose \ {c}
    /\ Down(c)
    /\ UNCHANGED <<run, cur, conn, stopvars, readvars, retryvars>>

(* readLoop, the other cases: an error, the keep-alive ping, a stop. *)
LoopError ==
    /\ run \in {"loop", "pong"} /\ errCh[cur]
    /\ errCh' = [errCh EXCEPT ![cur] = FALSE]
    /\ run' = "cleanup"
    /\ UNCHANGED <<cur, conn, stopvars, connvars, reader, holding, readCh, pongCh, frames,
                   retryvars>>

(* the idle timer; WriteControl fails on a closed connection, or on its own *)
Ping ==
    /\ run = "loop"
    /\ run' \in IF up[cur] = "up" THEN {"pong", "cleanup"} ELSE {"cleanup"}
    /\ UNCHANGED <<cur, conn, stopvars, connvars, readvars, retryvars>>

Pong ==
    /\ run = "pong" /\ pongCh[cur]
    /\ pongCh' = [pongCh EXCEPT ![cur] = FALSE]
    /\ run' = "loop"
    /\ UNCHANGED <<cur, conn, stopvars, connvars, reader, holding, readCh, errCh, frames,
                   retryvars>>

(* Faulty variant: the wait for the pong has no timeout. *)
PongTimeoutMissing == run = "pong" /\ pongCh[cur] /\ UNCHANGED vars

PongTimeout ==
    /\ run = "pong"
    /\ run' = "cleanup"
    /\ UNCHANGED <<cur, conn, stopvars, connvars, readvars, retryvars>>

LoopStop ==
    /\ run = "loop" /\ (stopCh \/ ctxDone)
    /\ run' = "cleanup"
    /\ UNCHANGED <<cur, conn, stopvars, connvars, readvars, retryvars>>

(* Faulty variant: the connection is forgotten but not closed. *)
CleanupForgets ==
    /\ run = "cleanup"
    /\ conn' = 0
    /\ run' = "decide"
    /\ UNCHANGED <<cur, stopvars, connvars, readvars, retryvars>>

(* the deferred function of runOnce *)
Cleanup ==
    /\ run = "cleanup"
    /\ conn' = 0
    /\ Down(cur)
    /\ run' = "decide"
    /\ UNCHANGED <<cur, stopvars, asyncClose, readvars, retryvars>>
-----------------------------------------------------------------------------
Backoff(n) ==
    /\ delay' = backoffDelay(n)
    /\ attempt' = n + 1
    /\ failures' = failures + 1
    /\ run' = "wait"

(* Faulty variant: the count survives a connection that was established. *)
DecideNoReset ==
    /\ run = "decide"
    /\ connectedOnce' = FALSE
    /\ \/ /\ closed \/ ctxDone \/ ~ReconnectEnabled
          /\ run' = "returned"
          /\ UNCHANGED <<attempt, delay, failures>>
       \/ /\ ~closed /\ ~ctxDone /\ ReconnectEnabled
          /\ Backoff(attempt)
    /\ UNCHANGED <<cur, conn, stopvars, connvars, readvars>>

(* Run after runOnce: reset the count if a connection was established, then *)
(* return or back off.                                                      *)
Decide ==
    LET n == IF connectedOnce THEN 0 ELSE attempt
    IN  /\ run = "decide"
        /\ connectedOnce' = FALSE
        /\ \/ /\ closed \/ ctxDone \/ ~ReconnectEnabled
              /\ run' = "returned" /\ attempt' = n
              /\ UNCHANGED <<delay, failures>>
           \/ /\ ~closed /\ ~ctxDone /\ ReconnectEnabled
              /\ Backoff(n)
        /\ UNCHANGED <<cur, conn, stopvars, connvars, readvars>>

WaitOver ==
    /\ run = "wait" /\ failures < MaxRounds
    /\ run' = "dial"
    /\ UNCHANGED <<cur, conn, stopvars, connvars, readvars, retryvars>>

WaitStop ==
    /\ run = "wait" /\ (stopCh \/ ctxDone)
    /\ run' = "returned"
    /\ UNCHANGED <<cur, conn, stopvars, connvars, readvars, retryvars>>
-----------------------------------------------------------------------------
(* Close: mark under s.mu, close stopCh, close the connection it saw.  A    *)
(* second caller does nothing (stopOnce).                                   *)
CloseMark ==
    /\ closing = "idle"
    /\ closed' = TRUE /\ captured' = conn /\ closing' = "marked"
    /\ UNCHANGED <<run, cur, conn, stopCh, ctxDone, connvars, readvars, retryvars>>

CloseStop ==
    /\ closing = "marked"
    /\ stopCh' = TRUE /\ closing' = "stopped"
    /\ UNCHANGED <<run, cur, conn, closed, ctxDone, captured, connvars, readvars, retryvars>>

CloseConn ==
    /\ closing = "stopped"
    /\ closing' = "done"
    /\ up' = IF captured = 0 THEN up ELSE [up EXCEPT ![captured] = "down"]
    /\ UNCHANGED <<run, cur, conn, closed, stopCh, ctxDone, captured, asyncClose, readvars,
                   retryvars>>

(* external: the application cancels the context *)
Cancel ==
    /\ ~ctxDone
    /\ ctxDone' = TRUE
    /\ UNCHANGED <<run, cur, conn, closed, stopCh, closing, captured, connvars, readvars,
                   retryvars>>

(* external: the gateway or the network drops the connection *)
Drop(c) ==
    /\ up[c] = "up"
    /\ Down(c)
    /\ UNCHANGED <<run, cur, conn, stopvars, asyncClose, readvars, retryvars>>
-----------------------------------------------------------------------------
RunStep ==
    \/ DialOK \/ DialFail \/ Register
    \/ HandleFrame \/ LoopError \/ LoopStop \/ Ping \/ Pong \/ PongTimeout
    \/ Cleanup \/ Decide \/ WaitOver \/ WaitStop

Next ==
    \/ RunStep
    \/ \E c \in Conns : \/ \E kind \in {"biz", "disconnect"} : ReadFrame(c, kind)
                        \/ ReadPong(c) \/ ReadError(c) \/ PushFrame(c)
                        \/ AsyncClose(c) \/ Drop(c)
    \/ CloseMark \/ CloseStop \/ CloseConn
    \/ Cancel

Spec == Init /\ [][Next]_vars

(* The goroutines run and the timers fire.  A select with several ready     *)
(* cases chooses at random, so a case that is ready again and again is      *)
(* taken in the end (strong fairness on the stop case and the error case).  *)
(* Nothing obliges the gateway to send, nor anybody to close or cancel.     *)
Fairness ==
    /\ WF_vars(RunStep) /\ SF_vars(LoopStop) /\ SF_vars(WaitStop) /\ SF_vars(LoopError)
    /\ \A c \in Conns : WF_vars(ReadError(c)) /\ WF_vars(PushFrame(c)) /\ WF_vars(AsyncClose(c))
    /\ WF_vars(CloseStop) /\ WF_vars(CloseConn)

FairSpec == Spec /\ Fairness
-----------------------------------------------------------------------------
TypeOK ==
    /\ run \in {"dial", "dialed", "loop", "pong", "cleanup", "decide", "wait", "returned"}
    /\ cur \in 0 .. MaxConns /\ conn \in 0 .. MaxConns /\ captured \in 0 .. MaxConns
    /\ closed \in BOOLEAN /\ stopCh \in BOOLEAN /\ ctxDone \in BOOLEAN
    /\ closing \in {"idle", "marked", "stopped", "done"}
    /\ up \in [Conns -> {"none", "up", "down"}]
    /\ asyncClose \subseteq Conns
    /\ reader \in [Conns -> {"none", "read", "push", "done"}]
    /\ holding \in [Conns -> {"none", "biz", "disconnect"}]
    /\ \A c \in Conns : Len(readCh[c]) <= Cap
    /\ delay \subseteq 0 .. Width - 1
    /\ attempt \in Nat /\ failures \in Nat /\ frames \in 0 .. MaxFrames

(* When Run has returned no connection is left open, whatever Close, the    *)
(* dial in progress and the cleanup did to each other; and while it runs    *)
(* there is never a second open connection beside the last one dialled.     *)
NoConnectionLeftOpen ==
    \A c \in Conns : up[c] = "up" => c = cur /\ run # "returned"

(* The back-off exponent counts the failures since a connection was last    *)
(* established ("reset on a successful reconnect"), also when the connection *)
(* breaks at once.                                                          *)
BackoffCountsFailures == TypeOK /\ (run \in {"wait", "dial", "dialed"} => attempt = failures)

CloseStopsRun == (closing = "done") ~> (run = "returned")

DeadConnectionNoticed ==
    \A c \in Conns : (cur = c /\ run \in {"loop", "pong"} /\ up[c] = "down")
                        ~> ~(cur = c /\ run \in {"loop", "pong"})

(* Run is never stuck.  After Close it returns; and a connection that is    *)
(* gone is noticed: the reader's error, a failed ping or the pong timeout   *)
(* takes it out of its read loop, also when the reader is blocked on a full *)
(* readCh and reports nothing.                                              *)
RunNeverStuck == CloseStopsRun /\ DeadConnectionNoticed

(* The reader goroutine of a closed connection ends, unless it is blocked   *)
(* on a readCh that is full and that nobody reads any more.                 *)
ReaderEndsUnlessFull ==
    \A c \in Conns : (up[c] = "down")
                        ~> (reader[c] \in {"none", "done"} \/ Len(readCh[c]) = Cap)

(* backoffDelay is documented as 1s to 30s: the delay before a reconnect is *)
(* never shorter than the base.                                             *)
BackoffAtLeastBase ==
    run = "wait" => delay = DefaultReconnectBase \/ Greater(delay, DefaultReconnectBase)
=============================================================================
