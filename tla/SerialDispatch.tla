--------------------------- MODULE SerialDispatch ---------------------------
(***************************************************************************)
(* What a per-chat queue promises, without its buffer, timers, channel and *)
(* goroutines: messages are handed to the handler in the order in which    *)
(* they were accepted, none skipped and none twice, in batches of          *)
(* consecutive messages, one handler call at a time; and a task submitted  *)
(* with Run starts only after every message accepted before the call.      *)
(***************************************************************************)
EXTENDS Naturals, Sequences

CONSTANTS Msgs, Runs

VARIABLES
    log,      \* messages in the order they were accepted
    served,   \* how many of them have been handled
    active,   \* the batch in the handler, <<>> when there is none
    run,      \* run[r]: "idle", "called", "active" or "done"
    due       \* due[r]: Len(log) when r was called

dvars == <<log, served, active, run, due>>

Idle == active = <<>> /\ \A r \in Runs : run[r] # "active"

DInit ==
    /\ log = <<>>
    /\ served = 0
    /\ active = <<>>
    /\ run = [r \in Runs |-> "idle"]
    /\ due = [r \in Runs |-> 0]

Accept(m) ==
    /\ log' = Append(log, m)
    /\ UNCHANGED <<served, active, run, due>>

BeginBatch(n) ==
    /\ Idle
    /\ active' = SubSeq(log, served + 1, served + n)
    /\ UNCHANGED <<log, served, run, due>>

EndBatch ==
    /\ active # <<>>
    /\ served' = served + Len(active)
    /\ active' = <<>>
    /\ UNCHANGED <<log, run, due>>

Call(r) ==
    /\ run[r] = "idle"
    /\ run' = [run EXCEPT ![r] = "called"]
    /\ due' = [due EXCEPT ![r] = Len(log)]
    /\ UNCHANGED <<log, served, active>>

BeginRun(r) ==
    /\ Idle
    /\ run[r] = "called"
    /\ due[r] <= served
    /\ run' = [run EXCEPT ![r] = "active"]
    /\ UNCHANGED <<log, served, active, due>>

EndRun(r) ==
    /\ run[r] = "active"
    /\ run' = [run EXCEPT ![r] = "done"]
    /\ UNCHANGED <<log, served, active, due>>

DNext ==
    \/ \E m \in Msgs : Accept(m)
    \/ \E n \in 1 .. Len(log) - served : BeginBatch(n)
    \/ EndBatch
    \/ \E r \in Runs : Call(r) \/ BeginRun(r) \/ EndRun(r)

DSpec == DInit /\ [][DNext]_dvars
=============================================================================
