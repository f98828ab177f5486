---------------------------- MODULE TokenBucket -----------------------------
(***************************************************************************)
(* The token bucket of ratelimit.go as operators.  Time is counted in      *)
(* ticks and kept relative to now, so that a bucket has finitely many      *)
(* states: age is the time since lastRefill, negative while lastRefill     *)
(* lies ahead, and pause the time until backoffEnd.  Tokens are counted in *)
(* fractions, Unit of them to a token.                                     *)
(***************************************************************************)
EXTENDS Integers

CONSTANTS
    Second,    \* ticks in a second
    Unit,      \* fractions of a token in a whole one
    PerTick,   \* fractions refilled in a tick: the rate is PerTick * Second / Unit
    Backoff    \* defaultQPSBackoff, in ticks

ASSUME BucketAssumption ==
    /\ Second \in Nat \ {0} /\ Unit \in Nat \ {0} /\ PerTick \in Nat \ {0} /\ Backoff \in Nat
    /\ PerTick * Second >= Unit

(* the rate doubles as the capacity *)
Capacity == PerTick * Second

newTokenBucket == [tokens |-> Capacity, age |-> 0, pause |-> 0]

Smaller(x, y) == IF x < y THEN x ELSE y

refill(b) ==
    IF b.age > 0
    THEN [b EXCEPT !.tokens = Smaller(Capacity, b.tokens + b.age * PerTick), !.age = 0]
    ELSE b

Paused(b) == b.pause > 0
HasToken(b) == refill(b).tokens >= Unit

take(b) == [refill(b) EXCEPT !.tokens = @ - Unit]

(* time to the next whole token, rounded up to ticks *)
need(b) == (Unit - refill(b).tokens + PerTick - 1) \div PerTick

(* Faulty variant: the refill clock runs on during the pause. *)
triggerBackoffNow(b) == [tokens |-> 0, age |-> 0, pause |-> Backoff]

triggerBackoff(b) == [tokens |-> 0, age |-> -Backoff, pause |-> Backoff]

(* a tick passes; an age that fills the bucket anyway need not grow *)
Pass(b) == [b EXCEPT !.age = Smaller(Second, @ + 1), !.pause = IF @ > 0 THEN @ - 1 ELSE 0]
=============================================================================
