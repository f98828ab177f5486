--------------------------- MODULE OutboundProofs ---------------------------
(***************************************************************************)
(* Five results about outbound traffic, for any goroutines, texts and      *)
(* jobs, any number of attempts and calls, any bucket and any lifetimes.   *)
(*                                                                         *)
(* No request carries an expired token: TokenInv adds that whoever is      *)
(* about to send holds a live one, which no tick takes away.               *)
(*                                                                         *)
(* Fetches of the identity are spaced: the guard reads two other clocks,   *)
(* the age of the identity and that of the last failure.  IdInv ties both  *)
(* to the time since the last fetch began: a failure is as old as its      *)
(* fetch, an identity no older.                                            *)
(*                                                                         *)
(* The pieces arrive in order, and twice only if an answer was lost:       *)
(* neither property says where a sender stands while the platform has      *)
(* acted and the answer is on its way.  SendInv does: every piece up to    *)
(* the current one has been served, nothing beyond it, and the current one *)
(* only if its success is known to the sender, or its answer was lost.     *)
(*                                                                         *)
(* The rate is bounded: what was granted in a stretch of time says nothing *)
(* of what may still be granted.  RateInv adds the tokens that are left to *)
(* those granted, for every stretch, and keeps the refill clock ahead of a *)
(* pause.                                                                  *)
(*                                                                         *)
(* Chunks are faithful to their text, whatever its length: the loops that  *)
(* cut it are recursive functions, so each has an invariant of its own     *)
(* (CutGood, SplitGood) that is carried from turn to turn by the fact that *)
(* every set of natural numbers has a least element.  TypeInv carries the  *)
(* result to every state, with the types that TypeOK asks.                 *)
(***************************************************************************)
EXTENDS Outbound, SequenceTheorems, FiniteSetTheorems, WellFoundedInduction, TLAPS

Sender(p) == job[p] \in {"reply", "send"}

(* p is about to send a piece, is sending it, or rests between attempts *)
Sending(p) == pc[p] \in {"wait", "asleep", "get", "fetch", "send", "answered", "pause"}

Got(p, k) == \E i \in DOMAIN served : served[i] = <<p, k>>

TokenInv ==
    /\ life \in Nat /\ held \in [Procs -> Nat] /\ DOMAIN pc = Procs
    /\ \A p \in Procs : pc[p] = "send" => held[p] > 0
    /\ ~stale

(* the last fetch failed, or it brought the identity that is known (or one  *)
(* that the interval has passed since)                                      *)
LastFetchDated ==
    \/ failAge = fetchAge
    \/ known /\ idAge <= fetchAge
    \/ fetchAge >= Smaller(TTL, MinRefresh)

IdInv ==
    /\ idAge \in 0 .. TTL /\ failAge \in 0 .. MinRefresh /\ fetchAge \in 0 .. MinRefresh
    /\ known \in BOOLEAN
    /\ idMu = NoProc => LastFetchDated

SendType ==
    /\ index \in [Procs -> Nat] /\ payload \in [Procs -> Nat]
    /\ served \in Seq(Procs \X Nat)
    /\ DOMAIN pc = Procs /\ DOMAIN answer = Procs /\ DOMAIN result = Procs /\ DOMAIN pieces = Procs

(* where a goroutine may stand, and what it is sending then *)
Position(p) ==
    /\ payload[p] = IF Sender(p) THEN index[p] ELSE 0
    /\ pc[p] \in {"cut", "pause"} => Sender(p)
    /\ pc[p] = "slow" => ~Sender(p)
    /\ Sender(p) /\ pc[p] \in {"idle", "cut"} => index[p] = 0
    /\ Sender(p) /\ Sending(p) => index[p] > 0
    /\ result[p] = "nil" => pc[p] = "done" /\ Got(p, pieces[p])

(* the sender of the piece that was served as the i-th is at that piece and *)
(* knows that it succeeded or lost the answer, or has gone on               *)
Accounted(i) ==
    LET p == served[i][1]
        k == served[i][2]
    IN  /\ Sender(p) /\ k > 0 /\ k <= index[p]
        /\ \/ k < index[p] \/ served[i] \in lost \/ pc[p] = "done"
           \/ pc[p] = "answered" /\ answer[p] = "ok"

(* everything before the current piece was served, and the current one if   *)
(* the answer says so                                                       *)
NoGap(p) ==
    Sender(p) => /\ \A k \in 1 .. index[p] - 1 : Got(p, k)
                 /\ pc[p] = "answered" /\ answer[p] = "ok" => Got(p, index[p])

InOrder ==
    /\ \A i \in DOMAIN served :
          served[i][2] > 1 => \E j \in 1 .. i - 1 : served[j] = <<served[i][1], served[i][2] - 1>>
    /\ \A i, j \in DOMAIN served :
          (i < j /\ served[i][1] = served[j][1]) => served[i][2] <= served[j][2]

SendInv ==
    /\ SendType
    /\ \A p \in Procs : Position(p) /\ NoGap(p)
    /\ \A i \in DOMAIN served : Accounted(i)
    /\ InOrder /\ DuplicateOnlyIfLost
-----------------------------------------------------------------------------
(* The client's steps keep a live token in the hands of who sends. *)
LEMMA ClientTokenInv ==
    ASSUME NEW p \in Procs, TokenInv, ClientStep(p) PROVE TokenInv'
<1> USE TokenAssumption DEF TokenInv, Goto, Answer, Sent, tokens, limits, wire
<1>1. CASE WaitFor(p) BY <1>1 DEF WaitFor
<1>2. CASE Wake(p) BY <1>2 DEF Wake
<1>3. CASE GetToken(p) BY <1>3 DEF GetToken
<1>4. CASE Fetched(p) BY <1>4 DEF Fetched
<1>5. ASSUME Sent(p) PROVE ~stale'
  <2>1. held[p] # 0
    BY <1>5
  <2> QED
    BY <1>5, <2>1, Zenon
<1>6. CASE SendAnswered(p)
  <2>1. Sent(p) /\ ~stale'
    BY <1>5, <1>6 DEF SendAnswered
  <2>2. PICK a : Answer(p, a)
    BY <1>6, Zenon DEF SendAnswered
  <2> QED
    BY <2>1, <2>2
<1>7. CASE SendLimited(p)
  <2>1. Sent(p) /\ ~stale'
    BY <1>5, <1>7 DEF SendLimited
  <2> QED
    BY <1>7, <2>1 DEF SendLimited
<1> QED
  BY <1>1, <1>2, <1>3, <1>4, <1>6, <1>7 DEF ClientStep

(* No other step begins to send, and time passes only between requests. *)
LEMMA NextTokenInv == TokenInv /\ [Next]_vars => TokenInv'
<1> SUFFICES ASSUME TokenInv, [Next]_vars PROVE TokenInv'
  OBVIOUS
<1> USE DEF TokenInv, Goto, Begin, Attempt, Done, GiveUp, Answered,
            clientrest, callrest, tokens, limits, wire, callvars
<1>1. CASE UNCHANGED vars BY <1>1 DEF vars
<1>2. CASE Tick BY <1>2 DEF Tick, Elapse
<1>3. ASSUME NEW p \in Procs, Text(p) \/ ProactiveSend(p) \/ CallStart(p) \/ IdentityFast(p)
      PROVE TokenInv'
  BY <1>3 DEF Text, ProactiveSend, CallStart, IdentityFast
<1>4. ASSUME NEW p \in Procs, Client(p) PROVE TokenInv'
  BY <1>4, ClientTokenInv DEF Client
<1>5. ASSUME NEW p \in Procs, SendChunks(p) \/ Delivered(p) \/ Failed(p) \/ Retry(p)
      PROVE TokenInv'
  BY <1>5 DEF SendChunks, Delivered, Failed, Retry
<1>6. ASSUME NEW p \in Procs, CallEnd(p) \/ IdentitySlow(p) \/ IdentityFetched(p)
      PROVE TokenInv'
  BY <1>6 DEF CallEnd, IdentitySlow, IdentityFetched
<1>7. ASSUME NEW p \in Procs, CallerCancels(p) PROVE TokenInv'
  BY <1>7 DEF CallerCancels, Cancel
<1> QED
  BY <1>1, <1>2, <1>3, <1>4, <1>5, <1>6, <1>7 DEF Next, Running

(* tokenProvider.Get refreshes early enough and callRaw drops its token     *)
(* before it waits again: no request goes out with an expired access token, *)
(* whatever lifetimes the platform reports.                                 *)
THEOREM TokensFresh == Spec => []NoStaleToken
<1>1. Init => TokenInv
  BY DEF Init, ClientInit, TokenInv
<1>2. TokenInv => NoStaleToken
  BY DEF TokenInv, NoStaleToken
<1> QED
  BY <1>1, <1>2, NextTokenInv, PTL DEF Spec
-----------------------------------------------------------------------------
(* Time passes for all three ages at once, up to the bound of each. *)
LEMMA TickDated == ASSUME IdInv, Tick PROVE IdInv'
<1> USE OutboundAssumption
<1>1. /\ idAge' = Smaller(TTL, idAge + 1) /\ failAge' = Smaller(MinRefresh, failAge + 1)
      /\ fetchAge' = Smaller(MinRefresh, fetchAge + 1) /\ UNCHANGED <<idMu, known>>
  BY DEF Tick
<1>2. /\ idAge' \in 0 .. TTL /\ failAge' \in 0 .. MinRefresh /\ fetchAge' \in 0 .. MinRefresh
  BY <1>1 DEF IdInv, Smaller
<1>3. idMu = NoProc => LastFetchDated'
  <2> SUFFICES ASSUME idMu = NoProc PROVE LastFetchDated'
    OBVIOUS
  <2>1. CASE failAge = fetchAge
    BY <1>1, <2>1 DEF LastFetchDated
  <2>2. CASE known /\ idAge <= fetchAge
    <3>1. idAge' <= fetchAge' \/ fetchAge' >= Smaller(TTL, MinRefresh)
      BY <1>1, <2>2 DEF IdInv, Smaller
    <3> QED
      BY <1>1, <2>2, <3>1 DEF LastFetchDated
  <2>3. CASE fetchAge >= Smaller(TTL, MinRefresh)
    <3>1. fetchAge' >= Smaller(TTL, MinRefresh)
      BY <1>1, <2>3 DEF IdInv, Smaller
    <3> QED
      BY <3>1 DEF LastFetchDated
  <2> QED
    BY <2>1, <2>2, <2>3 DEF IdInv, LastFetchDated
<1>4. known' \in BOOLEAN
  BY <1>1 DEF IdInv
<1> QED
  BY <1>1, <1>2, <1>3, <1>4 DEF IdInv

(* The invariant of the identity's clocks is kept. *)
LEMMA NextIdInv == ASSUME IdInv, [Next]_vars PROVE IdInv'
<1> USE OutboundAssumption
<1>1. UNCHANGED idvars => IdInv'
  BY DEF IdInv, LastFetchDated, idvars
<1>2. CASE UNCHANGED vars
  BY <1>1, <1>2 DEF vars
<1>3. CASE Tick
  BY <1>3, TickDated
<1>4. ASSUME NEW p \in Procs, Text(p) \/ ProactiveSend(p) \/ CallStart(p) \/ IdentityFast(p)
      PROVE  IdInv'
  BY <1>1, <1>4 DEF Text, ProactiveSend, CallStart, IdentityFast
<1>5. ASSUME NEW p \in Procs, Client(p) \/ CallerCancels(p) PROVE IdInv'
  BY <1>1, <1>5 DEF Client, CallerCancels
<1>6. ASSUME NEW p \in Procs,
             SendChunks(p) \/ Delivered(p) \/ Failed(p) \/ Retry(p) \/ CallEnd(p)
      PROVE  IdInv'
  BY <1>1, <1>6 DEF SendChunks, Delivered, Failed, Retry, CallEnd
<1>7. ASSUME NEW p \in Procs, IdentitySlow(p) PROVE IdInv'
  <2>1. CASE UNCHANGED <<idMu, fetchAge>>
    BY <1>1, <1>7, <2>1 DEF IdentitySlow, idvars
  <2>2. CASE idMu' = p /\ fetchAge' = 0
    <3>1. idMu' # NoProc /\ UNCHANGED <<known, idAge, failAge>>
      BY <1>7, <2>2, ProcsAssumption DEF IdentitySlow
    <3> QED
      BY <2>2, <3>1 DEF IdInv
  <2> QED
    BY <1>7, <2>1, <2>2 DEF IdentitySlow
<1>8. ASSUME NEW p \in Procs, IdentityFetched(p) PROVE IdInv'
  <2>1. fetchAge' = fetchAge
    BY <1>8 DEF IdentityFetched
  <2>2. CASE answer[p] = "ok"
    <3>1. known' = TRUE /\ idAge' = 0 /\ failAge' = MinRefresh
      BY <1>8, <2>2 DEF IdentityFetched
    <3> QED
      BY <2>1, <3>1 DEF IdInv, LastFetchDated
  <2>3. CASE answer[p] # "ok"
    <3>1. failAge' = fetchAge /\ UNCHANGED <<known, idAge>>
      BY <1>8, <2>3 DEF IdentityFetched
    <3> QED
      BY <2>1, <3>1 DEF IdInv, LastFetchDated
  <2> QED
    BY <2>2, <2>3
<1> QED
  BY <1>2, <1>3, <1>4, <1>5, <1>6, <1>7, <1>8 DEF Next, Running

(* A fetch begins with the second look at the cache, under the mutex. *)
LEMMA FetchIsDue ==
    ASSUME [Next]_vars, FetchBegins
    PROVE  ~isCacheFresh /\ ~shouldThrottleRefresh
<1>1. UNCHANGED idMu => FALSE
  BY DEF FetchBegins
<1>2. CASE UNCHANGED vars \/ Tick
  BY <1>1, <1>2 DEF vars, idvars, Tick
<1>3. ASSUME NEW p \in Procs, Text(p) \/ ProactiveSend(p) \/ CallStart(p) \/ IdentityFast(p)
      PROVE  FALSE
  BY <1>1, <1>3 DEF Text, ProactiveSend, CallStart, IdentityFast, idvars
<1>4. ASSUME NEW p \in Procs, Client(p) \/ CallerCancels(p) PROVE FALSE
  BY <1>1, <1>4 DEF Client, CallerCancels, idvars
<1>5. ASSUME NEW p \in Procs,
             SendChunks(p) \/ Delivered(p) \/ Failed(p) \/ Retry(p) \/ CallEnd(p)
      PROVE  FALSE
  BY <1>1, <1>5 DEF SendChunks, Delivered, Failed, Retry, CallEnd, idvars
<1>6. ASSUME NEW p \in Procs, IdentitySlow(p) PROVE ~isCacheFresh /\ ~shouldThrottleRefresh
  BY <1>1, <1>6 DEF IdentitySlow
<1>7. ASSUME NEW p \in Procs, IdentityFetched(p) PROVE FALSE
  BY <1>7 DEF IdentityFetched, FetchBegins
<1> QED
  BY <1>2, <1>3, <1>4, <1>5, <1>6, <1>7 DEF Next, Running

(* botIdentityProvider.Get: for any number of goroutines, any outcomes and  *)
(* any lengths of the fetches, TTL and MinRefreshInterval, no fetch begins  *)
(* within the shorter of the two after the beginning of the last.           *)
THEOREM IdentitySpaced == Spec => FetchesSpaced
<1> USE OutboundAssumption
<1>1. Init => IdInv
  <2> SUFFICES ASSUME Init PROVE IdInv
    OBVIOUS
  <2>1. known \in BOOLEAN
    BY Zenon DEF Init
  <2>2. /\ idAge \in 0 .. TTL /\ failAge \in 0 .. MinRefresh /\ fetchAge \in 0 .. MinRefresh
        /\ failAge = fetchAge
    BY DEF Init
  <2> QED
    BY <2>1, <2>2 DEF IdInv, LastFetchDated
<1>2. IdInv /\ [Next]_vars => IdInv'
  BY NextIdInv
<1>3. IdInv /\ [Next]_vars => [FetchBegins => fetchAge >= Smaller(TTL, MinRefresh)]_vars
  <2> SUFFICES ASSUME IdInv, [Next]_vars, FetchBegins
               PROVE  fetchAge >= Smaller(TTL, MinRefresh)
    OBVIOUS
  <2>1. LastFetchDated /\ idAge \in 0 .. TTL /\ failAge \in 0 .. MinRefresh
        /\ fetchAge \in 0 .. MinRefresh
    BY DEF IdInv, FetchBegins
  <2>2. (known => idAge >= TTL) /\ failAge >= MinRefresh
    BY <2>1, FetchIsDue DEF isCacheFresh, shouldThrottleRefresh
  <2> QED
    BY <2>1, <2>2 DEF LastFetchDated, Smaller
<1> QED
  BY <1>1, <1>2, <1>3, PTL DEF Spec, FetchesSpaced
-----------------------------------------------------------------------------
(* A goroutine that goes on without anything being served, and that does    *)
(* not begin, end or change what it is sending.                             *)
LEMMA QuietSendInv ==
    ASSUME SendInv, NEW p \in Procs,
           NEW l, pc' = [pc EXCEPT ![p] = l],
           DOMAIN answer' = Procs, \A q \in Procs \ {p} : answer'[q] = answer[q],
           UNCHANGED <<job, index, payload, served, lost, result, pieces>>,
           l \in {"cut", "pause"} => Sender(p),
           pc[p] # "done",
           Sender(p) => /\ \/ {pc[p], l} \subseteq {"idle", "cut"}
                           \/ /\ Sending(p)
                              /\ l \in {"wait", "asleep", "get", "fetch", "send", "answered", "pause"}
                        /\ ~(pc[p] = "answered" /\ answer[p] = "ok")
                        /\ ~(l = "answered" /\ answer'[p] = "ok")
    PROVE  SendInv'
<1>1. SendType'
  BY DEF SendInv, SendType
<1>2. \A q \in Procs : Position(q)'
  BY DEF SendInv, SendType, Position, Sender, Sending, Got
<1>3. \A q \in Procs : NoGap(q)'
  BY DEF SendInv, SendType, NoGap, Sender, Got
<1>4. \A i \in DOMAIN served' : Accounted(i)'
  BY DEF SendInv, SendType, Accounted, Sender
<1>5. InOrder' /\ DuplicateOnlyIfLost'
  BY DEF SendInv, InOrder, DuplicateOnlyIfLost
<1> QED
  BY <1>1, <1>2, <1>3, <1>4, <1>5 DEF SendInv

(* The platform acts on the piece: it is the one behind the last, or one    *)
(* that was acted on with the answer lost.                                  *)
LEMMA ServeSendInv ==
    ASSUME SendInv, NEW p \in Procs, pc[p] = "send", payload[p] # 0,
           pc' = [pc EXCEPT ![p] = "answered"],
           served' = Append(served, <<p, payload[p]>>),
           NEW a, answer' = [answer EXCEPT ![p] = a],
           \/ a = "ok" /\ lost' = lost
           \/ a # "ok" /\ lost' = lost \cup {<<p, payload[p]>>},
           UNCHANGED <<job, index, payload, result, pieces>>
    PROVE  SendInv'
<1>0. PICK n : n = Len(served)
  OBVIOUS
<1>1. /\ Sender(p) /\ payload[p] = index[p] /\ index[p] \in Nat /\ index[p] > 0
  BY DEF SendInv, SendType, Position, Sender
<1>2. /\ n \in Nat /\ DOMAIN served = 1 .. n /\ DOMAIN served' = 1 .. n + 1
      /\ \A i \in 1 .. n : served'[i] = served[i]
      /\ served'[n + 1] = <<p, index[p]>>
  BY <1>0, <1>1 DEF SendInv, SendType
<1>3. \A i \in 1 .. n : /\ served[i][1] \in Procs /\ served[i][2] \in Nat
                        /\ served[i] = <<served[i][1], served[i][2]>>
  <2>1. \A i \in 1 .. n : served[i] \in Procs \X Nat
    BY <1>2 DEF SendInv, SendType
  <2> QED
    BY <2>1
<1>4. SendType'
  BY <1>1 DEF SendInv, SendType
<1>5. \A q, k : Got(q, k) => Got(q, k)'
  BY <1>2 DEF Got
<1>6. Got(p, index[p])'
  BY <1>2 DEF Got
<1>7. \A q \in Procs : Position(q)'
  <2>1. \A q \in Procs : result[q] = "nil" => Got(q, pieces[q])'
    BY <1>5 DEF SendInv, Position
  <2> QED
    BY <1>1, <2>1 DEF SendInv, SendType, Position, Sender, Sending, Got
<1>8. \A q \in Procs : NoGap(q)'
  BY <1>1, <1>5, <1>6 DEF SendInv, SendType, NoGap, Sender
<1>9. \A i \in DOMAIN served' : Accounted(i)'
  <2>1. Accounted(n + 1)'
    BY <1>1, <1>2 DEF SendInv, SendType, Accounted, Sender
  <2>2. \A i \in 1 .. n : Accounted(i)'
    BY <1>1, <1>2, <1>3, ZenonT(30) DEF SendInv, SendType, Accounted, Sender
  <2> QED
    BY <2>1, <2>2, <1>2
<1>10. \A i \in 1 .. n : served[i][1] = p =>
           served[i][2] <= index[p] /\ (served[i][2] = index[p] => served[i] \in lost)
  <2> SUFFICES ASSUME NEW i \in 1 .. n, served[i][1] = p
               PROVE  served[i][2] <= index[p] /\ (served[i][2] = index[p] => served[i] \in lost)
    OBVIOUS
  <2>1. Accounted(i) /\ served[i][2] \in Nat
    BY <1>2, <1>3 DEF SendInv
  <2> QED
    BY <1>1, <2>1 DEF Accounted
<1>11. InOrder'
  <2>1. index[p] > 1 => \E j \in 1 .. n : served[j] = <<p, index[p] - 1>>
    <3> SUFFICES ASSUME index[p] > 1 PROVE Got(p, index[p] - 1)
      BY <1>2 DEF Got
    <3>1. index[p] - 1 \in 1 .. index[p] - 1
      BY <1>1
    <3> QED
      BY <1>1, <3>1 DEF SendInv, NoGap
  <2>2. \A i \in 1 .. n + 1 :
          served'[i][2] > 1 => \E j \in 1 .. i - 1 : served'[j] = <<served'[i][1], served'[i][2] - 1>>
    <3>1. ASSUME NEW i \in 1 .. n, served[i][2] > 1
          PROVE  \E j \in 1 .. i - 1 : served'[j] = <<served[i][1], served[i][2] - 1>>
      <4>1. PICK j \in 1 .. i - 1 : served[j] = <<served[i][1], served[i][2] - 1>>
        BY <1>2, <3>1 DEF SendInv, InOrder
      <4> QED
        BY <1>2, <4>1
    <3>2. index[p] > 1 => \E j \in 1 .. n : served'[j] = <<p, index[p] - 1>>
      BY <1>2, <2>1
    <3>3. ASSUME NEW i \in 1 .. n + 1, served'[i][2] > 1
          PROVE  \E j \in 1 .. i - 1 : served'[j] = <<served'[i][1], served'[i][2] - 1>>
      <4>1. CASE i = n + 1
        <5>1. i - 1 = n /\ served'[i] = <<p, index[p]>>
          BY <1>2, <4>1
        <5>2. served'[i][1] = p /\ served'[i][2] = index[p]
          <6>1. <<p, index[p]>>[1] = p /\ <<p, index[p]>>[2] = index[p]
            OBVIOUS
          <6> QED
            BY <5>1, <6>1, Zenon
        <5>3. PICK j \in 1 .. n : served'[j] = <<p, index[p] - 1>>
          BY <5>2, <3>2, <3>3
        <5> QED
          BY <5>1, <5>2, <5>3
      <4>2. CASE i \in 1 .. n
        BY <3>1, <3>3, <4>2, <1>2
      <4>3. i = n + 1 \/ i \in 1 .. n
        BY <1>2
      <4> QED
        BY <4>1, <4>2, <4>3
    <3> QED
      BY <3>3
  <2>3. \A i, j \in 1 .. n + 1 :
          (i < j /\ served'[i][1] = served'[j][1]) => served'[i][2] <= served'[j][2]
    <3>1. ASSUME NEW i \in 1 .. n, NEW j \in 1 .. n, i < j, served[i][1] = served[j][1]
          PROVE  served[i][2] <= served[j][2]
      BY <1>2, <3>1 DEF SendInv, InOrder
    <3>2. ASSUME NEW i \in 1 .. n + 1, NEW j \in 1 .. n + 1, i < j
          PROVE  i \in 1 .. n /\ (j \in 1 .. n \/ j = n + 1)
      BY <1>2, <3>2
    <3> QED
      BY <3>1, <3>2, <1>1, <1>2, <1>10
  <2> QED
    BY <1>2, <2>2, <2>3 DEF InOrder
<1>12. DuplicateOnlyIfLost'
  <2>1. SUFFICES ASSUME NEW i \in 1 .. n + 1, NEW j \in 1 .. n + 1, i < j,
                        served'[i] = served'[j]
                 PROVE  served'[i] \in lost'
    BY <1>2 DEF DuplicateOnlyIfLost
  <2>2. i \in 1 .. n /\ lost \subseteq lost'
    BY <2>1, <1>2
  <2>3. CASE j = n + 1
    BY <2>1, <2>2, <2>3, <1>2, <1>3, <1>10
  <2>4. CASE j \in 1 .. n
    BY <2>1, <2>2, <2>4, <1>2 DEF SendInv, DuplicateOnlyIfLost
  <2> QED
    BY <2>3, <2>4, <1>2
<1> QED
  BY <1>4, <1>7, <1>8, <1>9, <1>11, <1>12 DEF SendInv

(* A new attempt: at the first piece, at the same one unless it is known to *)
(* have succeeded, or at the next one if it is.                             *)
LEMMA BeginSendInv ==
    ASSUME SendInv, NEW p \in Procs, Sender(p), pc[p] # "done",
           NEW i, NEW l \in {"wait", "get"},
           \/ pc[p] \in {"idle", "cut"} /\ i = 1
           \/ Sending(p) /\ ~(pc[p] = "answered" /\ answer[p] = "ok") /\ i = index[p]
           \/ pc[p] = "answered" /\ answer[p] = "ok" /\ i = index[p] + 1,
           pc' = [pc EXCEPT ![p] = l],
           index' = [index EXCEPT ![p] = i], payload' = [payload EXCEPT ![p] = i],
           DOMAIN answer' = Procs, \A q \in Procs \ {p} : answer'[q] = answer[q],
           DOMAIN pieces' = Procs, \A q \in Procs \ {p} : pieces'[q] = pieces[q],
           UNCHANGED <<job, served, lost, result>>
    PROVE  SendInv'
<1>1. /\ i \in Nat /\ i > 0 /\ index[p] \in Nat /\ i >= index[p]
      /\ index'[p] = i /\ pc'[p] = l /\ result[p] # "nil" /\ Sender(p)'
  BY DEF SendInv, SendType, Position, Sending, Sender
<1>2. SendType'
  BY <1>1 DEF SendInv, SendType
<1>3. \A q \in Procs : Position(q)'
  BY <1>1 DEF SendInv, SendType, Position, Sender, Sending, Got
<1>4. \A q \in Procs : NoGap(q)'
  <2>1. ASSUME NEW k \in 1 .. i - 1 PROVE Got(p, k)
    <3>1. CASE k \in 1 .. index[p] - 1
      BY <3>1 DEF SendInv, NoGap
    <3>2. CASE k = index[p] /\ pc[p] = "answered" /\ answer[p] = "ok"
      BY <3>2 DEF SendInv, NoGap
    <3> QED
      BY <3>1, <3>2, <1>1 DEF SendInv, Position, Sending
  <2>2. NoGap(p)'
    BY <1>1, <2>1 DEF NoGap, Got
  <2>3. \A q \in Procs \ {p} : NoGap(q)'
    BY DEF SendInv, SendType, NoGap, Sender, Got
  <2> QED
    BY <2>2, <2>3
<1>5. \A j \in DOMAIN served' : Accounted(j)'
  <2>1. SUFFICES ASSUME NEW j \in DOMAIN served PROVE Accounted(j)'
    OBVIOUS
  <2>2. served[j] \in Procs \X Nat /\ Accounted(j)
    BY DEF SendInv, SendType
  <2>3. CASE served[j][1] = p
    BY <1>1, <2>2, <2>3 DEF Accounted, SendInv, Position, Sending
  <2>4. CASE served[j][1] # p
    BY <2>2, <2>4 DEF Accounted, SendInv, SendType, Sender
  <2> QED
    BY <2>3, <2>4
<1>6. InOrder' /\ DuplicateOnlyIfLost'
  BY DEF SendInv, InOrder, DuplicateOnlyIfLost
<1> QED
  BY <1>2, <1>3, <1>4, <1>5, <1>6 DEF SendInv

(* A sender returns: nil only behind the last piece. *)
LEMMA FinishSendInv ==
    ASSUME SendInv, NEW p \in Procs, Sender(p), NEW r,
           r = "nil" => pc[p] = "answered" /\ answer[p] = "ok" /\ index[p] = pieces[p],
           pc' = [pc EXCEPT ![p] = "done"], result' = [result EXCEPT ![p] = r],
           DOMAIN answer' = Procs, \A q \in Procs \ {p} : answer'[q] = answer[q],
           UNCHANGED <<job, index, payload, served, lost, pieces>>
    PROVE  SendInv'
<1>1. SendType'
  BY DEF SendInv, SendType
<1>2. \A q \in Procs : Position(q)'
  BY DEF SendInv, SendType, Position, NoGap, Sender, Sending, Got
<1>3. \A q \in Procs : NoGap(q)'
  BY DEF SendInv, SendType, NoGap, Sender, Got
<1>4. \A i \in DOMAIN served' : Accounted(i)'
  BY DEF SendInv, SendType, Accounted, Sender
<1>5. InOrder' /\ DuplicateOnlyIfLost'
  BY DEF SendInv, InOrder, DuplicateOnlyIfLost
<1> QED
  BY <1>1, <1>2, <1>3, <1>4, <1>5 DEF SendInv

(* Of the client's steps only those of "send" serve anything. *)
LEMMA ClientSendInv ==
    ASSUME SendInv, NEW p \in Procs, Client(p) PROVE SendInv'
<1>1. DOMAIN answer = Procs /\ DOMAIN pc = Procs
  BY DEF SendInv, SendType
<1> USE DEF Goto, Answer, Sent, wire, sendvars
<1>2. CASE WaitFor(p)
  <2>1. PICK l \in {"asleep", "get"} : pc' = [pc EXCEPT ![p] = l]
    BY <1>2, Zenon DEF WaitFor
  <2> QED
    BY <1>1, <1>2, <2>1, QuietSendInv DEF WaitFor, Client, Sending
<1>3. CASE Wake(p)
  <2>1. CASE pc' = [pc EXCEPT ![p] = "wait"] /\ UNCHANGED answer
    BY <1>1, <1>3, <2>1, QuietSendInv DEF Wake, Client, Sending
  <2>2. CASE Answer(p, "again")
    BY <1>1, <1>3, <2>2, QuietSendInv DEF Wake, Client, Sending
  <2> QED
    BY <1>3, <2>1, <2>2, Zenon DEF Wake
<1>4. CASE GetToken(p)
  <2>1. PICK l \in {"send", "fetch"} : pc' = [pc EXCEPT ![p] = l]
    BY <1>4, Zenon DEF GetToken
  <2> QED
    BY <1>1, <1>4, <2>1, QuietSendInv DEF GetToken, Client, Sending
<1>5. CASE Fetched(p)
  <2>1. CASE pc' = [pc EXCEPT ![p] = "send"] /\ UNCHANGED answer
    BY <1>1, <1>5, <2>1, QuietSendInv DEF Fetched, Client, Sending
  <2>2. CASE Answer(p, "again")
    BY <1>1, <1>5, <2>2, QuietSendInv DEF Fetched, Client, Sending
  <2> QED
    BY <1>5, <2>1, <2>2, Zenon DEF Fetched
<1>6. CASE SendAnswered(p)
  <2> USE <1>6 DEF SendAnswered, Client
  <2>1. CASE payload[p] # 0 /\ Answer(p, "ok") /\ Act(p, FALSE)
    BY <2>1, ServeSendInv DEF Act
  <2>2. CASE payload[p] # 0 /\ Answer(p, "again") /\ Act(p, TRUE)
    BY <2>2, ServeSendInv DEF Act
  <2>3. ASSUME NEW a, Answer(p, a), UNCHANGED <<served, lost>>, payload[p] = 0 \/ a # "ok"
        PROVE  SendInv'
    <3>1. payload[p] = 0 => ~Sender(p)
      BY DEF SendInv, SendType, Position, Sending
    <3> QED
      BY <1>1, <2>3, <3>1, QuietSendInv DEF Sending
  <2>4. CASE payload[p] = 0
    <3>1. PICK a : Answer(p, a)
      BY Zenon
    <3>2. UNCHANGED <<served, lost>>
      BY <2>4 DEF Act
    <3> QED
      BY <3>1, <3>2, <2>4, <2>3
  <2> QED
    BY <2>1, <2>2, <2>3, <2>4
<1>7. CASE SendLimited(p)
  <2>1. CASE pc' = [pc EXCEPT ![p] = "wait"] /\ UNCHANGED answer
    BY <1>1, <1>7, <2>1, QuietSendInv DEF SendLimited, Client, Sending
  <2>2. CASE Answer(p, "qps")
    BY <1>1, <1>7, <2>2, QuietSendInv DEF SendLimited, Client, Sending
  <2> QED
    BY <1>7, <2>1, <2>2, Zenon DEF SendLimited
<1> QED
  BY <1>2, <1>3, <1>4, <1>5, <1>6, <1>7 DEF Client, ClientStep

(* A reply or a send begins, goes on to the next piece, and ends. *)
LEMMA SenderSendInv ==
    ASSUME SendInv, NEW p \in Procs,
           Text(p) \/ ProactiveSend(p) \/ SendChunks(p) \/ Delivered(p) \/ Failed(p) \/ Retry(p)
    PROVE  SendInv'
<1>1. /\ DOMAIN answer = Procs /\ DOMAIN pc = Procs /\ DOMAIN pieces = Procs
      /\ pc[p] \in {"cut", "pause"} => Sender(p)
  BY DEF SendInv, SendType, Position
<1> USE DEF Goto, Attempt, Begin, Done, GiveUp, Answered, callrest, clientrest
<1>2. CASE Text(p)
  BY <1>1, <1>2, QuietSendInv DEF Text, Sender
<1>3. CASE ProactiveSend(p)
  <2>1. CASE Attempt(p, "api", 1, 1) /\ pieces' = [pieces EXCEPT ![p] = 1] /\ UNCHANGED result
    BY <1>1, <1>3, <2>1, BeginSendInv DEF ProactiveSend, Sender
  <2>2. CASE Done(p, "err") /\ UNCHANGED <<pieces, index, payload>>
    BY <1>1, <1>3, <2>2, FinishSendInv DEF ProactiveSend, Sender
  <2> QED
    BY <1>3, <2>1, <2>2, Zenon DEF ProactiveSend
<1>4. CASE SendChunks(p)
  BY <1>1, <1>4, BeginSendInv DEF SendChunks
<1>5. CASE Delivered(p)
  <2>1. CASE Attempt(p, "hook", index[p] + 1, 1) /\ UNCHANGED result
    BY <1>1, <1>5, <2>1, BeginSendInv DEF Delivered, Sender
  <2>2. CASE index[p] = pieces[p] /\ Done(p, "nil") /\ UNCHANGED <<index, payload>>
    BY <1>1, <1>5, <2>2, FinishSendInv DEF Delivered, Sender
  <2> QED
    BY <1>5, <2>1, <2>2, Zenon DEF Delivered
<1>6. CASE Failed(p)
  <2>1. CASE pc' = [pc EXCEPT ![p] = "pause"] /\ UNCHANGED <<index, result, payload>>
    BY <1>1, <1>6, <2>1, QuietSendInv DEF Failed, Sender, Sending
  <2>2. CASE Attempt(p, "api", index[p], 1) /\ UNCHANGED result
    BY <1>1, <1>6, <2>2, BeginSendInv DEF Failed, Sender, Sending
  <2>3. CASE GiveUp(p)
    BY <1>1, <1>6, <2>3, FinishSendInv DEF Failed, Sender
  <2> QED
    BY <1>6, <2>1, <2>2, <2>3, Zenon DEF Failed
<1>7. CASE Retry(p)
  <2>1. CASE Attempt(p, via[p], index[p], attempt[p] + 1) /\ UNCHANGED result
    BY <1>1, <1>7, <2>1, BeginSendInv DEF Retry, Sending
  <2>2. CASE GiveUp(p)
    BY <1>1, <1>7, <2>2, FinishSendInv DEF Retry
  <2> QED
    BY <1>7, <2>1, <2>2, Zenon DEF Retry
<1> QED
  BY <1>2, <1>3, <1>4, <1>5, <1>6, <1>7

(* Calls and identity requests have nothing to deliver. *)
LEMMA CallerSendInv ==
    ASSUME SendInv, NEW p \in Procs,
           CallStart(p) \/ CallEnd(p) \/ IdentityFast(p) \/ IdentitySlow(p) \/ IdentityFetched(p)
    PROVE  SendInv'
<1>1. /\ DOMAIN answer = Procs /\ DOMAIN pc = Procs /\ payload \in [Procs -> Nat]
      /\ ~Sender(p) => payload[p] = 0
      /\ pc[p] = "slow" => ~Sender(p)
  BY DEF SendInv, SendType, Position
<1>2. ~Sender(p)
  BY <1>1 DEF Sender, CallStart, CallEnd, IdentityFast, IdentitySlow, IdentityFetched
<1>3. [payload EXCEPT ![p] = 0] = payload
  BY <1>1, <1>2
<1> USE DEF Goto, Begin, Answered, callrest, clientrest, sendvars
<1>4. CASE CallStart(p)
  BY <1>1, <1>2, <1>3, <1>4, QuietSendInv DEF CallStart
<1>5. CASE CallEnd(p)
  BY <1>1, <1>2, <1>5, QuietSendInv DEF CallEnd
<1>6. CASE IdentityFast(p)
  <2>1. PICK l \in {"idle", "slow"} : pc' = [pc EXCEPT ![p] = l]
    BY <1>6 DEF IdentityFast
  <2> QED
    BY <1>1, <1>2, <1>6, <2>1, QuietSendInv DEF IdentityFast
<1>7. CASE IdentitySlow(p)
  <2>1. PICK l \in {"idle", "get"} : pc' = [pc EXCEPT ![p] = l]
    BY <1>7 DEF IdentitySlow
  <2>2. UNCHANGED payload
    BY <1>3, <1>7 DEF IdentitySlow
  <2> QED
    BY <1>1, <1>2, <1>7, <2>1, <2>2, QuietSendInv DEF IdentitySlow
<1>8. CASE IdentityFetched(p)
  BY <1>1, <1>2, <1>8, QuietSendInv DEF IdentityFetched
<1> QED
  BY <1>4, <1>5, <1>6, <1>7, <1>8

(* The bookkeeping of what was served is inductive. *)
THEOREM SendBooksKept == Spec => []SendInv
<1>1. Init => SendInv
  <2> SUFFICES ASSUME Init PROVE SendInv
    OBVIOUS
  <2>1. SendType /\ served = <<>>
    BY DEF Init, ClientInit, SendType
  <2>2. \A p \in Procs : Position(p) /\ NoGap(p)
    BY DEF Init, ClientInit, Position, NoGap, Sending, Sender, Got
  <2>3. DOMAIN served = {}
    BY <2>1
  <2> QED
    BY <2>1, <2>2, <2>3 DEF SendInv, InOrder, DuplicateOnlyIfLost
<1>2. SendInv /\ [Next]_vars => SendInv'
  <2> SUFFICES ASSUME SendInv, [Next]_vars PROVE SendInv'
    OBVIOUS
  <2>1. ASSUME UNCHANGED <<pc, answer, job, index, payload, served, lost, result, pieces>>
        PROVE  SendInv'
    BY <2>1 DEF SendInv, SendType, Position, NoGap, Accounted, InOrder, DuplicateOnlyIfLost,
                Sending, Sender, Got
  <2>2. CASE UNCHANGED vars \/ Tick
    BY <2>1, <2>2 DEF vars, Tick, Elapse, callvars, sendvars, wire
  <2>3. ASSUME NEW p \in Procs, CallerCancels(p) PROVE SendInv'
    BY <2>1, <2>3 DEF CallerCancels, Cancel, sendvars, wire
  <2> QED
    BY <2>2, <2>3, ClientSendInv, SenderSendInv, CallerSendInv DEF Next, Running
<1> QED
  BY <1>1, <1>2, PTL DEF Spec

(* reply.go, send.go and Retry: the platform gets the pieces of a text in   *)
(* their order and without a gap, and all of them when nil is returned, for *)
(* every text and every pattern of failures, retries and fallbacks.         *)
THEOREM PiecesArriveInOrder == Spec => []PiecesInOrder
<1>1. SendInv => PiecesInOrder
  BY DEF SendInv, Position, InOrder, PiecesInOrder, Got
<1> QED
  BY <1>1, SendBooksKept, PTL

(* No attempt, no second do() of callRaw and no fallback repeats a piece    *)
(* that is known to have been delivered.                                    *)
THEOREM RepeatsOnlyWhatWasLost == Spec => []DuplicateOnlyIfLost
<1>1. SendInv => DuplicateOnlyIfLost
  BY DEF SendInv
<1> QED
  BY <1>1, SendBooksKept, PTL
-----------------------------------------------------------------------------
(* The tokens the bucket would grant now. *)
Available == refill(bucket).tokens

(* What was granted and what is left stays within a full bucket and the     *)
(* refill since; during a pause the refill clock lies ahead of now by the   *)
(* pause, so that none is left when it ends.                                *)
RateInv ==
    /\ bucket \in [tokens : 0 .. Capacity, age : Int, pause : Nat] /\ bucket.age <= Second
    /\ grants \in [0 .. Second - 1 -> Nat] /\ resumed \in 0 .. Second /\ paced \in Nat
    /\ \A i \in 0 .. Second - 1 : grants[i] * Unit + Available <= Capacity + i * PerTick
    /\ Paused(bucket) => bucket.age = -bucket.pause /\ bucket.tokens = 0 /\ resumed = 0
    /\ ~Paused(bucket) => bucket.age >= 0
    /\ resumed < Second => paced * Unit + Available <= resumed * PerTick

(* A product grows by its second factor. *)
LEMMA OneMore == ASSUME NEW x \in Int, NEW y \in Int PROVE (x + 1) * y = x * y + y
  OBVIOUS

(* A product of natural numbers is one. *)
LEMMA ProductType == ASSUME NEW x \in Nat, NEW y \in Nat PROVE x * y \in Nat
  OBVIOUS

(* A product is monotone in its first factor. *)
LEMMA ProductMonotone == ASSUME NEW x \in Int, NEW y \in Int, NEW z \in Nat, x <= y PROVE x * z <= y * z
<1>1. y - x \in Nat
  OBVIOUS
<1>2. (y - x) * z \in Nat
  BY <1>1, ProductType
<1>3. (y - x) * z = y * z - x * z
  OBVIOUS
<1> QED
  BY <1>2, <1>3

(* The fields of the bucket, as the type invariant gives them. *)
LEMMA BucketTypes ==
    /\ Second \in Nat /\ Second > 0 /\ Unit \in Nat /\ Unit > 0 /\ PerTick \in Nat /\ Backoff \in Nat
    /\ Capacity \in Nat
  BY BucketAssumption, ProductType DEF Capacity

(* refill: a clock that is not ahead adds up to the capacity, one that is   *)
(* leaves the tokens alone.                                                 *)
LEMMA RefillTokens ==
    ASSUME NEW b \in [tokens : 0 .. Capacity, age : Int, pause : Nat]
    PROVE  /\ refill(b) \in [tokens : 0 .. Capacity, age : Int, pause : Nat]
           /\ refill(b).pause = b.pause
           /\ refill(b).age <= 0 /\ (b.age >= 0 => refill(b).age = 0)
           /\ b.age <= 0 => refill(b).tokens = b.tokens
           /\ b.age >= 0 => refill(b).tokens = Smaller(Capacity, b.tokens + b.age * PerTick)
<1> USE BucketTypes
<1>2. PICK f : f = b.age * PerTick
  OBVIOUS
<1>3. (b.age > 0 => f \in Nat) /\ (b.age = 0 => f = 0)
  <2>1. b.age > 0 => f \in Nat
    BY <1>2, ProductType
  <2>2. b.age = 0 => f = 0
    BY <1>2
  <2> QED
    BY <2>1, <2>2
<1>4. refill(b) = IF b.age > 0 THEN [b EXCEPT !.tokens = Smaller(Capacity, b.tokens + f), !.age = 0]
                  ELSE b
  BY <1>2, Zenon DEF refill
<1>5. CASE b.age > 0
  <2>1. refill(b) = [b EXCEPT !.tokens = Smaller(Capacity, b.tokens + f), !.age = 0]
    BY <1>4, <1>5
  <2>2. PICK m : m = Smaller(Capacity, b.tokens + f)
    OBVIOUS
  <2>3. m \in 0 .. Capacity
    BY ONLY <1>3, <1>5, <2>2, BucketTypes, b \in [tokens : 0 .. Capacity, age : Int, pause : Nat]
       DEF Smaller
  <2>4. /\ refill(b) \in [tokens : 0 .. Capacity, age : Int, pause : Nat]
        /\ refill(b).pause = b.pause /\ refill(b).age = 0 /\ refill(b).tokens = m
    <3>1. refill(b) = [b EXCEPT !.tokens = m, !.age = 0]
      BY <2>1, <2>2, Zenon
    <3>2. refill(b) = [tokens |-> m, age |-> 0, pause |-> b.pause] /\ b.pause \in Nat
      BY ONLY <3>1, b \in [tokens : 0 .. Capacity, age : Int, pause : Nat]
    <3> QED
      BY ONLY <2>3, <3>2
  <2>5. ~(b.age <= 0) /\ refill(b).age <= 0
    BY <1>5, <2>4
  <2> QED
    BY <1>2, <2>2, <2>4, <2>5, Zenon
<1>6. CASE ~(b.age > 0)
  <2>1. refill(b) = b /\ b.age <= 0
    BY <1>4, <1>6
  <2>2. b.age = 0 => b.tokens = Smaller(Capacity, b.tokens + f)
    BY <1>3 DEF Smaller
  <2>3. b.age = 0 => b.tokens = Smaller(Capacity, b.tokens + b.age * PerTick)
    BY <1>2, <2>2
  <2>4. b.age >= 0 => b.age = 0
    BY <2>1
  <2> QED
    BY <2>1, <2>3, <2>4, Zenon
<1> QED
  BY <1>5, <1>6

Grant(n, u) ==
    /\ bucket' = [refill(bucket) EXCEPT !.tokens = @ - u]
    /\ grants' = [i \in 0 .. Second - 1 |-> grants[i] + n]
    /\ paced' = IF resumed < Second THEN paced + n ELSE paced
    /\ resumed' = resumed

(* A step that takes a token (n = 1), or only moves the clock (n = 0). *)
LEMMA GrantRateInv ==
    ASSUME RateInv, ~Paused(bucket), NEW n \in Nat, NEW u \in Nat,
           (n = 0 /\ u = 0) \/ (n = 1 /\ u = Unit /\ HasToken(bucket)),
           Grant(n, u)
    PROVE  RateInv'
<1> USE BucketTypes
<1>0. PICK b : b = refill(bucket)
  OBVIOUS
<1>g. /\ bucket' = [b EXCEPT !.tokens = @ - u]
      /\ grants' = [i \in 0 .. Second - 1 |-> grants[i] + n]
      /\ paced' = IF resumed < Second THEN paced + n ELSE paced
      /\ resumed' = resumed
  BY <1>0, Zenon DEF Grant
<1>1. /\ b \in [tokens : 0 .. Capacity, age : Int, pause : Nat] /\ b.age = 0 /\ b.pause = 0
      /\ Available = b.tokens /\ Capacity \in Nat
  <2>1. /\ bucket \in [tokens : 0 .. Capacity, age : Int, pause : Nat]
        /\ bucket.age >= 0 /\ bucket.pause = 0
    BY DEF RateInv, Paused
  <2>2. /\ b \in [tokens : 0 .. Capacity, age : Int, pause : Nat]
        /\ b.age = 0 /\ b.pause = bucket.pause
    BY <1>0, <2>1, RefillTokens, Zenon
  <2>3. Available = b.tokens
    BY <1>0 DEF Available
  <2>4. Capacity \in Nat
    OBVIOUS
  <2> QED
    BY <2>1, <2>2, <2>3, <2>4
<1>2. bucket' = [b EXCEPT !.tokens = @ - u] /\ u <= b.tokens
  <2>1. HasToken(bucket) => b.tokens >= Unit
    BY <1>0 DEF HasToken
  <2> QED
    BY <1>g, <1>1, <2>1
<1>3. /\ bucket' \in [tokens : 0 .. Capacity, age : Int, pause : Nat]
      /\ bucket'.age = 0 /\ bucket'.pause = 0 /\ bucket'.tokens = b.tokens - u
  BY ONLY <1>1, <1>2, u \in Nat
<1>4. Available' = b.tokens - u
  <2>1. PICK c : c = bucket'
    OBVIOUS
  <2>2. refill(c).tokens = c.tokens
    BY <1>3, <2>1, RefillTokens
  <2> QED
    BY <2>1, <2>2, <1>3 DEF Available
<1>5. ASSUME NEW x \in Nat PROVE x * Unit \in Nat /\ (x + n) * Unit = x * Unit + u
  <2>1. x * Unit \in Nat /\ (x + 1) * Unit = x * Unit + Unit
    BY OneMore, ProductType
  <2>2. CASE n = 0 /\ u = 0
    <3>1. x + n = x
      BY <2>2
    <3> QED
      BY <2>1, <2>2, <3>1
  <2>3. CASE n = 1 /\ u = Unit
    BY <2>1, <2>3
  <2> QED
    BY <2>2, <2>3
<1>6. ASSUME NEW x \in Nat, NEW m \in Int, x * Unit + b.tokens <= m
      PROVE  (x + n) * Unit + Available' <= m
  <2>1. PICK y : y = x * Unit
    OBVIOUS
  <2>2. y \in Nat /\ (x + n) * Unit = y + u
    BY <1>5, <2>1
  <2>3. y + b.tokens <= m
    BY <1>6, <2>1
  <2> QED
    BY ONLY <2>2, <2>3, <1>1, <1>4, u \in Nat, m \in Int
<1>7. ASSUME NEW i \in 0 .. Second - 1
      PROVE  grants'[i] * Unit + Available' <= Capacity + i * PerTick
  <2>1. /\ grants[i] \in Nat /\ grants'[i] = grants[i] + n
        /\ grants[i] * Unit + b.tokens <= Capacity + i * PerTick
    BY <1>g, <1>1 DEF RateInv
  <2>2. Capacity + i * PerTick \in Int
    BY <1>1, ProductType
  <2> QED
    BY <2>1, <2>2, <1>6
<1>8. ASSUME resumed' < Second PROVE paced' * Unit + Available' <= resumed' * PerTick
  <2>1. /\ paced \in Nat /\ paced' = paced + n /\ resumed \in Nat
        /\ paced * Unit + b.tokens <= resumed * PerTick
    BY <1>g, <1>1, <1>8 DEF RateInv
  <2>2. resumed * PerTick \in Int
    BY <2>1, ProductType
  <2>3. paced' * Unit + Available' <= resumed * PerTick
    BY <2>1, <2>2, <1>6
  <2> QED
    BY <1>g, <2>3
<1>9. grants' \in [0 .. Second - 1 -> Nat] /\ resumed' \in 0 .. Second /\ paced' \in Nat
  <2>1. grants \in [0 .. Second - 1 -> Nat] /\ resumed \in 0 .. Second /\ paced \in Nat
    BY DEF RateInv
  <2> QED
    BY ONLY <1>g, <2>1, n \in Nat
<1>10. ~Paused(bucket)' /\ bucket'.age <= Second /\ bucket'.age >= 0
  BY ONLY <1>3, BucketTypes DEF Paused
<1> QED
  BY <1>g, <1>3, <1>7, <1>8, <1>9, <1>10, Zenon DEF RateInv

(* A tick: the bucket gains at most what a tick refills, nothing during a   *)
(* pause, and the windows move on.                                          *)
LEMMA ElapseRateInv == ASSUME RateInv, Elapse PROVE RateInv'
<1> USE BucketTypes
<1>0. PICK a, t, c : a = bucket.age /\ t = bucket.tokens /\ c = Capacity
  OBVIOUS
<1>1. /\ bucket \in [tokens : 0 .. Capacity, age : Int, pause : Nat]
      /\ a \in Int /\ a <= Second /\ t \in 0 .. c /\ c \in Nat /\ c = Second * PerTick
  <2>1. c \in Nat /\ c = Second * PerTick
    BY <1>0, ProductType DEF Capacity
  <2> QED
    BY <1>0, <2>1 DEF RateInv
<1>2. PICK a1 : a1 = Smaller(Second, a + 1)
  OBVIOUS
<1>3. /\ a1 \in Int /\ a1 <= Second /\ (a >= 0 => a1 >= 0)
      /\ bucket' = [bucket EXCEPT !.age = a1, !.pause = IF @ > 0 THEN @ - 1 ELSE 0]
  <2>1. bucket' = [bucket EXCEPT !.age = a1, !.pause = IF @ > 0 THEN @ - 1 ELSE 0]
    BY <1>0, <1>2 DEF Elapse, Pass
  <2> QED
    BY <1>1, <1>2, <2>1 DEF Smaller
<1>4. /\ bucket' \in [tokens : 0 .. Capacity, age : Int, pause : Nat]
      /\ bucket'.age = a1 /\ bucket'.tokens = t
      /\ bucket'.pause = IF bucket.pause > 0 THEN bucket.pause - 1 ELSE 0
  <2>1. PICK q : q = IF bucket.pause > 0 THEN bucket.pause - 1 ELSE 0
    OBVIOUS
  <2>2. bucket' = [bucket EXCEPT !.age = a1, !.pause = q]
    BY ONLY <1>1, <1>3, <2>1
  <2>3. bucket' = [tokens |-> t, age |-> a1, pause |-> q]
    BY ONLY <1>0, <1>1, <2>2
  <2>4. q \in Nat
    BY ONLY <1>1, <2>1
  <2> QED
    BY ONLY <1>0, <1>1, <1>3, <2>1, <2>3, <2>4
<1>5. PICK d : d = bucket'
  OBVIOUS
<1>6. Available' = refill(d).tokens
  BY <1>5 DEF Available
<1>7. ASSUME Paused(bucket)
      PROVE  /\ Available = 0 /\ Available' = 0 /\ resumed = 0 /\ paced = 0
             /\ bucket'.age = -bucket'.pause /\ bucket'.tokens = 0
  <2>1. a = -bucket.pause /\ t = 0 /\ resumed = 0 /\ bucket.pause \in Nat /\ bucket.pause > 0
    BY <1>0, <1>1, <1>7 DEF RateInv, Paused
  <2>2. a1 = -bucket'.pause /\ a1 <= 0 /\ bucket'.pause \in Nat
    BY <1>2, <1>4, <2>1 DEF Smaller
  <2>3. Available' = 0
    <3>1. refill(d).tokens = d.tokens
      BY <1>4, <1>5, <2>2, RefillTokens, Zenon
    <3> QED
      BY <1>4, <1>5, <1>6, <2>1, <3>1
  <2>4. Available = 0
    <3>1. bucket.age <= 0
      BY <1>0, <2>1
    <3>2. refill(bucket).tokens = bucket.tokens
      BY <1>1, <3>1, RefillTokens, Zenon
    <3> QED
      BY <1>0, <2>1, <3>2 DEF Available
  <2>5. paced * Unit + 0 <= 0 * PerTick /\ paced \in Nat
    <3>1. resumed < Second /\ paced \in Nat
      BY <2>1 DEF RateInv
    <3>2. paced * Unit + Available <= resumed * PerTick
      BY <3>1, Zenon DEF RateInv
    <3> QED
      BY <2>1, <2>4, <3>1, <3>2, Zenon
  <2>6. paced = 0
    <3>1. ASSUME paced >= 1 PROVE FALSE
      <4>1. 1 * Unit <= paced * Unit
        BY <2>5, <3>1, ProductMonotone
      <4> QED
        BY <2>5, <4>1
    <3> QED
      BY <2>5, <3>1
  <2> QED
    BY <1>4, <2>1, <2>2, <2>3, <2>4, <2>6
<1>8. ASSUME ~Paused(bucket)
      PROVE  /\ Available \in 0 .. c /\ Available' \in 0 .. c /\ Available' <= Available + PerTick
             /\ bucket'.pause = 0 /\ a1 >= 0
  <2>1. a >= 0 /\ bucket.age >= 0 /\ bucket'.pause = 0 /\ a1 >= 0
    BY <1>0, <1>1, <1>3, <1>4, <1>8 DEF RateInv, Paused
  <2>2. PICK f, f1 : f = a * PerTick /\ f1 = a1 * PerTick
    OBVIOUS
  <2>3. f \in Nat /\ f1 \in Nat /\ f1 <= f + PerTick
    <3>1. f \in Nat /\ f1 \in Nat
      BY <1>1, <1>3, <2>1, <2>2, ProductType
    <3>2. a1 <= a + 1
      BY <1>1, <1>2 DEF Smaller
    <3>3. a1 * PerTick <= (a + 1) * PerTick
      BY <1>1, <1>3, <3>2, ProductMonotone
    <3>4. (a + 1) * PerTick = a * PerTick + PerTick
      BY <1>1, OneMore
    <3> QED
      BY <2>2, <3>1, <3>3, <3>4
  <2>4. Available = Smaller(c, t + f)
    BY <1>0, <1>1, <2>1, <2>2, RefillTokens, Zenon DEF Available
  <2>5. Available' = Smaller(c, t + f1)
    <3>1. refill(d).tokens = Smaller(Capacity, d.tokens + d.age * PerTick)
      BY <1>4, <1>5, <2>1, RefillTokens, Zenon
    <3> QED
      BY <1>0, <1>4, <1>5, <1>6, <2>2, <3>1, Zenon
  <2> QED
    BY ONLY <1>1, <2>1, <2>3, <2>4, <2>5, BucketTypes DEF Smaller
<1>9. Available \in 0 .. c /\ Available' \in 0 .. c /\ Available' <= Available + PerTick
  BY <1>1, <1>7, <1>8
<1>10. ASSUME NEW x \in Nat, NEW y \in Int, NEW z \in Int, x * Unit + Available <= z + y * PerTick
       PROVE  x * Unit + Available' <= z + (y + 1) * PerTick
  <2>1. PICK u, v, w : u = x * Unit /\ v = y * PerTick /\ w = (y + 1) * PerTick
    OBVIOUS
  <2>2. u \in Nat /\ v \in Int /\ w = v + PerTick
    BY <2>1, OneMore, ProductType
  <2>3. u + Available <= z + v
    BY ONLY <1>10, <2>1
  <2>4. u + Available' <= z + w
    <3>1. PICK e, e1 : e = Available /\ e1 = Available'
      OBVIOUS
    <3>2. e \in 0 .. c /\ e1 \in 0 .. c /\ e1 <= e + PerTick
      BY ONLY <1>9, <3>1
    <3>3. e \in Int /\ e1 \in Int /\ PerTick \in Int
      BY ONLY <3>2, BucketTypes
    <3>4. u + e <= z + v
      BY ONLY <2>3, <3>1
    <3>5. u + e1 <= z + w
      BY ONLY <2>2, <3>2, <3>3, <3>4, z \in Int
    <3> QED
      BY ONLY <3>1, <3>5
  <2> QED
    BY ONLY <2>1, <2>4
<1>11. ASSUME NEW i \in 0 .. Second - 1
       PROVE  grants'[i] * Unit + Available' <= Capacity + i * PerTick
  <2>1. grants'[i] = IF i = 0 THEN 0 ELSE grants[i - 1]
    BY DEF Elapse
  <2>2. CASE i = 0
    <3>1. grants'[i] * Unit = 0 /\ i * PerTick = 0
      BY <2>1, <2>2
    <3> QED
      BY <1>0, <1>1, <1>9, <3>1
  <2>3. CASE i # 0
    <3>1. i - 1 \in 0 .. Second - 1
      BY <2>3
    <3>2. /\ grants[i - 1] \in Nat
          /\ grants[i - 1] * Unit + Available <= Capacity + (i - 1) * PerTick
      BY <3>1, Zenon DEF RateInv
    <3>3. grants[i - 1] * Unit + Available' <= Capacity + ((i - 1) + 1) * PerTick
      <4>1. PICK g, y : g = grants[i - 1] /\ y = i - 1
        OBVIOUS
      <4>2. g \in Nat /\ y \in Int /\ Capacity \in Int /\ g * Unit + Available <= Capacity + y * PerTick
        BY <3>1, <3>2, <4>1
      <4>3. g * Unit + Available' <= Capacity + (y + 1) * PerTick
        BY <1>10, <4>2
      <4> QED
        BY <4>1, <4>3
    <3>4. (i - 1) + 1 = i /\ grants'[i] = grants[i - 1]
      BY <2>1, <2>3
    <3> QED
      BY <3>3, <3>4, Zenon
  <2> QED
    BY <2>2, <2>3
<1>12. /\ resumed' \in 0 .. Second /\ paced' \in Nat
       /\ Paused(bucket) => resumed' = 0 /\ paced' = 0
       /\ ~Paused(bucket) /\ resumed' < Second =>
             resumed < Second /\ resumed' = resumed + 1 /\ paced' = paced
  <2>1. resumed \in 0 .. Second /\ paced \in Nat
    BY DEF RateInv
  <2>2. Paused(bucket) => resumed' = 0 /\ paced' = 0
    BY <1>7 DEF Elapse
  <2>3. /\ resumed' = IF Paused(bucket) THEN 0 ELSE Smaller(Second, resumed + 1)
        /\ paced' = IF resumed' = Second THEN 0 ELSE paced
    BY DEF Elapse
  <2> QED
    BY <2>1, <2>2, <2>3 DEF Smaller
<1>13. ASSUME resumed' < Second PROVE paced' * Unit + Available' <= resumed' * PerTick
  <2>1. CASE Paused(bucket)
    <3>1. paced' = 0 /\ resumed' = 0 /\ Available' = 0
      BY <1>7, <1>12, <2>1
    <3> QED
      BY <3>1
  <2>2. CASE ~Paused(bucket)
    <3>1. resumed < Second /\ resumed' = resumed + 1 /\ paced' = paced
      BY <1>12, <1>13, <2>2
    <3>2. /\ resumed \in Nat /\ paced \in Nat
          /\ paced * Unit + Available <= resumed * PerTick
      BY <3>1 DEF RateInv
    <3>3. paced * Unit + Available <= 0 + resumed * PerTick
      BY <3>2, ProductType
    <3>4. paced * Unit + Available' <= 0 + (resumed + 1) * PerTick
      BY <1>10, <3>2, <3>3
    <3>5. 0 + (resumed + 1) * PerTick = (resumed + 1) * PerTick
      BY <3>2, ProductType
    <3> QED
      BY <3>1, <3>4, <3>5, Zenon
  <2> QED
    BY <2>1, <2>2
<1>14. grants' \in [0 .. Second - 1 -> Nat]
  <2>1. \A i \in 0 .. Second - 1 : i # 0 => i - 1 \in 0 .. Second - 1
    OBVIOUS
  <2> QED
    BY <2>1 DEF RateInv, Elapse
<1>15. /\ Paused(bucket)' => bucket'.age = -bucket'.pause /\ bucket'.tokens = 0 /\ resumed' = 0
       /\ ~Paused(bucket)' => bucket'.age >= 0
       /\ bucket'.age <= Second
  BY <1>1, <1>3, <1>4, <1>7, <1>8, <1>12 DEF Paused
<1> QED
  BY <1>4, <1>11, <1>12, <1>13, <1>14, <1>15, Zenon DEF RateInv

(* callRaw and the bucket. *)
LEMMA ClientRateInv == ASSUME RateInv, NEW p \in Procs, ClientStep(p) PROVE RateInv'
<1> USE BucketTypes
<1>1. ASSUME UNCHANGED limits PROVE RateInv'
  BY <1>1 DEF RateInv, limits, Available
<1>2. CASE WaitFor(p)
  <2>1. CASE ~Paused(bucket) /\ HasToken(bucket) /\ ~UNCHANGED limits
    <3>1. /\ bucket' = take(bucket)
          /\ grants' = [i \in 0 .. Second - 1 |-> grants[i] + 1]
          /\ paced' = IF resumed < Second THEN paced + 1 ELSE paced
          /\ resumed' = resumed
      BY <1>2, <2>1 DEF WaitFor
    <3>2. bucket' = [refill(bucket) EXCEPT !.tokens = @ - Unit]
      BY <3>1 DEF take
    <3>3. Grant(1, Unit)
      BY <3>1, <3>2, Zenon DEF Grant
    <3> QED
      BY <2>1, <3>3, GrantRateInv
  <2>2. CASE ~Paused(bucket) /\ ~HasToken(bucket)
    <3>1. bucket' = refill(bucket) /\ UNCHANGED <<grants, resumed, paced>>
      BY <1>2, <2>2 DEF WaitFor
    <3>2. /\ grants' = [i \in 0 .. Second - 1 |-> grants[i] + 0]
          /\ paced' = IF resumed < Second THEN paced + 0 ELSE paced
      BY <3>1 DEF RateInv
    <3>3. bucket' = [refill(bucket) EXCEPT !.tokens = @ - 0]
      <4>1. refill(bucket) \in [tokens : 0 .. Capacity, age : Int, pause : Nat]
        BY RefillTokens DEF RateInv
      <4> QED
        BY <3>1, <4>1
    <3> QED
      <4>1. Grant(0, 0)
        BY <3>1, <3>2, <3>3, Zenon DEF Grant
      <4> QED
        BY <2>2, <4>1, GrantRateInv
  <2> QED
    BY <1>1, <1>2, <2>1, <2>2 DEF WaitFor
<1>3. CASE SendLimited(p) /\ ~again[p]
  <2>1. bucket' = triggerBackoff(bucket) /\ resumed' = 0 /\ paced' = 0 /\ grants' = grants
    BY <1>3 DEF SendLimited
  <2>2. PICK b : b = bucket'
    OBVIOUS
  <2>3. Capacity \in Nat
    BY ProductType DEF Capacity
  <2>4. /\ b \in [tokens : 0 .. Capacity, age : Int, pause : Nat] /\ b.age <= 0 /\ b.tokens = 0
        /\ b.age = -b.pause
    BY <2>1, <2>2, <2>3 DEF triggerBackoff
  <2>5. Available' = 0
    BY <2>2, <2>4, RefillTokens, Zenon DEF Available
  <2>6. Available \in Nat
    <3>1. refill(bucket) \in [tokens : 0 .. Capacity, age : Int, pause : Nat]
      BY RefillTokens DEF RateInv
    <3> QED
      BY <3>1 DEF Available
  <2>7. ASSUME NEW i \in 0 .. Second - 1
        PROVE  grants'[i] * Unit + Available' <= Capacity + i * PerTick
    <3>1. grants[i] \in Nat /\ grants[i] * Unit + Available <= Capacity + i * PerTick
      BY DEF RateInv
    <3>2. grants[i] * Unit \in Nat /\ i * PerTick \in Nat
      BY <3>1, ProductType
    <3> QED
      BY <2>1, <2>3, <2>5, <2>6, <3>1, <3>2
  <2>8. paced' * Unit + Available' <= resumed' * PerTick
    <3>1. 0 * Unit + 0 <= 0 * PerTick
      OBVIOUS
    <3> QED
      BY <2>1, <2>5, <3>1, Zenon
  <2>9. /\ grants' \in [0 .. Second - 1 -> Nat] /\ resumed' \in 0 .. Second /\ paced' \in Nat
        /\ bucket'.age <= Second /\ (~Paused(bucket)' => bucket'.age >= 0)
    <3>1. grants \in [0 .. Second - 1 -> Nat]
      BY DEF RateInv
    <3> QED
      BY ONLY <2>1, <2>2, <2>4, <3>1, BucketTypes DEF Paused
  <2> QED
    BY <2>1, <2>2, <2>4, <2>7, <2>8, <2>9, Zenon DEF RateInv
<1> QED
  BY <1>1, <1>2, <1>3
  DEF ClientStep, Wake, GetToken, Fetched, SendAnswered, SendLimited

(* Every step of the client keeps the bound. *)
LEMMA NextRateInv == RateInv /\ [Next]_vars => RateInv'
<1> SUFFICES ASSUME RateInv, [Next]_vars PROVE RateInv'
  OBVIOUS
<1>1. ASSUME UNCHANGED limits PROVE RateInv'
  BY <1>1 DEF RateInv, limits, Available
<1>2. CASE UNCHANGED vars
  BY <1>1, <1>2 DEF vars, callvars
<1>3. CASE Tick
  BY <1>3, ElapseRateInv DEF Tick
<1>4. ASSUME NEW p \in Procs, Client(p) PROVE RateInv'
  BY <1>4, ClientRateInv DEF Client
<1>5. ASSUME NEW p \in Procs, \/ Text(p) \/ ProactiveSend(p) \/ CallStart(p) \/ IdentityFast(p)
                              \/ SendChunks(p) \/ Delivered(p) \/ Failed(p) \/ Retry(p)
                              \/ CallEnd(p) \/ IdentitySlow(p) \/ IdentityFetched(p)
                              \/ CallerCancels(p)
      PROVE RateInv'
  <2>1. UNCHANGED limits
    BY <1>5, Zenon DEF Text, ProactiveSend, CallStart, IdentityFast, SendChunks, Delivered, Failed,
       Retry, CallEnd, IdentitySlow, IdentityFetched, CallerCancels, Cancel, clientrest, callrest
  <2> QED
    BY <1>1, <2>1
<1> QED
  BY <1>2, <1>3, <1>4, <1>5 DEF Next, Running

(* The full bucket that newTokenBucket makes. *)
LEMMA InitRateInv == ASSUME Init PROVE RateInv
<1> USE BucketTypes
<1>1. /\ bucket = [tokens |-> Capacity, age |-> 0, pause |-> 0] /\ Capacity \in Nat
      /\ grants = [i \in 0 .. Second - 1 |-> 0] /\ resumed = Second /\ paced = 0
  BY ProductType DEF Init, ClientInit, newTokenBucket, Capacity
<1>2. bucket \in [tokens : 0 .. Capacity, age : Int, pause : Nat]
  BY <1>1
<1>3. Available = Capacity
  <2>1. refill(bucket).tokens = bucket.tokens
    BY <1>1, <1>2, RefillTokens
  <2> QED
    BY <1>1, <2>1 DEF Available
<1>4. ASSUME NEW i \in 0 .. Second - 1
      PROVE  grants[i] * Unit + Available <= Capacity + i * PerTick
  <2>1. grants[i] * Unit = 0 /\ i * PerTick \in Nat
    BY <1>1, ProductType
  <2> QED
    BY <1>1, <1>3, <2>1
<1>5. ~Paused(bucket) /\ bucket.age = 0 /\ bucket.age <= Second /\ bucket.age >= 0
  BY <1>1 DEF Paused
<1>6. /\ grants \in [0 .. Second - 1 -> Nat] /\ resumed \in 0 .. Second /\ paced \in Nat
      /\ ~(resumed < Second)
  BY <1>1
<1> QED
  BY <1>2, <1>4, <1>5, <1>6, Zenon DEF RateInv

(* tokenBucket: tokens granted and left stay within what a full bucket and  *)
(* the refill give, in every state.                                         *)
THEOREM RateKept == Spec => []RateInv
<1> QED
  BY InitRateInv, NextRateInv, PTL DEF Spec

(* tokenBucket: whoever calls, waits, is told to slow down or gives up, no  *)
(* stretch of time up to a second sees more requests than a full bucket and *)
(* what the refill adds, and after a QpsLimit they resume at the refill     *)
(* rate, for every rate, tick and length of the back-off.                   *)
THEOREM RateLimited == Spec => []RateBound
<1>1. RateInv => RateBound
  <2> SUFFICES ASSUME RateInv PROVE RateBound
    OBVIOUS
  <2> USE BucketTypes
  <2>1. Available \in Nat
    <3>1. refill(bucket) \in [tokens : 0 .. Capacity, age : Int, pause : Nat]
      BY RefillTokens DEF RateInv
    <3> QED
      BY <3>1 DEF Available
  <2>2. ASSUME NEW i \in 0 .. Second - 1 PROVE grants[i] * Unit <= Capacity + i * PerTick
    <3>1. grants[i] \in Nat /\ grants[i] * Unit + Available <= Capacity + i * PerTick
      BY DEF RateInv
    <3>2. grants[i] * Unit \in Nat /\ i * PerTick \in Nat /\ Capacity \in Nat
      BY <3>1, ProductType DEF Capacity
    <3> QED
      BY <2>1, <3>1, <3>2
  <2>3. ASSUME resumed < Second PROVE paced * Unit <= resumed * PerTick
    <3>1. paced \in Nat /\ resumed \in Nat /\ paced * Unit + Available <= resumed * PerTick
      BY <2>3 DEF RateInv
    <3>2. paced * Unit \in Nat /\ resumed * PerTick \in Nat
      BY <3>1, ProductType
    <3> QED
      BY <2>1, <3>1, <3>2
  <2> QED
    BY <2>2, <2>3 DEF RateBound
<1> QED
  BY <1>1, RateKept, PTL
-----------------------------------------------------------------------------
(* Every set of natural numbers that is not empty has a least element. *)
LEMMA Least ==
    ASSUME NEW T \in SUBSET Nat, T # {} PROVE \E n \in T : \A m \in T : n <= m
<1>1. PICK R : R = OpToRel(<, Nat)
  OBVIOUS
<1>2. IsWellFoundedOn(R, Nat)
  BY <1>1, NatLessThanWellFounded
<1>3. PICK x \in T : \A y \in T : <<y, x>> \notin R
  BY <1>2, WFMin
<1>4. \A i, j \in Nat : i < j => <<i, j>> \in R
  BY <1>1 DEF OpToRel
<1>5. ASSUME NEW m \in T PROVE x <= m
  <2>1. m \in Nat /\ x \in Nat /\ ~(m < x)
    BY <1>3, <1>4
  <2> QED
    BY <2>1
<1> QED
  BY <1>5

(* A set of numbers up to n that is not empty has a greatest element. *)
LEMMA Greatest ==
    ASSUME NEW n \in Nat, NEW T \in SUBSET (0 .. n), T # {} PROVE \E m \in T : \A k \in T : k <= m
<1>1. PICK U : U = {i \in Nat : n - i \in T}
  OBVIOUS
<1>2. U \in SUBSET Nat /\ U # {}
  <2>1. PICK t \in T : TRUE
    OBVIOUS
  <2>2. n - t \in U
    BY <1>1, <2>1
  <2> QED
    BY <1>1, <2>2
<1>3. PICK u \in U : \A v \in U : u <= v
  BY <1>2, Least
<1>4. \A k \in T : n - k \in U /\ k \in 0 .. n
  BY <1>1
<1>5. n - u \in T /\ u \in Nat
  BY <1>1, <1>3
<1>6. ASSUME NEW k \in T PROVE k <= n - u
  BY <1>3, <1>4, <1>5
<1> QED
  BY <1>5, <1>6

(* What holds at 0 and is handed on from i - 1 to i holds up to n.  Facts   *)
(* about the turns of a loop are sets of the turns for which they hold.     *)
LEMMA UpTo ==
    ASSUME NEW n \in Nat, NEW P, 0 \in P, \A i \in 1 .. n : i - 1 \in P => i \in P
    PROVE  \A i \in 0 .. n : i \in P
<1> SUFFICES ASSUME \E i \in 0 .. n : i \notin P PROVE FALSE
  OBVIOUS
<1>1. PICK T : T = {i \in 0 .. n : i \notin P}
  OBVIOUS
<1>2. T \in SUBSET Nat /\ T # {}
  BY <1>1
<1>3. PICK m \in T : \A i \in T : m <= i
  BY <1>2, Least
<1>4. m \in 0 .. n /\ m \notin P /\ m # 0
  BY <1>1, <1>3
<1>5. m - 1 \in 0 .. n /\ m \in 1 .. n
  BY <1>4
<1>6. m - 1 \notin T
  BY <1>3, <1>4, <1>5
<1>7. m - 1 \in P
  BY <1>1, <1>5, <1>6
<1> QED
  BY <1>4, <1>5, <1>7

(* f is the run of a loop over 1 .. n that begins with b and whose i-th     *)
(* turn is g[i].                                                            *)
LoopRun(n, b, g, f) == f = [i \in 0 .. n |-> IF i = 0 THEN b ELSE g[i][f[i - 1]]]

(* A loop whose turns stay in S has one: by UpTo, one that ends at m for    *)
(* every m up to n.                                                         *)
LEMMA LoopHasRun ==
    ASSUME NEW n \in Nat, NEW S, NEW b \in S, NEW g, \A i \in 1 .. n : g[i] \in [S -> S]
    PROVE  \E f \in [0 .. n -> S] : LoopRun(n, b, g, f)
<1>1. PICK P : P = {m \in 0 .. n : \E f \in [0 .. m -> S] : LoopRun(m, b, g, f)}
  OBVIOUS
<1>2. 0 \in P
  <2>1. PICK f : f = [i \in 0 .. 0 |-> b]
    OBVIOUS
  <2>2. f \in [0 .. 0 -> S]
    BY <2>1
  <2>3. f = [i \in 0 .. 0 |-> IF i = 0 THEN b ELSE g[i][f[i - 1]]]
    BY <2>1
  <2> QED
    BY <1>1, <2>2, <2>3 DEF LoopRun
<1>3. ASSUME NEW m \in 1 .. n, m - 1 \in P PROVE m \in P
  <2>1. PICK e \in [0 .. m - 1 -> S] : LoopRun(m - 1, b, g, e)
    BY <1>1, <1>3
  <2>2. PICK f : f = [i \in 0 .. m |-> IF i = m THEN g[m][e[m - 1]] ELSE e[i]]
    OBVIOUS
  <2>3. /\ m - 1 \in 0 .. m - 1 /\ m # 0 /\ m \in 0 .. n
        /\ \A i \in 0 .. m : i # m => i \in 0 .. m - 1
        /\ \A i \in 1 .. m : i - 1 \in 0 .. m - 1 /\ i - 1 \in 0 .. m /\ i - 1 # m
    OBVIOUS
  <2>4. f \in [0 .. m -> S]
    BY <2>1, <2>2, <2>3
  <2>5. \A i \in 0 .. m - 1 : e[i] = IF i = 0 THEN b ELSE g[i][e[i - 1]]
    BY <2>1, Zenon DEF LoopRun
  <2>6. \A i \in 0 .. m : f[i] = IF i = 0 THEN b ELSE g[i][f[i - 1]]
    <3> SUFFICES ASSUME NEW i \in 0 .. m PROVE f[i] = IF i = 0 THEN b ELSE g[i][f[i - 1]]
      OBVIOUS
    <3>1. i # 0 => f[i - 1] = e[i - 1]
      BY <2>2, <2>3
    <3>2. CASE i = m
      BY <2>2, <2>3, <3>1, <3>2
    <3>3. CASE i # m
      <4>1. f[i] = e[i] /\ i \in 0 .. m - 1
        BY <2>2, <2>3, <3>3
      <4> QED
        BY <2>5, <3>1, <4>1
    <3> QED
      BY <3>2, <3>3
  <2>7. LoopRun(m, b, g, f)
    BY <2>4, <2>6, Zenon DEF LoopRun
  <2> QED
    BY <1>1, <2>3, <2>4, <2>7
<1>4. n \in P
  BY <1>2, <1>3, UpTo
<1> QED
  BY <1>1, <1>4
-----------------------------------------------------------------------------
(* h is the function that FlattenSeq computes for the sequences of s. *)
Joins(h, s) == \A i \in 1 .. Len(s) : h[i] = IF i = 1 THEN s[i] ELSE h[i - 1] \o s[i]

(* Concatenation, one sequence after another. *)
LEMMA FlattenRun ==
    ASSUME NEW X, NEW s \in Seq(Seq(X)), s # <<>>
    PROVE  \E h : Joins(h, s) /\ FlattenSeq(s) = h[Len(s)]
<1>1. PICK n, S : n = Len(s) /\ S = Seq(X)
  OBVIOUS
<1>2. n \in Nat /\ n # 0 /\ \A i \in 1 .. n : s[i] \in S
  BY <1>1
<1>3. PICK g : g = [i \in 1 .. n |-> [x \in S |-> x \o s[i]]]
  OBVIOUS
<1>4. \A i \in 1 .. n : g[i] \in [S -> S] /\ \A x \in S : g[i][x] = x \o s[i]
  BY <1>1, <1>2, <1>3
<1>5. PICK b : b = <<>> /\ b \in S
  <2>1. PICK b : b = <<>>
    OBVIOUS
  <2>2. b \in S
    BY <1>1, <2>1
  <2> QED
    BY <2>1, <2>2
<1>6. PICK f \in [0 .. n -> S] : LoopRun(n, b, g, f)
  BY <1>2, <1>4, <1>5, LoopHasRun
<1>7. \A i \in 0 .. n : f[i] = IF i = 0 THEN b ELSE g[i][f[i - 1]]
  BY <1>6, Zenon DEF LoopRun
<1>8. PICK e : e = [i \in 1 .. n |-> f[i]]
  OBVIOUS
<1>9. ASSUME NEW i \in 1 .. n PROVE e[i] = IF i = 1 THEN s[i] ELSE e[i - 1] \o s[i]
  <2>1. i \in 0 .. n /\ i # 0 /\ i - 1 \in 0 .. n /\ (i # 1 => i - 1 \in 1 .. n)
    BY <1>2
  <2>2. e[i] = f[i - 1] \o s[i]
    BY <1>4, <1>6, <1>7, <1>8, <2>1
  <2>3. CASE i = 1
    <3>1. f[i - 1] = b
      BY <1>2, <1>7, <2>3
    <3> QED
      BY <1>1, <1>2, <1>5, <2>2, <2>3, <3>1
  <2>4. CASE i # 1
    BY <1>8, <2>1, <2>2, <2>4
  <2> QED
    BY <2>3, <2>4
<1> DEFINE Loop(h) == h = [i \in 1 .. Len(s) |-> IF i = 1 THEN s[i] ELSE h[i - 1] \o s[i]]
<1>10. Loop(e)
  BY <1>1, <1>8, <1>9, Zenon
<1>11. PICK h : Loop(h) /\ FlattenSeq(s) = h[Len(s)]
  <2>1. FlattenSeq(s) = (CHOOSE h : Loop(h))[Len(s)]
    BY <1>1, <1>2 DEF FlattenSeq
  <2>2. Loop(CHOOSE h : Loop(h))
    <3> HIDE DEF Loop
    <3> QED
      BY <1>10, Zenon
  <2> QED
    BY <2>1, <2>2, Zenon
<1>12. Joins(h, s)
  BY <1>11, Zenon DEF Joins
<1> QED
  BY <1>11, <1>12

(* Nothing joined is nothing. *)
LEMMA FlattenEmpty == FlattenSeq(<<>>) = <<>>
  BY DEF FlattenSeq

(* One more sequence goes to the end. *)
LEMMA FlattenAppend ==
    ASSUME NEW X, NEW s \in Seq(Seq(X)), NEW x \in Seq(X), FlattenSeq(s) \in Seq(X)
    PROVE  FlattenSeq(Append(s, x)) = FlattenSeq(s) \o x
<1>1. PICK t, n : t = Append(s, x) /\ n = Len(s)
  OBVIOUS
<1>2. /\ t \in Seq(Seq(X)) /\ t # <<>> /\ n \in Nat /\ Len(t) = n + 1
      /\ t[n + 1] = x /\ \A i \in 1 .. n : t[i] = s[i]
  BY <1>1
<1>3. PICK k : Joins(k, t) /\ FlattenSeq(t) = k[Len(t)]
  BY <1>2, FlattenRun
<1>4. CASE s = <<>>
  <2>1. n = 0 /\ FlattenSeq(s) = <<>>
    BY <1>1, <1>4, FlattenEmpty
  <2>2. k[1] = x
    BY <1>2, <1>3, <2>1 DEF Joins
  <2> QED
    BY <1>1, <1>2, <1>3, <2>1, <2>2
<1>5. CASE s # <<>>
  <2>1. PICK h : Joins(h, s) /\ FlattenSeq(s) = h[Len(s)]
    BY <1>5, FlattenRun
  <2>2. n # 0
    BY <1>1, <1>5
  <2>3. PICK P : P = {i \in 0 .. n : i = 0 \/ k[i] = h[i]}
    OBVIOUS
  <2>4. 0 \in P
    BY <1>2, <2>3
  <2>5. ASSUME NEW i \in 1 .. n, i - 1 \in P PROVE i \in P
    <3>1. h[i] = IF i = 1 THEN s[i] ELSE h[i - 1] \o s[i]
      BY <1>1, <2>1 DEF Joins
    <3>2. k[i] = IF i = 1 THEN s[i] ELSE k[i - 1] \o s[i]
      BY <1>2, <1>3 DEF Joins
    <3>3. i # 1 => k[i - 1] = h[i - 1]
      BY <2>3, <2>5
    <3> QED
      BY <1>2, <2>3, <3>1, <3>2, <3>3
  <2>6. \A i \in 0 .. n : i \in P
    BY <1>2, <2>4, <2>5, UpTo
  <2>7. k[n] = h[n]
    BY <1>2, <2>2, <2>3, <2>6
  <2>8. PICK m : m = n + 1 /\ m \in 1 .. Len(t) /\ m # 1 /\ m - 1 = n
    BY <1>2, <2>2
  <2>9. k[m] = IF m = 1 THEN t[m] ELSE k[m - 1] \o t[m]
    BY <1>3, <2>8, Zenon DEF Joins
  <2>10. k[n + 1] = k[n] \o x
    BY <1>2, <2>8, <2>9
  <2> QED
    BY <1>1, <1>2, <1>3, <2>1, <2>7, <2>10
<1> QED
  BY <1>4, <1>5
-----------------------------------------------------------------------------
(* The cut lies within the runes that are left, and beyond the limit only   *)
(* behind a newline.                                                        *)
LEMMA CutFacts ==
    ASSUME NEW s \in Seq(Nat), Len(s) > Limit
    PROVE  Cut(s) \in 1 .. Len(s) /\ (Cut(s) <= Limit \/ (Cut(s) = Limit + 1 /\ s[Cut(s)] = NewLine))
<1>1. PICK B : B = {i \in (Limit \div 2) .. Limit : s[i + 1] = NewLine}
  OBVIOUS
<1>2. Limit \in Nat /\ Limit > 0 /\ Limit \div 2 \in 0 .. Limit /\ Len(s) \in Nat
  BY LimitAssumption
<1>3. Cut(s) = IF B = {} THEN Limit ELSE Max(B) + 1
  BY <1>1 DEF Cut
<1>4. CASE B = {}
  BY <1>2, <1>3, <1>4
<1>5. CASE B # {}
  <2>1. B \in SUBSET (0 .. Limit)
    BY <1>1, <1>2
  <2>2. PICK m \in B : \A k \in B : k <= m
    BY <1>2, <1>5, <2>1, Greatest
  <2>3. \E x \in B : \A y \in B : x >= y
    BY <1>2, <2>1, <2>2
  <2>4. Max(B) \in B
    BY <2>3, Zenon DEF Max
  <2>5. PICK x : x = Max(B)
    OBVIOUS
  <2>6. x \in 0 .. Limit /\ s[x + 1] = NewLine
    BY <1>1, <2>1, <2>4, <2>5
  <2>7. Cut(s) = x + 1
    BY <1>3, <1>5, <2>5
  <2> QED
    BY <1>2, <2>6, <2>7
<1> QED
  BY <1>4, <1>5

(* The states of the loop of chunkText, and a chunk as it may be sent. *)
Cuts == [out : Seq(Seq(Nat)), rest : Seq(Nat)]
ChunkFits(c) == c # <<>> /\ (Len(c) <= Limit \/ (Len(c) = Limit + 1 /\ Last(c) = NewLine))

(* What one turn does to the chunks and to the rest. *)
CutTurn(t, s) ==
    \/ s.rest = <<>> /\ t = s
    \/ \E c \in Seq(Nat) : /\ ChunkFits(c) /\ t.out = Append(s.out, c)
                           /\ c \o t.rest = s.rest /\ Len(t.rest) < Len(s.rest)

(* A turn of the loop cuts off a chunk that fits. *)
LEMMA CutOnceFacts ==
    ASSUME NEW s \in Cuts PROVE CutOnce(s) \in Cuts /\ CutTurn(CutOnce(s), s)
<1>1. PICK r, o : r = s.rest /\ o = s.out
  OBVIOUS
<1>2. r \in Seq(Nat) /\ o \in Seq(Seq(Nat)) /\ Limit \in Nat
  BY <1>1, LimitAssumption DEF Cuts
<1>3. CASE r = <<>>
  BY <1>1, <1>3 DEF CutOnce, CutTurn
<1>4. CASE r # <<>>
  <2>1. PICK cut : cut = IF Len(r) <= Limit THEN Len(r) ELSE Cut(r)
    OBVIOUS
  <2>2. /\ cut \in 1 .. Len(r) /\ Len(r) \in Nat
        /\ (cut <= Limit \/ (cut = Limit + 1 /\ r[cut] = NewLine))
    <3>1. Len(r) \in Nat /\ Len(r) # 0
      BY <1>2, <1>4
    <3>2. CASE Len(r) <= Limit
      BY <1>2, <2>1, <3>1, <3>2
    <3>3. CASE ~(Len(r) <= Limit)
      <4>1. Len(r) > Limit
        BY <1>2, <3>1, <3>3
      <4> QED
        BY <1>2, <2>1, <3>1, <3>3, <4>1, CutFacts
    <3> QED
      BY <3>2, <3>3
  <2>3. PICK c, d, t : c = SubSeq(r, 1, cut) /\ d = SubSeq(r, cut + 1, Len(r)) /\ t = CutOnce(s)
    OBVIOUS
  <2>4. t = [out |-> Append(o, c), rest |-> d]
    BY <1>1, <1>4, <2>1, <2>3 DEF CutOnce
  <2>5. /\ c \in Seq(Nat) /\ Len(c) = cut /\ c[cut] = r[cut]
        /\ d \in Seq(Nat) /\ Len(d) = Len(r) - cut
    <3>1. c \in Seq(Nat) /\ Len(c) = cut /\ \A i \in 1 .. cut : c[i] = r[i]
      BY <1>2, <2>2, <2>3
    <3>2. d \in Seq(Nat) /\ Len(d) = Len(r) - cut
      BY <1>2, <2>2, <2>3
    <3> QED
      BY <2>2, <3>1, <3>2
  <2>6. c \o d = r
    <3>1. SubSeq(r, 1, cut) \o SubSeq(r, cut + 1, Len(r)) = SubSeq(r, 1, Len(r))
      BY <1>2, <2>2, ConcatAdjacentSubSeq
    <3> QED
      BY <1>2, <2>3, <3>1, SubSeqFull
  <2>7. ChunkFits(c)
    <3>1. c # <<>>
      BY <2>2, <2>5
    <3>2. Last(c) = r[cut]
      BY <2>5 DEF Last
    <3> QED
      BY <2>2, <2>5, <3>1, <3>2 DEF ChunkFits
  <2>8. t \in Cuts
    BY <1>2, <2>4, <2>5 DEF Cuts
  <2>9. t.out = Append(o, c) /\ t.rest = d
    BY <2>4
  <2>10. Len(d) < Len(r)
    BY <2>2, <2>5
  <2>11. t.out = Append(s.out, c) /\ c \o t.rest = s.rest /\ Len(t.rest) < Len(s.rest)
    BY <1>1, <2>6, <2>9, <2>10
  <2> QED
    BY <2>3, <2>5, <2>7, <2>8, <2>11 DEF CutTurn
<1> QED
  BY <1>3, <1>4

(* Joining runes is associative. *)
LEMMA JoinRunes ==
    ASSUME NEW a \in Seq(Nat), NEW b \in Seq(Nat), NEW c \in Seq(Nat) PROVE (a \o b) \o c = a \o (b \o c)
  BY ConcatAssociative

(* What the loop has done after i turns: the chunks that are out and the    *)
(* rest make up the text, and a rune at least has gone with every turn.     *)
CutGood(s, runes, i) ==
    /\ FlattenSeq(s.out) \in Seq(Nat) /\ FlattenSeq(s.out) \o s.rest = runes
    /\ \A j \in DOMAIN s.out : ChunkFits(s.out[j])
    /\ Len(s.rest) + i <= Len(runes)

(* A turn keeps it. *)
LEMMA CutTurnGood ==
    ASSUME NEW s \in Cuts, NEW t \in Cuts, NEW runes \in Seq(Nat), NEW i \in 1 .. Len(runes),
           CutTurn(t, s), CutGood(s, runes, i - 1)
    PROVE  CutGood(t, runes, i)
<1>1. PICK o, r, n : o = s.out /\ r = s.rest /\ n = Len(runes)
  OBVIOUS
<1>2. o \in Seq(Seq(Nat)) /\ r \in Seq(Nat) /\ n \in Nat /\ t.rest \in Seq(Nat) /\ i \in 1 .. n
  BY <1>1 DEF Cuts
<1>3. PICK f : f = FlattenSeq(o)
  OBVIOUS
<1>4. f \in Seq(Nat) /\ f \o r = runes /\ (\A j \in DOMAIN o : ChunkFits(o[j])) /\ Len(r) + i - 1 <= n
  BY <1>1, <1>2, <1>3 DEF CutGood
<1>5. CASE r = <<>> /\ t = s
  <2>1. Len(r) + i <= n
    BY <1>2, <1>5
  <2> QED
    BY <1>1, <1>3, <1>4, <1>5, <2>1 DEF CutGood
<1>6. CASE \E c \in Seq(Nat) : /\ ChunkFits(c) /\ t.out = Append(o, c)
                              /\ c \o t.rest = r /\ Len(t.rest) < Len(r)
  <2>1. PICK c \in Seq(Nat) : /\ ChunkFits(c) /\ t.out = Append(o, c)
                              /\ c \o t.rest = r /\ Len(t.rest) < Len(r)
    BY <1>6
  <2>2. FlattenSeq(t.out) = f \o c
    BY <1>2, <1>3, <1>4, <2>1, FlattenAppend
  <2>3. f \o c \in Seq(Nat) /\ (f \o c) \o t.rest = runes
    <3>1. PICK d \in Seq(Nat) : d = t.rest
      BY <1>2
    <3>2. f \in Seq(Nat) /\ c \in Seq(Nat) /\ d \in Seq(Nat)
      BY <1>4, <2>1, <3>1
    <3>3. (f \o c) \o d = f \o (c \o d)
      BY <3>2, JoinRunes
    <3> QED
      BY <1>4, <2>1, <3>1, <3>3
  <2>4. ASSUME NEW j \in DOMAIN t.out PROVE ChunkFits(t.out[j])
    <3>1. PICK q, m : q = Append(o, c) /\ m = Len(o)
      OBVIOUS
    <3>2. /\ m \in Nat /\ j \in 1 .. m + 1 /\ DOMAIN o = 1 .. m
          /\ q[m + 1] = c /\ \A k \in 1 .. m : q[k] = o[k]
      BY <1>2, <2>1, <3>1, AppendProperties
    <3>3. CASE j = m + 1
      BY <2>1, <3>1, <3>2, <3>3
    <3>4. CASE j # m + 1
      <4>1. j \in 1 .. m
        BY <3>2, <3>4
      <4>2. j \in DOMAIN o /\ t.out[j] = o[j]
        BY <2>1, <3>1, <3>2, <4>1
      <4> QED
        BY <1>4, <4>2
    <3> QED
      BY <3>3, <3>4
  <2>5. Len(t.rest) + i <= n
    BY <1>2, <1>4, <2>1
  <2> QED
    BY <1>1, <2>2, <2>3, <2>4, <2>5 DEF CutGood
<1> QED
  BY <1>1, <1>5, <1>6 DEF CutTurn

(* The loop of chunkText, turn by turn. *)
LEMMA CutRun ==
    ASSUME NEW runes \in Seq(Nat), Len(runes) > Limit
    PROVE  \E s \in Cuts : s.out = CutRunes(runes) /\ CutGood(s, runes, Len(runes))
<1>1. PICK n, S, b : n = Len(runes) /\ S = Cuts /\ b = [out |-> <<>>, rest |-> runes]
  OBVIOUS
<1>2. n \in Nat /\ b \in S /\ b.out = <<>> /\ b.rest = runes
  BY <1>1 DEF Cuts
<1>3. PICK g : g = [i \in 1 .. n |-> [s \in S |-> CutOnce(s)]]
  OBVIOUS
<1>4. \A i \in 1 .. n : g[i] \in [S -> S] /\ \A s \in S : g[i][s] = CutOnce(s)
  BY <1>1, <1>3, CutOnceFacts
<1>5. PICK f \in [0 .. n -> S] : LoopRun(n, b, g, f)
  BY <1>2, <1>4, LoopHasRun
<1>6. \A i \in 0 .. n : f[i] = IF i = 0 THEN b ELSE g[i][f[i - 1]]
  BY <1>5, Zenon DEF LoopRun
<1>7. \A i \in 1 .. n : i # 0 /\ i \in 0 .. n /\ i - 1 \in 0 .. n /\ i - 1 \in Nat
  BY <1>2
<1>8. \A i \in 0 .. n : f[i] = IF i = 0 THEN b ELSE CutOnce(f[i - 1])
  <2> SUFFICES ASSUME NEW i \in 0 .. n, i # 0 PROVE f[i] = CutOnce(f[i - 1])
    BY <1>6
  <2>1. i \in 1 .. n /\ f[i - 1] \in S
    BY <1>2, <1>5, <1>7
  <2> QED
    BY <1>4, <1>6, <2>1
<1> DEFINE Loop(h) == h = [i \in 0 .. Len(runes) |->
                             IF i = 0 THEN [out |-> <<>>, rest |-> runes] ELSE CutOnce(h[i - 1])]
<1>9. Loop(f)
  BY <1>1, <1>5, <1>8, Zenon
<1>10. PICK h : Loop(h) /\ CutRunes(runes) = h[Len(runes)].out
  <2>1. ~(Len(runes) <= Limit)
    BY LimitAssumption
  <2>2. CutRunes(runes) = (CHOOSE h : Loop(h))[Len(runes)].out
    BY <2>1, Zenon DEF CutRunes
  <2>3. Loop(CHOOSE h : Loop(h))
    <3> HIDE DEF Loop
    <3> QED
      BY <1>9, Zenon
  <2> QED
    BY <2>2, <2>3, Zenon
<1>11. \A i \in 0 .. n : h[i] = IF i = 0 THEN b ELSE CutOnce(h[i - 1])
  BY <1>1, <1>10, Zenon
<1>12. PICK P : P = {i \in 0 .. n : h[i] \in S /\ CutGood(h[i], runes, i)}
  OBVIOUS
<1>13. 0 \in P
  <2>1. h[0] = b
    BY <1>2, <1>11
  <2>2. FlattenSeq(b.out) \in Seq(Nat) /\ FlattenSeq(b.out) \o b.rest = runes
    BY <1>2, FlattenEmpty
  <2>3. DOMAIN b.out = {} /\ Len(b.rest) + 0 <= Len(runes)
    BY <1>1, <1>2
  <2> QED
    BY <1>2, <1>12, <2>1, <2>2, <2>3 DEF CutGood
<1>14. ASSUME NEW i \in 1 .. n, i - 1 \in P PROVE i \in P
  <2>1. PICK s : s = h[i - 1] /\ s \in S /\ CutGood(s, runes, i - 1)
    BY <1>12, <1>14
  <2>2. h[i] = CutOnce(s)
    BY <1>7, <1>11, <2>1
  <2>3. CutOnce(s) \in S /\ CutTurn(CutOnce(s), s)
    BY <1>1, <2>1, CutOnceFacts
  <2>4. CutGood(CutOnce(s), runes, i)
    BY <1>1, <2>1, <2>3, CutTurnGood
  <2> QED
    BY <1>7, <1>12, <2>2, <2>3, <2>4
<1>15. \A i \in 0 .. n : i \in P
  BY <1>2, <1>13, <1>14, UpTo
<1>16. h[n] \in S /\ CutGood(h[n], runes, n)
  BY <1>2, <1>12, <1>15
<1> QED
  BY <1>1, <1>10, <1>16

(* chunkText of a plain text: nothing is lost or invented, no chunk is      *)
(* empty and none is too long, but for a newline at its end.                *)
LEMMA PlainFaithful ==
    ASSUME NEW runes \in Seq(Nat)
    PROVE  /\ CutRunes(runes) \in Seq(Seq(Nat)) /\ CutRunes(runes) # <<>>
           /\ PlainChunksFaithful(runes, CutRunes(runes))
<1>1. PICK c : c = CutRunes(runes)
  OBVIOUS
<1>2. Len(runes) \in Nat /\ Limit \in Nat
  BY LimitAssumption
<1>3. CASE Len(runes) <= Limit
  <2>1. c = <<runes>>
    BY <1>1, <1>3 DEF CutRunes
  <2>2. c \in Seq(Seq(Nat)) /\ c # <<>> /\ DOMAIN c = {1} /\ c[1] = runes
    BY <2>1
  <2>3. FlattenSeq(c) = runes
    <3>1. PICK e : e = <<>>
      OBVIOUS
    <3>2. e \in Seq(Seq(Nat)) /\ c = Append(e, runes) /\ FlattenSeq(e) = <<>>
      BY <2>1, <3>1, FlattenEmpty
    <3>3. FlattenSeq(e) \in Seq(Nat)
      BY <3>2
    <3>4. FlattenSeq(Append(e, runes)) = FlattenSeq(e) \o runes
      BY <3>2, <3>3, FlattenAppend
    <3> QED
      BY <3>2, <3>4
  <2> QED
    BY <1>1, <1>3, <2>2, <2>3 DEF PlainChunksFaithful
<1>4. CASE ~(Len(runes) <= Limit)
  <2>1. Len(runes) > Limit
    BY <1>2, <1>4
  <2>2. PICK s \in Cuts : s.out = c /\ CutGood(s, runes, Len(runes))
    BY <1>1, <2>1, CutRun
  <2>3. PICK f, r : f = FlattenSeq(c) /\ r = s.rest
    OBVIOUS
  <2>4. /\ c \in Seq(Seq(Nat)) /\ r \in Seq(Nat) /\ f \in Seq(Nat)
        /\ f \o r = runes /\ Len(r) + Len(runes) <= Len(runes)
    BY <2>2, <2>3 DEF CutGood, Cuts
  <2>5. r = <<>>
    BY <1>2, <2>4
  <2>6. f = runes
    BY <2>4, <2>5
  <2>7. c # <<>>
    <3>1. runes # <<>>
      BY <1>2, <2>1
    <3> QED
      BY <2>3, <2>6, <3>1, FlattenEmpty
  <2>8. \A i \in DOMAIN c : ChunkFits(c[i])
    BY <2>2 DEF CutGood
  <2> QED
    BY <1>1, <2>3, <2>4, <2>6, <2>7, <2>8 DEF PlainChunksFaithful, ChunkFits
<1> QED
  BY <1>3, <1>4
-----------------------------------------------------------------------------
(* h is the function that Unfenced computes for the lines of l. *)
KeepsLines(h, l) ==
    \A i \in 0 .. Len(l) :
        h[i] = IF i = 0 THEN <<>>
               ELSE IF l[i].fence = NoFence THEN Append(h[i - 1], l[i]) ELSE h[i - 1]

(* The lines that are no fences, one after another. *)
LEMMA UnfencedRun ==
    ASSUME NEW l \in Seq(LineType) PROVE \E h : KeepsLines(h, l) /\ Unfenced(l) = h[Len(l)]
<1>1. PICK n, S, b : n = Len(l) /\ S = Seq(LineType) /\ b = <<>>
  OBVIOUS
<1>2. n \in Nat /\ b \in S /\ \A i \in 1 .. n : l[i] \in LineType
  BY <1>1
<1>3. PICK g : g = [i \in 1 .. n |->
                      [x \in S |-> IF l[i].fence = NoFence THEN Append(x, l[i]) ELSE x]]
  OBVIOUS
<1>4. ASSUME NEW i \in 1 .. n
      PROVE  /\ g[i] \in [S -> S]
             /\ \A x \in S : g[i][x] = IF l[i].fence = NoFence THEN Append(x, l[i]) ELSE x
  <2>1. \A x \in S : Append(x, l[i]) \in S
    BY <1>1, <1>2
  <2> QED
    BY <1>3, <2>1
<1>5. PICK f \in [0 .. n -> S] : LoopRun(n, b, g, f)
  BY <1>2, <1>4, LoopHasRun
<1>6. \A i \in 0 .. n : f[i] = IF i = 0 THEN b ELSE g[i][f[i - 1]]
  BY <1>5, Zenon DEF LoopRun
<1>7. ASSUME NEW i \in 0 .. n
      PROVE  f[i] = IF i = 0 THEN <<>>
                    ELSE IF l[i].fence = NoFence THEN Append(f[i - 1], l[i]) ELSE f[i - 1]
  <2>1. CASE i = 0
    BY <1>1, <1>6, <2>1
  <2>2. CASE i # 0
    <3>1. i \in 1 .. n /\ i - 1 \in 0 .. n
      BY <1>2, <2>2
    <3>2. f[i - 1] \in S /\ f[i] = g[i][f[i - 1]]
      BY <1>5, <1>6, <2>2, <3>1
    <3> QED
      BY <1>4, <2>2, <3>1, <3>2
  <2> QED
    BY <2>1, <2>2
<1> DEFINE Loop(h) == h = [i \in 0 .. Len(l) |->
                             IF i = 0 THEN <<>>
                             ELSE IF l[i].fence = NoFence THEN Append(h[i - 1], l[i]) ELSE h[i - 1]]
<1>8. Loop(f)
  BY <1>1, <1>5, <1>7, Zenon
<1>9. PICK h : Loop(h) /\ Unfenced(l) = h[Len(l)]
  <2>1. Unfenced(l) = (CHOOSE h : Loop(h))[Len(l)]
    BY DEF Unfenced
  <2>2. Loop(CHOOSE h : Loop(h))
    <3> HIDE DEF Loop
    <3> QED
      BY <1>8, Zenon
  <2> QED
    BY <2>1, <2>2, Zenon
<1>10. KeepsLines(h, l)
  BY <1>9, Zenon DEF KeepsLines
<1> QED
  BY <1>9, <1>10

(* One more line is kept unless it is a fence. *)
LEMMA UnfencedAppend ==
    ASSUME NEW l \in Seq(LineType), NEW x \in LineType
    PROVE  Unfenced(Append(l, x)) = IF x.fence = NoFence THEN Append(Unfenced(l), x) ELSE Unfenced(l)
<1>1. PICK t, n : t = Append(l, x) /\ n = Len(l)
  OBVIOUS
<1>2. /\ t \in Seq(LineType) /\ n \in Nat /\ Len(t) = n + 1
      /\ t[n + 1] = x /\ \A i \in 1 .. n : t[i] = l[i]
  BY <1>1
<1>3. PICK k : KeepsLines(k, t) /\ Unfenced(t) = k[Len(t)]
  BY <1>2, UnfencedRun
<1>4. PICK h : KeepsLines(h, l) /\ Unfenced(l) = h[Len(l)]
  BY UnfencedRun
<1>5. PICK P : P = {i \in 0 .. n : k[i] = h[i]}
  OBVIOUS
<1>6. 0 \in P
  <2>1. 0 \in 0 .. Len(t) /\ 0 \in 0 .. Len(l) /\ 0 \in 0 .. n
    BY <1>1, <1>2
  <2>2. k[0] = <<>> /\ h[0] = <<>>
    BY <1>3, <1>4, <2>1 DEF KeepsLines
  <2> QED
    BY <1>5, <2>1, <2>2
<1>7. ASSUME NEW i \in 1 .. n, i - 1 \in P PROVE i \in P
  <2>1. i \in 0 .. Len(t) /\ i \in 0 .. Len(l) /\ i \in 0 .. n /\ i # 0 /\ t[i] = l[i]
    BY <1>1, <1>2
  <2>2. h[i] = IF l[i].fence = NoFence THEN Append(h[i - 1], l[i]) ELSE h[i - 1]
    BY <1>4, <2>1 DEF KeepsLines
  <2>3. k[i] = IF t[i].fence = NoFence THEN Append(k[i - 1], t[i]) ELSE k[i - 1]
    BY <1>3, <2>1 DEF KeepsLines
  <2>4. k[i - 1] = h[i - 1]
    BY <1>5, <1>7
  <2> QED
    BY <1>5, <2>1, <2>2, <2>3, <2>4
<1>8. \A i \in 0 .. n : i \in P
  BY <1>2, <1>6, <1>7, UpTo
<1>9. k[n] = h[n]
  BY <1>2, <1>5, <1>8
<1>10. PICK m : m = n + 1 /\ m \in 0 .. Len(t) /\ m # 0 /\ m - 1 = n
  BY <1>2
<1>11. k[m] = IF t[m].fence = NoFence THEN Append(k[m - 1], t[m]) ELSE k[m - 1]
  BY <1>3, <1>10 DEF KeepsLines
<1> QED
  BY <1>1, <1>2, <1>3, <1>4, <1>9, <1>10, <1>11

(* A line adds one to the fences if it is one. *)
LEMMA FencesAppend ==
    ASSUME NEW l \in Seq(LineType), NEW x \in LineType
    PROVE  /\ Fences(l) \in Nat
           /\ Fences(Append(l, x)) = IF x.fence = NoFence THEN Fences(l) ELSE Fences(l) + 1
<1>1. PICK t, n : t = Append(l, x) /\ n = Len(l)
  OBVIOUS
<1>2. /\ t \in Seq(LineType) /\ n \in Nat /\ DOMAIN t = 1 .. n + 1 /\ DOMAIN l = 1 .. n
      /\ t[n + 1] = x /\ \A i \in 1 .. n : t[i] = l[i]
  BY <1>1
<1>3. PICK A, B : A = {i \in DOMAIN l : l[i].fence # NoFence} /\ B = {i \in DOMAIN t : t[i].fence # NoFence}
  OBVIOUS
<1>4. B = IF x.fence = NoFence THEN A ELSE A \cup {n + 1}
  <2>1. \A i : i \in 1 .. n + 1 <=> i \in 1 .. n \/ i = n + 1
    BY <1>2
  <2> QED
    BY <1>2, <1>3, <2>1
<1>5. n + 1 \notin A
  BY <1>2, <1>3
<1>6. IsFiniteSet(A)
  <2>1. IsFiniteSet(1 .. n)
    BY <1>2, FS_Interval
  <2> QED
    BY <1>2, <1>3, <2>1, FS_Subset
<1>7. Cardinality(A) \in Nat /\ Cardinality(A \cup {n + 1}) = Cardinality(A) + 1
  BY <1>5, <1>6, FS_CardinalityType, FS_AddElement
<1>8. Fences(l) = Cardinality(A) /\ Fences(t) = Cardinality(B)
  BY <1>3 DEF Fences
<1> QED
  BY <1>1, <1>4, <1>7, <1>8

(* No lines, no fences. *)
LEMMA NoLines == Fences(<<>>) = 0 /\ Unfenced(<<>>) = <<>>
<1>1. PICK e : e = <<>>
  OBVIOUS
<1>2. e \in Seq(LineType) /\ Len(e) = 0 /\ DOMAIN e = {}
  BY <1>1
<1>3. Fences(e) = 0
  <2>1. {i \in DOMAIN e : e[i].fence # NoFence} = {}
    BY <1>2
  <2> QED
    BY <2>1, FS_EmptySet DEF Fences
<1>4. PICK h : KeepsLines(h, e) /\ Unfenced(e) = h[Len(e)]
  BY <1>2, UnfencedRun
<1>5. h[0] = <<>>
  BY <1>2, <1>4 DEF KeepsLines
<1> QED
  BY <1>1, <1>2, <1>3, <1>4, <1>5
-----------------------------------------------------------------------------
(* The states of SplitWithCodeFences. *)
Buffers == [out : Seq(Seq(LineType)), buf : Seq(LineType), bufLen : Nat,
            open : {NoFence} \cup Seq(Nat)]

(* The chunks that are out and the buffer hold the lines u and fences. *)
Holds(s, u) ==
    /\ FlattenSeq(s.out) \in Seq(LineType)
    /\ Unfenced(FlattenSeq(s.out) \o s.buf) = u

(* The chunks that are out close the fences they open, and the buffer is    *)
(* inside a fence exactly when one is open.                                 *)
Balanced(s) ==
    /\ \A j \in DOMAIN s.out : Fences(s.out[j]) % 2 = 0
    /\ Fences(s.buf) % 2 = IF s.open = NoFence THEN 0 ELSE 1

(* Fences are lines. *)
LEMMA FenceLineType ==
    ASSUME NEW x \in Seq(Nat), x # NoFence PROVE FenceLine(x) \in LineType /\ FenceLine(x).fence # NoFence
  BY DEF FenceLine, LineType

(* One more chunk in which the fences are closed leaves all of them so. *)
LEMMA BalancedAppend ==
    ASSUME NEW o \in Seq(Seq(LineType)), NEW c \in Seq(LineType), Fences(c) % 2 = 0,
           \A j \in DOMAIN o : Fences(o[j]) % 2 = 0
    PROVE  \A j \in DOMAIN Append(o, c) : Fences(Append(o, c)[j]) % 2 = 0
<1>1. PICK t, n : t = Append(o, c) /\ n = Len(o)
  OBVIOUS
<1>2. /\ n \in Nat /\ DOMAIN t = 1 .. n + 1 /\ DOMAIN o = 1 .. n
      /\ t[n + 1] = c /\ \A i \in 1 .. n : t[i] = o[i]
  BY <1>1
<1>3. ASSUME NEW j \in DOMAIN t PROVE Fences(t[j]) % 2 = 0
  <2>1. CASE j = n + 1
    BY <1>2, <2>1
  <2>2. CASE j # n + 1
    <3>1. j \in 1 .. n
      BY <1>2, <2>2
    <3> QED
      BY <1>2, <3>1
  <2> QED
    BY <2>1, <2>2
<1> QED
  BY <1>1, <1>3

(* A line that follows what is joined. *)
LEMMA JoinLine ==
    ASSUME NEW a \in Seq(LineType), NEW b \in Seq(LineType), NEW x \in LineType
    PROVE  a \o Append(b, x) = Append(a \o b, x) /\ a \o <<x>> = Append(a, x)
  OBVIOUS

(* flush moves the buffer out, with a fence that is open closed there and   *)
(* opened again: no line is lost and the fences stay balanced.              *)
LEMMA FlushFacts ==
    ASSUME NEW s \in Buffers, NEW u, Holds(s, u), Balanced(s)
    PROVE  /\ flush(s) \in Buffers /\ Holds(flush(s), u) /\ Balanced(flush(s))
           /\ flush(s).open = s.open
           /\ s.buf # <<>> => flush(s).out # <<>> /\ Unfenced(FlattenSeq(flush(s).out)) = u
<1>1. PICK o, b, w, t : o = s.out /\ b = s.buf /\ w = s.open /\ t = flush(s)
  OBVIOUS
<1>2. /\ o \in Seq(Seq(LineType)) /\ b \in Seq(LineType) /\ w \in {NoFence} \cup Seq(Nat)
      /\ s = [out |-> o, buf |-> b, bufLen |-> s.bufLen, open |-> w] /\ s.bufLen \in Nat
  BY <1>1 DEF Buffers
<1>3. PICK f : f = FlattenSeq(o)
  OBVIOUS
<1>4. f \in Seq(LineType) /\ Unfenced(f \o b) = u
  BY <1>1, <1>3 DEF Holds
<1>5. (\A j \in DOMAIN o : Fences(o[j]) % 2 = 0) /\ Fences(b) % 2 = IF w = NoFence THEN 0 ELSE 1
  BY <1>1 DEF Balanced
<1>6. CASE b = <<>>
  BY <1>1, <1>6 DEF flush
<1>7. CASE b # <<>> /\ w = NoFence
  <2>1. PICK e : e = <<>>
    OBVIOUS
  <2>2. t = [out |-> Append(o, b), buf |-> e, bufLen |-> 0, open |-> w]
    BY <1>1, <1>2, <1>7, <2>1 DEF flush
  <2>3. t.out = Append(o, b) /\ t.buf = e /\ t.open = w
    BY <2>2
  <2>4. t \in Buffers /\ t.out # <<>>
    <3>1. Append(o, b) \in Seq(Seq(LineType)) /\ Append(o, b) # <<>>
      BY <1>2, AppendProperties
    <3>2. e \in Seq(LineType)
      BY <2>1
    <3> QED
      BY <1>2, <2>2, <2>3, <3>1, <3>2 DEF Buffers
  <2>5. FlattenSeq(t.out) = f \o b
    BY <1>2, <1>3, <1>4, <2>3, FlattenAppend
  <2>6. f \o b \in Seq(LineType) /\ (f \o b) \o e = f \o b
    BY <1>2, <1>4, <2>1
  <2>7. Holds(t, u) /\ Unfenced(FlattenSeq(t.out)) = u
    BY <1>4, <2>3, <2>5, <2>6 DEF Holds
  <2>8. Fences(e) % 2 = 0
    BY <2>1, NoLines
  <2>9. Fences(b) % 2 = 0
    BY <1>5, <1>7
  <2>10. \A j \in DOMAIN t.out : Fences(t.out[j]) % 2 = 0
    BY <1>2, <1>5, <2>3, <2>9, BalancedAppend
  <2>11. Balanced(t)
    BY <1>7, <2>3, <2>8, <2>10 DEF Balanced
  <2> QED
    BY <1>1, <2>3, <2>4, <2>7, <2>11
<1>8. CASE b # <<>> /\ w # NoFence
  <2>1. PICK e, F, G : e = <<>> /\ F = FenceLine(e) /\ G = FenceLine(w)
    OBVIOUS
  <2>2. /\ F \in LineType /\ F.fence # NoFence /\ G \in LineType /\ G.fence # NoFence
        /\ w \in Seq(Nat) /\ e \in Seq(LineType)
    <3>1. w \in Seq(Nat) /\ e \in Seq(Nat) /\ e # NoFence /\ e \in Seq(LineType)
      BY <1>2, <1>8, <2>1, FenceAssumption
    <3> QED
      BY <1>8, <2>1, <3>1, FenceLineType
  <2>3. PICK c, d : c = Append(b, F) /\ d = <<G>>
    OBVIOUS
  <2>4. c \in Seq(LineType) /\ d \in Seq(LineType) /\ d = Append(e, G)
    BY <1>2, <2>1, <2>2, <2>3
  <2>5. t = [out |-> Append(o, c), buf |-> d, bufLen |-> 3 + Len(w), open |-> w]
    BY <1>1, <1>2, <1>8, <2>1, <2>3 DEF flush
  <2>6. t.out = Append(o, c) /\ t.buf = d /\ t.open = w
    BY <2>5
  <2>7. 3 + Len(w) \in Nat
    BY <2>2
  <2>8. t \in Buffers /\ t.out # <<>>
    <3>1. o \in Seq(Seq(LineType)) /\ c \in Seq(LineType)
      BY <1>2, <2>4
    <3>2. Append(o, c) \in Seq(Seq(LineType)) /\ Append(o, c) # <<>>
      BY <3>1, AppendProperties
    <3> QED
      BY <2>2, <2>4, <2>5, <2>6, <2>7, <3>2 DEF Buffers
  <2>9. FlattenSeq(t.out) = f \o c
    BY <1>2, <1>3, <1>4, <2>4, <2>6, FlattenAppend
  <2>10. /\ f \o b \in Seq(LineType) /\ f \o c \in Seq(LineType)
         /\ f \o c = Append(f \o b, F) /\ (f \o c) \o d = Append(f \o c, G)
    <3>1. f \o b \in Seq(LineType) /\ f \o c \in Seq(LineType)
      BY <1>2, <1>4, <2>4
    <3>2. f \o c = Append(f \o b, F)
      BY <1>2, <1>4, <2>2, <2>3, JoinLine
    <3>3. PICK a \in Seq(LineType) : a = f \o c
      BY <3>1
    <3>4. a \o d = Append(a, G)
      BY <2>2, <2>3, JoinLine
    <3> QED
      BY <3>1, <3>2, <3>3, <3>4
  <2>11. Unfenced(f \o c) = u
    BY <1>4, <2>2, <2>10, UnfencedAppend
  <2>12. Unfenced((f \o c) \o d) = u
    BY <2>2, <2>10, <2>11, UnfencedAppend
  <2>13. Holds(t, u) /\ Unfenced(FlattenSeq(t.out)) = u
    BY <2>6, <2>9, <2>10, <2>11, <2>12 DEF Holds
  <2>14. Fences(c) % 2 = 0
    <3>1. Fences(b) \in Nat /\ Fences(c) = Fences(b) + 1
      BY <1>2, <2>2, <2>3, FencesAppend
    <3>2. Fences(b) % 2 = 1
      BY <1>5, <1>8
    <3> QED
      BY <3>1, <3>2
  <2>15. Fences(d) % 2 = 1
    <3>1. Fences(d) = Fences(e) + 1 /\ Fences(e) = 0
      BY <2>1, <2>2, <2>4, FencesAppend, NoLines
    <3> QED
      BY <3>1
  <2>16. \A j \in DOMAIN t.out : Fences(t.out[j]) % 2 = 0
    BY <1>2, <1>5, <2>4, <2>6, <2>14, BalancedAppend
  <2>17. Balanced(t)
    BY <1>8, <2>6, <2>15, <2>16 DEF Balanced
  <2> QED
    BY <1>1, <2>6, <2>8, <2>13, <2>17
<1> QED
  BY <1>6, <1>7, <1>8

(* A line of the loop: a flush if need be, and the line goes to the buffer. *)
LEMMA AddLineFacts ==
    ASSUME NEW s \in Buffers, NEW u, Holds(s, u), Balanced(s), NEW x \in LineType
    PROVE  /\ AddLine(s, x) \in Buffers /\ Balanced(AddLine(s, x)) /\ AddLine(s, x).buf # <<>>
           /\ Holds(AddLine(s, x), IF x.fence = NoFence THEN Append(u, x) ELSE u)
<1>1. PICK t, n : /\ t \in Buffers /\ Holds(t, u) /\ Balanced(t) /\ n \in Nat
                  /\ AddLine(s, x) = [t EXCEPT !.buf = Append(@, x), !.bufLen = @ + n,
                                                !.open = IF x.fence = NoFence THEN @
                                                         ELSE IF @ = NoFence THEN x.fence ELSE NoFence]
  <2>1. PICK n : n = x.len + (IF s.buf = <<>> THEN 0 ELSE 1)
    OBVIOUS
  <2>2. n \in Nat
    BY <2>1 DEF LineType
  <2>3. PICK full : full = (\/ s.bufLen + n > Limit
                            \/ x.heading /\ 4 * s.bufLen > 3 * Limit /\ s.buf # <<>>)
    OBVIOUS
  <2>4. PICK t : t = IF full THEN flush(s) ELSE s
    OBVIOUS
  <2>5. t \in Buffers /\ Holds(t, u) /\ Balanced(t)
    BY <2>4, FlushFacts
  <2>6. AddLine(s, x) = [t EXCEPT !.buf = Append(@, x), !.bufLen = @ + n,
                                  !.open = IF x.fence = NoFence THEN @
                                           ELSE IF @ = NoFence THEN x.fence ELSE NoFence]
    BY <2>1, <2>3, <2>4, Zenon DEF AddLine
  <2> QED
    BY <2>2, <2>5, <2>6
<1>2. PICK o, b, w, a : o = t.out /\ b = t.buf /\ w = t.open /\ a = AddLine(s, x)
  OBVIOUS
<1>3. /\ o \in Seq(Seq(LineType)) /\ b \in Seq(LineType) /\ w \in {NoFence} \cup Seq(Nat)
      /\ t = [out |-> o, buf |-> b, bufLen |-> t.bufLen, open |-> w] /\ t.bufLen \in Nat
      /\ x.fence \in {NoFence} \cup Seq(Nat)
  BY <1>1, <1>2 DEF Buffers, LineType
<1>4. PICK v : v = IF x.fence = NoFence THEN w ELSE IF w = NoFence THEN x.fence ELSE NoFence
  OBVIOUS
<1>5. a = [out |-> o, buf |-> Append(b, x), bufLen |-> t.bufLen + n, open |-> v]
  BY <1>1, <1>2, <1>3, <1>4
<1>6. a.out = o /\ a.buf = Append(b, x) /\ a.open = v
  BY <1>5
<1>7. a \in Buffers /\ a.buf # <<>>
  <2>1. t.bufLen + n \in Nat /\ v \in {NoFence} \cup Seq(Nat)
    BY <1>1, <1>3, <1>4
  <2>2. Append(b, x) \in Seq(LineType) /\ Append(b, x) # <<>>
    BY <1>3
  <2> QED
    BY <1>3, <1>5, <1>6, <2>1, <2>2 DEF Buffers
<1>8. PICK f : f = FlattenSeq(o)
  OBVIOUS
<1>9. f \in Seq(LineType) /\ Unfenced(f \o b) = u
  BY <1>1, <1>2, <1>8 DEF Holds
<1>10. Unfenced(f \o Append(b, x)) = IF x.fence = NoFence THEN Append(u, x) ELSE u
  <2>1. f \o Append(b, x) = Append(f \o b, x)
    BY <1>3, <1>9, JoinLine
  <2>2. f \o b \in Seq(LineType)
    BY <1>3, <1>9
  <2> QED
    BY <1>9, <2>1, <2>2, UnfencedAppend
<1>11. Holds(a, IF x.fence = NoFence THEN Append(u, x) ELSE u)
  BY <1>6, <1>8, <1>9, <1>10 DEF Holds
<1>12. Balanced(a)
  <2>1. (\A j \in DOMAIN o : Fences(o[j]) % 2 = 0) /\ Fences(b) % 2 = IF w = NoFence THEN 0 ELSE 1
    BY <1>1, <1>2 DEF Balanced
  <2>2. Fences(b) \in Nat /\ Fences(Append(b, x)) = IF x.fence = NoFence THEN Fences(b) ELSE Fences(b) + 1
    BY <1>3, FencesAppend
  <2>3. Fences(Append(b, x)) % 2 = IF v = NoFence THEN 0 ELSE 1
    BY <1>4, <2>1, <2>2
  <2> QED
    BY <1>6, <2>1, <2>3 DEF Balanced
<1> QED
  BY <1>2, <1>7, <1>11, <1>12

(* What the loop has done after i lines. *)
SplitGood(s, lines, i) ==
    /\ s \in Buffers /\ Balanced(s) /\ Holds(s, Unfenced(SubSeq(lines, 1, i)))
    /\ i > 0 => s.buf # <<>>

(* The loop of SplitWithCodeFences, line by line. *)
LEMMA SplitRun ==
    ASSUME NEW lines \in Seq(LineType), ~(TextLen(lines) <= Limit)
    PROVE  \E s : SplitWithCodeFences(lines) = flush(s).out /\ SplitGood(s, lines, Len(lines))
<1>1. PICK n, S, b : /\ n = Len(lines) /\ b = EmptyBuffer
                     /\ S = {s \in Buffers : Balanced(s) /\ \E u : Holds(s, u)}
  OBVIOUS
<1>2. n \in Nat /\ \A i \in 1 .. n : lines[i] \in LineType
  BY <1>1
<1>3. b \in Buffers /\ Balanced(b) /\ Holds(b, <<>>)
  <2>1. PICK e : e = <<>>
    OBVIOUS
  <2>2. e \in Seq(Seq(LineType)) /\ e \in Seq(LineType) /\ DOMAIN e = {} /\ e \o e = e
    BY <2>1
  <2>3. b.out = e /\ b.buf = e /\ b.open = NoFence /\ b \in Buffers
    BY <1>1, <2>1, <2>2 DEF EmptyBuffer, Buffers
  <2>4. FlattenSeq(e) = e /\ Fences(e) = 0 /\ Unfenced(e) = <<>>
    BY <2>1, FlattenEmpty, NoLines
  <2>5. Balanced(b)
    BY <2>2, <2>3, <2>4 DEF Balanced
  <2>6. Holds(b, <<>>)
    BY <2>2, <2>3, <2>4 DEF Holds
  <2> QED
    BY <2>3, <2>5, <2>6
<1>4. PICK g : g = [i \in 1 .. n |-> [s \in S |-> AddLine(s, lines[i])]]
  OBVIOUS
<1>5. ASSUME NEW s \in S, NEW i \in 1 .. n PROVE AddLine(s, lines[i]) \in S
  <2>1. PICK u : Holds(s, u)
    BY <1>1
  <2>2. s \in Buffers /\ Balanced(s)
    BY <1>1
  <2>3. PICK x \in LineType : x = lines[i]
    BY <1>2
  <2>4. PICK v : v = IF x.fence = NoFence THEN Append(u, x) ELSE u
    OBVIOUS
  <2>5. AddLine(s, x) \in Buffers /\ Balanced(AddLine(s, x)) /\ Holds(AddLine(s, x), v)
    BY <2>1, <2>2, <2>4, AddLineFacts
  <2> QED
    BY <1>1, <2>3, <2>5
<1>6. \A i \in 1 .. n : g[i] \in [S -> S] /\ \A s \in S : g[i][s] = AddLine(s, lines[i])
  BY <1>4, <1>5
<1>7. b \in S
  BY <1>1, <1>3
<1>8. PICK f \in [0 .. n -> S] : LoopRun(n, b, g, f)
  BY <1>2, <1>6, <1>7, LoopHasRun
<1>9. \A i \in 0 .. n : f[i] = IF i = 0 THEN b ELSE g[i][f[i - 1]]
  BY <1>8, Zenon DEF LoopRun
<1>10. \A i \in 1 .. n : i # 0 /\ i \in 0 .. n /\ i - 1 \in 0 .. n /\ i - 1 \in Nat
  BY <1>2
<1>11. \A i \in 0 .. n : f[i] = IF i = 0 THEN b ELSE AddLine(f[i - 1], lines[i])
  <2> SUFFICES ASSUME NEW i \in 0 .. n, i # 0 PROVE f[i] = AddLine(f[i - 1], lines[i])
    BY <1>9
  <2>1. i \in 1 .. n /\ f[i - 1] \in S
    BY <1>2, <1>8, <1>10
  <2> QED
    BY <1>6, <1>9, <2>1
<1> DEFINE Loop(h) == h = [i \in 0 .. Len(lines) |->
                             IF i = 0 THEN EmptyBuffer ELSE AddLine(h[i - 1], lines[i])]
<1>12. Loop(f)
  BY <1>1, <1>8, <1>11, Zenon
<1>13. PICK h : Loop(h) /\ SplitWithCodeFences(lines) = flush(h[Len(lines)]).out
  <2>1. SplitWithCodeFences(lines) = flush((CHOOSE h : Loop(h))[Len(lines)]).out
    BY Zenon DEF SplitWithCodeFences
  <2>2. Loop(CHOOSE h : Loop(h))
    <3> HIDE DEF Loop
    <3> QED
      BY <1>12, Zenon
  <2> QED
    BY <2>1, <2>2, Zenon
<1>14. \A i \in 0 .. n : h[i] = IF i = 0 THEN b ELSE AddLine(h[i - 1], lines[i])
  BY <1>1, <1>13, Zenon
<1>15. PICK P : P = {i \in 0 .. n : SplitGood(h[i], lines, i)}
  OBVIOUS
<1>16. 0 \in P
  <2>1. h[0] = b
    BY <1>2, <1>14
  <2>2. SubSeq(lines, 1, 0) = <<>>
    OBVIOUS
  <2>3. Unfenced(SubSeq(lines, 1, 0)) = <<>>
    BY <2>2, NoLines
  <2> QED
    BY <1>2, <1>3, <1>15, <2>1, <2>3 DEF SplitGood
<1>17. ASSUME NEW i \in 1 .. n, i - 1 \in P PROVE i \in P
  <2>1. PICK s, x, l, u : s = h[i - 1] /\ x = lines[i] /\ l = SubSeq(lines, 1, i - 1) /\ u = Unfenced(l)
    OBVIOUS
  <2>2. s \in Buffers /\ Balanced(s) /\ Holds(s, u) /\ x \in LineType
    BY <1>2, <1>15, <1>17, <2>1 DEF SplitGood
  <2>3. PICK v, t : v = (IF x.fence = NoFence THEN Append(u, x) ELSE u) /\ t = AddLine(s, x)
    OBVIOUS
  <2>4. t \in Buffers /\ Balanced(t) /\ t.buf # <<>> /\ Holds(t, v)
    BY <2>2, <2>3, AddLineFacts
  <2>5. h[i] = t
    BY <1>10, <1>14, <2>1, <2>3
  <2>6. SubSeq(lines, 1, i) = Append(l, x) /\ l \in Seq(LineType)
    <3>1. i - 1 \in 0 .. Len(lines) /\ i \in 1 .. Len(lines)
      BY <1>1, <1>2
    <3>2. l \in Seq(LineType)
      BY <2>1, <3>1
    <3>3. SubSeq(lines, 1, i) = l \o <<x>>
      BY <2>1, <3>1, SubSeqRecursiveSecond
    <3> QED
      BY <2>2, <3>2, <3>3, JoinLine
  <2>7. Unfenced(SubSeq(lines, 1, i)) = v
    <3>1. Unfenced(Append(l, x)) = IF x.fence = NoFence THEN Append(Unfenced(l), x) ELSE Unfenced(l)
      BY <2>2, <2>6, UnfencedAppend
    <3> QED
      BY <2>1, <2>3, <2>6, <3>1
  <2> QED
    BY <1>10, <1>15, <2>4, <2>5, <2>7 DEF SplitGood
<1>18. \A i \in 0 .. n : i \in P
  BY <1>2, <1>16, <1>17, UpTo
<1>19. SplitGood(h[n], lines, n)
  BY <1>2, <1>15, <1>18
<1> QED
  BY <1>1, <1>13, <1>19

(* SplitWithCodeFences keeps the lines in their order, and every chunk      *)
(* closes the fences it opens.                                              *)
LEMMA FencedFaithful ==
    ASSUME NEW lines \in Seq(LineType), lines # <<>>
    PROVE  /\ SplitWithCodeFences(lines) # <<>> /\ SplitWithCodeFences(lines) \in Seq(Seq(LineType))
           /\ FencedChunksFaithful(lines, SplitWithCodeFences(lines))
<1>1. PICK c : c = SplitWithCodeFences(lines)
  OBVIOUS
<1>2. CASE TextLen(lines) <= Limit
  <2>1. c = <<lines>>
    BY <1>1, <1>2 DEF SplitWithCodeFences
  <2>2. c \in Seq(Seq(LineType)) /\ c # <<>> /\ Len(c) = 1
    BY <2>1
  <2>3. FlattenSeq(c) = lines
    <3>1. PICK e : e = <<>>
      OBVIOUS
    <3>2. e \in Seq(Seq(LineType)) /\ c = Append(e, lines) /\ FlattenSeq(e) = <<>>
      BY <2>1, <3>1, FlattenEmpty
    <3>3. FlattenSeq(e) \in Seq(LineType)
      BY <3>2
    <3>4. FlattenSeq(Append(e, lines)) = FlattenSeq(e) \o lines
      BY <3>2, <3>3, FlattenAppend
    <3> QED
      BY <3>2, <3>4
  <2> QED
    BY <1>1, <2>2, <2>3 DEF FencedChunksFaithful
<1>3. CASE ~(TextLen(lines) <= Limit)
  <2>1. PICK s : c = flush(s).out /\ SplitGood(s, lines, Len(lines))
    BY <1>1, <1>3, SplitRun
  <2>2. SubSeq(lines, 1, Len(lines)) = lines /\ Len(lines) > 0
    BY SubSeqFull
  <2>3. PICK u : u = Unfenced(lines)
    OBVIOUS
  <2>4. s \in Buffers /\ Balanced(s) /\ Holds(s, u) /\ s.buf # <<>>
    BY <2>1, <2>2, <2>3 DEF SplitGood
  <2>5. /\ flush(s) \in Buffers /\ Balanced(flush(s)) /\ flush(s).out # <<>>
        /\ Unfenced(FlattenSeq(flush(s).out)) = u
    BY <2>4, FlushFacts
  <2>6. c \in Seq(Seq(LineType)) /\ c # <<>>
    BY <2>1, <2>5 DEF Buffers
  <2>7. \A j \in DOMAIN c : Fences(c[j]) % 2 = 0
    BY <2>1, <2>5 DEF Balanced
  <2> QED
    BY <1>1, <2>1, <2>3, <2>5, <2>6, <2>7 DEF FencedChunksFaithful
<1> QED
  BY <1>2, <1>3
-----------------------------------------------------------------------------
(* The types of TypeOK, and what they need beside them: a pause is never    *)
(* longer than the back-off, ...                                            *)
ClientTypes ==
    /\ bucket.pause <= Backoff
    /\ life \in Nat /\ tokenMu \in Procs \cup {NoProc}
    /\ pc \in [Procs -> {"idle", "wait", "asleep", "get", "fetch", "send", "answered", "pause",
                         "cut", "slow", "done"}]
    /\ exchange \in [Procs -> {"none", "api", "hook", "info"}]
    /\ held \in [Procs -> Nat] /\ sleep \in [Procs -> Nat] /\ payload \in [Procs -> Nat]
    /\ answer \in [Procs -> {"none", "ok", "again", "qps", "gone", "denied"}]

Flags ==
    /\ again \in [Procs -> BOOLEAN] /\ ctxDone \in [Procs -> BOOLEAN]
    /\ known \in BOOLEAN /\ stale \in BOOLEAN

(* ... whoever pauses has an attempt left, ... *)
SendTypes ==
    /\ index \in [Procs -> Nat] /\ pieces \in [Procs -> Nat] /\ attempt \in [Procs -> Nat]
    /\ via \in [Procs -> {"hook", "api"}] /\ result \in [Procs -> {"none", "nil", "err"}]
    /\ \A p \in Procs : /\ index[p] <= pieces[p] /\ attempt[p] <= MaxAttempts
                        /\ pc[p] = "pause" => attempt[p] < MaxAttempts

(* ... whoever has cut a text has its chunks. *)
Cutting ==
    /\ DOMAIN text = Procs /\ DOMAIN chunks = Procs
    /\ \A p \in Procs :
          /\ pc[p] = "cut" => chunks[p] # <<>>
          /\ chunks[p] # <<>> => text[p] \in Texts /\ chunks[p] = chunkText(text[p])

IdTypes ==
    /\ idMu \in Procs \cup {NoProc}
    /\ idAge \in 0 .. TTL /\ failAge \in 0 .. MinRefresh /\ fetchAge \in 0 .. MinRefresh

TypeInv == ClientTypes /\ Flags /\ SendTypes /\ Cutting /\ IdTypes

(* A text has chunks, and they are faithful to it. *)
LEMMA ChunkTextFacts ==
    ASSUME NEW t \in Texts
    PROVE  /\ chunkText(t) # <<>> /\ Len(chunkText(t)) \in Nat \ {0}
           /\ IF t.kind = "plain" THEN PlainChunksFaithful(t.runes, chunkText(t))
              ELSE FencedChunksFaithful(t.lines, chunkText(t))
<1>1. t \in TextType
  BY TextsAssumption
<1>2. CASE t \in [kind : {"plain"}, runes : Seq(Nat)]
  <2>1. t.kind = "plain" /\ t.runes \in Seq(Nat)
    BY <1>2
  <2>2. PICK c : c = CutRunes(t.runes)
    OBVIOUS
  <2>3. c \in Seq(Seq(Nat)) /\ c # <<>> /\ PlainChunksFaithful(t.runes, c)
    BY <2>1, <2>2, PlainFaithful
  <2>4. Len(c) \in Nat \ {0}
    BY <2>3
  <2> QED
    BY <2>1, <2>2, <2>3, <2>4 DEF chunkText
<1>3. CASE t \in [kind : {"fenced"}, lines : Seq(LineType) \ {<<>>}]
  <2>1. t.kind # "plain" /\ t.lines \in Seq(LineType) /\ t.lines # <<>>
    BY <1>3
  <2>2. PICK c : c = SplitWithCodeFences(t.lines)
    OBVIOUS
  <2>3. c \in Seq(Seq(LineType)) /\ c # <<>> /\ FencedChunksFaithful(t.lines, c)
    BY <2>1, <2>2, FencedFaithful
  <2>4. Len(c) \in Nat \ {0}
    BY <2>3
  <2> QED
    BY <2>1, <2>2, <2>3, <2>4 DEF chunkText
<1> QED
  BY <1>1, <1>2, <1>3 DEF TextType

(* A quotient of natural numbers is one. *)
LEMMA QuotientType == ASSUME NEW k \in Nat, NEW d \in Nat \ {0} PROVE k \div d \in Nat
  OBVIOUS

(* The sleep that waitFor computes is no negative time. *)
LEMMA NeedType ==
    ASSUME NEW b \in [tokens : 0 .. Capacity, age : Int, pause : Nat], ~HasToken(b) PROVE need(b) \in Nat
<1>1. PICK r : r = refill(b).tokens
  OBVIOUS
<1>2. r \in Nat /\ r < Unit
  <2>1. r \in 0 .. Capacity
    BY <1>1, RefillTokens
  <2> QED
    BY <1>1, <2>1, BucketTypes DEF HasToken
<1>3. Unit - r + PerTick - 1 \in Nat /\ PerTick \in Nat \ {0}
  BY <1>2, BucketAssumption
<1> QED
  BY <1>1, <1>3, QuotientType DEF need

(* The client's steps keep its types. *)
LEMMA ClientStepTypes ==
    ASSUME RateInv, RateInv', ClientTypes, NEW p \in Procs, ClientStep(p) PROVE ClientTypes'
<1> USE BucketTypes, TokenAssumption DEF ClientTypes, Goto, Answer, tokens, limits, wire
<1>0. bucket \in [tokens : 0 .. Capacity, age : Int, pause : Nat]
  BY DEF RateInv
<1>1. CASE WaitFor(p)
  <2>1. bucket'.pause = bucket.pause
    <3>1. /\ refill(bucket).pause = bucket.pause
          /\ refill(bucket) \in [tokens : 0 .. Capacity, age : Int, pause : Nat]
      BY <1>0, RefillTokens
    <3>2. take(bucket).pause = bucket.pause
      BY <3>1 DEF take
    <3> QED
      BY <1>1, <3>1, <3>2 DEF WaitFor
  <2>2. sleep' \in [Procs -> Nat]
    <3>1. bucket.pause \in Nat
      BY <1>0
    <3>2. ~HasToken(bucket) => need(bucket) \in Nat
      BY <1>0, NeedType
    <3> QED
      BY <1>1, <3>1, <3>2 DEF WaitFor
  <2> QED
    BY <1>1, <2>1, <2>2 DEF WaitFor
<1>2. CASE Wake(p) BY <1>2 DEF Wake
<1>3. CASE GetToken(p) BY <1>3 DEF GetToken
<1>4. CASE Fetched(p) BY <1>4 DEF Fetched
<1>5. CASE SendAnswered(p)
  <2>1. PICK a \in {"ok", "again", "gone", "denied"} : Answer(p, a)
    BY <1>5, Zenon DEF SendAnswered
  <2> QED
    BY <1>5, <2>1 DEF SendAnswered, Sent
<1>6. CASE SendLimited(p)
  <2>1. bucket'.pause <= Backoff
    BY <1>6 DEF SendLimited, triggerBackoff
  <2> QED
    BY <1>6, <2>1 DEF SendLimited, Sent
<1> QED
  BY <1>1, <1>2, <1>3, <1>4, <1>5, <1>6 DEF ClientStep

(* No other step gives the client's state another type. *)
LEMMA NextClientTypes ==
    ASSUME RateInv, RateInv', ClientTypes, SendTypes, [Next]_vars PROVE ClientTypes'
<1> USE BucketTypes DEF ClientTypes, SendTypes, Goto, Begin, Attempt, Done, GiveUp, Answered,
            clientrest, callrest, tokens, limits, wire, callvars
<1>1. CASE UNCHANGED vars BY <1>1 DEF vars
<1>2. CASE Tick
  <2>1. bucket \in [tokens : 0 .. Capacity, age : Int, pause : Nat]
    BY DEF RateInv
  <2>2. bucket'.pause <= Backoff
    BY <1>2, <2>1 DEF Tick, Elapse, Pass
  <2>3. life' \in Nat
    BY <1>2 DEF Tick, Elapse
  <2>4. held' \in [Procs -> Nat]
    BY <1>2 DEF Tick, Elapse
  <2>5. sleep' \in [Procs -> Nat]
    BY <1>2 DEF Tick, Elapse
  <2>6. UNCHANGED <<tokenMu, pc, exchange, answer, payload>>
    BY <1>2 DEF Tick, Elapse
  <2> QED
    BY <2>2, <2>3, <2>4, <2>5, <2>6
<1>3. ASSUME NEW p \in Procs, Text(p) \/ ProactiveSend(p) \/ CallStart(p) \/ IdentityFast(p)
      PROVE ClientTypes'
  <2>1. CASE Text(p) BY <2>1 DEF Text
  <2>2. CASE ProactiveSend(p) BY <2>2 DEF ProactiveSend
  <2>3. CASE CallStart(p) BY <2>3 DEF CallStart
  <2>4. CASE IdentityFast(p)
    <3>1. PICK l \in {"idle", "slow"} : Goto(p, l)
      BY <2>4, Zenon DEF IdentityFast
    <3> QED
      BY <2>4, <3>1 DEF IdentityFast
  <2> QED
    BY <1>3, <2>1, <2>2, <2>3, <2>4
<1>4. ASSUME NEW p \in Procs, Client(p) PROVE ClientTypes'
  BY <1>4, ClientStepTypes DEF Client
<1>5. ASSUME NEW p \in Procs, SendChunks(p) \/ Delivered(p) \/ Failed(p) \/ Retry(p)
      PROVE ClientTypes'
  <2>1. index[p] \in Nat /\ via[p] \in {"hook", "api"}
    OBVIOUS
  <2>2. CASE SendChunks(p) BY <2>2 DEF SendChunks
  <2>3. CASE Delivered(p) BY <2>1, <2>3 DEF Delivered
  <2>4. CASE Failed(p) BY <2>1, <2>4 DEF Failed
  <2>5. CASE Retry(p) BY <2>1, <2>5 DEF Retry
  <2> QED
    BY <1>5, <2>2, <2>3, <2>4, <2>5
<1>6. ASSUME NEW p \in Procs, CallEnd(p) \/ IdentitySlow(p) \/ IdentityFetched(p)
      PROVE ClientTypes'
  BY <1>6 DEF CallEnd, IdentitySlow, IdentityFetched
<1>7. ASSUME NEW p \in Procs, CallerCancels(p) PROVE ClientTypes'
  BY <1>7 DEF CallerCancels, Cancel
<1> QED
  BY <1>1, <1>2, <1>3, <1>4, <1>5, <1>6, <1>7 DEF Next, Running

(* at most the flag of one goroutine is set or cleared *)
Flips(new, old) == new = old \/ \E p \in Procs, v \in BOOLEAN : new = [old EXCEPT ![p] = v]

(* Functions to flags stay such. *)
LEMMA FlipsType ==
    ASSUME NEW f \in [Procs -> BOOLEAN], NEW g, Flips(g, f) PROVE g \in [Procs -> BOOLEAN]
  BY Zenon DEF Flips

(* Flags stay flags. *)
LEMMA NextFlags == ASSUME Flags, [Next]_vars PROVE Flags'
<1> USE DEF Goto, Begin, Attempt, Done, GiveUp, Answered, Answer, clientrest, callrest
<1>1. ASSUME NEW p \in Procs, ClientStep(p)
      PROVE  Flips(again', again) /\ ctxDone' = ctxDone /\ (stale' = stale \/ stale' = (stale \/ held[p] = 0))
  BY <1>1, Zenon DEF ClientStep, WaitFor, Wake, GetToken, Fetched, SendAnswered, SendLimited, Sent, Flips
<1>3. Flips(again', again)
  <2>1. CASE UNCHANGED vars BY <2>1, Zenon DEF vars, callvars, Flips
  <2>2. CASE Tick BY <2>2, Zenon DEF Tick, Elapse, Flips
  <2>3. ASSUME NEW p \in Procs, Text(p) \/ ProactiveSend(p) \/ CallStart(p) \/ IdentityFast(p)
        PROVE  Flips(again', again)
    BY <2>3, Zenon DEF Text, ProactiveSend, CallStart, IdentityFast, Flips
  <2>4. ASSUME NEW p \in Procs, Running(p) \/ CallerCancels(p) PROVE Flips(again', again)
    BY <1>1, <2>4, Zenon DEF Running, Client, SendChunks, Delivered, Failed, Retry, CallEnd, IdentitySlow,
       IdentityFetched, CallerCancels, Cancel, Flips
  <2> QED
    BY <2>1, <2>2, <2>3, <2>4, Zenon DEF Next
<1>4. Flips(ctxDone', ctxDone)
  <2>1. CASE UNCHANGED vars BY <2>1, Zenon DEF vars, callvars, Flips
  <2>2. CASE Tick BY <2>2, Zenon DEF Tick, Elapse, Flips
  <2>3. ASSUME NEW p \in Procs, Text(p) \/ ProactiveSend(p) \/ CallStart(p) \/ IdentityFast(p)
        PROVE  Flips(ctxDone', ctxDone)
    BY <2>3, Zenon DEF Text, ProactiveSend, CallStart, IdentityFast, Flips
  <2>4. ASSUME NEW p \in Procs, Running(p) \/ CallerCancels(p) PROVE Flips(ctxDone', ctxDone)
    BY <1>1, <2>4, Zenon DEF Running, Client, SendChunks, Delivered, Failed, Retry, CallEnd, IdentitySlow,
       IdentityFetched, CallerCancels, Cancel, Flips
  <2> QED
    BY <2>1, <2>2, <2>3, <2>4, Zenon DEF Next
<1>5. stale' \in BOOLEAN
  <2>1. CASE UNCHANGED vars BY <2>1, Zenon DEF vars, callvars, Flags
  <2>2. CASE Tick BY <2>2, Zenon DEF Tick, Elapse, Flags
  <2>3. ASSUME NEW p \in Procs, Text(p) \/ ProactiveSend(p) \/ CallStart(p) \/ IdentityFast(p)
        PROVE  stale' \in BOOLEAN
    BY <2>3, Zenon DEF Text, ProactiveSend, CallStart, IdentityFast, Flags
  <2>4. ASSUME NEW p \in Procs, Running(p) \/ CallerCancels(p) PROVE stale' \in BOOLEAN
    BY <1>1, <2>4, Zenon DEF Running, Client, SendChunks, Delivered, Failed, Retry, CallEnd, IdentitySlow,
       IdentityFetched, CallerCancels, Cancel, Flags
  <2> QED
    BY <2>1, <2>2, <2>3, <2>4, Zenon DEF Next
<1>6. known' \in BOOLEAN
  <2>1. CASE UNCHANGED vars BY <2>1, Zenon DEF vars, idvars, Flags
  <2>2. CASE Tick BY <2>2, Zenon DEF Tick, Flags
  <2>3. ASSUME NEW p \in Procs, Text(p) \/ ProactiveSend(p) \/ CallStart(p) \/ IdentityFast(p)
        PROVE  known' \in BOOLEAN
    BY <2>3, Zenon DEF Text, ProactiveSend, CallStart, IdentityFast, idvars, Flags
  <2>4. ASSUME NEW p \in Procs, Running(p) \/ CallerCancels(p) PROVE known' \in BOOLEAN
    BY <2>4, Zenon DEF Running, Client, SendChunks, Delivered, Failed, Retry, CallEnd, IdentitySlow,
       IdentityFetched, CallerCancels, idvars, Flags
  <2> QED
    BY <2>1, <2>2, <2>3, <2>4, Zenon DEF Next
<1> QED
  BY <1>3, <1>4, <1>5, <1>6, FlipsType, Zenon DEF Flags

(* The senders' counters stay within the pieces and the attempts. *)
LEMMA NextSendTypes == ASSUME SendTypes, ClientTypes, Cutting, [Next]_vars PROVE SendTypes'
<1> USE OutboundAssumption DEF SendTypes, Goto, Begin, Attempt, Done, GiveUp, Answered, sendvars
<1>0. DOMAIN pc = Procs
  BY DEF ClientTypes
<1>1. CASE UNCHANGED vars BY <1>1 DEF vars, callvars
<1>2. CASE Tick BY <1>2 DEF Tick, Elapse
<1>3. ASSUME NEW p \in Procs, Text(p) \/ CallStart(p) \/ IdentityFast(p) PROVE SendTypes'
  <2>1. /\ UNCHANGED <<index, pieces, attempt, via, result>>
        /\ \E l \in {"cut", "wait", "get", "idle", "slow"} : pc' = [pc EXCEPT ![p] = l]
    BY <1>3, Zenon DEF Text, CallStart, IdentityFast
  <2> QED
    BY <1>0, <2>1
<1>4. ASSUME NEW p \in Procs, ProactiveSend(p) PROVE SendTypes'
  BY <1>0, <1>4 DEF ProactiveSend
<1>5. ASSUME NEW p \in Procs, Client(p) PROVE SendTypes'
  <2>1. /\ UNCHANGED <<index, pieces, attempt, via, result>>
        /\ \E l \in {"wait", "asleep", "get", "fetch", "send", "answered"} : pc' = [pc EXCEPT ![p] = l]
    BY <1>5, Zenon DEF Client, ClientStep, WaitFor, Wake, GetToken, Fetched, SendAnswered, SendLimited, Answer
  <2> QED
    BY <1>0, <2>1
<1>6. ASSUME NEW p \in Procs, SendChunks(p) PROVE SendTypes'
  <2>1. chunks[p] # <<>> /\ text[p] \in Texts /\ chunks[p] = chunkText(text[p])
    BY <1>6 DEF SendChunks, Cutting
  <2>2. PICK n : n = Len(chunks[p])
    OBVIOUS
  <2>3. n \in Nat /\ n >= 1
    BY <2>1, <2>2, ChunkTextFacts
  <2>4. pieces' = [pieces EXCEPT ![p] = n]
    BY <1>6, <2>2 DEF SendChunks
  <2> QED
    BY <1>0, <1>6, <2>3, <2>4 DEF SendChunks
<1>7. ASSUME NEW p \in Procs, Delivered(p) PROVE SendTypes'
  BY <1>0, <1>7 DEF Delivered
<1>8. ASSUME NEW p \in Procs, Failed(p) PROVE SendTypes'
  BY <1>0, <1>8 DEF Failed
<1>9. ASSUME NEW p \in Procs, Retry(p) PROVE SendTypes'
  BY <1>0, <1>9 DEF Retry
<1>10. ASSUME NEW p \in Procs, CallEnd(p) \/ IdentitySlow(p) \/ IdentityFetched(p) \/ CallerCancels(p)
       PROVE  SendTypes'
  BY <1>0, <1>10 DEF CallEnd, IdentitySlow, IdentityFetched, CallerCancels, Cancel
<1> QED
  BY <1>1, <1>2, <1>3, <1>4, <1>5, <1>6, <1>7, <1>8, <1>9, <1>10 DEF Next, Running

(* The chunks are those of the text until the first is on its way. *)
LEMMA NextCutting == ASSUME Cutting, ClientTypes, [Next]_vars PROVE Cutting'
<1> USE DEF Cutting, Goto, Begin, Attempt, Done, GiveUp, Answered, sendvars
<1>0. DOMAIN pc = Procs
  BY DEF ClientTypes
<1>1. CASE UNCHANGED vars BY <1>1 DEF vars, callvars
<1>2. CASE Tick BY <1>2 DEF Tick, Elapse
<1>3. ASSUME NEW p \in Procs, Text(p) PROVE Cutting'
  <2>1. PICK t \in Texts : text' = [text EXCEPT ![p] = t] /\ chunks' = [chunks EXCEPT ![p] = chunkText(t)]
    BY <1>3 DEF Text
  <2>2. chunkText(t) # <<>>
    BY ChunkTextFacts
  <2>3. pc' = [pc EXCEPT ![p] = "cut"]
    BY <1>3 DEF Text
  <2>4. PICK c : c = chunkText(t)
    OBVIOUS
  <2> QED
    BY <1>0, <2>1, <2>2, <2>3, <2>4
<1>4. ASSUME NEW p \in Procs, SendChunks(p) PROVE Cutting'
  <2>1. /\ chunks' = [chunks EXCEPT ![p] = <<>>] /\ text' = [text EXCEPT ![p] = NoText]
        /\ pc' = [pc EXCEPT ![p] = "get"]
    BY <1>4 DEF SendChunks
  <2> QED
    BY <1>0, <2>1
<1>5. ASSUME NEW p \in Procs, UNCHANGED <<text, chunks>>,
             pc' = pc \/ \E l : l # "cut" /\ pc' = [pc EXCEPT ![p] = l]
      PROVE  Cutting'
  BY <1>0, <1>5
<1>6. ASSUME NEW p \in Procs, ProactiveSend(p) \/ CallStart(p) \/ IdentityFast(p) PROVE Cutting'
  BY <1>5, <1>6 DEF ProactiveSend, CallStart, IdentityFast
<1>7. ASSUME NEW p \in Procs, Client(p) \/ CallerCancels(p) PROVE Cutting'
  BY <1>5, <1>7 DEF CallerCancels, Cancel, Client, ClientStep, WaitFor, Wake, GetToken, Fetched, SendAnswered,
     SendLimited, Answer
<1>8. ASSUME NEW p \in Procs, Delivered(p) \/ Failed(p) \/ Retry(p) PROVE Cutting'
  BY <1>5, <1>8 DEF Delivered, Failed, Retry
<1>9. ASSUME NEW p \in Procs, CallEnd(p) \/ IdentitySlow(p) \/ IdentityFetched(p) PROVE Cutting'
  BY <1>5, <1>9 DEF CallEnd, IdentitySlow, IdentityFetched
<1> QED
  BY <1>1, <1>2, <1>3, <1>4, <1>6, <1>7, <1>8, <1>9 DEF Next, Running

(* The identity's clocks stop at their bounds. *)
LEMMA NextIdTypes == ASSUME IdTypes, [Next]_vars PROVE IdTypes'
<1> USE OutboundAssumption DEF IdTypes
<1>1. CASE UNCHANGED vars BY <1>1 DEF vars, idvars
<1>2. CASE Tick BY <1>2 DEF Tick, Smaller
<1>3. ASSUME NEW p \in Procs, IdentitySlow(p) PROVE IdTypes'
  BY <1>3 DEF IdentitySlow
<1>4. ASSUME NEW p \in Procs, IdentityFetched(p) PROVE IdTypes'
  BY <1>4 DEF IdentityFetched
<1>5. CASE UNCHANGED idvars BY <1>5 DEF idvars
<1>6. ASSUME NEW p \in Procs, Text(p) \/ ProactiveSend(p) \/ CallStart(p) \/ IdentityFast(p)
      PROVE  UNCHANGED idvars
  BY <1>6, Zenon DEF Text, ProactiveSend, CallStart, IdentityFast
<1>7. ASSUME NEW p \in Procs, Client(p) \/ SendChunks(p) \/ Delivered(p) \/ Failed(p) \/ Retry(p)
                              \/ CallEnd(p) \/ CallerCancels(p)
      PROVE  UNCHANGED idvars
  BY <1>7, Zenon DEF Client, SendChunks, Delivered, Failed, Retry, CallEnd, CallerCancels
<1> QED
  BY <1>1, <1>2, <1>3, <1>4, <1>5, <1>6, <1>7, Zenon DEF Next, Running

(* Nobody has begun. *)
LEMMA InitTypeInv == ASSUME Init PROVE TypeInv
<1> USE DEF Init, ClientInit
<1>1. ClientTypes
  BY BucketTypes, TokenAssumption DEF ClientTypes, newTokenBucket
<1>2. Flags
  BY Zenon DEF Flags
<1>3. SendTypes /\ Cutting /\ IdTypes
  BY OutboundAssumption DEF SendTypes, Cutting, IdTypes
<1> QED
  BY <1>1, <1>2, <1>3 DEF TypeInv

(* Every step keeps the types. *)
LEMMA NextTypeInv == ASSUME TypeInv, RateInv, RateInv', [Next]_vars PROVE TypeInv'
  BY NextClientTypes, NextFlags, NextSendTypes, NextCutting, NextIdTypes DEF TypeInv

(* With the invariant of the bucket they are the types that TypeOK asks. *)
LEMMA TypesOK == ASSUME TypeInv, RateInv PROVE TypeOK
<1>1. bucket \in [tokens : 0 .. Capacity, age : -Backoff .. Second, pause : 0 .. Backoff]
  <2>1. /\ bucket \in [tokens : 0 .. Capacity, age : Int, pause : Nat] /\ bucket.age <= Second
        /\ bucket.pause <= Backoff
        /\ bucket.pause > 0 => bucket.age = -bucket.pause
        /\ ~(bucket.pause > 0) => bucket.age >= 0
    BY DEF RateInv, Paused, TypeInv, ClientTypes
  <2> QED
    BY <2>1, BucketTypes
<1>2. {again, ctxDone} \subseteq [Procs -> BOOLEAN] /\ {known, stale} \subseteq BOOLEAN
  BY Zenon DEF TypeInv, Flags
<1>3. \A p \in Procs : index[p] \in 0 .. pieces[p] /\ attempt[p] \in 0 .. MaxAttempts
  BY OutboundAssumption DEF TypeInv, SendTypes
<1>4. /\ life \in Nat /\ {tokenMu, idMu} \subseteq Procs \cup {NoProc}
      /\ idAge \in 0 .. TTL /\ {failAge, fetchAge} \subseteq 0 .. MinRefresh
  BY DEF TypeInv, ClientTypes, IdTypes
<1> QED
  BY <1>1, <1>2, <1>3, <1>4, Zenon DEF TypeOK, TypeInv, ClientTypes, SendTypes

(* chunkText and SplitWithCodeFences: whatever text is replied with, and    *)
(* whatever the limit, the chunks of a plain text join to the text, none is *)
(* empty or too long but for the newline at its end; those of a fenced text *)
(* keep its lines in their order and close every fence they open; and what  *)
(* the goroutines, the bucket and the caches hold has its type.             *)
THEOREM CutFaithfully == Spec => []ChunksFaithful
<1>1. TypeInv /\ RateInv => ChunksFaithful
  <2> SUFFICES ASSUME TypeInv, RateInv PROVE ChunksFaithful
    OBVIOUS
  <2>1. ASSUME NEW p \in Procs, chunks[p] # <<>>
        PROVE  IF text[p].kind = "plain" THEN PlainChunksFaithful(text[p].runes, chunks[p])
               ELSE FencedChunksFaithful(text[p].lines, chunks[p])
    <3>1. text[p] \in Texts /\ chunks[p] = chunkText(text[p])
      BY <2>1 DEF TypeInv, Cutting
    <3> QED
      BY <3>1, ChunkTextFacts
  <2> QED
    BY <2>1, TypesOK DEF ChunksFaithful
<1> QED
  BY <1>1, InitTypeInv, NextTypeInv, RateKept, PTL DEF Spec
=============================================================================
