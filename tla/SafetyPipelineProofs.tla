------------------------ MODULE SafetyPipelineProofs ------------------------
(***************************************************************************)
(* The de-duplication cache and the pipeline around it, for any keys,      *)
(* callers, capacity, TTL, deliveries, scopes, policies, arrivals, clock   *)
(* and lock lifetime.                                                      *)
(*                                                                         *)
(* The first half is about seen_cache.go.  Its loops are functions that    *)
(* are defined by recursion over the turns; UpTo and LoopHasRun, which     *)
(* rest on the well-ordering of the numbers, replace induction.  From what *)
(* the list operations keep of the LRU list follows what addToMemory, Has, *)
(* Add and sweep do to a cache whose map and list agree, and from that the *)
(* two properties of SeenCache.  Remembers is the inductive invariant:     *)
(* the entry of a key expires no sooner than promised, and the keys in     *)
(* front of it are among those used since.                                 *)
(*                                                                         *)
(* The second half is about pipeline.go.  IInv does not mention the cache: *)
(* JobInv says which deliveries the handler calls in progress own (each    *)
(* exactly one call, and only while they are busy or released), and        *)
(* LockInv is the argument of ProcessingLockProofs, with the deliveries as *)
(* the holders.  DedupInv ties the cache to the stages and the calls:      *)
(* what has passed the cache is in it or will be marked by a call that     *)
(* succeeded for it.  CopyInv says whose keys are in the cache, whom a     *)
(* rejected delivery resembles, and what a delivery that was let through   *)
(* cannot have met.                                                        *)
(***************************************************************************)
EXTENDS SafetyPipeline, SeenCache, SequenceTheorems, FiniteSetTheorems, WellFoundedInduction,
        TLAPS

(* Every set of natural numbers that is not empty has a least element. *)
LEMMA Least ==
    ASSUME NEW T \in SUBSET Nat, T # {} PROVE \E n \in T : \A m \in T : n <= m
<1>1. PICK R : R = OpToRel(<, Nat)
  OBVIOUS
<1>2. IsWellFoundedOn(R, Nat)
  BY <1>1, NatLessThanWellFounded
<1>3. PICK x \in T : \A y \in T : <<y, x>> \notin R
  BY <1>2, WFMin
<1>4. \A i, j \in Nat : i < j => <<i, j>> \in R
  BY <1>1 DEF OpToRel
<1>5. ASSUME NEW m \in T PROVE x <= m
  <2>1. m \in Nat /\ x \in Nat /\ ~(m < x)
    BY <1>3, <1>4
  <2> QED
    BY <2>1
<1> QED
  BY <1>5

(* A set of numbers up to n that is not empty has a greatest element. *)
LEMMA Greatest ==
    ASSUME NEW n \in Nat, NEW T \in SUBSET (0 .. n), T # {} PROVE \E m \in T : \A k \in T : k <= m
<1>1. PICK U : U = {i \in Nat : n - i \in T}
  OBVIOUS
<1>2. U \in SUBSET Nat /\ U # {}
  <2>1. PICK t \in T : TRUE
    OBVIOUS
  <2>2. n - t \in U
    BY <1>1, <2>1
  <2> QED
    BY <1>1, <2>2
<1>3. PICK u \in U : \A v \in U : u <= v
  BY <1>2, Least
<1>4. \A k \in T : n - k \in U /\ k \in 0 .. n
  BY <1>1
<1>5. n - u \in T /\ u \in Nat
  BY <1>1, <1>3
<1>6. ASSUME NEW k \in T PROVE k <= n - u
  BY <1>3, <1>4, <1>5
<1> QED
  BY <1>5, <1>6

(* What holds at 0 and is handed on from i - 1 to i holds up to n.  Facts   *)
(* about the turns of a loop are sets of the turns for which they hold.     *)
LEMMA UpTo ==
    ASSUME NEW n \in Nat, NEW P, 0 \in P, \A i \in 1 .. n : i - 1 \in P => i \in P
    PROVE  \A i \in 0 .. n : i \in P
<1> SUFFICES ASSUME \E i \in 0 .. n : i \notin P PROVE FALSE
  OBVIOUS
<1>1. PICK T : T = {i \in 0 .. n : i \notin P}
  OBVIOUS
<1>2. T \in SUBSET Nat /\ T # {}
  BY <1>1
<1>3. PICK m \in T : \A i \in T : m <= i
  BY <1>2, Least
<1>4. m \in 0 .. n /\ m \notin P /\ m # 0
  BY <1>1, <1>3
<1>5. m - 1 \in 0 .. n /\ m \in 1 .. n
  BY <1>4
<1>6. m - 1 \notin T
  BY <1>3, <1>4, <1>5
<1>7. m - 1 \in P
  BY <1>1, <1>5, <1>6
<1> QED
  BY <1>4, <1>5, <1>7

(* A loop over 1 .. n whose turns stay in S has a run. *)
LoopRun(n, b, g, f) == f = [i \in 0 .. n |-> IF i = 0 THEN b ELSE g[i][f[i - 1]]]

(* Such a loop has a run: by UpTo, one that ends at m for every m up to n. *)
LEMMA LoopHasRun ==
    ASSUME NEW n \in Nat, NEW S, NEW b \in S, NEW g, \A i \in 1 .. n : g[i] \in [S -> S]
    PROVE  \E f \in [0 .. n -> S] : LoopRun(n, b, g, f)
<1>1. PICK P : P = {m \in 0 .. n : \E f \in [0 .. m -> S] : LoopRun(m, b, g, f)}
  OBVIOUS
<1>2. 0 \in P
  <2>1. PICK f : f = [i \in 0 .. 0 |-> b]
    OBVIOUS
  <2>2. f \in [0 .. 0 -> S]
    BY <2>1
  <2>3. f = [i \in 0 .. 0 |-> IF i = 0 THEN b ELSE g[i][f[i - 1]]]
    BY <2>1
  <2> QED
    BY <1>1, <2>2, <2>3 DEF LoopRun
<1>3. ASSUME NEW m \in 1 .. n, m - 1 \in P PROVE m \in P
  <2>1. PICK e \in [0 .. m - 1 -> S] : LoopRun(m - 1, b, g, e)
    BY <1>1, <1>3
  <2>2. PICK f : f = [i \in 0 .. m |-> IF i = m THEN g[m][e[m - 1]] ELSE e[i]]
    OBVIOUS
  <2>3. /\ m - 1 \in 0 .. m - 1 /\ m # 0 /\ m \in 0 .. n
        /\ \A i \in 0 .. m : i # m => i \in 0 .. m - 1
        /\ \A i \in 1 .. m : i - 1 \in 0 .. m - 1 /\ i - 1 \in 0 .. m /\ i - 1 # m
    OBVIOUS
  <2>4. f \in [0 .. m -> S]
    BY <2>1, <2>2, <2>3
  <2>5. \A i \in 0 .. m - 1 : e[i] = IF i = 0 THEN b ELSE g[i][e[i - 1]]
    BY <2>1, Zenon DEF LoopRun
  <2>6. \A i \in 0 .. m : f[i] = IF i = 0 THEN b ELSE g[i][f[i - 1]]
    <3> SUFFICES ASSUME NEW i \in 0 .. m PROVE f[i] = IF i = 0 THEN b ELSE g[i][f[i - 1]]
      OBVIOUS
    <3>1. i # 0 => f[i - 1] = e[i - 1]
      BY <2>2, <2>3
    <3>2. CASE i = m
      BY <2>2, <2>3, <3>1, <3>2
    <3>3. CASE i # m
      <4>1. f[i] = e[i] /\ i \in 0 .. m - 1
        BY <2>2, <2>3, <3>3
      <4> QED
        BY <2>5, <3>1, <4>1
    <3> QED
      BY <3>2, <3>3
  <2>7. LoopRun(m, b, g, f)
    BY <2>4, <2>6, Zenon DEF LoopRun
  <2> QED
    BY <1>1, <2>3, <2>4, <2>7
<1>4. n \in P
  BY <1>2, <1>3, UpTo
<1> QED
  BY <1>1, <1>4
-----------------------------------------------------------------------------
(* The LRU list: its keys, whether no key is on it twice, the entries it    *)
(* has, and which key is nearer to the front.                               *)
Entries(K) == [key : K, expiresAt : Nat]
KeysOf(l) == {l[i].key : i \in DOMAIN l}
Once(l) == \A i, j \in DOMAIN l : l[i].key = l[j].key => i = j
Expires(l, k, x) == \E i \in DOMAIN l : l[i].key = k /\ l[i].expiresAt = x
Before(l, a, b) == \E i, j \in DOMAIN l : i < j /\ l[i].key = a /\ l[j].key = b

(* s keeps some entries of l, in their order. *)
Keeps(s, l) ==
    /\ Once(s) /\ KeysOf(s) \subseteq KeysOf(l)
    /\ \A k, x : Expires(s, k, x) <=> Expires(l, k, x) /\ k \in KeysOf(s)
    /\ \A a, b : Before(s, a, b) => Before(l, a, b)

(* A list whose entries are taken from l at growing places keeps them. *)
LEMMA SelectionKeeps ==
    ASSUME NEW K, NEW l \in Seq(Entries(K)), NEW s \in Seq(Entries(K)), Once(l),
           NEW h \in [1 .. Len(s) -> 1 .. Len(l)],
           \A i, j \in 1 .. Len(s) : i < j => h[i] < h[j],
           \A i \in 1 .. Len(s) : s[i] = l[h[i]]
    PROVE  Keeps(s, l)
<1>1. DOMAIN s = 1 .. Len(s) /\ DOMAIN l = 1 .. Len(l) /\ Len(s) \in Nat /\ Len(l) \in Nat
  OBVIOUS
<1>2. \A i \in DOMAIN s : h[i] \in DOMAIN l /\ h[i] \in Nat /\ i \in Nat /\ s[i] = l[h[i]]
  BY <1>1
<1>3. ASSUME NEW i \in DOMAIN s, NEW j \in DOMAIN s, s[i].key = s[j].key PROVE i = j
  <2>1. h[i] = h[j]
    BY <1>2, <1>3 DEF Once
  <2>2. ~(i < j) /\ ~(j < i) /\ i \in Nat /\ j \in Nat
    BY <1>1, <1>2, <2>1
  <2> QED
    BY <2>2
<1>4. Once(s) /\ KeysOf(s) \subseteq KeysOf(l)
  BY <1>2, <1>3 DEF Once, KeysOf
<1>5. ASSUME NEW a, NEW b, Before(s, a, b) PROVE Before(l, a, b)
  <2>1. PICK i, j \in DOMAIN s : i < j /\ s[i].key = a /\ s[j].key = b
    BY <1>5 DEF Before
  <2>2. h[i] \in DOMAIN l /\ h[j] \in DOMAIN l /\ h[i] < h[j] /\ l[h[i]].key = a /\ l[h[j]].key = b
    BY <1>1, <1>2, <2>1
  <2> QED
    BY <2>2 DEF Before
<1>6. ASSUME NEW k, NEW x, Expires(s, k, x) PROVE Expires(l, k, x) /\ k \in KeysOf(s)
  BY <1>2, <1>6 DEF Expires, KeysOf
<1>7. ASSUME NEW k, NEW x, Expires(l, k, x), k \in KeysOf(s) PROVE Expires(s, k, x)
  <2>1. PICK i \in DOMAIN l : l[i].key = k /\ l[i].expiresAt = x
    BY <1>7 DEF Expires
  <2>2. PICK j \in DOMAIN s : s[j].key = k
    BY <1>7 DEF KeysOf
  <2>3. h[j] = i
    BY <1>2, <2>1, <2>2 DEF Once
  <2> QED
    BY <1>2, <2>1, <2>2, <2>3 DEF Expires
<1> QED
  BY <1>4, <1>5, <1>6, <1>7 DEF Keeps

(* evictList.Remove *)
LEMMA RemoveKeeps ==
    ASSUME NEW K, NEW l \in Seq(Entries(K)), Once(l), NEW p \in 1 .. Len(l),
           NEW s, s = RemoveAt(l, p)
    PROVE  /\ s \in Seq(Entries(K)) /\ Len(s) = Len(l) - 1 /\ Keeps(s, l)
           /\ KeysOf(s) = KeysOf(l) \ {l[p].key}
<1>1. DOMAIN l = 1 .. Len(l) /\ Len(l) \in Nat /\ p \in Nat
  OBVIOUS
<1>2. PICK u, v : u = SubSeq(l, 1, p - 1) /\ v = SubSeq(l, p + 1, Len(l))
  OBVIOUS
<1>3. /\ u \in Seq(Entries(K)) /\ Len(u) = p - 1 /\ \A i \in 1 .. p - 1 : u[i] = l[i]
      /\ v \in Seq(Entries(K)) /\ Len(v) = Len(l) - p /\ \A i \in 1 .. Len(l) - p : v[i] = l[i + p]
  <2>1. /\ u \in Seq(Entries(K)) /\ Len(u) = p - 1 /\ \A i \in 1 .. p - 1 : u[i] = l[i]
    BY <1>1, <1>2
  <2>2. v \in Seq(Entries(K)) /\ Len(v) = Len(l) - p
    <3>1. p + 1 \in Int /\ Len(l) \in Int /\ \A i \in p + 1 .. Len(l) : l[i] \in Entries(K)
      BY <1>1
    <3>2. v \in Seq(Entries(K)) /\ Len(v) = IF p + 1 <= Len(l) THEN Len(l) - (p + 1) + 1 ELSE 0
      BY <1>2, <3>1, SubSeqProperties
    <3>3. PICK m, n : m = Len(l) /\ n = Len(v)
      OBVIOUS
    <3>4. m \in Nat /\ p \in 1 .. m /\ n = IF p + 1 <= m THEN m - (p + 1) + 1 ELSE 0
      BY <1>1, <3>2, <3>3, Zenon
    <3>5. n = m - p
      BY ONLY <3>4
    <3> QED
      BY <3>2, <3>3, <3>5, Zenon
  <2>3. \A i \in 1 .. Len(l) - p : v[i] = l[i + p]
    BY <1>1, <1>2
  <2> QED
    BY <2>1, <2>2, <2>3
<1>4. s = u \o v
  BY <1>2 DEF RemoveAt
<1>5. /\ s \in Seq(Entries(K)) /\ Len(s) = Len(l) - 1
      /\ \A i \in 1 .. Len(l) - 1 : s[i] = IF i < p THEN l[i] ELSE l[i + 1]
  <2>1. s \in Seq(Entries(K)) /\ Len(s) = Len(l) - 1
    <3>1. s \in Seq(Entries(K)) /\ Len(s) = Len(u) + Len(v)
      BY <1>3, <1>4, ConcatProperties
    <3> QED
      BY <1>1, <1>3, <3>1
  <2>2. ASSUME NEW i \in 1 .. Len(l) - 1 PROVE s[i] = IF i < p THEN l[i] ELSE l[i + 1]
    <3>1. s[i] = IF i <= Len(u) THEN u[i] ELSE v[i - Len(u)]
      BY ONLY <1>1, <1>3, <1>4, i \in 1 .. Len(l) - 1
    <3>2. CASE i < p
      <4>1. i <= Len(u) /\ i \in 1 .. p - 1
        BY ONLY <1>1, <1>3, <3>2, i \in 1 .. Len(l) - 1
      <4> QED
        BY <1>3, <3>1, <3>2, <4>1
    <3>3. CASE ~(i < p)
      <4>1. ~(i <= Len(u)) /\ i - Len(u) \in 1 .. Len(l) - p /\ i - Len(u) + p = i + 1
        BY ONLY <1>1, <1>3, <3>3, i \in 1 .. Len(l) - 1
      <4> QED
        BY <1>3, <3>1, <3>3, <4>1
    <3> QED
      BY <3>2, <3>3
  <2> QED
    BY <2>1, <2>2
<1>6. PICK h : h = [i \in 1 .. Len(l) - 1 |-> IF i < p THEN i ELSE i + 1]
  OBVIOUS
<1>7. /\ h \in [1 .. Len(s) -> 1 .. Len(l)]
      /\ \A i, j \in 1 .. Len(s) : i < j => h[i] < h[j]
      /\ \A i \in 1 .. Len(s) : s[i] = l[h[i]]
  BY <1>1, <1>5, <1>6
<1>8. Keeps(s, l)
  BY <1>5, <1>7, SelectionKeeps
<1>9. KeysOf(s) = KeysOf(l) \ {l[p].key}
  <2>1. DOMAIN s = 1 .. Len(l) - 1
    BY <1>5
  <2>2. ASSUME NEW k \in KeysOf(s) PROVE k \in KeysOf(l) \ {l[p].key}
    <3>1. PICK i \in 1 .. Len(l) - 1 : s[i].key = k
      BY <2>1, <2>2 DEF KeysOf
    <3>2. h[i] \in 1 .. Len(l) /\ h[i] # p /\ l[h[i]].key = k
      BY <1>1, <1>5, <1>6, <1>7, <3>1
    <3> QED
      BY <1>1, <3>2 DEF KeysOf, Once
  <2>3. ASSUME NEW k \in KeysOf(l), k # l[p].key PROVE k \in KeysOf(s)
    <3>1. PICK i \in 1 .. Len(l) : l[i].key = k /\ i # p
      BY <1>1, <2>3 DEF KeysOf
    <3>2. PICK j : j = IF i < p THEN i ELSE i - 1
      OBVIOUS
    <3>3. j \in 1 .. Len(l) - 1 /\ s[j] = l[i]
      BY <1>1, <1>5, <3>1, <3>2
    <3> QED
      BY <2>1, <3>1, <3>3 DEF KeysOf
  <2> QED
    BY <2>2, <2>3
<1> QED
  BY <1>5, <1>8, <1>9

Cut(s, l, k) == s = SubSeq(l, 1, k)
Behind(l, k) == {l[i].key : i \in k + 1 .. Len(l)}

(* The list up to its k-th entry. *)
LEMMA CutKeeps ==
    ASSUME NEW K, NEW l, l \in Seq(Entries(K)), Once(l), NEW k, k \in 0 .. Len(l),
           NEW s, Cut(s, l, k)
    PROVE  /\ s \in Seq(Entries(K)) /\ Len(s) = k /\ Keeps(s, l)
           /\ KeysOf(s) = KeysOf(l) \ Behind(l, k)
<1>1. DOMAIN l = 1 .. Len(l) /\ Len(l) \in Nat /\ k \in Nat
  OBVIOUS
<1>2. s \in Seq(Entries(K)) /\ Len(s) = k /\ \A i \in 1 .. k : s[i] = l[i]
  BY <1>1 DEF Cut
<1>3. PICK h : h = [i \in 1 .. k |-> i]
  OBVIOUS
<1>4. /\ h \in [1 .. Len(s) -> 1 .. Len(l)]
      /\ \A i, j \in 1 .. Len(s) : i < j => h[i] < h[j]
      /\ \A i \in 1 .. Len(s) : s[i] = l[h[i]]
  BY ONLY <1>1, <1>2, <1>3, k \in 0 .. Len(l)
<1>5. Keeps(s, l)
  BY <1>2, <1>4, SelectionKeeps
<1>6. KeysOf(s) = KeysOf(l) \ {l[i].key : i \in k + 1 .. Len(l)}
  <2>1. DOMAIN s = 1 .. k /\ (1 .. k) \subseteq 1 .. Len(l)
    BY <1>1, <1>2
  <2>2. ASSUME NEW a \in KeysOf(s) PROVE a \in KeysOf(l) /\ a \notin {l[i].key : i \in k + 1 .. Len(l)}
    <3>1. PICK i \in 1 .. k : l[i].key = a
      BY <1>2, <2>1, <2>2 DEF KeysOf
    <3>2. ASSUME NEW j \in k + 1 .. Len(l), l[j].key = a PROVE FALSE
      <4>1. i = j
        BY <1>1, <2>1, <3>1, <3>2 DEF Once
      <4> QED
        BY <1>1, <3>1, <3>2, <4>1
    <3> QED
      BY <1>1, <2>1, <3>1, <3>2 DEF KeysOf
  <2>3. ASSUME NEW a \in KeysOf(l), a \notin {l[i].key : i \in k + 1 .. Len(l)} PROVE a \in KeysOf(s)
    <3>1. PICK i \in 1 .. Len(l) : l[i].key = a
      BY <1>1 DEF KeysOf
    <3>2. i \in 1 .. k
      BY <1>1, <2>3, <3>1
    <3> QED
      BY <1>2, <2>1, <3>1, <3>2 DEF KeysOf
  <2> QED
    BY <2>2, <2>3
<1> QED
  BY <1>2, <1>5, <1>6 DEF Behind

(* s is l behind an entry of the key that expires at x. *)
Prepended(s, l, key, x) ==
    /\ Once(s) /\ KeysOf(s) = KeysOf(l) \cup {key}
    /\ \A k, y : Expires(s, k, y) <=> (k = key /\ y = x) \/ Expires(l, k, y)
    /\ \A a, b : Before(s, a, b) => b # key /\ (a = key \/ Before(l, a, b))

Pushes(s, e, l) == s = <<e>> \o l

(* evictList.PushFront *)
LEMMA PrependFacts ==
    ASSUME NEW K, NEW l, l \in Seq(Entries(K)), Once(l), NEW e \in Entries(K), e.key \notin KeysOf(l),
           NEW s, Pushes(s, e, l)
    PROVE  /\ s \in Seq(Entries(K)) /\ Len(s) = Len(l) + 1
           /\ Prepended(s, l, e.key, e.expiresAt)
<1>1. DOMAIN l = 1 .. Len(l) /\ Len(l) \in Nat
  OBVIOUS
<1>2. s \in Seq(Entries(K)) /\ Len(s) = Len(l) + 1 /\ DOMAIN s = 1 .. Len(l) + 1
  BY DEF Pushes
<1>3. s[1] = e /\ \A i \in 1 .. Len(l) : s[i + 1] = l[i]
  BY DEF Pushes
<1>4. \A i \in DOMAIN s : (i = 1 /\ s[i] = e) \/ (i - 1 \in DOMAIN l /\ s[i] = l[i - 1] /\ i # 1)
  <2> SUFFICES ASSUME NEW i \in 1 .. Len(l) + 1, i # 1 PROVE i - 1 \in 1 .. Len(l) /\ s[i] = l[i - 1]
    BY <1>1, <1>2, <1>3
  <2>1. i - 1 \in 1 .. Len(l) /\ (i - 1) + 1 = i
    BY <1>1
  <2> QED
    BY <1>3, <2>1
<1>5. \A i \in DOMAIN l : i + 1 \in DOMAIN s /\ s[i + 1] = l[i] /\ l[i].key # e.key
  BY <1>1, <1>2, <1>3 DEF KeysOf
<1>6. 1 \in DOMAIN s
  BY <1>1, <1>2
<1>7. Once(s)
  <2> SUFFICES ASSUME NEW i \in DOMAIN s, NEW j \in DOMAIN s, s[i].key = s[j].key PROVE i = j
    BY DEF Once
  <2>1. CASE i = 1 \/ j = 1
    BY <1>4, <1>5, <2>1
  <2>2. CASE i # 1 /\ j # 1
    <3>1. i - 1 = j - 1
      BY <1>4, <2>2 DEF Once
    <3> QED
      BY <1>2, <3>1
  <2> QED
    BY <2>1, <2>2
<1>8. KeysOf(s) = KeysOf(l) \cup {e.key}
  BY <1>3, <1>4, <1>5, <1>6 DEF KeysOf
<1>9. ASSUME NEW k, NEW x PROVE Expires(s, k, x) <=> (k = e.key /\ x = e.expiresAt) \/ Expires(l, k, x)
  <2>1. Expires(s, k, x) => (k = e.key /\ x = e.expiresAt) \/ Expires(l, k, x)
    BY <1>4 DEF Expires
  <2>2. k = e.key /\ x = e.expiresAt => Expires(s, k, x)
    BY <1>3, <1>6 DEF Expires
  <2>3. Expires(l, k, x) => Expires(s, k, x)
    BY <1>5 DEF Expires
  <2> QED
    BY <2>1, <2>2, <2>3
<1>10. ASSUME NEW a, NEW b, Before(s, a, b) PROVE b # e.key /\ (a = e.key \/ Before(l, a, b))
  <2>1. PICK i, j \in DOMAIN s : i < j /\ s[i].key = a /\ s[j].key = b
    BY <1>10 DEF Before
  <2>2. j # 1 /\ i - 1 < j - 1
    BY <1>2, <2>1
  <2>3. j - 1 \in DOMAIN l /\ s[j] = l[j - 1]
    BY <1>4, <2>2
  <2>4. b # e.key
    BY <1>5, <2>1, <2>3
  <2>5. CASE i = 1
    BY <1>3, <2>1, <2>4, <2>5
  <2>6. CASE i # 1
    <3>1. i - 1 \in DOMAIN l /\ s[i] = l[i - 1]
      BY <1>4, <2>6
    <3> QED
      BY <2>1, <2>2, <2>3, <2>4, <3>1 DEF Before
  <2> QED
    BY <2>5, <2>6
<1> QED
  BY <1>2, <1>7, <1>8, <1>9, <1>10 DEF Prepended
-----------------------------------------------------------------------------
(* A cache whose map and list describe the same entries, each key once. *)
Fit(c, K) ==
    /\ c \in [items : SUBSET K, evictList : Seq(Entries(K))]
    /\ Once(c.evictList) /\ c.items = KeysOf(c.evictList)

(* As many keys are in the map as entries are on the list. *)
LEMMA FitSize ==
    ASSUME NEW K, NEW c, Fit(c, K)
    PROVE  IsFiniteSet(c.items) /\ Cardinality(c.items) = Len(c.evictList)
<1>1. PICK l, n : l = c.evictList /\ n = Len(l)
  OBVIOUS
<1>2. l \in Seq(Entries(K)) /\ n \in Nat /\ DOMAIN l = 1 .. n /\ Once(l) /\ c.items = KeysOf(l)
  BY <1>1 DEF Fit
<1>3. PICK f : f = [i \in 1 .. n |-> l[i].key]
  OBVIOUS
<1>4. f \in Bijection(1 .. n, c.items)
  <2>1. f \in [1 .. n -> c.items]
    BY <1>2, <1>3 DEF KeysOf
  <2>2. \A i, j \in 1 .. n : f[i] = f[j] => i = j
    BY <1>2, <1>3 DEF Once
  <2>3. \A k \in c.items : \E i \in 1 .. n : f[i] = k
    BY <1>2, <1>3 DEF KeysOf
  <2> QED
    BY <2>1, <2>2, <2>3 DEF Bijection, Injection, IsInjective, Surjection
<1>5. ExistsBijection(1 .. n, c.items)
  BY <1>4 DEF ExistsBijection
<1> QED
  BY <1>1, <1>2, <1>5, FS_NatBijection, FS_CountingElements

(* The map leads from a key to the entry of that key. *)
LEMMA PlaceFacts ==
    ASSUME NEW K, NEW c, Fit(c, K), NEW key \in c.items
    PROVE  /\ Place(c, key) \in 1 .. Len(c.evictList) /\ c.evictList[Place(c, key)].key = key
           /\ Entry(c, key).expiresAt \in Nat
           /\ Expires(c.evictList, key, Entry(c, key).expiresAt)
<1>1. DOMAIN c.evictList = 1 .. Len(c.evictList) /\ key \in KeysOf(c.evictList)
  BY DEF Fit
<1>2. \E i \in DOMAIN c.evictList : c.evictList[i].key = key
  BY <1>1 DEF KeysOf
<1>3. Place(c, key) \in DOMAIN c.evictList /\ c.evictList[Place(c, key)].key = key
  BY <1>2 DEF Place
<1>4. c.evictList[Place(c, key)] \in Entries(K)
  BY <1>3 DEF Fit
<1> QED
  BY <1>1, <1>3, <1>4 DEF Entry, Entries, Expires

(* evictList.Remove of a key that is in the map. *)
LEMMA WithoutFacts ==
    ASSUME NEW K, NEW c, Fit(c, K), NEW key \in c.items, NEW s, s = Without(c, key)
    PROVE  /\ s \in Seq(Entries(K)) /\ Len(s) = Len(c.evictList) - 1 /\ Keeps(s, c.evictList)
           /\ KeysOf(s) = c.items \ {key}
<1>1. PICK p : p = Place(c, key)
  OBVIOUS
<1>2. p \in 1 .. Len(c.evictList) /\ c.evictList[p].key = key /\ s = RemoveAt(c.evictList, p)
  BY <1>1, PlaceFacts DEF Without
<1>3. c.evictList \in Seq(Entries(K)) /\ Once(c.evictList) /\ c.items = KeysOf(c.evictList)
  BY DEF Fit
<1> QED
  BY <1>2, <1>3, RemoveKeeps

(* An expired entry that a lookup drops. *)
LEMMA ForgetFacts ==
    ASSUME NEW K, NEW c, Fit(c, K), NEW key \in c.items, NEW d, d = Forget(c, key)
    PROVE  /\ Fit(d, K) /\ d.items = c.items \ {key} /\ Len(d.evictList) = Len(c.evictList) - 1
           /\ Keeps(d.evictList, c.evictList)
<1>1. PICK s : s = Without(c, key)
  OBVIOUS
<1>2. /\ s \in Seq(Entries(K)) /\ Len(s) = Len(c.evictList) - 1 /\ Keeps(s, c.evictList)
      /\ KeysOf(s) = c.items \ {key}
  BY <1>1, WithoutFacts
<1>3. d = [items |-> c.items \ {key}, evictList |-> s] /\ c.items \in SUBSET K
  BY <1>1 DEF Forget, Fit
<1>4. d \in [items : SUBSET K, evictList : Seq(Entries(K))] /\ d.items = c.items \ {key} /\ d.evictList = s
  BY <1>2, <1>3
<1> QED
  BY <1>2, <1>4 DEF Fit, Keeps

(* d is c with the key at the front, expiring at x, and perhaps without *)
(* some of the other entries.                                           *)
Fronts(d, c, key, x) ==
    /\ key \in d.items /\ d.items \subseteq c.items \cup {key}
    /\ \A k, y : Expires(d.evictList, k, y) => (k = key /\ y = x) \/ (k # key /\ Expires(c.evictList, k, y))
    /\ \A a, b : Before(d.evictList, a, b) => b # key /\ (a = key \/ Before(c.evictList, a, b))

(* MoveToFront keeps the map and puts the key in front. *)
LEMMA ToFrontFacts ==
    ASSUME NEW K, NEW c, Fit(c, K), NEW key \in c.items, NEW x \in Nat, NEW d, d = ToFront(c, key, x)
    PROVE  /\ Fit(d, K) /\ d.items = c.items /\ Len(d.evictList) = Len(c.evictList)
           /\ Fronts(d, c, key, x)
<1>1. PICK s, e, l : s = Without(c, key) /\ e = [key |-> key, expiresAt |-> x] /\ l = <<e>> \o s
  OBVIOUS
<1>2. /\ s \in Seq(Entries(K)) /\ Len(s) = Len(c.evictList) - 1 /\ Keeps(s, c.evictList)
      /\ KeysOf(s) = c.items \ {key}
  BY <1>1, WithoutFacts
<1>3. e \in Entries(K) /\ e.key = key /\ e.expiresAt = x /\ e.key \notin KeysOf(s) /\ Once(s)
  BY <1>1, <1>2 DEF Fit, Entries, Keeps
<1>3a. l \in Seq(Entries(K)) /\ Len(l) = Len(s) + 1 /\ Prepended(l, s, e.key, e.expiresAt)
  <2>1. Pushes(l, e, s)
    BY <1>1 DEF Pushes
  <2> QED
    BY <1>2, <1>3, <2>1, PrependFacts
<1>4. /\ l \in Seq(Entries(K)) /\ Len(l) = Len(s) + 1 /\ Once(l)
      /\ KeysOf(l) = KeysOf(s) \cup {key}
      /\ \A k, y : Expires(l, k, y) <=> (k = key /\ y = x) \/ Expires(s, k, y)
      /\ \A a, b : Before(l, a, b) => b # key /\ (a = key \/ Before(s, a, b))
  BY <1>3, <1>3a DEF Prepended
<1>5. c \in [items : SUBSET K, evictList : Seq(Entries(K))] /\ d = [c EXCEPT !.evictList = l]
  BY <1>1 DEF Fit, ToFront
<1>6. d \in [items : SUBSET K, evictList : Seq(Entries(K))] /\ d.items = c.items /\ d.evictList = l
  BY <1>4, <1>5
<1>7. Len(l) = Len(c.evictList) /\ KeysOf(l) = c.items
  <2>1. Len(c.evictList) \in Nat
    BY DEF Fit
  <2> QED
    BY <1>2, <1>4, <2>1
<1>8. Fit(d, K)
  BY <1>4, <1>6, <1>7 DEF Fit
<1>9. Fronts(d, c, key, x)
  <2>1. \A k, y : Expires(l, k, y) => (k = key /\ y = x) \/ (k # key /\ Expires(c.evictList, k, y))
    BY <1>2, <1>4 DEF Keeps
  <2>2. \A a, b : Before(l, a, b) => b # key /\ (a = key \/ Before(c.evictList, a, b))
    BY <1>2, <1>4 DEF Keeps
  <2> QED
    BY <1>6, <2>1, <2>2 DEF Fronts
<1> QED
  BY <1>6, <1>7, <1>8, <1>9

(* A key leaves the cache on behalf of another only if the cache is full    *)
(* and every other key has been used since.                                 *)
Evicts(d, c, key) ==
    \A k \in c.items \ d.items :
        /\ key \notin c.items /\ Cardinality(c.items) = MaxEntries
        /\ \A a \in c.items \ {k} : Before(c.evictList, a, k)

(* PushFront of a key that is not in the map. *)
LEMMA PushFacts ==
    ASSUME NEW K, NEW c, Fit(c, K), NEW key \in K \ c.items, NEW x \in Nat, NEW d, d = Push(c, key, x),
           NEW m, m = c.evictList
    PROVE  /\ Fit(d, K) /\ d.items = c.items \cup {key} /\ Len(d.evictList) = Len(m) + 1
           /\ Prepended(d.evictList, m, key, x)
           /\ \A i \in 1 .. Len(m) : d.evictList[i + 1] = m[i]
<1>1. PICK e, l : e = [key |-> key, expiresAt |-> x] /\ l = <<e>> \o m
  OBVIOUS
<1>2. m \in Seq(Entries(K)) /\ Once(m) /\ c.items = KeysOf(m) /\ c.items \in SUBSET K
  BY DEF Fit
<1>3. e \in Entries(K) /\ e.key = key /\ e.expiresAt = x /\ e.key \notin KeysOf(m)
  BY <1>1, <1>2 DEF Entries
<1>4. l \in Seq(Entries(K)) /\ Len(l) = Len(m) + 1 /\ Prepended(l, m, key, x)
  <2>1. l \in Seq(Entries(K)) /\ Len(l) = Len(m) + 1 /\ Prepended(l, m, e.key, e.expiresAt)
    <3>1. Pushes(l, e, m)
      BY <1>1 DEF Pushes
    <3> QED
      BY <1>2, <1>3, <3>1, PrependFacts
  <2> QED
    BY <1>3, <2>1
<1>5. \A i \in 1 .. Len(m) : l[i + 1] = m[i]
  BY <1>1, <1>2
<1>6. d = [items |-> c.items \cup {key}, evictList |-> l]
  BY <1>1 DEF Push
<1>7. /\ d \in [items : SUBSET K, evictList : Seq(Entries(K))] /\ d.items = c.items \cup {key}
      /\ d.evictList = l
  BY <1>2, <1>4, <1>6
<1>8. Fit(d, K)
  BY <1>2, <1>4, <1>7 DEF Fit, Prepended
<1> QED
  BY <1>4, <1>5, <1>7, <1>8

(* The oldest entry is evicted on behalf of a key that is pushed. *)
LEMMA EvictFacts ==
    ASSUME NEW K, NEW c, Fit(c, K), NEW key \in K \ c.items, NEW x \in Nat,
           Len(c.evictList) <= MaxEntries, NEW d, d = EvictOldest(Push(c, key, x))
    PROVE  /\ Fit(d, K) /\ Len(d.evictList) <= MaxEntries
           /\ Fronts(d, c, key, x) /\ Evicts(d, c, key)
           /\ Len(c.evictList) < MaxEntries => d.items = c.items \cup {key}
<1>1. PICK p, m, l, n : p = Push(c, key, x) /\ m = c.evictList /\ l = p.evictList /\ n = Len(m)
  OBVIOUS
<1>2. /\ Fit(p, K) /\ p.items = c.items \cup {key} /\ Len(l) = n + 1
      /\ Prepended(l, m, key, x) /\ \A i \in 1 .. n : l[i + 1] = m[i]
  BY <1>1, PushFacts
<1>3. m \in Seq(Entries(K)) /\ n \in Nat /\ DOMAIN m = 1 .. n /\ c.items = KeysOf(m) /\ n <= MaxEntries /\ Once(m)
  BY <1>1 DEF Fit
<1>4. MaxEntries \in Nat /\ MaxEntries # 0 /\ l \in Seq(Entries(K)) /\ Once(l)
  BY <1>1, <1>2, DedupConfigFilled DEF Fit
<1>5. \A k, y : Expires(m, k, y) => k # key
  BY <1>3 DEF Expires, KeysOf
<1>6. CASE n < MaxEntries
  <2>1. d = p
    BY <1>1, <1>2, <1>3, <1>4, <1>6 DEF EvictOldest
  <2>2. Fronts(d, c, key, x)
    BY <1>1, <1>2, <1>5, <2>1 DEF Fronts, Prepended
  <2>3. Evicts(d, c, key)
    BY <1>2, <2>1 DEF Evicts
  <2> QED
    BY <1>1, <1>2, <1>3, <1>4, <1>6, <2>1, <2>2, <2>3
<1>7. CASE ~(n < MaxEntries)
  <2>1. n = MaxEntries /\ n >= 1
    BY <1>3, <1>4, <1>7
  <2>2. PICK s, k : s = SubSeq(l, 1, n) /\ k = m[n].key
    OBVIOUS
  <2>3. l[n + 1] = m[n] /\ n \in DOMAIN m /\ k \in c.items
    BY <1>2, <1>3, <2>1, <2>2 DEF KeysOf
  <2>4. Last(l).key = k /\ Front(l) = s
    <3>1. Len(l) = n + 1 /\ (n + 1) - 1 = n
      BY <1>2, <1>3
    <3>2. Last(l) = m[n]
      BY <2>3, <3>1 DEF Last
    <3> QED
      BY <2>2, <3>1, <3>2 DEF Front
  <2>5. d = [items |-> p.items \ {k}, evictList |-> s]
    <3>1. Len(p.evictList) > MaxEntries
      BY <1>1, <1>2, <1>3, <2>1
    <3> QED
      BY <1>1, <2>4, <3>1 DEF EvictOldest
  <2>6. /\ s \in Seq(Entries(K)) /\ Len(s) = n /\ Keeps(s, l)
        /\ KeysOf(s) = KeysOf(l) \ Behind(l, n)
    <3>1. n \in 0 .. Len(l) /\ Cut(s, l, n)
      BY <1>2, <1>3, <2>2 DEF Cut
    <3> QED
      BY <1>4, <3>1, CutKeeps
  <2>7. KeysOf(s) = p.items \ {k}
    <3>1. n + 1 .. Len(l) = {n + 1}
      BY <1>2, <1>3
    <3>2. Behind(l, n) = {k}
      BY <2>2, <2>3, <3>1 DEF Behind
    <3> QED
      BY <1>1, <1>2, <2>6, <3>2 DEF Fit
  <2>8. d \in [items : SUBSET K, evictList : Seq(Entries(K))] /\ d.items = p.items \ {k} /\ d.evictList = s
    <3>1. p.items \ {k} \in SUBSET K
      BY <1>2 DEF Fit
    <3> QED
      BY <2>5, <2>6, <3>1
  <2>9. Fit(d, K)
    BY <2>6, <2>7, <2>8 DEF Fit, Keeps
  <2>10. Fronts(d, c, key, x)
    <3>1. key \in d.items /\ d.items \subseteq c.items \cup {key}
      BY <1>2, <2>3, <2>8
    <3>2. \A a, y : Expires(s, a, y) => (a = key /\ y = x) \/ (a # key /\ Expires(m, a, y))
      BY <1>2, <1>5, <2>6 DEF Keeps, Prepended
    <3>3. \A a, b : Before(s, a, b) => b # key /\ (a = key \/ Before(m, a, b))
      BY <1>2, <2>6 DEF Keeps, Prepended
    <3> QED
      BY <1>1, <2>8, <3>1, <3>2, <3>3 DEF Fronts
  <2>11. Evicts(d, c, key)
    <3> SUFFICES ASSUME NEW q \in c.items \ d.items
                 PROVE  /\ key \notin c.items /\ Cardinality(c.items) = MaxEntries
                        /\ \A a \in c.items \ {q} : Before(c.evictList, a, q)
      BY DEF Evicts
    <3>1. q = k
      BY <1>2, <2>8
    <3>2. Cardinality(c.items) = MaxEntries
      BY <1>1, <2>1, FitSize
    <3>3. ASSUME NEW a \in c.items, a # k PROVE Before(m, a, k)
      <4>1. PICK i \in DOMAIN m : m[i].key = a
        BY <1>3 DEF KeysOf
      <4>2. i < n
        BY <1>3, <2>2, <3>3, <4>1
      <4> QED
        BY <2>2, <2>3, <4>1, <4>2 DEF Before
    <3> QED
      BY <1>1, <3>1, <3>2, <3>3
  <2> QED
    BY <1>1, <1>7, <2>1, <2>6, <2>8, <2>9, <2>10, <2>11
<1> QED
  BY <1>6, <1>7

(* addToMemory puts the key in front and evicts at most the oldest one. *)
Added(d, c, key, x) ==
    /\ Fronts(d, c, key, x) /\ Evicts(d, c, key)
    /\ Len(c.evictList) < MaxEntries => d.items = c.items \cup {key}

(* addToMemory keeps map and list in step and the list within its bound. *)
LEMMA AddFacts ==
    ASSUME NEW K, NEW c, Fit(c, K), NEW key \in K, NEW x \in Nat,
           Len(c.evictList) <= MaxEntries, NEW d, d = addToMemory(c, key, x)
    PROVE  Fit(d, K) /\ Len(d.evictList) <= MaxEntries /\ Added(d, c, key, x)
<1>1. CASE key \in c.items
  <2>1. d = ToFront(c, key, x)
    BY <1>1 DEF addToMemory
  <2>2. /\ Fit(d, K) /\ d.items = c.items /\ Len(d.evictList) = Len(c.evictList)
        /\ Fronts(d, c, key, x)
    BY <1>1, <2>1, ToFrontFacts
  <2> QED
    BY <1>1, <2>2 DEF Added, Evicts
<1>2. CASE key \notin c.items
  <2>1. d = EvictOldest(Push(c, key, x))
    BY <1>2 DEF addToMemory
  <2> QED
    BY <1>2, <2>1, EvictFacts DEF Added
<1> QED
  BY <1>1, <1>2

(* d is what is left of c when some expired entries are dropped. *)
Dropped(d, c, t) ==
    /\ Keeps(d.evictList, c.evictList) /\ d.items \subseteq c.items
    /\ Len(d.evictList) <= Len(c.evictList)
    /\ \A k, x : Expires(c.evictList, k, x) /\ k \notin d.items => x <= t

(* The sweep leaves a prefix of the list that ends at a live entry. *)
LEMMA SweepFacts ==
    ASSUME NEW K, NEW c, Fit(c, K), NEW t \in Nat, NEW d, d = sweep(c, t)
    PROVE  Fit(d, K) /\ Dropped(d, c, t)
<1>1. PICK l, n, live : /\ l = c.evictList /\ n = Len(l)
                        /\ live = {0} \cup {i \in DOMAIN l : t < l[i].expiresAt}
  OBVIOUS
<1>2. l \in Seq(Entries(K)) /\ n \in Nat /\ DOMAIN l = 1 .. n /\ Once(l) /\ c.items = KeysOf(l) /\ c.items \in SUBSET K
  BY <1>1 DEF Fit
<1>3. live \in SUBSET (0 .. n) /\ live # {}
  BY <1>1, <1>2
<1>4. PICK m : m = Max(live)
  OBVIOUS
<1>5. m \in live /\ \A i \in live : i <= m
  <2>1. \E i \in live : \A j \in live : j <= i
    BY <1>2, <1>3, Greatest
  <2>2. \E i \in live : \A j \in live : i >= j
    BY <1>2, <1>3, <2>1
  <2>3. m \in live /\ \A i \in live : m >= i
    BY <1>4, <2>2, Zenon DEF Max
  <2> QED
    BY <1>2, <1>3, <2>3
<1>6. m \in 0 .. n
  BY <1>3, <1>5
<1>7. PICK s, gone : s = SubSeq(l, 1, m) /\ gone = {l[i].key : i \in m + 1 .. n}
  OBVIOUS
<1>8. d = [items |-> c.items \ gone, evictList |-> s]
  BY <1>1, <1>4, <1>7 DEF sweep
<1>9. s \in Seq(Entries(K)) /\ Len(s) = m /\ Keeps(s, l) /\ KeysOf(s) = KeysOf(l) \ gone
  <2>1. m \in 0 .. Len(l) /\ gone = Behind(l, m) /\ Cut(s, l, m)
    BY <1>1, <1>6, <1>7 DEF Behind, Cut
  <2> QED
    BY <1>2, <2>1, CutKeeps
<1>10. d \in [items : SUBSET K, evictList : Seq(Entries(K))] /\ d.items = c.items \ gone /\ d.evictList = s
  BY <1>2, <1>8, <1>9
<1>11. Fit(d, K)
  BY <1>2, <1>9, <1>10 DEF Fit, Keeps
<1>12. ASSUME NEW k, NEW x, Expires(l, k, x), k \notin d.items PROVE x <= t
  <2>1. PICK i \in 1 .. n : l[i].key = k /\ l[i].expiresAt = x
    BY <1>2, <1>12 DEF Expires
  <2>2. k \in c.items /\ k \in gone
    BY <1>2, <1>10, <1>12, <2>1 DEF KeysOf
  <2>3. PICK j \in m + 1 .. n : l[j].key = k
    BY <1>7, <2>2
  <2>4. j \in 1 .. n /\ ~(j <= m)
    BY <1>2, <1>6, <2>3
  <2>5. i = j
    BY <1>2, <2>1, <2>3, <2>4 DEF Once
  <2>6. i \notin live
    BY <1>5, <2>4, <2>5
  <2>7. l[i] \in Entries(K) /\ ~(t < l[i].expiresAt)
    BY <1>1, <1>2, <2>1, <2>6
  <2> QED
    BY <2>1, <2>7 DEF Entries
<1>13. Len(s) <= n
  BY <1>2, <1>6, <1>9
<1> QED
  BY <1>1, <1>2, <1>9, <1>10, <1>11, <1>12, <1>13 DEF Dropped
-----------------------------------------------------------------------------
(* The caches a run can meet, with keys in K. *)
Sound(K) ==
    {c \in [items : SUBSET K, evictList : Seq(Entries(K))] : Fit(c, K) /\ Len(c.evictList) <= MaxEntries}

(* A cache is sound when map and list agree and the list is within its      *)
(* bound.                                                                   *)
LEMMA SoundFacts ==
    ASSUME NEW K, NEW c
    PROVE  c \in Sound(K) <=> Fit(c, K) /\ Len(c.evictList) <= MaxEntries
BY DEF Sound, Fit

(* One turn of the loop of Add. *)
Turned(c, key, x) == IF key = NoKey THEN c ELSE addToMemory(c, key, x)
AddTurn(d, c, key, x) == IF key = NoKey THEN d = c ELSE Added(d, c, key, x)

AddRuns(f, K, c, keys, t) ==
    /\ f \in [0 .. Len(keys) -> Sound(K)] /\ f[0] = c /\ f[Len(keys)] = Add(c, keys, t)
    /\ \A i \in 1 .. Len(keys) : AddTurn(f[i], f[i - 1], keys[i], t + TTL)

(* Add runs through caches that are sound, one addToMemory after another. *)
LEMMA AddRun ==
    ASSUME NEW K, NoKey \notin K, NEW c \in Sound(K), NEW keys \in Seq(K \cup {NoKey}), NEW t \in Nat
    PROVE  \E f : AddRuns(f, K, c, keys, t)
<1>1. PICK n, x, S : n = Len(keys) /\ x = t + TTL /\ S = Sound(K)
  OBVIOUS
<1>2. n \in Nat /\ x \in Nat /\ \A i \in 1 .. n : keys[i] \in K \cup {NoKey}
  BY <1>1, DedupConfigFilled
<1>3. ASSUME NEW s \in S, NEW key \in K \cup {NoKey}
      PROVE  Turned(s, key, x) \in S /\ AddTurn(Turned(s, key, x), s, key, x)
  <2>1. CASE key = NoKey
    BY <2>1 DEF Turned, AddTurn
  <2>2. CASE key # NoKey
    <3>1. PICK d : d = addToMemory(s, key, x)
      OBVIOUS
    <3>2. Fit(s, K) /\ Len(s.evictList) <= MaxEntries /\ key \in K
      BY <1>1, <2>2, SoundFacts
    <3>3. Fit(d, K) /\ Len(d.evictList) <= MaxEntries /\ Added(d, s, key, x)
      BY <1>2, <3>1, <3>2, AddFacts
    <3> QED
      BY <1>1, <2>2, <3>1, <3>3, SoundFacts DEF Turned, AddTurn
  <2> QED
    BY <2>1, <2>2
<1>4. PICK g : g = [i \in 1 .. n |-> [s \in S |-> Turned(s, keys[i], x)]]
  OBVIOUS
<1>5. \A i \in 1 .. n : g[i] \in [S -> S] /\ \A s \in S : g[i][s] = Turned(s, keys[i], x)
  BY <1>2, <1>3, <1>4
<1>6. PICK f \in [0 .. n -> S] : LoopRun(n, c, g, f)
  BY <1>1, <1>2, <1>5, LoopHasRun
<1>7. \A i \in 0 .. n : f[i] = IF i = 0 THEN c ELSE g[i][f[i - 1]]
  BY <1>6, Zenon DEF LoopRun
<1>8. \A i \in 1 .. n : i # 0 /\ i \in 0 .. n /\ i - 1 \in 0 .. n /\ i - 1 \in Nat
  BY <1>2
<1>9. \A i \in 0 .. n : f[i] = IF i = 0 THEN c ELSE Turned(f[i - 1], keys[i], x)
  <2> SUFFICES ASSUME NEW i \in 0 .. n, i # 0 PROVE f[i] = Turned(f[i - 1], keys[i], x)
    BY <1>7
  <2>1. i \in 1 .. n /\ f[i - 1] \in S
    BY <1>2, <1>6, <1>8
  <2> QED
    BY <1>5, <1>7, <2>1
<1> DEFINE Loop(h) == h = [i \in 0 .. Len(keys) |->
                             IF i = 0 THEN c
                             ELSE IF keys[i] = NoKey THEN h[i - 1]
                             ELSE addToMemory(h[i - 1], keys[i], t + TTL)]
<1>10. Loop(f)
  BY <1>1, <1>6, <1>9, Zenon DEF Turned
<1>11. PICK h : Loop(h) /\ Add(c, keys, t) = h[Len(keys)]
  <2>1. Add(c, keys, t) = (CHOOSE h : Loop(h))[Len(keys)]
    BY DEF Add
  <2>2. Loop(CHOOSE h : Loop(h))
    <3> HIDE DEF Loop
    <3> QED
      BY <1>10, Zenon
  <2> QED
    BY <2>1, <2>2, Zenon
<1>12. \A i \in 0 .. n : h[i] = IF i = 0 THEN c ELSE Turned(h[i - 1], keys[i], x)
  BY <1>1, <1>11, Zenon DEF Turned
<1>13. \A i \in 0 .. n : h[i] = f[i]
  <2>1. PICK P : P = {i \in 0 .. n : h[i] = f[i]}
    OBVIOUS
  <2>2. 0 \in P
    BY <1>2, <1>9, <1>12, <2>1
  <2>3. ASSUME NEW i \in 1 .. n, i - 1 \in P PROVE i \in P
    BY <1>8, <1>9, <1>12, <2>1, <2>3
  <2>4. \A i \in 0 .. n : i \in P
    BY <1>2, <2>2, <2>3, UpTo
  <2> QED
    BY <2>1, <2>4
<1>14. f[0] = c /\ f[n] = Add(c, keys, t)
  BY <1>1, <1>2, <1>9, <1>11, <1>13
<1>15. ASSUME NEW i \in 1 .. n PROVE AddTurn(f[i], f[i - 1], keys[i], x)
  <2>1. f[i - 1] \in S /\ keys[i] \in K \cup {NoKey} /\ f[i] = Turned(f[i - 1], keys[i], x)
    BY <1>2, <1>6, <1>8, <1>9
  <2> QED
    BY <1>3, <2>1
<1>16. AddRuns(f, K, c, keys, t)
  BY <1>1, <1>6, <1>14, <1>15 DEF AddRuns
<1> QED
  BY <1>16
-----------------------------------------------------------------------------
(* What is kept of what is kept. *)
LEMMA KeepsTrans ==
    ASSUME NEW s, NEW l, NEW m, Keeps(s, l), Keeps(l, m) PROVE Keeps(s, m)
<1>1. KeysOf(s) \subseteq KeysOf(l) /\ KeysOf(l) \subseteq KeysOf(m) /\ Once(s)
  BY DEF Keeps
<1>2. \A k, x : Expires(s, k, x) <=> Expires(m, k, x) /\ k \in KeysOf(s)
  BY <1>1, Zenon DEF Keeps
<1>3. \A a, b : Before(s, a, b) => Before(m, a, b)
  BY Zenon DEF Keeps
<1> QED
  BY <1>1, <1>2, <1>3 DEF Keeps

(* Nothing dropped. *)
LEMMA DroppedRefl ==
    ASSUME NEW K, NEW c, Fit(c, K), NEW t PROVE Dropped(c, c, t)
<1>1. Keeps(c.evictList, c.evictList)
  BY DEF Keeps, Fit, Expires, KeysOf
<1>2. \A k, x : Expires(c.evictList, k, x) => k \in c.items
  BY DEF Fit, Expires, KeysOf
<1>3. Len(c.evictList) <= Len(c.evictList)
  BY DEF Fit
<1> QED
  BY <1>1, <1>2, <1>3 DEF Dropped

(* Dropping twice at the same time. *)
LEMMA DroppedTrans ==
    ASSUME NEW K, NEW b, NEW c, NEW d, Fit(b, K), Fit(c, K), Fit(d, K), NEW t,
           Dropped(b, c, t), Dropped(c, d, t)
    PROVE  Dropped(b, d, t)
<1>1. Keeps(b.evictList, d.evictList)
  BY KeepsTrans DEF Dropped
<1>2. b.items \subseteq d.items
  BY DEF Dropped
<1>3. Len(b.evictList) <= Len(d.evictList)
  <2>1. Len(b.evictList) \in Nat /\ Len(c.evictList) \in Nat /\ Len(d.evictList) \in Nat
    BY DEF Fit
  <2> QED
    BY <2>1 DEF Dropped
<1>4. ASSUME NEW k, NEW x, Expires(d.evictList, k, x), k \notin b.items PROVE x <= t
  <2>1. CASE k \in c.items
    <3>1. Expires(c.evictList, k, x)
      BY <1>4, <2>1 DEF Dropped, Keeps, Fit
    <3> QED
      BY <1>4, <3>1 DEF Dropped
  <2>2. CASE k \notin c.items
    BY <1>4, <2>2 DEF Dropped
  <2> QED
    BY <2>1, <2>2
<1> QED
  BY <1>1, <1>2, <1>3, <1>4 DEF Dropped

(* A lookup that meets an expired entry drops that one only. *)
LEMMA ForgetDrops ==
    ASSUME NEW K, NEW c, Fit(c, K), NEW key \in c.items, NEW t \in Nat,
           ~(t < Entry(c, key).expiresAt), NEW d, d = Forget(c, key)
    PROVE  Fit(d, K) /\ Dropped(d, c, t) /\ d.items = c.items \ {key}
<1>1. /\ Fit(d, K) /\ d.items = c.items \ {key} /\ Len(d.evictList) = Len(c.evictList) - 1
      /\ Keeps(d.evictList, c.evictList)
  BY ForgetFacts
<1>2. PICK y : y = Entry(c, key).expiresAt
  OBVIOUS
<1>3. y \in Nat /\ y <= t /\ Expires(c.evictList, key, y)
  <2>1. y \in Nat /\ Expires(c.evictList, key, y)
    BY <1>2, PlaceFacts
  <2> QED
    BY <1>2, <2>1
<1>4. ASSUME NEW k, NEW x, Expires(c.evictList, k, x), k \notin d.items PROVE x <= t
  <2>1. k = key
    BY <1>1, <1>4 DEF Fit, Expires, KeysOf
  <2>2. x = y
    BY <1>3, <1>4, <2>1 DEF Fit, Expires, Once
  <2> QED
    BY <1>3, <2>2
<1>5. Len(d.evictList) <= Len(c.evictList)
  <2>1. Len(c.evictList) \in Nat
    BY DEF Fit
  <2> QED
    BY <1>1, <2>1
<1> QED
  BY <1>1, <1>4, <1>5 DEF Dropped

(* Between turns: nothing was hit, and the keys looked up are not there. *)
Missed(r, c, asked, t) == Dropped(r.cache, c, t) /\ asked \cap r.cache.items = {}

(* A live entry was hit and moved to the front as it was. *)
Found(r, c, K, t) ==
    \E d \in Sound(K), x \in Nat :
        /\ Dropped(d, c, t) /\ r.hit \in d.items
        /\ Expires(d.evictList, r.hit, x) /\ Added(r.cache, d, r.hit, x)

Looked(r, c, K, asked, t) ==
    IF r.hit = NoKey THEN Missed(r, c, asked, t) ELSE r.hit \in asked /\ Found(r, c, K, t)

Results(K) == [hit : K \cup {NoKey}, cache : Sound(K)]

(* One turn of the memory loop of Has. *)
LEMMA LookUpFacts ==
    ASSUME NEW K, NoKey \notin K, NEW c, Fit(c, K), NEW t \in Nat, NEW r \in Results(K), NEW asked,
           Looked(r, c, K, asked, t), NEW key \in K \cup {NoKey}, NEW q, q = LookUp(r, key, t)
    PROVE  q \in Results(K) /\ Looked(q, c, K, asked \cup ({key} \ {NoKey}), t)
<1>1. PICK b : b = r.cache
  OBVIOUS
<1>2. b \in Sound(K) /\ Fit(b, K) /\ Len(b.evictList) <= MaxEntries /\ r.hit \in K \cup {NoKey}
  BY <1>1, SoundFacts DEF Results
<1>3. CASE r.hit # NoKey
  <2>1. q = r
    BY <1>3 DEF LookUp
  <2> QED
    BY <1>3, <2>1 DEF Looked
<1>4. CASE r.hit = NoKey /\ (key = NoKey \/ key \notin b.items)
  <2>1. q = r
    BY <1>1, <1>4 DEF LookUp
  <2> QED
    BY <1>1, <1>4, <2>1 DEF Looked, Missed
<1>5. CASE r.hit = NoKey /\ key # NoKey /\ key \in b.items
  <2>1. Dropped(b, c, t) /\ asked \cap b.items = {} /\ key \in K
    BY <1>1, <1>5 DEF Looked, Missed
  <2>2. PICK x : x = Entry(b, key).expiresAt
    OBVIOUS
  <2>3. x \in Nat /\ Expires(b.evictList, key, x)
    BY <1>2, <1>5, <2>2, PlaceFacts
  <2>4. CASE t < x
    <3>1. PICK d : d = ToFront(b, key, x)
      OBVIOUS
    <3>2. q = [hit |-> key, cache |-> d]
      BY <1>1, <1>5, <2>2, <2>4, <3>1 DEF LookUp
    <3>3. Fit(d, K) /\ d.items = b.items /\ Len(d.evictList) = Len(b.evictList) /\ Fronts(d, b, key, x)
      BY <1>2, <1>5, <2>3, <3>1, ToFrontFacts
    <3>4. Added(d, b, key, x) /\ d \in Sound(K)
      BY <1>2, <1>5, <3>3, SoundFacts DEF Added, Evicts
    <3>5. q \in Results(K) /\ q.hit = key /\ q.cache = d
      BY <2>1, <3>2, <3>4 DEF Results
    <3>6. Found(q, c, K, t)
      BY <1>2, <1>5, <2>1, <2>3, <3>4, <3>5 DEF Found
    <3> QED
      BY <1>5, <3>5, <3>6 DEF Looked
  <2>5. CASE ~(t < x)
    <3>1. PICK d : d = Forget(b, key)
      OBVIOUS
    <3>2. q = [r EXCEPT !.cache = d]
      BY <1>1, <1>5, <2>2, <2>5, <3>1 DEF LookUp
    <3>3. Fit(d, K) /\ Dropped(d, b, t) /\ d.items = b.items \ {key}
      BY <1>2, <1>5, <2>2, <2>5, <3>1, ForgetDrops
    <3>4. Dropped(d, c, t)
      BY <1>2, <2>1, <3>3, DroppedTrans
    <3>5. d \in Sound(K)
      <4>1. Len(d.evictList) <= Len(b.evictList) /\ Len(d.evictList) \in Nat /\ Len(b.evictList) \in Nat
        BY <1>2, <3>3 DEF Dropped, Fit
      <4>2. Len(d.evictList) <= MaxEntries
        BY <1>2, <4>1, DedupConfigFilled
      <4> QED
        BY <3>3, <4>2, SoundFacts
    <3>6. q \in Results(K) /\ q.hit = NoKey /\ q.cache = d
      BY <1>5, <3>2, <3>5 DEF Results
    <3>7. Missed(q, c, asked \cup ({key} \ {NoKey}), t)
      BY <2>1, <3>3, <3>4, <3>6 DEF Missed
    <3> QED
      BY <3>6, <3>7 DEF Looked
  <2> QED
    BY <2>4, <2>5
<1> QED
  BY <1>3, <1>4, <1>5

(* The keys of the first i turns. *)
Upto(keys, i) == {keys[j] : j \in 1 .. i} \ {NoKey}

(* The memory loop of Has, by UpTo over its turns. *)
LEMMA HasInMemoryFacts ==
    ASSUME NEW K, NoKey \notin K, NEW c \in Sound(K), NEW keys \in Seq(K \cup {NoKey}), NEW t \in Nat,
           NEW r, r = HasInMemory(c, keys, t)
    PROVE  r \in Results(K) /\ Looked(r, c, K, Upto(keys, Len(keys)), t)
<1>1. PICK n, S, b : n = Len(keys) /\ S = Results(K) /\ b = [hit |-> NoKey, cache |-> c]
  OBVIOUS
<1>2. n \in Nat /\ \A i \in 1 .. n : keys[i] \in K \cup {NoKey}
  BY <1>1
<1>3. Fit(c, K) /\ b \in S /\ b.hit = NoKey /\ b.cache = c
  BY <1>1, SoundFacts DEF Results
<1>4. Looked(b, c, K, {}, t)
  BY <1>3, DroppedRefl DEF Looked, Missed
<1>5. ASSUME NEW s \in S, NEW key \in K \cup {NoKey} PROVE LookUp(s, key, t) \in S
  <2>1. PICK q, d : q = LookUp(s, key, t) /\ d = s.cache
    OBVIOUS
  <2>2. d \in Sound(K) /\ Fit(d, K)
    BY <1>1, <2>1, SoundFacts DEF Results
  <2>3. CASE s.hit # NoKey
    BY <2>1, <2>3 DEF LookUp
  <2>4. CASE s.hit = NoKey
    <3>1. Looked(s, d, K, {}, t)
      BY <2>1, <2>2, <2>4, DroppedRefl DEF Looked, Missed
    <3>2. q \in Results(K)
      BY <1>1, <2>1, <2>2, <3>1, LookUpFacts
    <3> QED
      BY <1>1, <2>1, <3>2
  <2> QED
    BY <2>3, <2>4
<1>6. PICK g : g = [i \in 1 .. n |-> [s \in S |-> LookUp(s, keys[i], t)]]
  OBVIOUS
<1>7. \A i \in 1 .. n : g[i] \in [S -> S] /\ \A s \in S : g[i][s] = LookUp(s, keys[i], t)
  BY <1>2, <1>5, <1>6
<1>8. PICK f \in [0 .. n -> S] : LoopRun(n, b, g, f)
  BY <1>2, <1>3, <1>7, LoopHasRun
<1>9. \A i \in 0 .. n : f[i] = IF i = 0 THEN b ELSE g[i][f[i - 1]]
  BY <1>8, Zenon DEF LoopRun
<1>10. \A i \in 1 .. n : i # 0 /\ i \in 0 .. n /\ i - 1 \in 0 .. n
  BY <1>2
<1>11. \A i \in 0 .. n : f[i] = IF i = 0 THEN b ELSE LookUp(f[i - 1], keys[i], t)
  <2> SUFFICES ASSUME NEW i \in 0 .. n, i # 0 PROVE f[i] = LookUp(f[i - 1], keys[i], t)
    BY <1>9
  <2>1. i \in 1 .. n /\ f[i - 1] \in S
    BY <1>2, <1>8, <1>10
  <2> QED
    BY <1>7, <1>9, <2>1
<1> DEFINE Loop(h) == h = [i \in 0 .. Len(keys) |->
                             IF i = 0 THEN [hit |-> NoKey, cache |-> c]
                             ELSE LookUp(h[i - 1], keys[i], t)]
<1>12. Loop(f)
  BY <1>1, <1>8, <1>11, Zenon
<1>13. PICK h : Loop(h) /\ r = h[Len(keys)]
  <2>1. r = (CHOOSE h : Loop(h))[Len(keys)]
    BY DEF HasInMemory
  <2>2. Loop(CHOOSE h : Loop(h))
    <3> HIDE DEF Loop
    <3> QED
      BY <1>12, Zenon
  <2> QED
    BY <2>1, <2>2, Zenon
<1>14. \A i \in 0 .. n : h[i] = IF i = 0 THEN b ELSE LookUp(h[i - 1], keys[i], t)
  BY <1>1, <1>13, Zenon
<1>15. \A i \in 0 .. n : h[i] \in S /\ Looked(h[i], c, K, Upto(keys, i), t)
  <2>1. PICK P : P = {i \in 0 .. n : h[i] \in S /\ Looked(h[i], c, K, Upto(keys, i), t)}
    OBVIOUS
  <2>2. 0 \in P
    <3>1. Upto(keys, 0) = {}
      BY DEF Upto
    <3>2. 0 \in 0 .. n /\ h[0] = b
      BY <1>2, <1>14
    <3>3. h[0] \in S /\ Looked(h[0], c, K, Upto(keys, 0), t)
      BY <1>3, <1>4, <3>1, <3>2, Zenon
    <3> QED
      BY <2>1, <3>2, <3>3
  <2>3. ASSUME NEW i \in 1 .. n, i - 1 \in P PROVE i \in P
    <3>1. PICK e, q, key, u : e = h[i - 1] /\ q = h[i] /\ key = keys[i] /\ u = Upto(keys, i - 1)
      OBVIOUS
    <3>2. e \in Results(K) /\ Looked(e, c, K, u, t) /\ key \in K \cup {NoKey} /\ q = LookUp(e, key, t)
      BY <1>1, <1>2, <1>10, <1>14, <2>1, <2>3, <3>1
    <3>3. q \in Results(K) /\ Looked(q, c, K, u \cup ({key} \ {NoKey}), t)
      BY <1>3, <3>2, LookUpFacts
    <3>4. Upto(keys, i) = u \cup ({key} \ {NoKey})
      <4>1. \A j : j \in 1 .. i <=> j \in 1 .. i - 1 \/ j = i
        OBVIOUS
      <4> QED
        BY <3>1, <4>1 DEF Upto
    <3> QED
      BY <1>1, <1>10, <2>1, <3>1, <3>3, <3>4
  <2>4. \A i \in 0 .. n : i \in P
    BY <1>2, <2>2, <2>3, UpTo
  <2> QED
    BY <2>1, <2>4
<1> QED
  BY <1>1, <1>2, <1>13, <1>15
(* What Has does to a cache: expired entries are dropped; a hit is moved or *)
(* added to the front, and without Redis it is a key the cache holds.       *)
Met(r, c, K, keys, inRedis, t) ==
    \E d \in Sound(K) :
        /\ Dropped(d, c, t)
        /\ r.hit = NoKey => r.cache = d /\ Upto(keys, Len(keys)) \cap d.items = {}
        /\ r.hit # NoKey =>
              \E x \in Nat : /\ Added(r.cache, d, r.hit, x)
                             /\ \/ /\ Expires(d.evictList, r.hit, x) /\ r.hit \in d.items
                                   /\ r.hit \in Upto(keys, Len(keys))
                                \/ x = t + TTL /\ inRedis # {}

(* Has as a whole: the memory level, then the first key Redis knows. *)
LEMMA HasFacts ==
    ASSUME NEW K, NoKey \notin K, NEW c \in Sound(K), NEW keys \in Seq(K \cup {NoKey}), NEW t \in Nat,
           NEW inRedis, NEW r, r = Has(c, keys, t, inRedis)
    PROVE  r \in Results(K) /\ Met(r, c, K, keys, inRedis, t)
<1>1. PICK m : m = HasInMemory(c, keys, t)
  OBVIOUS
<1>2. m \in Results(K) /\ Looked(m, c, K, Upto(keys, Len(keys)), t)
  BY <1>1, HasInMemoryFacts
<1>3. m.cache \in Sound(K) /\ m.hit \in K \cup {NoKey}
  BY <1>2 DEF Results
<1>4. PICK shared : shared = {i \in DOMAIN keys : keys[i] # NoKey /\ keys[i] \in inRedis}
  OBVIOUS
<1>5. CASE m.hit # NoKey
  <2>1. r = m
    BY <1>1, <1>5 DEF Has
  <2>2. PICK d \in Sound(K), x \in Nat :
           /\ Dropped(d, c, t) /\ m.hit \in d.items /\ m.hit \in Upto(keys, Len(keys))
           /\ Expires(d.evictList, m.hit, x) /\ Added(m.cache, d, m.hit, x)
    BY <1>2, <1>5 DEF Looked, Found
  <2> QED
    BY <1>2, <1>5, <2>1, <2>2 DEF Met
<1>6. CASE m.hit = NoKey /\ shared = {}
  <2>1. r = m
    BY <1>1, <1>4, <1>6 DEF Has
  <2>2. Dropped(m.cache, c, t) /\ Upto(keys, Len(keys)) \cap m.cache.items = {}
    BY <1>2, <1>6 DEF Looked, Missed
  <2> QED
    BY <1>2, <1>3, <1>6, <2>1, <2>2 DEF Met
<1>7. CASE m.hit = NoKey /\ shared # {}
  <2>1. PICK first, x, d : first = keys[Min(shared)] /\ x = t + TTL /\ d = addToMemory(m.cache, first, x)
    OBVIOUS
  <2>2. r = [hit |-> first, cache |-> d]
    BY <1>1, <1>4, <1>7, <2>1 DEF Has
  <2>3. first \in K /\ inRedis # {} /\ x \in Nat
    <3>1. shared \in SUBSET Nat
      BY <1>4
    <3>2. Min(shared) \in shared
      <4>1. \E i \in shared : \A j \in shared : i <= j
        BY <1>7, <3>1, Least
      <4> QED
        BY <4>1, Zenon DEF Min
    <3> QED
      BY <1>4, <2>1, <3>2, DedupConfigFilled
  <2>4. Fit(m.cache, K) /\ Len(m.cache.evictList) <= MaxEntries
    BY <1>3, SoundFacts
  <2>5. Fit(d, K) /\ Len(d.evictList) <= MaxEntries /\ Added(d, m.cache, first, x)
    <3>1. PICK b : b = m.cache
      OBVIOUS
    <3>2. Fit(b, K) /\ Len(b.evictList) <= MaxEntries /\ d = addToMemory(b, first, x)
      BY <2>1, <2>4, <3>1
    <3> QED
      BY <2>3, <3>1, <3>2, AddFacts
  <2>6. d \in Sound(K)
    BY <2>5, SoundFacts
  <2>7. r \in Results(K) /\ r.hit = first /\ r.cache = d /\ first # NoKey
    BY <2>2, <2>3, <2>6 DEF Results
  <2>8. Dropped(m.cache, c, t)
    BY <1>2, <1>7 DEF Looked, Missed
  <2> QED
    BY <1>3, <2>1, <2>3, <2>5, <2>7, <2>8 DEF Met
<1> QED
  BY <1>5, <1>6, <1>7
-----------------------------------------------------------------------------
(* RememberedUntilExpiry as an invariant: what an entry still holds of the  *)
(* promise mk, and which keys the keys nearer to the front are.             *)
Remembers(c, mk, nw, t) ==
    /\ c \in Sound(Keys) /\ t \in Nat
    /\ mk \in [Keys -> Nat] /\ nw \in [Keys -> SUBSET Keys]
    /\ \A k \in Keys :
          /\ mk[k] <= t + TTL /\ IsFiniteSet(nw[k])
          /\ \A x \in Nat : Expires(c.evictList, k, x) => mk[k] <= x
          /\ \A a \in Keys : Before(c.evictList, a, k) => a \in nw[k]
          /\ (k \notin c.items /\ t < mk[k]) => Cardinality(nw[k]) >= MaxEntries

(* No entry outlives the last promise. *)
Bounded(c, t) == \A k, x : Expires(c.evictList, k, x) => x <= t + TTL

(* Dropping expired entries breaks no promise. *)
LEMMA DroppedRemembers ==
    ASSUME NEW c, NEW d \in Sound(Keys), NEW mk, NEW nw, NEW t, Remembers(c, mk, nw, t), Dropped(d, c, t)
    PROVE  Remembers(d, mk, nw, t)
<1>1. ASSUME NEW k \in Keys, NEW x \in Nat, Expires(d.evictList, k, x) PROVE mk[k] <= x
  BY <1>1 DEF Remembers, Dropped, Keeps
<1>2. ASSUME NEW k \in Keys, NEW a \in Keys, Before(d.evictList, a, k) PROVE a \in nw[k]
  BY <1>2 DEF Remembers, Dropped, Keeps
<1>3. ASSUME NEW k \in Keys, k \notin d.items, t < mk[k] PROVE Cardinality(nw[k]) >= MaxEntries
  <2>1. CASE k \notin c.items
    BY <1>3, <2>1 DEF Remembers
  <2>2. CASE k \in c.items
    <3>1. Fit(c, Keys)
      BY SoundFacts DEF Remembers
    <3>2. PICK x \in Nat : Expires(c.evictList, k, x)
      BY <2>2, <3>1, PlaceFacts
    <3>3. x <= t /\ mk[k] <= x
      BY <1>3, <3>2 DEF Remembers, Dropped
    <3>4. mk[k] \in Nat /\ t \in Nat
      BY DEF Remembers
    <3> QED
      BY <1>3, <3>2, <3>3, <3>4
  <2> QED
    BY <2>1, <2>2
<1> QED
  BY <1>1, <1>2, <1>3 DEF Remembers

(* A key in front becomes newer than all others; one that is evicted for it *)
(* has MaxEntries newer ones.                                               *)
LEMMA AddedRemembers ==
    ASSUME NEW c, NEW d \in Sound(Keys), NEW mk, NEW nw, NEW t, Remembers(c, mk, nw, t),
           NEW key \in Keys, NEW x \in Nat, Added(d, c, key, x),
           NEW mk2 \in [Keys -> Nat], mk2[key] <= x, mk2[key] <= t + TTL,
           \A k \in Keys \ {key} : mk2[k] = mk[k],
           NEW nw2, nw2 = Used(nw, key)
    PROVE  Remembers(d, mk2, nw2, t)
<1>1. /\ \A k, y : Expires(d.evictList, k, y) => (k = key /\ y = x) \/ (k # key /\ Expires(c.evictList, k, y))
      /\ \A a, b : Before(d.evictList, a, b) => b # key /\ (a = key \/ Before(c.evictList, a, b))
      /\ key \in d.items
  BY DEF Added, Fronts
<1>2. nw \in [Keys -> SUBSET Keys] /\ \A k \in Keys : IsFiniteSet(nw[k])
  BY DEF Remembers
<1>3. /\ nw2 \in [Keys -> SUBSET Keys] /\ nw2[key] = {}
      /\ \A k \in Keys \ {key} : nw2[k] = nw[k] \cup {key}
  BY <1>2 DEF Used
<1>4. ASSUME NEW k \in Keys PROVE IsFiniteSet(nw2[k])
  <2>1. CASE k = key
    BY <1>3, <2>1, FS_EmptySet
  <2>2. CASE k # key
    <3>1. nw2[k] = nw[k] \cup {key} /\ IsFiniteSet(nw[k])
      BY <1>2, <1>3, <2>2
    <3> QED
      BY <3>1, FS_AddElement
  <2> QED
    BY <2>1, <2>2
<1>5. ASSUME NEW k \in Keys, NEW y \in Nat, Expires(d.evictList, k, y) PROVE mk2[k] <= y
  BY <1>1, <1>5 DEF Remembers
<1>6. ASSUME NEW k \in Keys, NEW a \in Keys, Before(d.evictList, a, k) PROVE a \in nw2[k]
  BY <1>1, <1>3, <1>6 DEF Remembers
<1>7. ASSUME NEW k \in Keys, k \notin d.items, t < mk2[k] PROVE Cardinality(nw2[k]) >= MaxEntries
  <2>1. k # key /\ mk2[k] = mk[k] /\ nw2[k] = nw[k] \cup {key} /\ IsFiniteSet(nw2[k])
    BY <1>1, <1>3, <1>4, <1>7
  <2>2. CASE k \notin c.items
    <3>1. Cardinality(nw[k]) >= MaxEntries
      BY <1>7, <2>1, <2>2 DEF Remembers
    <3>2. Cardinality(nw[k]) <= Cardinality(nw2[k])
      BY <2>1, FS_Subset
    <3>3. Cardinality(nw[k]) \in Nat /\ Cardinality(nw2[k]) \in Nat
      BY <1>2, <2>1, FS_CardinalityType
    <3> QED
      BY <3>1, <3>2, <3>3, DedupConfigFilled
  <2>3. CASE k \in c.items
    <3>1. /\ key \notin c.items /\ Cardinality(c.items) = MaxEntries
          /\ \A a \in c.items \ {k} : Before(c.evictList, a, k)
      BY <1>7, <2>3 DEF Added, Evicts
    <3>2. Fit(c, Keys)
      BY SoundFacts DEF Remembers
    <3>3. IsFiniteSet(c.items) /\ c.items \subseteq Keys
      BY <3>2, FitSize DEF Fit
    <3>4. PICK rest : rest = c.items \ {k}
      OBVIOUS
    <3>5. IsFiniteSet(rest) /\ Cardinality(rest) = MaxEntries - 1
      BY <2>3, <3>1, <3>3, <3>4, FS_RemoveElement
    <3>6. IsFiniteSet(rest \cup {key}) /\ Cardinality(rest \cup {key}) = Cardinality(rest) + 1
      BY <3>1, <3>4, <3>5, FS_AddElement
    <3>7. rest \cup {key} \subseteq nw2[k]
      BY <2>1, <3>1, <3>3, <3>4 DEF Remembers
    <3>8. Cardinality(rest \cup {key}) <= Cardinality(nw2[k])
      BY <2>1, <3>7, FS_Subset
    <3>9. MaxEntries <= Cardinality(nw2[k])
      BY <3>5, <3>6, <3>8, DedupConfigFilled
    <3> QED
      BY <2>1, <3>9, DedupConfigFilled, FS_CardinalityType
  <2> QED
    BY <2>2, <2>3
<1>8. ASSUME NEW k \in Keys PROVE mk2[k] <= t + TTL
  BY DEF Remembers
<1>9. t \in Nat
  BY DEF Remembers
<1> QED
  BY <1>3, <1>4, <1>5, <1>6, <1>7, <1>8, <1>9 DEF Remembers

UsedRuns(f, nw, keys) ==
    /\ f[0] = nw /\ f[Len(keys)] = UsedAll(nw, keys)
    /\ \A i \in 1 .. Len(keys) : f[i] = IF keys[i] = NoKey THEN f[i - 1] ELSE Used(f[i - 1], keys[i])

(* The history of Add, key by key. *)
LEMMA UsedRun ==
    ASSUME NEW nw \in [Keys -> SUBSET Keys], NEW keys \in Seq(Keys \cup {NoKey})
    PROVE  \E f : UsedRuns(f, nw, keys)
<1> DEFINE Step(s, key) == IF key = NoKey THEN s ELSE Used(s, key)
<1>1. PICK n, S : n = Len(keys) /\ S = [Keys -> SUBSET Keys]
  OBVIOUS
<1>2. n \in Nat /\ \A i \in 1 .. n : keys[i] \in Keys \cup {NoKey}
  BY <1>1
<1>3. \A s \in S, key \in Keys \cup {NoKey} : Step(s, key) \in S
  BY <1>1 DEF Used
<1>4. PICK g : g = [i \in 1 .. n |-> [s \in S |-> Step(s, keys[i])]]
  OBVIOUS
<1> HIDE DEF Step
<1>5. \A i \in 1 .. n : g[i] \in [S -> S] /\ \A s \in S : g[i][s] = Step(s, keys[i])
  BY <1>2, <1>3, <1>4
<1>6. PICK f \in [0 .. n -> S] : LoopRun(n, nw, g, f)
  BY <1>1, <1>2, <1>5, LoopHasRun
<1>7. \A i \in 0 .. n : f[i] = IF i = 0 THEN nw ELSE g[i][f[i - 1]]
  BY <1>6, Zenon DEF LoopRun
<1>8. \A i \in 0 .. n : f[i] = IF i = 0 THEN nw ELSE Step(f[i - 1], keys[i])
  <2> SUFFICES ASSUME NEW i \in 0 .. n, i # 0 PROVE f[i] = Step(f[i - 1], keys[i])
    BY <1>7
  <2>1. i \in 1 .. n /\ i - 1 \in 0 .. n
    BY <1>2
  <2>2. f[i - 1] \in S
    BY <1>6, <2>1
  <2> QED
    BY <1>5, <1>7, <2>1, <2>2
<1> DEFINE Loop(h) == h = [i \in 0 .. Len(keys) |->
                             IF i = 0 THEN nw
                             ELSE IF keys[i] = NoKey THEN h[i - 1] ELSE Used(h[i - 1], keys[i])]
<1>9. Loop(f)
  BY <1>1, <1>6, <1>8, Zenon DEF Step
<1>10. PICK h : Loop(h) /\ UsedAll(nw, keys) = h[Len(keys)]
  <2>1. UsedAll(nw, keys) = (CHOOSE h : Loop(h))[Len(keys)]
    BY DEF UsedAll
  <2>2. Loop(CHOOSE h : Loop(h))
    <3> HIDE DEF Loop
    <3> QED
      BY <1>9, Zenon
  <2> QED
    BY <2>1, <2>2, Zenon
<1>11. \A i \in 0 .. n : h[i] = IF i = 0 THEN nw ELSE Step(h[i - 1], keys[i])
  BY <1>1, <1>10, Zenon DEF Step
<1>12. 0 \in 0 .. n /\ \A i \in 1 .. n : i \in 0 .. n /\ i # 0
  BY <1>2
<1>13. h[0] = nw /\ \A i \in 1 .. n : h[i] = Step(h[i - 1], keys[i])
  BY <1>11, <1>12, Zenon
<1>14. UsedRuns(h, nw, keys)
  BY <1>1, <1>10, <1>13, Zenon DEF Step, UsedRuns
<1> QED
  BY <1>14

(* Add keeps the promise it makes and every older one. *)
LEMMA AddRemembers ==
    ASSUME NEW c, NEW mk, NEW nw, NEW t, Remembers(c, mk, nw, t), Bounded(c, t), NoKey \notin Keys,
           NEW keys \in Seq(Keys \cup {NoKey}), NEW d, d = Add(c, keys, t),
           NEW mk2, mk2 = [k \in Keys |-> IF k \in Upto(keys, Len(keys)) THEN t + TTL ELSE mk[k]],
           NEW nw2, nw2 = UsedAll(nw, keys)
    PROVE  Remembers(d, mk2, nw2, t) /\ Bounded(d, t)
<1> DEFINE Promise(i) == [k \in Keys |-> IF k \in Upto(keys, i) THEN t + TTL ELSE mk[k]]
<1>1. PICK n, x : n = Len(keys) /\ x = t + TTL
  OBVIOUS
<1>2. /\ c \in Sound(Keys) /\ t \in Nat /\ mk \in [Keys -> Nat] /\ nw \in [Keys -> SUBSET Keys]
      /\ n \in Nat /\ x \in Nat
  BY <1>1, DedupConfigFilled DEF Remembers
<1>2a. PICK f : AddRuns(f, Keys, c, keys, t)
  BY <1>2, AddRun
<1>3. /\ f \in [0 .. n -> Sound(Keys)] /\ f[0] = c /\ f[n] = d
      /\ \A i \in 1 .. n : AddTurn(f[i], f[i - 1], keys[i], x)
  BY <1>1, <1>2a DEF AddRuns
<1>3a. PICK u : UsedRuns(u, nw, keys)
  BY <1>2, UsedRun
<1>4. /\ u[0] = nw /\ u[n] = nw2
      /\ \A i \in 1 .. n : u[i] = IF keys[i] = NoKey THEN u[i - 1] ELSE Used(u[i - 1], keys[i])
  BY <1>1, <1>3a DEF UsedRuns
<1>5. PICK P : P = {i \in 0 .. n : Remembers(f[i], Promise(i), u[i], t) /\ Bounded(f[i], t)}
  OBVIOUS
<1>6. 0 \in P
  <2>1. Promise(0) = mk
    <3>1. Upto(keys, 0) = {}
      BY DEF Upto
    <3> QED
      BY <1>2, <3>1
  <2>2. 0 \in 0 .. n /\ f[0] = c /\ u[0] = nw
    BY <1>2, <1>3, <1>4
  <2> HIDE DEF Promise
  <2>3. Remembers(f[0], Promise(0), u[0], t) /\ Bounded(f[0], t)
    BY <2>1, <2>2, Zenon
  <2> QED
    BY <1>5, <2>2, <2>3
<1>7. ASSUME NEW i \in 1 .. n, i - 1 \in P PROVE i \in P
  <2>1. PICK a, b, p, q, v, w, key :
           /\ a = f[i - 1] /\ b = f[i] /\ p = Promise(i - 1) /\ q = Promise(i)
           /\ v = u[i - 1] /\ w = u[i] /\ key = keys[i]
    OBVIOUS
  <2>2. Remembers(a, p, v, t) /\ Bounded(a, t) /\ i \in 0 .. n
    BY <1>2, <1>5, <1>7, <2>1
  <2>3. AddTurn(b, a, key, x) /\ b \in Sound(Keys) /\ key \in Keys \cup {NoKey}
    <3>1. AddTurn(b, a, key, x)
      BY <1>3, <2>1, Zenon
    <3>2. b \in Sound(Keys)
      BY <1>3, <2>1, <2>2, Zenon
    <3>3. key \in Keys \cup {NoKey}
      BY <1>1, <2>1
    <3> QED
      BY <3>1, <3>2, <3>3
  <2>4. w = IF key = NoKey THEN v ELSE Used(v, key)
    BY <1>4, <2>1
  <2>5. Upto(keys, i) = Upto(keys, i - 1) \cup ({key} \ {NoKey})
    <3>1. \A j : j \in 1 .. i <=> j \in 1 .. i - 1 \/ j = i
      BY <1>2
    <3> QED
      BY <2>1, <3>1 DEF Upto
  <2>6. CASE key = NoKey
    <3>1. b = a /\ w = v
      BY <2>3, <2>4, <2>6 DEF AddTurn
    <3>2. q = p
      BY <2>1, <2>5, <2>6
    <3>3. Remembers(b, q, w, t) /\ Bounded(b, t)
      BY <2>2, <3>1, <3>2
    <3> QED
      BY <1>5, <2>1, <2>2, <3>3
  <2>7. CASE key # NoKey
    <3>1. key \in Keys /\ Added(b, a, key, x) /\ w = Used(v, key)
      BY <2>3, <2>4, <2>7 DEF AddTurn
    <3>2. /\ q \in [Keys -> Nat] /\ q[key] = x
          /\ \A k \in Keys \ {key} : q[k] = p[k]
      <4>1. key \in Upto(keys, i)
        BY <2>5, <2>7
      <4>2. \A k \in Keys \ {key} : k \in Upto(keys, i) <=> k \in Upto(keys, i - 1)
        BY <2>5
      <4> QED
        BY <1>1, <1>2, <2>1, <3>1, <4>1, <4>2
    <3>3. q[key] <= x /\ q[key] <= t + TTL
      BY <1>1, <1>2, <3>2
    <3>4. Remembers(b, q, w, t)
      BY <1>2, <2>2, <2>3, <3>1, <3>2, <3>3, AddedRemembers
    <3>5. Bounded(b, t)
      BY <1>1, <1>2, <2>2, <3>1 DEF Bounded, Added, Fronts
    <3> QED
      BY <1>5, <2>1, <2>2, <3>4, <3>5
  <2> QED
    BY <2>6, <2>7
<1>8. n \in P
  <2>1. \A i \in 0 .. n : i \in P
    BY <1>2, <1>6, <1>7, UpTo
  <2> QED
    BY <1>2, <2>1
<1> QED
  BY <1>1, <1>3, <1>4, <1>5, <1>8
-----------------------------------------------------------------------------
(* The strengthening of MapAndListAgree and RememberedUntilExpiry. *)
CacheInv ==
    /\ Remembers(cache, marked, newer, clock) /\ Bounded(cache, clock)
    /\ redis \subseteq Keys
    /\ clock \in 0 .. LastTime
    /\ pending \in [Callers -> KeySeqs \cup {<<>>}]
    /\ stopped \in BOOLEAN

(* An empty cache has promised nothing. *)
LEMMA CacheInitInv == CacheInit => CacheInv
<1> SUFFICES ASSUME CacheInit PROVE CacheInv
  OBVIOUS
<1>1. /\ cache.items = {} /\ cache.evictList = <<>> /\ cache = [items |-> {}, evictList |-> <<>>]
      /\ clock = 0 /\ redis = {} /\ stopped = FALSE /\ pending = [p \in Callers |-> <<>>]
      /\ marked = [k \in Keys |-> 0] /\ newer = [k \in Keys |-> {}]
  BY DEF CacheInit, NewSeenCache
<1>2. LastTime \in Nat /\ TTL \in Nat /\ MaxEntries \in Nat
  BY CacheAssumption, DedupConfigFilled
<1>3. DOMAIN cache.evictList = {} /\ Len(cache.evictList) = 0
  BY <1>1
<1>4. cache \in Sound(Keys)
  <2>1. cache \in [items : SUBSET Keys, evictList : Seq(Entries(Keys))]
    BY <1>1
  <2>2. Once(cache.evictList) /\ KeysOf(cache.evictList) = {}
    BY <1>3 DEF Once, KeysOf
  <2>3. Fit(cache, Keys)
    BY <1>1, <2>1, <2>2 DEF Fit
  <2>4. Len(cache.evictList) <= MaxEntries
    BY <1>2, <1>3
  <2> QED
    BY <2>3, <2>4, SoundFacts
<1>5. /\ \A k, x : ~Expires(cache.evictList, k, x)
      /\ \A a, b : ~Before(cache.evictList, a, b)
  BY <1>3 DEF Expires, Before
<1>6. \A k \in Keys : IsFiniteSet(newer[k]) /\ marked[k] = 0
  BY <1>1, FS_EmptySet
<1>7. marked \in [Keys -> Nat] /\ newer \in [Keys -> SUBSET Keys]
  BY <1>1
<1>8. Remembers(cache, marked, newer, clock)
  BY <1>1, <1>2, <1>4, <1>5, <1>6, <1>7 DEF Remembers
<1>9. clock \in 0 .. LastTime /\ pending \in [Callers -> KeySeqs \cup {<<>>}]
  BY <1>1, <1>2
<1> QED
  BY <1>1, <1>5, <1>8, <1>9 DEF CacheInv, Bounded

(* The Has section of any caller. *)
LEMMA HasSectionInv ==
    ASSUME CacheInv, NEW keys \in KeySeqs, HasSection(keys)
    PROVE  Remembers(cache', marked, newer', clock) /\ Bounded(cache', clock)
<1>1. PICK c, mk, nw, t, in, r, w :
         /\ c = cache /\ mk = marked /\ nw = newer /\ t = clock /\ in = Exists
         /\ r = Has(c, keys, t, in) /\ w = newer'
  OBVIOUS
<1>2. /\ Remembers(c, mk, nw, t) /\ Bounded(c, t) /\ c \in Sound(Keys) /\ t \in Nat
      /\ keys \in Seq(Keys \cup {NoKey}) /\ NoKey \notin Keys
  BY <1>1, CacheAssumption DEF CacheInv, Remembers
<1>3. cache' = r.cache /\ w = IF r.hit = NoKey THEN nw ELSE Used(nw, r.hit)
  BY <1>1 DEF HasSection
<1>4. r \in Results(Keys) /\ Met(r, c, Keys, keys, in, t)
  BY <1>1, <1>2, HasFacts
<1>5. PICK d \in Sound(Keys) :
        /\ Dropped(d, c, t)
        /\ r.hit = NoKey => r.cache = d /\ Upto(keys, Len(keys)) \cap d.items = {}
        /\ r.hit # NoKey => \E x \in Nat : /\ Added(r.cache, d, r.hit, x)
                                           /\ Expires(d.evictList, r.hit, x) \/ x = t + TTL
  BY <1>4 DEF Met
<1>6. Remembers(d, mk, nw, t)
  BY <1>2, <1>5, DroppedRemembers
<1>7. Bounded(d, t)
  BY <1>2, <1>5 DEF Bounded, Dropped, Keeps
<1>8. CASE r.hit = NoKey
  BY <1>1, <1>3, <1>5, <1>6, <1>7, <1>8
<1>9. CASE r.hit # NoKey
  <2>1. PICK key, e : key = r.hit /\ e = r.cache
    OBVIOUS
  <2>2. PICK x \in Nat : Added(e, d, key, x) /\ (Expires(d.evictList, key, x) \/ x = t + TTL)
    BY <1>5, <1>9, <2>1
  <2>3. key \in Keys /\ e \in Sound(Keys)
    BY <1>4, <1>9, <2>1 DEF Results
  <2>4. mk \in [Keys -> Nat] /\ mk[key] <= t + TTL /\ mk[key] <= x
    BY <1>6, <2>2, <2>3 DEF Remembers
  <2>5. w = Used(nw, key)
    BY <1>3, <1>9, <2>1
  <2>6. Remembers(e, mk, w, t)
    BY <1>6, <2>2, <2>3, <2>4, <2>5, AddedRemembers
  <2>7. Bounded(e, t)
    <3>1. x <= t + TTL
      BY <1>2, <1>7, <2>2, DedupConfigFilled DEF Bounded
    <3> QED
      BY <1>7, <2>2, <3>1 DEF Bounded, Added, Fronts
  <2> QED
    BY <1>1, <1>3, <2>1, <2>6, <2>7
<1> QED
  BY <1>8, <1>9

(* The Add section of any caller. *)
LEMMA AddSectionInv ==
    ASSUME CacheInv, NEW keys \in KeySeqs, AddSection(keys)
    PROVE  Remembers(cache', marked', newer', clock) /\ Bounded(cache', clock) /\ redis' \subseteq Keys
<1>1. PICK c, mk, nw, t, d, mk2, nw2 :
         /\ c = cache /\ mk = marked /\ nw = newer /\ t = clock
         /\ d = cache' /\ mk2 = marked' /\ nw2 = newer'
  OBVIOUS
<1>2. /\ Remembers(c, mk, nw, t) /\ Bounded(c, t)
      /\ keys \in Seq(Keys \cup {NoKey}) /\ NoKey \notin Keys
  BY <1>1, CacheAssumption DEF CacheInv
<1>3. Named(keys) = Upto(keys, Len(keys))
  BY <1>2 DEF Named, Upto, ToSet
<1>4. /\ d = Add(c, keys, t) /\ nw2 = UsedAll(nw, keys)
      /\ mk2 = [k \in Keys |-> IF k \in Upto(keys, Len(keys)) THEN t + TTL ELSE mk[k]]
  BY <1>1, <1>3 DEF AddSection
<1>5. Remembers(d, mk2, nw2, t) /\ Bounded(d, t)
  BY <1>2, <1>4, AddRemembers
<1>6. redis' \subseteq Keys
  <2>1. PICK stored \in SUBSET Named(keys) : redis' = redis \cup stored
    BY DEF AddSection
  <2>2. Named(keys) \subseteq Keys
    BY <1>2 DEF Named, ToSet
  <2> QED
    BY <2>1, <2>2 DEF CacheInv
<1> QED
  BY <1>1, <1>5, <1>6

(* The sweep drops expired entries only. *)
LEMMA SweepInv ==
    ASSUME CacheInv, Sweep PROVE Remembers(cache', marked, newer, clock) /\ Bounded(cache', clock)
<1>1. PICK c, mk, nw, t, d : c = cache /\ mk = marked /\ nw = newer /\ t = clock /\ d = cache'
  OBVIOUS
<1>2. /\ Remembers(c, mk, nw, t) /\ Bounded(c, t) /\ c \in Sound(Keys) /\ t \in Nat /\ d = sweep(c, t)
  BY <1>1 DEF CacheInv, Remembers, Sweep
<1>3. Fit(c, Keys) /\ Len(c.evictList) <= MaxEntries
  BY <1>2, SoundFacts
<1>4. Fit(d, Keys) /\ Dropped(d, c, t)
  BY <1>2, <1>3, SweepFacts
<1>5. d \in Sound(Keys)
  <2>1. Len(d.evictList) <= Len(c.evictList) /\ Len(d.evictList) \in Nat /\ Len(c.evictList) \in Nat
    BY <1>3, <1>4 DEF Dropped, Fit
  <2>2. Len(d.evictList) <= MaxEntries
    BY <1>3, <2>1, DedupConfigFilled
  <2> QED
    BY <1>4, <2>2, SoundFacts
<1>6. Remembers(d, mk, nw, t)
  BY <1>2, <1>4, <1>5, DroppedRemembers
<1>7. Bounded(d, t)
  BY <1>2, <1>4 DEF Bounded, Dropped, Keeps
<1> QED
  BY <1>1, <1>6, <1>7

(* A promise does not get longer as time passes. *)
LEMMA CacheTickInv ==
    ASSUME CacheInv, CacheTick PROVE CacheInv'
<1>1. clock' = clock + 1 /\ clock' \in 0 .. LastTime /\ clock \in Nat /\ clock' \in Nat
  BY CacheAssumption DEF CacheInv, CacheTick
<1>2. UNCHANGED <<cache, redis, pending, stopped, marked, newer>>
  BY DEF CacheTick, history
<1>3. Remembers(cache, marked, newer, clock')
  <2>1. PICK t, u : t = clock /\ u = clock'
    OBVIOUS
  <2>2. Remembers(cache, marked, newer, t) /\ u = t + 1 /\ t \in Nat /\ TTL \in Nat
    BY <1>1, <2>1, DedupConfigFilled DEF CacheInv
  <2>3. ASSUME NEW k \in Keys
        PROVE  marked[k] <= u + TTL /\ ((k \notin cache.items /\ u < marked[k]) => Cardinality(newer[k]) >= MaxEntries)
    <3>1. marked[k] \in Nat /\ marked[k] <= t + TTL
      BY <2>2 DEF Remembers
    <3>2. u < marked[k] => t < marked[k]
      BY <2>2, <3>1
    <3> QED
      BY <2>2, <3>1, <3>2 DEF Remembers
  <2>4. Remembers(cache, marked, newer, u)
    BY <2>2, <2>3 DEF Remembers
  <2> QED
    BY <2>1, <2>4
<1>4. Bounded(cache, clock')
  <2>1. ASSUME NEW k, NEW x, Expires(cache.evictList, k, x) PROVE x <= clock' + TTL
    <3>1. x \in Nat
      <4>1. Fit(cache, Keys)
        BY SoundFacts DEF CacheInv, Remembers
      <4>2. PICK i \in DOMAIN cache.evictList : cache.evictList[i].expiresAt = x
        BY <2>1 DEF Expires
      <4>3. cache.evictList[i] \in Entries(Keys)
        BY <4>1, <4>2 DEF Fit
      <4> QED
        BY <4>2, <4>3 DEF Entries
    <3>2. x <= clock + TTL
      BY <2>1 DEF CacheInv, Bounded
    <3> QED
      BY <1>1, <3>1, <3>2, DedupConfigFilled
  <2> QED
    BY <2>1 DEF Bounded
<1> QED
  BY <1>1, <1>2, <1>3, <1>4 DEF CacheInv

(* Every step of every caller keeps the invariant. *)
LEMMA CacheNextInv == CacheInv /\ [CacheNext]_cachevars => CacheInv'
<1> SUFFICES ASSUME CacheInv, [CacheNext]_cachevars PROVE CacheInv'
  OBVIOUS
<1>1. ASSUME NEW p \in Callers, MarkFirst(p) PROVE CacheInv'
  <2>1. pending[p] \in KeySeqs /\ pending \in [Callers -> KeySeqs \cup {<<>>}]
    BY <1>1 DEF MarkFirst, CacheInv
  <2>2. PICK keys \in KeySeqs : keys = pending[p]
    BY <2>1
  <2>3. AddSection(keys) /\ UNCHANGED <<clock, stopped>>
    BY <1>1, <2>2 DEF MarkFirst, AddSection
  <2>4. Remembers(cache', marked', newer', clock) /\ Bounded(cache', clock) /\ redis' \subseteq Keys
    BY <2>3, AddSectionInv
  <2>5. pending' \in [Callers -> KeySeqs \cup {<<>>}]
    BY <1>1, <2>1 DEF MarkFirst
  <2> QED
    BY <2>3, <2>4, <2>5 DEF CacheInv
<1>2. ASSUME NEW p \in Callers, NEW keys \in KeySeqs, CheckAndMark(p, keys) PROVE CacheInv'
  <2>1. HasSection(keys) /\ UNCHANGED <<redis, clock, stopped, marked>>
    BY <1>2 DEF CheckAndMark, HasSection
  <2>2. Remembers(cache', marked, newer', clock) /\ Bounded(cache', clock)
    BY <2>1, HasSectionInv
  <2>3. pending' \in [Callers -> KeySeqs \cup {<<>>}]
    BY <1>2 DEF CheckAndMark, CacheInv
  <2> QED
    BY <2>1, <2>2, <2>3 DEF CacheInv
<1>3. ASSUME NEW p \in Callers, NEW keys \in KeySeqs, Query(p, keys) PROVE CacheInv'
  <2>1. HasSection(keys) /\ UNCHANGED <<redis, clock, stopped, marked, pending>>
    BY <1>3 DEF Query, HasSection
  <2>2. Remembers(cache', marked, newer', clock) /\ Bounded(cache', clock)
    BY <2>1, HasSectionInv
  <2> QED
    BY <2>1, <2>2 DEF CacheInv
<1>4. ASSUME NEW p \in Callers, NEW keys \in KeySeqs, AddOnly(p, keys) PROVE CacheInv'
  <2>1. AddSection(keys) /\ UNCHANGED <<clock, stopped, pending>>
    BY <1>4 DEF AddOnly, AddSection
  <2>2. Remembers(cache', marked', newer', clock) /\ Bounded(cache', clock) /\ redis' \subseteq Keys
    BY <2>1, AddSectionInv
  <2> QED
    BY <2>1, <2>2 DEF CacheInv
<1>5. CASE Sweep
  <2>1. UNCHANGED <<redis, clock, pending, stopped, marked, newer>>
    BY <1>5 DEF Sweep
  <2>2. Remembers(cache', marked, newer, clock) /\ Bounded(cache', clock)
    BY <1>5, SweepInv
  <2> QED
    BY <2>1, <2>2 DEF CacheInv
<1>6. CASE Dispose
  BY <1>6 DEF CacheInv, Dispose, history
<1>7. ASSUME NEW k \in Keys, PeerSetEx(k) \/ RedisExpire(k) PROVE CacheInv'
  BY <1>7 DEF CacheInv, PeerSetEx, RedisExpire, history
<1>8. CASE CacheTick
  BY <1>8, CacheTickInv
<1>9. CASE UNCHANGED cachevars
  BY <1>9 DEF CacheInv, cachevars
<1> QED
  BY <1>1, <1>2, <1>3, <1>4, <1>5, <1>6, <1>7, <1>8, <1>9 DEF CacheNext

(* For any keys, callers, capacity, TTL and clock, with and without Redis:  *)
(* the map and the LRU list of the cache hold the same entries, each key    *)
(* once, and at most MaxEntries of them, between any two critical sections. *)
THEOREM MapMatchesList == CacheSpec => []MapAndListAgree
<1>1. CacheInv => MapAndListAgree
  <2> SUFFICES ASSUME CacheInv PROVE MapAndListAgree
    OBVIOUS
  <2>1. PICK c, l, t : c = cache /\ l = c.evictList /\ t = clock
    OBVIOUS
  <2>2. Fit(c, Keys) /\ Len(l) <= MaxEntries /\ Bounded(c, t) /\ t \in 0 .. LastTime
    BY <2>1, SoundFacts DEF CacheInv, Remembers
  <2>3. /\ l \in Seq(Entries(Keys)) /\ c.items = KeysOf(l) /\ c.items \subseteq Keys
        /\ DOMAIN l = 1 .. Len(l) /\ Len(l) \in Nat
    BY <2>1, <2>2 DEF Fit
  <2>4. Cardinality(c.items) = Len(l)
    BY <2>1, <2>2, FitSize
  <2>5. ASSUME NEW i \in 1 .. Len(l) PROVE l[i] \in [key : Keys, expiresAt : 0 .. LastTime + TTL]
    <3>1. l[i] \in Entries(Keys) /\ Expires(l, l[i].key, l[i].expiresAt)
      BY <2>3 DEF Expires
    <3>2. l[i].expiresAt <= t + TTL /\ l[i].expiresAt \in Nat
      BY <2>1, <2>2, <3>1 DEF Bounded, Entries
    <3>3. l[i].expiresAt \in 0 .. LastTime + TTL
      BY <2>2, <3>2, CacheAssumption, DedupConfigFilled
    <3> QED
      BY <3>1, <3>3 DEF Entries
  <2>6. l \in Seq([key : Keys, expiresAt : 0 .. LastTime + TTL])
    <3>1. PICK T, n : T = [key : Keys, expiresAt : 0 .. LastTime + TTL] /\ n = Len(l)
      OBVIOUS
    <3>2. l \in [1 .. n -> Entries(Keys)] /\ n \in Nat /\ \A i \in 1 .. n : l[i] \in T
      BY <2>3, <2>5, <3>1
    <3>3. l \in [1 .. n -> T]
      BY <3>2
    <3>4. l \in Seq(T)
      BY <3>2, <3>3, SeqDef
    <3> QED
      BY <3>1, <3>4
  <2>7. KeysOf(l) = {e.key : e \in ToSet(l)}
    BY DEF KeysOf, ToSet
  <2> QED
    BY <2>1, <2>2, <2>3, <2>4, <2>6, <2>7 DEF MapAndListAgree, CacheTypeOK, CacheInv
<1> QED
  BY <1>1, CacheInitInv, CacheNextInv, PTL DEF CacheSpec

(* A key that Add promised to remember is forgotten before its time only    *)
(* after MaxEntries other keys were used since: lookups, refreshes, sweeps  *)
(* and evictions never take another one.                                    *)
THEOREM PromiseKept == CacheSpec => []RememberedUntilExpiry
<1>1. CacheInv => RememberedUntilExpiry
  BY DEF CacheInv, Remembers, RememberedUntilExpiry
<1> QED
  BY <1>1, CacheInitInv, CacheNextInv, PTL DEF CacheSpec
-----------------------------------------------------------------------------
(* The pipeline. *)
Srcs(d) == ToSet(job[d].srcs)

Holds(d) == stage[d] \in {"queued", "busy"} /\ Msg[d].kind # "light"

(* neither refused nor through the lock *)
Pending(d) == stage[d] \in {"new", "checked", "marked", "admitted"}

Distinct(q) == \A i, j \in DOMAIN q : i # j => q[i] # q[j]

QueueInv ==
    /\ queue \in [Scopes -> Seq(Deliveries)]
    /\ \A s \in Scopes : Distinct(queue[s])

Jobs == [phase : {"none", "run", "release", "mark"}, srcs : Seq(Deliveries), ok : BOOLEAN]

(* where the deliveries are that a handler call is about *)
Where(ph) == CASE ph = "run" -> {"busy"}
               [] ph = "release" -> {"busy", "released"}
               [] ph = "mark" -> {"released"}
               [] OTHER -> {}

JobInv ==
    /\ job \in [Deliveries -> Jobs]
    /\ \A d \in Deliveries :
          /\ Distinct(job[d].srcs)
          /\ \A x \in Srcs(d) : stage[x] \in Where(job[d].phase)
          /\ job[d].phase # "none" => /\ job[d].srcs # <<>>
                                      /\ stage[d] \in {"busy", "released", "done"}
    /\ \A d, e \in Deliveries : d # e => Srcs(d) \cap Srcs(e) = {}

LockInv ==
    /\ heldSince \in [Deliveries -> Nat]
    /\ \A id \in DOMAIN locks :
          locks[id] \in Nat /\ \E d \in Deliveries : Id(d) = id /\ Holds(d)
    /\ \A d \in Deliveries :
          Holds(d) /\ Id(d) \notin overrun => /\ Id(d) \in DOMAIN locks
                                              /\ locks[Id(d)] = heldSince[d] + ttlMs
                                              /\ now < heldSince[d] + ttlMs
    /\ \A d, e \in Deliveries :
          d # e /\ Holds(d) /\ Holds(e) /\ Id(d) = Id(e) => Id(d) \in overrun

IInv == TypeOK /\ QueueInv /\ JobInv /\ LockInv
-----------------------------------------------------------------------------
(* Nothing has arrived: no lock, no call, nothing queued. *)
LEMMA InitIInv == Init => IInv
<1> SUFFICES ASSUME Init PROVE IInv
  OBVIOUS
<1> USE MsgAssumption, ClockAssumption DEF Init
<1>1. /\ DOMAIN locks = {} /\ job = [d \in Deliveries |-> NoJob]
      /\ \A d \in Deliveries : stage[d] \in {"new", "absent"}
      /\ stage \in [Deliveries -> Stages]
      /\ \A s \in Scopes : queue[s] = <<>>
  BY DEF NoLocks, Stages
<1>2. TypeOK
  <2>1. /\ mode \in {"direct", "media", "serial", "batch"} /\ policy \in Policies
        /\ bot \in {Bot, NoBot} /\ now \in Epoch .. MaxTime
    OBVIOUS
  <2>2. markAfterHandler \in BOOLEAN
    OBVIOUS
  <2>3. ASSUME NEW s \in Scopes
        PROVE  ToSet(queue[s]) = {d \in Deliveries : Msg[d].conv = s /\ stage[d] = "queued" /\ Ordered(d)}
    <3>1. ToSet(<<>>) = {}
      BY DEF ToSet
    <3> QED
      BY <1>1, <2>3, <3>1
  <2> QED
    BY <1>1, <2>1, <2>2, <2>3 DEF TypeOK
<1>3. QueueInv
  BY <1>1 DEF QueueInv, Distinct
<1>4. JobInv
  <2>1. NoJob \in Jobs /\ NoJob.srcs = <<>> /\ NoJob.phase = "none"
    BY DEF NoJob, Jobs
  <2>2. \A d \in Deliveries : job[d].srcs = <<>> /\ Srcs(d) = {}
    BY <1>1, <2>1 DEF Srcs, ToSet
  <2> QED
    BY <1>1, <2>1, <2>2 DEF JobInv, Distinct
<1>5. LockInv
  BY <1>1 DEF LockInv, Holds
<1> QED
  BY <1>2, <1>3, <1>4, <1>5 DEF IInv

(* What a step changes of the goroutine of d while it has neither lock nor  *)
(* handler call.                                                            *)
LEMMA EarlyIInv ==
    ASSUME IInv, NEW d \in Deliveries, Pending(d),
           NEW t \in {"checked", "marked", "admitted"} \cup Rejections,
           stage' = [stage EXCEPT ![d] = t],
           heldSince' \in [Deliveries -> Nat],
           \A e \in Deliveries \ {d} : heldSince'[e] = heldSince[e],
           UNCHANGED <<mode, markAfterHandler, policy, bot, now, locks, queue, job, overrun>>
    PROVE  IInv'
<1> USE DEF IInv, Pending, Rejections
<1>1. /\ stage \in [Deliveries -> Stages] /\ stage'[d] = t /\ ~Holds(d) /\ ~Holds(d)'
      /\ \A e \in Deliveries \ {d} : stage'[e] = stage[e] /\ Holds(e)' = Holds(e)
  BY DEF TypeOK, Holds
<1>2. TypeOK'
  BY <1>1 DEF TypeOK, Ordered, Stages, Passed
<1>3. QueueInv'
  BY DEF QueueInv, Distinct
<1>4. JobInv'
  <2>1. \A e \in Deliveries : \A x \in Srcs(e) : x # d
    BY <1>1 DEF JobInv, Where
  <2>2. job[d].phase = "none"
    BY DEF JobInv, Jobs
  <2>3. \A e \in Deliveries : Srcs(e) \subseteq Deliveries
    BY DEF JobInv, Jobs, Srcs, ToSet
  <2>4. \A e \in Deliveries : \A x \in Srcs(e)' : stage'[x] \in Where(job'[e].phase)
    BY <1>1, <2>1, <2>3 DEF JobInv, Srcs
  <2>5. \A e \in Deliveries : job'[e].phase # "none" =>
            job'[e].srcs # <<>> /\ stage'[e] \in {"busy", "released", "done"}
    BY <1>1, <2>2 DEF JobInv
  <2>6. \A e \in Deliveries : Distinct(job'[e].srcs) /\ Srcs(e)' = Srcs(e)
    BY DEF JobInv, Srcs
  <2> QED
    BY <2>4, <2>5, <2>6 DEF JobInv
<1>5. LockInv'
  BY <1>1 DEF LockInv
<1> QED
  BY <1>2, <1>3, <1>4, <1>5

(* A successful Acquire: whoever holds the id as well has outlived its      *)
(* lock, or the entry would have been in the way.                           *)
LEMMA LockIInv == ASSUME IInv, NEW d \in Deliveries, Lock(d) PROVE IInv'
<1> USE MsgAssumption, ClockAssumption, TtlAssumption
<1>1. /\ stage \in [Deliveries -> Stages] /\ now \in Nat /\ stage[d] = "admitted"
      /\ heldSince \in [Deliveries -> Nat] /\ heldSince' = [heldSince EXCEPT ![d] = now]
      /\ UNCHANGED <<cfgvars, policy, bot, now, seen, job>>
  BY DEF TypeOK, LockInv, Lock, IInv
<1>2. heldSince' \in [Deliveries -> Nat] /\ heldSince'[d] = now
      /\ \A e \in Deliveries \ {d} : heldSince'[e] = heldSince[e]
  BY <1>1
<1>3. CASE Reject(d, "contention") /\ UNCHANGED <<locks, queue, overrun>>
  <2>1. stage' = [stage EXCEPT ![d] = "contention"] /\ Pending(d) /\ "contention" \in Rejections
    BY <1>1, <1>3 DEF Reject, To, Pending
  <2> QED
    BY <1>1, <1>2, <1>3, <2>1, EarlyIInv DEF cfgvars
<1> USE DEF IInv, cfgvars
<1>4. ASSUME Msg[d].kind = "light" \/ Available(locks, Id(d), now),
             locks' = IF Msg[d].kind = "light" THEN locks ELSE Locked(locks, Id(d), now),
             stage' = [stage EXCEPT ![d] = "queued"],
             queue' = IF Ordered(d) THEN [queue EXCEPT ![Msg[d].conv] = Append(@, d)] ELSE queue,
             overrun' = overrun \cup Outlived(now, stage')
      PROVE  IInv'
  <2>1. /\ stage'[d] = "queued" /\ ~Holds(d) /\ (Holds(d)' <=> Msg[d].kind # "light")
        /\ \A e \in Deliveries \ {d} : stage'[e] = stage[e] /\ Holds(e)' = Holds(e)
    BY <1>1, <1>4 DEF Holds
  <2>2. QueueInv' /\ \A s \in Scopes : ToSet(queue'[s]) = IF Ordered(d) /\ s = Msg[d].conv
                                                    THEN ToSet(queue[s]) \cup {d} ELSE ToSet(queue[s])
    <3>1. \A s \in Scopes : d \notin ToSet(queue[s])
      BY <1>1 DEF TypeOK
    <3>2. CASE Ordered(d)
      <4> DEFINE s == Msg[d].conv
                 q == queue[s]
                 r == Append(q, d)
      <4>0. q \in Seq(Deliveries)
        BY DEF QueueInv
      <4> HIDE DEF q
      <4>1. /\ q \in Seq(Deliveries) /\ r \in Seq(Deliveries)
            /\ DOMAIN r = DOMAIN q \cup {Len(q) + 1} /\ r[Len(q) + 1] = d
            /\ \A i \in DOMAIN q : r[i] = q[i]
        BY ONLY <4>0, d \in Deliveries
      <4> USE DEF q
      <4>2. ToSet(r) = ToSet(q) \cup {d}
        BY <4>1 DEF ToSet
      <4>3. Distinct(r)
        BY <3>1, <4>1 DEF Distinct, QueueInv, ToSet
      <4>4. s \in Scopes /\ queue' = [queue EXCEPT ![s] = r]
        BY <1>4, <3>2
      <4> HIDE DEF s, q, r
      <4>5. queue'[s] = r /\ \A u \in Scopes \ {s} : queue'[u] = queue[u]
        BY <4>4 DEF QueueInv
      <4>6. QueueInv'
        BY <4>1, <4>3, <4>4, <4>5 DEF QueueInv
      <4> QED
        BY <3>2, <4>2, <4>4, <4>5, <4>6 DEF s, q
    <3>3. CASE ~Ordered(d)
      BY <1>4, <3>3 DEF QueueInv
    <3> QED
      BY <3>2, <3>3
  <2>3. TypeOK'
    <3>1. DOMAIN locks' \subseteq {Id(e) : e \in Deliveries}
      BY <1>4 DEF Locked, TypeOK
    <3>2. stage' \in [Deliveries -> Stages]
      BY <1>1, <1>4 DEF Stages, Passed
    <3>3. \A e \in Deliveries : Ordered(e)' = Ordered(e)
      BY <1>1 DEF Ordered
    <3>4. \A s \in Scopes :
            ToSet(queue'[s]) = {e \in Deliveries : Msg[e].conv = s /\ stage'[e] = "queued" /\ Ordered(e)}
      <4> SUFFICES ASSUME NEW s \in Scopes
                   PROVE  ToSet(queue'[s]) = {e \in Deliveries : Msg[e].conv = s /\ stage'[e] = "queued" /\ Ordered(e)}
        OBVIOUS
      <4>1. ToSet(queue[s]) = {e \in Deliveries : Msg[e].conv = s /\ stage[e] = "queued" /\ Ordered(e)}
        BY DEF TypeOK
      <4>2. CASE Ordered(d) /\ s = Msg[d].conv
        BY <1>1, <2>1, <2>2, <4>1, <4>2
      <4>3. CASE ~(Ordered(d) /\ s = Msg[d].conv)
        BY <1>1, <2>1, <2>2, <4>1, <4>3
      <4> QED
        BY <4>2, <4>3
    <3> QED
      BY <1>1, <3>1, <3>2, <3>3, <3>4, ZenonT(30) DEF TypeOK
  <2>4. JobInv'
    <3>1. \A e \in Deliveries : Srcs(e) \subseteq Deliveries \ {d} /\ Srcs(e)' = Srcs(e)
      <4>1. \A e \in Deliveries : \A x \in Srcs(e) : x # d
        BY <1>1 DEF JobInv, Where
      <4>2. \A e \in Deliveries : Srcs(e) \subseteq Deliveries /\ Srcs(e)' = Srcs(e)
        BY <1>1 DEF JobInv, Jobs, Srcs, ToSet
      <4> QED
        BY <4>1, <4>2
    <3>2. job[d].phase = "none"
      BY <1>1 DEF JobInv, Jobs
    <3>3. \A e \in Deliveries : \A x \in Srcs(e)' : stage'[x] \in Where(job'[e].phase)
      BY <1>1, <2>1, <3>1 DEF JobInv
    <3>4. \A e \in Deliveries : job'[e].phase # "none" =>
              job'[e].srcs # <<>> /\ stage'[e] \in {"busy", "released", "done"}
      BY <1>1, <2>1, <3>2 DEF JobInv
    <3> QED
      BY <1>1, <3>1, <3>3, <3>4 DEF JobInv
  <2>5. LockInv'
    <3>1. overrun \subseteq overrun' /\ \A e \in Deliveries :
              Holds(e)' /\ heldSince'[e] + ttlMs <= now => Id(e) \in overrun'
      BY <1>4, <2>1 DEF Outlived, Holds
    <3>2. CASE Msg[d].kind = "light"
      BY <1>1, <1>2, <1>4, <2>1, <3>1, <3>2 DEF LockInv
    <3>3. ASSUME Msg[d].kind # "light" PROVE LockInv'
      <4>1. /\ DOMAIN locks' = DOMAIN locks \cup {Id(d)} /\ locks'[Id(d)] = now + ttlMs
            /\ \A id \in DOMAIN locks \ {Id(d)} : locks'[id] = locks[id]
        BY <1>4, <3>3 DEF Locked
      <4>2. \A e \in Deliveries : Holds(e) /\ Id(e) = Id(d) => Id(e) \in overrun
        BY <1>1, <1>4, <3>3 DEF LockInv, Available
      <4>3. \A id \in DOMAIN locks' :
              locks'[id] \in Nat /\ \E e \in Deliveries : Id(e) = id /\ Holds(e)'
        BY <1>1, <2>1, <3>3, <4>1 DEF LockInv
      <4>4. ASSUME NEW e \in Deliveries, Holds(e)', Id(e) \notin overrun'
            PROVE  /\ Id(e) \in DOMAIN locks' /\ locks'[Id(e)] = heldSince'[e] + ttlMs
                   /\ now < heldSince'[e] + ttlMs
        BY <1>1, <1>2, <2>1, <3>1, <4>1, <4>2, <4>4 DEF LockInv
      <4>5. ASSUME NEW e \in Deliveries, NEW g \in Deliveries, e # g, Holds(e)', Holds(g)',
                   Id(e) = Id(g)
            PROVE  Id(e) \in overrun'
        BY <2>1, <3>1, <4>2, <4>5 DEF LockInv
      <4> QED
        BY <1>1, <1>2, <4>3, <4>4, <4>5 DEF LockInv, Id
    <3> QED
      BY <3>2, <3>3
  <2> QED
    BY <2>2, <2>3, <2>4, <2>5
<1> QED
  BY <1>3, <1>4, Zenon DEF Lock, To

(* Stale check, cache, self filter and policy gate. *)
LEMMA CheckIInv ==
    ASSUME IInv, NEW d \in Deliveries, Enter(d) \/ Mark(d) \/ Gate(d) PROVE IInv'
<1>1. policy \in Policies /\ heldSince \in [Deliveries -> Nat]
  BY DEF IInv, TypeOK, LockInv
<1> USE DEF Reject, To, cfgvars, ghosts
<1>2. CASE Enter(d)
  <2>1. /\ Pending(d)
        /\ UNCHANGED <<mode, markAfterHandler, policy, bot, now, locks, queue, job, heldSince, overrun>>
    BY <1>2 DEF Enter, Pending
  <2>2. PICK t \in {"checked", "marked"} \cup Rejections : stage' = [stage EXCEPT ![d] = t]
    BY <1>2 DEF Enter
  <2> QED
    BY <1>1, <2>1, <2>2, EarlyIInv
<1>3. CASE Mark(d)
  <2>1. /\ Pending(d) /\ stage' = [stage EXCEPT ![d] = "marked"]
        /\ UNCHANGED <<mode, markAfterHandler, policy, bot, now, locks, queue, job, heldSince, overrun>>
    BY <1>3 DEF Mark, Pending
  <2> QED
    BY <1>1, <2>1, EarlyIInv
<1>4. CASE Gate(d)
  <2>1. /\ Pending(d)
        /\ UNCHANGED <<mode, markAfterHandler, policy, bot, now, locks, queue, job, heldSince, overrun>>
    BY <1>4 DEF Gate, Pending
  <2>2. PICK t \in {"admitted"} \cup Rejections : stage' = [stage EXCEPT ![d] = t]
    BY <1>4 DEF Gate
  <2> QED
    BY <1>1, <2>1, <2>2, EarlyIInv
<1> QED
  BY <1>2, <1>3, <1>4

(* The configuration, the sweeps and the clock.  A sweep takes no entry of  *)
(* a holder that is in time, and a holder whose time is up at a tick has    *)
(* overrun.                                                                 *)
LEMMA BackgroundIInv ==
    ASSUME IInv,
           SetBotIdentity \/ SweepSeen \/ SweepLocks \/ Tick
               \/ \E p \in Policies \ {policy} : UpdatePolicy(p)
    PROVE  IInv'
<1> USE MsgAssumption, ClockAssumption, TtlAssumption DEF IInv
<1>1. /\ UNCHANGED <<mode, markAfterHandler, stage, queue, job, heldSince>>
      /\ policy' \in Policies /\ bot' \in {Bot, NoBot} /\ now' \in Epoch .. MaxTime
      /\ now \in Nat
  BY DEF SetBotIdentity, SweepSeen, SweepLocks, Tick, UpdatePolicy, TypeOK, cfgvars, ghosts
<1>2. DOMAIN locks' \subseteq DOMAIN locks
  BY DEF SetBotIdentity, SweepSeen, SweepLocks, Tick, UpdatePolicy, Swept
<1>3. TypeOK'
  BY <1>1, <1>2 DEF TypeOK, Ordered
<1>4. QueueInv'
  BY <1>1 DEF QueueInv
<1>5. JobInv'
  <2>1. \A e \in Deliveries : Srcs(e)' = Srcs(e)
    BY <1>1 DEF Srcs
  <2> QED
    BY <1>1, <2>1 DEF JobInv
<1>6. LockInv'
  <2>1. CASE SweepLocks
    BY <1>1, <2>1 DEF SweepLocks, Swept, LockInv, Holds, ghosts
  <2>2. CASE Tick
    BY <1>1, <2>2 DEF Tick, LockInv, Holds, Outlived
  <2>3. CASE UNCHANGED <<locks, now, overrun>>
    BY <1>1, <2>3 DEF LockInv, Holds
  <2> QED
    BY <2>1, <2>2, <2>3 DEF SetBotIdentity, SweepSeen, UpdatePolicy, ghosts
<1> QED
  BY <1>3, <1>4, <1>5, <1>6

(* b and r are the two parts of a q without repetitions *)
CutInTwo(q, b, r) ==
    /\ Distinct(b) /\ Distinct(r) /\ b[1] \in ToSet(b)
    /\ ToSet(b) \subseteq ToSet(q) /\ ToSet(r) = ToSet(q) \ ToSet(b)

(* A queue without repetitions, cut behind its l-th entry. *)
LEMMA CutDistinct ==
    ASSUME NEW q \in Seq(Deliveries), Distinct(q), NEW l \in 1 .. Len(q)
    PROVE  CutInTwo(q, SubSeq(q, 1, l), SubSeq(q, l + 1, Len(q)))
<1> DEFINE b == SubSeq(q, 1, l)
           r == SubSeq(q, l + 1, Len(q))
           n == Len(q)
<1>1. /\ DOMAIN b = 1 .. l /\ \A i \in 1 .. l : b[i] = q[i]
      /\ DOMAIN q = 1 .. n /\ n \in Nat /\ l \in 1 .. n
  OBVIOUS
<1>2. DOMAIN r = 1 .. n - l /\ \A i \in 1 .. n - l : r[i] = q[i + l]
  OBVIOUS
<1> HIDE DEF b, r, n
<1>3. \A i \in 1 .. n - l : i + l \in 1 .. n /\ i + l \notin 1 .. l
  BY <1>1
<1>4. Distinct(b) /\ Distinct(r)
  <2>1. \A i, j \in 1 .. n : i # j => q[i] # q[j]
    BY <1>1 DEF Distinct
  <2>2. \A i, j \in 1 .. l : i # j => b[i] # b[j]
    BY <1>1, <2>1
  <2>3. ASSUME NEW i \in 1 .. n - l, NEW j \in 1 .. n - l, i # j PROVE r[i] # r[j]
    <3>1. i + l # j + l
      BY <1>1, <2>3
    <3> QED
      BY <1>2, <1>3, <2>1, <3>1
  <2> QED
    BY <1>1, <1>2, <2>2, <2>3 DEF Distinct
<1>5. ToSet(b) \subseteq ToSet(q) /\ b[1] \in ToSet(b)
  BY <1>1 DEF ToSet
<1>6. ASSUME NEW i \in 1 .. n - l PROVE r[i] \in ToSet(q) /\ r[i] \notin ToSet(b)
  <2>1. PICK j : j = i + l
    OBVIOUS
  <2>2. j \in 1 .. n /\ j \notin 1 .. l /\ r[i] = q[j]
    BY <1>2, <1>3, <2>1
  <2>3. \A k \in 1 .. l : k \in 1 .. n /\ k # j
    BY <1>1, <2>2
  <2>4. \A k \in 1 .. l : b[k] # q[j]
    BY <1>1, <2>2, <2>3 DEF Distinct
  <2> QED
    BY <1>1, <2>2, <2>4 DEF ToSet
<1>7. ASSUME NEW i \in 1 .. n, q[i] \notin ToSet(b) PROVE q[i] \in ToSet(r)
  <2>1. i \notin 1 .. l
    BY <1>1, <1>7 DEF ToSet
  <2>2. i - l \in 1 .. n - l /\ (i - l) + l = i
    BY <1>1, <2>1
  <2>3. r[i - l] = q[i]
    BY <1>2, <2>2
  <2> QED
    BY <1>2, <2>2, <2>3 DEF ToSet
<1>8. ToSet(r) = ToSet(q) \ ToSet(b)
  BY <1>1, <1>2, <1>6, <1>7, ZenonT(30) DEF ToSet
<1> QED
  BY <1>4, <1>5, <1>8 DEF CutInTwo, b, r

(* What the handler may be called with: deliveries that wait in the scope,  *)
(* each once, and none of them waits any longer.                            *)
LEMMA BatchFacts ==
    ASSUME IInv, NEW s \in Scopes, NEW b, Start(s, b)
    PROVE  /\ b \in Seq(Deliveries) /\ b # <<>> /\ Distinct(b)
           /\ \A x \in ToSet(b) : stage[x] = "queued"
           /\ QueueInv'
           /\ \A u \in Scopes : ToSet(queue'[u]) = ToSet(queue[u]) \ ToSet(b)
<1> DEFINE q == queue[s]
<1>1. /\ \A u \in Scopes : queue[u] \in Seq(Deliveries) /\ Distinct(queue[u])
      /\ queue \in [Scopes -> Seq(Deliveries)]
      /\ \A u \in Scopes :
            ToSet(queue[u]) = {d \in Deliveries : Msg[d].conv = u /\ stage[d] = "queued" /\ Ordered(d)}
  BY DEF IInv, QueueInv, TypeOK
<1>2. CASE \E d \in Deliveries : b = <<d>> /\ stage[d] = "queued" /\ ~Ordered(d)
  <2>1. PICK d \in Deliveries : b = <<d>> /\ stage[d] = "queued" /\ ~Ordered(d)
    BY <1>2
  <2>2. b \in Seq(Deliveries) /\ b # <<>> /\ DOMAIN b = {1} /\ b[1] = d
    BY <2>1
  <2>3. ToSet(b) = {d} /\ Distinct(b) /\ queue' = queue
    BY <2>1, <2>2 DEF Distinct, ToSet, Start
  <2>4. \A u \in Scopes : d \notin ToSet(queue[u])
    BY <1>1, <2>1
  <2> QED
    BY <1>1, <2>1, <2>2, <2>3, <2>4 DEF QueueInv
<1>3. CASE \E l \in 1 .. Len(q) : b = SubSeq(q, 1, l)
  <2>1. PICK l \in 1 .. Len(q) : b = SubSeq(q, 1, l)
    BY <1>3
  <2>2. PICK r : r = SubSeq(q, l + 1, Len(q))
    OBVIOUS
  <2>3. /\ b \in Seq(Deliveries) /\ Len(b) = l /\ b # <<>> /\ r \in Seq(Deliveries)
    <3>1. q \in Seq(Deliveries)
      BY <1>1
    <3> HIDE DEF q
    <3>2. SubSeq(q, 1, l) \in Seq(Deliveries) /\ Len(SubSeq(q, 1, l)) = l
      BY <3>1
    <3>3. SubSeq(q, l + 1, Len(q)) \in Seq(Deliveries)
      BY <3>1
    <3>4. b \in Seq(Deliveries) /\ Len(b) = l /\ r \in Seq(Deliveries)
      BY <2>1, <2>2, <3>2, <3>3, Zenon
    <3> QED
      BY <3>4
  <2>4. /\ Distinct(b) /\ Distinct(r) /\ b[1] \in ToSet(b)
        /\ ToSet(b) \subseteq ToSet(q) /\ ToSet(r) = ToSet(q) \ ToSet(b)
        /\ Ordered(b[1])
    <3>1. q \in Seq(Deliveries) /\ Distinct(q)
      BY <1>1
    <3>2. CutInTwo(q, SubSeq(q, 1, l), SubSeq(q, l + 1, Len(q)))
      BY <3>1, CutDistinct
    <3>3. CutInTwo(q, b, r)
      BY <2>1, <2>2, <3>2
    <3> QED
      BY <1>1, <3>3 DEF CutInTwo
  <2>5. queue' = [queue EXCEPT ![s] = r]
    BY <2>2, <2>3, <2>4 DEF Start
  <2>6. queue'[s] = r /\ \A u \in Scopes \ {s} : queue'[u] = queue[u]
    BY <1>1, <2>5
  <2>7. QueueInv'
    BY <1>1, <2>3, <2>4, <2>5, <2>6 DEF QueueInv
  <2>8. \A u \in Scopes \ {s} : ToSet(queue[u]) \cap ToSet(b) = {}
    BY <1>1, <2>4
  <2> QED
    BY <1>1, <2>3, <2>4, <2>6, <2>7, <2>8
<1>4. b \in Runs(q) => \E l \in 1 .. Len(q) : b = SubSeq(q, 1, l)
  <2> SUFFICES ASSUME b \in Runs(q) PROVE \E l \in 1 .. Len(q) : b = SubSeq(q, 1, l)
    OBVIOUS
  <2>1. PICK l \in 0 .. Len(q) : b = SubSeq(q, 1, l) /\ b # <<>>
    BY DEF Runs, Prefixes
  <2>2. l # 0
    BY <1>1, <2>1
  <2> QED
    BY <1>1, <2>1, <2>2
<1> QED
  BY <1>2, <1>3, <1>4 DEF Start, NextBatches

(* The handler is called: its batch is busy, and belongs to no other call. *)
LEMMA StartIInv == ASSUME IInv, NEW s \in Scopes, NEW b, Start(s, b) PROVE IInv'
<1>1. /\ b \in Seq(Deliveries) /\ b # <<>> /\ Distinct(b)
      /\ \A x \in ToSet(b) : stage[x] = "queued"
      /\ QueueInv'
      /\ \A u \in Scopes : ToSet(queue'[u]) = ToSet(queue[u]) \ ToSet(b)
  BY BatchFacts
<1> DEFINE d == b[1]
           new == [phase |-> "run", srcs |-> b, ok |-> FALSE]
<1>2. /\ d \in Deliveries /\ d \in ToSet(b) /\ ToSet(b) \subseteq Deliveries
  BY <1>1 DEF ToSet
<1>3. /\ job' = [job EXCEPT ![d] = new]
      /\ stage' = [x \in Deliveries |-> IF x \in ToSet(b) THEN "busy" ELSE stage[x]]
      /\ UNCHANGED <<mode, markAfterHandler, policy, bot, now, locks, heldSince, overrun>>
  BY DEF Start, cfgvars, ghosts
<1>4. new \in Jobs /\ new.srcs = b /\ new.phase = "run"
  BY <1>1 DEF Jobs
<1> HIDE DEF d, new
<1> USE DEF IInv
<1>5. /\ stage \in [Deliveries -> Stages] /\ stage' \in [Deliveries -> Stages]
      /\ \A x \in Deliveries : stage'[x] = IF x \in ToSet(b) THEN "busy" ELSE stage[x]
  BY <1>3 DEF TypeOK, Stages, Passed
<1>6. TypeOK'
  <2>1. ASSUME NEW u \in Scopes
        PROVE  ToSet(queue'[u]) = {x \in Deliveries : Msg[x].conv = u /\ stage'[x] = "queued" /\ Ordered(x)}
    <3>1. ToSet(queue[u]) = {x \in Deliveries : Msg[x].conv = u /\ stage[x] = "queued" /\ Ordered(x)}
      BY DEF TypeOK
    <3> QED
      BY <1>1, <1>5, <2>1, <3>1
  <2>2. \A x \in Deliveries : Ordered(x)' = Ordered(x)
    BY <1>3 DEF Ordered
  <2> QED
    BY <1>3, <1>5, <2>1, <2>2, SMTT(30) DEF TypeOK
<1>7. JobInv'
  <2>1. job' \in [Deliveries -> Jobs] /\ job'[d] = new
        /\ \A e \in Deliveries \ {d} : job'[e] = job[e]
    BY <1>2, <1>3, <1>4 DEF JobInv
  <2>2. Srcs(d)' = ToSet(b) /\ \A e \in Deliveries \ {d} : Srcs(e)' = Srcs(e)
    BY <1>4, <2>1 DEF Srcs
  <2>3. \A e \in Deliveries : Srcs(e) \subseteq Deliveries /\ Srcs(e) \cap ToSet(b) = {}
    <3>1. \A e \in Deliveries : Srcs(e) \subseteq Deliveries
      BY DEF JobInv, Jobs, Srcs, ToSet
    <3>2. \A e \in Deliveries : \A x \in Srcs(e) : stage[x] # "queued"
      BY DEF JobInv, Where
    <3> QED
      BY <1>1, <3>1, <3>2
  <2>4. ASSUME NEW e \in Deliveries
        PROVE  /\ Distinct(job'[e].srcs)
               /\ \A x \in Srcs(e)' : stage'[x] \in Where(job'[e].phase)
               /\ job'[e].phase # "none" => /\ job'[e].srcs # <<>>
                                            /\ stage'[e] \in {"busy", "released", "done"}
    <3>1. CASE e = d
      BY <1>1, <1>2, <1>4, <1>5, <2>1, <2>2, <3>1 DEF Where
    <3>2. CASE e # d
      BY <1>1, <1>5, <2>1, <2>2, <2>3, <3>2 DEF JobInv
    <3> QED
      BY <3>1, <3>2
  <2>5. \A e, g \in Deliveries : e # g => Srcs(e)' \cap Srcs(g)' = {}
    BY <2>2, <2>3 DEF JobInv
  <2> QED
    BY <2>1, <2>4, <2>5 DEF JobInv
<1>8. LockInv'
  <2>1. \A x \in Deliveries : Holds(x)' = Holds(x)
    BY <1>1, <1>5 DEF Holds
  <2> QED
    BY <1>3, <2>1 DEF LockInv
<1> QED
  BY <1>1, <1>6, <1>7, <1>8

(* The handler returns. *)
LEMMA ReturnIInv ==
    ASSUME IInv, NEW d \in Deliveries, NEW ok \in BOOLEAN, Return(d, ok) PROVE IInv'
<1> USE DEF IInv
<1>1. /\ job[d].phase = "run" /\ job[d] \in Jobs
      /\ job' = [job EXCEPT ![d] = [@ EXCEPT !.phase = "release", !.ok = ok]]
      /\ UNCHANGED <<mode, markAfterHandler, policy, bot, now, locks, stage, queue, heldSince, overrun>>
  BY DEF Return, cfgvars, JobInv
<1>2. /\ job'[d].phase = "release" /\ job'[d].srcs = job[d].srcs /\ job' \in [Deliveries -> Jobs]
      /\ \A e \in Deliveries \ {d} : job'[e] = job[e]
  BY <1>1 DEF JobInv, Jobs
<1>3. TypeOK' /\ QueueInv' /\ LockInv'
  BY <1>1 DEF TypeOK, QueueInv, LockInv, Ordered, Holds
<1>4. JobInv'
  <2>1. \A e \in Deliveries : Srcs(e)' = Srcs(e) /\ job'[e].srcs = job[e].srcs
    BY <1>2 DEF Srcs
  <2>2. \A e \in Deliveries : \A x \in Srcs(e)' : stage'[x] \in Where(job'[e].phase)
    BY <1>1, <1>2, <2>1 DEF JobInv, Where
  <2> QED
    BY <1>1, <1>2, <2>1, <2>2 DEF JobInv
<1> QED
  BY <1>3, <1>4

(* Release(id) on behalf of x: the entry may be that of another holder, but *)
(* then the id has been overrun.                                            *)
LEMMA DropLockInv ==
    ASSUME LockInv, NEW x \in Deliveries, Holds(x), ~Holds(x)',
           \A e \in Deliveries \ {x} : Holds(e)' = Holds(e),
           locks' = Released(locks, Id(x)),
           heldSince' \in [Deliveries -> Nat],
           \A e \in Deliveries : Holds(e)' => heldSince'[e] = heldSince[e],
           UNCHANGED <<now, overrun>>
    PROVE  LockInv'
<1>1. /\ DOMAIN locks' = DOMAIN locks \ {Id(x)}
      /\ \A id \in DOMAIN locks' : locks'[id] = locks[id]
  BY DEF Released
<1>2. \A e \in Deliveries \ {x} : Holds(e) /\ Id(e) = Id(x) => Id(e) \in overrun
  BY DEF LockInv
<1>3. \A id \in DOMAIN locks' :
        locks'[id] \in Nat /\ \E d \in Deliveries : Id(d) = id /\ Holds(d)'
  <2> SUFFICES ASSUME NEW id \in DOMAIN locks'
               PROVE  locks'[id] \in Nat /\ \E d \in Deliveries : Id(d) = id /\ Holds(d)'
    OBVIOUS
  <2>1. PICK d \in Deliveries : Id(d) = id /\ Holds(d)
    BY <1>1 DEF LockInv
  <2>2. d # x
    BY <1>1, <2>1
  <2> QED
    BY <1>1, <2>1, <2>2 DEF LockInv
<1>4. \A d \in Deliveries :
        Holds(d)' /\ Id(d) \notin overrun => /\ Id(d) \in DOMAIN locks'
                                             /\ locks'[Id(d)] = heldSince'[d] + ttlMs
                                             /\ now < heldSince'[d] + ttlMs
  BY <1>1, <1>2 DEF LockInv
<1>5. \A d, e \in Deliveries :
        d # e /\ Holds(d)' /\ Holds(e)' /\ Id(d) = Id(e) => Id(d) \in overrun
  BY DEF LockInv
<1> QED
  BY <1>3, <1>4, <1>5 DEF LockInv, Id

(* What a handler call does to the stages of its own sources: to released, *)
(* and from there to done.                                                  *)
LEMMA OwnStages ==
    ASSUME IInv, NEW d \in Deliveries, NEW X, X \subseteq Srcs(d), NEW t \in {"released", "done"},
           stage' = [x \in Deliveries |-> IF x \in X THEN t ELSE stage[x]],
           DOMAIN locks' \subseteq DOMAIN locks,
           UNCHANGED <<mode, markAfterHandler, policy, bot, now, queue>>
    PROVE  /\ TypeOK' /\ QueueInv'
           /\ \A e \in Deliveries \ {d} : \A x \in Srcs(e) : stage'[x] = stage[x]
           /\ \A e \in Deliveries :
                 /\ stage[e] \in {"busy", "released", "done"} => stage'[e] \in {"busy", "released", "done"}
                 /\ Holds(e)' <=> Holds(e) /\ e \notin X
<1> USE DEF IInv
<1>1. X \subseteq Deliveries /\ \A e \in Deliveries : Srcs(e) \subseteq Deliveries
  BY DEF JobInv, Jobs, Srcs, ToSet
<1>2. \A x \in X : stage[x] \in {"busy", "released"}
  BY DEF JobInv, Where, Jobs
<1>3. \A x \in Deliveries : stage'[x] = IF x \in X THEN t ELSE stage[x]
  OBVIOUS
<1>4. stage \in [Deliveries -> Stages] /\ stage' \in [Deliveries -> Stages]
  BY DEF TypeOK, Stages, Passed
<1>5. TypeOK'
  <2>1. \A x \in Deliveries : (stage'[x] = "queued" <=> stage[x] = "queued") /\ (Ordered(x)' <=> Ordered(x))
    BY <1>2, <1>3 DEF Ordered
  <2>2. \A s \in Scopes :
          ToSet(queue'[s]) = {x \in Deliveries : Msg[x].conv = s /\ stage'[x] = "queued" /\ Ordered(x)'}
    BY <2>1 DEF TypeOK
  <2> QED
    BY <1>4, <2>2 DEF TypeOK
<1>6. QueueInv'
  BY DEF QueueInv
<1>7. \A e \in Deliveries \ {d} : \A x \in Srcs(e) : stage'[x] = stage[x]
  BY <1>1, <1>3 DEF JobInv
<1>8. \A e \in Deliveries :
         /\ stage[e] \in {"busy", "released", "done"} => stage'[e] \in {"busy", "released", "done"}
         /\ Holds(e)' <=> Holds(e) /\ e \notin X
  BY <1>2, <1>3 DEF Holds
<1> QED
  BY <1>5, <1>6, <1>7, <1>8

(* One source, or the last one and with it the call, is released. *)
LEMMA ReleaseIInv == ASSUME IInv, NEW d \in Deliveries, Release(d) PROVE IInv'
<1>1. PICK srcs, Y : srcs = job[d].srcs /\ Y = Srcs(d)
  OBVIOUS
<1>2. /\ job \in [Deliveries -> Jobs] /\ job[d].phase = "release" /\ job[d] \in Jobs
      /\ Y = {srcs[i] : i \in DOMAIN srcs} /\ Y \subseteq Deliveries
      /\ \A x \in Y : stage[x] \in {"busy", "released"}
      /\ heldSince \in [Deliveries -> Nat] /\ stage \in [Deliveries -> Stages]
  <2>1. job \in [Deliveries -> Jobs] /\ job[d].phase = "release" /\ job[d] \in Jobs
    BY DEF IInv, JobInv, Release
  <2>2. Y = {srcs[i] : i \in DOMAIN srcs} /\ Y \subseteq Deliveries
    BY <1>1, <2>1 DEF Jobs, Srcs, ToSet
  <2>3. \A x \in Y : stage[x] \in {"busy", "released"}
    BY <1>1, <2>1 DEF IInv, JobInv, Where
  <2>4. heldSince \in [Deliveries -> Nat] /\ stage \in [Deliveries -> Stages]
    BY DEF IInv, LockInv, TypeOK
  <2> QED
    BY <2>1, <2>2, <2>3, <2>4
<1>3. PICK held : held = {i \in DOMAIN srcs : stage[srcs[i]] = "busy" /\ Msg[srcs[i]].kind # "light"}
  OBVIOUS
<1>4. /\ heldSince' = [x \in Deliveries |-> IF stage'[x] \in {"queued", "busy"} THEN heldSince[x] ELSE 0]
      /\ UNCHANGED <<mode, markAfterHandler, policy, bot, now, queue, overrun>>
  BY DEF Release, cfgvars
<1>5. /\ heldSince' \in [Deliveries -> Nat]
      /\ \A e \in Deliveries : Holds(e)' => heldSince'[e] = heldSince[e]
  BY <1>2, <1>4 DEF Holds
<1>6. /\ \A i \in held : srcs[i] \in Y /\ Holds(srcs[i])
      /\ \A x \in Y : Holds(x) => \E i \in held : x = srcs[i]
  BY <1>2, <1>3 DEF Holds
<1>7. ASSUME NEW x \in Y, Holds(x), locks' = Released(locks, Id(x)),
             stage' = [stage EXCEPT ![x] = "released"], job' = job
      PROVE  IInv'
  <2>1. PICK X : X = {x}
    OBVIOUS
  <2>2. /\ X \subseteq Srcs(d) /\ DOMAIN locks' \subseteq DOMAIN locks
        /\ stage' = [y \in Deliveries |-> IF y \in X THEN "released" ELSE stage[y]]
    BY <1>1, <1>2, <1>7, <2>1 DEF Released
  <2>3. /\ TypeOK' /\ QueueInv'
        /\ \A e \in Deliveries \ {d} : \A y \in Srcs(e) : stage'[y] = stage[y]
        /\ \A e \in Deliveries :
              /\ stage[e] \in {"busy", "released", "done"} => stage'[e] \in {"busy", "released", "done"}
              /\ Holds(e)' <=> Holds(e) /\ e \notin X
    BY <1>4, <2>2, OwnStages
  <2>4. LockInv'
    <3>1. x \in Deliveries /\ ~Holds(x)' /\ \A e \in Deliveries \ {x} : Holds(e)' = Holds(e)
      <4>1. x \in Deliveries /\ ~Holds(x)' /\ \A e \in Deliveries \ {x} : Holds(e)' <=> Holds(e)
        BY <1>2, <2>1, <2>3
      <4> QED
        BY <4>1 DEF Holds
    <3>2. LockInv
      BY DEF IInv
    <3> QED
      BY <1>4, <1>5, <1>7, <3>1, <3>2, DropLockInv
  <2>5. JobInv'
    <3>1. \A e \in Deliveries : Srcs(e)' = Srcs(e)
      BY <1>7 DEF Srcs
    <3>2. \A y \in Srcs(d) : stage'[y] \in {"busy", "released"}
      BY <1>1, <1>2, <1>7
    <3>3. \A e \in Deliveries : \A y \in Srcs(e) : stage'[y] \in Where(job[e].phase)
      BY <1>2, <2>3, <3>2 DEF IInv, JobInv, Where
    <3> QED
      BY <1>7, <2>3, <3>1, <3>3 DEF IInv, JobInv
  <2> QED
    BY <2>3, <2>4, <2>5 DEF IInv
<1>8. ASSUME \A x, y \in Y : Holds(x) /\ Holds(y) => x = y,
             \A x \in Y : Holds(x) => locks' = Released(locks, Id(x)),
             (\A x \in Y : ~Holds(x)) => locks' = locks,
             NEW t \in {"released", "done"},
             stage' = [x \in Deliveries |-> IF x \in Y THEN t ELSE stage[x]],
             NEW j, job' = [job EXCEPT ![d] = j],
             j \in Jobs, Distinct(j.srcs),
             \/ t = "done" /\ j.phase = "none" /\ j.srcs = <<>>
             \/ t = "released" /\ j.phase = "mark" /\ j.srcs = srcs
      PROVE  IInv'
  <2>1. DOMAIN locks' \subseteq DOMAIN locks /\ Y \subseteq Srcs(d)
    BY <1>1, <1>8 DEF Released
  <2>2. /\ TypeOK' /\ QueueInv'
        /\ \A e \in Deliveries \ {d} : \A x \in Srcs(e) : stage'[x] = stage[x]
        /\ \A e \in Deliveries :
              /\ stage[e] \in {"busy", "released", "done"} => stage'[e] \in {"busy", "released", "done"}
              /\ Holds(e)' <=> Holds(e) /\ e \notin Y
    <3>1. CASE stage' = [x \in Deliveries |-> IF x \in Y THEN "released" ELSE stage[x]]
      BY <1>4, <2>1, <3>1, OwnStages
    <3>2. CASE stage' = [x \in Deliveries |-> IF x \in Y THEN "done" ELSE stage[x]]
      BY <1>4, <2>1, <3>2, OwnStages
    <3> QED
      BY <1>8, <3>1, <3>2
  <2>3. LockInv'
    <3>1. LockInv
      BY DEF IInv
    <3>2. CASE \A x \in Y : ~Holds(x)
      <4>1. locks' = locks /\ \A e \in Deliveries : Holds(e)' <=> Holds(e)
        BY <1>8, <2>2, <3>2
      <4> QED
        BY <1>4, <1>5, <3>1, <4>1 DEF LockInv
    <3>3. CASE \E x \in Y : Holds(x)
      <4>1. PICK x \in Y : Holds(x)
        BY <3>3
      <4>2. x \in Deliveries /\ ~Holds(x)' /\ \A e \in Deliveries \ {x} : Holds(e)' = Holds(e)
        <5>1. x \in Deliveries /\ ~Holds(x)' /\ \A e \in Deliveries \ {x} : Holds(e)' <=> Holds(e)
          BY <1>2, <1>8, <2>2, <4>1
        <5> QED
          BY <5>1 DEF Holds
      <4>3. locks' = Released(locks, Id(x))
        BY <1>8, <4>1
      <4> QED
        BY <1>4, <1>5, <3>1, <4>1, <4>2, <4>3, DropLockInv
    <3> QED
      BY <3>2, <3>3
  <2>4. JobInv'
    <3>1. job' \in [Deliveries -> Jobs] /\ job'[d] = j /\ \A e \in Deliveries \ {d} : job'[e] = job[e]
      BY <1>2, <1>8
    <3>2. Srcs(d)' \subseteq Y /\ \A e \in Deliveries \ {d} : Srcs(e)' = Srcs(e)
      BY <1>1, <1>8, <3>1 DEF Srcs, ToSet
    <3>3. \A x \in Srcs(d)' : stage'[x] \in Where(job'[d].phase)
      <4>1. CASE j.srcs = <<>>
        BY <3>1, <4>1 DEF Srcs, ToSet
      <4>2. CASE t = "released" /\ j.phase = "mark"
        BY <1>2, <1>8, <3>1, <3>2, <4>2 DEF Where
      <4> QED
        BY <1>8, <4>1, <4>2
    <3>4. \A e \in Deliveries \ {d} : \A x \in Srcs(e)' : stage'[x] \in Where(job'[e].phase)
      BY <2>2, <3>1, <3>2 DEF IInv, JobInv
    <3>5. \A e \in Deliveries :
             /\ Distinct(job'[e].srcs)
             /\ job'[e].phase # "none" => /\ job'[e].srcs # <<>>
                                          /\ stage'[e] \in {"busy", "released", "done"}
      BY <1>1, <1>2, <1>8, <2>2, <3>1 DEF IInv, JobInv
    <3>6. \A e, g \in Deliveries : e # g => Srcs(e)' \cap Srcs(g)' = {}
      BY <1>1, <3>2 DEF IInv, JobInv
    <3> QED
      BY <3>1, <3>3, <3>4, <3>5, <3>6 DEF JobInv
  <2> QED
    BY <2>2, <2>3, <2>4 DEF IInv
<1>9. NoJob \in Jobs /\ NoJob.phase = "none" /\ NoJob.srcs = <<>> /\ Distinct(NoJob.srcs)
  BY DEF NoJob, Jobs, Distinct
<1>10. PICK marking : marking = [job[d] EXCEPT !.phase = "mark"]
  OBVIOUS
<1>11. marking \in Jobs /\ marking.phase = "mark" /\ marking.srcs = srcs /\ Distinct(srcs)
  BY <1>1, <1>2, <1>10 DEF Jobs, IInv, JobInv
<1>12. \/ \E i \in held : /\ locks' = Released(locks, Id(srcs[i]))
                          /\ stage' = [stage EXCEPT ![srcs[i]] = "released"] /\ job' = job
       \/ /\ \A i, j \in held : i = j
          /\ locks' = IF held = {} THEN locks ELSE Released(locks, Id(srcs[CHOOSE i \in held : TRUE]))
          /\ \/ /\ stage' = [x \in Deliveries |-> IF x \in Y THEN "released" ELSE stage[x]]
                /\ job' = [job EXCEPT ![d] = marking]
             \/ /\ stage' = [x \in Deliveries |-> IF x \in Y THEN "done" ELSE stage[x]]
                /\ job' = [job EXCEPT ![d] = NoJob]
  BY <1>1, <1>3, <1>10, ZenonT(30) DEF Release, To, Finished, Srcs
<1>13. CASE \E i \in held : /\ locks' = Released(locks, Id(srcs[i]))
                            /\ stage' = [stage EXCEPT ![srcs[i]] = "released"] /\ job' = job
  BY <1>6, <1>7, <1>13
<1>14. CASE /\ \A i, j \in held : i = j
            /\ locks' = IF held = {} THEN locks ELSE Released(locks, Id(srcs[CHOOSE i \in held : TRUE]))
            /\ \/ /\ stage' = [x \in Deliveries |-> IF x \in Y THEN "released" ELSE stage[x]]
                  /\ job' = [job EXCEPT ![d] = marking]
               \/ /\ stage' = [x \in Deliveries |-> IF x \in Y THEN "done" ELSE stage[x]]
                  /\ job' = [job EXCEPT ![d] = NoJob]
  <2>1. \A x, y \in Y : Holds(x) /\ Holds(y) => x = y
    BY <1>6, <1>14
  <2>2. \A x \in Y : Holds(x) => locks' = Released(locks, Id(x))
    BY <1>6, <1>14
  <2>3. (\A x \in Y : ~Holds(x)) => locks' = locks
    BY <1>6, <1>14
  <2>4. CASE /\ stage' = [x \in Deliveries |-> IF x \in Y THEN "released" ELSE stage[x]]
             /\ job' = [job EXCEPT ![d] = marking]
    BY <1>8, <1>11, <2>1, <2>2, <2>3, <2>4
  <2>5. CASE /\ stage' = [x \in Deliveries |-> IF x \in Y THEN "done" ELSE stage[x]]
             /\ job' = [job EXCEPT ![d] = NoJob]
    BY <1>8, <1>9, <2>1, <2>2, <2>3, <2>5
  <2> QED
    BY <1>14, <2>4, <2>5
<1> QED
  BY <1>12, <1>13, <1>14

(* One source of a call that succeeded is marked; the last ends the call. *)
LEMMA MarkHandledIInv == ASSUME IInv, NEW d \in Deliveries, MarkHandled(d) PROVE IInv'
<1>1. PICK srcs, h, X : srcs = job[d].srcs /\ h = Head(srcs) /\ X = {h}
  OBVIOUS
<1>2. /\ job \in [Deliveries -> Jobs] /\ job[d] \in Jobs /\ job[d].phase = "mark"
      /\ srcs \in Seq(Deliveries) /\ srcs # <<>> /\ Distinct(srcs)
      /\ stage \in [Deliveries -> Stages] /\ stage[d] \in {"busy", "released", "done"}
      /\ \A x \in Srcs(d) : stage[x] = "released"
  BY <1>1 DEF IInv, JobInv, Jobs, Where, MarkHandled, TypeOK
<1>3. /\ h = srcs[1] /\ h \in Deliveries /\ X \subseteq Srcs(d)
      /\ Tail(srcs) \in Seq(Deliveries) /\ Len(srcs) \in Nat \ {0}
      /\ DOMAIN srcs = 1 .. Len(srcs) /\ DOMAIN Tail(srcs) = 1 .. Len(srcs) - 1
      /\ \A i \in 1 .. Len(srcs) - 1 : Tail(srcs)[i] = srcs[i + 1]
  BY <1>1, <1>2 DEF Srcs, ToSet
<1>4. /\ stage' = [x \in Deliveries |-> IF x \in X THEN "done" ELSE stage[x]]
      /\ job' = [job EXCEPT ![d] = IF Len(srcs) = 1 THEN NoJob ELSE [job[d] EXCEPT !.srcs = Tail(srcs)]]
      /\ UNCHANGED <<mode, markAfterHandler, policy, bot, now, locks, queue, heldSince, overrun>>
  BY <1>1, <1>2, <1>3 DEF MarkHandled, cfgvars
<1>5. /\ TypeOK' /\ QueueInv'
      /\ \A e \in Deliveries \ {d} : \A x \in Srcs(e) : stage'[x] = stage[x]
      /\ \A e \in Deliveries :
            /\ stage[e] \in {"busy", "released", "done"} => stage'[e] \in {"busy", "released", "done"}
            /\ Holds(e)' <=> Holds(e) /\ e \notin X
  <2>1. DOMAIN locks' \subseteq DOMAIN locks
    BY <1>4
  <2> QED
    BY <1>3, <1>4, <2>1, OwnStages
<1>6. LockInv'
  <2>1. \A e \in Deliveries : Holds(e)' <=> Holds(e)
    BY <1>2, <1>3, <1>5 DEF Holds
  <2> QED
    BY <1>4, <2>1 DEF IInv, LockInv
<1>7. PICK j : j = IF Len(srcs) = 1 THEN NoJob ELSE [job[d] EXCEPT !.srcs = Tail(srcs)]
  OBVIOUS
<1>8. /\ j \in Jobs /\ Distinct(j.srcs) /\ ToSet(j.srcs) \subseteq Srcs(d) \ {h}
      /\ j.phase # "none" => j.phase = "mark" /\ j.srcs # <<>>
  <2>1. CASE Len(srcs) = 1
    <3>1. j = NoJob /\ NoJob \in Jobs /\ NoJob.srcs = <<>> /\ NoJob.phase = "none"
      BY <1>7, <2>1 DEF NoJob, Jobs
    <3> QED
      BY <3>1 DEF Distinct, ToSet
  <2>2. CASE Len(srcs) # 1
    <3>1. j \in Jobs /\ j.srcs = Tail(srcs) /\ j.phase = "mark"
      BY <1>2, <1>3, <1>7, <2>2 DEF Jobs
    <3>2. Distinct(Tail(srcs))
      BY <1>2, <1>3 DEF Distinct
    <3>3. ToSet(Tail(srcs)) \subseteq Srcs(d) \ {h}
      <4>1. \A i \in 1 .. Len(srcs) - 1 :
              i + 1 \in 1 .. Len(srcs) /\ Tail(srcs)[i] = srcs[i + 1] /\ srcs[i + 1] # srcs[1]
        BY <1>2, <1>3 DEF Distinct
      <4>2. Srcs(d) = {srcs[i] : i \in 1 .. Len(srcs)}
        BY <1>1, <1>3 DEF ToSet, Srcs
      <4>3. ToSet(Tail(srcs)) = {Tail(srcs)[i] : i \in 1 .. Len(srcs) - 1}
        BY <1>3 DEF ToSet
      <4>4. ASSUME NEW x \in ToSet(Tail(srcs)) PROVE x \in Srcs(d) /\ x # h
        <5>1. PICK i \in 1 .. Len(srcs) - 1 : x = Tail(srcs)[i]
          BY <4>3, <4>4
        <5>2. x = srcs[i + 1] /\ i + 1 \in 1 .. Len(srcs) /\ x # srcs[1]
          BY <4>1, <5>1
        <5> QED
          BY <1>3, <4>2, <5>2
      <4> QED
        BY <4>4
    <3>4. Tail(srcs) # <<>>
      <4>1. 1 \in DOMAIN Tail(srcs)
        BY <1>3, <2>2
      <4>2. DOMAIN <<>> = {}
        OBVIOUS
      <4> QED
        BY <4>1, <4>2
    <3> QED
      BY <3>1, <3>2, <3>3, <3>4
  <2> QED
    BY <2>1, <2>2
<1>9. JobInv'
  <2>1. job' \in [Deliveries -> Jobs] /\ job'[d] = j /\ \A e \in Deliveries \ {d} : job'[e] = job[e]
    BY <1>2, <1>4, <1>7, <1>8
  <2>2. Srcs(d)' \subseteq Srcs(d) \ {h} /\ \A e \in Deliveries \ {d} : Srcs(e)' = Srcs(e)
    BY <1>8, <2>1 DEF Srcs
  <2>3. \A x \in Srcs(d)' : stage'[x] \in Where(job'[d].phase)
    <3>1. \A x \in Srcs(d)' : x \in Deliveries /\ stage'[x] = "released"
      <4>1. Srcs(d) \subseteq Deliveries
        BY <1>1, <1>2 DEF Srcs, ToSet
      <4> QED
        BY <1>1, <1>2, <1>4, <2>2, <4>1
    <3>2. j.phase = "none" => Srcs(d)' = {}
      <4>1. NoJob.srcs = <<>> /\ NoJob.phase = "none"
        BY DEF NoJob
      <4>2. j.phase = "none" => j = NoJob
        BY <1>2, <1>7 DEF Jobs
      <4> QED
        BY <2>1, <4>1, <4>2 DEF Srcs, ToSet
    <3> QED
      BY <1>8, <2>1, <3>1, <3>2 DEF Where
  <2>4. \A e \in Deliveries \ {d} : \A x \in Srcs(e)' : stage'[x] \in Where(job'[e].phase)
    BY <1>5, <2>1, <2>2 DEF IInv, JobInv
  <2>5. \A e \in Deliveries :
           /\ Distinct(job'[e].srcs)
           /\ job'[e].phase # "none" => /\ job'[e].srcs # <<>>
                                        /\ stage'[e] \in {"busy", "released", "done"}
    BY <1>2, <1>5, <1>8, <2>1 DEF IInv, JobInv
  <2>6. \A e, g \in Deliveries : e # g => Srcs(e)' \cap Srcs(g)' = {}
    BY <2>2 DEF IInv, JobInv
  <2> QED
    BY <2>1, <2>3, <2>4, <2>5, <2>6 DEF JobInv
<1> QED
  BY <1>5, <1>6, <1>9 DEF IInv

(* Every step of the pipeline keeps the invariant. *)
LEMMA NextIInv == IInv /\ [Next]_vars => IInv'
<1> SUFFICES ASSUME IInv, [Next]_vars PROVE IInv'
  OBVIOUS
<1>1. ASSUME NEW d \in Deliveries, Enter(d) \/ Goroutine(d) PROVE IInv'
  <2>1. CASE Enter(d) \/ Mark(d) \/ Gate(d)
    BY <2>1, CheckIInv
  <2>2. CASE Lock(d)
    BY <2>2, LockIInv
  <2>3. CASE Release(d)
    BY <2>3, ReleaseIInv
  <2>4. CASE MarkHandled(d)
    BY <2>4, MarkHandledIInv
  <2>5. ASSUME NEW ok \in BOOLEAN, Return(d, ok) PROVE IInv'
    BY <2>5, ReturnIInv
  <2> QED
    BY <1>1, <2>1, <2>2, <2>3, <2>4, <2>5 DEF Goroutine
<1>2. ASSUME NEW s \in Scopes, NEW b, Start(s, b) PROVE IInv'
  BY <1>2, StartIInv
<1>3. ASSUME SetBotIdentity \/ SweepSeen \/ SweepLocks \/ Tick
                 \/ \E p \in Policies \ {policy} : UpdatePolicy(p)
      PROVE  IInv'
  BY <1>3, BackgroundIInv
<1>4. CASE UNCHANGED vars
  <2>1. UNCHANGED <<mode, markAfterHandler, policy, bot, now, locks, stage, queue, job, heldSince, overrun>>
    BY <1>4 DEF vars, cfgvars, ghosts
  <2>2. JobInv'
    <3>1. \A e \in Deliveries : Srcs(e)' = Srcs(e)
      BY <2>1 DEF Srcs
    <3> QED
      BY <2>1, <3>1 DEF IInv, JobInv
  <2>3. TypeOK' /\ QueueInv' /\ LockInv'
    BY <2>1 DEF IInv, TypeOK, QueueInv, LockInv, Ordered, Holds
  <2> QED
    BY <2>2, <2>3 DEF IInv
<1> QED
  BY <1>1, <1>2, <1>3, <1>4 DEF Next

(* The queues, the handler calls and the locks agree with where every       *)
(* delivery is, however the goroutines are scheduled.                       *)
THEOREM BooksKept == Spec => []IInv
BY InitIInv, NextIInv, PTL DEF Spec

(* A processing lock never outlives its message: every entry of the lock    *)
(* map is that of a delivery which is queued or in its handler, and types   *)
(* are kept.                                                                *)
THEOREM LocksComeBack == Spec => []NoLockLeftBehind
<1>1. IInv => NoLockLeftBehind
  BY DEF IInv, LockInv, Holds, NoLockLeftBehind
<1> QED
  BY <1>1, BooksKept, PTL

(* Whoever is in a handler call holds the lock of its id. *)
LEMMA CallsHoldLocks ==
    ASSUME IInv, NEW d \in Calls, NEW e \in Calls, d # e
    PROVE  InHandler(d) \cap InHandler(e) \subseteq overrun
<1> SUFFICES ASSUME NEW id, id \in InHandler(d), id \in InHandler(e) PROVE id \in overrun
  OBVIOUS
<1>0. /\ d \in Deliveries /\ job[d].phase = "run"
      /\ e \in Deliveries /\ job[e].phase = "run"
  BY DEF Calls
<1>1. PICK x \in Srcs(d) : id = Id(x) /\ Msg[x].kind # "light"
  BY DEF InHandler, Srcs
<1>2. PICK y \in Srcs(e) : id = Id(y) /\ Msg[y].kind # "light"
  BY DEF InHandler, Srcs
<1>3. x \in Deliveries /\ y \in Deliveries
  BY <1>0 DEF IInv, JobInv, Jobs, Srcs, ToSet
<1>4. x # y
  BY <1>0 DEF IInv, JobInv
<1>5. Holds(x) /\ Holds(y)
  BY <1>0, <1>1, <1>2 DEF IInv, JobInv, Where, Holds
<1> QED
  BY <1>1, <1>2, <1>3, <1>4, <1>5 DEF IInv, LockInv
-----------------------------------------------------------------------------
(* The cache as the pipeline uses it: which keys it has and when they expire. *)

NamedIn(s) == Upto(s, Len(s))

(* Nothing but the keys u is new and, when the cache has room for every key *)
(* there is, none is lost.                                                  *)
Grown(d, c, K, u, x) ==
    /\ d \in Sound(K) /\ d.items \subseteq c.items \cup u
    /\ \A k, y : Expires(d.evictList, k, y) => Expires(c.evictList, k, y) \/ y = x
    /\ IsFiniteSet(K) /\ Cardinality(K) <= MaxEntries => c.items \cup u \subseteq d.items

(* Add grows the cache by the keys it names. *)
LEMMA AddItems ==
    ASSUME NEW K, NoKey \notin K, NEW c \in Sound(K), NEW keys \in Seq(K \cup {NoKey}), NEW t \in Nat,
           NEW d, d = Add(c, keys, t)
    PROVE  Grown(d, c, K, NamedIn(keys), t + TTL)
<1>1. PICK n, x : n = Len(keys) /\ x = t + TTL
  OBVIOUS
<1>2. n \in Nat /\ \A i \in 1 .. n : keys[i] \in K \cup {NoKey}
  BY <1>1
<1>3. PICK f : AddRuns(f, K, c, keys, t)
  BY AddRun
<1>4. /\ f \in [0 .. n -> Sound(K)] /\ f[0] = c /\ f[n] = d
      /\ \A i \in 1 .. n : AddTurn(f[i], f[i - 1], keys[i], x)
  BY <1>1, <1>3 DEF AddRuns
<1> DEFINE Room == IsFiniteSet(K) /\ Cardinality(K) <= MaxEntries
           Good(b, u) == /\ b.items \subseteq c.items \cup u
                         /\ \A k, y : Expires(b.evictList, k, y) => Expires(c.evictList, k, y) \/ y = x
                         /\ Room => c.items \cup u \subseteq b.items
<1>5. PICK P : P = {i \in 0 .. n : Good(f[i], Upto(keys, i))}
  OBVIOUS
<1>6. 0 \in P
  <2>1. Upto(keys, 0) = {} /\ 0 \in 0 .. n
    BY <1>2 DEF Upto
  <2>2. Good(c, {})
    OBVIOUS
  <2> HIDE DEF Good
  <2> QED
    BY <1>4, <1>5, <2>1, <2>2
<1>7. ASSUME NEW i \in 1 .. n, i - 1 \in P PROVE i \in P
  <2>1. PICK a, b, key, u : a = f[i - 1] /\ b = f[i] /\ key = keys[i] /\ u = Upto(keys, i - 1)
    OBVIOUS
  <2>2. i \in 0 .. n /\ i - 1 \in 0 .. n
    BY <1>2
  <2>3. /\ a \in Sound(K) /\ AddTurn(b, a, key, x) /\ key \in K \cup {NoKey}
    <3>1. AddTurn(b, a, key, x)
      BY <1>4, <2>1, Zenon
    <3>2. a \in Sound(K)
      BY <1>4, <2>1, <2>2, Zenon
    <3> QED
      BY <1>2, <2>1, <3>1, <3>2
  <2>4. Good(a, u)
    <3> HIDE DEF Good
    <3> QED
      BY <1>5, <1>7, <2>1
  <2>5. Upto(keys, i) = u \cup ({key} \ {NoKey})
    <3>1. \A j : j \in 1 .. i <=> j \in 1 .. i - 1 \/ j = i
      BY <1>2
    <3> QED
      BY <2>1, <3>1 DEF Upto
  <2>6. Good(b, u \cup ({key} \ {NoKey}))
    <3>1. CASE key = NoKey
      BY <2>3, <2>4, <3>1 DEF AddTurn
    <3>2. CASE key # NoKey
      <4>1. Added(b, a, key, x) /\ key \in K
        BY <2>3, <3>2 DEF AddTurn
      <4>2. b.items \subseteq c.items \cup (u \cup {key})
        BY <2>4, <4>1 DEF Added, Fronts
      <4>3. \A k, y : Expires(b.evictList, k, y) => Expires(c.evictList, k, y) \/ y = x
        BY <2>4, <4>1 DEF Added, Fronts
      <4>4. ASSUME Room PROVE a.items \cup {key} \subseteq b.items
        <5>1. Fit(a, K) /\ Len(a.evictList) <= MaxEntries
          BY <2>3, SoundFacts
        <5>2. CASE key \in a.items
          BY <4>1, <5>2 DEF Added, Evicts, Fronts
        <5>3. CASE key \notin a.items
          <6>1. IsFiniteSet(a.items) /\ Cardinality(a.items) = Len(a.evictList) /\ a.items \subseteq K
            BY <5>1, FitSize DEF Fit
          <6>2. PICK w : w = a.items \cup {key}
            OBVIOUS
          <6>3. w \subseteq K /\ Cardinality(w) = Cardinality(a.items) + 1
            BY <4>1, <5>3, <6>1, <6>2, FS_AddElement
          <6>4. Cardinality(w) <= Cardinality(K)
            BY <4>4, <6>3, FS_Subset
          <6>5. Cardinality(a.items) \in Nat /\ Cardinality(K) \in Nat
            BY <4>4, <6>1, FS_CardinalityType
          <6>6. Len(a.evictList) < MaxEntries
            BY <4>4, <6>1, <6>3, <6>4, <6>5, DedupConfigFilled
          <6> QED
            BY <4>1, <6>6 DEF Added
        <5> QED
          BY <5>2, <5>3
      <4>5. {key} \ {NoKey} = {key}
        BY <3>2
      <4>6. Room => c.items \cup (u \cup {key}) \subseteq b.items
        BY <2>4, <4>4
      <4> QED
        BY <4>2, <4>3, <4>5, <4>6
    <3> QED
      BY <3>1, <3>2
  <2> HIDE DEF Good
  <2>7. Good(f[i], Upto(keys, i))
    BY <2>1, <2>5, <2>6, Zenon
  <2> QED
    BY <1>5, <2>2, <2>7
<1>8. \A i \in 0 .. n : i \in P
  BY <1>2, <1>6, <1>7, UpTo
<1>9. n \in 0 .. n /\ d \in Sound(K)
  BY <1>2, <1>4
<1>10. Good(d, Upto(keys, n))
  <2> HIDE DEF Good
  <2> QED
    BY <1>4, <1>5, <1>8, <1>9
<1> QED
  BY <1>1, <1>9, <1>10 DEF Grown, NamedIn

(* No entry of the cache has expired at time t. *)
Fresh(c, t) == \A k, x : Expires(c.evictList, k, x) => t < x

(* Only what has expired is dropped. *)
LEMMA DroppedItems ==
    ASSUME NEW K, NEW c \in Sound(K), NEW d \in Sound(K), NEW t \in Nat, Dropped(d, c, t)
    PROVE  /\ d.items \subseteq c.items
           /\ \A k, x : Expires(d.evictList, k, x) => Expires(c.evictList, k, x)
           /\ Fresh(c, t) => d.items = c.items
<1>1. Fit(c, K)
  BY SoundFacts
<1>2. ASSUME Fresh(c, t), NEW k \in c.items, k \notin d.items PROVE FALSE
  <2>1. PICK x \in Nat : Expires(c.evictList, k, x)
    BY <1>1, <1>2, PlaceFacts
  <2>2. x <= t /\ t < x
    BY <1>2, <2>1 DEF Dropped, Fresh
  <2> QED
    BY <2>1, <2>2
<1> QED
  BY <1>2 DEF Dropped, Keeps

(* No key is new, a hit is one of the keys asked for, and a cache in which nothing has expired keeps its keys   *)
(* and is hit by any of them.                                               *)
Answered(r, c, K, u, t) ==
    /\ r.cache \in Sound(K) /\ r.cache.items \subseteq c.items
    /\ \A k, x : Expires(r.cache.evictList, k, x) => Expires(c.evictList, k, x)
    /\ r.hit # NoKey => r.hit \in u /\ r.hit \in c.items
    /\ Fresh(c, t) => r.cache.items = c.items /\ (r.hit = NoKey => u \cap c.items = {})

(* Has without Redis answers from the cache. *)
LEMMA HasItems ==
    ASSUME NEW K, NoKey \notin K, NEW c \in Sound(K), NEW keys \in Seq(K \cup {NoKey}), NEW t \in Nat,
           NEW r, r = Has(c, keys, t, {})
    PROVE  Answered(r, c, K, NamedIn(keys), t)
<1>1. r \in Results(K) /\ Met(r, c, K, keys, {}, t)
  BY HasFacts
<1>2. PICK d \in Sound(K) :
        /\ Dropped(d, c, t)
        /\ r.hit = NoKey => r.cache = d /\ Upto(keys, Len(keys)) \cap d.items = {}
        /\ r.hit # NoKey => \E x \in Nat : /\ Added(r.cache, d, r.hit, x)
                                           /\ Expires(d.evictList, r.hit, x) /\ r.hit \in d.items
                                           /\ r.hit \in Upto(keys, Len(keys))
  BY <1>1 DEF Met
<1>3. /\ d.items \subseteq c.items
      /\ \A k, x : Expires(d.evictList, k, x) => Expires(c.evictList, k, x)
      /\ Fresh(c, t) => d.items = c.items
  BY <1>2, DroppedItems
<1>4. r.cache \in Sound(K)
  BY <1>1 DEF Results
<1>5. CASE r.hit = NoKey
  BY <1>2, <1>3, <1>4, <1>5 DEF Answered, NamedIn
<1>6. CASE r.hit # NoKey
  <2>1. PICK x \in Nat : /\ Added(r.cache, d, r.hit, x) /\ Expires(d.evictList, r.hit, x)
                         /\ r.hit \in d.items /\ r.hit \in NamedIn(keys)
    BY <1>2, <1>6 DEF NamedIn
  <2>2. r.cache.items = d.items
    <3>1. r.cache.items \subseteq d.items
      BY <2>1 DEF Added, Fronts
    <3>2. \A k \in d.items \ r.cache.items : FALSE
      BY <2>1 DEF Added, Evicts
    <3> QED
      BY <3>1, <3>2
  <2>3. \A k, y : Expires(r.cache.evictList, k, y) => Expires(d.evictList, k, y)
    BY <2>1 DEF Added, Fronts
  <2> QED
    BY <1>3, <1>4, <1>6, <2>1, <2>2, <2>3 DEF Answered
<1> QED
  BY <1>5, <1>6
-----------------------------------------------------------------------------
(* the keys a delivery is checked and marked under *)
KeySet(d) == ToSet(DedupKeys(d)) \ {NoKey}

(* A list of keys is a list of its own elements. *)
LEMMA OwnElements ==
    ASSUME NEW U, NEW s, s \in Seq(U), NEW V, ToSet(s) \subseteq V
    PROVE  s \in Seq(V) /\ NamedIn(s) = ToSet(s) \ {NoKey}
<1>1. PICK n : n = Len(s)
  OBVIOUS
<1>2. n \in Nat /\ s \in [1 .. n -> U] /\ DOMAIN s = 1 .. n
  BY <1>1
<1>3. \A i \in 1 .. n : s[i] \in V
  BY <1>2 DEF ToSet
<1>4. s \in [1 .. n -> V]
  BY <1>2, <1>3
<1>5. s \in Seq(V)
  BY <1>2, <1>4, SeqDef
<1>6. NamedIn(s) = ToSet(s) \ {NoKey}
  BY <1>1, <1>2 DEF NamedIn, Upto, ToSet
<1> QED
  BY <1>5, <1>6

(* The keys a message or action is checked under include those it is marked *)
(* under after its handler, and these include the stable ones.              *)
LEMMA KeyFacts ==
    ASSUME NEW d \in Deliveries
    PROVE  /\ DedupKeys(d) \in Seq(AllKeys \cup {NoKey}) /\ MarkKeys(d) \in Seq(AllKeys \cup {NoKey})
           /\ NamedIn(DedupKeys(d)) = KeySet(d) /\ NamedIn(MarkKeys(d)) \subseteq KeySet(d)
           /\ StableKeys(d) \subseteq NamedIn(MarkKeys(d)) /\ KeySet(d) \subseteq AllKeys
<1>1. PICK id, proto, print, U : /\ id = Id(d) /\ proto = Msg[d].proto /\ print = Msg[d].print
                                 /\ U = {id, proto, print}
  OBVIOUS
<1>2. PICK a, b, s : /\ a = IF Msg[d].kind = "message" THEN <<proto>> ELSE <<>>
                     /\ b = IF print = NoKey THEN <<>> ELSE <<print>>
                     /\ s = a \o <<id>> \o b
  OBVIOUS
<1>3. s = DedupKeys(d)
  BY <1>1, <1>2 DEF DedupKeys
<1>4. a \in Seq(U) /\ b \in Seq(U) /\ <<id>> \in Seq(U)
  <2>1. id \in U /\ proto \in U /\ print \in U
    BY <1>1
  <2>2. <<id>> \in Seq(U) /\ <<proto>> \in Seq(U) /\ <<print>> \in Seq(U) /\ <<>> \in Seq(U)
    BY <2>1
  <2>3. a = <<proto>> \/ a = <<>>
    BY <1>2
  <2>4. b = <<print>> \/ b = <<>>
    BY <1>2
  <2> QED
    BY <2>2, <2>3, <2>4, Zenon
<1>5. PICK e : e = a \o <<id>>
  OBVIOUS
<1>6. e \in Seq(U) /\ Len(e) = Len(a) + 1 /\ e[Len(e)] = id /\ Len(a) \in Nat
  BY <1>4, <1>5
<1>7. s = e \o b
  BY <1>2, <1>5
<1>8. /\ s \in Seq(U) /\ Len(s) = Len(e) + Len(b) /\ Len(b) \in Nat /\ DOMAIN s = 1 .. Len(s)
      /\ \A i \in 1 .. Len(e) : s[i] = e[i]
      /\ \A i \in 1 .. Len(b) : s[Len(e) + i] = b[i]
  <2>1. b \in Seq(U) /\ e \in Seq(U)
    BY <1>4, <1>6
  <2>2. s \in Seq(U) /\ Len(s) = Len(e) + Len(b)
    BY <1>7, <2>1, ConcatProperties
  <2>3. Len(b) \in Nat /\ DOMAIN s = 1 .. Len(s)
    BY <2>1, <2>2
  <2>4. \A i \in 1 .. Len(e) : s[i] = e[i]
    BY ONLY <1>7, <2>1
  <2>5. \A i \in 1 .. Len(b) : s[Len(e) + i] = b[i]
    BY ONLY <1>7, <2>1
  <2> QED
    BY <2>2, <2>3, <2>4, <2>5
<1>9. id \in ToSet(s)
  <2>1. Len(e) \in 1 .. Len(e) /\ Len(e) \in 1 .. Len(s)
    BY <1>6, <1>8
  <2>2. s[Len(e)] = id
    BY <1>6, <1>8, <2>1
  <2> QED
    BY <1>8, <2>1, <2>2 DEF ToSet
<1>10. print # NoKey => print \in ToSet(s)
  <2> SUFFICES ASSUME print # NoKey PROVE print \in ToSet(s)
    OBVIOUS
  <2>1. Len(b) = 1 /\ b[1] = print
    BY <1>2
  <2>2. Len(e) + 1 \in 1 .. Len(s) /\ s[Len(e) + 1] = print
    BY <1>6, <1>8, <2>1
  <2> QED
    BY <1>8, <2>2 DEF ToSet
<1>11. ToSet(s) \subseteq AllKeys \cup {NoKey} /\ KeySet(d) \subseteq AllKeys
  <2>1. PICK W : W = UNION {ToSet(DedupKeys(x)) : x \in Deliveries}
    OBVIOUS
  <2>2. ToSet(s) \subseteq W
    BY <1>3, <2>1
  <2>3. AllKeys = W \ {NoKey}
    BY <2>1, Zenon DEF AllKeys
  <2> QED
    BY <1>3, <2>2, <2>3 DEF KeySet
<1>12. s \in Seq(AllKeys \cup {NoKey}) /\ NamedIn(s) = KeySet(d)
  BY <1>3, <1>8, <1>11, OwnElements DEF KeySet
<1>13. StableKeys(d) \subseteq KeySet(d)
  BY <1>1, <1>3, <1>9, <1>10 DEF StableKeys, KeySet
<1>14. CASE Msg[d].kind = "message"
  <2>1. PICK m : m = <<id>>
    OBVIOUS
  <2>2. m = MarkKeys(d) /\ m \in Seq(U)
    BY <1>1, <1>4, <1>14, <2>1 DEF MarkKeys
  <2>3. ToSet(m) = {id}
    BY <2>1 DEF ToSet
  <2>4. ToSet(m) \subseteq AllKeys \cup {NoKey}
    BY <1>9, <1>11, <2>3
  <2>5. m \in Seq(AllKeys \cup {NoKey}) /\ NamedIn(m) = {id} \ {NoKey}
    BY <2>2, <2>3, <2>4, OwnElements
  <2>6. StableKeys(d) = {id} \ {NoKey}
    BY <1>1, <1>14 DEF StableKeys
  <2>7. {id} \ {NoKey} \subseteq KeySet(d)
    BY <1>3, <1>9 DEF KeySet
  <2> QED
    BY <1>3, <1>11, <1>12, <2>2, <2>5, <2>6, <2>7
<1>15. CASE Msg[d].kind # "message"
  <2>1. MarkKeys(d) = s
    BY <1>3, <1>15 DEF MarkKeys
  <2> QED
    BY <1>3, <1>11, <1>12, <1>13, <2>1
<1> QED
  BY <1>14, <1>15

(* Nobody marks before the handler in MarkAfterHandler mode; without it,    *)
(* the keys of whatever has passed the cache are in it.                     *)
StageInv ==
    /\ markAfterHandler => \A d \in Deliveries : stage[d] # "checked"
    /\ Roomy => /\ ~markAfterHandler =>
                       \A d \in Known : KeySet(d) \subseteq seen.items
                /\ late \subseteq Deliveries /\ \A d \in late : stage[d] \in Rejections

(* A call that goes on to mark has succeeded, for each of its sources. *)
CallInv ==
    markAfterHandler =>
        \A d \in Deliveries :
            /\ job[d].phase = "mark" => job[d].ok
            /\ job[d].phase \in {"release", "mark"} /\ job[d].ok =>
                   \A x \in Srcs(d) : Id(x) \in handledOK

(* What is in the cache, and how long it stays there. *)
SeenInv ==
    /\ seen \in Sound(AllKeys)
    /\ SeenOnlyAfterSuccess
    /\ Roomy => Fresh(seen, MaxTime) /\ settled \subseteq seen.items

DedupInv == StageInv /\ CallInv /\ SeenInv

(* Nothing is in the cache and nothing has arrived. *)
LEMMA InitDedupInv == Init => DedupInv
<1> SUFFICES ASSUME Init PROVE DedupInv
  OBVIOUS
<1>1. seen = [items |-> {}, evictList |-> <<>>] /\ seen.items = {} /\ seen.evictList = <<>>
  BY DEF Init, NewSeenCache
<1>2. DOMAIN seen.evictList = {} /\ Len(seen.evictList) = 0
  BY <1>1
<1>3. seen \in Sound(AllKeys)
  <2>1. seen \in [items : SUBSET AllKeys, evictList : Seq(Entries(AllKeys))]
    BY <1>1
  <2>2. Once(seen.evictList) /\ KeysOf(seen.evictList) = {}
    BY <1>2 DEF Once, KeysOf
  <2>3. Fit(seen, AllKeys)
    BY <1>1, <2>1, <2>2 DEF Fit
  <2>4. Len(seen.evictList) <= MaxEntries
    BY <1>2, DedupConfigFilled
  <2> QED
    BY <2>3, <2>4, SoundFacts
<1>4. Fresh(seen, MaxTime)
  BY <1>2 DEF Fresh, Expires
<1>5. SeenInv
  BY <1>1, <1>3, <1>4 DEF SeenInv, SeenOnlyAfterSuccess, Init
<1>6. StageInv
  <2>1. late = {} /\ \A d \in Deliveries : stage[d] \in {"new", "absent"}
    BY DEF Init
  <2> QED
    BY <2>1 DEF StageInv, Passed, Known
<1>7. CallInv
  <2>1. \A d \in Deliveries : job[d].phase = "none"
    BY DEF Init, NoJob
  <2> QED
    BY <2>1 DEF CallInv
<1> QED
  BY <1>5, <1>6, <1>7 DEF DedupInv

(* What a delivery that has passed the cache may do. *)
Moves == \A e \in Deliveries :
            \/ stage'[e] = stage[e]
            \/ stage[e] \in Passed /\ stage'[e] \in Passed \cup {"refused", "contention"}

(* Deliveries move on, and no key is lost. *)
LEMMA MovesStageInv ==
    ASSUME StageInv, Moves, UNCHANGED <<markAfterHandler, late>>, Roomy => seen.items \subseteq seen'.items
    PROVE  StageInv'
<1>1. ASSUME markAfterHandler PROVE \A d \in Deliveries : stage'[d] # "checked"
  BY <1>1 DEF StageInv, Moves, Passed
<1>2. ASSUME Roomy, ~markAfterHandler, NEW d \in Known' PROVE KeySet(d) \subseteq seen'.items
  <2>1. d \in Known
    BY <1>2 DEF Moves, Known
  <2> QED
    BY <1>2, <2>1 DEF StageInv
<1>3. ASSUME Roomy PROVE late \subseteq Deliveries /\ \A d \in late : stage'[d] \in Rejections
  BY <1>3 DEF StageInv, Moves, Passed, Rejections
<1> QED
  BY <1>1, <1>2, <1>3 DEF StageInv

(* What may become of the handler calls. *)
CallsGoOn ==
    \A e \in Deliveries :
        \/ job'[e].phase \in {"none", "run"}
        \/ job'[e].phase = job[e].phase /\ job'[e].ok = job[e].ok /\ Srcs(e)' \subseteq Srcs(e)
        \/ /\ job'[e].phase = "mark" => job'[e].ok
           /\ job'[e].ok => \A x \in Srcs(e)' : Id(x) \in handledOK'

(* Calls end, begin, or go on with sources whose handler succeeded. *)
LEMMA CallsCallInv ==
    ASSUME CallInv, CallsGoOn, UNCHANGED markAfterHandler, handledOK \subseteq handledOK'
    PROVE  CallInv'
<1> SUFFICES ASSUME markAfterHandler, NEW d \in Deliveries
             PROVE  /\ job'[d].phase = "mark" => job'[d].ok
                    /\ job'[d].phase \in {"release", "mark"} /\ job'[d].ok =>
                           \A x \in Srcs(d)' : Id(x) \in handledOK'
  BY DEF CallInv, Id
<1>1. /\ job[d].phase = "mark" => job[d].ok
      /\ job[d].phase \in {"release", "mark"} /\ job[d].ok => \A x \in Srcs(d) : Id(x) \in handledOK
  BY DEF CallInv
<1>2. CASE job'[d].phase \in {"none", "run"}
  BY <1>2
<1>3. CASE job'[d].phase = job[d].phase /\ job'[d].ok = job[d].ok /\ Srcs(d)' \subseteq Srcs(d)
  BY <1>1, <1>3
<1>4. CASE /\ job'[d].phase = "mark" => job'[d].ok
           /\ job'[d].ok => \A x \in Srcs(d)' : Id(x) \in handledOK'
  BY <1>4
<1> QED
  BY <1>2, <1>3, <1>4 DEF CallsGoOn

(* The cache is left alone. *)
LEMMA SameSeenInv ==
    ASSUME SeenInv, UNCHANGED <<seen, markAfterHandler, settled>>, handledOK \subseteq handledOK'
    PROVE  SeenInv'
BY DEF SeenInv, SeenOnlyAfterSuccess, Id, DedupKeys

(* What has not expired at the end of time has not expired now. *)
LEMMA FreshNow ==
    ASSUME NEW K, NEW c \in Sound(K), NEW u \in Nat, NEW t \in Nat, t <= u, Fresh(c, u) PROVE Fresh(c, t)
<1> SUFFICES ASSUME NEW k, NEW x, Expires(c.evictList, k, x) PROVE t < x
  BY DEF Fresh
<1>1. x \in Nat
  <2>1. Fit(c, K)
    BY SoundFacts
  <2>2. PICK i \in DOMAIN c.evictList : c.evictList[i].expiresAt = x
    BY DEF Expires
  <2>3. c.evictList[i] \in Entries(K)
    BY <2>1, <2>2 DEF Fit
  <2> QED
    BY <2>2, <2>3 DEF Entries
<1>2. u < x
  BY DEF Fresh
<1> QED
  BY <1>1, <1>2

(* The clock and the room the cache has. *)
LEMMA ClockFacts ==
    ASSUME IInv
    PROVE  /\ now \in Nat /\ MaxTime \in Nat /\ now <= MaxTime
           /\ Roomy => MaxTime < now + TTL
<1>1. now \in Epoch .. MaxTime /\ Epoch \in Nat /\ MaxTime \in Nat /\ TTL \in Nat
  BY ClockAssumption, DedupConfigFilled DEF IInv, TypeOK
<1> QED
  BY <1>1 DEF Roomy

(* The cache gains no key, and loses none that is in time. *)
LEMMA ShrinkSeenInv ==
    ASSUME SeenInv, seen' \in Sound(AllKeys), seen'.items \subseteq seen.items,
           \A k, x : Expires(seen'.evictList, k, x) => Expires(seen.evictList, k, x),
           Roomy => seen'.items = seen.items,
           UNCHANGED <<markAfterHandler, settled, handledOK>>
    PROVE  SeenInv'
<1>1. SeenOnlyAfterSuccess'
  BY DEF SeenInv, SeenOnlyAfterSuccess, Id, DedupKeys
<1>2. Roomy => Fresh(seen', MaxTime) /\ settled' \subseteq seen'.items
  BY DEF SeenInv, Fresh
<1> QED
  BY <1>1, <1>2 DEF SeenInv, Roomy, AllKeys, DedupKeys, Id

(* Keys are added on behalf of a delivery: without MarkAfterHandler, or     *)
(* after its handler succeeded.                                             *)
LEMMA GrowSeenInv ==
    ASSUME IInv, SeenInv, NEW d \in Deliveries, NEW keys \in Seq(AllKeys \cup {NoKey}),
           NamedIn(keys) \subseteq KeySet(d), seen' = Add(seen, keys, now),
           markAfterHandler => Id(d) \in handledOK,
           settled' \subseteq settled \cup NamedIn(keys),
           UNCHANGED <<markAfterHandler, handledOK>>
    PROVE  SeenInv' /\ (Roomy => seen.items \cup NamedIn(keys) \subseteq seen'.items)
<1>1. PICK c, b, t, K : c = seen /\ b = seen' /\ t = now /\ K = AllKeys
  OBVIOUS
<1>2. c \in Sound(K) /\ NoKey \notin K /\ keys \in Seq(K \cup {NoKey}) /\ t \in Nat /\ b = Add(c, keys, t)
  <2>1. NoKey \notin AllKeys
    BY DEF AllKeys
  <2> QED
    BY <1>1, <2>1, ClockFacts DEF SeenInv
<1>3. /\ b \in Sound(K) /\ b.items \subseteq c.items \cup NamedIn(keys)
      /\ \A k, x : Expires(b.evictList, k, x) => Expires(c.evictList, k, x) \/ x = t + TTL
      /\ IsFiniteSet(K) /\ Cardinality(K) <= MaxEntries => c.items \cup NamedIn(keys) \subseteq b.items
  <2>1. Grown(b, c, K, NamedIn(keys), t + TTL)
    BY <1>2, AddItems
  <2> QED
    BY <2>1 DEF Grown
<1>4. Roomy => seen.items \cup NamedIn(keys) \subseteq seen'.items
  BY <1>1, <1>3 DEF Roomy
<1>5. Roomy => Fresh(seen', MaxTime)
  <2> SUFFICES ASSUME Roomy, NEW k, NEW x, Expires(b.evictList, k, x) PROVE MaxTime < x
    BY <1>1 DEF Fresh
  <2>1. MaxTime < t + TTL
    BY <1>1, ClockFacts
  <2> QED
    BY <1>1, <1>3, <2>1 DEF SeenInv, Fresh
<1>6. SeenOnlyAfterSuccess'
  <2> SUFFICES ASSUME markAfterHandler, NEW k \in b.items
               PROVE  \E e \in Deliveries : k \in ToSet(DedupKeys(e)) /\ Id(e) \in handledOK
    BY <1>1 DEF SeenOnlyAfterSuccess, Id, DedupKeys
  <2>1. CASE k \in c.items
    BY <1>1, <2>1 DEF SeenInv, SeenOnlyAfterSuccess
  <2>2. CASE k \in NamedIn(keys)
    BY <2>2 DEF KeySet
  <2> QED
    BY <1>3, <2>1, <2>2
<1>7. Roomy => settled' \subseteq seen'.items
  BY <1>4 DEF SeenInv
<1> QED
  BY <1>1, <1>3, <1>4, <1>5, <1>6, <1>7 DEF SeenInv, Roomy, AllKeys, DedupKeys, Id

(* Stale check and lookup: a delivery with a settled key finds it. *)
LEMMA EnterDedupInv ==
    ASSUME IInv, DedupInv, NEW d \in Deliveries, Enter(d) PROVE DedupInv'
<1>1. PICK c, t, K, keys, r : /\ c = seen /\ t = now /\ K = AllKeys /\ keys = DedupKeys(d)
                              /\ r = Has(c, keys, t, {})
  OBVIOUS
<1>2. /\ c \in Sound(K) /\ NoKey \notin K /\ keys \in Seq(K \cup {NoKey}) /\ t \in Nat
      /\ NamedIn(keys) = KeySet(d) /\ StableKeys(d) \subseteq KeySet(d)
  <2>1. NoKey \notin AllKeys
    BY DEF AllKeys
  <2> QED
    BY <1>1, <2>1, ClockFacts, KeyFacts DEF DedupInv, SeenInv
<1>3. /\ r.cache \in Sound(K) /\ r.cache.items \subseteq c.items
      /\ \A k, x : Expires(r.cache.evictList, k, x) => Expires(c.evictList, k, x)
      /\ Fresh(c, t) => /\ r.cache.items = c.items
                        /\ r.hit = NoKey => NamedIn(keys) \cap c.items = {}
  <2>1. Answered(r, c, K, NamedIn(keys), t)
    BY <1>1, <1>2, HasItems
  <2> QED
    BY <2>1 DEF Answered
<1>4. Roomy => Fresh(c, t) /\ settled \subseteq c.items
  BY <1>1, <1>2, ClockFacts, FreshNow DEF DedupInv, SeenInv
<1>5. /\ stage[d] = "new" /\ stage \in [Deliveries -> Stages]
      /\ late' = IF StableKeys(d) \cap settled = {} THEN late ELSE late \cup {d}
      /\ UNCHANGED <<markAfterHandler, job, handledOK, settled>>
  BY DEF Enter, cfgvars, IInv, TypeOK
<1>6. \/ stage' = [stage EXCEPT ![d] = "stale"] /\ seen' = seen
      \/ stage' = [stage EXCEPT ![d] = "duplicate"] /\ seen' = r.cache
      \/ /\ stage' = [stage EXCEPT ![d] = IF markAfterHandler THEN "marked" ELSE "checked"]
         /\ seen' = r.cache /\ r.hit = NoKey
  BY <1>1 DEF Enter, Reject, To
<1>7. /\ seen' \in Sound(AllKeys) /\ seen'.items \subseteq seen.items
      /\ \A k, x : Expires(seen'.evictList, k, x) => Expires(seen.evictList, k, x)
      /\ Roomy => seen'.items = seen.items
  <2>1. CASE seen' = seen
    BY <1>1, <1>2, <2>1
  <2>2. CASE seen' = r.cache
    BY <1>1, <1>3, <1>4, <2>2
  <2> QED
    BY <1>6, <2>1, <2>2
<1>8. SeenInv'
  BY <1>5, <1>7, ShrinkSeenInv DEF DedupInv
<1>9. CallInv'
  <2>1. CallsGoOn
    BY <1>5 DEF CallsGoOn, Srcs
  <2> QED
    BY <1>5, <2>1, CallsCallInv DEF DedupInv
<1>10. /\ \A e \in Deliveries \ {d} : stage'[e] = stage[e]
       /\ stage'[d] \in {"stale", "duplicate", "marked", "checked"}
       /\ stage'[d] = "checked" => ~markAfterHandler
       /\ stage'[d] = "marked" => markAfterHandler
       /\ stage'[d] \notin {"stale", "duplicate"} => r.hit = NoKey
  <2>1. CASE stage' = [stage EXCEPT ![d] = "stale"] \/ stage' = [stage EXCEPT ![d] = "duplicate"]
    BY <1>5, <2>1
  <2>2. CASE /\ stage' = [stage EXCEPT ![d] = IF markAfterHandler THEN "marked" ELSE "checked"]
             /\ r.hit = NoKey
    <3>1. CASE markAfterHandler
      BY <1>5, <2>2, <3>1
    <3>2. CASE ~markAfterHandler
      BY <1>5, <2>2, <3>2
    <3> QED
      BY <3>1, <3>2
  <2> QED
    BY <1>6, <2>1, <2>2
<1>11. StageInv'
  <2>1. ASSUME markAfterHandler PROVE \A e \in Deliveries : stage'[e] # "checked"
    BY <1>10, <2>1 DEF DedupInv, StageInv
  <2>2. ASSUME Roomy, ~markAfterHandler, NEW e \in Known' PROVE KeySet(e) \subseteq seen'.items
    <3>1. e # d /\ e \in Known
      BY <1>10, <2>2 DEF Passed, Known
    <3> QED
      BY <1>7, <1>10, <2>2, <3>1 DEF DedupInv, StageInv
  <2>3. ASSUME Roomy PROVE late' \subseteq Deliveries /\ \A e \in late' : stage'[e] \in Rejections
    <3>1. late \subseteq Deliveries /\ \A e \in late : stage[e] \in Rejections /\ e # d
      BY <1>5, <2>3 DEF DedupInv, StageInv, Rejections
    <3>2. CASE StableKeys(d) \cap settled = {}
      BY <1>5, <1>10, <3>1, <3>2
    <3>3. CASE StableKeys(d) \cap settled # {}
      <4>1. r.hit # NoKey
        BY <1>2, <1>3, <1>4, <2>3, <3>3
      <4> QED
        BY <1>5, <1>10, <3>1, <3>3, <4>1 DEF Rejections
    <3> QED
      BY <3>2, <3>3
  <2> QED
    BY <1>5, <2>1, <2>2, <2>3 DEF StageInv, Roomy, AllKeys, KeySet, DedupKeys, Id
<1> QED
  BY <1>8, <1>9, <1>11 DEF DedupInv

(* The second half of CheckAndMark. *)
LEMMA MarkDedupInv ==
    ASSUME IInv, DedupInv, NEW d \in Deliveries, Mark(d) PROVE DedupInv'
<1>1. /\ stage[d] = "checked" /\ stage \in [Deliveries -> Stages]
      /\ stage' = [stage EXCEPT ![d] = "marked"]
      /\ seen' = Add(seen, DedupKeys(d), now)
      /\ UNCHANGED <<markAfterHandler, job, handledOK, settled, late>>
  BY DEF Mark, To, cfgvars, ghosts, IInv, TypeOK
<1>2. ~markAfterHandler
  BY <1>1 DEF DedupInv, StageInv
<1>3. DedupKeys(d) \in Seq(AllKeys \cup {NoKey}) /\ NamedIn(DedupKeys(d)) = KeySet(d)
  BY KeyFacts
<1>4. SeenInv' /\ (Roomy => seen.items \cup KeySet(d) \subseteq seen'.items)
  BY <1>1, <1>2, <1>3, GrowSeenInv DEF DedupInv
<1>5. CallInv'
  <2>1. CallsGoOn
    BY <1>1 DEF CallsGoOn, Srcs
  <2> QED
    BY <1>1, <2>1, CallsCallInv DEF DedupInv
<1>6. StageInv'
  <2>1. stage'[d] = "marked" /\ \A e \in Deliveries \ {d} : stage'[e] = stage[e]
    BY <1>1
  <2>2. ASSUME Roomy, NEW e \in Known' PROVE KeySet(e) \subseteq seen'.items
    BY <1>2, <1>4, <2>1, <2>2 DEF DedupInv, StageInv, Known
  <2>3. ASSUME Roomy PROVE late \subseteq Deliveries /\ \A e \in late : stage'[e] \in Rejections
    BY <1>1, <2>1, <2>3 DEF DedupInv, StageInv, Rejections
  <2> QED
    BY <1>1, <1>2, <2>2, <2>3 DEF StageInv, Roomy, AllKeys, KeySet, DedupKeys, Id
<1> QED
  BY <1>4, <1>5, <1>6 DEF DedupInv

(* Steps that leave the cache and its history alone. *)
LEMMA OtherDedupInv ==
    ASSUME DedupInv, Moves, CallsGoOn, handledOK \subseteq handledOK',
           UNCHANGED <<markAfterHandler, seen, settled, late>>
    PROVE  DedupInv'
<1>1. StageInv'
  BY MovesStageInv DEF DedupInv
<1>2. CallInv'
  BY CallsCallInv DEF DedupInv
<1>3. SeenInv'
  BY SameSeenInv DEF DedupInv
<1> QED
  BY <1>1, <1>2, <1>3 DEF DedupInv

(* Self filter, policy gate and lock. *)
LEMMA AdmitDedupInv ==
    ASSUME IInv, DedupInv, NEW d \in Deliveries, Gate(d) \/ Lock(d) PROVE DedupInv'
<1>1. /\ UNCHANGED <<markAfterHandler, seen, settled, late, job, handledOK>>
      /\ stage \in [Deliveries -> Stages] /\ stage[d] \in {"marked", "admitted"}
  BY DEF Gate, Lock, cfgvars, ghosts, IInv, TypeOK
<1>2. PICK t \in {"admitted", "refused", "contention", "queued"} : stage' = [stage EXCEPT ![d] = t]
  BY DEF Gate, Lock, Reject, To
<1>3. Moves
  BY <1>1, <1>2 DEF Moves, Passed
<1>4. CallsGoOn
  BY <1>1 DEF CallsGoOn, Srcs
<1> QED
  BY <1>1, <1>3, <1>4, OtherDedupInv

(* A handler is called. *)
LEMMA StartDedupInv ==
    ASSUME IInv, DedupInv, NEW s \in Scopes, NEW b, Start(s, b) PROVE DedupInv'
<1>1. b \in Seq(Deliveries) /\ b # <<>> /\ \A x \in ToSet(b) : stage[x] = "queued"
  BY BatchFacts
<1>2. PICK g, new : g = b[1] /\ new = [phase |-> "run", srcs |-> b, ok |-> FALSE]
  OBVIOUS
<1>3. /\ job' = [job EXCEPT ![g] = new] /\ new.phase = "run"
      /\ stage' = [x \in Deliveries |-> IF x \in ToSet(b) THEN "busy" ELSE stage[x]]
      /\ UNCHANGED <<markAfterHandler, seen, settled, late, handledOK>>
  BY <1>2 DEF Start, cfgvars, ghosts
<1>4. Moves
  BY <1>1, <1>3 DEF Moves, Passed
<1>5. CallsGoOn
  <2>1. job \in [Deliveries -> Jobs] /\ g \in Deliveries
    BY <1>1, <1>2 DEF IInv, JobInv
  <2>2. job'[g] = new /\ \A e \in Deliveries \ {g} : job'[e] = job[e]
    BY <1>3, <2>1
  <2> QED
    BY <1>3, <2>2 DEF CallsGoOn, Srcs
<1> QED
  BY <1>3, <1>4, <1>5, OtherDedupInv

(* A handler returns: what it was called for has been handled, if it says so. *)
LEMMA ReturnDedupInv ==
    ASSUME IInv, DedupInv, NEW d \in Deliveries, NEW ok \in BOOLEAN, Return(d, ok) PROVE DedupInv'
<1>1. /\ job[d] \in Jobs /\ job \in [Deliveries -> Jobs]
      /\ job' = [job EXCEPT ![d] = [@ EXCEPT !.phase = "release", !.ok = ok]]
      /\ handledOK' = IF ok THEN handledOK \cup {Id(x) : x \in Srcs(d)} ELSE handledOK
      /\ UNCHANGED <<markAfterHandler, stage, seen, settled, late>>
  BY DEF Return, cfgvars, IInv, JobInv, Srcs
<1>2. handledOK \subseteq handledOK' /\ (ok => \A x \in Srcs(d) : Id(x) \in handledOK')
  BY <1>1
<1>3. /\ job'[d].phase = "release" /\ job'[d].srcs = job[d].srcs /\ job'[d].ok = ok
      /\ \A e \in Deliveries \ {d} : job'[e] = job[e]
  BY <1>1 DEF Jobs
<1>4. Srcs(d)' = Srcs(d)
  BY <1>3 DEF Srcs
<1>5. CallsGoOn
  <2>1. job'[d].ok => \A x \in Srcs(d)' : Id(x) \in handledOK'
    BY <1>2, <1>3, <1>4, Zenon
  <2>2. job'[d].phase = "mark" => job'[d].ok
    BY <1>3
  <2>3. \A e \in Deliveries \ {d} : job'[e].phase = job[e].phase /\ job'[e].ok = job[e].ok /\ Srcs(e)' \subseteq Srcs(e)
    BY <1>3 DEF Srcs
  <2> QED
    BY <2>1, <2>2, <2>3 DEF CallsGoOn
<1>6. Moves
  BY <1>1 DEF Moves
<1> QED
  BY <1>1, <1>2, <1>5, <1>6, OtherDedupInv

(* The locks of a call are released; without MarkAfterHandler a successful  *)
(* call is then settled, its keys having been marked on the way in.         *)
LEMMA ReleaseDedupInv ==
    ASSUME IInv, DedupInv, NEW d \in Deliveries, Release(d) PROVE DedupInv'
<1>1. PICK srcs, Y : srcs = job[d].srcs /\ Y = Srcs(d)
  OBVIOUS
<1>2. /\ job \in [Deliveries -> Jobs] /\ job[d].phase = "release" /\ job[d] \in Jobs
      /\ Y = ToSet(srcs) /\ Y = {srcs[i] : i \in DOMAIN srcs} /\ Y \subseteq Deliveries
      /\ stage \in [Deliveries -> Stages]
      /\ UNCHANGED <<markAfterHandler, seen, handledOK, late>>
  <2>1. job \in [Deliveries -> Jobs] /\ job[d].phase = "release" /\ job[d] \in Jobs
    BY DEF IInv, JobInv, Release
  <2>2. Y = ToSet(srcs) /\ Y = {srcs[i] : i \in DOMAIN srcs} /\ Y \subseteq Deliveries
    BY <1>1, <2>1 DEF Jobs, Srcs, ToSet
  <2>3. stage \in [Deliveries -> Stages] /\ UNCHANGED <<markAfterHandler, seen, handledOK, late>>
    BY DEF IInv, TypeOK, Release, cfgvars
  <2> QED
    BY <2>1, <2>2, <2>3
<1>3. \A x \in Y : stage[x] \in Passed
  BY <1>1, <1>2 DEF IInv, JobInv, Where, Passed
<1>4. PICK toMark : toMark = (markAfterHandler /\ job[d].ok)
  OBVIOUS
<1>5. CASE job' = job /\ settled' = settled /\ \E x \in Y : stage' = [stage EXCEPT ![x] = "released"]
  <2>1. Moves
    BY <1>2, <1>3, <1>5 DEF Moves, Passed
  <2>2. CallsGoOn
    BY <1>5 DEF CallsGoOn, Srcs
  <2> QED
    BY <1>2, <1>5, <2>1, <2>2, OtherDedupInv
<1>6. ASSUME settled' = settled \cup UNION {StableKeys(x) : x \in {y \in Y : job[d].ok /\ ~toMark}},
             stage' = (IF toMark THEN [x \in Deliveries |-> IF x \in Y THEN "released" ELSE stage[x]]
                                 ELSE [x \in Deliveries |-> IF x \in Y THEN "done" ELSE stage[x]]),
             job' = [job EXCEPT ![d] = IF toMark THEN [@ EXCEPT !.phase = "mark"] ELSE NoJob]
      PROVE  DedupInv'
  <2>1. Moves
    BY <1>2, <1>3, <1>6 DEF Moves, Passed
  <2>2. StageInv'
    BY <1>2, <2>1, MovesStageInv DEF DedupInv
  <2>3. CallInv'
    <3>1. \A e \in Deliveries \ {d} :
             job'[e].phase = job[e].phase /\ job'[e].ok = job[e].ok /\ Srcs(e)' \subseteq Srcs(e)
      BY <1>2, <1>6 DEF Srcs
    <3>2. CASE ~toMark
      <4>1. job'[d].phase = "none"
        BY <1>2, <1>6, <3>2 DEF NoJob
      <4>2. CallsGoOn
        BY <3>1, <4>1 DEF CallsGoOn
      <4> QED
        BY <1>2, <4>2, CallsCallInv DEF DedupInv
    <3>3. CASE toMark
      <4>1. job'[d] = [job[d] EXCEPT !.phase = "mark"]
        BY <1>2, <1>6, <3>3
      <4>2. job'[d].srcs = job[d].srcs /\ job'[d].ok = job[d].ok
        BY <1>2, <4>1 DEF Jobs
      <4>3. markAfterHandler /\ job[d].ok
        BY <1>4, <3>3, Zenon
      <4>4. \A x \in Srcs(d) : Id(x) \in handledOK
        BY <1>2, <4>3 DEF DedupInv, CallInv
      <4>5. job'[d].ok /\ \A x \in Srcs(d)' : Id(x) \in handledOK'
        BY <1>2, <4>2, <4>3, <4>4 DEF Srcs
      <4>6. CallsGoOn
        BY <3>1, <4>5 DEF CallsGoOn
      <4> QED
        BY <1>2, <4>6, CallsCallInv DEF DedupInv
    <3> QED
      BY <3>2, <3>3
  <2>4. SeenInv'
    <3>1. ASSUME Roomy, NEW x \in Y, job[d].ok, ~toMark PROVE StableKeys(x) \subseteq seen.items
      <4>1. ~markAfterHandler
        BY <1>4, <3>1, Zenon
      <4>2. KeySet(x) \subseteq seen.items
        BY <1>2, <1>3, <3>1, <4>1 DEF DedupInv, StageInv, Known
      <4>3. x \in Deliveries
        BY <1>2
      <4>4. StableKeys(x) \subseteq KeySet(x)
        BY <4>3, KeyFacts
      <4> QED
        BY <4>2, <4>4
    <3>2. Roomy => settled' \subseteq seen.items
      BY <1>6, <3>1 DEF DedupInv, SeenInv
    <3>3. SeenOnlyAfterSuccess'
      BY <1>2 DEF DedupInv, SeenInv, SeenOnlyAfterSuccess, Id, DedupKeys
    <3> QED
      BY <1>2, <3>2, <3>3 DEF DedupInv, SeenInv
  <2> QED
    BY <2>2, <2>3, <2>4 DEF DedupInv
<1>7. PICK held : held = {i \in DOMAIN srcs : stage[srcs[i]] = "busy" /\ Msg[srcs[i]].kind # "light"}
  OBVIOUS
<1>8. \/ \E i \in held : stage' = [stage EXCEPT ![srcs[i]] = "released"] /\ UNCHANGED <<job, settled>>
      \/ /\ settled' = settled \cup UNION {StableKeys(x) : x \in {y \in Y : job[d].ok /\ ~toMark}}
         /\ stage' = (IF toMark THEN [x \in Deliveries |-> IF x \in Y THEN "released" ELSE stage[x]]
                                ELSE [x \in Deliveries |-> IF x \in Y THEN "done" ELSE stage[x]])
         /\ job' = [job EXCEPT ![d] = IF toMark THEN [@ EXCEPT !.phase = "mark"] ELSE NoJob]
  BY <1>1, <1>2, <1>4, <1>7, ZenonT(30) DEF Release, To, Finished
<1> QED
  BY <1>2, <1>5, <1>6, <1>7, <1>8

(* One source of a call that succeeded is added to the cache. *)
LEMMA MarkHandledDedupInv ==
    ASSUME IInv, DedupInv, NEW d \in Deliveries, MarkHandled(d) PROVE DedupInv'
<1>1. PICK srcs, h : srcs = job[d].srcs /\ h = Head(srcs)
  OBVIOUS
<1>2. /\ job \in [Deliveries -> Jobs] /\ job[d] \in Jobs /\ job[d].phase = "mark"
      /\ srcs \in Seq(Deliveries) /\ srcs # <<>> /\ stage \in [Deliveries -> Stages]
      /\ \A x \in Srcs(d) : stage[x] = "released"
  BY <1>1 DEF IInv, JobInv, Jobs, Where, MarkHandled, TypeOK
<1>3. /\ h = srcs[1] /\ h \in Deliveries /\ h \in Srcs(d) /\ Len(srcs) \in Nat \ {0}
      /\ DOMAIN srcs = 1 .. Len(srcs) /\ DOMAIN Tail(srcs) = 1 .. Len(srcs) - 1
      /\ \A i \in 1 .. Len(srcs) - 1 : Tail(srcs)[i] = srcs[i + 1]
  BY <1>1, <1>2 DEF Srcs, ToSet
<1>4. /\ stage' = [stage EXCEPT ![h] = "done"]
      /\ seen' = Add(seen, MarkKeys(h), now)
      /\ job' = [job EXCEPT ![d] = IF Len(srcs) = 1 THEN NoJob ELSE [job[d] EXCEPT !.srcs = Tail(srcs)]]
      /\ settled' = settled \cup StableKeys(h)
      /\ UNCHANGED <<markAfterHandler, handledOK, late>>
  BY <1>1 DEF MarkHandled, cfgvars
<1>5. /\ MarkKeys(h) \in Seq(AllKeys \cup {NoKey}) /\ NamedIn(MarkKeys(h)) \subseteq KeySet(h)
      /\ StableKeys(h) \subseteq NamedIn(MarkKeys(h))
  BY <1>3, KeyFacts
<1>6. markAfterHandler => Id(h) \in handledOK
  BY <1>2, <1>3 DEF DedupInv, CallInv
<1>7. SeenInv' /\ (Roomy => seen.items \subseteq seen'.items)
  <2>1. SeenInv' /\ (Roomy => seen.items \cup NamedIn(MarkKeys(h)) \subseteq seen'.items)
    BY <1>3, <1>4, <1>5, <1>6, GrowSeenInv DEF DedupInv
  <2> QED
    BY <2>1
<1>8. Moves
  BY <1>2, <1>3, <1>4 DEF Moves, Passed
<1>9. StageInv'
  BY <1>4, <1>7, <1>8, MovesStageInv DEF DedupInv
<1>10. CallsGoOn
  <2>1. \A e \in Deliveries \ {d} :
           job'[e].phase = job[e].phase /\ job'[e].ok = job[e].ok /\ Srcs(e)' \subseteq Srcs(e)
    BY <1>2, <1>4 DEF Srcs
  <2>2. CASE Len(srcs) = 1
    <3>1. job'[d].phase = "none"
      BY <1>2, <1>4, <2>2 DEF NoJob
    <3> QED
      BY <2>1, <3>1 DEF CallsGoOn
  <2>3. CASE Len(srcs) # 1
    <3>1. job'[d] = [job[d] EXCEPT !.srcs = Tail(srcs)]
      BY <1>2, <1>4, <2>3
    <3>2. job'[d].phase = job[d].phase /\ job'[d].ok = job[d].ok /\ job'[d].srcs = Tail(srcs)
      BY <1>2, <3>1 DEF Jobs
    <3>3. ToSet(Tail(srcs)) \subseteq ToSet(srcs)
      <4>1. \A i \in 1 .. Len(srcs) - 1 : i + 1 \in 1 .. Len(srcs)
        BY <1>3
      <4> QED
        BY <1>3, <4>1 DEF ToSet
    <3>4. Srcs(d)' \subseteq Srcs(d)
      BY <1>1, <3>2, <3>3 DEF Srcs
    <3> QED
      BY <2>1, <3>2, <3>4 DEF CallsGoOn
  <2> QED
    BY <2>2, <2>3
<1>11. CallInv'
  BY <1>4, <1>10, CallsCallInv DEF DedupInv
<1> QED
  BY <1>7, <1>9, <1>11 DEF DedupInv

(* The sweep of the cache. *)
LEMMA SweepDedupInv == ASSUME IInv, DedupInv, SweepSeen PROVE DedupInv'
<1>1. PICK c, b, t, K : c = seen /\ b = seen' /\ t = now /\ K = AllKeys
  OBVIOUS
<1>2. /\ c \in Sound(K) /\ t \in Nat /\ b = sweep(c, t)
      /\ UNCHANGED <<markAfterHandler, stage, job, handledOK, settled, late>>
  BY <1>1, ClockFacts DEF DedupInv, SeenInv, SweepSeen, cfgvars, ghosts
<1>3. Fit(c, K) /\ Len(c.evictList) <= MaxEntries
  BY <1>2, SoundFacts
<1>4. Fit(b, K) /\ Dropped(b, c, t)
  BY <1>2, <1>3, SweepFacts
<1>5. b \in Sound(K)
  <2>1. Len(b.evictList) <= Len(c.evictList) /\ Len(b.evictList) \in Nat /\ Len(c.evictList) \in Nat
    BY <1>3, <1>4 DEF Dropped, Fit
  <2>2. Len(b.evictList) <= MaxEntries
    BY <1>3, <2>1, DedupConfigFilled
  <2> QED
    BY <1>4, <2>2, SoundFacts
<1>6. /\ b.items \subseteq c.items
      /\ \A k, x : Expires(b.evictList, k, x) => Expires(c.evictList, k, x)
      /\ Fresh(c, t) => b.items = c.items
  BY <1>2, <1>4, <1>5, DroppedItems
<1>7. Roomy => Fresh(c, t)
  BY <1>1, <1>2, ClockFacts, FreshNow DEF DedupInv, SeenInv
<1>8. SeenInv' /\ (Roomy => seen'.items = seen.items)
  BY <1>1, <1>2, <1>5, <1>6, <1>7, ShrinkSeenInv DEF DedupInv
<1>9. Moves
  BY <1>2 DEF Moves
<1>10. CallsGoOn
  BY <1>2 DEF CallsGoOn, Srcs
<1>11. StageInv' /\ CallInv'
  BY <1>2, <1>8, <1>9, <1>10, MovesStageInv, CallsCallInv DEF DedupInv
<1> QED
  BY <1>8, <1>11 DEF DedupInv

(* Every step of the pipeline keeps what the cache promises. *)
LEMMA NextDedupInv == IInv /\ DedupInv /\ [Next]_vars => DedupInv'
<1> SUFFICES ASSUME IInv, DedupInv, [Next]_vars PROVE DedupInv'
  OBVIOUS
<1>1. ASSUME NEW d \in Deliveries, Enter(d) \/ Goroutine(d) PROVE DedupInv'
  <2>1. CASE Enter(d)
    BY <2>1, EnterDedupInv
  <2>2. CASE Mark(d)
    BY <2>2, MarkDedupInv
  <2>3. CASE Gate(d) \/ Lock(d)
    BY <2>3, AdmitDedupInv
  <2>4. CASE Release(d)
    BY <2>4, ReleaseDedupInv
  <2>5. CASE MarkHandled(d)
    BY <2>5, MarkHandledDedupInv
  <2>6. ASSUME NEW ok \in BOOLEAN, Return(d, ok) PROVE DedupInv'
    BY <2>6, ReturnDedupInv
  <2> QED
    BY <1>1, <2>1, <2>2, <2>3, <2>4, <2>5, <2>6 DEF Goroutine
<1>2. ASSUME NEW s \in Scopes, NEW b, Start(s, b) PROVE DedupInv'
  BY <1>2, StartDedupInv
<1>3. CASE SweepSeen
  BY <1>3, SweepDedupInv
<1>4. ASSUME UNCHANGED <<markAfterHandler, seen, stage, job, handledOK, settled, late>> PROVE DedupInv'
  <2>1. Moves
    BY <1>4 DEF Moves
  <2>2. CallsGoOn
    BY <1>4 DEF CallsGoOn, Srcs
  <2> QED
    BY <1>4, <2>1, <2>2, OtherDedupInv
<1>5. ASSUME SetBotIdentity \/ SweepLocks \/ Tick \/ UNCHANGED vars
                 \/ \E p \in Policies \ {policy} : UpdatePolicy(p)
      PROVE  DedupInv'
  <2>1. UNCHANGED <<markAfterHandler, seen, stage, job, handledOK, settled, late>>
    BY <1>5 DEF SetBotIdentity, SweepLocks, Tick, UpdatePolicy, vars, cfgvars, ghosts
  <2> QED
    BY <1>4, <2>1
<1> QED
  BY <1>1, <1>2, <1>3, <1>5 DEF Next

(* With MarkAfterHandler the cache remembers only what some handler call    *)
(* succeeded for: a message whose handler failed can be delivered again,    *)
(* whatever other deliveries are looked up, merged, swept or marked         *)
(* meanwhile.                                                               *)
THEOREM FailedMayReturn == Spec => []SeenOnlyAfterSuccess
<1>1. DedupInv => SeenOnlyAfterSuccess
  BY DEF DedupInv, SeenInv
<1> QED
  BY <1>1, BooksKept, InitDedupInv, NextDedupInv, PTL DEF Spec

(* In both marking modes, for any deliveries: what arrives with the message *)
(* id, or the fingerprint of the action, of something handled with success  *)
(* and marked is rejected, within the TTL and with room in the cache.       *)
THEOREM HandledOnce == Spec => []LateRedeliveryRejected
<1>1. DedupInv => LateRedeliveryRejected
  BY DEF DedupInv, StageInv, LateRedeliveryRejected, Roomy
<1> QED
  BY <1>1, BooksKept, InitDedupInv, NextDedupInv, PTL DEF Spec
-----------------------------------------------------------------------------
(* Copies.  Every key in the cache was put there for a delivery whose look  *)
(* was over; a duplicate resembles such a delivery; who ran into a lock ran *)
(* into that of a delivery that has it or had it; and what the cache let    *)
(* through was looked up before any copy of it was marked.                  *)
Past == {"queued", "busy", "released", "done"}

CopyInv ==
    /\ \A k \in seen.items : \E e \in Known : k \in KeySet(e)
    /\ \A d \in Deliveries : stage[d] = "duplicate" => \E e \in Known : Copies(d, e)
    /\ \A d \in Deliveries : stage[d] = "contention" =>
           \E f \in Deliveries : Id(f) = Id(d) /\ stage[f] \in Past
    /\ unseen \in [Deliveries -> SUBSET Deliveries]
    /\ (Roomy /\ ~markAfterHandler) =>
           \A d, e \in Deliveries :
               (d # e /\ Copies(d, e) /\ stage[d] \in Passed \cup {"checked"}) => e \in unseen[d]

(* Nothing has arrived. *)
LEMMA InitCopyInv == Init => CopyInv
<1> SUFFICES ASSUME Init PROVE CopyInv
  OBVIOUS
<1>1. /\ seen.items = {} /\ unseen = [d \in Deliveries |-> {}]
      /\ \A d \in Deliveries : stage[d] \in {"new", "absent"}
  BY DEF Init, NewSeenCache
<1> QED
  BY <1>1 DEF CopyInv, Passed

(* After its look a delivery moves on, and is stopped by a lock only if a   *)
(* delivery with the same id has had it.                                    *)
LockTaken(e) == \E f \in Deliveries : Id(f) = Id(e) /\ stage[f] \in Past

Onward == \A e \in Deliveries :
             \/ stage'[e] = stage[e]
             \/ stage[e] = "checked" /\ stage'[e] = "marked"
             \/ stage[e] = "admitted" /\ stage'[e] = "contention" /\ LockTaken(e)
             \/ /\ stage[e] \in Passed /\ stage'[e] \in Passed \cup {"refused"}
                /\ stage[e] \in Past => stage'[e] \in Past

(* New keys in the cache are those of a known delivery. *)
KeysOfKnown == \A k \in seen'.items : k \in seen.items \/ \E h \in Known' : k \in KeySet(h)

LEMMA OnwardCopyInv ==
    ASSUME CopyInv, Onward, KeysOfKnown, UNCHANGED <<markAfterHandler, unseen>> PROVE CopyInv'
<1>1. /\ \A e \in Known : e \in Known'
      /\ \A f \in Deliveries : stage[f] \in Past => stage'[f] \in Past
  BY DEF Onward, Known, Passed, Past
<1>2. ASSUME NEW k \in seen'.items PROVE \E e \in Known' : k \in KeySet(e)
  BY <1>1, <1>2 DEF KeysOfKnown, CopyInv
<1>3. ASSUME NEW d \in Deliveries, stage'[d] = "duplicate" PROVE \E e \in Known' : Copies(d, e)
  <2>1. stage[d] = "duplicate"
    BY <1>3 DEF Onward, Passed
  <2> QED
    BY <1>1, <2>1 DEF CopyInv
<1>4. ASSUME NEW d \in Deliveries, stage'[d] = "contention"
      PROVE  \E f \in Deliveries : Id(f) = Id(d) /\ stage'[f] \in Past
  <2>1. stage[d] = "contention" \/ LockTaken(d)
    BY <1>4 DEF Onward, Passed
  <2>2. LockTaken(d)
    BY <2>1 DEF CopyInv, LockTaken
  <2> QED
    BY <1>1, <2>2 DEF LockTaken
<1>5. ASSUME Roomy, ~markAfterHandler, NEW d \in Deliveries, NEW e \in Deliveries, d # e, Copies(d, e),
             stage'[d] \in Passed \cup {"checked"}
      PROVE  e \in unseen[d]
  <2>1. stage[d] \in Passed \cup {"checked"}
    BY <1>5 DEF Onward, Passed
  <2> QED
    BY <1>5, <2>1 DEF CopyInv
<1>6. unseen' \in [Deliveries -> SUBSET Deliveries]
  BY DEF CopyInv
<1> QED
  BY <1>2, <1>3, <1>4, <1>5, <1>6 DEF CopyInv, Roomy, KeySet, Copies, Id, AllKeys, DedupKeys

(* The look: a hit is a key of a known delivery; a miss is a key of none    *)
(* that was marked.                                                         *)
LEMMA EnterCopyInv ==
    ASSUME IInv, DedupInv, CopyInv, NEW d \in Deliveries, Enter(d) PROVE CopyInv'
<1>1. PICK c, t, K, keys, r : /\ c = seen /\ t = now /\ K = AllKeys /\ keys = DedupKeys(d)
                              /\ r = Has(c, keys, t, {})
  OBVIOUS
<1>2. /\ c \in Sound(K) /\ NoKey \notin K /\ keys \in Seq(K \cup {NoKey}) /\ t \in Nat
      /\ NamedIn(keys) = KeySet(d)
  <2>1. NoKey \notin AllKeys
    BY DEF AllKeys
  <2> QED
    BY <1>1, <2>1, ClockFacts, KeyFacts DEF DedupInv, SeenInv
<1>3. /\ r.cache.items \subseteq c.items
      /\ r.hit # NoKey => r.hit \in KeySet(d) /\ r.hit \in c.items
      /\ Fresh(c, t) /\ r.hit = NoKey => KeySet(d) \cap c.items = {}
  <2>1. Answered(r, c, K, NamedIn(keys), t)
    BY <1>1, <1>2, HasItems
  <2> QED
    BY <1>2, <2>1 DEF Answered
<1>4. Roomy => Fresh(c, t)
  BY <1>1, <1>2, ClockFacts, FreshNow DEF DedupInv, SeenInv
<1>5. /\ stage[d] = "new" /\ stage \in [Deliveries -> Stages] /\ UNCHANGED markAfterHandler
      /\ unseen \in [Deliveries -> SUBSET Deliveries]
  BY DEF Enter, cfgvars, IInv, TypeOK, CopyInv
<1>6. \/ stage' = [stage EXCEPT ![d] = "stale"] /\ seen' = seen /\ unseen' = unseen
      \/ /\ stage' = [stage EXCEPT ![d] = "duplicate"] /\ seen' = r.cache /\ unseen' = unseen
         /\ r.hit # NoKey
      \/ /\ stage' = [stage EXCEPT ![d] = IF markAfterHandler THEN "marked" ELSE "checked"]
         /\ seen' = r.cache /\ r.hit = NoKey /\ unseen' = [unseen EXCEPT ![d] = Deliveries \ Known]
  BY <1>1 DEF Enter, Reject, To
<1>7. seen'.items \subseteq seen.items
  BY <1>1, <1>3, <1>6
<1>8. /\ \A e \in Deliveries \ {d} : stage'[e] = stage[e] /\ unseen'[e] = unseen[e]
      /\ stage'[d] \in {"stale", "duplicate", "marked", "checked"}
      /\ stage'[d] = "duplicate" => r.hit # NoKey
      /\ stage'[d] \in {"marked", "checked"} => r.hit = NoKey /\ unseen'[d] = Deliveries \ Known
      /\ unseen' \in [Deliveries -> SUBSET Deliveries]
  <2>1. CASE unseen' = unseen
    BY <1>5, <1>6, <2>1
  <2>2. CASE /\ stage' = [stage EXCEPT ![d] = IF markAfterHandler THEN "marked" ELSE "checked"]
             /\ r.hit = NoKey /\ unseen' = [unseen EXCEPT ![d] = Deliveries \ Known]
    <3>1. stage'[d] = (IF markAfterHandler THEN "marked" ELSE "checked")
          /\ \A e \in Deliveries \ {d} : stage'[e] = stage[e]
      BY <1>5, <2>2
    <3>2. unseen'[d] = Deliveries \ Known /\ unseen' \in [Deliveries -> SUBSET Deliveries]
          /\ \A e \in Deliveries \ {d} : unseen'[e] = unseen[e]
      BY <1>5, <2>2
    <3>3. stage'[d] \in {"marked", "checked"}
      BY <3>1
    <3> QED
      BY <2>2, <3>1, <3>2, <3>3
  <2> QED
    BY <1>6, <2>1, <2>2
<1>9. /\ Known \subseteq Known' /\ d \notin Known
      /\ \A f \in Deliveries : stage[f] \in Past => stage'[f] \in Past
  BY <1>5, <1>8 DEF Known, Passed, Past
<1>10. \A k \in seen'.items : \E e \in Known' : k \in KeySet(e)
  BY <1>7, <1>9 DEF CopyInv
<1>11. ASSUME NEW x \in Deliveries, stage'[x] = "duplicate" PROVE \E e \in Known' : Copies(x, e)
  <2>1. CASE x = d
    <3>1. PICK e \in Known : r.hit \in KeySet(e)
      BY <1>1, <1>3, <1>8, <1>11, <2>1 DEF CopyInv
    <3>2. Copies(d, e)
      BY <1>3, <1>8, <1>11, <2>1, <3>1 DEF Copies, KeySet
    <3> QED
      BY <1>9, <2>1, <3>2
  <2>2. CASE x # d
    BY <1>8, <1>9, <1>11, <2>2 DEF CopyInv
  <2> QED
    BY <2>1, <2>2
<1>12. ASSUME NEW x \in Deliveries, stage'[x] = "contention"
       PROVE  \E f \in Deliveries : Id(f) = Id(x) /\ stage'[f] \in Past
  <2>1. stage[x] = "contention"
    BY <1>8, <1>12
  <2> QED
    BY <1>9, <2>1 DEF CopyInv
<1>13. ASSUME Roomy, ~markAfterHandler, NEW x \in Deliveries, NEW e \in Deliveries, x # e,
              Copies(x, e), stage'[x] \in Passed \cup {"checked"}
       PROVE  e \in unseen'[x]
  <2>1. CASE x # d
    BY <1>8, <1>13, <2>1 DEF CopyInv
  <2>2. CASE x = d
    <3>1. r.hit = NoKey /\ unseen'[d] = Deliveries \ Known
      BY <1>8, <1>13, <2>2 DEF Passed
    <3>2. KeySet(d) \cap c.items = {}
      BY <1>3, <1>4, <1>13, <3>1
    <3>3. e \notin Known
      BY <1>1, <1>13, <2>2, <3>2 DEF DedupInv, StageInv, Copies, KeySet
    <3> QED
      BY <2>2, <3>1, <3>3
  <2> QED
    BY <2>1, <2>2
<1> QED
  BY <1>5, <1>8, <1>10, <1>11, <1>12, <1>13 DEF CopyInv, Roomy, KeySet, Copies, Id, AllKeys, DedupKeys

(* A step that adds the keys of one delivery to the cache. *)
LEMMA AddedKeys ==
    ASSUME IInv, DedupInv, NEW h \in Deliveries, h \in Known', NEW keys \in Seq(AllKeys \cup {NoKey}),
           NamedIn(keys) \subseteq KeySet(h), seen' = Add(seen, keys, now)
    PROVE  KeysOfKnown
<1>1. PICK c, b, t, K : c = seen /\ b = seen' /\ t = now /\ K = AllKeys
  OBVIOUS
<1>2. c \in Sound(K) /\ NoKey \notin K /\ keys \in Seq(K \cup {NoKey}) /\ t \in Nat /\ b = Add(c, keys, t)
  <2>1. NoKey \notin AllKeys
    BY DEF AllKeys
  <2> QED
    BY <1>1, <2>1, ClockFacts DEF DedupInv, SeenInv
<1>3. Grown(b, c, K, NamedIn(keys), t + TTL)
  BY <1>2, AddItems
<1>4. seen'.items \subseteq seen.items \cup KeySet(h)
  BY <1>1, <1>3 DEF Grown
<1> QED
  BY <1>4 DEF KeysOfKnown

(* Marking, before the handler or after it. *)
LEMMA MarkCopyInv ==
    ASSUME IInv, DedupInv, CopyInv, NEW d \in Deliveries, Mark(d) \/ MarkHandled(d) PROVE CopyInv'
<1>1. CASE Mark(d)
  <2>1. /\ stage[d] = "checked" /\ stage \in [Deliveries -> Stages]
        /\ stage' = [stage EXCEPT ![d] = "marked"] /\ seen' = Add(seen, DedupKeys(d), now)
        /\ UNCHANGED <<markAfterHandler, unseen>>
    BY <1>1 DEF Mark, To, cfgvars, ghosts, IInv, TypeOK
  <2>2. Onward /\ d \in Known'
    BY <2>1 DEF Onward, Known, Passed
  <2>3. DedupKeys(d) \in Seq(AllKeys \cup {NoKey}) /\ NamedIn(DedupKeys(d)) = KeySet(d)
    BY KeyFacts
  <2>4. KeysOfKnown
    BY <2>1, <2>2, <2>3, AddedKeys
  <2> QED
    BY <2>1, <2>2, <2>4, OnwardCopyInv
<1>2. CASE MarkHandled(d)
  <2>1. PICK srcs, h : srcs = job[d].srcs /\ h = Head(srcs)
    OBVIOUS
  <2>2. /\ job[d] \in Jobs /\ srcs \in Seq(Deliveries) /\ srcs # <<>>
        /\ stage \in [Deliveries -> Stages] /\ \A x \in Srcs(d) : stage[x] = "released"
    BY <1>2, <2>1 DEF IInv, JobInv, Jobs, Where, MarkHandled, TypeOK
  <2>3. h \in Deliveries /\ h \in Srcs(d)
    BY <2>1, <2>2 DEF Srcs, ToSet
  <2>4. /\ stage' = [stage EXCEPT ![h] = "done"] /\ seen' = Add(seen, MarkKeys(h), now)
        /\ UNCHANGED <<markAfterHandler, unseen>>
    BY <1>2, <2>1 DEF MarkHandled, cfgvars
  <2>5. Onward /\ h \in Known'
    BY <2>2, <2>3, <2>4 DEF Onward, Known, Passed, Past
  <2>6. MarkKeys(h) \in Seq(AllKeys \cup {NoKey}) /\ NamedIn(MarkKeys(h)) \subseteq KeySet(h)
    BY <2>3, KeyFacts
  <2>7. KeysOfKnown
    BY <2>3, <2>4, <2>5, <2>6, AddedKeys
  <2> QED
    BY <2>4, <2>5, <2>7, OnwardCopyInv
<1> QED
  BY <1>1, <1>2

(* Gate and lock: an entry in the lock map is that of a holder. *)
LEMMA AdmitCopyInv ==
    ASSUME IInv, CopyInv, NEW d \in Deliveries, Gate(d) \/ Lock(d) PROVE CopyInv'
<1>1. /\ UNCHANGED <<markAfterHandler, seen, unseen>> /\ stage \in [Deliveries -> Stages]
  BY DEF Gate, Lock, cfgvars, ghosts, IInv, TypeOK
<1>2. KeysOfKnown
  BY <1>1 DEF KeysOfKnown
<1>3. CASE Gate(d)
  <2>1. stage[d] = "marked" /\ \E t \in {"admitted", "refused"} : stage' = [stage EXCEPT ![d] = t]
    BY <1>3 DEF Gate, Reject, To
  <2>2. Onward
    BY <1>1, <2>1 DEF Onward, Passed, Past
  <2> QED
    BY <1>1, <1>2, <2>2, OnwardCopyInv
<1>4. CASE Lock(d)
  <2>1. stage[d] = "admitted"
    BY <1>4 DEF Lock
  <2>2. CASE stage' = [stage EXCEPT ![d] = "queued"]
    <3>1. Onward
      BY <1>1, <2>1, <2>2 DEF Onward, Passed, Past
    <3> QED
      BY <1>1, <1>2, <3>1, OnwardCopyInv
  <2>3. CASE stage' = [stage EXCEPT ![d] = "contention"] /\ Id(d) \in DOMAIN locks
    <3>1. LockTaken(d)
      BY <2>3 DEF IInv, LockInv, Holds, LockTaken, Past
    <3>2. Onward
      BY <1>1, <2>1, <2>3, <3>1 DEF Onward
    <3> QED
      BY <1>1, <1>2, <3>2, OnwardCopyInv
  <2> QED
    BY <1>4, <2>2, <2>3 DEF Lock, Reject, To, Available
<1> QED
  BY <1>3, <1>4

(* A handler is called. *)
LEMMA StartCopyInv ==
    ASSUME IInv, CopyInv, NEW s \in Scopes, NEW b, Start(s, b) PROVE CopyInv'
<1>1. \A x \in ToSet(b) : stage[x] = "queued"
  BY BatchFacts
<1>2. /\ stage' = [x \in Deliveries |-> IF x \in ToSet(b) THEN "busy" ELSE stage[x]]
      /\ UNCHANGED <<markAfterHandler, seen, unseen>>
  BY DEF Start, cfgvars, ghosts
<1>3. Onward
  BY <1>1, <1>2 DEF Onward, Passed, Past
<1>4. KeysOfKnown
  BY <1>2 DEF KeysOfKnown
<1> QED
  BY <1>2, <1>3, <1>4, OnwardCopyInv

(* The locks of a handler call are released. *)
LEMMA ReleaseCopyInv ==
    ASSUME IInv, CopyInv, NEW d \in Deliveries, Release(d) PROVE CopyInv'
<1>1. PICK srcs, Y : srcs = job[d].srcs /\ Y = Srcs(d)
  OBVIOUS
<1>2. /\ job[d].phase = "release" /\ job[d] \in Jobs /\ stage \in [Deliveries -> Stages]
      /\ UNCHANGED <<markAfterHandler, seen, unseen>>
  BY DEF IInv, JobInv, TypeOK, Release, cfgvars
<1>3. Y = ToSet(srcs) /\ Y = {srcs[i] : i \in DOMAIN srcs} /\ Y \subseteq Deliveries
  BY <1>1, <1>2 DEF Jobs, Srcs, ToSet
<1>4. \A x \in Y : stage[x] \in {"busy", "released"}
  BY <1>1, <1>2 DEF IInv, JobInv, Where
<1>5. \/ \E i \in DOMAIN srcs : stage' = [stage EXCEPT ![srcs[i]] = "released"]
      \/ stage' = [x \in Deliveries |-> IF x \in Y THEN "released" ELSE stage[x]]
      \/ stage' = [x \in Deliveries |-> IF x \in Y THEN "done" ELSE stage[x]]
  BY <1>1, <1>3 DEF Release, To, Finished
<1>6. \A e \in Deliveries : stage'[e] = stage[e] \/ (e \in Y /\ stage'[e] \in {"released", "done"})
  BY <1>2, <1>3, <1>5
<1>7. Onward
  BY <1>4, <1>6 DEF Onward, Passed, Past
<1>8. KeysOfKnown
  BY <1>2 DEF KeysOfKnown
<1> QED
  BY <1>2, <1>7, <1>8, OnwardCopyInv

(* Steps that move no delivery and put nothing into the cache. *)
LEMMA StillCopyInv ==
    ASSUME CopyInv, UNCHANGED <<markAfterHandler, stage, unseen>>, seen'.items \subseteq seen.items
    PROVE  CopyInv'
<1>1. Onward /\ KeysOfKnown
  BY DEF Onward, KeysOfKnown
<1> QED
  BY <1>1, OnwardCopyInv

(* Every step of the pipeline. *)
LEMMA NextCopyInv == IInv /\ DedupInv /\ CopyInv /\ [Next]_vars => CopyInv'
<1> SUFFICES ASSUME IInv, DedupInv, CopyInv, [Next]_vars PROVE CopyInv'
  OBVIOUS
<1>1. ASSUME NEW d \in Deliveries, Enter(d) \/ Goroutine(d) PROVE CopyInv'
  <2>1. CASE Enter(d)
    BY <2>1, EnterCopyInv
  <2>2. CASE Mark(d) \/ MarkHandled(d)
    BY <2>2, MarkCopyInv
  <2>3. CASE Gate(d) \/ Lock(d)
    BY <2>3, AdmitCopyInv
  <2>4. CASE Release(d)
    BY <2>4, ReleaseCopyInv
  <2>5. ASSUME NEW ok \in BOOLEAN, Return(d, ok) PROVE CopyInv'
    <3>1. UNCHANGED <<markAfterHandler, stage, unseen, seen>>
      BY <2>5 DEF Return, cfgvars
    <3> QED
      BY <3>1, StillCopyInv
  <2> QED
    BY <1>1, <2>1, <2>2, <2>3, <2>4, <2>5 DEF Goroutine
<1>2. ASSUME NEW s \in Scopes, NEW b, Start(s, b) PROVE CopyInv'
  BY <1>2, StartCopyInv
<1>3. CASE SweepSeen
  <2>1. PICK c, b, t, K : c = seen /\ b = seen' /\ t = now /\ K = AllKeys
    OBVIOUS
  <2>2. /\ c \in Sound(K) /\ t \in Nat /\ b = sweep(c, t)
        /\ UNCHANGED <<markAfterHandler, stage, unseen>>
    BY <1>3, <2>1, ClockFacts DEF DedupInv, SeenInv, SweepSeen, cfgvars, ghosts
  <2>3. Fit(c, K)
    BY <2>2, SoundFacts
  <2>4. Fit(b, K) /\ Dropped(b, c, t)
    BY <2>2, <2>3, SweepFacts
  <2>5. b.items \subseteq c.items
    BY <2>3, <2>4 DEF Dropped, Fit
  <2> QED
    BY <2>1, <2>2, <2>5, StillCopyInv
<1>4. ASSUME SetBotIdentity \/ SweepLocks \/ Tick \/ UNCHANGED vars
                 \/ \E p \in Policies \ {policy} : UpdatePolicy(p)
      PROVE  CopyInv'
  <2>1. UNCHANGED <<markAfterHandler, stage, unseen, seen>>
    BY <1>4 DEF SetBotIdentity, SweepLocks, Tick, UpdatePolicy, vars, cfgvars, ghosts
  <2> QED
    BY <2>1, StillCopyInv
<1> QED
  BY <1>1, <1>2, <1>3, <1>4 DEF Next

(* For any deliveries and any schedule: two handler calls never process one *)
(* id at the same time, unless one was queued or running for longer than    *)
(* the lock lives; and of two copies that the cache lets through, under     *)
(* whatever ids, each was looked up before the other was marked.            *)
THEOREM HandledByOne == Spec => []ExclusiveHandling
<1>1. ASSUME IInv, CopyInv PROVE ExclusiveHandling
  <2>1. \A d, e \in Calls : d # e => InHandler(d) \cap InHandler(e) \subseteq overrun
    BY <1>1, CallsHoldLocks
  <2>2. ASSUME Roomy, ~markAfterHandler, NEW d \in Deliveries, NEW e \in Deliveries, d # e,
               Copies(d, e), stage[d] \in Passed, stage[e] \in Passed
        PROVE  d \in unseen[e] /\ e \in unseen[d]
    <3>1. Copies(e, d)
      BY <2>2 DEF Copies
    <3>2. stage[d] \in Passed \cup {"checked"} /\ stage[e] \in Passed \cup {"checked"}
      BY <2>2
    <3> QED
      BY <1>1, <2>2, <3>1, <3>2 DEF CopyInv
  <2> QED
    BY <2>1, <2>2 DEF ExclusiveHandling
<1> QED
  BY <1>1, BooksKept, InitDedupInv, NextDedupInv, InitCopyInv, NextCopyInv, PTL DEF Spec

(* De-duplication and the lock together never lose the last copy: whatever  *)
(* they turn away, a delivery with the same id, or with that of a copy, got *)
(* past both, or was refused by the self filter or the policy.              *)
THEOREM SomeCopyPasses == Spec => []DuplicateHasTwin
<1>1. ASSUME CopyInv PROVE DuplicateHasTwin
  <2>1. ASSUME NEW e \in Known
        PROVE  \E f \in Deliveries : Id(f) = Id(e) /\ stage[f] \in Passed \cup {"refused"}
    <3>1. CASE stage[e] = "contention"
      BY <1>1, <3>1 DEF CopyInv, Known, Past, Passed
    <3>2. CASE stage[e] # "contention"
      BY <3>2 DEF Known
    <3> QED
      BY <3>1, <3>2
  <2>2. ASSUME NEW d \in Deliveries, stage[d] = "contention"
        PROVE  \E e, f \in Deliveries : /\ e = d \/ Copies(d, e)
                                        /\ Id(f) = Id(e) /\ stage[f] \in Passed \cup {"refused"}
    BY <2>1, <2>2 DEF Known
  <2>3. ASSUME NEW d \in Deliveries, stage[d] = "duplicate"
        PROVE  \E e, f \in Deliveries : /\ e = d \/ Copies(d, e)
                                        /\ Id(f) = Id(e) /\ stage[f] \in Passed \cup {"refused"}
    <3>1. PICK e \in Known : Copies(d, e)
      BY <1>1, <2>3 DEF CopyInv
    <3>2. e \in Deliveries
      BY DEF Known
    <3> QED
      BY <2>1, <3>1, <3>2
  <2> QED
    BY <2>2, <2>3 DEF DuplicateHasTwin
<1> QED
  BY <1>1, BooksKept, InitDedupInv, NextDedupInv, InitCopyInv, NextCopyInv, PTL DEF Spec
=============================================================================
