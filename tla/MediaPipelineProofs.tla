------------------------- MODULE MediaPipelineProofs -------------------------
(***************************************************************************)
(* The media buckets for any finite set of messages, any conversations and *)
(* types and any limit.  What the handler calls and the buckets say about  *)
(* the order of arrival (Books) is stated of any map, so that a Push that  *)
(* fills its bucket is two steps: append, then flush.                      *)
(***************************************************************************)
EXTENDS MediaPipeline, FiniteSetTheorems, TLAPS

(* x arrived before y *)
Before2(acc, x, y) == \E i, j \in DOMAIN acc : i < j /\ acc[i] = x /\ acc[j] = y

Sorted(acc, s) == \A i, j \in DOMAIN s : i < j => Before2(acc, s[i], s[j])

Bucket == [sources : Seq(Msgs), timer : {"armed", "fired"}]

Call == [sources : Seq(Msgs), phase : {"spawned", "run"}]

(* The buckets bs hold messages of their key, in the order of acc. *)
BucketBooks(bs, acc) ==
    /\ DOMAIN bs \subseteq Keys
    /\ \A k \in DOMAIN bs :
          /\ bs[k] \in Bucket /\ bs[k].sources # <<>> /\ Len(bs[k].sources) <= MaxItems
          /\ Sorted(acc, bs[k].sources)
          /\ \A x \in ToSet(bs[k].sources) : Compatible(x) /\ batchKey(x) = k /\ x \in ToSet(acc)

(* So do the calls cs, one after the other. *)
CallBooks(cs, acc) ==
    /\ cs \in Seq(Call)
    /\ \A i \in DOMAIN cs :
          /\ Len(cs[i].sources) <= MaxItems
          /\ Sorted(acc, cs[i].sources)
          /\ \A x \in ToSet(cs[i].sources) : Compatible(x) /\ x \in ToSet(acc)
    /\ \A i, j \in DOMAIN cs :
          i < j => \A x \in ToSet(cs[i].sources), y \in ToSet(cs[j].sources) :
                      batchKey(x) = batchKey(y) => Before2(acc, x, y)

Within(bs, k) == IF k \in DOMAIN bs THEN ToSet(bs[k].sources) ELSE {}

Handed(cs) == UNION {ToSet(cs[i].sources) : i \in DOMAIN cs}

Books(bs, cs, acc) ==
    /\ acc \in Seq(Msgs)
    /\ BucketBooks(bs, acc)
    /\ CallBooks(cs, acc)
    /\ \A x \in Handed(cs) : \A y \in Within(bs, batchKey(x)) : Before2(acc, x, y)
    /\ \A m \in ToSet(acc) : Compatible(m) => m \in Handed(cs) \cup Within(bs, batchKey(m))

(* the calls that a flush of the keys in this order adds *)
Spawned(bs, order) == [i \in DOMAIN order |-> mergeBatchSources(bs[order[i]].sources)]

Texts == {x \in Msgs : ~Compatible(x)}

RoomInBuckets == \A k \in DOMAIN buckets : Len(buckets[k].sources) < MaxItems

IInv ==
    /\ Books(buckets, calls, accepted)
    /\ NeverStranded
    /\ RoomInBuckets
    /\ fired \in [Keys -> Nat]
    /\ text \in [Texts -> {"new", "flushed", "run"}]
    /\ \A m \in Texts : m \in ToSet(accepted) <=> text[m] # "new"
    /\ disposed \in BOOLEAN
    /\ FlushedBeforeText
-----------------------------------------------------------------------------
(* An enumeration of a finite set names each of its elements once. *)
LEMMA Enumeration ==
    ASSUME NEW S, IsFiniteSet(S), NEW f \in SetToSeqs(S)
    PROVE  /\ f \in Seq(S) /\ DOMAIN f = 1 .. Len(f)
           /\ \A i, j \in DOMAIN f : i # j => f[i] # f[j]
           /\ \A x \in S : \E i \in DOMAIN f : f[i] = x
<1>1. PICK n : n = Cardinality(S)
  OBVIOUS
<1>2. n \in Nat /\ f \in [1 .. n -> S] /\ \A i, j \in 1 .. n : i # j => f[i] # f[j]
  BY <1>1, FS_CardinalityType DEF SetToSeqs
<1>3. f \in Seq(S) /\ DOMAIN f = 1 .. Len(f) /\ DOMAIN f = 1 .. n
  BY <1>2
<1>4. ASSUME NEW x \in S, \A i \in 1 .. n : f[i] # x PROVE FALSE
  <2>1. PICK T : T = S \ {x}
    OBVIOUS
  <2>2. IsFiniteSet(T) /\ Cardinality(T) = n - 1
    BY <1>1, <2>1, FS_RemoveElement
  <2>3. f \in [1 .. n -> T]
    BY <1>2, <1>4, <2>1
  <2>4. IsFiniteSet(1 .. n) /\ Cardinality(1 .. n) = n
    BY <1>2, FS_Interval
  <2>5. Cardinality(T) < Cardinality(1 .. n)
    BY <1>2, <2>2, <2>4
  <2>6. \E i, j \in 1 .. n : i # j /\ f[i] = f[j]
    BY <2>2, <2>3, <2>4, <2>5, FS_PigeonHole
  <2> QED
    BY <1>2, <2>6
<1> QED
  BY <1>2, <1>3, <1>4

(* There are finitely many keys. *)
LEMMA KeysFinite == IsFiniteSet(Keys)
<1>1. PICK M : M = {x \in Msgs : Compatible(x)}
  OBVIOUS
<1>2. IsFiniteSet(M)
  BY <1>1, MsgsFinite, FS_Subset
<1>3. [m \in M |-> batchKey(m)] \in Surjection(M, Keys)
  BY <1>1 DEF Keys, Surjection
<1> QED
  BY <1>2, <1>3, FS_Surjection

(* Who arrives is later than all who are there, and changes nothing among   *)
(* them.                                                                    *)
LEMMA LaterArrivals ==
    ASSUME NEW acc \in Seq(Msgs), NEW m \in Msgs, NEW x, NEW y
    PROVE  /\ Before2(acc, x, y) => Before2(Append(acc, m), x, y)
           /\ x \in ToSet(acc) => Before2(Append(acc, m), x, m)
           /\ ToSet(Append(acc, m)) = ToSet(acc) \cup {m}
<1>1. PICK new : new = Append(acc, m)
  OBVIOUS
<1>2. /\ DOMAIN acc = 1 .. Len(acc) /\ Len(acc) \in Nat
      /\ DOMAIN new = 1 .. Len(acc) + 1 /\ new[Len(acc) + 1] = m
      /\ \A i \in DOMAIN acc : i \in DOMAIN new /\ i < Len(acc) + 1 /\ new[i] = acc[i]
      /\ Len(acc) + 1 \in DOMAIN new
  BY <1>1
<1>3. Before2(acc, x, y) => Before2(new, x, y)
  BY <1>2 DEF Before2
<1>4. x \in ToSet(acc) => Before2(new, x, m)
  BY <1>2 DEF Before2, ToSet
<1>5. ToSet(new) = ToSet(acc) \cup {m}
  BY <1>2 DEF ToSet
<1> QED
  BY <1>1, <1>3, <1>4, <1>5

(* A message arrives that is not media: the books are as they were. *)
LEMMA ArrivalBooks ==
    ASSUME NEW bs, NEW cs, NEW acc, Books(bs, cs, acc), NEW m \in Msgs, ~Compatible(m)
    PROVE  Books(bs, cs, Append(acc, m))
<1>1. PICK new : new = Append(acc, m)
  OBVIOUS
<1>2. acc \in Seq(Msgs) /\ new \in Seq(Msgs)
  BY <1>1 DEF Books
<1>3. /\ \A x, y : Before2(acc, x, y) => Before2(new, x, y)
      /\ ToSet(new) = ToSet(acc) \cup {m}
  BY <1>1, <1>2, LaterArrivals
<1>4. \A s : Sorted(acc, s) => Sorted(new, s)
  BY <1>3 DEF Sorted
<1>5. BucketBooks(bs, new)
  BY <1>3, <1>4 DEF Books, BucketBooks
<1>6. CallBooks(cs, new)
  BY <1>3, <1>4 DEF Books, CallBooks
<1> QED
  BY <1>1, <1>2, <1>3, <1>5, <1>6 DEF Books

(* flushBucket, for every key of ks: all that the bucket promised of its    *)
(* messages is now true of a call.                                          *)
LEMMA FlushBooks ==
    ASSUME NEW bs, NEW cs, NEW acc, Books(bs, cs, acc), NEW ks,
           NEW order \in SetToSeqs(ks \cap DOMAIN bs),
           NEW new, new = cs \o Spawned(bs, order)
    PROVE  /\ Books(Without(bs, ks), new, acc)
           /\ Handed(cs) \subseteq Handed(new)
           /\ \A k \in ks : Within(bs, k) \subseteq Handed(new)
<1>1. PICK rest : rest = Without(bs, ks)
  OBVIOUS
<1>2. /\ DOMAIN rest = DOMAIN bs \ ks /\ \A k \in DOMAIN rest : rest[k] = bs[k]
      /\ \A k : Within(rest, k) = IF k \in ks THEN {} ELSE Within(bs, k)
  BY <1>1 DEF Without, Within
<1>3. /\ order \in Seq(ks \cap DOMAIN bs) /\ DOMAIN order = 1 .. Len(order)
      /\ \A i, j \in DOMAIN order : i # j => order[i] # order[j]
      /\ \A k \in ks \cap DOMAIN bs : \E i \in DOMAIN order : order[i] = k
  <2>1. IsFiniteSet(ks \cap DOMAIN bs)
    BY KeysFinite, FS_Subset DEF Books, BucketBooks
  <2> QED
    BY <2>1, Enumeration
<1>4. PICK l : l = Len(cs)
  OBVIOUS
<1>5. PICK n : n = Len(order)
  OBVIOUS
<1>6. /\ new \in Seq(Call) /\ l \in Nat /\ n \in Nat /\ DOMAIN cs = 1 .. l /\ DOMAIN order = 1 .. n
      /\ DOMAIN new = 1 .. l + n
      /\ \A i \in 1 .. l : new[i] = cs[i]
      /\ \A i \in 1 .. n : new[l + i].sources = bs[order[i]].sources
  <2>1. PICK tail : tail = Spawned(bs, order)
    OBVIOUS
  <2>2. \A i \in DOMAIN order : mergeBatchSources(bs[order[i]].sources) \in Call
    BY <1>3 DEF mergeBatchSources, Call, Books, BucketBooks, Bucket
  <2>3. /\ tail \in Seq(Call) /\ Len(tail) = n /\ n \in Nat /\ DOMAIN tail = 1 .. n
        /\ \A i \in 1 .. n : tail[i].sources = bs[order[i]].sources
    BY <1>3, <1>5, <2>1, <2>2 DEF Spawned, mergeBatchSources
  <2>4. cs \in Seq(Call) /\ new = cs \o tail
    BY <2>1 DEF Books, CallBooks
  <2>5. l \in Nat /\ DOMAIN cs = 1 .. l /\ DOMAIN order = 1 .. n
    BY <1>3, <1>4, <1>5, <2>4
  <2>6. new \in Seq(Call) /\ Len(new) = l + n
    <3>1. cs \o tail \in Seq(Call) /\ Len(cs \o tail) = Len(cs) + Len(tail)
      BY <2>3, <2>4
    <3> QED
      BY <1>4, <2>3, <2>4, <3>1
  <2>7. \A i \in 1 .. l : new[i] = cs[i]
    BY <1>4, <2>3, <2>4
  <2>8. \A i \in 1 .. n : new[l + i] = tail[i]
    BY <1>4, <2>3, <2>4
  <2>9. DOMAIN new = 1 .. l + n
    BY <2>6
  <2>10. \A i \in 1 .. n : new[l + i].sources = bs[order[i]].sources
    BY <2>3, <2>8
  <2> QED
    BY <2>3, <2>5, <2>6, <2>7, <2>9, <2>10
<1>7. \A i \in DOMAIN new : \/ i \in 1 .. l /\ new[i] = cs[i]
                            \/ \E a \in 1 .. n : i = l + a /\ new[i].sources = bs[order[a]].sources
  <2> SUFFICES ASSUME NEW i \in 1 .. l + n, i \notin 1 .. l
               PROVE  \E a \in 1 .. n : i = l + a /\ new[i].sources = bs[order[a]].sources
    BY <1>6
  <2>1. i - l \in 1 .. n /\ i = l + (i - l)
    BY <1>6
  <2> QED
    BY <1>6, <2>1
<1>8. BucketBooks(rest, acc)
  BY <1>2 DEF Books, BucketBooks
<1>9. CallBooks(new, acc)
  <2>1. ASSUME NEW i \in DOMAIN new
        PROVE  /\ Len(new[i].sources) <= MaxItems /\ Sorted(acc, new[i].sources)
               /\ \A x \in ToSet(new[i].sources) : Compatible(x) /\ x \in ToSet(acc)
    <3>1. CASE i \in 1 .. l /\ new[i] = cs[i]
      BY <1>6, <3>1 DEF Books, CallBooks
    <3>2. ASSUME NEW a \in 1 .. n, new[i].sources = bs[order[a]].sources
          PROVE  /\ Len(new[i].sources) <= MaxItems /\ Sorted(acc, new[i].sources)
                 /\ \A x \in ToSet(new[i].sources) : Compatible(x) /\ x \in ToSet(acc)
      <4>1. order[a] \in DOMAIN bs
        BY <1>3, <1>6
      <4> QED
        BY <3>2, <4>1 DEF Books, BucketBooks
    <3> QED
      BY <1>7, <3>1, <3>2
  <2>2. ASSUME NEW i \in DOMAIN new, NEW j \in DOMAIN new, i < j,
               NEW x \in ToSet(new[i].sources), NEW y \in ToSet(new[j].sources),
               batchKey(x) = batchKey(y)
        PROVE  Before2(acc, x, y)
    <3>1. CASE j \in 1 .. l
      <4>1. i \in 1 .. l
        BY <1>6, <2>2, <3>1
      <4> QED
        BY <1>6, <2>2, <3>1, <4>1 DEF Books, CallBooks
    <3>2. ASSUME NEW b \in 1 .. n, j = l + b, new[j].sources = bs[order[b]].sources
          PROVE  Before2(acc, x, y)
      <4>1. order[b] \in DOMAIN bs
        BY <1>3, <1>6
      <4>2. batchKey(y) = order[b] /\ y \in Within(bs, batchKey(x))
        BY <2>2, <3>2, <4>1 DEF Books, BucketBooks, Within
      <4>3. CASE i \in 1 .. l /\ new[i] = cs[i]
        <5>1. x \in Handed(cs)
          BY <1>6, <4>3 DEF Handed
        <5> QED
          BY <4>2, <5>1 DEF Books
      <4>4. ASSUME NEW a \in 1 .. n, i = l + a, new[i].sources = bs[order[a]].sources
            PROVE  FALSE
        <5>1. order[a] \in DOMAIN bs /\ a # b
          <6>1. l + a < l + b
            BY <2>2, <3>2, <4>4
          <6> QED
            BY <1>3, <1>6, <6>1
        <5>2. batchKey(x) = order[a]
          BY <4>4, <5>1 DEF Books, BucketBooks
        <5>3. order[a] = order[b]
          BY <2>2, <4>2, <5>2
        <5>4. a \in DOMAIN order /\ b \in DOMAIN order
          BY <1>6
        <5> QED
          BY <1>3, <5>1, <5>3, <5>4
      <4> QED
        BY <1>7, <4>3, <4>4
    <3> QED
      BY <1>7, <3>1, <3>2
  <2> QED
    BY <1>6, <2>1, <2>2 DEF CallBooks
<1>10. Handed(cs) \subseteq Handed(new) /\ \A k \in ks : Within(bs, k) \subseteq Handed(new)
  <2>1. Handed(cs) \subseteq Handed(new)
    <3>1. \A i \in DOMAIN cs : i \in DOMAIN new /\ new[i] = cs[i]
      BY <1>6
    <3> QED
      BY <3>1 DEF Handed
  <2>2. ASSUME NEW k \in ks, NEW x \in Within(bs, k) PROVE x \in Handed(new)
    <3>1. k \in DOMAIN bs /\ x \in ToSet(bs[k].sources)
      BY <2>2 DEF Within
    <3>2. PICK a \in 1 .. n : order[a] = k
      BY <1>3, <1>6, <3>1
    <3>3. l + a \in DOMAIN new /\ new[l + a].sources = bs[k].sources
      BY <1>6, <3>2
    <3> QED
      BY <3>1, <3>3 DEF Handed
  <2> QED
    BY <2>1, <2>2
<1>11. ASSUME NEW x \in Handed(new), NEW y \in Within(rest, batchKey(x)) PROVE Before2(acc, x, y)
  <2>1. batchKey(x) \notin ks /\ y \in Within(bs, batchKey(x))
    BY <1>2, <1>11
  <2>2. PICK i \in DOMAIN new : x \in ToSet(new[i].sources)
    BY DEF Handed
  <2>3. CASE i \in 1 .. l /\ new[i] = cs[i]
    <3>1. x \in Handed(cs)
      BY <1>6, <2>2, <2>3 DEF Handed
    <3> QED
      BY <2>1, <3>1 DEF Books
  <2>4. ASSUME NEW a \in 1 .. n, new[i].sources = bs[order[a]].sources PROVE FALSE
    <3>1. order[a] \in DOMAIN bs /\ order[a] \in ks
      BY <1>3, <1>6
    <3>2. batchKey(x) = order[a]
      BY <2>2, <2>4, <3>1 DEF Books, BucketBooks
    <3> QED
      BY <2>1, <3>1, <3>2
  <2> QED
    BY <1>7, <2>3, <2>4
<1>12. \A m \in ToSet(acc) : Compatible(m) => m \in Handed(new) \cup Within(rest, batchKey(m))
  BY <1>2, <1>10 DEF Books
<1>13. acc \in Seq(Msgs)
  BY DEF Books
<1> QED
  BY <1>1, <1>8, <1>9, <1>10, <1>11, <1>12, <1>13 DEF Books

(* Push appends to the bucket of the key, or creates it. *)
LEMMA AppendBooks ==
    ASSUME Books(buckets, calls, accepted), NEW m \in Msgs, Compatible(m), m \notin ToSet(accepted),
           RoomInBuckets, NEW k, k = batchKey(m), NEW bs, bs = Appended(k, m)
    PROVE  /\ Books(bs, calls, Append(accepted, m))
           /\ DOMAIN bs = DOMAIN buckets \cup {k}
           /\ bs[k].timer = "armed" /\ \A q \in DOMAIN buckets \ {k} : bs[q] = buckets[q]
<1>1. PICK new, old, s : /\ new = Append(accepted, m)
                         /\ old = IF k \in DOMAIN buckets THEN buckets[k].sources ELSE <<>>
                         /\ s = Append(old, m)
  OBVIOUS
<1>2. k \in Keys
  BY DEF Keys
<1>3. /\ DOMAIN bs = DOMAIN buckets \cup {k} /\ bs[k] = [sources |-> s, timer |-> "armed"]
      /\ \A q \in DOMAIN buckets \ {k} : bs[q] = buckets[q]
  BY <1>1 DEF Appended
<1>4. /\ old \in Seq(Msgs) /\ Len(old) < MaxItems /\ Sorted(accepted, old)
      /\ ToSet(old) = Within(buckets, k)
      /\ \A x \in ToSet(old) : Compatible(x) /\ batchKey(x) = k /\ x \in ToSet(accepted)
  <2>1. CASE k \in DOMAIN buckets
    BY <1>1, <2>1 DEF Books, BucketBooks, Bucket, Within, RoomInBuckets
  <2>2. CASE k \notin DOMAIN buckets
    BY <1>1, <2>2, MaxItemsFilled DEF Sorted, ToSet, Within
  <2> QED
    BY <2>1, <2>2
<1>5. accepted \in Seq(Msgs) /\ new \in Seq(Msgs)
  BY <1>1 DEF Books
<1>6. /\ \A x, y : Before2(accepted, x, y) => Before2(new, x, y)
      /\ \A x \in ToSet(accepted) : Before2(new, x, m)
      /\ ToSet(new) = ToSet(accepted) \cup {m}
  BY <1>1, <1>5, LaterArrivals
<1>7. \A q : Sorted(accepted, q) => Sorted(new, q)
  BY <1>6 DEF Sorted
<1>8. /\ s \in Seq(Msgs) /\ s # <<>> /\ Len(s) <= MaxItems /\ ToSet(s) = ToSet(old) \cup {m}
      /\ Sorted(new, s)
  <2>1. /\ s \in Seq(Msgs) /\ Len(s) = Len(old) + 1 /\ DOMAIN old = 1 .. Len(old) /\ Len(old) \in Nat
        /\ DOMAIN s = 1 .. Len(old) + 1 /\ s[Len(old) + 1] = m
        /\ \A i \in 1 .. Len(old) : s[i] = old[i]
    BY <1>1, <1>4
  <2>2. s # <<>> /\ Len(s) <= MaxItems
    BY <1>1, <1>4, <2>1, MaxItemsFilled
  <2>3. ToSet(s) = ToSet(old) \cup {m}
    BY <2>1 DEF ToSet
  <2>4. ASSUME NEW i \in DOMAIN s, NEW j \in DOMAIN s, i < j PROVE Before2(new, s[i], s[j])
    <3>1. i \in 1 .. Len(old) /\ s[i] = old[i] /\ old[i] \in ToSet(old)
      BY <2>1, <2>4 DEF ToSet
    <3>2. CASE j \in 1 .. Len(old)
      BY <1>4, <1>6, <2>1, <2>4, <3>1, <3>2 DEF Sorted
    <3>3. CASE j = Len(old) + 1
      BY <1>4, <1>6, <2>1, <3>1, <3>3
    <3> QED
      BY <2>1, <2>4, <3>2, <3>3
  <2> QED
    BY <2>1, <2>2, <2>3, <2>4 DEF Sorted
<1>9. BucketBooks(bs, new)
  <2>1. ASSUME NEW q \in DOMAIN bs
        PROVE  /\ bs[q] \in Bucket /\ bs[q].sources # <<>> /\ Len(bs[q].sources) <= MaxItems
               /\ Sorted(new, bs[q].sources)
               /\ \A x \in ToSet(bs[q].sources) : Compatible(x) /\ batchKey(x) = q /\ x \in ToSet(new)
    <3>1. CASE q = k
      BY <1>3, <1>4, <1>6, <1>8, <3>1 DEF Bucket
    <3>2. CASE q # k
      BY <1>3, <1>6, <1>7, <2>1, <3>2 DEF Books, BucketBooks
    <3> QED
      BY <3>1, <3>2
  <2> QED
    BY <1>2, <1>3, <2>1 DEF Books, BucketBooks
<1>10. CallBooks(calls, new)
  BY <1>6, <1>7 DEF Books, CallBooks
<1>11. \A q : Within(bs, q) = IF q = k THEN Within(buckets, k) \cup {m} ELSE Within(buckets, q)
  <2>1. Within(bs, k) = Within(buckets, k) \cup {m}
    <3>1. k \in DOMAIN bs /\ bs[k].sources = s
      BY <1>3
    <3> QED
      BY <1>4, <1>8, <3>1 DEF Within
  <2>2. \A q : q # k => Within(bs, q) = Within(buckets, q)
    BY <1>3 DEF Within
  <2> QED
    BY <2>1, <2>2
<1>12. Handed(calls) \subseteq ToSet(accepted)
  BY DEF Handed, Books, CallBooks
<1>13. ASSUME NEW x \in Handed(calls), NEW y \in Within(bs, batchKey(x)) PROVE Before2(new, x, y)
  <2>1. CASE y = m
    BY <1>6, <1>12, <2>1
  <2>2. CASE y \in Within(buckets, batchKey(x))
    BY <1>6, <2>2 DEF Books
  <2> QED
    BY <1>11, <2>1, <2>2
<1>14. \A x \in ToSet(new) : Compatible(x) => x \in Handed(calls) \cup Within(bs, batchKey(x))
  BY <1>6, <1>11 DEF Books
<1> QED
  BY <1>1, <1>3, <1>5, <1>9, <1>10, <1>13, <1>14 DEF Books
-----------------------------------------------------------------------------
(* Nothing has arrived. *)
LEMMA InitIInv == Init => IInv
<1> SUFFICES ASSUME Init PROVE IInv
  OBVIOUS
<1>1. /\ DOMAIN buckets = {} /\ calls = <<>> /\ accepted = <<>> /\ ToSet(<<>>) = {}
      /\ DOMAIN <<>> = {}
  BY DEF Init, ToSet
<1>2. Books(buckets, calls, accepted)
  BY <1>1 DEF Books, BucketBooks, CallBooks, Handed
<1>3. /\ fired \in [Keys -> Nat] /\ text \in [Texts -> {"new", "flushed", "run"}]
      /\ \A m \in Texts : text[m] = "new"
  BY DEF Init, Texts
<1>4. disposed \in BOOLEAN
  BY DEF Init
<1>5. FlushedBeforeText
  <2>1. DOMAIN text = Texts
    BY <1>3
  <2> QED
    BY <1>3, <2>1 DEF FlushedBeforeText
<1> QED
  BY <1>1, <1>2, <1>3, <1>4, <1>5 DEF IInv, NeverStranded, RoomInBuckets

(* the definitions of the model, said of the books *)
LEMMA Readings ==
    /\ \A k : InBucket(k) = Within(buckets, k)
    /\ Flushed = Handed(calls)
    /\ \A x, y : Earlier(x, y) <=> Before2(accepted, x, y)
    /\ \A s : InOrder(s) <=> Sorted(accepted, s)
BY DEF InBucket, Within, Flushed, Handed, Earlier, Before2, InOrder, Sorted

(* The texts that flushed earlier are not concerned by what arrives later,  *)
(* as the order of arrival up to them does not change.                      *)
LEMMA TextsKept ==
    ASSUME IInv, NEW t \in Texts, text[t] # "new", Handed(calls) \subseteq Handed(calls'),
           \/ accepted' = accepted
           \/ \E m \in Msgs : accepted' = Append(accepted, m) /\ m # t
    PROVE  (Before(t) \subseteq Flushed)'
<1>1. Before(t) \subseteq Flushed
  BY DEF IInv, FlushedBeforeText, Texts
<1>2. Flushed \subseteq Flushed'
  BY DEF Flushed, Handed
<1>3. accepted \in Seq(Msgs)
  BY DEF IInv, Books
<1>4. \A x : Earlier(x, t)' => Earlier(x, t)
  <2>1. CASE accepted' = accepted
    BY <2>1 DEF Earlier
  <2>2. ASSUME NEW m \in Msgs, accepted' = Append(accepted, m), m # t
        PROVE  \A x : Earlier(x, t)' => Earlier(x, t)
    <3>1. /\ DOMAIN accepted = 1 .. Len(accepted) /\ Len(accepted) \in Nat
          /\ DOMAIN accepted' = 1 .. Len(accepted) + 1 /\ accepted'[Len(accepted) + 1] = m
          /\ \A i \in 1 .. Len(accepted) : accepted'[i] = accepted[i]
      BY <1>3, <2>2
    <3> SUFFICES ASSUME NEW x, NEW i \in DOMAIN accepted', NEW j \in DOMAIN accepted',
                        i < j, accepted'[i] = x, accepted'[j] = t
                 PROVE  Earlier(x, t)
      BY DEF Earlier
    <3>2. j # Len(accepted) + 1
      BY <2>2, <3>1
    <3>3. j \in 1 .. Len(accepted) /\ i \in 1 .. Len(accepted)
      BY <3>1, <3>2
    <3> QED
      BY <3>1, <3>3 DEF Earlier
  <2> QED
    BY <2>1, <2>2
<1>5. Before(t)' \subseteq Before(t)
  BY <1>4 DEF Before
<1> QED
  BY <1>1, <1>2, <1>5

(* A step that flushes the keys ks, and accepts or starts nothing new. *)
LEMMA FlushIInv ==
    ASSUME IInv, NEW ks, flushBuckets(buckets, ks),
           UNCHANGED <<text, accepted>>, disposed' \in BOOLEAN,
           fired' \in [Keys -> Nat], \A k \in Keys \ ks : fired'[k] = fired[k]
    PROVE  IInv'
<1>1. PICK order \in SetToSeqs(ks \cap DOMAIN buckets) :
         calls' = calls \o Spawned(buckets, order)
  BY DEF flushBuckets, Spawned
<1>2. buckets' = Without(buckets, ks)
  BY DEF flushBuckets
<1>3. Books(buckets, calls, accepted)
  BY DEF IInv
<1>4. Books(buckets', calls', accepted') /\ Handed(calls) \subseteq Handed(calls')
  BY <1>1, <1>2, <1>3, FlushBooks
<1>5. DOMAIN buckets' = DOMAIN buckets \ ks /\ \A k \in DOMAIN buckets' : buckets'[k] = buckets[k]
  BY <1>2 DEF Without
<1>6. DOMAIN buckets \subseteq Keys
  BY DEF IInv, Books, BucketBooks
<1>7. NeverStranded' /\ RoomInBuckets'
  BY <1>5, <1>6 DEF IInv, NeverStranded, RoomInBuckets
<1>8. FlushedBeforeText'
  <2>1. DOMAIN text' = Texts /\ text' = text
    BY DEF IInv
  <2> QED
    BY <1>4, <2>1, TextsKept DEF FlushedBeforeText
<1> QED
  BY <1>4, <1>7, <1>8 DEF IInv

(* A media message joins its bucket, and flushes it if it is full now. *)
LEMMA PushIInv == ASSUME IInv, NEW m \in Msgs, Push(m) PROVE IInv'
<1>1. PICK k, bs : k = batchKey(m) /\ bs = Appended(k, m)
  OBVIOUS
<1>2. /\ Compatible(m) /\ m \notin ToSet(accepted) /\ accepted' = Append(accepted, m)
      /\ UNCHANGED <<fired, text, disposed>>
      /\ \/ flushBuckets(bs, {k})
         \/ ~Full(bs[k].sources) /\ buckets' = bs /\ calls' = calls
  BY <1>1 DEF Push
<1>3. /\ Books(bs, calls, accepted') /\ DOMAIN bs = DOMAIN buckets \cup {k}
      /\ bs[k].timer = "armed" /\ \A q \in DOMAIN buckets \ {k} : bs[q] = buckets[q]
  <2>1. Books(buckets, calls, accepted) /\ RoomInBuckets
    BY DEF IInv
  <2>2. Compatible(m) /\ m \notin ToSet(accepted)
    BY <1>2
  <2>3. Books(bs, calls, Append(accepted, m)) /\ DOMAIN bs = DOMAIN buckets \cup {k}
        /\ bs[k].timer = "armed" /\ \A q \in DOMAIN buckets \ {k} : bs[q] = buckets[q]
    BY <1>1, <2>1, <2>2, AppendBooks
  <2> QED
    BY <1>2, <2>3
<1>4. /\ Books(buckets', calls', accepted') /\ Handed(calls) \subseteq Handed(calls')
      /\ NeverStranded' /\ RoomInBuckets'
  <2>1. CASE flushBuckets(bs, {k})
    <3>1. PICK order \in SetToSeqs({k} \cap DOMAIN bs) :
             calls' = calls \o Spawned(bs, order)
      BY <2>1 DEF flushBuckets, Spawned
    <3>2. buckets' = Without(bs, {k})
      BY <2>1 DEF flushBuckets
    <3>3. Books(buckets', calls', accepted') /\ Handed(calls) \subseteq Handed(calls')
      BY <1>3, <3>1, <3>2, FlushBooks
    <3>4. DOMAIN buckets' \subseteq DOMAIN buckets /\ \A q \in DOMAIN buckets' : buckets'[q] = buckets[q]
      BY <1>3, <3>2 DEF Without
    <3> QED
      BY <1>2, <3>3, <3>4 DEF IInv, NeverStranded, RoomInBuckets
  <2>2. CASE ~Full(bs[k].sources) /\ buckets' = bs /\ calls' = calls
    <3>1. Len(bs[k].sources) < MaxItems
      BY <1>3, <2>2, MaxItemsFilled DEF Full, Books, BucketBooks, Bucket
    <3> QED
      BY <1>2, <1>3, <2>2, <3>1 DEF IInv, NeverStranded, RoomInBuckets
  <2> QED
    BY <1>2, <2>1, <2>2
<1>5. m \notin Texts
  BY <1>2 DEF Texts
<1>6. FlushedBeforeText'
  <2>1. DOMAIN text' = Texts /\ text' = text
    BY <1>2 DEF IInv
  <2> QED
    BY <1>2, <1>4, <1>5, <2>1, TextsKept DEF FlushedBeforeText
<1>7. \A t \in Texts : t \in ToSet(accepted') <=> text'[t] # "new"
  <2>1. ToSet(accepted') = ToSet(accepted) \cup {m}
    BY <1>2, LaterArrivals DEF IInv, Books
  <2> QED
    BY <1>2, <1>5, <2>1 DEF IInv
<1> QED
  BY <1>2, <1>4, <1>6, <1>7 DEF IInv

(* A text message flushes all buckets of its conversation. *)
LEMMA TextIInv == ASSUME IInv, NEW m \in Msgs, FlushIncompatibleFor(m) PROVE IInv'
<1>1. PICK ks : ks = ChatKeys(Conv[m])
  OBVIOUS
<1>2. /\ m \in Texts /\ text[m] = "new" /\ text' = [text EXCEPT ![m] = "flushed"]
      /\ accepted' = Append(accepted, m) /\ flushBuckets(buckets, ks)
      /\ UNCHANGED <<fired, disposed>> /\ ~Compatible(m)
  BY <1>1 DEF FlushIncompatibleFor, Texts
<1>3. PICK order \in SetToSeqs(ks \cap DOMAIN buckets) :
         calls' = calls \o Spawned(buckets, order)
  BY <1>2 DEF flushBuckets, Spawned
<1>4. buckets' = Without(buckets, ks)
  BY <1>2 DEF flushBuckets
<1>5. accepted \in Seq(Msgs) /\ Books(buckets, calls, accepted') /\ Books(buckets, calls, accepted)
  BY <1>2, ArrivalBooks DEF IInv, Books
<1>6. /\ Books(buckets', calls', accepted') /\ Handed(calls) \subseteq Handed(calls')
      /\ \A k \in ks : Within(buckets, k) \subseteq Handed(calls')
  BY <1>3, <1>4, <1>5, FlushBooks
<1>7. /\ NeverStranded' /\ RoomInBuckets'
  BY <1>2, <1>4 DEF IInv, NeverStranded, RoomInBuckets, Without
<1>8. /\ text' \in [Texts -> {"new", "flushed", "run"}] /\ text'[m] = "flushed"
      /\ \A t \in Texts \ {m} : text'[t] = text[t]
  BY <1>2 DEF IInv
<1>9. ToSet(accepted') = ToSet(accepted) \cup {m}
  BY <1>2, <1>5, LaterArrivals
<1>10. \A t \in Texts : t \in ToSet(accepted') <=> text'[t] # "new"
  BY <1>8, <1>9 DEF IInv
<1>11. ASSUME NEW x \in Before(m)' PROVE x \in Flushed'
  <2>1. x \in Msgs /\ Compatible(x) /\ Conv[x] = Conv[m] /\ x \in ToSet(accepted')
    BY <1>11 DEF Before, Earlier, ToSet
  <2>2. x \in ToSet(accepted)
    BY <1>2, <1>9, <2>1
  <2>3. x \in Handed(calls) \cup Within(buckets, batchKey(x))
    BY <1>5, <2>1, <2>2 DEF Books
  <2>4. CASE x \in Within(buckets, batchKey(x))
    <3>1. batchKey(x) \in ks
      BY <1>1, <2>1, <2>4 DEF ChatKeys, isChatKey, Within, batchKey
    <3> QED
      BY <1>6, <2>4, <3>1 DEF Flushed, Handed
  <2>5. CASE x \in Handed(calls)
    BY <1>6, <2>5 DEF Flushed, Handed
  <2> QED
    BY <2>3, <2>4, <2>5
<1>12. FlushedBeforeText'
  <2>1. DOMAIN text' = Texts
    BY <1>8
  <2>2. ASSUME NEW t \in Texts, t # m, text'[t] # "new" PROVE (Before(t) \subseteq Flushed)'
    BY <1>2, <1>6, <1>8, <2>2, TextsKept
  <2> QED
    BY <1>11, <2>1, <2>2 DEF FlushedBeforeText
<1>13. disposed' \in BOOLEAN /\ fired' \in [Keys -> Nat]
  BY <1>2 DEF IInv
<1> QED
  BY <1>6, <1>7, <1>8, <1>10, <1>12, <1>13 DEF IInv

(* A timer runs out: its callback waits for the mutex from now on. *)
LEMMA FireIInv == ASSUME IInv, NEW k \in Keys, Fire(k) PROVE IInv'
<1>1. /\ k \in DOMAIN buckets /\ buckets' = [buckets EXCEPT ![k].timer = "fired"]
      /\ fired' = [fired EXCEPT ![k] = @ + 1] /\ fired \in [Keys -> Nat]
      /\ UNCHANGED <<calls, text, disposed, accepted>>
  BY DEF Fire, IInv
<1>2. /\ DOMAIN buckets \subseteq Keys /\ \A q \in DOMAIN buckets : buckets[q] \in Bucket
  BY DEF IInv, Books, BucketBooks
<1>3. /\ DOMAIN buckets' = DOMAIN buckets
      /\ \A q \in DOMAIN buckets : buckets'[q] \in Bucket /\ buckets'[q].sources = buckets[q].sources
      /\ \A q \in DOMAIN buckets \ {k} : buckets'[q] = buckets[q]
  <2>1. /\ buckets'[k] = [buckets[k] EXCEPT !.timer = "fired"] /\ DOMAIN buckets' = DOMAIN buckets
        /\ \A q \in DOMAIN buckets \ {k} : buckets'[q] = buckets[q]
    BY <1>1
  <2>2. buckets'[k] \in Bucket /\ buckets'[k].sources = buckets[k].sources
    BY <1>1, <1>2, <2>1 DEF Bucket
  <2> QED
    BY <1>2, <2>1, <2>2
<1>4. Books(buckets', calls', accepted')
  <2>1. BucketBooks(buckets', accepted)
    BY <1>2, <1>3 DEF IInv, Books, BucketBooks
  <2>2. \A q : Within(buckets', q) = Within(buckets, q)
    BY <1>3 DEF Within
  <2> QED
    BY <1>1, <2>1, <2>2 DEF IInv, Books
<1>5. NeverStranded' /\ RoomInBuckets' /\ fired' \in [Keys -> Nat]
  BY <1>1, <1>2, <1>3 DEF IInv, NeverStranded, RoomInBuckets
<1>6. FlushedBeforeText'
  BY <1>1 DEF IInv, FlushedBeforeText, Before, Flushed, Earlier
<1> QED
  BY <1>1, <1>4, <1>5, <1>6 DEF IInv

(* A callback, perhaps of an earlier bucket, flushes its key. *)
LEMMA CallbackIInv == ASSUME IInv, NEW k \in Keys, Callback(k) PROVE IInv'
<1>1. /\ fired[k] > 0 /\ fired' = [fired EXCEPT ![k] = @ - 1] /\ fired \in [Keys -> Nat]
      /\ flushBuckets(buckets, {k}) /\ UNCHANGED <<text, disposed, accepted>>
  BY DEF Callback, IInv
<1>2. fired' \in [Keys -> Nat] /\ \A q \in Keys \ {k} : fired'[q] = fired[q]
  BY <1>1
<1>3. disposed' \in BOOLEAN
  BY <1>1 DEF IInv
<1> QED
  BY <1>1, <1>2, <1>3, FlushIInv

(* Dispose flushes every bucket. *)
LEMMA DisposeIInv == ASSUME IInv, Dispose PROVE IInv'
<1>1. PICK ks : ks = DOMAIN buckets
  OBVIOUS
<1>2. flushBuckets(buckets, ks) /\ UNCHANGED <<text, accepted>>
  BY <1>1 DEF Dispose
<1>3. disposed' \in BOOLEAN
  BY DEF Dispose
<1>4. fired' \in [Keys -> Nat] /\ \A q \in Keys \ ks : fired'[q] = fired[q]
  BY DEF Dispose, IInv
<1> QED
  BY <1>2, <1>3, <1>4, FlushIInv

(* A handler call begins. *)
LEMMA BeginIInv == ASSUME IInv, NEW i \in Calls, Begin(i) PROVE IInv'
<1>1. /\ i \in DOMAIN calls /\ calls' = [calls EXCEPT ![i].phase = "run"] /\ calls \in Seq(Call)
      /\ UNCHANGED <<buckets, fired, text, disposed, accepted>>
  BY DEF Begin, IInv, Books, CallBooks
<1>2. /\ calls' \in Seq(Call) /\ DOMAIN calls' = DOMAIN calls
      /\ \A j \in DOMAIN calls : calls'[j].sources = calls[j].sources
  <2>1. /\ DOMAIN calls' = DOMAIN calls /\ calls'[i] = [calls[i] EXCEPT !.phase = "run"]
        /\ \A j \in DOMAIN calls \ {i} : calls'[j] = calls[j]
    BY <1>1
  <2>2. calls[i] \in Call
    BY <1>1
  <2>3. calls'[i] \in Call /\ calls'[i].sources = calls[i].sources
    BY <2>1, <2>2 DEF Call
  <2> QED
    BY <1>1, <2>1, <2>3
<1>3. CallBooks(calls', accepted)
  BY <1>2 DEF IInv, Books, CallBooks
<1>4. Handed(calls') = Handed(calls)
  BY <1>2 DEF Handed
<1>5. Books(buckets', calls', accepted')
  BY <1>1, <1>3, <1>4 DEF IInv, Books
<1>6. FlushedBeforeText'
  <2>1. Flushed' = Flushed
    BY <1>4 DEF Flushed, Handed
  <2> QED
    BY <1>1, <2>1 DEF IInv, FlushedBeforeText, Before, Earlier
<1> QED
  BY <1>1, <1>5, <1>6 DEF IInv, NeverStranded, RoomInBuckets

(* The goroutine of a text message goes on to the handler. *)
LEMMA HandleTextIInv == ASSUME IInv, NEW m \in Msgs, HandleText(m) PROVE IInv'
<1>1. /\ m \in Texts /\ text[m] = "flushed" /\ text' = [text EXCEPT ![m] = "run"]
      /\ UNCHANGED <<buckets, fired, calls, disposed, accepted>>
  BY DEF HandleText, Texts
<1>2. /\ text' \in [Texts -> {"new", "flushed", "run"}] /\ DOMAIN text' = DOMAIN text
      /\ \A t \in Texts : text'[t] # "new" <=> text[t] # "new"
      /\ DOMAIN text = Texts
  BY <1>1 DEF IInv
<1>3. FlushedBeforeText'
  BY <1>1, <1>2 DEF IInv, FlushedBeforeText, Before, Earlier, Flushed
<1> QED
  BY <1>1, <1>2, <1>3 DEF IInv, NeverStranded, RoomInBuckets

(* Every critical section keeps the books. *)
LEMMA NextIInv == IInv /\ [Next]_vars => IInv'
<1> SUFFICES ASSUME IInv, [Next]_vars PROVE IInv'
  OBVIOUS
<1>1. ASSUME NEW m \in Msgs, Push(m) \/ FlushIncompatibleFor(m) \/ HandleText(m) PROVE IInv'
  BY <1>1, PushIInv, TextIInv, HandleTextIInv
<1>2. ASSUME NEW k \in Keys, Fire(k) \/ Callback(k) PROVE IInv'
  BY <1>2, FireIInv, CallbackIInv
<1>3. ASSUME NEW i \in Calls, Begin(i) PROVE IInv'
  BY <1>3, BeginIInv
<1>4. CASE UNCHANGED vars
  BY <1>4 DEF vars, IInv, NeverStranded, RoomInBuckets, FlushedBeforeText, Before, Earlier, Flushed
<1> QED
  BY <1>1, <1>2, <1>3, <1>4, DisposeIInv DEF Next

(* Buckets, calls and the order of arrival agree in every state. *)
THEOREM BooksKept == Spec => []IInv
BY InitIInv, NextIInv, PTL DEF Spec

(* For any messages, conversations and types, nothing is lost, doubled or   *)
(* reordered between Push and the handler goroutines, and a text message    *)
(* finds all earlier media of its conversation handed over.                 *)
THEOREM OrderKept == Spec => []FlushKeepsOrder
<1>1. IInv => FlushKeepsOrder
  <2> SUFFICES ASSUME IInv PROVE FlushKeepsOrder
    OBVIOUS
  <2>1. NothingLost
    BY Readings DEF IInv, Books, NothingLost
  <2>2. OrderWithinKey
    BY Readings DEF IInv, Books, BucketBooks, CallBooks, OrderWithinKey
  <2> QED
    BY <2>1, <2>2 DEF IInv, FlushKeepsOrder
<1> QED
  BY <1>1, BooksKept, PTL

(* For any limit, every waiting bucket has a timer or a callback that will  *)
(* flush it, is below the limit, and no handler call is above it.           *)
THEOREM BucketsKept == Spec => []BucketsWellKept
<1>1. IInv => BucketsWellKept
  <2> SUFFICES ASSUME IInv PROVE BucketsWellKept
    OBVIOUS
  <2>1. /\ \A k \in DOMAIN buckets : /\ buckets[k].sources \in Seq(Msgs) \ {<<>>}
                                     /\ buckets[k].timer \in {"armed", "fired"}
        /\ DOMAIN buckets \subseteq Keys
    BY DEF IInv, Books, BucketBooks, Bucket
  <2>2. \A i \in DOMAIN calls : calls[i].phase \in {"spawned", "run"} /\ Len(calls[i].sources) <= MaxItems
    <3>1. calls \in Seq(Call) /\ \A i \in DOMAIN calls : Len(calls[i].sources) <= MaxItems
      BY DEF IInv, Books, CallBooks
    <3>2. \A i \in DOMAIN calls : calls[i] \in Call
      BY <3>1
    <3> QED
      BY <3>1, <3>2 DEF Call
  <2>3. TypeOK
    <3>1. disposed \in BOOLEAN
      BY DEF IInv
    <3>2. /\ fired \in [Keys -> Nat] /\ accepted \in Seq(Msgs)
          /\ text \in [{x \in Msgs : ~Compatible(x)} -> {"new", "flushed", "run"}]
      BY DEF IInv, Texts, Books
    <3> QED
      BY <2>1, <2>2, <3>1, <3>2 DEF TypeOK
  <2>4. WithinMaxItems
    BY <2>2 DEF WithinMaxItems, IInv, RoomInBuckets
  <2> QED
    BY <2>3, <2>4 DEF BucketsWellKept, IInv
<1> QED
  BY <1>1, BooksKept, PTL
=============================================================================
