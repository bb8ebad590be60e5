-------------------------- MODULE CacheNodeProofs --------------------------
(***************************************************************************)
(* The caches for any number of nodes, keys and calls: every cache is a     *)
(* dictionary, it grows over its capacity by fetched lines only, two nodes  *)
(* own a key only while an invalidation is on its way or after one was lost,*)
(* and with one call at a time the copies of a key whose last put was heard *)
(* by all are coherent and reads return what was put.                       *)
(***************************************************************************)
EXTENDS CacheNode, SequenceTheorems, FiniteSetTheorems, TLAPS

(* The OrderedDict *)

Lines(s) == {s[i] : i \in DOMAIN s}

\* A sequence of lines with one line per key.
Dict(s) == s \in Seq(Line) /\ \A i, j \in DOMAIN s : s[i].key = s[j].key => i = j

Others(s, k) == {l \in Lines(s) : l.key # k}

LEMMA RemoveAtIs ==
  ASSUME NEW S, NEW s \in Seq(S), NEW j \in 1 .. Len(s)
  PROVE  /\ RemoveAt(s, j) \in Seq(S) /\ Len(RemoveAt(s, j)) = Len(s) - 1
         /\ \A i \in 1 .. Len(s) - 1 :
              RemoveAt(s, j)[i] = IF i < j THEN s[i] ELSE s[i + 1]
<1>. DEFINE a == SubSeq(s, 1, j - 1)
            b == SubSeq(s, j + 1, Len(s))
<1>1. Len(s) \in Nat /\ j \in Nat /\ \A i \in 1 .. Len(s) : s[i] \in S
  BY LenProperties, ElementOfSeq
<1>2. a \in Seq(S) /\ Len(a) = j - 1 /\ \A i \in 1 .. j - 1 : a[i] = s[i]
  <2>1. 1 \in Int /\ j - 1 \in Int /\ \A i \in 1 .. j - 1 : s[i] \in S
    BY <1>1
  <2>2. /\ a \in Seq(S) /\ Len(a) = IF 1 <= j - 1 THEN j - 1 - 1 + 1 ELSE 0
        /\ \A i \in 1 .. j - 1 - 1 + 1 : a[i] = s[1 + i - 1]
    BY <2>1, SubSeqProperties
  <2>3. QED
    BY <1>1, <2>2
<1>3. b \in Seq(S) /\ Len(b) = Len(s) - j /\ \A i \in 1 .. Len(s) - j : b[i] = s[j + i]
  <2>1. j + 1 \in Int /\ Len(s) \in Int /\ \A i \in j + 1 .. Len(s) : s[i] \in S
    BY <1>1
  <2>2. /\ b \in Seq(S) /\ Len(b) = IF j + 1 <= Len(s) THEN Len(s) - (j + 1) + 1 ELSE 0
        /\ \A i \in 1 .. Len(s) - (j + 1) + 1 : b[i] = s[j + 1 + i - 1]
    BY <2>1, SubSeqProperties
  <2>3. QED
    BY <1>1, <2>2
<1>. HIDE DEF a, b
<1>4. /\ a \o b \in Seq(S) /\ Len(a \o b) = Len(s) - 1
      /\ \A i \in 1 .. Len(s) - 1 :
           (a \o b)[i] = IF i <= j - 1 THEN a[i] ELSE b[i - (j - 1)]
  <2>1. /\ a \o b \in Seq(S) /\ Len(a \o b) = Len(a) + Len(b)
        /\ \A i \in 1 .. Len(a) + Len(b) :
             (a \o b)[i] = IF i <= Len(a) THEN a[i] ELSE b[i - Len(a)]
    BY <1>2, <1>3, ConcatProperties
  <2>2. Len(a) = j - 1 /\ Len(a) + Len(b) = Len(s) - 1
    BY <1>1, <1>2, <1>3
  <2>3. QED
    BY <2>1, <2>2
<1>5. ASSUME NEW i \in 1 .. Len(s) - 1
      PROVE  (a \o b)[i] = IF i < j THEN s[i] ELSE s[i + 1]
  <2>1. CASE i < j
    BY <1>1, <1>2, <1>4, <2>1
  <2>2. CASE ~(i < j)
    <3>1. i - (j - 1) \in 1 .. Len(s) - j /\ j + (i - (j - 1)) = i + 1
      BY <1>1, <2>2
    <3>2. (a \o b)[i] = b[i - (j - 1)]
      BY <1>1, <1>4, <2>2
    <3>3. b[i - (j - 1)] = s[j + (i - (j - 1))]
      BY <1>3, <3>1
    <3>4. QED
      BY <2>2, <3>1, <3>2, <3>3
  <2>3. QED
    BY <2>1, <2>2
<1>6. RemoveAt(s, j) = a \o b
  BY DEF RemoveAt, a, b
<1>7. QED
  BY <1>4, <1>5, <1>6

LEMMA DictSeq ==
  ASSUME NEW s, Dict(s)
  PROVE  /\ s \in Seq(Line) /\ Len(s) \in Nat /\ DOMAIN s = 1 .. Len(s)
         /\ \A i \in 1 .. Len(s) : s[i] \in Line
         /\ Lines(s) \subseteq Line
BY LenProperties, ElementOfSeq DEF Dict, Lines

\* The line of a key.
LEMMA AtIs ==
  ASSUME NEW s, Dict(s), NEW k
  PROVE  /\ Has(s, k) <=> \E l \in Lines(s) : l.key = k
         /\ Has(s, k) => /\ Index(s, k) \in DOMAIN s /\ s[Index(s, k)].key = k
                         /\ At(s, k) \in Lines(s) /\ At(s, k) \in Line
                         /\ At(s, k).key = k
                         /\ \A l \in Lines(s) : l.key = k => l = At(s, k)
<1>1. Has(s, k) <=> \E l \in Lines(s) : l.key = k
  BY DEF Has, Lines
<1>2. ASSUME Has(s, k) PROVE Index(s, k) \in DOMAIN s /\ s[Index(s, k)].key = k
  BY <1>2 DEF Has, Index
<1>3. ASSUME Has(s, k), NEW l \in Lines(s), l.key = k PROVE l = At(s, k)
  BY <1>2, <1>3 DEF Lines, At, Dict
<1>4. QED
  BY <1>1, <1>2, <1>3, DictSeq DEF At, Lines

LEMMA WithoutDict ==
  ASSUME NEW s, Dict(s), NEW k
  PROVE  /\ Dict(Without(s, k)) /\ Lines(Without(s, k)) = Others(s, k)
         /\ Len(Without(s, k)) = IF Has(s, k) THEN Len(s) - 1 ELSE Len(s)
<1>1. CASE ~Has(s, k)
  BY <1>1, AtIs DEF Without, Others
<1>2. CASE Has(s, k)
  <2>. DEFINE j == Index(s, k)
              t == RemoveAt(s, j)
  <2>1. /\ s \in Seq(Line) /\ Len(s) \in Nat /\ DOMAIN s = 1 .. Len(s)
        /\ j \in 1 .. Len(s) /\ s[j].key = k
    BY <1>2, AtIs, DictSeq
  <2>. HIDE DEF j
  <2>2. /\ t \in Seq(Line) /\ Len(t) = Len(s) - 1
        /\ \A i \in 1 .. Len(s) - 1 : t[i] = IF i < j THEN s[i] ELSE s[i + 1]
    BY <2>1, RemoveAtIs
  <2>. HIDE DEF t
  <2>3. DOMAIN t = 1 .. Len(s) - 1
    BY <2>2, LenProperties
  <2>4. ASSUME NEW i \in 1 .. Len(s) - 1
        PROVE  \E h \in 1 .. Len(s) : /\ h # j /\ t[i] = s[h]
                                      /\ h = IF i < j THEN i ELSE i + 1
    BY <2>1, <2>2
  <2>5. Dict(t)
    <3>1. ASSUME NEW a \in 1 .. Len(s) - 1, NEW b \in 1 .. Len(s) - 1, t[a].key = t[b].key
          PROVE  a = b
      <4>1. PICK x \in 1 .. Len(s) : t[a] = s[x] /\ x = IF a < j THEN a ELSE a + 1
        BY <2>4
      <4>2. PICK y \in 1 .. Len(s) : t[b] = s[y] /\ y = IF b < j THEN b ELSE b + 1
        BY <2>4
      <4>3. x = y
        BY <2>1, <3>1, <4>1, <4>2 DEF Dict
      <4>4. QED
        BY <2>1, <4>1, <4>2, <4>3
    <3>2. QED
      BY <2>2, <2>3, <3>1 DEF Dict
  <2>6. \A l \in Lines(t) : l \in Others(s, k)
    <3>1. ASSUME NEW i \in 1 .. Len(s) - 1 PROVE t[i] \in Others(s, k)
      <4>1. PICK h \in 1 .. Len(s) : h # j /\ t[i] = s[h]
        BY <2>4
      <4>2. s[h].key # k
        BY <2>1, <4>1 DEF Dict
      <4>3. QED
        BY <2>1, <4>1, <4>2 DEF Others, Lines
    <3>2. QED
      BY <2>3, <3>1 DEF Lines
  <2>7. \A l \in Others(s, k) : l \in Lines(t)
    <3>1. ASSUME NEW h \in 1 .. Len(s), s[h].key # k
          PROVE  \E i \in 1 .. Len(s) - 1 : t[i] = s[h]
      <4>1. h # j
        BY <2>1, <3>1
      <4>2. CASE h < j
        <5>1. h \in 1 .. Len(s) - 1 /\ t[h] = s[h]
          BY <2>1, <2>2, <4>2
        <5>2. QED
          BY <5>1
      <4>3. CASE h > j
        <5>1. h - 1 \in 1 .. Len(s) - 1 /\ ~(h - 1 < j) /\ h - 1 + 1 = h
          BY <2>1, <4>3
        <5>2. t[h - 1] = s[h]
          BY <2>2, <5>1
        <5>3. QED
          BY <5>1, <5>2
      <4>4. QED
        BY <2>1, <4>1, <4>2, <4>3
    <3>2. QED
      BY <2>1, <2>3, <3>1 DEF Others, Lines
  <2>8. Without(s, k) = t
    BY <1>2 DEF Without, t, j
  <2>9. Lines(t) = Others(s, k)
    BY <2>6, <2>7
  <2>10. QED
    BY <1>2, <2>2, <2>5, <2>8, <2>9
<1>3. QED
  BY <1>1, <1>2

LEMMA StoreDict ==
  ASSUME NEW s, Dict(s), NEW k \in Keys, NEW st \in {"M", "S"}, NEW v \in Calls
  PROVE  /\ Dict(Store(s, k, st, v))
         /\ Lines(Store(s, k, st, v)) =
              Others(s, k) \cup {[key |-> k, state |-> st, value |-> v]}
         /\ Len(Store(s, k, st, v)) = IF Has(s, k) THEN Len(s) ELSE Len(s) + 1
<1>. DEFINE l == [key |-> k, state |-> st, value |-> v]
            w == Without(s, k)
            t == Append(w, l)
<1>1. /\ Dict(w) /\ Lines(w) = Others(s, k)
      /\ Len(w) = IF Has(s, k) THEN Len(s) - 1 ELSE Len(s)
  BY WithoutDict
<1>2. l \in Line /\ l.key = k
  BY DEF Line
<1>. HIDE DEF l, w
<1>3. /\ w \in Seq(Line) /\ Len(w) \in Nat /\ DOMAIN w = 1 .. Len(w)
  BY <1>1, DictSeq
<1>4. /\ t \in Seq(Line) /\ Len(t) = Len(w) + 1 /\ DOMAIN t = 1 .. Len(w) + 1
      /\ \A i \in 1 .. Len(w) : t[i] = w[i]
      /\ t[Len(w) + 1] = l
  BY <1>2, <1>3, AppendProperties, LenProperties
<1>. HIDE DEF t
<1>5. \A i \in 1 .. Len(w) : w[i].key # k
  BY <1>1, <1>3 DEF Lines, Others
<1>6. \A i : i \in DOMAIN t <=> i \in 1 .. Len(w) \/ i = Len(w) + 1
  BY <1>3, <1>4
<1>7. Dict(t)
  <2>1. ASSUME NEW i \in DOMAIN t, NEW j \in DOMAIN t, t[i].key = t[j].key
        PROVE  i = j
    <3>1. CASE i \in 1 .. Len(w) /\ j \in 1 .. Len(w)
      BY <1>1, <1>3, <1>4, <2>1, <3>1 DEF Dict
    <3>2. CASE i = Len(w) + 1 \/ j = Len(w) + 1
      BY <1>2, <1>4, <1>5, <1>6, <2>1, <3>2
    <3>3. QED
      BY <1>6, <3>1, <3>2
  <2>2. QED
    BY <1>4, <2>1 DEF Dict
<1>8. Lines(t) = Lines(w) \cup {l}
  BY <1>3, <1>4, <1>6 DEF Lines
<1>9. Len(t) = IF Has(s, k) THEN Len(s) ELSE Len(s) + 1
  <2>1. Len(s) \in Nat
    BY DictSeq
  <2>2. QED
    BY <1>1, <1>3, <1>4, <2>1
<1>10. Store(s, k, st, v) = t
  BY DEF Store, t, w, l
<1>11. QED
  BY <1>1, <1>7, <1>8, <1>9, <1>10 DEF l

LEMMA EvictDict ==
  ASSUME NEW s, Dict(s)
  PROVE  /\ Dict(Evict(s)) /\ Lines(Evict(s)) \subseteq Lines(s)
         /\ Len(Evict(s)) = IF Len(s) > Capacity THEN Len(s) - 1 ELSE Len(s)
<1>1. /\ s \in Seq(Line) /\ Len(s) \in Nat /\ DOMAIN s = 1 .. Len(s) /\ Capacity \in Nat
  BY DictSeq, BoundsAssumption
<1>2. CASE Len(s) > Capacity
  <2>. DEFINE t == Tail(s)
  <2>1. s # << >>
    BY <1>1, <1>2
  <2>2. /\ t \in Seq(Line) /\ Len(t) = Len(s) - 1
        /\ \A i \in 1 .. Len(t) : t[i] = s[i + 1]
    BY <1>1, <2>1, HeadTailProperties
  <2>. HIDE DEF t
  <2>3. DOMAIN t = 1 .. Len(s) - 1 /\ \A i \in 1 .. Len(s) - 1 : i + 1 \in 1 .. Len(s)
    BY <1>1, <2>2, LenProperties
  <2>4. Dict(t)
    <3>1. ASSUME NEW i \in 1 .. Len(s) - 1, NEW j \in 1 .. Len(s) - 1, t[i].key = t[j].key
          PROVE  i = j
      <4>1. s[i + 1].key = s[j + 1].key /\ i + 1 \in DOMAIN s /\ j + 1 \in DOMAIN s
        BY <1>1, <2>2, <2>3, <3>1
      <4>2. i + 1 = j + 1
        BY <4>1 DEF Dict
      <4>3. QED
        BY <4>2
    <3>2. QED
      BY <2>2, <2>3, <3>1 DEF Dict
  <2>5. Lines(t) \subseteq Lines(s)
    BY <1>1, <2>2, <2>3 DEF Lines
  <2>6. Evict(s) = t
    BY <1>2 DEF Evict, t
  <2>7. QED
    BY <1>2, <2>2, <2>4, <2>5, <2>6
<1>3. CASE ~(Len(s) > Capacity)
  BY <1>3 DEF Evict
<1>4. QED
  BY <1>2, <1>3

-----------------------------------------------------------------------------
(* The inductive invariant behind TypeOK. *)

Calling(c) == pc[c] \in {"wait", "call", "answered"}
Waits(c)   == pc[c] \in {"call", "answered"}

\* A request has been made of a peer by a call that has begun.
Sent(q) == pc[q.of] # "new" /\ q.nth <= Len(Peers[call[q.of].at])

CacheTypes ==
  /\ \A n \in Nodes : Dict(cache[n])
  /\ cache \in [Nodes -> Seq(Line)]
  /\ lockq \in [Nodes -> Seq(Task)]
  /\ call \in [Calls -> Call \cup {NoCall}]
  /\ pc \in [Calls -> {"new", "wait", "call", "answered", "done", "lost"}]
  /\ asked \in [Calls -> Nat]
  /\ answer \in [Calls -> Calls \cup {Nothing}]
  /\ result \in [Calls -> Calls \cup {Nothing}]
  /\ wire \in SUBSET Request
  /\ latest \in [Keys -> Calls \cup {Nothing}]

\* What a call has asked, and that it holds the lock of its node while it waits
\* for a peer.
CallsRight == \A c \in Calls :
  /\ pc[c] # "new" => call[c] \in Call
  /\ pc[c] # "new" => asked[c] <= Len(Peers[call[c].at])
  /\ pc[c] \in {"new", "wait"} => asked[c] = 0
  /\ Waits(c) => Holds(call[c].at, c)

RequestsRight ==
  /\ \A q \in wire : Sent(q)
  /\ \A n \in Nodes : \A i \in DOMAIN lockq[n] :
       lockq[n][i] \in Request => Sent(lockq[n][i]) /\ Target(lockq[n][i]) = n

CacheInv == CacheTypes /\ CallsRight /\ RequestsRight

LEMMA CacheInvInit == Init => CacheInv
<1>. SUFFICES ASSUME Init PROVE CacheInv
  OBVIOUS
<1>. USE DEF Init
<1>1. CacheTypes
  BY DEF CacheTypes, Dict
<1>2. CallsRight /\ RequestsRight
  BY DEF CallsRight, RequestsRight, Waits
<1>3. QED
  BY <1>1, <1>2 DEF CacheInv

LEMMA CallTypes ==
  ASSUME CacheInv, NEW c \in Calls, pc[c] # "new"
  PROVE  /\ call[c] \in Call /\ call[c].op \in {"get", "put"}
         /\ call[c].at \in Nodes /\ call[c].key \in Keys
         /\ Dict(cache[call[c].at])
         /\ Len(Peers[call[c].at]) \in Nat /\ asked[c] \in Nat
         /\ \A i \in 1 .. Len(Peers[call[c].at]) : Peers[call[c].at][i] \in Nodes
<1>1. call[c] \in Call /\ asked[c] \in Nat
  BY DEF CacheInv, CacheTypes, CallsRight
<1>2. call[c].at \in Nodes /\ call[c].key \in Keys /\ call[c].op \in {"get", "put"}
  BY <1>1 DEF Call
<1>3. Peers[call[c].at] \in Seq(Nodes)
  BY <1>2, PeersAssumption
<1>4. QED
  BY <1>1, <1>2, <1>3, LenProperties, ElementOfSeq DEF CacheInv, CacheTypes

LEMMA TargetType ==
  ASSUME CacheInv, NEW q \in Request, Sent(q)
  PROVE  q.of \in Calls /\ Target(q) \in Nodes
<1>1. q.of \in Calls /\ q.nth \in Nat \ {0}
  BY DEF Request
<1>2. q.nth \in 1 .. Len(Peers[call[q.of].at])
  BY <1>1, CallTypes DEF Sent
<1>3. QED
  BY <1>1, <1>2, CallTypes DEF Sent, Target

\* The tasks of a queue whose head leaves, and of one that a task joins.
LEMMA QueueLeave ==
  ASSUME NEW s \in Seq(Task), s # << >>
  PROVE  /\ Tail(s) \in Seq(Task) /\ Head(s) \in Task
         /\ \A i \in DOMAIN Tail(s) : \E j \in DOMAIN s : Tail(s)[i] = s[j]
         /\ \A j \in DOMAIN s : s[j] = Head(s) \/ \E i \in DOMAIN Tail(s) : Tail(s)[i] = s[j]
<1>1. /\ Tail(s) \in Seq(Task) /\ Len(Tail(s)) = Len(s) - 1
      /\ Head(s) \in Task /\ Head(s) = s[1]
      /\ \A i \in 1 .. Len(Tail(s)) : Tail(s)[i] = s[i + 1]
  BY HeadTailProperties
<1>2. Len(s) \in Nat /\ DOMAIN s = 1 .. Len(s) /\ DOMAIN Tail(s) = 1 .. Len(s) - 1
  BY <1>1, LenProperties
<1>3. ASSUME NEW i \in DOMAIN Tail(s) PROVE \E j \in DOMAIN s : Tail(s)[i] = s[j]
  <2>1. i + 1 \in DOMAIN s /\ Tail(s)[i] = s[i + 1]
    BY <1>1, <1>2
  <2>2. QED
    BY <2>1
<1>4. ASSUME NEW j \in DOMAIN s, s[j] # Head(s)
      PROVE  \E i \in DOMAIN Tail(s) : Tail(s)[i] = s[j]
  <2>1. j # 1
    BY <1>1, <1>4
  <2>2. j - 1 \in DOMAIN Tail(s) /\ j - 1 + 1 = j
    BY <1>2, <2>1
  <2>3. Tail(s)[j - 1] = s[j]
    BY <1>1, <1>2, <2>2
  <2>4. QED
    BY <2>2, <2>3
<1>5. QED
  BY <1>1, <1>3, <1>4

LEMMA QueueJoin ==
  ASSUME NEW s \in Seq(Task), NEW t \in Task
  PROVE  /\ Append(s, t) \in Seq(Task)
         /\ \A i \in DOMAIN Append(s, t) :
              Append(s, t)[i] = t \/ \E j \in DOMAIN s : Append(s, t)[i] = s[j]
         /\ \A j \in DOMAIN s : \E i \in DOMAIN Append(s, t) : Append(s, t)[i] = s[j]
         /\ \E i \in DOMAIN Append(s, t) : Append(s, t)[i] = t
         /\ s # << >> => Append(s, t) # << >> /\ Head(Append(s, t)) = Head(s)
<1>1. /\ Append(s, t) \in Seq(Task) /\ Append(s, t) # << >>
      /\ Len(Append(s, t)) = Len(s) + 1
      /\ \A i \in 1 .. Len(s) : Append(s, t)[i] = s[i]
      /\ Append(s, t)[Len(s) + 1] = t
  BY AppendProperties
<1>2. /\ Len(s) \in Nat /\ DOMAIN s = 1 .. Len(s)
      /\ DOMAIN Append(s, t) = 1 .. Len(s) + 1
  BY <1>1, LenProperties
<1>3. \A i : i \in DOMAIN Append(s, t) <=> i \in DOMAIN s \/ i = Len(s) + 1
  BY <1>2
<1>4. s # << >> => Head(Append(s, t)) = Head(s)
  BY HeadTailAppend
<1>5. QED
  BY <1>1, <1>2, <1>3, <1>4

\* The call that holds the lock returns.
LEMMA ReturnKeeps ==
  ASSUME CacheInv, NEW c \in Calls, Calling(c), Holds(call[c].at, c),
         NEW s, Dict(s), NEW v \in Calls \cup {Nothing}, Return(c, s, v)
  PROVE  CacheInv'
<1>. DEFINE n == call[c].at
<1>t. CacheTypes /\ CallsRight /\ RequestsRight
  BY DEF CacheInv
<1>1. /\ call[c] \in Call /\ n \in Nodes /\ call[c].key \in Keys /\ s \in Seq(Line)
      /\ lockq[n] \in Seq(Task) /\ lockq[n] # << >> /\ Head(lockq[n]) = c
  BY CallTypes, DictSeq DEF Calling, Holds, CacheInv, CacheTypes
<1>2. /\ cache' = [cache EXCEPT ![n] = s] /\ lockq' = [lockq EXCEPT ![n] = Tail(lockq[n])]
      /\ pc' = [pc EXCEPT ![c] = "done"] /\ result' = [result EXCEPT ![c] = v]
      /\ latest' = IF call[c].op = "put" THEN [latest EXCEPT ![call[c].key] = c] ELSE latest
      /\ UNCHANGED <<call, asked, answer, wire>>
  BY DEF Return
<1>3. Tail(lockq[n]) \in Seq(Task)
  BY <1>1, QueueLeave
<1>. HIDE DEF n
<1>4. CacheTypes'
  BY <1>t, <1>1, <1>2, <1>3 DEF CacheTypes
<1>5. CallsRight'
  <2>1. ASSUME NEW d \in Calls, Waits(d)' PROVE Holds(call[d].at, d)'
    <3>1. d # c /\ Waits(d)
      BY <1>t, <1>2, <2>1 DEF Waits, CacheTypes
    <3>2. Holds(call[d].at, d) /\ call[d].at \in Nodes
      BY <1>t, <3>1, CallTypes DEF CallsRight, Waits
    <3>3. call[d].at # n
      BY <1>1, <3>1, <3>2 DEF Holds
    <3>4. QED
      BY <1>t, <1>1, <1>2, <3>2, <3>3 DEF Holds, CacheTypes
  <2>2. ASSUME NEW d \in Calls
        PROVE  pc'[d] = pc[d] \/ (pc[d] # "new" /\ pc'[d] = "done")
    BY <1>t, <1>2 DEF CacheTypes, Calling
  <2>3. QED
    BY <1>t, <1>2, <2>1, <2>2 DEF CallsRight
<1>6. RequestsRight'
  <2>1. ASSUME NEW q, Sent(q) PROVE Sent(q)' /\ Target(q)' = Target(q)
    <3>1. pc'[q.of] # "new"
      BY <1>t, <1>2, <2>1 DEF Sent, CacheTypes
    <3>2. QED
      BY <1>2, <2>1, <3>1 DEF Sent, Target
  <2>2. ASSUME NEW m \in Nodes, NEW i \in DOMAIN lockq'[m], lockq'[m][i] \in Request
        PROVE  \E j \in DOMAIN lockq[m] : lockq'[m][i] = lockq[m][j]
    BY <1>t, <1>1, <1>2, <2>2, QueueLeave DEF CacheTypes
  <2>3. QED
    BY <1>t, <1>2, <2>1, <2>2 DEF RequestsRight
<1>7. QED
  BY <1>4, <1>5, <1>6 DEF CacheInv

\* The lines of the cache of c, or those without the key of c.
Kept(c) == {cache[call[c].at], Without(cache[call[c].at], call[c].key)}

\* The call that holds the lock asks its next peer.
AsksPeer(c, s) ==
  LET n == call[c].at
  IN  /\ asked[c] < Len(Peers[n])
      /\ cache' = [cache EXCEPT ![n] = s]
      /\ asked' = [asked EXCEPT ![c] = @ + 1]
      /\ pc' = [pc EXCEPT ![c] = "call"]
      /\ wire' = wire \cup {[of |-> c, nth |-> asked[c] + 1]}
      /\ UNCHANGED <<lockq, call, answer, result, latest>>

LEMMA AskKeeps ==
  ASSUME CacheInv, NEW c \in Calls, Calling(c), Holds(call[c].at, c),
         NEW s, Dict(s), AsksPeer(c, s)
  PROVE  CacheInv'
<1>. DEFINE n == call[c].at
            q == [of |-> c, nth |-> asked[c] + 1]
<1>t. CacheTypes /\ CallsRight /\ RequestsRight
  BY DEF CacheInv
<1>1. /\ call[c] \in Call /\ n \in Nodes /\ s \in Seq(Line)
      /\ asked[c] \in Nat /\ Len(Peers[n]) \in Nat
  BY CallTypes, DictSeq DEF Calling
<1>2. /\ asked[c] < Len(Peers[n]) /\ cache' = [cache EXCEPT ![n] = s]
      /\ asked' = [asked EXCEPT ![c] = asked[c] + 1] /\ pc' = [pc EXCEPT ![c] = "call"]
      /\ wire' = wire \cup {q} /\ UNCHANGED <<lockq, call, answer, result, latest>>
  BY DEF AsksPeer
<1>3. q \in Request /\ q.of = c /\ q.nth = asked[c] + 1 /\ q.nth <= Len(Peers[n])
  BY <1>1, <1>2 DEF Request
<1>. HIDE DEF q
<1>4. CacheTypes'
  BY <1>t, <1>1, <1>2, <1>3 DEF CacheTypes
<1>5. ASSUME NEW d \in Calls
      PROVE  (pc'[d] = pc[d] /\ asked'[d] = asked[d])
             \/ (d = c /\ pc'[d] = "call" /\ asked'[d] = asked[c] + 1)
  BY <1>t, <1>2 DEF CacheTypes
<1>6. CallsRight'
  BY <1>t, <1>1, <1>2, <1>3, <1>5 DEF CallsRight, Waits, Holds
<1>7. ASSUME NEW r, Sent(r) PROVE Sent(r)' /\ Target(r)' = Target(r)
  <2>1. pc'[r.of] # "new"
    BY <1>t, <1>2, <1>7 DEF Sent, CacheTypes
  <2>2. QED
    BY <1>2, <1>7, <2>1 DEF Sent, Target
<1>8. ASSUME NEW r, r = q PROVE Sent(r)'
  <2>1. pc'[c] = "call"
    BY <1>t, <1>2 DEF CacheTypes
  <2>2. q.nth <= Len(Peers[call'[c].at])
    BY <1>2, <1>3
  <2>3. QED
    BY <1>2, <1>3, <1>8, <2>1, <2>2 DEF Sent
<1>9. RequestsRight'
  <2>1. ASSUME NEW r \in wire' PROVE Sent(r)'
    BY <1>t, <1>2, <1>7, <1>8, <2>1 DEF RequestsRight
  <2>2. ASSUME NEW m \in Nodes, NEW i \in DOMAIN lockq[m], lockq[m][i] \in Request,
               NEW r, r = lockq[m][i]
        PROVE  Sent(r)' /\ Target(r)' = m
    BY <1>t, <1>7, <2>2 DEF RequestsRight
  <2>3. lockq' = lockq
    BY <1>2
  <2>4. QED
    BY <2>1, <2>2, <2>3 DEF RequestsRight
<1>10. QED
  BY <1>4, <1>6, <1>9 DEF CacheInv

\* A node executes the request at the head of its queue.
LEMMA AnswerKeeps ==
  ASSUME CacheInv, NEW n \in Nodes, lockq[n] # << >>, Head(lockq[n]) \in Request,
         NEW s, Dict(s), NEW v \in Calls \cup {Nothing}, Answer(Head(lockq[n]), n, s, v)
  PROVE  CacheInv'
<1>. DEFINE q == Head(lockq[n])
<1>t. CacheTypes /\ CallsRight /\ RequestsRight
  BY DEF CacheInv
<1>1. s \in Seq(Line) /\ lockq[n] \in Seq(Task) /\ Tail(lockq[n]) \in Seq(Task)
  BY <1>t, DictSeq, QueueLeave DEF CacheTypes
<1>2. /\ cache' = [cache EXCEPT ![n] = s] /\ lockq' = [lockq EXCEPT ![n] = Tail(lockq[n])]
      /\ UNCHANGED <<call, asked, result, wire, latest>>
      /\ \/ UNCHANGED <<pc, answer>>
         \/ /\ pc[q.of] = "call" /\ pc' = [pc EXCEPT ![q.of] = "answered"]
            /\ answer' = [answer EXCEPT ![q.of] = v]
  BY DEF Answer
<1>3. ASSUME NEW d \in Calls
      PROVE  pc'[d] = pc[d] \/ (pc[d] = "call" /\ pc'[d] = "answered")
  BY <1>t, <1>2 DEF CacheTypes
<1>4. q.of \in Calls
  BY DEF Request
<1>. HIDE DEF q
<1>5. CacheTypes'
  <2>1. /\ pc' \in [Calls -> {"new", "wait", "call", "answered", "done", "lost"}]
        /\ answer' \in [Calls -> Calls \cup {Nothing}]
    <3>1. /\ pc \in [Calls -> {"new", "wait", "call", "answered", "done", "lost"}]
          /\ answer \in [Calls -> Calls \cup {Nothing}]
      BY <1>t DEF CacheTypes
    <3>2. v \in Calls \cup {Nothing}
      OBVIOUS
    <3>3. QED
      BY <1>2, <1>4, <3>1, <3>2
  <2>2. QED
    BY <1>t, <1>1, <1>2, <2>1 DEF CacheTypes
<1>6. CallsRight'
  <2>1. ASSUME NEW d \in Calls, Waits(d)' PROVE Holds(call[d].at, d)'
    <3>1. Waits(d)
      BY <1>3, <2>1 DEF Waits
    <3>2. Holds(call[d].at, d) /\ call[d].at \in Nodes
      BY <1>t, <3>1, CallTypes DEF CallsRight, Waits
    <3>3. call[d].at # n
      BY <3>2, TasksAssumption DEF Holds
    <3>4. QED
      BY <1>t, <1>1, <1>2, <3>2, <3>3 DEF Holds, CacheTypes
  <2>2. QED
    BY <1>t, <1>2, <1>3, <2>1 DEF CallsRight
<1>7. RequestsRight'
  <2>1. ASSUME NEW r \in Request, Sent(r) PROVE Sent(r)' /\ Target(r)' = Target(r)
    <3>0. r.of \in Calls
      BY DEF Request
    <3>1. pc'[r.of] # "new"
      BY <1>3, <2>1, <3>0 DEF Sent
    <3>2. QED
      BY <1>2, <2>1, <3>1 DEF Sent, Target
  <2>2. ASSUME NEW m \in Nodes, NEW i \in DOMAIN lockq'[m], lockq'[m][i] \in Request
        PROVE  \E j \in DOMAIN lockq[m] : lockq'[m][i] = lockq[m][j]
    BY <1>t, <1>1, <1>2, <2>2, QueueLeave DEF CacheTypes
  <2>3. wire \subseteq Request
    BY <1>t DEF CacheTypes
  <2>4. QED
    BY <1>t, <1>2, <2>1, <2>2, <2>3 DEF RequestsRight
<1>8. QED
  BY <1>5, <1>6, <1>7 DEF CacheInv

LEMMA ArriveKeeps ==
  ASSUME CacheInv, NEW c \in Calls, NEW k \in Keys, NEW n \in Nodes,
         NEW o \in {"get", "put"}, Arrive(c, o, k, n)
  PROVE  CacheInv'
<1>. DEFINE a == [op |-> o, key |-> k, at |-> n]
<1>t. CacheTypes /\ CallsRight /\ RequestsRight
  BY DEF CacheInv
<1>1. a \in Call /\ a.at = n /\ c \in Task /\ lockq[n] \in Seq(Task)
  BY <1>t DEF Call, Task, CacheTypes
<1>2. /\ pc[c] = "new" /\ call' = [call EXCEPT ![c] = a] /\ pc' = [pc EXCEPT ![c] = "wait"]
      /\ lockq' = [lockq EXCEPT ![n] = Append(lockq[n], c)]
      /\ UNCHANGED <<cache, asked, answer, result, wire, latest>>
  BY DEF Arrive
<1>. HIDE DEF a
<1>3. CacheTypes'
  <2>1. Append(lockq[n], c) \in Seq(Task)
    BY <1>1, QueueJoin
  <2>2. QED
    BY <1>t, <1>1, <1>2, <2>1 DEF CacheTypes
<1>4. ASSUME NEW d \in Calls
      PROVE  (pc'[d] = pc[d] /\ call'[d] = call[d] /\ d # c)
             \/ (d = c /\ pc'[d] = "wait" /\ call'[d] = a)
  BY <1>t, <1>2 DEF CacheTypes
<1>5. CallsRight'
  <2>1. ASSUME NEW d \in Calls, Waits(d)' PROVE Holds(call[d].at, d)'
    <3>1. Waits(d) /\ call'[d] = call[d]
      BY <1>4, <2>1 DEF Waits
    <3>2. Holds(call[d].at, d) /\ call[d].at \in Nodes
      BY <1>t, <3>1, CallTypes DEF CallsRight, Waits
    <3>3. QED
      BY <1>t, <1>1, <1>2, <3>1, <3>2, QueueJoin DEF Holds, CacheTypes
  <2>2. asked'[c] = 0 /\ Len(Peers[n]) \in Nat
    <3>1. Peers[n] \in Seq(Nodes)
      BY PeersAssumption
    <3>2. QED
      BY <1>t, <1>2, <3>1, LenProperties DEF CallsRight
  <2>3. QED
    BY <1>t, <1>1, <1>2, <1>4, <2>1, <2>2 DEF CallsRight
<1>6. RequestsRight'
  <2>1. ASSUME NEW r \in Request, Sent(r) PROVE Sent(r)' /\ Target(r)' = Target(r)
    <3>1. r.of \in Calls /\ r.of # c
      BY <1>2, <2>1 DEF Sent, Request
    <3>2. pc'[r.of] = pc[r.of] /\ call'[r.of] = call[r.of]
      BY <1>4, <3>1
    <3>3. QED
      BY <1>2, <2>1, <3>2 DEF Sent, Target
  <2>2. ASSUME NEW m \in Nodes, NEW i \in DOMAIN lockq'[m], lockq'[m][i] \in Request
        PROVE  \E j \in DOMAIN lockq[m] : lockq'[m][i] = lockq[m][j]
    <3>1. lockq'[m][i] # c
      BY <2>2, TasksAssumption
    <3>2. QED
      BY <1>t, <1>1, <1>2, <2>2, <3>1, QueueJoin DEF CacheTypes
  <2>3. wire \subseteq Request
    BY <1>t DEF CacheTypes
  <2>4. QED
    BY <1>t, <1>2, <2>1, <2>2, <2>3 DEF RequestsRight
<1>7. QED
  BY <1>3, <1>5, <1>6 DEF CacheInv

LEMMA DeliverKeeps ==
  ASSUME CacheInv, NEW q \in wire, Deliver(q)
  PROVE  CacheInv'
<1>. DEFINE n == Target(q)
<1>t. CacheTypes /\ CallsRight /\ RequestsRight
  BY DEF CacheInv
<1>1. q \in Request /\ q \in Task /\ Sent(q)
  BY <1>t DEF CacheTypes, RequestsRight, Task
<1>2. n \in Nodes
  BY <1>1, TargetType
<1>. HIDE DEF n
<1>3. lockq[n] \in Seq(Task) /\ Append(lockq[n], q) \in Seq(Task)
  BY <1>t, <1>1, <1>2, QueueJoin DEF CacheTypes
<1>4. /\ wire' = wire \ {q} /\ lockq' = [lockq EXCEPT ![n] = Append(lockq[n], q)]
      /\ UNCHANGED <<cache, call, pc, asked, answer, result, latest>>
  BY DEF Deliver, n
<1>5. CacheTypes'
  BY <1>t, <1>3, <1>4 DEF CacheTypes
<1>6. CallsRight'
  <2>1. ASSUME NEW d \in Calls, Waits(d) PROVE Holds(call[d].at, d)'
    <3>1. Holds(call[d].at, d) /\ call[d].at \in Nodes
      BY <1>t, <2>1, CallTypes DEF CallsRight, Waits
    <3>2. QED
      BY <1>t, <1>1, <1>2, <1>3, <1>4, <3>1, QueueJoin DEF Holds, CacheTypes
  <2>2. QED
    BY <1>t, <1>4, <2>1 DEF CallsRight, Waits
<1>7. RequestsRight'
  <2>1. ASSUME NEW m \in Nodes, NEW i \in DOMAIN lockq'[m], lockq'[m][i] \in Request
        PROVE  \/ m = n /\ lockq'[m][i] = q
               \/ \E j \in DOMAIN lockq[m] : lockq'[m][i] = lockq[m][j]
    BY <1>t, <1>1, <1>2, <1>3, <1>4, <2>1, QueueJoin DEF CacheTypes
  <2>2. Target(q) = n
    BY DEF n
  <2>3. ASSUME NEW r, Sent(r) PROVE Sent(r)' /\ Target(r)' = Target(r)
    BY <1>4, <2>3 DEF Sent, Target
  <2>4. QED
    BY <1>t, <1>1, <1>4, <2>1, <2>2, <2>3 DEF RequestsRight
<1>8. QED
  BY <1>5, <1>6, <1>7 DEF CacheInv

LEMMA LoseKeeps ==
  ASSUME CacheInv, NEW q \in wire, Lose(q)
  PROVE  CacheInv'
<1>1. /\ wire' = wire \ {q}
      /\ UNCHANGED <<cache, lockq, call, pc, asked, answer, result, latest>>
  BY DEF Lose
<1>2. CacheTypes' /\ CallsRight'
  BY <1>1 DEF CacheInv, CacheTypes, CallsRight, Waits, Holds
<1>3. ASSUME NEW r, Sent(r) PROVE Sent(r)' /\ Target(r)' = Target(r)
  BY <1>1, <1>3 DEF Sent, Target
<1>4. RequestsRight'
  BY <1>1, <1>3 DEF CacheInv, RequestsRight
<1>5. QED
  BY <1>2, <1>4 DEF CacheInv

LEMMA RestartKeeps ==
  ASSUME CacheInv, NEW n \in Nodes, Restart(n)
  PROVE  CacheInv'
<1>t. CacheTypes /\ CallsRight /\ RequestsRight
  BY DEF CacheInv
<1>1. /\ cache' = [cache EXCEPT ![n] = << >>] /\ lockq' = [lockq EXCEPT ![n] = << >>]
      /\ UNCHANGED <<call, asked, answer, result, wire, latest>>
      /\ pc' = [c \in Calls |->
                  IF c \in {d \in Running : call[d].at = n} THEN "lost" ELSE pc[c]]
  BY DEF Restart
<1>2. ASSUME NEW d \in Calls
      PROVE  \/ pc'[d] = pc[d] /\ (Calling(d) => call[d].at # n)
             \/ Calling(d) /\ pc'[d] = "lost"
  BY <1>1 DEF Running, Calling
<1>3. CacheTypes'
  <2>1. pc' \in [Calls -> {"new", "wait", "call", "answered", "done", "lost"}]
    BY <1>t, <1>1 DEF CacheTypes
  <2>2. << >> \in Seq(Line) /\ << >> \in Seq(Task) /\ Dict(<< >>)
    BY DEF Dict
  <2>3. QED
    BY <1>t, <1>1, <2>1, <2>2 DEF CacheTypes
<1>4. CallsRight'
  <2>1. ASSUME NEW d \in Calls, Waits(d)' PROVE Holds(call[d].at, d)'
    <3>1. Waits(d) /\ call[d].at # n
      BY <1>2, <2>1 DEF Waits, Calling
    <3>2. Holds(call[d].at, d) /\ call[d].at \in Nodes
      BY <1>t, <3>1, CallTypes DEF CallsRight, Waits
    <3>3. QED
      BY <1>t, <1>1, <3>1, <3>2 DEF Holds, CacheTypes
  <2>2. QED
    BY <1>t, <1>1, <1>2, <2>1 DEF CallsRight, Calling
<1>5. RequestsRight'
  <2>1. ASSUME NEW r \in Request, Sent(r) PROVE Sent(r)' /\ Target(r)' = Target(r)
    <3>1. r.of \in Calls
      BY DEF Request
    <3>2. pc'[r.of] # "new"
      BY <1>2, <2>1, <3>1 DEF Sent
    <3>3. QED
      BY <1>1, <2>1, <3>2 DEF Sent, Target
  <2>2. wire \subseteq Request
    BY <1>t DEF CacheTypes
  <2>3. \A m \in Nodes : lockq'[m] = lockq[m] \/ lockq'[m] = << >>
    BY <1>t, <1>1 DEF CacheTypes
  <2>4. QED
    BY <1>t, <1>1, <2>1, <2>2, <2>3 DEF RequestsRight
<1>6. QED
  BY <1>3, <1>4, <1>5 DEF CacheInv

-----------------------------------------------------------------------------
(* The steps of a call that holds its lock, by what they come to, and those of *)
(* a node that executes a request.                                             *)

AsksNext(c) == \E s \in Kept(c) : AsksPeer(c, s)

GetsHit(c) ==
  LET lines == cache[call[c].at]
      line  == At(lines, call[c].key)
  IN  /\ call[c].op = "get" /\ Has(lines, call[c].key)
      /\ Return(c, Store(lines, call[c].key, line.state, line.value), line.value)

GetsNothing(c) ==
  call[c].op = "get" /\ Return(c, cache[call[c].at], Nothing)

PutsLine(c) ==
  /\ call[c].op = "put"
  /\ asked[c] = Len(Peers[call[c].at]) \/ Owns(call[c].at, call[c].key)
  /\ \E s \in Kept(c) : Return(c, Evict(Store(s, call[c].key, "M", c)), c)

GetsFetched(c) ==
  /\ pc[c] = "answered" /\ call[c].op = "get" /\ answer[c] \in Calls
  /\ Return(c, Store(cache[call[c].at], call[c].key, "S", answer[c]), Nothing)

LEMMA NextPeerForms ==
  ASSUME CacheInv, NEW c \in Calls, pc[c] # "new", NEW s \in Kept(c), NextPeer(c, s),
         call[c].op = "get" => s = cache[call[c].at]
  PROVE  AsksNext(c) \/ GetsNothing(c) \/ PutsLine(c)
<1>1. CASE asked[c] < Len(Peers[call[c].at])
  BY <1>1 DEF NextPeer, AsksPeer, AsksNext
<1>2. CASE ~(asked[c] < Len(Peers[call[c].at]))
  <2>1. asked[c] = Len(Peers[call[c].at]) /\ call[c].op \in {"get", "put"}
    BY <1>2, CallTypes DEF CacheInv, CallsRight
  <2>2. AfterPeers(c, s)
    BY <1>2 DEF NextPeer
  <2>3. CASE call[c].op = "get"
    BY <2>2, <2>3 DEF AfterPeers, GetsNothing
  <2>4. CASE call[c].op = "put"
    BY <2>1, <2>2, <2>4 DEF AfterPeers, PutsLine
  <2>5. QED
    BY <2>1, <2>3, <2>4
<1>3. QED
  BY <1>1, <1>2

LEMMA CallForms ==
  ASSUME CacheInv, NEW c \in Calls, CallStep(c)
  PROVE  /\ Calling(c) /\ Holds(call[c].at, c)
         /\ AsksNext(c) \/ GetsHit(c) \/ GetsNothing(c) \/ PutsLine(c) \/ GetsFetched(c)
<1>. DEFINE lines == cache[call[c].at]
            k == call[c].key
<1>1. Calling(c) /\ pc[c] # "new" /\ Holds(call[c].at, c)
  BY DEF CallStep, Get, Put, Continue, Timeout, Calling, CacheInv, CallsRight, Waits
<1>2. lines \in Kept(c) /\ Without(lines, k) \in Kept(c)
  BY DEF Kept
<1>3. CASE Get(c)
  <2>1. call[c].op = "get"
    BY <1>3 DEF Get
  <2>2. CASE Has(lines, k)
    <3>1. Return(c, Store(lines, k, At(lines, k).state, At(lines, k).value), At(lines, k).value)
      BY <1>3, <2>2 DEF Get
    <3>2. QED
      BY <1>1, <2>1, <2>2, <3>1 DEF GetsHit
  <2>3. CASE ~Has(lines, k)
    <3>1. NextPeer(c, lines)
      BY <1>3, <2>3 DEF Get
    <3>2. QED
      BY <1>1, <1>2, <2>1, <3>1, NextPeerForms
  <2>4. QED
    BY <1>1, <2>2, <2>3
<1>4. CASE Put(c)
  <2>1. call[c].op = "put"
    BY <1>4 DEF Put
  <2>2. CASE Has(lines, k) /\ At(lines, k).state = "M"
    <3>1. AfterPeers(c, lines) /\ Owns(call[c].at, k)
      BY <1>4, <2>2 DEF Put, Owns
    <3>2. Return(c, Evict(Store(lines, k, "M", c)), c)
      BY <2>1, <3>1 DEF AfterPeers
    <3>3. QED
      BY <1>1, <1>2, <2>1, <3>1, <3>2 DEF PutsLine
  <2>3. CASE ~(Has(lines, k) /\ At(lines, k).state = "M")
    <3>1. NextPeer(c, Without(lines, k))
      BY <1>4, <2>3 DEF Put
    <3>2. QED
      BY <1>1, <1>2, <2>1, <3>1, NextPeerForms
  <2>4. QED
    BY <2>2, <2>3
<1>5. CASE Continue(c)
  <2>1. CASE call[c].op = "get" /\ answer[c] # Nothing
    <3>1. answer[c] \in Calls
      BY <2>1 DEF CacheInv, CacheTypes
    <3>2. QED
      BY <1>1, <1>5, <2>1, <3>1 DEF Continue, GetsFetched
  <2>2. CASE ~(call[c].op = "get" /\ answer[c] # Nothing)
    <3>1. NextPeer(c, lines)
      BY <1>5, <2>2 DEF Continue
    <3>2. QED
      BY <1>1, <1>2, <3>1, NextPeerForms
  <2>3. QED
    BY <2>1, <2>2
<1>6. CASE Timeout(c)
  <2>1. NextPeer(c, lines)
    BY <1>6 DEF Timeout, GiveUp
  <2>2. QED
    BY <1>1, <1>2, <2>1, NextPeerForms
<1>7. QED
  BY <1>3, <1>4, <1>5, <1>6 DEF CallStep

\* What an executed request leaves in the cache, and answers: a put has the line
\* of its key removed, a get makes the line it wants SHARED and reads it.
Removes(n, s) ==
  LET q == Head(lockq[n])
  IN  call[q.of].op = "put" /\ s = Without(cache[n], call[q.of].key)

Shares(n, s, v) ==
  LET k == Wanted(Head(lockq[n]))
  IN  /\ call[Head(lockq[n]).of].op = "get"
      /\ \/ s = cache[n] /\ v = Nothing
         \/ /\ Has(cache[n], k) /\ v = At(cache[n], k).value
            /\ s = Store(cache[n], k, "S", v)

LEMMA NodeForms ==
  ASSUME NEW n \in Nodes, NodeStep(n), CacheInv
  PROVE  /\ lockq[n] # << >> /\ Head(lockq[n]) \in Request
         /\ \E s, v : /\ Removes(n, s) \/ Shares(n, s, v)
                      /\ v \in Calls \cup {Nothing} /\ Answer(Head(lockq[n]), n, s, v)
<1>. DEFINE q == Head(lockq[n])
            k == Wanted(q)
<1>1. CASE HandleInvalidate(n)
  BY <1>1 DEF HandleInvalidate, Removes, Wanted
<1>2. CASE HandleFetch(n)
  <2>1. lockq[n] # << >> /\ q \in Request /\ call[q.of].op = "get"
    BY <1>2 DEF HandleFetch
  <2>2. CASE Has(cache[n], k)
    <3>1. Dict(cache[n])
      BY DEF CacheInv, CacheTypes
    <3>2. At(cache[n], k) \in Line
      BY <2>2, <3>1, AtIs
    <3>3. At(cache[n], k).value \in Calls
      BY <3>2 DEF Line
    <3>4. Answer(q, n, Store(cache[n], k, "S", At(cache[n], k).value), At(cache[n], k).value)
      BY <1>2, <2>2 DEF HandleFetch
    <3>5. QED
      BY <2>1, <2>2, <3>3, <3>4 DEF Shares
  <2>3. CASE ~Has(cache[n], k)
    <3>1. Answer(q, n, cache[n], Nothing)
      BY <1>2, <2>3 DEF HandleFetch
    <3>2. QED
      BY <2>1, <3>1 DEF Shares
  <2>4. QED
    BY <2>2, <2>3
<1>3. QED
  BY <1>1, <1>2 DEF NodeStep

-----------------------------------------------------------------------------
(* What each of these leaves in the cache. *)

LEMMA KeptDict ==
  ASSUME CacheInv, NEW c \in Calls, Calling(c), NEW s \in Kept(c)
  PROVE  /\ Dict(s) /\ Lines(s) \subseteq Lines(cache[call[c].at])
         /\ Others(s, call[c].key) = Others(cache[call[c].at], call[c].key)
         /\ Len(s) <= Len(cache[call[c].at])
         /\ Len(Store(s, call[c].key, "M", c)) <= Len(cache[call[c].at]) + 1
<1>. DEFINE lines == cache[call[c].at]
            k == call[c].key
            w == Without(lines, k)
<1>1. Dict(lines) /\ k \in Keys /\ Len(lines) \in Nat
  BY CallTypes, DictSeq DEF Calling
<1>2. s = lines \/ s = w
  BY DEF Kept
<1>. HIDE DEF lines, k
<1>3. /\ Dict(w) /\ Lines(w) = Others(lines, k)
      /\ Len(w) = IF Has(lines, k) THEN Len(lines) - 1 ELSE Len(lines)
  BY <1>1, WithoutDict
<1>4. ~Has(w, k)
  BY <1>3, AtIs DEF Others
<1>5. Len(Store(w, k, "M", c)) = Len(w) + 1
  BY <1>1, <1>3, <1>4, StoreDict
<1>6. Len(Store(lines, k, "M", c)) <= Len(lines) + 1
  BY <1>1, StoreDict
<1>7. Others(w, k) = Others(lines, k) /\ Others(lines, k) \subseteq Lines(lines)
  BY <1>3 DEF Others
<1>8. Len(w) <= Len(lines) /\ Len(w) + 1 <= Len(lines) + 1
  BY <1>1, <1>3
<1>9. /\ Dict(s) /\ Lines(s) \subseteq Lines(lines) /\ Others(s, k) = Others(lines, k)
      /\ Len(s) <= Len(lines) /\ Len(Store(s, k, "M", c)) <= Len(lines) + 1
  BY <1>1, <1>2, <1>3, <1>5, <1>6, <1>7, <1>8
<1>10. QED
  BY <1>9 DEF lines, k

LEMMA HitDict ==
  ASSUME CacheInv, NEW c \in Calls, Calling(c), GetsHit(c)
  PROVE  LET lines == cache[call[c].at]
             line  == At(lines, call[c].key)
             s     == Store(lines, call[c].key, line.state, line.value)
         IN  /\ Dict(s) /\ Lines(s) = Lines(lines) /\ Len(s) = Len(lines)
             /\ line.value \in Calls
<1>. DEFINE lines == cache[call[c].at]
            k == call[c].key
            line == At(lines, k)
            s == Store(lines, k, line.state, line.value)
<1>1. Dict(lines) /\ k \in Keys /\ Has(lines, k)
  BY CallTypes DEF Calling, GetsHit
<1>. HIDE DEF lines, k
<1>2. /\ line \in Line /\ line \in Lines(lines) /\ line.key = k
      /\ \A l \in Lines(lines) : l.key = k => l = line
  BY <1>1, AtIs
<1>. HIDE DEF line
<1>3. /\ line.state \in {"M", "S"} /\ line.value \in Calls
      /\ line = [key |-> k, state |-> line.state, value |-> line.value]
  BY <1>2 DEF Line
<1>4. /\ Dict(s) /\ Len(s) = Len(lines)
      /\ Lines(s) = Others(lines, k) \cup {[key |-> k, state |-> line.state, value |-> line.value]}
  BY <1>1, <1>3, StoreDict
<1>. HIDE DEF s
<1>5. Lines(s) = Lines(lines)
  BY <1>2, <1>3, <1>4 DEF Others
<1>6. QED
  BY <1>3, <1>4, <1>5 DEF s, line, lines, k

LEMMA PutDict ==
  ASSUME CacheInv, NEW c \in Calls, Calling(c), NEW s \in Kept(c)
  PROVE  LET k == call[c].key
             n == call[c].at
             t == Evict(Store(s, k, "M", c))
         IN  /\ Dict(t)
             /\ Lines(t) \subseteq
                  Others(cache[n], k) \cup {[key |-> k, state |-> "M", value |-> c]}
             /\ Len(t) <= Len(cache[n]) \/ Len(t) <= Capacity
<1>. DEFINE k == call[c].key
            n == call[c].at
            u == Store(s, k, "M", c)
<1>1. /\ Dict(s) /\ k \in Keys /\ Dict(cache[n]) /\ Others(s, k) = Others(cache[n], k)
      /\ Len(u) <= Len(cache[n]) + 1
  BY KeptDict, CallTypes DEF Calling
<1>2. Dict(u) /\ Lines(u) = Others(s, k) \cup {[key |-> k, state |-> "M", value |-> c]}
  BY <1>1, StoreDict
<1>. HIDE DEF u
<1>3. Len(u) \in Nat /\ Len(cache[n]) \in Nat /\ Capacity \in Nat
  BY <1>1, <1>2, DictSeq, BoundsAssumption
<1>4. /\ Dict(Evict(u)) /\ Lines(Evict(u)) \subseteq Lines(u)
      /\ Len(Evict(u)) = IF Len(u) > Capacity THEN Len(u) - 1 ELSE Len(u)
  BY <1>2, EvictDict
<1>5. Len(Evict(u)) <= Len(cache[n]) \/ Len(Evict(u)) <= Capacity
  BY <1>1, <1>3, <1>4
<1>6. QED
  BY <1>1, <1>2, <1>4, <1>5 DEF u

LEMMA FetchedDict ==
  ASSUME CacheInv, NEW c \in Calls, Calling(c), GetsFetched(c)
  PROVE  LET k == call[c].key
             n == call[c].at
             t == Store(cache[n], k, "S", answer[c])
         IN  /\ Dict(t)
             /\ Lines(t) = Others(cache[n], k) \cup {[key |-> k, state |-> "S", value |-> answer[c]]}
             /\ Len(t) <= Len(cache[n]) + 1
<1>. DEFINE k == call[c].key
            lines == cache[call[c].at]
<1>1. Dict(lines) /\ k \in Keys /\ answer[c] \in Calls /\ Len(lines) \in Nat
  BY CallTypes, DictSeq DEF Calling, GetsFetched
<1>. HIDE DEF k, lines
<1>2. LET t == Store(lines, k, "S", answer[c])
      IN  /\ Dict(t)
          /\ Lines(t) = Others(lines, k) \cup {[key |-> k, state |-> "S", value |-> answer[c]]}
          /\ Len(t) <= Len(lines) + 1
  BY <1>1, StoreDict
<1>3. QED
  BY <1>2 DEF k, lines

\* An executed request makes no line MODIFIED and no cache longer.
LEMMA ExecutedDict ==
  ASSUME CacheInv, NEW n \in Nodes, lockq[n] # << >>, Head(lockq[n]) \in Request,
         NEW s, NEW v, Removes(n, s) \/ Shares(n, s, v)
  PROVE  /\ Dict(s) /\ Len(s) <= Len(cache[n])
         /\ \A l \in Lines(s) : l.state = "M" => l \in Lines(cache[n])
         /\ \A l \in Lines(s) : \E x \in Lines(cache[n]) : x.key = l.key /\ x.value = l.value
         /\ Removes(n, s) => \A l \in Lines(s) : l.key # call[Head(lockq[n]).of].key
<1>. DEFINE q == Head(lockq[n])
            k == call[q.of].key
            w == Wanted(q)
            lines == cache[n]
<1>1. Dict(lines) /\ Len(lines) \in Nat
  BY DictSeq DEF CacheInv, CacheTypes
<1>2. k \in Keys
  <2>1. lockq[n] \in Seq(Task)
    BY DEF CacheInv, CacheTypes
  <2>2. 1 \in DOMAIN lockq[n] /\ lockq[n][1] = q
    BY <2>1, HeadTailProperties, EmptySeq, LenProperties
  <2>3. Sent(q) /\ q.of \in Calls
    BY <2>2, TargetType DEF CacheInv, RequestsRight, Request
  <2>4. QED
    BY <2>3, CallTypes DEF Sent
<1>3. CASE Removes(n, s)
  <2>1. s = Without(lines, k)
    BY <1>3 DEF Removes
  <2>2. /\ Dict(s) /\ Lines(s) = Others(lines, k)
        /\ Len(s) = IF Has(lines, k) THEN Len(lines) - 1 ELSE Len(lines)
    BY <1>1, <2>1, WithoutDict
  <2>3. Len(s) <= Len(lines)
    BY <1>1, <2>2
  <2>4. QED
    BY <2>2, <2>3 DEF Others
<1>4. CASE Shares(n, s, v)
  <2>1. ~Removes(n, s)
    BY <1>4 DEF Removes, Shares
  <2>2. CASE s = lines
    BY <1>1, <2>1, <2>2
  <2>3. CASE Has(lines, w) /\ v = At(lines, w).value /\ s = Store(lines, w, "S", v)
    <3>0. At(lines, w) \in Lines(lines) /\ At(lines, w) \in Line /\ At(lines, w).key = w
      <4>. HIDE DEF lines, w
      <4>1. QED
        BY <1>1, <2>3, AtIs
    <3>. HIDE DEF w
    <3>1. w \in Keys /\ v \in Calls /\ \E x \in Lines(lines) : x.key = w /\ x.value = v
      BY <2>3, <3>0 DEF Line
    <3>2. /\ Dict(s) /\ Len(s) = Len(lines)
          /\ Lines(s) = Others(lines, w) \cup {[key |-> w, state |-> "S", value |-> v]}
      BY <1>1, <2>3, <3>1, StoreDict
    <3>3. Len(s) <= Len(lines)
      BY <1>1, <3>2
    <3>4. QED
      BY <2>1, <3>1, <3>2, <3>3 DEF Others
  <2>4. QED
    BY <1>4, <2>2, <2>3 DEF Shares
<1>5. QED
  BY <1>3, <1>4

-----------------------------------------------------------------------------

LEMMA CallKeeps ==
  ASSUME CacheInv, NEW c \in Calls, CallStep(c)
  PROVE  CacheInv'
<1>1. Calling(c) /\ Holds(call[c].at, c)
  BY CallForms
<1>2. CASE AsksNext(c)
  <2>1. PICK s \in Kept(c) : AsksPeer(c, s)
    BY <1>2 DEF AsksNext
  <2>2. QED
    BY <1>1, <2>1, KeptDict, AskKeeps
<1>3. CASE GetsHit(c)
  BY <1>1, <1>3, HitDict, ReturnKeeps DEF GetsHit
<1>4. CASE GetsNothing(c)
  <2>1. Dict(cache[call[c].at])
    BY <1>1, CallTypes DEF Calling
  <2>2. QED
    BY <1>1, <1>4, <2>1, ReturnKeeps DEF GetsNothing
<1>5. CASE PutsLine(c)
  <2>1. PICK s \in Kept(c) : Return(c, Evict(Store(s, call[c].key, "M", c)), c)
    BY <1>5 DEF PutsLine
  <2>2. Dict(Evict(Store(s, call[c].key, "M", c)))
    BY <1>1, PutDict
  <2>3. QED
    BY <1>1, <2>1, <2>2, ReturnKeeps
<1>6. CASE GetsFetched(c)
  BY <1>1, <1>6, FetchedDict, ReturnKeeps DEF GetsFetched
<1>7. QED
  BY <1>2, <1>3, <1>4, <1>5, <1>6, CallForms

LEMMA CacheInvStep == CacheInv /\ [Next]_vars => CacheInv'
<1>. SUFFICES ASSUME CacheInv, [Next]_vars PROVE CacheInv'
  OBVIOUS
<1>1. ASSUME NEW c \in Calls, NEW o \in {"get", "put"}, NEW k \in Keys, NEW n \in Nodes,
             Arrive(c, o, k, n)
      PROVE  CacheInv'
  BY <1>1, ArriveKeeps
<1>2. ASSUME NEW c \in Calls, CallStep(c) PROVE CacheInv'
  BY <1>2, CallKeeps
<1>3. ASSUME NEW q \in wire, Deliver(q) \/ Lose(q) PROVE CacheInv'
  BY <1>3, DeliverKeeps, LoseKeeps
<1>4. ASSUME NEW n \in Nodes, NodeStep(n) PROVE CacheInv'
  <2>1. lockq[n] # << >> /\ Head(lockq[n]) \in Request
    BY <1>4, NodeForms
  <2>2. PICK s, v : /\ Removes(n, s) \/ Shares(n, s, v)
                    /\ v \in Calls \cup {Nothing} /\ Answer(Head(lockq[n]), n, s, v)
    BY <1>4, NodeForms
  <2>3. Dict(s)
    BY <2>1, <2>2, ExecutedDict
  <2>4. QED
    BY <2>1, <2>2, <2>3, AnswerKeeps
<1>5. ASSUME NEW n \in Nodes, Restart(n) PROVE CacheInv'
  BY <1>5, RestartKeeps
<1>6. CASE UNCHANGED vars
  BY <1>6 DEF vars, CacheInv, CacheTypes, CallsRight, RequestsRight, Waits, Holds, Sent, Target
<1>7. QED
  BY <1>1, <1>2, <1>3, <1>4, <1>5, <1>6 DEF Next, Arrivals

LEMMA CacheInvariant == Init /\ [][Next]_vars => []CacheInv
BY CacheInvInit, CacheInvStep, PTL

NotesTypes == missed \in SUBSET (Keys \X Nodes) /\ unsure \in SUBSET Keys

LEMMA NotesStep == CacheInv /\ NotesTypes /\ [Next]_vars => NotesTypes'
<1>. SUFFICES ASSUME CacheInv, NotesTypes, [Next]_vars PROVE NotesTypes'
  OBVIOUS
<1>. USE DEF NotesTypes
<1>1. ASSUME NEW c \in Calls, NEW o \in {"get", "put"}, NEW k \in Keys, NEW n \in Nodes,
             Arrive(c, o, k, n)
      PROVE  NotesTypes'
  BY <1>1 DEF Arrive, notes
<1>2. ASSUME NEW c \in Calls, CallStep(c) PROVE NotesTypes'
  <2>1. call[c].key \in Keys
    BY <1>2, CallForms, CallTypes DEF Calling
  <2>2. missed' = missed /\ unsure' \in {unsure, unsure \ {call[c].key}, unsure \cup {call[c].key}}
    BY <1>2 DEF CallStep, Get, Put, Continue, Timeout, notes
  <2>3. QED
    BY <2>1, <2>2
<1>3. ASSUME NEW q \in wire, Deliver(q) \/ Lose(q) PROVE NotesTypes'
  <2>1. q \in Request /\ Sent(q)
    BY DEF CacheInv, CacheTypes, RequestsRight
  <2>2. Target(q) \in Nodes /\ call[q.of].key \in Keys
    BY <2>1, TargetType, CallTypes DEF Sent
  <2>3. QED
    BY <1>3, <2>2 DEF Deliver, Lose, notes
<1>4. ASSUME NEW n \in Nodes, NodeStep(n) PROVE NotesTypes'
  BY <1>4 DEF NodeStep, HandleInvalidate, HandleFetch, notes
<1>5. ASSUME NEW n \in Nodes, Restart(n) PROVE NotesTypes'
  <2>1. \A c \in Running : call[c].key \in Keys
    BY CallTypes DEF Running
  <2>2. missed' = missed \ (Keys \X {n}) /\ \A k \in unsure' : k \in Keys
    BY <1>5, <2>1 DEF Restart
  <2>3. QED
    BY <2>2
<1>6. CASE UNCHANGED vars
  BY <1>6 DEF vars
<1>7. QED
  BY <1>1, <1>2, <1>3, <1>4, <1>5, <1>6 DEF Next, Arrivals

\* Every cache, queue, call and request is well formed whatever calls time out,
\* requests are lost and nodes restart.
THEOREM CachesWellFormed == Spec => []TypeOK
<1>1. Init => NotesTypes
  BY DEF Init, NotesTypes
<1>2. CacheInv /\ NotesTypes => TypeOK
  BY DEF CacheInv, CacheTypes, NotesTypes, TypeOK
<1>3. QED
  BY <1>1, <1>2, CacheInvariant, NotesStep, PTL DEF Spec

-----------------------------------------------------------------------------
(* ExcessIsFetched: a finite set of calls pays for the lines over Capacity. *)

\* The gets of n that have answered None.
Fetched(n) == {c \in Calls : /\ pc[c] = "done" /\ result[c] = Nothing
                             /\ call[c].op = "get" /\ call[c].at = n}

ExcessInv == \A n \in Nodes :
  IsFiniteSet(Fetched(n)) /\ Len(cache[n]) <= Capacity + Cardinality(Fetched(n))

\* No cache grows over its capacity, and no get answers None.
NotLonger == \A n \in Nodes : Len(cache'[n]) <= Len(cache[n]) \/ Len(cache'[n]) <= Capacity

DoneStays == \A d \in Calls :
  /\ pc'[d] = "done" <=> pc[d] = "done"
  /\ pc[d] = "done" => call'[d] = call[d] /\ result'[d] = result[d]

LEMMA LengthTypes ==
  CacheInv => \A n \in Nodes : Len(cache[n]) \in Nat /\ Capacity \in Nat
BY DictSeq, BoundsAssumption DEF CacheInv, CacheTypes

LEMMA LengthWill ==
  (CacheInv => \A n \in Nodes : Len(cache[n]) \in Nat /\ Capacity \in Nat)'
BY LengthTypes, PTL

LEMMA ExcessSame ==
  ASSUME CacheInv, CacheInv', ExcessInv, DoneStays, NotLonger
  PROVE  ExcessInv'
<1>1. ASSUME NEW n \in Nodes PROVE Fetched(n)' = Fetched(n)
  BY DEF DoneStays, Fetched
<1>2. ASSUME NEW n \in Nodes PROVE Len(cache'[n]) \in Nat
  BY LengthWill
<1>3. ASSUME NEW n \in Nodes PROVE Len(cache'[n]) <= Capacity + Cardinality(Fetched(n))
  <2>1. /\ Cardinality(Fetched(n)) \in Nat /\ Len(cache[n]) \in Nat /\ Capacity \in Nat
        /\ Len(cache[n]) <= Capacity + Cardinality(Fetched(n))
    BY FS_CardinalityType, LengthTypes DEF ExcessInv
  <2>2. QED
    BY <1>2, <2>1 DEF NotLonger
<1>4. QED
  BY <1>1, <1>3 DEF ExcessInv

\* A call that returns.
LEMMA ExcessReturn ==
  ASSUME CacheInv, CacheInv', ExcessInv, NEW c \in Calls, Calling(c),
         NEW s, NEW v \in Calls \cup {Nothing}, Return(c, s, v),
         \/ Len(s) <= Len(cache[call[c].at]) \/ Len(s) <= Capacity
         \/ /\ call[c].op = "get" /\ v = Nothing
            /\ Len(s) <= Len(cache[call[c].at]) + 1
  PROVE  ExcessInv'
<1>1. PICK m \in Nodes : m = call[c].at
  BY CallTypes DEF Calling
<1>. DEFINE F == Fetched(m)
<1>2. /\ cache' = [cache EXCEPT ![m] = s] /\ call' = call
      /\ pc' = [pc EXCEPT ![c] = "done"] /\ result' = [result EXCEPT ![c] = v]
  BY <1>1 DEF Return
<1>3. ASSUME NEW n \in Nodes
      PROVE  Fetched(n)' = IF call[c].op = "get" /\ v = Nothing /\ m = n
                             THEN Fetched(n) \cup {c} ELSE Fetched(n)
  <2>1. ASSUME NEW d \in Calls, d # c PROVE d \in Fetched(n)' <=> d \in Fetched(n)
    <3>1. pc'[d] = pc[d] /\ result'[d] = result[d] /\ call'[d] = call[d]
      BY <1>2, <2>1 DEF CacheInv, CacheTypes
    <3>2. QED
      BY <3>1 DEF Fetched
  <2>2. c \notin Fetched(n)
    BY DEF Fetched, Calling
  <2>3. c \in Fetched(n)' <=> call[c].op = "get" /\ v = Nothing /\ m = n
    <3>1. pc'[c] = "done" /\ result'[c] = v /\ call'[c] = call[c]
      BY <1>2 DEF CacheInv, CacheTypes
    <3>2. QED
      BY <1>1, <3>1 DEF Fetched
  <2>4. \A d \in Fetched(n) : d \in Calls
    BY DEF Fetched
  <2>5. \A d \in Fetched(n)' : d \in Calls
    BY DEF Fetched
  <2>6. CASE call[c].op = "get" /\ v = Nothing /\ m = n
    BY <2>1, <2>3, <2>4, <2>5, <2>6
  <2>7. CASE ~(call[c].op = "get" /\ v = Nothing /\ m = n)
    <3>1. c \notin Fetched(n)'
      BY <2>3, <2>7
    <3>2. ASSUME NEW d PROVE d \in Fetched(n)' <=> d \in Fetched(n)
      <4>1. CASE d \in Calls /\ d # c
        BY <2>1, <4>1
      <4>2. CASE d \notin Calls
        BY <2>4, <2>5, <4>2
      <4>3. CASE d = c
        BY <2>2, <3>1, <4>3
      <4>4. QED
        BY <4>1, <4>2, <4>3
    <3>3. Fetched(n)' = Fetched(n)
      BY <3>2
    <3>4. QED
      BY <2>7, <3>3
  <2>8. QED
    BY <2>6, <2>7
<1>4. c \notin F
  BY DEF Fetched, Calling
<1>5. /\ IsFiniteSet(F) /\ Cardinality(F) \in Nat /\ Len(cache[m]) \in Nat /\ Capacity \in Nat
      /\ Len(cache[m]) <= Capacity + Cardinality(F)
  BY <1>1, FS_CardinalityType, LengthTypes DEF ExcessInv
<1>6. IsFiniteSet(F \cup {c}) /\ Cardinality(F \cup {c}) = Cardinality(F) + 1
  BY <1>4, <1>5, FS_AddElement
<1>7. cache'[m] = s /\ Len(s) \in Nat
  <2>1. cache'[m] = s
    BY <1>1, <1>2 DEF CacheInv, CacheTypes
  <2>2. QED
    BY <1>1, <2>1, LengthWill
<1>8. ASSUME NEW n \in Nodes, n # m
      PROVE  IsFiniteSet(Fetched(n)') /\ Len(cache'[n]) <= Capacity + Cardinality(Fetched(n)')
  <2>1. Fetched(n)' = Fetched(n) /\ cache'[n] = cache[n]
    BY <1>2, <1>3, <1>8 DEF CacheInv, CacheTypes
  <2>2. QED
    BY <2>1 DEF ExcessInv
<1>9. IsFiniteSet(Fetched(m)') /\ Len(s) <= Capacity + Cardinality(Fetched(m)')
  <2>. HIDE DEF F
  <2>1. CASE call[c].op = "get" /\ v = Nothing
    <3>1. Fetched(m)' = F \cup {c}
      BY <1>1, <1>3, <2>1 DEF F
    <3>2. Len(s) <= Capacity + (Cardinality(F) + 1)
      BY <1>1, <1>5, <1>7
    <3>3. QED
      BY <1>6, <3>1, <3>2
  <2>2. CASE ~(call[c].op = "get" /\ v = Nothing)
    <3>1. Fetched(m)' = F
      BY <1>1, <1>3, <2>2 DEF F
    <3>2. Len(s) <= Len(cache[m]) \/ Len(s) <= Capacity
      BY <1>1, <2>2
    <3>3. Len(s) <= Capacity + Cardinality(F)
      BY <1>5, <1>7, <3>2
    <3>4. QED
      BY <1>5, <3>1, <3>3
  <2>3. QED
    BY <2>1, <2>2
<1>10. QED
  BY <1>7, <1>8, <1>9 DEF ExcessInv

LEMMA OneCacheShrinks ==
  ASSUME CacheInv, NEW m \in Nodes, NEW s, cache' = [cache EXCEPT ![m] = s],
         Len(s) <= Len(cache[m])
  PROVE  NotLonger
<1>1. ASSUME NEW n \in Nodes PROVE cache'[n] = IF n = m THEN s ELSE cache[n]
  BY DEF CacheInv, CacheTypes
<1>2. \A n \in Nodes : Len(cache[n]) <= Len(cache[n])
  BY LengthTypes
<1>3. QED
  BY <1>1, <1>2 DEF NotLonger

LEMMA ExcessCall ==
  ASSUME CacheInv, CacheInv', ExcessInv, NEW c \in Calls, CallStep(c)
  PROVE  ExcessInv'
<1>1. Calling(c) /\ call[c].at \in Nodes
  BY CallForms, CallTypes DEF Calling
<1>2. CASE AsksNext(c)
  <2>1. PICK s \in Kept(c) : AsksPeer(c, s)
    BY <1>2 DEF AsksNext
  <2>2. /\ cache' = [cache EXCEPT ![call[c].at] = s] /\ pc' = [pc EXCEPT ![c] = "call"]
        /\ call' = call /\ result' = result
    BY <2>1 DEF AsksPeer
  <2>3. NotLonger
    BY <1>1, <2>2, KeptDict, OneCacheShrinks
  <2>4. DoneStays
    BY <1>1, <2>2 DEF DoneStays, Calling, CacheInv, CacheTypes
  <2>5. QED
    BY <2>3, <2>4, ExcessSame
<1>3. CASE GetsHit(c)
  <2>. DEFINE lines == cache[call[c].at]
              line == At(lines, call[c].key)
              s == Store(lines, call[c].key, line.state, line.value)
  <2>1. Len(s) = Len(lines) /\ line.value \in Calls /\ Return(c, s, line.value)
    BY <1>1, <1>3, HitDict DEF GetsHit
  <2>2. Len(lines) \in Nat
    BY <1>1, LengthTypes
  <2>. HIDE DEF s, line
  <2>3. Len(s) <= Len(lines)
    BY <2>1, <2>2
  <2>4. QED
    BY <1>1, <2>1, <2>3, ExcessReturn
<1>4. CASE GetsNothing(c)
  <2>1. Len(cache[call[c].at]) <= Len(cache[call[c].at])
    BY <1>1, LengthTypes
  <2>2. QED
    BY <1>1, <1>4, <2>1, ExcessReturn DEF GetsNothing
<1>5. CASE PutsLine(c)
  <2>1. PICK s \in Kept(c) : Return(c, Evict(Store(s, call[c].key, "M", c)), c)
    BY <1>5 DEF PutsLine
  <2>2. LET t == Evict(Store(s, call[c].key, "M", c))
        IN  Len(t) <= Len(cache[call[c].at]) \/ Len(t) <= Capacity
    BY <1>1, PutDict
  <2>3. QED
    BY <1>1, <2>1, <2>2, ExcessReturn
<1>6. CASE GetsFetched(c)
  <2>1. Len(Store(cache[call[c].at], call[c].key, "S", answer[c])) <= Len(cache[call[c].at]) + 1
    BY <1>1, <1>6, FetchedDict
  <2>2. QED
    BY <1>1, <1>6, <2>1, ExcessReturn DEF GetsFetched
<1>7. QED
  BY <1>2, <1>3, <1>4, <1>5, <1>6, CallForms

LEMMA ExcessStep == CacheInv /\ CacheInv' /\ ExcessInv /\ [Next]_vars => ExcessInv'
<1>. SUFFICES ASSUME CacheInv, CacheInv', ExcessInv, [Next]_vars PROVE ExcessInv'
  OBVIOUS
<1>1. ASSUME NEW c \in Calls, NEW o \in {"get", "put"}, NEW k \in Keys, NEW n \in Nodes,
             Arrive(c, o, k, n)
      PROVE  ExcessInv'
  <2>1. DoneStays
    BY <1>1 DEF Arrive, DoneStays, CacheInv, CacheTypes
  <2>2. NotLonger
    BY <1>1, LengthTypes DEF Arrive, NotLonger
  <2>3. QED
    BY <2>1, <2>2, ExcessSame
<1>2. ASSUME NEW c \in Calls, CallStep(c) PROVE ExcessInv'
  BY <1>2, ExcessCall
<1>3. ASSUME NEW q \in wire, Deliver(q) \/ Lose(q) PROVE ExcessInv'
  <2>1. DoneStays
    BY <1>3 DEF Deliver, Lose, DoneStays
  <2>2. NotLonger
    BY <1>3, LengthTypes DEF Deliver, Lose, NotLonger
  <2>3. QED
    BY <2>1, <2>2, ExcessSame
<1>4. ASSUME NEW n \in Nodes, NodeStep(n) PROVE ExcessInv'
  <2>1. lockq[n] # << >> /\ Head(lockq[n]) \in Request
    BY <1>4, NodeForms
  <2>2. PICK s, v : /\ Removes(n, s) \/ Shares(n, s, v)
                    /\ v \in Calls \cup {Nothing} /\ Answer(Head(lockq[n]), n, s, v)
    BY <1>4, NodeForms
  <2>3. Len(s) <= Len(cache[n])
    BY <2>1, <2>2, ExecutedDict
  <2>4. cache' = [cache EXCEPT ![n] = s] /\ UNCHANGED <<call, result>>
    BY <2>2 DEF Answer
  <2>5. DoneStays
    <3>1. ASSUME NEW d \in Calls
          PROVE  pc'[d] = pc[d] \/ (pc[d] = "call" /\ pc'[d] = "answered")
      BY <2>2 DEF Answer, CacheInv, CacheTypes
    <3>2. QED
      BY <2>4, <3>1 DEF DoneStays
  <2>6. QED
    BY <2>3, <2>4, <2>5, OneCacheShrinks, ExcessSame
<1>5. ASSUME NEW n \in Nodes, Restart(n) PROVE ExcessInv'
  <2>1. cache' = [cache EXCEPT ![n] = << >>] /\ UNCHANGED <<call, result>>
    BY <1>5 DEF Restart
  <2>2. Len(<< >>) <= Len(cache[n])
    BY LengthTypes
  <2>3. DoneStays
    <3>1. ASSUME NEW d \in Calls
          PROVE  pc'[d] = pc[d] \/ (Calling(d) /\ pc'[d] = "lost")
      BY <1>5 DEF Restart, Running, Calling
    <3>2. QED
      BY <2>1, <3>1 DEF DoneStays, Calling
  <2>4. QED
    BY <2>1, <2>2, <2>3, OneCacheShrinks, ExcessSame
<1>6. CASE UNCHANGED vars
  <2>1. DoneStays /\ NotLonger
    BY <1>6, LengthTypes DEF vars, DoneStays, NotLonger
  <2>2. QED
    BY <2>1, ExcessSame
<1>7. QED
  BY <1>1, <1>2, <1>3, <1>4, <1>5, <1>6 DEF Next, Arrivals

\* A cache exceeds its capacity by lines it has fetched only: one for each get
\* of its node that has answered None, so put and its eviction never add to the
\* excess, for any capacity and any number of calls.
THEOREM ExcessFetched == Spec => []ExcessIsFetched
<1>1. Init => ExcessInv
  <2>. SUFFICES ASSUME Init, NEW n \in Nodes
               PROVE  IsFiniteSet(Fetched(n)) /\ Len(cache[n]) <= Capacity + Cardinality(Fetched(n))
    BY DEF ExcessInv
  <2>1. Fetched(n) = {}
    BY DEF Init, Fetched
  <2>2. cache[n] = << >>
    BY DEF Init
  <2>3. QED
    BY <2>1, <2>2, FS_EmptySet, BoundsAssumption
<1>2. ExcessInv => ExcessIsFetched
  BY DEF ExcessInv, ExcessIsFetched, Fetched
<1>3. QED
  BY <1>1, <1>2, CacheInvariant, ExcessStep, PTL DEF Spec

-----------------------------------------------------------------------------
(* OwnersCollide.  A put claims a key from the peers it has told so far, and an *)
(* owner from everyone; two nodes claim a key from each other only while one of *)
(* them has still to be told, or has missed an invalidation.                    *)

\* A put of k at n that has told peers.
Puts(c, n, k) ==
  Waits(c) /\ call[c].op = "put" /\ call[c].key = k /\ call[c].at = n

Claims(n, m, k) ==
  Owns(n, k) \/ \E c \in Calls : Puts(c, n, k) /\ \E i \in 1 .. asked[c] : Peers[n][i] = m

\* An invalidation of k for m or n is still to be executed, or was lost.
Told(m, n, k) ==
  \/ \E q \in Pending :
       call[q.of].op = "put" /\ call[q.of].key = k /\ Target(q) \in {m, n}
  \/ <<k, m>> \in missed
  \/ <<k, n>> \in missed

ClaimsInv == \A m, n \in Nodes, k \in Keys :
  m # n /\ Claims(m, n, k) /\ Claims(n, m, k) => Told(m, n, k)

LEMMA OwnsIs ==
  CacheInv => \A n \in Nodes, k \in Keys :
                Owns(n, k) <=> \E l \in Lines(cache[n]) : l.key = k /\ l.state = "M"
<1>. SUFFICES ASSUME CacheInv, NEW n \in Nodes, NEW k \in Keys
             PROVE  Owns(n, k) <=> \E l \in Lines(cache[n]) : l.key = k /\ l.state = "M"
  OBVIOUS
<1>1. Dict(cache[n])
  BY DEF CacheInv, CacheTypes
<1>2. QED
  BY <1>1, AtIs DEF Owns

LEMMA OwnsWill ==
  (CacheInv => \A n \in Nodes, k \in Keys :
                 Owns(n, k) <=> \E l \in Lines(cache[n]) : l.key = k /\ l.state = "M")'
BY OwnsIs, PTL

LEMMA PendingIs ==
  ASSUME NEW q
  PROVE  q \in Pending <=>
           q \in wire \/ (q \in Request /\ \E n \in Nodes : \E i \in DOMAIN lockq[n] : lockq[n][i] = q)
BY DEF Pending

LEMMA PendingSent ==
  ASSUME CacheInv, NEW q \in Pending
  PROVE  q \in Request /\ q.of \in Calls /\ pc[q.of] # "new"
<1>1. q \in Request /\ Sent(q)
  BY PendingIs DEF CacheInv, CacheTypes, RequestsRight
<1>2. QED
  BY <1>1 DEF Request, Sent

\* A step after which every request that was pending is, and all that was missed.
KeepsPending ==
  /\ \A q \in Pending : q \in Pending' /\ call'[q.of] = call[q.of]
  /\ missed \subseteq missed'

\* A step with which no put has told another peer.
TellsNobody == \A d \in Calls :
  pc'[d] \in {"call", "answered"} =>
    Waits(d) /\ call'[d] = call[d] /\ asked'[d] = asked[d]

LEMMA OwnsFall ==
  ASSUME CacheInv, CacheInv', NEW m \in Nodes, NEW s, cache' = [cache EXCEPT ![m] = s],
         \A l \in Lines(s) : l.state = "M" => l \in Lines(cache[m])
  PROVE  \A n \in Nodes, k \in Keys : Owns(n, k)' => Owns(n, k)
<1>1. ASSUME NEW n \in Nodes PROVE cache'[n] = IF n = m THEN s ELSE cache[n]
  BY DEF CacheInv, CacheTypes
<1>2. ASSUME NEW n \in Nodes, NEW k \in Keys, Owns(n, k)' PROVE Owns(n, k)
  <2>1. PICK l \in Lines(cache'[n]) : l.key = k /\ l.state = "M"
    BY <1>2, OwnsWill
  <2>2. l \in Lines(cache[n])
    BY <1>1, <2>1
  <2>3. QED
    BY <2>1, <2>2, OwnsIs
<1>3. QED
  BY <1>2

LEMMA ClaimsFall ==
  ASSUME TellsNobody, \A n \in Nodes, k \in Keys : Owns(n, k)' => Owns(n, k)
  PROVE  \A m, n \in Nodes, k \in Keys : Claims(n, m, k)' => Claims(n, m, k)
<1>1. ASSUME NEW m \in Nodes, NEW n \in Nodes, NEW k \in Keys, Claims(n, m, k)'
      PROVE  Claims(n, m, k)
  <2>1. CASE Owns(n, k)'
    BY <2>1 DEF Claims
  <2>2. ASSUME NEW c \in Calls, Puts(c, n, k)', NEW i \in 1 .. asked'[c], Peers[n][i] = m
        PROVE  Claims(n, m, k)
    <3>1. Waits(c) /\ call'[c] = call[c] /\ asked'[c] = asked[c]
      BY <2>2 DEF Puts, Waits, TellsNobody
    <3>2. QED
      BY <2>2, <3>1 DEF Puts, Claims
  <2>3. QED
    BY <1>1, <2>1, <2>2 DEF Claims
<1>2. QED
  BY <1>1

LEMMA ToldKept ==
  ASSUME KeepsPending, NEW m, NEW n, NEW k, Told(m, n, k)
  PROVE  Told(m, n, k)'
BY DEF KeepsPending, Told, Target

LEMMA ClaimsSame ==
  ASSUME ClaimsInv, KeepsPending,
         \A m, n \in Nodes, k \in Keys :
           m # n /\ Claims(n, m, k)' => Claims(n, m, k) \/ Told(m, n, k)'
  PROVE  ClaimsInv'
<1>1. ASSUME NEW m \in Nodes, NEW n \in Nodes, NEW k \in Keys, m # n,
             Claims(m, n, k)', Claims(n, m, k)'
      PROVE  Told(m, n, k)'
  <2>1. Told(n, m, k)' => Told(m, n, k)'
    BY DEF Told
  <2>2. CASE Claims(m, n, k) /\ Claims(n, m, k)
    BY <1>1, <2>2, ToldKept DEF ClaimsInv
  <2>3. QED
    BY <1>1, <2>1, <2>2
<1>2. QED
  BY <1>1 DEF ClaimsInv

\* The call that holds its lock returns: no request leaves a queue, and no put
\* tells a peer.
LEMMA ReturnTells ==
  ASSUME CacheInv, NEW c \in Calls, Calling(c), Holds(call[c].at, c), NEW s, NEW v, Return(c, s, v),
         missed' = missed
  PROVE  KeepsPending /\ TellsNobody
<1>. DEFINE n == call[c].at
<1>1. /\ n \in Nodes /\ lockq \in [Nodes -> Seq(Task)] /\ lockq[n] # << >>
      /\ Head(lockq[n]) = c /\ c \notin Request
  BY CallTypes, TasksAssumption DEF Calling, Holds, CacheInv, CacheTypes
<1>2. /\ lockq' = [lockq EXCEPT ![n] = Tail(lockq[n])] /\ pc' = [pc EXCEPT ![c] = "done"]
      /\ UNCHANGED <<call, asked, wire>>
  BY DEF Return
<1>. HIDE DEF n
<1>3. TellsNobody
  BY <1>2 DEF TellsNobody, Waits, CacheInv, CacheTypes
<1>4. ASSUME NEW q \in Pending PROVE q \in Pending'
  <2>1. CASE q \in wire
    BY <1>2, <2>1 DEF Pending
  <2>2. ASSUME q \in Request, NEW m \in Nodes, NEW j \in DOMAIN lockq[m], lockq[m][j] = q
        PROVE  \E i \in DOMAIN lockq'[m] : lockq'[m][i] = q
    <3>1. CASE m = n
      <4>1. \E i \in DOMAIN Tail(lockq[n]) : Tail(lockq[n])[i] = q
        BY <1>1, <2>2, <3>1, QueueLeave
      <4>2. QED
        BY <1>1, <1>2, <3>1, <4>1
    <3>2. CASE m # n
      BY <1>1, <1>2, <2>2, <3>2
    <3>3. QED
      BY <3>1, <3>2
  <2>3. CASE q \in Request /\ \E m \in Nodes : \E j \in DOMAIN lockq[m] : lockq[m][j] = q
    BY <2>2, <2>3 DEF Pending
  <2>4. QED
    BY <2>1, <2>3, PendingIs
<1>5. QED
  BY <1>2, <1>3, <1>4 DEF KeepsPending

\* A request joins the queue of its peer, or a call that of its node.
LEMMA ArriveTells ==
  ASSUME CacheInv, NEW c \in Calls, NEW o \in {"get", "put"}, NEW k \in Keys, NEW a \in Nodes,
         Arrive(c, o, k, a)
  PROVE  KeepsPending /\ TellsNobody
<1>1. /\ pc[c] = "new" /\ pc' = [pc EXCEPT ![c] = "wait"]
      /\ call' = [call EXCEPT ![c] = [op |-> o, key |-> k, at |-> a]]
      /\ lockq' = [lockq EXCEPT ![a] = Append(lockq[a], c)]
      /\ UNCHANGED <<cache, asked, wire, missed>>
  BY DEF Arrive, notes
<1>2. TellsNobody
  BY <1>1 DEF TellsNobody, Waits, CacheInv, CacheTypes
<1>3. ASSUME NEW q \in Pending PROVE q \in Pending' /\ call'[q.of] = call[q.of]
  <2>1. call'[q.of] = call[q.of]
    BY <1>1, PendingSent DEF CacheInv, CacheTypes
  <2>2. CASE q \in wire
    BY <1>1, <2>1, <2>2 DEF Pending
  <2>3. ASSUME q \in Request, NEW m \in Nodes, NEW j \in DOMAIN lockq[m], lockq[m][j] = q
        PROVE  \E i \in DOMAIN lockq'[m] : lockq'[m][i] = q
    <3>1. lockq \in [Nodes -> Seq(Task)] /\ c \in Task
      BY DEF CacheInv, CacheTypes, Task
    <3>2. \E i \in DOMAIN Append(lockq[m], c) : Append(lockq[m], c)[i] = q
      BY <2>3, <3>1, QueueJoin
    <3>3. lockq'[m] = IF m = a THEN Append(lockq[m], c) ELSE lockq[m]
      BY <1>1, <3>1
    <3>4. QED
      BY <2>3, <3>2, <3>3
  <2>4. CASE q \in Request /\ \E m \in Nodes : \E j \in DOMAIN lockq[m] : lockq[m][j] = q
    BY <2>1, <2>3, <2>4 DEF Pending
  <2>5. QED
    BY <2>2, <2>4, PendingIs
<1>4. KeepsPending
  BY <1>1, <1>3 DEF KeepsPending
<1>5. QED
  BY <1>2, <1>4

LEMMA DeliverTells ==
  ASSUME CacheInv, NEW r \in wire, Deliver(r)
  PROVE  KeepsPending /\ TellsNobody
<1>1. r \in Request /\ Sent(r)
  BY DEF CacheInv, CacheTypes, RequestsRight
<1>2. PICK a \in Nodes : a = Target(r)
  BY <1>1, TargetType
<1>3. /\ wire' = wire \ {r} /\ lockq' = [lockq EXCEPT ![a] = Append(lockq[a], r)]
      /\ UNCHANGED <<cache, call, pc, asked, missed>>
  BY <1>2 DEF Deliver, notes
<1>4. TellsNobody
  BY <1>3 DEF TellsNobody, Waits
<1>5. /\ \E i \in DOMAIN lockq'[a] : lockq'[a][i] = r
      /\ \A m \in Nodes : \A j \in DOMAIN lockq[m] :
           \E i \in DOMAIN lockq'[m] : lockq'[m][i] = lockq[m][j]
  <2>1. lockq \in [Nodes -> Seq(Task)] /\ r \in Task
    BY <1>1 DEF CacheInv, CacheTypes, Task
  <2>2. lockq'[a] = Append(lockq[a], r) /\ \A m \in Nodes \ {a} : lockq'[m] = lockq[m]
    BY <1>3, <2>1
  <2>3. /\ \E i \in DOMAIN Append(lockq[a], r) : Append(lockq[a], r)[i] = r
        /\ \A j \in DOMAIN lockq[a] :
             \E i \in DOMAIN Append(lockq[a], r) : Append(lockq[a], r)[i] = lockq[a][j]
    BY <2>1, QueueJoin
  <2>4. ASSUME NEW m \in Nodes \ {a}, NEW j \in DOMAIN lockq[m]
        PROVE  \E i \in DOMAIN lockq'[m] : lockq'[m][i] = lockq[m][j]
    BY <2>2
  <2>5. QED
    BY <2>2, <2>3, <2>4
<1>6. ASSUME NEW q \in Pending PROVE q \in Pending'
  <2>1. CASE q = r
    BY <1>1, <1>5, <2>1 DEF Pending
  <2>2. CASE q \in wire /\ q # r
    BY <1>3, <2>2 DEF Pending
  <2>3. ASSUME q \in Request, NEW m \in Nodes, NEW j \in DOMAIN lockq[m], lockq[m][j] = q
        PROVE  \E i \in DOMAIN lockq'[m] : lockq'[m][i] = q
    BY <1>5, <2>3
  <2>4. CASE q \in Request /\ \E m \in Nodes : \E j \in DOMAIN lockq[m] : lockq[m][j] = q
    BY <2>3, <2>4 DEF Pending
  <2>5. QED
    BY <2>1, <2>2, <2>4, PendingIs
<1>7. KeepsPending
  BY <1>3, <1>6 DEF KeepsPending
<1>8. QED
  BY <1>4, <1>7

\* A request is executed: no other leaves.
LEMMA AnswerTells ==
  ASSUME CacheInv, NEW a \in Nodes, lockq[a] # << >>, NEW r \in Request, r = Head(lockq[a]),
         NEW s, NEW v, Answer(r, a, s, v)
  PROVE  TellsNobody /\ \A q \in Pending : q # r => q \in Pending'
<1>1. /\ lockq' = [lockq EXCEPT ![a] = Tail(lockq[a])] /\ UNCHANGED <<call, asked, wire>>
      /\ pc' = pc \/ (pc[r.of] = "call" /\ pc' = [pc EXCEPT ![r.of] = "answered"])
  BY DEF Answer
<1>2. TellsNobody
  <2>1. ASSUME NEW d \in Calls, pc'[d] \in {"call", "answered"} PROVE Waits(d)
    BY <1>1, <2>1 DEF Waits, CacheInv, CacheTypes
  <2>2. QED
    BY <1>1, <2>1 DEF TellsNobody
<1>3. ASSUME NEW q \in Pending, q # r PROVE q \in Pending'
  <2>1. CASE q \in wire
    BY <1>1, <2>1 DEF Pending
  <2>2. ASSUME q \in Request, NEW m \in Nodes, NEW j \in DOMAIN lockq[m], lockq[m][j] = q
        PROVE  \E i \in DOMAIN lockq'[m] : lockq'[m][i] = q
    <3>0. lockq \in [Nodes -> Seq(Task)]
      BY DEF CacheInv, CacheTypes
    <3>1. CASE m = a
      <4>1. \E i \in DOMAIN Tail(lockq[a]) : Tail(lockq[a])[i] = q
        BY <1>3, <2>2, <3>0, <3>1, QueueLeave
      <4>2. QED
        BY <1>1, <3>0, <3>1, <4>1
    <3>2. CASE m # a
      BY <1>1, <2>2, <3>0, <3>2
    <3>3. QED
      BY <3>1, <3>2
  <2>3. CASE q \in Request /\ \E m \in Nodes : \E j \in DOMAIN lockq[m] : lockq[m][j] = q
    BY <2>2, <2>3 DEF Pending
  <2>4. QED
    BY <2>1, <2>3, PendingIs
<1>4. QED
  BY <1>2, <1>3

\* A put that has told every peer claims its key from all of them.
LEMMA ToldAll ==
  ASSUME CacheInv, PeersListed, NEW c \in Calls, Calling(c), call[c].op = "put",
         asked[c] = Len(Peers[call[c].at]), NEW m \in Nodes, m # call[c].at
  PROVE  Claims(call[c].at, m, call[c].key)
<1>. DEFINE n == call[c].at
<1>1. n \in Nodes /\ Peers[n] \in Seq(Nodes)
  BY CallTypes, PeersAssumption DEF Calling
<1>2. PICK i \in 1 .. asked[c] : Peers[n][i] = m
  <2>1. DOMAIN Peers[n] = 1 .. Len(Peers[n])
    BY <1>1, LenProperties
  <2>2. QED
    BY <1>1, <2>1 DEF PeersListed
<1>3. Waits(c)
  <2>1. asked[c] # 0
    BY <1>2
  <2>2. QED
    BY <2>1 DEF Waits, Calling, CacheInv, CallsRight
<1>4. QED
  BY <1>2, <1>3 DEF Claims, Puts

LEMMA ClaimsPut ==
  ASSUME CacheInv, CacheInv', PeersListed, ClaimsInv, NEW c \in Calls, Calling(c),
         Holds(call[c].at, c), PutsLine(c), missed' = missed
  PROVE  ClaimsInv'
<1>1. PICK s \in Kept(c) : Return(c, Evict(Store(s, call[c].key, "M", c)), c)
  BY DEF PutsLine
<1>2. KeepsPending /\ TellsNobody
  BY <1>1, ReturnTells
<1>3. PICK a \in Nodes, k \in Keys : a = call[c].at /\ k = call[c].key
  BY CallTypes DEF Calling
<1>. DEFINE t == Evict(Store(s, k, "M", c))
<1>4. Lines(t) \subseteq Others(cache[a], k) \cup {[key |-> k, state |-> "M", value |-> c]}
  BY <1>3, PutDict
<1>5. cache' = [cache EXCEPT ![a] = t]
  BY <1>1, <1>3 DEF Return
<1>. HIDE DEF t
<1>6. ASSUME NEW n \in Nodes, NEW l \in Keys, Owns(n, l)', ~(n = a /\ l = k)
      PROVE  Owns(n, l)
  <2>1. PICK x \in Lines(cache'[n]) : x.key = l /\ x.state = "M"
    BY <1>6, OwnsWill
  <2>2. cache'[n] = IF n = a THEN t ELSE cache[n]
    BY <1>5 DEF CacheInv, CacheTypes
  <2>3. x \in Lines(cache[n])
    BY <1>4, <1>6, <2>1, <2>2 DEF Others
  <2>4. QED
    BY <2>1, <2>3, OwnsIs
<1>7. ASSUME NEW m \in Nodes, m # a PROVE Claims(a, m, k)
  <2>1. CASE Owns(a, k)
    BY <2>1 DEF Claims
  <2>2. CASE asked[c] = Len(Peers[a])
    BY <1>3, <1>7, <2>2, ToldAll DEF PutsLine
  <2>3. QED
    BY <1>3, <2>1, <2>2 DEF PutsLine
<1>8. ASSUME NEW m \in Nodes, NEW n \in Nodes, NEW l \in Keys, m # n, Claims(n, m, l)'
      PROVE  Claims(n, m, l)
  <2>1. CASE n = a /\ l = k
    BY <1>7, <1>8, <2>1
  <2>2. CASE ~(n = a /\ l = k)
    <3>1. CASE Owns(n, l)'
      BY <1>6, <2>2, <3>1 DEF Claims
    <3>2. ASSUME NEW d \in Calls, Puts(d, n, l)', NEW i \in 1 .. asked'[d], Peers[n][i] = m
          PROVE  Claims(n, m, l)
      <4>1. Waits(d) /\ call'[d] = call[d] /\ asked'[d] = asked[d]
        BY <1>2, <3>2 DEF Puts, Waits, TellsNobody
      <4>2. QED
        BY <3>2, <4>1 DEF Puts, Claims
    <3>3. QED
      BY <1>8, <3>1, <3>2 DEF Claims
  <2>3. QED
    BY <2>1, <2>2
<1>9. QED
  BY <1>2, <1>8, ClaimsSame

\* A call that asks its next peer: the peer is told by the request.
LEMMA ClaimsAsk ==
  ASSUME CacheInv, CacheInv', ClaimsInv, NEW c \in Calls, Calling(c), AsksNext(c),
         missed' = missed
  PROVE  ClaimsInv'
<1>1. PICK s \in Kept(c) : AsksPeer(c, s)
  BY DEF AsksNext
<1>2. PICK a \in Nodes, k \in Keys : a = call[c].at /\ k = call[c].key
  BY CallTypes DEF Calling
<1>3. /\ cache' = [cache EXCEPT ![a] = s] /\ asked' = [asked EXCEPT ![c] = asked[c] + 1]
      /\ pc' = [pc EXCEPT ![c] = "call"]
      /\ wire' = wire \cup {[of |-> c, nth |-> asked[c] + 1]}
      /\ lockq' = lockq /\ call' = call
  BY <1>1, <1>2 DEF AsksPeer
<1>4. KeepsPending
  BY <1>3 DEF KeepsPending, Pending
<1>5. \A n \in Nodes, l \in Keys : Owns(n, l)' => Owns(n, l)
  <2>1. Lines(s) \subseteq Lines(cache[a])
    BY <1>2, KeptDict
  <2>2. QED
    BY <1>3, <2>1, OwnsFall
<1>6. asked[c] \in Nat /\ asked'[c] = asked[c] + 1 /\ pc'[c] = "call"
  BY <1>3 DEF CacheInv, CacheTypes
<1>7. ASSUME NEW m \in Nodes, NEW n \in Nodes, NEW l \in Keys, Claims(n, m, l)'
      PROVE  Claims(n, m, l) \/ Told(m, n, l)'
  <2>1. CASE Owns(n, l)'
    BY <1>5, <2>1 DEF Claims
  <2>2. ASSUME NEW d \in Calls, Puts(d, n, l)', NEW i \in 1 .. asked'[d], Peers[n][i] = m
        PROVE  Claims(n, m, l) \/ Told(m, n, l)'
    <3>1. CASE d # c
      <4>1. pc'[d] = pc[d] /\ asked'[d] = asked[d] /\ call'[d] = call[d]
        BY <1>3, <3>1 DEF CacheInv, CacheTypes
      <4>2. QED
        BY <2>2, <4>1 DEF Claims, Puts, Waits
    <3>2. CASE d = c /\ i \in 1 .. asked[c]
      <4>1. asked[c] # 0
        BY <3>2
      <4>2. Waits(c)
        BY <4>1 DEF Calling, Waits, CacheInv, CallsRight
      <4>3. QED
        BY <1>3, <2>2, <3>2, <4>2 DEF Claims, Puts
    <3>3. CASE d = c /\ i = asked[c] + 1
      <4>. DEFINE q == [of |-> c, nth |-> asked[c] + 1]
      <4>1. PICK r : r = q
        OBVIOUS
      <4>2. r \in Pending' /\ r.of = c /\ r.nth = i
        BY <1>3, <3>3, <4>1 DEF Pending
      <4>3. call'[c].op = "put" /\ call'[c].key = l /\ call'[c].at = n
        BY <2>2, <3>3 DEF Puts
      <4>4. Target(r)' = m
        BY <2>2, <4>2, <4>3 DEF Target
      <4>5. QED
        BY <4>2, <4>3, <4>4 DEF Told
    <3>4. QED
      BY <1>6, <2>2, <3>1, <3>2, <3>3
  <2>3. QED
    BY <1>7, <2>1, <2>2 DEF Claims
<1>8. QED
  BY <1>4, <1>7, ClaimsSame

LEMMA ClaimsCall ==
  ASSUME CacheInv, CacheInv', PeersListed, ClaimsInv, NEW c \in Calls, CallStep(c)
  PROVE  ClaimsInv'
<1>1. Calling(c) /\ Holds(call[c].at, c)
  BY CallForms
<1>m. missed' = missed
  BY DEF CallStep, Get, Put, Continue, Timeout, notes
<1>. DEFINE a == call[c].at
            k == call[c].key
<1>2. a \in Nodes /\ k \in Keys
  BY <1>1, CallTypes DEF Calling
<1>3. ASSUME NEW s, NEW v, Return(c, s, v),
             \A l \in Lines(s) : l.state = "M" => l \in Lines(cache[a])
      PROVE  ClaimsInv'
  <2>1. KeepsPending /\ TellsNobody
    BY <1>1, <1>3, <1>m, ReturnTells
  <2>2. cache' = [cache EXCEPT ![a] = s]
    BY <1>3 DEF Return
  <2>3. \A n \in Nodes, l \in Keys : Owns(n, l)' => Owns(n, l)
    BY <1>2, <1>3, <2>2, OwnsFall
  <2>4. QED
    BY <2>1, <2>3, ClaimsFall, ClaimsSame
<1>4. CASE GetsHit(c)
  <2>. DEFINE line == At(cache[a], k)
              s == Store(cache[a], k, line.state, line.value)
  <2>1. Lines(s) = Lines(cache[a]) /\ Return(c, s, line.value)
    BY <1>1, <1>4, HitDict DEF GetsHit
  <2>. HIDE DEF s, line
  <2>2. QED
    BY <1>3, <2>1
<1>5. CASE GetsNothing(c)
  BY <1>3, <1>5 DEF GetsNothing
<1>6. CASE GetsFetched(c)
  <2>. DEFINE s == Store(cache[a], k, "S", answer[c])
  <2>1. /\ Lines(s) = Others(cache[a], k) \cup {[key |-> k, state |-> "S", value |-> answer[c]]}
        /\ Return(c, s, Nothing)
    BY <1>1, <1>6, FetchedDict DEF GetsFetched
  <2>. HIDE DEF s
  <2>2. \A l \in Lines(s) : l.state = "M" => l \in Lines(cache[a])
    BY <2>1 DEF Others
  <2>3. QED
    BY <1>3, <2>1, <2>2
<1>7. QED
  BY <1>1, <1>m, <1>4, <1>5, <1>6, CallForms, ClaimsPut, ClaimsAsk

\* The request at the head of the queue of a node is executed.
LEMMA ClaimsAnswer ==
  ASSUME CacheInv, CacheInv', ClaimsInv, NEW a \in Nodes, NodeStep(a)
  PROVE  ClaimsInv'
<1>1. lockq[a] # << >> /\ Head(lockq[a]) \in Request
  BY NodeForms
<1>2. PICK s, v : (Removes(a, s) \/ Shares(a, s, v)) /\ Answer(Head(lockq[a]), a, s, v)
  BY NodeForms
<1>3. PICK r : r = Head(lockq[a])
  OBVIOUS
<1>4. /\ cache' = [cache EXCEPT ![a] = s] /\ lockq' = [lockq EXCEPT ![a] = Tail(lockq[a])]
      /\ UNCHANGED <<call, asked, wire>>
      /\ pc' = pc \/ (pc[r.of] = "call" /\ pc' = [pc EXCEPT ![r.of] = "answered"])
  BY <1>2, <1>3 DEF Answer
<1>5. TellsNobody /\ \A q \in Pending : q # r => q \in Pending'
  BY <1>1, <1>2, <1>3, AnswerTells
<1>s. /\ \A l \in Lines(s) : l.state = "M" => l \in Lines(cache[a])
      /\ Removes(a, s) => \A l \in Lines(s) : l.key # call[Head(lockq[a]).of].key
  BY <1>1, <1>2, ExecutedDict
<1>6. \A n \in Nodes, k \in Keys : Owns(n, k)' => Owns(n, k)
  BY <1>4, <1>s, OwnsFall
<1>7. Target(r) = a
  <2>1. lockq[a] \in Seq(Task)
    BY DEF CacheInv, CacheTypes
  <2>2. 1 \in DOMAIN lockq[a] /\ lockq[a][1] = r
    BY <1>1, <1>3, <2>1, HeadTailProperties, EmptySeq, LenProperties
  <2>3. QED
    BY <1>1, <1>3, <2>2 DEF CacheInv, RequestsRight
<1>8. ASSUME NEW k \in Keys, call[r.of].op = "put", call[r.of].key = k
      PROVE  \A x \in Nodes : ~Claims(a, x, k)'
  <2>1. Removes(a, s) /\ call[Head(lockq[a]).of].key = k
    BY <1>2, <1>3, <1>8 DEF Removes, Shares
  <2>2. ~Owns(a, k)'
    <3>1. \A l \in Lines(s) : l.key # k
      BY <1>s, <2>1
    <3>2. cache'[a] = s
      BY <1>4 DEF CacheInv, CacheTypes
    <3>3. QED
      BY <3>1, <3>2, OwnsWill
  <2>3. ASSUME NEW c \in Calls PROVE ~Puts(c, a, k)'
    <3>1. SUFFICES ASSUME Puts(c, a, k)' PROVE FALSE
      OBVIOUS
    <3>2. Waits(c) /\ call[c].at = a
      BY <1>5, <3>1 DEF Puts, Waits, TellsNobody
    <3>3. Holds(a, c)
      BY <3>2 DEF CacheInv, CallsRight
    <3>4. QED
      BY <1>1, <3>3, TasksAssumption DEF Holds
  <2>4. QED
    BY <2>2, <2>3 DEF Claims
<1>9. /\ missed' \in {missed, missed \ {<<Wanted(r), a>>}}
      /\ missed' # missed => call[r.of].op = "put"
  BY <1>3 DEF NodeStep, HandleInvalidate, HandleFetch, notes
<1>10. ASSUME NEW m \in Nodes, NEW n \in Nodes, NEW k \in Keys, m # n,
             Claims(m, n, k)', Claims(n, m, k)'
      PROVE  Told(m, n, k)'
  <2>1. Told(m, n, k)
    BY <1>5, <1>6, <1>10, ClaimsFall DEF ClaimsInv
  <2>2. ~(call[r.of].op = "put" /\ call[r.of].key = k /\ a \in {m, n})
    BY <1>8, <1>10
  <2>3. CASE <<k, m>> \in missed \/ <<k, n>> \in missed
    <3>1. <<k, m>> \in missed' \/ <<k, n>> \in missed'
      BY <1>9, <2>2, <2>3 DEF Wanted
    <3>2. QED
      BY <3>1 DEF Told
  <2>4. ASSUME NEW q \in Pending, call[q.of].op = "put", call[q.of].key = k, Target(q) \in {m, n}
        PROVE  Told(m, n, k)'
    <3>1. q # r
      BY <1>7, <2>2, <2>4
    <3>2. q \in Pending' /\ call' = call
      BY <1>4, <1>5, <3>1
    <3>3. QED
      BY <2>4, <3>2 DEF Told, Target
  <2>5. QED
    BY <2>1, <2>3, <2>4 DEF Told
<1>11. QED
  BY <1>10 DEF ClaimsInv

\* A request is lost: its peer has missed it.
LEMMA ClaimsLose ==
  ASSUME CacheInv, CacheInv', ClaimsInv, NEW r \in wire, Lose(r)
  PROVE  ClaimsInv'
<1>1. /\ wire' = wire \ {r} /\ UNCHANGED <<cache, lockq, call, pc, asked>>
      /\ missed' = IF call[r.of].op = "put"
                     THEN missed \cup {<<call[r.of].key, Target(r)>>} ELSE missed
  BY DEF Lose
<1>2. TellsNobody
  BY <1>1 DEF TellsNobody, Waits
<1>3. \A n \in Nodes, k \in Keys : Owns(n, k)' => Owns(n, k)
  BY <1>1 DEF Owns
<1>4. ASSUME NEW q \in Pending, q # r PROVE q \in Pending'
  BY <1>1, <1>4 DEF Pending
<1>5. ASSUME NEW m \in Nodes, NEW n \in Nodes, NEW k \in Keys, Told(m, n, k)
      PROVE  Told(m, n, k)'
  <2>1. CASE <<k, m>> \in missed \/ <<k, n>> \in missed
    BY <1>1, <2>1 DEF Told
  <2>2. ASSUME NEW q \in Pending, call[q.of].op = "put", call[q.of].key = k, Target(q) \in {m, n}
        PROVE  Told(m, n, k)'
    <3>1. CASE q = r
      <4>1. <<k, Target(r)>> \in missed' /\ Target(r) \in {m, n}
        BY <1>1, <2>2, <3>1
      <4>2. QED
        BY <4>1 DEF Told
    <3>2. CASE q # r
      BY <1>1, <1>4, <2>2, <3>2 DEF Told, Target
    <3>3. QED
      BY <3>1, <3>2
  <2>3. QED
    BY <1>5, <2>1, <2>2 DEF Told
<1>6. QED
  BY <1>2, <1>3, <1>5, ClaimsFall DEF ClaimsInv

LEMMA ClaimsRestart ==
  ASSUME CacheInv, CacheInv', ClaimsInv, NEW a \in Nodes, Restart(a)
  PROVE  ClaimsInv'
<1>1. /\ cache' = [cache EXCEPT ![a] = << >>] /\ lockq' = [lockq EXCEPT ![a] = << >>]
      /\ UNCHANGED <<call, asked, wire>>
      /\ pc' = [c \in Calls |->
                  IF c \in {d \in Running : call[d].at = a} THEN "lost" ELSE pc[c]]
      /\ missed' = missed \ (Keys \X {a})
  BY DEF Restart
<1>2. ASSUME NEW d \in Calls, pc'[d] \in {"call", "answered"} PROVE Waits(d) /\ call[d].at # a
  BY <1>1, <1>2 DEF Waits, Running
<1>3. TellsNobody
  BY <1>1, <1>2 DEF TellsNobody
<1>4. \A n \in Nodes, k \in Keys : Owns(n, k)' => Owns(n, k)
  <2>1. \A l \in Lines(<< >>) : l \in Lines(cache[a])
    BY DEF Lines
  <2>2. QED
    BY <1>1, <2>1, OwnsFall
<1>5. ASSUME NEW x \in Nodes, NEW k \in Keys PROVE ~Claims(a, x, k)'
  <2>1. cache'[a] = << >>
    BY <1>1 DEF CacheInv, CacheTypes
  <2>2. ~Owns(a, k)'
    BY <2>1 DEF Owns, Has
  <2>3. \A c \in Calls : ~Puts(c, a, k)'
    BY <1>1, <1>2 DEF Puts, Waits
  <2>4. QED
    BY <2>2, <2>3 DEF Claims
<1>6. ASSUME NEW q \in Pending, Target(q) # a PROVE q \in Pending'
  <2>1. CASE q \in wire
    BY <1>1, <2>1 DEF Pending
  <2>2. ASSUME q \in Request, NEW m \in Nodes, NEW j \in DOMAIN lockq[m], lockq[m][j] = q
        PROVE  \E i \in DOMAIN lockq'[m] : lockq'[m][i] = q
    <3>1. m # a
      BY <1>6, <2>2 DEF CacheInv, RequestsRight
    <3>2. QED
      BY <1>1, <2>2, <3>1 DEF CacheInv, CacheTypes
  <2>3. CASE q \in Request /\ \E m \in Nodes : \E j \in DOMAIN lockq[m] : lockq[m][j] = q
    BY <2>2, <2>3 DEF Pending
  <2>4. QED
    BY <2>1, <2>3, PendingIs
<1>7. ASSUME NEW m \in Nodes, NEW n \in Nodes, NEW k \in Keys, m # n,
             Claims(m, n, k)', Claims(n, m, k)'
      PROVE  Told(m, n, k)'
  <2>1. Told(m, n, k) /\ m # a /\ n # a
    BY <1>3, <1>4, <1>5, <1>7, ClaimsFall DEF ClaimsInv
  <2>2. CASE <<k, m>> \in missed \/ <<k, n>> \in missed
    BY <1>1, <2>1, <2>2 DEF Told
  <2>3. ASSUME NEW q \in Pending, call[q.of].op = "put", call[q.of].key = k, Target(q) \in {m, n}
        PROVE  Told(m, n, k)'
    BY <1>1, <1>6, <2>1, <2>3 DEF Told, Target
  <2>4. QED
    BY <2>1, <2>2, <2>3 DEF Told
<1>8. QED
  BY <1>7 DEF ClaimsInv

LEMMA ClaimsStep ==
  ASSUME CacheInv, CacheInv', PeersListed, ClaimsInv, [Next]_vars
  PROVE  ClaimsInv'
<1>1. ASSUME NEW c \in Calls, NEW o \in {"get", "put"}, NEW k \in Keys, NEW a \in Nodes,
             Arrive(c, o, k, a)
      PROVE  ClaimsInv'
  <2>1. KeepsPending /\ TellsNobody
    BY <1>1, ArriveTells
  <2>2. \A n \in Nodes, l \in Keys : Owns(n, l)' => Owns(n, l)
    BY <1>1 DEF Arrive, Owns
  <2>3. QED
    BY <2>1, <2>2, ClaimsFall, ClaimsSame
<1>2. ASSUME NEW c \in Calls, CallStep(c) PROVE ClaimsInv'
  BY <1>2, ClaimsCall
<1>3. ASSUME NEW r \in wire, Deliver(r) PROVE ClaimsInv'
  <2>1. KeepsPending /\ TellsNobody
    BY DeliverTells, <1>3
  <2>2. \A n \in Nodes, l \in Keys : Owns(n, l)' => Owns(n, l)
    BY <1>3 DEF Deliver, Owns
  <2>3. QED
    BY <2>1, <2>2, ClaimsFall, ClaimsSame
<1>4. ASSUME NEW r \in wire, Lose(r) PROVE ClaimsInv'
  BY <1>4, ClaimsLose
<1>5. ASSUME NEW n \in Nodes, NodeStep(n) PROVE ClaimsInv'
  BY <1>5, ClaimsAnswer
<1>6. ASSUME NEW n \in Nodes, Restart(n) PROVE ClaimsInv'
  BY <1>6, ClaimsRestart
<1>7. CASE UNCHANGED vars
  <2>1. KeepsPending /\ TellsNobody
    BY <1>7 DEF vars, KeepsPending, Pending, TellsNobody, Waits
  <2>2. \A n \in Nodes, l \in Keys : Owns(n, l)' => Owns(n, l)
    BY <1>7 DEF vars, Owns
  <2>3. QED
    BY <2>1, <2>2, ClaimsFall, ClaimsSame
<1>8. QED
  BY <1>1, <1>2, <1>3, <1>4, <1>5, <1>6, <1>7 DEF Next, Arrivals

\* When every node lists all others, two nodes own a key only while an
\* invalidation sent to one of them is still to be executed or after one was lost,
\* whatever calls time out, answers are late and nodes restart: put holds its lock
\* from before its first invalidation, and claims the key from the peers it has
\* told.
THEOREM OneOwnerRemains ==
  ASSUME PeersListed PROVE Spec => []OwnersCollide
<1>1. Init => ClaimsInv
  BY DEF Init, ClaimsInv, Claims, Owns, Has, Puts, Waits
<1>2. CacheInv /\ CacheInv' /\ ClaimsInv /\ [Next]_vars => ClaimsInv'
  BY ClaimsStep
<1>3. ClaimsInv => OwnersCollide
  BY DEF ClaimsInv, Claims, Told, OwnersCollide
<1>4. QED
  BY <1>1, <1>2, <1>3, CacheInvariant, PTL DEF Spec

-----------------------------------------------------------------------------
(* One call at a time: CoherentWhenQuiet and FreshReads.  While no put of a     *)
(* settled key is half done its copies are in order; a put that is has removed  *)
(* the key from its own node and from the peers that have answered, and what it *)
(* has not heard of makes the key unsettled.                                    *)

Alone == IsFiniteSet(Running) /\ \A c, d \in Calls : Calling(c) /\ Calling(d) => c = d

LEMMA AloneSame ==
  ASSUME Alone, \A d \in Calls : Calling(d)' => Calling(d)
  PROVE  Alone'
<1>1. Running' \subseteq Running
  BY DEF Running, Calling
<1>2. IsFiniteSet(Running')
  BY <1>1, FS_Subset DEF Alone
<1>3. QED
  BY <1>2 DEF Alone

LEMMA AloneArrive ==
  ASSUME CacheInv, Alone, Concurrency = 1, NEW c \in Calls, NEW o \in {"get", "put"},
         NEW k \in Keys, NEW a \in Nodes, Arrive(c, o, k, a)
  PROVE  Alone'
<1>1. Cardinality(Running) < 1 /\ pc' = [pc EXCEPT ![c] = "wait"]
  BY DEF Arrive
<1>2. Running = {}
  <2>1. IsFiniteSet(Running) /\ Cardinality(Running) \in Nat
    BY FS_CardinalityType DEF Alone
  <2>2. Cardinality(Running) = 0
    BY <1>1, <2>1
  <2>3. QED
    BY <2>1, <2>2, FS_EmptySet
<1>3. Running' = {c}
  BY <1>1, <1>2 DEF Running, CacheInv, CacheTypes
<1>4. IsFiniteSet(Running')
  BY <1>3, FS_Singleton
<1>5. QED
  BY <1>3, <1>4 DEF Alone, Running, Calling

LEMMA AloneStep ==
  ASSUME CacheInv, Alone, Concurrency = 1, [Next]_vars
  PROVE  Alone'
<1>. USE DEF Calling
<1>1. ASSUME NEW c \in Calls, CallStep(c) PROVE Alone'
  <2>1. /\ Calling(c)
        /\ pc' = [pc EXCEPT ![c] = "call"] \/ pc' = [pc EXCEPT ![c] = "done"]
    BY <1>1, CallForms DEF AsksNext, AsksPeer, GetsHit, GetsNothing, PutsLine, GetsFetched, Return
  <2>2. \A d \in Calls : Calling(d)' => Calling(d)
    BY <2>1 DEF CacheInv, CacheTypes
  <2>3. QED
    BY <2>2, AloneSame
<1>2. ASSUME NEW r \in wire, Deliver(r) \/ Lose(r) PROVE Alone'
  BY <1>2, AloneSame DEF Deliver, Lose
<1>3. ASSUME NEW a \in Nodes, NodeStep(a) PROVE Alone'
  <2>1. PICK r, s, v : Answer(r, a, s, v)
    BY <1>3, NodeForms
  <2>2. \A d \in Calls : Calling(d)' => Calling(d)
    BY <2>1 DEF Answer, CacheInv, CacheTypes
  <2>3. QED
    BY <2>2, AloneSame
<1>4. ASSUME NEW a \in Nodes, Restart(a) PROVE Alone'
  <2>1. \A d \in Calls : pc'[d] = pc[d] \/ pc'[d] = "lost"
    BY <1>4 DEF Restart
  <2>2. QED
    BY <2>1, AloneSame
<1>5. CASE UNCHANGED vars
  BY <1>5, AloneSame DEF vars
<1>6. QED
  BY <1>1, <1>2, <1>3, <1>4, <1>5, AloneArrive DEF Next, Arrivals

Gone(n, k) == \A l \in Lines(cache[n]) : l.key # k

\* Every copy of k is what was put last, and an owner's the only one.
InOrder(k) == \A n \in Nodes : \A l \in Lines(cache[n]) :
  l.key = k =>
    /\ l.value = latest[k]
    /\ l.state = "M" => \A m \in Nodes \ {n} : Gone(m, k)

HalfPut(k) == \E c \in Calls, n \in Nodes : Puts(c, n, k)

\* Node m has answered the call c.
Heard(c, m) == \E i \in 1 .. asked[c] :
  (i < asked[c] \/ pc[c] = "answered") /\ Peers[call[c].at][i] = m

AtRest == \A k \in Keys : Settled(k) => HalfPut(k) \/ InOrder(k)

ToldGone == \A c \in Calls, n \in Nodes, k \in Keys :
  Puts(c, n, k) =>
    /\ Gone(n, k)
    /\ Settled(k) => \A m \in Nodes : Heard(c, m) => Gone(m, k)

\* What a get has been answered is what was put last, and nobody owns it.
Current(k, v) ==
  v = latest[k] /\ \A m \in Nodes : \A l \in Lines(cache[m]) : l.key = k => l.state # "M"

AnswerFresh == \A c \in Calls :
  /\ pc[c] = "answered" /\ call[c].op = "get" /\ answer[c] # Nothing
  /\ Settled(call[c].key)
  => Current(call[c].key, answer[c])

CoherentInv == AtRest /\ ToldGone /\ AnswerFresh

\* A step after which each line is there with the key and the value of a line
\* that was there, and MODIFIED only if it was.
NoNewCopies == \A n \in Nodes : \A l \in Lines(cache'[n]) :
  /\ \E x \in Lines(cache[n]) : x.key = l.key /\ x.value = l.value
  /\ l.state = "M" => l \in Lines(cache[n])

LEMMA OneCacheCopies ==
  ASSUME CacheInv, NEW a \in Nodes, NEW s, cache' = [cache EXCEPT ![a] = s],
         \A l \in Lines(s) : /\ \E x \in Lines(cache[a]) : x.key = l.key /\ x.value = l.value
                             /\ l.state = "M" => l \in Lines(cache[a])
  PROVE  NoNewCopies
<1>1. ASSUME NEW n \in Nodes PROVE cache'[n] = IF n = a THEN s ELSE cache[n]
  BY DEF CacheInv, CacheTypes
<1>2. QED
  BY <1>1 DEF NoNewCopies

LEMMA GoneSame ==
  ASSUME NoNewCopies, NEW n \in Nodes, NEW k, Gone(n, k)
  PROVE  Gone(n, k)'
BY DEF Gone, NoNewCopies

LEMMA InOrderSame ==
  ASSUME NoNewCopies, NEW k, latest'[k] = latest[k], InOrder(k)
  PROVE  InOrder(k)'
<1>1. ASSUME NEW n \in Nodes, NEW l \in Lines(cache'[n]), l.key = k
      PROVE  /\ l.value = latest'[k]
             /\ l.state = "M" => \A m \in Nodes \ {n} : Gone(m, k)'
  <2>1. l.value = latest'[k]
    BY <1>1 DEF NoNewCopies, InOrder
  <2>2. ASSUME l.state = "M", NEW m \in Nodes \ {n} PROVE Gone(m, k)'
    <3>1. Gone(m, k)
      BY <1>1, <2>2 DEF NoNewCopies, InOrder
    <3>2. QED
      BY <3>1, GoneSame
  <2>3. QED
    BY <2>1, <2>2
<1>2. QED
  BY <1>1 DEF InOrder

LEMMA CurrentSame ==
  ASSUME NoNewCopies, latest' = latest, NEW k, NEW v, Current(k, v)
  PROVE  Current(k, v)'
BY DEF Current, NoNewCopies

\* A step that only takes lines away, settles nothing, and ends no put of a key
\* that is still settled.
LEMMA CoherentSame ==
  ASSUME CoherentInv, NoNewCopies, latest' = latest,
         \A k \in Keys : Settled(k)' => Settled(k) /\ (HalfPut(k) => HalfPut(k)'),
         \A d \in Calls : Waits(d)' =>
           /\ Waits(d) /\ pc'[d] = pc[d] /\ call'[d] = call[d]
           /\ asked'[d] = asked[d] /\ answer'[d] = answer[d],
         \A c \in Calls : Waits(c) => call[c].key \in Keys
  PROVE  CoherentInv'
<1>1. AtRest'
  BY InOrderSame DEF CoherentInv, AtRest
<1>2. ASSUME NEW c \in Calls, NEW n \in Nodes, NEW k \in Keys, Puts(c, n, k)'
      PROVE  /\ Gone(n, k)'
             /\ Settled(k)' => \A m \in Nodes : Heard(c, m)' => Gone(m, k)'
  <2>1. /\ Puts(c, n, k) /\ pc'[c] = pc[c] /\ call'[c] = call[c] /\ asked'[c] = asked[c]
    BY <1>2 DEF Puts
  <2>2. Gone(n, k) /\ (Settled(k) => \A m \in Nodes : Heard(c, m) => Gone(m, k))
    BY <2>1 DEF CoherentInv, ToldGone
  <2>3. \A m : Heard(c, m)' => Heard(c, m)
    BY <2>1 DEF Heard
  <2>4. QED
    BY <2>2, <2>3, GoneSame
<1>3. ASSUME NEW c \in Calls, pc'[c] = "answered", call'[c].op = "get", answer'[c] # Nothing,
             Settled(call[c].key)'
      PROVE  Current(call[c].key, answer[c])'
  <2>1. /\ Waits(c) /\ pc'[c] = pc[c] /\ call'[c] = call[c] /\ answer'[c] = answer[c]
    BY <1>3 DEF Waits
  <2>2. PICK k, v : k \in Keys /\ k = call[c].key /\ v = answer[c]
    BY <2>1
  <2>3. Settled(k)
    BY <1>3, <2>1, <2>2
  <2>4. Current(k, v)
    BY <1>3, <2>1, <2>2, <2>3 DEF CoherentInv, AnswerFresh
  <2>5. Current(k, v)'
    BY <2>4, CurrentSame
  <2>6. QED
    BY <2>1, <2>2, <2>5 DEF Current
<1>4. QED
  BY <1>1, <1>2, <1>3 DEF CoherentInv, ToldGone, AnswerFresh

LEMMA OnlyOne ==
  ASSUME Alone, NEW c \in Calls, Calling(c)
  PROVE  \A d \in Calls : Waits(d) => d = c
BY DEF Alone, Calling, Waits

\* What a step of a call does with the unsettled keys.
LEMMA UnsureStep ==
  ASSUME NEW c \in Calls, CallStep(c)
  PROVE  /\ unsure' \in {unsure, unsure \ {call[c].key}, unsure \cup {call[c].key}}
         /\ call[c].op = "get" \/ pc[c] = "answered" => unsure' = unsure
         /\ pc[c] # "wait" => unsure \subseteq unsure'
<1>1. /\ Get(c) => call[c].op = "get" /\ pc[c] = "wait" /\ unsure' = unsure
      /\ Put(c) => /\ call[c].op = "put" /\ pc[c] = "wait"
                   /\ unsure' \in {unsure, unsure \ {call[c].key}}
      /\ Continue(c) => unsure' = unsure
  BY DEF Get, Put, Continue, notes
<1>2. Timeout(c) =>
        /\ unsure' \in {unsure, unsure \cup {call[c].key}}
        /\ call[c].op = "get" \/ pc[c] = "answered" => unsure' = unsure
  <2>1. "put" # "get" /\ "call" # "answered"
    OBVIOUS
  <2>2. QED
    BY <2>1 DEF Timeout
<1>3. "put" # "get" /\ "wait" # "answered"
  OBVIOUS
<1>4. QED
  BY <1>1, <1>2, <1>3 DEF CallStep

\* The peers that a put has called no longer have its key, if it stays settled.
LEMMA ToldSoFar ==
  ASSUME CacheInv, CoherentInv, NEW c \in Calls, CallStep(c), Waits(c), call[c].op = "put",
         NEW n \in Nodes, NEW k \in Keys, n = call[c].at, k = call[c].key, Settled(k)',
         NEW i \in 1 .. asked[c], NEW m \in Nodes, Peers[n][i] = m
  PROVE  Gone(m, k)
<1>1. Puts(c, n, k) /\ asked[c] \in Nat
  BY DEF Puts, CacheInv, CacheTypes
<1>2. Settled(k)
  <2>1. unsure \subseteq unsure'
    BY UnsureStep DEF Waits
  <2>2. QED
    BY <2>1 DEF Settled
<1>3. CASE pc[c] = "answered" \/ i < asked[c]
  <2>1. Heard(c, m)
    BY <1>3 DEF Heard
  <2>2. QED
    BY <1>1, <1>2, <2>1 DEF CoherentInv, ToldGone
<1>4. CASE pc[c] = "call" /\ ~(i < asked[c])
  <2>1. i = asked[c]
    BY <1>1, <1>4
  <2>2. Timeout(c)
    BY <1>4 DEF CallStep, Get, Put, Continue
  <2>3. k \notin unsure'
    BY DEF Settled
  <2>4. Peers[n][asked[c]] = n
    <3>1. PICK q : q = [of |-> c, nth |-> asked[c]]
      OBVIOUS
    <3>2. Target(q) = call[c].at
      BY <1>4, <2>2, <2>3, <3>1 DEF Timeout
    <3>3. QED
      BY <3>1, <3>2 DEF Target
  <2>5. QED
    BY <1>1, <2>1, <2>4 DEF CoherentInv, ToldGone
<1>5. QED
  BY <1>3, <1>4 DEF Waits

\* A put that stores its line is alone with it, if its key is settled then.
LEMMA PutsAlone ==
  ASSUME CacheInv, Alone, CoherentInv, PeersListed, NEW c \in Calls, CallStep(c), PutsLine(c),
         NEW n \in Nodes, NEW k \in Keys, n = call[c].at, k = call[c].key, Settled(k)',
         NEW m \in Nodes, m # n
  PROVE  Gone(m, k)
<1>1. Calling(c) /\ call[c].op = "put" /\ Peers[n] \in Seq(Nodes)
  BY CallForms, PeersAssumption DEF PutsLine
<1>2. \E i \in 1 .. Len(Peers[n]) : Peers[n][i] = m
  <2>1. DOMAIN Peers[n] = 1 .. Len(Peers[n])
    BY <1>1, LenProperties
  <2>2. QED
    BY <2>1 DEF PeersListed
<1>3. CASE Waits(c)
  <2>1. Gone(n, k)
    <3>1. Puts(c, n, k)
      BY <1>1, <1>3 DEF Puts
    <3>2. QED
      BY <3>1 DEF CoherentInv, ToldGone
  <2>2. ~Owns(n, k)
    BY <2>1, OwnsIs DEF Gone
  <2>3. asked[c] = Len(Peers[n])
    BY <2>2 DEF PutsLine
  <2>4. PICK i \in 1 .. asked[c] : Peers[n][i] = m
    BY <1>2, <2>3
  <2>5. QED
    BY <1>1, <1>3, <2>4, ToldSoFar
<1>4. CASE pc[c] = "wait"
  <2>1. asked[c] = 0
    BY <1>4 DEF CacheInv, CallsRight
  <2>2. asked[c] # Len(Peers[n])
    BY <1>2, <2>1
  <2>3. Owns(n, k)
    BY <2>2 DEF PutsLine
  <2>4. Settled(k)
    <3>1. Put(c)
      BY <1>1, <1>4 DEF CallStep, Get, Continue, Timeout
    <3>2. unsure' = unsure
      BY <2>3, <3>1 DEF Put, Owns
    <3>3. QED
      BY <3>2 DEF Settled
  <2>5. ~HalfPut(k)
    <3>1. ~Waits(c)
      BY <1>4 DEF Waits
    <3>2. QED
      BY <1>1, <3>1, OnlyOne DEF HalfPut, Puts
  <2>6. PICK l \in Lines(cache[n]) : l.key = k /\ l.state = "M"
    BY <2>3, OwnsIs
  <2>7. QED
    BY <2>4, <2>5, <2>6 DEF CoherentInv, AtRest, InOrder
<1>5. QED
  BY <1>1, <1>3, <1>4 DEF Calling, Waits

\* A call that returns: copies are all there is left to say.
LEMMA CoherentReturn ==
  ASSUME CacheInv, Alone, NEW c \in Calls, Calling(c), NEW s, NEW v, Return(c, s, v),
         \A k \in Keys : Settled(k)' => InOrder(k)'
  PROVE  CoherentInv'
<1>1. ASSUME NEW d \in Calls PROVE ~Waits(d)'
  <2>1. pc'[d] = IF d = c THEN "done" ELSE pc[d]
    BY DEF Return, CacheInv, CacheTypes
  <2>2. d # c => ~Waits(d)
    BY OnlyOne
  <2>3. QED
    BY <2>1, <2>2 DEF Waits
<1>2. ToldGone' /\ AnswerFresh'
  BY <1>1 DEF ToldGone, AnswerFresh, Puts, Waits
<1>3. QED
  BY <1>2 DEF CoherentInv, AtRest

\* Before a call steps, the copies of the other keys are in order.
LEMMA OthersInOrder ==
  ASSUME CacheInv, Alone, CoherentInv, NEW c \in Calls, Calling(c), NEW k \in Keys, Settled(k),
         call[c].op = "get" \/ call[c].key # k \/ pc[c] = "wait"
  PROVE  InOrder(k)
<1>1. ~HalfPut(k)
  BY OnlyOne DEF HalfPut, Puts, Waits
<1>2. QED
  BY <1>1 DEF CoherentInv, AtRest

LEMMA CoherentPut ==
  ASSUME CacheInv, Alone, CoherentInv, PeersListed, NEW c \in Calls, CallStep(c), PutsLine(c)
  PROVE  CoherentInv'
<1>1. Calling(c)
  BY CallForms
<1>2. PICK n \in Nodes, k \in Keys : n = call[c].at /\ k = call[c].key
  BY <1>1, CallTypes DEF Calling
<1>3. PICK s \in Kept(c) : Return(c, Evict(Store(s, k, "M", c)), c)
  BY <1>2 DEF PutsLine
<1>. DEFINE t == Evict(Store(s, k, "M", c))
<1>4. Lines(t) \subseteq Others(cache[n], k) \cup {[key |-> k, state |-> "M", value |-> c]}
  BY <1>1, <1>2, PutDict
<1>5. cache' = [cache EXCEPT ![n] = t] /\ latest' = [latest EXCEPT ![k] = c]
  BY <1>2, <1>3 DEF Return, PutsLine
<1>6. Return(c, t, c)
  BY <1>3
<1>. HIDE DEF t
<1>7. ASSUME NEW m \in Nodes PROVE cache'[m] = IF m = n THEN t ELSE cache[m]
  BY <1>5 DEF CacheInv, CacheTypes
<1>8. ASSUME NEW l \in Keys PROVE latest'[l] = IF l = k THEN c ELSE latest[l]
  BY <1>5 DEF CacheInv, CacheTypes
<1>9. ASSUME NEW l \in Lines(t)
      PROVE  \/ l.key = k /\ l.value = c
             \/ l.key # k /\ l \in Lines(cache[n])
  BY <1>4 DEF Others
<1>10. ASSUME Settled(k)' PROVE InOrder(k)'
  <2>1. \A m \in Nodes \ {n} : Gone(m, k)'
    <3>1. ASSUME NEW m \in Nodes \ {n} PROVE Gone(m, k)
      BY <1>2, <1>10, PutsAlone
    <3>2. QED
      BY <1>7, <3>1 DEF Gone
  <2>2. QED
    BY <1>7, <1>8, <1>9, <2>1 DEF InOrder, Gone
<1>11. ASSUME NEW h \in Keys, h # k, Settled(h)' PROVE InOrder(h)'
  <2>1. Settled(h)
    BY <1>2, <1>11, UnsureStep DEF Settled
  <2>2. InOrder(h)
    BY <1>1, <1>2, <1>11, <2>1, OthersInOrder
  <2>3. ASSUME NEW m \in Nodes, NEW l \in Lines(cache'[m]), l.key = h
        PROVE  l \in Lines(cache[m])
    BY <1>7, <1>9, <1>11, <2>3
  <2>4. ASSUME NEW m \in Nodes, Gone(m, h) PROVE Gone(m, h)'
    BY <2>3, <2>4 DEF Gone
  <2>5. QED
    BY <1>8, <1>11, <2>2, <2>3, <2>4 DEF InOrder
<1>12. QED
  BY <1>1, <1>6, <1>10, <1>11, CoherentReturn

LEMMA CoherentGet ==
  ASSUME CacheInv, Alone, CoherentInv, NEW c \in Calls, CallStep(c), call[c].op = "get",
         NEW s, NEW v, Return(c, s, v),
         NEW n \in Nodes, n = call[c].at, Lines(s) = Lines(cache[n])
  PROVE  CoherentInv'
<1>1. Calling(c)
  BY CallForms
<1>2. cache' = [cache EXCEPT ![n] = s] /\ latest' = latest /\ unsure' = unsure
  <2>1. unsure' = unsure
    BY UnsureStep
  <2>2. "get" # "put"
    OBVIOUS
  <2>3. QED
    BY <2>1, <2>2 DEF Return
<1>3. NoNewCopies
  BY <1>2, OneCacheCopies
<1>4. ASSUME NEW k \in Keys, Settled(k)' PROVE InOrder(k)'
  <2>1. Settled(k)
    BY <1>2, <1>4 DEF Settled
  <2>2. InOrder(k)
    BY <1>1, <2>1, OthersInOrder
  <2>3. QED
    BY <1>2, <1>3, <2>2, InOrderSame
<1>5. QED
  BY <1>1, <1>4, CoherentReturn

LEMMA CoherentFetch ==
  ASSUME CacheInv, Alone, CoherentInv, NEW c \in Calls, CallStep(c), GetsFetched(c)
  PROVE  CoherentInv'
<1>1. Calling(c) /\ call[c].op = "get" /\ pc[c] = "answered" /\ answer[c] \in Calls
  BY CallForms DEF GetsFetched
<1>2. PICK n \in Nodes, k \in Keys : n = call[c].at /\ k = call[c].key
  BY <1>1, CallTypes
<1>. DEFINE t == Store(cache[n], k, "S", answer[c])
<1>3. Lines(t) = Others(cache[n], k) \cup {[key |-> k, state |-> "S", value |-> answer[c]]}
  BY <1>1, <1>2, FetchedDict
<1>4. Return(c, t, Nothing)
  BY <1>2 DEF GetsFetched
<1>5. cache' = [cache EXCEPT ![n] = t] /\ latest' = latest /\ unsure' = unsure
  <2>1. unsure' = unsure
    BY <1>1, UnsureStep
  <2>2. "get" # "put"
    OBVIOUS
  <2>3. QED
    BY <1>1, <1>2, <1>4, <2>1, <2>2 DEF Return
<1>. HIDE DEF t
<1>6. ASSUME NEW m \in Nodes PROVE cache'[m] = IF m = n THEN t ELSE cache[m]
  BY <1>5 DEF CacheInv, CacheTypes
<1>7. ASSUME NEW h \in Keys, Settled(h)' PROVE InOrder(h)'
  <2>1. Settled(h)
    BY <1>5, <1>7 DEF Settled
  <2>2. InOrder(h)
    BY <1>1, <2>1, OthersInOrder
  <2>3. CASE h # k
    <3>1. ASSUME NEW m \in Nodes, NEW l \in Lines(cache'[m]), l.key = h
          PROVE  l \in Lines(cache[m])
      BY <1>3, <1>6, <2>3, <3>1 DEF Others
    <3>2. ASSUME NEW m \in Nodes, Gone(m, h) PROVE Gone(m, h)'
      BY <3>1, <3>2 DEF Gone
    <3>3. QED
      BY <1>5, <2>2, <3>1, <3>2 DEF InOrder
  <2>4. CASE h = k
    <3>1. Current(k, answer[c])
      BY <1>1, <1>2, <2>1, <2>4, NothingAssumption DEF CoherentInv, AnswerFresh
    <3>2. ASSUME NEW m \in Nodes, NEW l \in Lines(cache'[m]), l.key = k
          PROVE  l.value = latest[k] /\ l.state # "M"
      <4>1. CASE l \in Lines(cache[m])
        BY <2>2, <2>4, <3>1, <3>2, <4>1 DEF InOrder, Current
      <4>2. CASE l = [key |-> k, state |-> "S", value |-> answer[c]]
        BY <3>1, <4>2 DEF Current
      <4>3. QED
        BY <1>3, <1>6, <3>2, <4>1, <4>2 DEF Others
    <3>3. QED
      BY <1>5, <2>4, <3>2 DEF InOrder
  <2>5. QED
    BY <2>3, <2>4
<1>8. QED
  BY <1>1, <1>4, <1>7, CoherentReturn

LEMMA CoherentAsk ==
  ASSUME CacheInv, Alone, CoherentInv, NEW c \in Calls, CallStep(c), AsksNext(c)
  PROVE  CoherentInv'
<1>1. PICK s \in Kept(c) : AsksPeer(c, s)
  BY DEF AsksNext
<1>2. Calling(c)
  BY CallForms
<1>3. PICK n \in Nodes, k \in Keys : n = call[c].at /\ k = call[c].key
  BY <1>2, CallTypes DEF Calling
<1>4. /\ cache' = [cache EXCEPT ![n] = s] /\ asked' = [asked EXCEPT ![c] = asked[c] + 1]
      /\ pc' = [pc EXCEPT ![c] = "call"] /\ call' = call /\ latest' = latest
      /\ asked[c] < Len(Peers[n])
  BY <1>1, <1>3 DEF AsksPeer
<1>5. NoNewCopies
  <2>1. Lines(s) \subseteq Lines(cache[n])
    BY <1>2, <1>3, KeptDict
  <2>2. QED
    BY <1>4, <2>1, OneCacheCopies
<1>6. pc'[c] = "call" /\ asked[c] \in Nat /\ asked'[c] = asked[c] + 1
  BY <1>4 DEF CacheInv, CacheTypes
<1>7. ASSUME NEW d \in Calls, Waits(d)' PROVE d = c
  BY <1>2, <1>4, <1>7, OnlyOne DEF Waits, CacheInv, CacheTypes
<1>8. call[c].op = "put" => HalfPut(k)'
  BY <1>3, <1>4, <1>6 DEF HalfPut, Puts, Waits
<1>9. AtRest'
  <2>1. ASSUME NEW h \in Keys, Settled(h)', ~HalfPut(h)' PROVE InOrder(h)'
    <3>1. call[c].op = "get" \/ h # k
      <4>1. call[c].op \in {"get", "put"}
        BY <1>2, CallTypes DEF Calling
      <4>2. QED
        BY <1>8, <2>1, <4>1
    <3>2. Settled(h)
      BY <1>3, <2>1, <3>1, UnsureStep DEF Settled
    <3>3. InOrder(h)
      BY <1>2, <1>3, <3>1, <3>2, OthersInOrder
    <3>4. QED
      BY <1>4, <1>5, <3>3, InOrderSame
  <2>2. QED
    BY <2>1 DEF AtRest
<1>10. ASSUME call[c].op = "put" PROVE Gone(n, k)'
  <2>1. CASE Waits(c)
    <3>1. Puts(c, n, k)
      BY <1>3, <1>10, <2>1 DEF Puts
    <3>2. QED
      BY <1>5, <3>1, GoneSame DEF CoherentInv, ToldGone
  <2>2. CASE pc[c] = "wait"
    <3>1. Put(c)
      BY <1>10, <2>2 DEF CallStep, Get, Continue, Timeout
    <3>2. cache' = [cache EXCEPT ![n] = Without(cache[n], k)]
      <4>1. NextPeer(c, Without(cache[n], k)) \/ AfterPeers(c, cache[n])
        BY <1>3, <3>1 DEF Put
      <4>2. ~AfterPeers(c, cache[n])
        BY <1>6 DEF AfterPeers, Return, CacheInv, CacheTypes
      <4>3. QED
        BY <1>3, <1>4, <4>1, <4>2 DEF NextPeer
    <3>3. cache'[n] = Without(cache[n], k) /\ Dict(cache[n])
      BY <3>2 DEF CacheInv, CacheTypes
    <3>4. QED
      BY <3>3, WithoutDict DEF Gone, Others
  <2>3. QED
    BY <1>2, <2>1, <2>2 DEF Calling, Waits
<1>11. ASSUME call[c].op = "put", Settled(k)', NEW m \in Nodes, Heard(c, m)'
       PROVE  Gone(m, k)'
  <2>1. PICK i \in 1 .. asked'[c] : i < asked'[c] /\ Peers[n][i] = m
    BY <1>3, <1>4, <1>6, <1>11 DEF Heard
  <2>2. i \in 1 .. asked[c]
    BY <1>6, <2>1
  <2>3. Waits(c)
    <3>1. asked[c] # 0
      BY <1>6, <2>2
    <3>2. QED
      BY <1>2, <3>1 DEF Calling, Waits, CacheInv, CallsRight
  <2>4. Gone(m, k)
    BY <1>3, <1>11, <2>1, <2>2, <2>3, ToldSoFar
  <2>5. QED
    BY <1>5, <2>4, GoneSame
<1>12. ToldGone'
  <2>1. ASSUME NEW d \in Calls, NEW a \in Nodes, NEW h \in Keys, Puts(d, a, h)'
        PROVE  d = c /\ a = n /\ h = k /\ call[c].op = "put"
    BY <1>3, <1>4, <1>7, <2>1 DEF Puts
  <2>2. QED
    BY <1>10, <1>11, <2>1 DEF ToldGone
<1>13. AnswerFresh'
  BY <1>6, <1>7 DEF AnswerFresh, Waits
<1>14. QED
  BY <1>9, <1>12, <1>13 DEF CoherentInv

LEMMA CoherentCall ==
  ASSUME CacheInv, Alone, CoherentInv, PeersListed, NEW c \in Calls, CallStep(c)
  PROVE  CoherentInv'
<1>1. Calling(c)
  BY CallForms
<1>2. PICK n \in Nodes : n = call[c].at
  BY <1>1, CallTypes DEF Calling
<1>3. CASE GetsHit(c)
  BY <1>1, <1>2, <1>3, HitDict, CoherentGet DEF GetsHit
<1>4. CASE GetsNothing(c)
  BY <1>2, <1>4, CoherentGet DEF GetsNothing
<1>5. QED
  BY <1>3, <1>4, CallForms, CoherentPut, CoherentFetch, CoherentAsk

\* A node executes a request; it may be the one a call waits for.
LEMMA CoherentAnswer ==
  ASSUME CacheInv, Alone, CoherentInv, NEW a \in Nodes, NodeStep(a)
  PROVE  CoherentInv'
<1>1. lockq[a] # << >> /\ Head(lockq[a]) \in Request
  BY NodeForms
<1>2. PICK s, v : (Removes(a, s) \/ Shares(a, s, v)) /\ Answer(Head(lockq[a]), a, s, v)
  BY NodeForms
<1>3. PICK r \in Request : r = Head(lockq[a])
  BY <1>1
<1>4. r.of \in Calls /\ r.nth \in Nat \ {0} /\ Sent(r) /\ Target(r) = a
  <2>1. lockq[a] \in Seq(Task)
    BY DEF CacheInv, CacheTypes
  <2>2. 1 \in DOMAIN lockq[a] /\ lockq[a][1] = r
    BY <1>1, <1>3, <2>1, HeadTailProperties, EmptySeq, LenProperties
  <2>3. QED
    BY <2>2 DEF CacheInv, RequestsRight, Request
<1>5. /\ cache' = [cache EXCEPT ![a] = s] /\ UNCHANGED <<call, asked, latest>>
      /\ IF pc[r.of] = "call" /\ asked[r.of] = r.nth
           THEN /\ pc' = [pc EXCEPT ![r.of] = "answered"]
                /\ answer' = [answer EXCEPT ![r.of] = v]
           ELSE pc' = pc /\ answer' = answer
  BY <1>2, <1>3 DEF Answer
<1>u. unsure' = unsure
  BY DEF NodeStep, HandleInvalidate, HandleFetch, notes
<1>6. /\ \A l \in Lines(s) : l.state = "M" => l \in Lines(cache[a])
      /\ \A l \in Lines(s) : \E x \in Lines(cache[a]) : x.key = l.key /\ x.value = l.value
      /\ Removes(a, s) => \A l \in Lines(s) : l.key # call[r.of].key
  <2>1. Removes(a, s) \/ Shares(a, s, v)
    BY <1>2
  <2>2. /\ \A l \in Lines(s) : l.state = "M" => l \in Lines(cache[a])
        /\ \A l \in Lines(s) : \E x \in Lines(cache[a]) : x.key = l.key /\ x.value = l.value
        /\ Removes(a, s) => \A l \in Lines(s) : l.key # call[Head(lockq[a]).of].key
    BY <1>1, <2>1, ExecutedDict
  <2>3. QED
    BY <1>3, <2>2
<1>7. NoNewCopies
  BY <1>5, <1>6, OneCacheCopies
<1>8. ASSUME NEW m \in Nodes PROVE cache'[m] = IF m = a THEN s ELSE cache[m]
  BY <1>5 DEF CacheInv, CacheTypes
<1>9. ASSUME NEW d \in Calls
      PROVE  /\ Waits(d)' <=> Waits(d)
             /\ \/ pc'[d] = pc[d] /\ answer'[d] = answer[d]
                \/ d = r.of /\ asked[d] = r.nth /\ answer'[d] = v
  BY <1>4, <1>5 DEF Waits, CacheInv, CacheTypes
<1>10. \A d \in Calls, n \in Nodes, k \in Keys : Puts(d, n, k)' <=> Puts(d, n, k)
  BY <1>5, <1>9 DEF Puts
<1>11. AtRest'
  <2>1. \A k \in Keys : (Settled(k)' <=> Settled(k)) /\ (HalfPut(k) => HalfPut(k)')
    BY <1>u, <1>10 DEF Settled, HalfPut
  <2>2. QED
    BY <1>5, <1>7, <2>1, InOrderSame DEF CoherentInv, AtRest
<1>12. ToldGone'
  <2>1. ASSUME NEW d \in Calls, NEW n \in Nodes, NEW k \in Keys, Puts(d, n, k)',
               Settled(k)', NEW m \in Nodes, Heard(d, m)'
        PROVE  Gone(m, k)'
    <3>1. Puts(d, n, k) /\ Settled(k) /\ call' = call /\ asked' = asked /\ asked[d] \in Nat
      BY <1>5, <1>u, <1>10, <2>1 DEF Settled, CacheInv, CacheTypes
    <3>2. PICK i \in 1 .. asked[d] :
            (i < asked[d] \/ pc'[d] = "answered") /\ Peers[call[d].at][i] = m
      BY <2>1, <3>1 DEF Heard
    <3>3. CASE Heard(d, m)
      BY <1>7, <3>1, <3>3, GoneSame DEF CoherentInv, ToldGone
    <3>4. CASE ~Heard(d, m)
      <4>1. ~(i < asked[d]) /\ pc'[d] # pc[d]
        BY <3>2, <3>4 DEF Heard
      <4>2. d = r.of /\ asked[d] = r.nth /\ i = r.nth
        BY <1>9, <3>1, <3>2, <4>1
      <4>3. m = a
        BY <1>4, <3>2, <4>2 DEF Target
      <4>4. Removes(a, s) /\ call[r.of].key = k
        BY <1>2, <1>3, <3>1, <4>2 DEF Shares, Puts
      <4>5. QED
        BY <1>6, <1>8, <4>3, <4>4 DEF Gone
    <3>5. QED
      BY <3>3, <3>4
  <2>2. ASSUME NEW d \in Calls, NEW n \in Nodes, NEW k \in Keys, Puts(d, n, k)'
        PROVE  Gone(n, k)'
    BY <1>7, <1>10, <2>2, GoneSame DEF CoherentInv, ToldGone
  <2>3. QED
    BY <2>1, <2>2 DEF ToldGone
<1>13. AnswerFresh'
  <2>1. ASSUME NEW d \in Calls, pc'[d] = "answered", call[d].op = "get", answer'[d] # Nothing,
               NEW k, k = call[d].key, Settled(k)'
        PROVE  answer'[d] = latest[k] /\ \A m \in Nodes : \A l \in Lines(cache'[m]) :
                                           l.key = k => l.state # "M"
    <3>1. Waits(d) /\ Settled(k) /\ k \in Keys
      <4>1. Waits(d)
        BY <1>9, <2>1 DEF Waits
      <4>2. QED
        BY <1>u, <2>1, <4>1, CallTypes DEF Waits, Settled
    <3>2. CASE pc'[d] = pc[d] /\ answer'[d] = answer[d]
      <4>1. Current(k, answer[d])
        BY <2>1, <3>1, <3>2 DEF CoherentInv, AnswerFresh
      <4>2. QED
        BY <1>7, <3>2, <4>1 DEF Current, NoNewCopies
    <3>3. CASE d = r.of /\ answer'[d] = v
      <4>1. Shares(a, s, v) /\ Dict(cache[a]) /\ Wanted(r) = k
        BY <1>2, <1>3, <2>1, <3>1, <3>3 DEF Removes, CacheInv, CacheTypes, Wanted, Settled
      <4>2. Has(cache[a], k) /\ v = At(cache[a], k).value /\ s = Store(cache[a], k, "S", v)
        BY <1>3, <2>1, <3>3, <4>1 DEF Shares
      <4>3. /\ At(cache[a], k) \in Lines(cache[a]) /\ At(cache[a], k) \in Line
            /\ At(cache[a], k).key = k
        BY <4>1, <4>2, AtIs
      <4>4. InOrder(k)
        BY <2>1, <3>1, OthersInOrder DEF Waits, Calling
      <4>5. v = latest[k] /\ v \in Calls
        BY <4>2, <4>3, <4>4 DEF InOrder, Line
      <4>6. Lines(s) = Others(cache[a], k) \cup {[key |-> k, state |-> "S", value |-> v]}
        BY <3>1, <4>1, <4>2, <4>5, StoreDict
      <4>7. ASSUME NEW m \in Nodes, NEW l \in Lines(cache'[m]), l.key = k PROVE l.state # "M"
        <5>1. CASE m = a
          BY <1>8, <4>6, <4>7, <5>1 DEF Others
        <5>2. CASE m # a
          BY <1>8, <4>3, <4>4, <4>7, <5>2 DEF InOrder, Gone
        <5>3. QED
          BY <5>1, <5>2
      <4>8. QED
        BY <3>3, <4>5, <4>7
    <3>4. QED
      BY <1>5, <1>9, <2>1, <3>2, <3>3 DEF Waits, CacheInv, CacheTypes
  <2>2. QED
    BY <1>5, <2>1 DEF AnswerFresh, Current
<1>14. QED
  BY <1>11, <1>12, <1>13 DEF CoherentInv

\* A node that starts again has no lines; the keys of the puts that die half done
\* are unsettled.
LEMMA CoherentRestart ==
  ASSUME CacheInv, CoherentInv, NEW a \in Nodes, Restart(a)
  PROVE  CoherentInv'
<1>1. /\ cache' = [cache EXCEPT ![a] = << >>]
      /\ UNCHANGED <<call, asked, answer, latest>>
      /\ pc' = [c \in Calls |->
                  IF c \in {d \in Running : call[d].at = a} THEN "lost" ELSE pc[c]]
  BY DEF Restart
<1>2. /\ unsure \subseteq unsure'
      /\ \A c \in Calls : Waits(c) /\ call[c].op = "put" /\ call[c].at = a =>
           call[c].key \in unsure'
  <2>1. unsure' = unsure \cup {call[c].key :
                    c \in {d \in {e \in Running : call[e].at = a} :
                             call[d].op = "put" /\ pc[d] # "wait"}}
    BY DEF Restart
  <2>2. \A c \in Calls : Waits(c) => c \in Running /\ pc[c] # "wait"
    BY DEF Waits, Running
  <2>3. QED
    BY <2>1, <2>2
<1>3. NoNewCopies
  <2>1. Lines(<< >>) = {}
    BY DEF Lines
  <2>2. QED
    BY <1>1, <2>1, OneCacheCopies
<1>4. ASSUME NEW d \in Calls
      PROVE  /\ Waits(d)' => Waits(d) /\ pc'[d] = pc[d]
             /\ Waits(d) /\ call[d].at # a => Waits(d)'
  BY <1>1 DEF Waits
<1>5. ASSUME NEW k \in Keys, Settled(k)' PROVE Settled(k) /\ (HalfPut(k) => HalfPut(k)')
  <2>1. Settled(k)
    BY <1>2, <1>5 DEF Settled
  <2>2. ASSUME NEW c \in Calls, NEW n \in Nodes, Puts(c, n, k) PROVE Puts(c, n, k)'
    BY <1>1, <1>2, <1>4, <1>5, <2>2 DEF Puts, Settled
  <2>3. QED
    BY <2>1, <2>2 DEF HalfPut
<1>6. \A c \in Calls : Waits(c) => call[c].key \in Keys
  BY CallTypes DEF Waits
<1>7. QED
  BY <1>1, <1>3, <1>4, <1>5, <1>6, CoherentSame

LEMMA CoherentStep ==
  ASSUME CacheInv, Alone, CoherentInv, PeersListed, [Next]_vars
  PROVE  CoherentInv'
<1>1. \A c \in Calls : Waits(c) => call[c].key \in Keys
  BY CallTypes DEF Waits
<1>2. ASSUME cache' = cache, latest' = latest, unsure' = unsure,
             \A d \in Calls : Waits(d) => Waits(d)' /\ call'[d] = call[d],
             \A d \in Calls : Waits(d)' =>
               /\ Waits(d) /\ pc'[d] = pc[d] /\ call'[d] = call[d]
               /\ asked'[d] = asked[d] /\ answer'[d] = answer[d]
      PROVE  CoherentInv'
  <2>1. NoNewCopies
    BY <1>2 DEF NoNewCopies
  <2>2. \A k \in Keys : Settled(k)' => Settled(k) /\ (HalfPut(k) => HalfPut(k)')
    BY <1>2 DEF Settled, HalfPut, Puts
  <2>3. QED
    BY <1>1, <1>2, <2>1, <2>2, CoherentSame
<1>3. ASSUME NEW c \in Calls, NEW o \in {"get", "put"}, NEW k \in Keys, NEW a \in Nodes,
             Arrive(c, o, k, a)
      PROVE  CoherentInv'
  <2>1. /\ pc[c] = "new" /\ pc' = [pc EXCEPT ![c] = "wait"]
        /\ call' = [call EXCEPT ![c] = [op |-> o, key |-> k, at |-> a]]
        /\ UNCHANGED <<cache, asked, answer, latest, unsure>>
    BY <1>3 DEF Arrive, notes
  <2>2. ASSUME NEW d \in Calls
        PROVE  /\ Waits(d)' <=> Waits(d)
               /\ Waits(d) => call'[d] = call[d] /\ pc'[d] = pc[d]
    BY <2>1 DEF Waits, CacheInv, CacheTypes
  <2>3. QED
    BY <1>2, <2>1, <2>2
<1>4. ASSUME NEW r \in wire, Deliver(r) \/ Lose(r) PROVE CoherentInv'
  BY <1>2, <1>4 DEF Deliver, Lose, notes, Waits
<1>5. CASE UNCHANGED vars
  BY <1>2, <1>5 DEF vars, Waits
<1>6. QED
  BY <1>3, <1>4, <1>5, CoherentCall, CoherentAnswer, CoherentRestart DEF Next, Arrivals

LEMMA OneByOne ==
  ASSUME PeersListed, Concurrency = 1
  PROVE  Spec => [](CacheInv /\ Alone /\ CoherentInv)
<1>1. Init => Alone /\ CoherentInv
  <2>. SUFFICES ASSUME Init PROVE Alone /\ CoherentInv
    OBVIOUS
  <2>1. Running = {} /\ \A d \in Calls : ~Calling(d) /\ ~Waits(d) /\ pc[d] = "new"
    BY DEF Init, Running, Calling, Waits
  <2>2. Alone
    BY <2>1, FS_EmptySet DEF Alone
  <2>3. AtRest
    BY DEF Init, AtRest, InOrder, Lines
  <2>4. ToldGone /\ AnswerFresh
    BY <2>1 DEF ToldGone, AnswerFresh, Puts
  <2>5. QED
    BY <2>2, <2>3, <2>4 DEF CoherentInv
<1>2. CacheInv /\ Alone /\ CoherentInv /\ [Next]_vars => Alone' /\ CoherentInv'
  BY AloneStep, CoherentStep
<1>3. QED
  BY <1>1, <1>2, CacheInvariant, PTL DEF Spec

\* With one call at a time and every node listing the others, while no call runs
\* every copy of a key whose last put every other node has executed is what was
\* put last, and an owner's copy is the only one: for any nodes, keys and
\* capacity, whatever requests have been lost or are still on their way, whatever
\* calls have timed out and nodes have restarted, and also for a node that lists
\* itself, which executes its own request after its call has given it up.
THEOREM CopiesCoherent ==
  ASSUME PeersListed, Concurrency = 1 PROVE Spec => []CoherentWhenQuiet
<1>1. CacheInv /\ CoherentInv => CoherentWhenQuiet
  <2>. SUFFICES ASSUME CacheInv, CoherentInv, Quiet, NEW n \in Nodes, NEW k \in Keys,
                      Settled(k), Has(cache[n], k)
               PROVE  /\ At(cache[n], k).value = latest[k]
                      /\ Owns(n, k) => \A m \in Nodes \ {n} : ~Has(cache[m], k)
    BY DEF CoherentWhenQuiet
  <2>1. \A m \in Nodes : Dict(cache[m])
    BY DEF CacheInv, CacheTypes
  <2>2. At(cache[n], k) \in Lines(cache[n]) /\ At(cache[n], k).key = k
    BY <2>1, AtIs
  <2>3. InOrder(k)
    <3>1. ~HalfPut(k)
      BY DEF Quiet, Running, HalfPut, Puts, Waits
    <3>2. QED
      BY <3>1 DEF CoherentInv, AtRest
  <2>4. At(cache[n], k).value = latest[k]
    BY <2>2, <2>3 DEF InOrder
  <2>5. ASSUME Owns(n, k), NEW m \in Nodes \ {n} PROVE ~Has(cache[m], k)
    <3>1. Gone(m, k)
      BY <2>2, <2>3, <2>5 DEF Owns, InOrder
    <3>2. QED
      BY <2>1, <3>1, AtIs DEF Gone
  <2>6. QED
    BY <2>4, <2>5
<1>2. QED
  BY <1>1, OneByOne, PTL

\* Under the same conditions a get of such a key returns what was put last, or
\* None (cache_node.py:36-67).
THEOREM ReadsFresh ==
  ASSUME PeersListed, Concurrency = 1 PROVE Spec => FreshReads
<1>. DEFINE Fresh == \A c \in Calls :
       /\ pc'[c] = "done" /\ pc[c] # "done"
       /\ call[c].op = "get" /\ Settled(call[c].key)
       => result'[c] \in {latest[call[c].key], Nothing}
<1>1. ASSUME CacheInv, Alone, CoherentInv, Next, NEW c \in Calls,
             pc'[c] = "done", pc[c] # "done", call[c].op = "get", Settled(call[c].key)
      PROVE  result'[c] \in {latest[call[c].key], Nothing}
  <2>1. CASE Arrivals
    BY <1>1, <2>1 DEF Arrivals, Arrive, CacheInv, CacheTypes
  <2>2. ASSUME NEW d \in Calls, CallStep(d)
        PROVE  result'[c] \in {latest[call[c].key], Nothing}
    <3>0. /\ Calling(d) /\ pc[d] # "new"
          /\ AsksNext(d) \/ GetsHit(d) \/ GetsNothing(d) \/ PutsLine(d) \/ GetsFetched(d)
      BY <1>1, <2>2, CallForms DEF Calling
    <3>1. ASSUME NEW s, NEW v, Return(d, s, v) PROVE d = c /\ result'[c] = v
      BY <1>1, <3>1 DEF Return, CacheInv, CacheTypes
    <3>2. CASE AsksNext(d)
      BY <1>1, <3>2 DEF AsksNext, AsksPeer, CacheInv, CacheTypes
    <3>3. CASE GetsHit(d)
      <4>1. d = c
        BY <3>1, <3>3 DEF GetsHit
      <4>2. PICK n \in Nodes, k \in Keys : n = call[c].at /\ k = call[c].key
        BY <1>1, <3>0, <4>1, CallTypes
      <4>3. result'[c] = At(cache[n], k).value /\ Has(cache[n], k)
        BY <3>1, <3>3, <4>1, <4>2 DEF GetsHit
      <4>4. At(cache[n], k) \in Lines(cache[n]) /\ At(cache[n], k).key = k
        <5>1. Dict(cache[n])
          BY <1>1 DEF CacheInv, CacheTypes
        <5>2. QED
          BY <4>3, <5>1, AtIs
      <4>5. InOrder(k)
        BY <1>1, <3>0, <4>1, <4>2, OthersInOrder
      <4>6. QED
        BY <4>2, <4>3, <4>4, <4>5 DEF InOrder
    <3>4. CASE GetsNothing(d)
      BY <3>1, <3>4 DEF GetsNothing
    <3>5. CASE GetsFetched(d)
      BY <3>1, <3>5 DEF GetsFetched
    <3>6. CASE PutsLine(d)
      BY <1>1, <3>1, <3>6 DEF PutsLine
    <3>7. QED
      BY <3>0, <3>2, <3>3, <3>4, <3>5, <3>6
  <2>3. CASE \E q \in wire : Deliver(q) \/ Lose(q)
    BY <1>1, <2>3 DEF Deliver, Lose
  <2>4. ASSUME NEW n \in Nodes, NodeStep(n) PROVE FALSE
    <3>1. Head(lockq[n]) \in Request
      BY <1>1, <2>4, NodeForms
    <3>2. PICK s, v : Answer(Head(lockq[n]), n, s, v)
      BY <1>1, <2>4, NodeForms
    <3>3. QED
      BY <1>1, <3>2 DEF Answer, CacheInv, CacheTypes
  <2>5. ASSUME NEW n \in Nodes, Restart(n) PROVE FALSE
    <3>1. pc'[c] = pc[c] \/ pc'[c] = "lost"
      BY <2>5 DEF Restart
    <3>2. QED
      BY <1>1, <3>1
  <2>6. QED
    BY <1>1, <2>1, <2>2, <2>3, <2>4, <2>5 DEF Next
<1>2. CacheInv /\ Alone /\ CoherentInv /\ [Next]_vars => [Fresh]_vars
  BY <1>1
<1>3. QED
  BY <1>2, OneByOne, PTL DEF Spec, FreshReads

=============================================================================
