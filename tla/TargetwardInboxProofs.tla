----------------------- MODULE TargetwardInboxProofs -----------------------
(***************************************************************************)
(* Lemmas about sequences without repetitions and about the operators of   *)
(* TargetwardInbox, for the proofs about the pumps that use them.          *)
(***************************************************************************)
EXTENDS TargetwardInbox, SequenceTheorems, FiniteSetTheorems, TLAPS

(* Sequences *)

\* Nothing is in an empty sequence.
LEMMA ToSetEmpty == ToSet(<<>>) = {}
BY DEF ToSet

\* Appending adds one element.
LEMMA ToSetAppend ==
    ASSUME NEW S, NEW q \in Seq(S), NEW c \in S
    PROVE  ToSet(Append(q, c)) = ToSet(q) \cup {c}
<1>1. /\ Append(q, c) \in Seq(S) /\ Len(Append(q, c)) = Len(q) + 1
      /\ \A i \in 1 .. Len(q) : Append(q, c)[i] = q[i]
      /\ Append(q, c)[Len(q) + 1] = c /\ Len(q) \in Nat
  BY AppendProperties
<1>2. DOMAIN q = 1 .. Len(q) /\ DOMAIN Append(q, c) = 1 .. Len(q) + 1
  BY <1>1
<1> DEFINE a == Append(q, c)
<1> HIDE DEF a
<1> QED BY <1>1, <1>2 DEF ToSet, a

\* The head and the tail make up the sequence.
LEMMA ToSetHead ==
    ASSUME NEW S, NEW q \in Seq(S), q # <<>>
    PROVE  /\ Head(q) \in S /\ Tail(q) \in Seq(S)
           /\ ToSet(q) = {Head(q)} \cup ToSet(Tail(q))
<1>1. /\ Head(q) = q[1] /\ Len(q) \in Nat \ {0} /\ Tail(q) \in Seq(S)
      /\ Len(Tail(q)) = Len(q) - 1
      /\ \A i \in 1 .. Len(q) - 1 : Tail(q)[i] = q[i + 1]
  BY HeadTailProperties
<1>2. DOMAIN q = 1 .. Len(q) /\ DOMAIN Tail(q) = 1 .. Len(q) - 1
  BY <1>1
<1>3. \A i \in 1 .. Len(q) : q[i] \in S
  OBVIOUS
<1> DEFINE t == Tail(q)
           h == Head(q)
<1> HIDE DEF t, h
<1>4. \A i \in 1 .. Len(q) : i = 1 \/ (i - 1 \in 1 .. Len(q) - 1 /\ q[i] = t[i - 1])
  BY <1>1 DEF t
<1>5. ToSet(q) \subseteq {h} \cup ToSet(t)
  <2>1. SUFFICES ASSUME NEW i \in 1 .. Len(q) PROVE q[i] \in {h} \cup ToSet(t)
    BY <1>2 DEF ToSet
  <2>2. CASE i = 1
    BY <2>2, <1>1 DEF h
  <2>3. CASE i - 1 \in 1 .. Len(q) - 1 /\ q[i] = t[i - 1]
    BY <2>3, <1>2 DEF ToSet, t
  <2> QED BY <1>4, <2>2, <2>3
<1>6. \A i \in 1 .. Len(q) - 1 : i + 1 \in 1 .. Len(q) /\ t[i] = q[i + 1]
  BY <1>1 DEF t
<1>7. {h} \cup ToSet(t) \subseteq ToSet(q)
  BY <1>1, <1>2, <1>6 DEF ToSet, t, h
<1>8. h \in S
  BY <1>1, <1>3 DEF h
<1> QED BY <1>1, <1>5, <1>7, <1>8 DEF t, h

\* The elements of a typed sequence are of its type.
LEMMA ToSetType ==
    ASSUME NEW S, NEW q \in Seq(S)
    PROVE  ToSet(q) \subseteq S
BY DEF ToSet

\* Removing an element of a sequence, index by index.
LEMMA RemoveAtProperties ==
    ASSUME NEW S, NEW s \in Seq(S), NEW i \in 1 .. Len(s)
    PROVE  /\ RemoveAt(s, i) \in Seq(S)
           /\ Len(RemoveAt(s, i)) = Len(s) - 1
           /\ \A k \in 1 .. Len(s) - 1 :
                  RemoveAt(s, i)[k] = IF k < i THEN s[k] ELSE s[k + 1]
<1>1. Len(s) \in Nat /\ i \in Nat
  OBVIOUS
<1> DEFINE u == SubSeq(s, 1, i - 1)
           v == SubSeq(s, i + 1, Len(s))
<1>2. /\ u \in Seq(S) /\ Len(u) = i - 1
      /\ \A k \in 1 .. i - 1 : u[k] = s[k]
  BY <1>1
<1>3. /\ v \in Seq(S) /\ Len(v) = Len(s) - i
      /\ \A k \in 1 .. Len(s) - i : v[k] = s[k + i]
  BY <1>1
<1>4. RemoveAt(s, i) = u \o v
  BY DEF RemoveAt
<1> HIDE DEF u, v
<1>5. /\ u \o v \in Seq(S) /\ Len(u \o v) = Len(s) - 1
      /\ \A k \in 1 .. Len(s) - 1 :
             (u \o v)[k] = IF k <= Len(u) THEN u[k] ELSE v[k - Len(u)]
  <2>1. Len(u) + Len(v) = Len(s) - 1
    BY <1>1, <1>2, <1>3
  <2>2. /\ u \o v \in Seq(S) /\ Len(u \o v) = Len(u) + Len(v)
        /\ \A k \in 1 .. Len(u) + Len(v) :
               (u \o v)[k] = IF k <= Len(u) THEN u[k] ELSE v[k - Len(u)]
    BY <1>2, <1>3, ConcatProperties, Zenon
  <2> QED BY <2>1, <2>2, Zenon
<1>6. \A k \in 1 .. Len(s) - 1 : (u \o v)[k] = IF k < i THEN s[k] ELSE s[k + 1]
  BY <1>1, <1>2, <1>3, <1>5
<1> QED BY <1>4, <1>5, <1>6
-----------------------------------------------------------------------------
(* The inbox *)

\* No chunk is in two hands.
HandsUnique(b) ==
    /\ \A i, j \in 1 .. Len(b.waiting) :
           b.waiting[i].chunk = b.waiting[j].chunk => i = j
    /\ \A s, t \in b.granted : s.chunk = t.chunk => s = t
    /\ \A i \in 1 .. Len(b.waiting), s \in b.granted :
           b.waiting[i].chunk # s.chunk

SameQueue(b, d) == d.open = b.open /\ d.queue = b.queue /\ d.held = b.held

\* Handing out permits moves senders, and nothing else.
LEMMA PermitsProperties ==
    ASSUME NEW b \in InboxState, NEW n \in Nat, HandsUnique(b)
    PROVE  LET d == Permits(b, n)
           IN  /\ d \in InboxState
               /\ SameQueue(b, d)
               /\ InHands(d) = InHands(b)
               /\ HandsUnique(d)
<1> DEFINE w == b.waiting
           k == IF n < Len(w) THEN n ELSE Len(w)
           G == b.granted \cup {w[i] : i \in 1 .. k}
           r == SubSeq(w, k + 1, Len(w))
           d == Permits(b, n)
<1>1. w \in Seq(Suspended) /\ b.granted \subseteq Suspended /\ Len(w) \in Nat
  BY DEF InboxState
<1>2. k \in 0 .. Len(w)
  BY <1>1
<1>3. d = [b EXCEPT !.granted = G, !.waiting = r]
  BY DEF Permits
<1> HIDE DEF k
<1>4. /\ r \in Seq(Suspended) /\ Len(r) = Len(w) - k
      /\ \A i \in 1 .. Len(w) - k : r[i] = w[i + k]
  BY <1>1, <1>2
<1> HIDE DEF r
<1>5. G \subseteq Suspended
  BY <1>1, <1>2
<1>6. d.granted = G /\ d.waiting = r /\ SameQueue(b, d) /\ d \in InboxState
  BY <1>1, <1>3, <1>4, <1>5 DEF InboxState, SameQueue
<1>7. ToSet(r) \cup G = ToSet(w) \cup b.granted
  <2>1. DOMAIN w = 1 .. Len(w) /\ DOMAIN r = 1 .. Len(w) - k
    BY <1>1, <1>4
  <2>2. ToSet(r) \cup G \subseteq ToSet(w) \cup b.granted
    <3>1. \A i \in 1 .. Len(w) - k : i + k \in 1 .. Len(w)
      BY <1>1, <1>2
    <3>2. \A i \in 1 .. k : i \in 1 .. Len(w)
      BY <1>1, <1>2
    <3> QED BY <1>4, <2>1, <3>1, <3>2 DEF ToSet
  <2>3. ASSUME NEW i \in 1 .. Len(w) PROVE w[i] \in ToSet(r) \cup G
    <3>1. CASE i \in 1 .. k
      BY <3>1
    <3>2. CASE i - k \in 1 .. Len(w) - k
      <4>1. r[i - k] = w[i]
        BY <3>2, <1>1, <1>2, <1>4
      <4> QED BY <3>2, <4>1, <2>1 DEF ToSet
    <3> QED BY <3>1, <3>2, <1>1, <1>2
  <2> QED BY <2>1, <2>2, <2>3 DEF ToSet
<1>8. InHands(d) = InHands(b)
  BY <1>6, <1>7 DEF InHands
<1>9. HandsUnique(d)
  <2>1. \A i, j \in 1 .. Len(w) : w[i].chunk = w[j].chunk => i = j
    BY DEF HandsUnique
  <2>2. \A i \in 1 .. Len(w), s \in b.granted : w[i].chunk # s.chunk
    BY DEF HandsUnique
  <2>3. ASSUME NEW i \in 1 .. Len(r), NEW j \in 1 .. Len(r), r[i].chunk = r[j].chunk
        PROVE  i = j
    <3>1. /\ i + k \in 1 .. Len(w) /\ r[i] = w[i + k]
          /\ j + k \in 1 .. Len(w) /\ r[j] = w[j + k]
      BY <1>1, <1>2, <1>4
    <3>2. i + k = j + k
      BY <2>1, <2>3, <3>1
    <3> QED BY <1>2, <3>2
  <2>4. \A s, t \in G : s.chunk = t.chunk => s = t
    BY <1>1, <1>2, <2>1, <2>2 DEF HandsUnique
  <2>5. ASSUME NEW i \in 1 .. Len(r), NEW s \in G PROVE r[i].chunk # s.chunk
    <3>1. i + k \in 1 .. Len(w) /\ i + k > k /\ r[i] = w[i + k]
      BY <1>1, <1>2, <1>4
    <3>2. CASE s \in b.granted
      BY <3>1, <3>2, <2>2
    <3>3. ASSUME NEW j \in 1 .. k, s = w[j] PROVE r[i].chunk # s.chunk
      <4>1. j \in 1 .. Len(w) /\ j # i + k
        BY <3>1, <1>1, <1>2
      <4> QED BY <3>1, <3>3, <4>1, <2>1
    <3> QED BY <3>2, <3>3
  <2> QED BY <1>6, <2>3, <2>4, <2>5 DEF HandsUnique
<1> HIDE DEF d
<1> QED BY <1>6, <1>8, <1>9 DEF d

\* A suspended sender that leaves takes nothing else along.
LEMMA WithdrawProperties ==
    ASSUME NEW b \in InboxState, HandsUnique(b), NEW s \in InHands(b)
    PROVE  LET d == Withdraw(b, s)
           IN  /\ d \in InboxState
               /\ SameQueue(b, d)
               /\ InHands(d) \subseteq InHands(b)
               /\ HandsUnique(d)
<1>1. CASE s \in b.granted
  <2> DEFINE e == [b EXCEPT !.granted = @ \ {s}]
  <2>1. e \in InboxState /\ SameQueue(b, e) /\ e.waiting = b.waiting
        /\ e.granted = b.granted \ {s}
    BY DEF InboxState, SameQueue
  <2>2. HandsUnique(e) /\ InHands(e) \subseteq InHands(b)
    BY <2>1 DEF HandsUnique, InHands
  <2>3. Withdraw(b, s) = Permits(e, 1)
    BY <1>1 DEF Withdraw
  <2> HIDE DEF e
  <2>4. LET d == Permits(e, 1)
        IN  /\ d \in InboxState /\ SameQueue(e, d)
            /\ InHands(d) = InHands(e) /\ HandsUnique(d)
    BY <2>1, <2>2, PermitsProperties
  <2> QED BY <2>1, <2>2, <2>3, <2>4 DEF SameQueue
<1>2. CASE s \notin b.granted
  <2> DEFINE w == b.waiting
             at == CHOOSE i \in 1 .. Len(w) : w[i] = s
             r == RemoveAt(w, at)
             d == Withdraw(b, s)
  <2>1. w \in Seq(Suspended) /\ Len(w) \in Nat /\ DOMAIN w = 1 .. Len(w)
    BY DEF InboxState
  <2>2. at \in 1 .. Len(w)
    BY <1>2, <2>1 DEF InHands, ToSet
  <2>3. d = [b EXCEPT !.waiting = r]
    BY <1>2 DEF Withdraw
  <2> HIDE DEF at
  <2>4. /\ r \in Seq(Suspended) /\ Len(r) = Len(w) - 1
        /\ \A k \in 1 .. Len(w) - 1 : r[k] = IF k < at THEN w[k] ELSE w[k + 1]
    BY <2>1, <2>2, RemoveAtProperties
  <2> HIDE DEF r
  <2>5. /\ d \in InboxState /\ SameQueue(b, d)
        /\ d.waiting = r /\ d.granted = b.granted
    BY <2>3, <2>4 DEF InboxState, SameQueue
  <2>6. \A k \in 1 .. Len(r) : \E j \in 1 .. Len(w) : r[k] = w[j]
    BY <2>1, <2>2, <2>4
  <2>7. ToSet(r) \subseteq ToSet(w)
    <3>1. DOMAIN r = 1 .. Len(r)
      BY <2>4
    <3> QED BY <2>1, <2>6, <3>1 DEF ToSet
  <2>8. \A i, j \in 1 .. Len(w) : w[i].chunk = w[j].chunk => i = j
    BY DEF HandsUnique
  <2>9. ASSUME NEW i \in 1 .. Len(r), NEW j \in 1 .. Len(r), r[i].chunk = r[j].chunk
        PROVE  i = j
    <3> DEFINE f(k) == IF k < at THEN k ELSE k + 1
    <3>1. /\ f(i) \in 1 .. Len(w) /\ r[i] = w[f(i)]
          /\ f(j) \in 1 .. Len(w) /\ r[j] = w[f(j)]
      BY <2>1, <2>2, <2>4
    <3>2. f(i) = f(j) => i = j
      BY <2>1, <2>2, <2>4
    <3> HIDE DEF f
    <3> QED BY <2>8, <2>9, <3>1, <3>2
  <2>10. \A i \in 1 .. Len(r), g \in b.granted : r[i].chunk # g.chunk
    BY <2>6 DEF HandsUnique
  <2>11. HandsUnique(d)
    BY <2>5, <2>9, <2>10 DEF HandsUnique
  <2> HIDE DEF d
  <2> QED BY <2>5, <2>7, <2>11 DEF InHands, d
<1> QED BY <1>1, <1>2

\* Receiving moves the head of the queue into the pump's hands.
LEMMA PollRecvProperties ==
    ASSUME NEW b \in InboxState, HandsUnique(b), b.queue # <<>>
    PROVE  LET d == PollRecv(b)
           IN  /\ d \in InboxState /\ HandsUnique(d)
               /\ d.open = b.open /\ d.queue = Tail(b.queue)
               /\ d.held = Head(b.queue)
               /\ InHands(d) = InHands(b)
<1> DEFINE e == [b EXCEPT !.queue = Tail(@), !.held = Head(b.queue)]
<1>1. b.queue \in Seq(Chunk)
  BY DEF InboxState
<1>2. Tail(b.queue) \in Seq(Chunk) /\ Head(b.queue) \in Chunk
  BY <1>1, ToSetHead
<1>3. /\ e \in InboxState /\ e.open = b.open /\ e.queue = Tail(b.queue)
      /\ e.held = Head(b.queue) /\ e.waiting = b.waiting /\ e.granted = b.granted
  BY <1>2 DEF InboxState
<1>4. HandsUnique(e) /\ InHands(e) = InHands(b)
  BY <1>3 DEF HandsUnique, InHands
<1>5. PollRecv(b) = Permits(e, 1)
  BY DEF PollRecv
<1> HIDE DEF e
<1> QED BY <1>3, <1>4, <1>5, PermitsProperties DEF SameQueue

\* A round of the purge empties the queue and leaves the hands alone.
LEMMA DrainProperties ==
    ASSUME NEW b \in InboxState, HandsUnique(b)
    PROVE  LET d == Drain(b)
           IN  /\ d \in InboxState /\ HandsUnique(d)
               /\ d.open = b.open /\ d.queue = <<>> /\ d.held = b.held
               /\ InHands(d) = InHands(b)
<1> DEFINE z == <<>>
           e == [b EXCEPT !.queue = z]
<1>1. Len(b.queue) \in Nat /\ z \in Seq(Chunk)
  BY DEF InboxState
<1>2. Drain(b) = Permits(e, Len(b.queue))
  BY DEF Drain
<1> HIDE DEF z
<1>3. /\ e \in InboxState /\ e.open = b.open /\ e.queue = z
      /\ e.held = b.held /\ e.waiting = b.waiting /\ e.granted = b.granted
  BY <1>1 DEF InboxState
<1>4. HandsUnique(e) /\ InHands(e) = InHands(b)
  BY <1>3 DEF HandsUnique, InHands
<1> HIDE DEF e
<1>5. LET d == Permits(e, Len(b.queue))
      IN  /\ d \in InboxState /\ SameQueue(e, d)
          /\ InHands(d) = InHands(e) /\ HandsUnique(d)
  BY <1>1, <1>3, <1>4, PermitsProperties
<1> QED BY <1>2, <1>3, <1>4, <1>5 DEF SameQueue, z

\* A queue without repetitions.
Unique(q) == \A i, j \in 1 .. Len(q) : q[i] = q[j] => i = j

\* A new element keeps a sequence without repetition.
LEMMA UniqueAppend ==
    ASSUME NEW S, NEW q \in Seq(S), NEW c \in S, Unique(q), c \notin ToSet(q)
    PROVE  Unique(Append(q, c))
<1>1. /\ Len(Append(q, c)) = Len(q) + 1
      /\ \A i \in 1 .. Len(q) : Append(q, c)[i] = q[i] /\ q[i] # c
      /\ Append(q, c)[Len(q) + 1] = c /\ Len(q) \in Nat
  BY DEF ToSet
<1> QED BY <1>1 DEF Unique

\* The tail of a sequence without repetition is one.
LEMMA UniqueTail ==
    ASSUME NEW S, NEW q \in Seq(S), q # <<>>, Unique(q)
    PROVE  Unique(Tail(q)) /\ Head(q) \notin ToSet(Tail(q))
<1> DEFINE t == Tail(q)
           h == Head(q)
<1>1. /\ h = q[1] /\ Len(q) \in Nat \ {0} /\ Len(t) = Len(q) - 1
      /\ \A i \in 1 .. Len(q) - 1 : t[i] = q[i + 1]
      /\ DOMAIN t = 1 .. Len(q) - 1
  BY HeadTailProperties
<1> HIDE DEF t, h
<1>2. Unique(t)
  BY <1>1 DEF Unique
<1>3. \A i \in 1 .. Len(q) - 1 : t[i] # h
  BY <1>1 DEF Unique
<1>4. h \notin ToSet(t)
  BY <1>1, <1>3 DEF ToSet
<1> QED BY <1>2, <1>4 DEF t, h

-----------------------------------------------------------------------------
(* Backpressure *)

\* Nobody is suspended twice, and nobody while there is room.
Pressure(b) ==
    /\ IsFiniteSet(b.granted)
    /\ \A i, j \in 1 .. Len(b.waiting) : b.waiting[i].who = b.waiting[j].who => i = j
    /\ b.open /\ b.waiting # <<>> => Len(b.queue) + Cardinality(b.granted) >= Cap

\* Whoever is still suspended has moved up by k places at least.
MovesUp(b, d, k) ==
    \A i \in 1 .. Len(d.waiting) :
        \E j \in 1 .. Len(b.waiting) : j >= i + k /\ d.waiting[i] = b.waiting[j]

\* A prefix of a sequence without repetitions has as many elements as places.
LEMMA PrefixCount ==
    ASSUME NEW S, NEW w \in Seq(S), NEW k \in 0 .. Len(w),
           \A i, j \in 1 .. Len(w) : w[i] = w[j] => i = j,
           NEW T, T = {w[i] : i \in 1 .. k}
    PROVE  IsFiniteSet(T) /\ Cardinality(T) = k
<1> DEFINE f == [i \in 1 .. k |-> w[i]]
<1>1. k \in Nat /\ \A i \in 1 .. k : i \in 1 .. Len(w)
  OBVIOUS
<1>2. f \in [1 .. k -> T]
  OBVIOUS
<1>3. \A i, j \in 1 .. k : f[i] = f[j] => i = j
  BY <1>1
<1>4. \A t \in T : \E i \in 1 .. k : f[i] = t
  OBVIOUS
<1>5. f \in Bijection(1 .. k, T)
  BY <1>2, <1>3, <1>4 DEF Bijection, Injection, Surjection, IsInjective
<1>6. IsFiniteSet(1 .. k) /\ Cardinality(1 .. k) = k
  BY <1>1, FS_Interval
<1>7. ExistsBijection(1 .. k, T)
  BY <1>5 DEF ExistsBijection
<1> HIDE DEF f
<1> QED BY <1>6, <1>7, FS_Bijection

\* Permits are handed out one each, from the front.
LEMMA PermitsMove ==
    ASSUME NEW b \in InboxState, HandsUnique(b), NEW n \in Nat, IsFiniteSet(b.granted)
    PROVE  LET d == Permits(b, n)
               k == IF n < Len(b.waiting) THEN n ELSE Len(b.waiting)
           IN  /\ d.waiting \in Seq(Suspended) /\ Len(d.waiting) = Len(b.waiting) - k
               /\ \A i \in 1 .. Len(d.waiting) : d.waiting[i] = b.waiting[i + k]
               /\ IsFiniteSet(d.granted)
               /\ Cardinality(d.granted) = Cardinality(b.granted) + k
<1> DEFINE w == b.waiting
           k == IF n < Len(w) THEN n ELSE Len(w)
           P == {w[i] : i \in 1 .. k}
           G == b.granted \cup P
           r == SubSeq(w, k + 1, Len(w))
           d == Permits(b, n)
<1>1. w \in Seq(Suspended) /\ Len(w) \in Nat
  BY DEF InboxState
<1>2. k \in 0 .. Len(w)
  BY <1>1
<1>3. d = [b EXCEPT !.granted = G, !.waiting = r]
  BY DEF Permits
<1> HIDE DEF k
<1>4. /\ r \in Seq(Suspended) /\ Len(r) = Len(w) - k
      /\ \A i \in 1 .. Len(w) - k : r[i] = w[i + k]
  BY <1>1, <1>2
<1>5. \A i, j \in 1 .. Len(w) : w[i] = w[j] => i = j
  BY DEF HandsUnique
<1>6. IsFiniteSet(P) /\ Cardinality(P) = k
  <2>1. P = {w[i] : i \in 1 .. k}
    OBVIOUS
  <2> HIDE DEF w, P, r, d, G
  <2> QED BY <1>1, <1>2, <1>5, <2>1, PrefixCount
<1>7. b.granted \cap P = {}
  BY <1>1, <1>2 DEF HandsUnique
<1> HIDE DEF P, r
<1>8. IsFiniteSet(G) /\ Cardinality(G) = Cardinality(b.granted) + k
  <2>1. IsFiniteSet(G) /\ Cardinality(G) = Cardinality(b.granted) + k - Cardinality({})
    BY <1>6, <1>7, FS_Union
  <2>2. Cardinality({}) = 0 /\ Cardinality(b.granted) \in Nat
    BY FS_EmptySet, FS_CardinalityType
  <2> QED BY <1>2, <2>1, <2>2
<1> HIDE DEF G
<1>9. d.granted = G /\ d.waiting = r
  BY <1>3 DEF InboxState
<1> HIDE DEF d
<1> QED BY <1>4, <1>8, <1>9 DEF d, k

\* If what the permits stand for was taken out, the channel is as full as before for
\* whoever still waits.
LEMMA PressurePermits ==
    ASSUME NEW b \in InboxState, HandsUnique(b), NEW n \in Nat, IsFiniteSet(b.granted),
           \A i, j \in 1 .. Len(b.waiting) : b.waiting[i].who = b.waiting[j].who => i = j,
           b.open /\ b.waiting # <<>> => Len(b.queue) + n + Cardinality(b.granted) >= Cap
    PROVE  /\ Pressure(Permits(b, n))
           /\ Permits(b, n).waiting # <<>> => MovesUp(b, Permits(b, n), n)
           /\ MovesUp(b, Permits(b, n), 0)
<1> DEFINE d == Permits(b, n)
           k == IF n < Len(b.waiting) THEN n ELSE Len(b.waiting)
<1>1. /\ d.waiting \in Seq(Suspended) /\ Len(d.waiting) = Len(b.waiting) - k
      /\ \A i \in 1 .. Len(d.waiting) : d.waiting[i] = b.waiting[i + k]
      /\ IsFiniteSet(d.granted)
      /\ Cardinality(d.granted) = Cardinality(b.granted) + k
  BY PermitsMove
<1>2. SameQueue(b, d)
  BY PermitsProperties
<1>3. Len(b.waiting) \in Nat /\ Len(b.queue) \in Nat /\ Cardinality(b.granted) \in Nat
  BY FS_CardinalityType DEF InboxState
<1>4. k \in 0 .. Len(b.waiting)
  BY <1>3
<1> HIDE DEF d
<1>5. d.waiting # <<>> => k = n /\ b.waiting # <<>>
  <2> SUFFICES ASSUME d.waiting # <<>> PROVE k = n /\ b.waiting # <<>>
    OBVIOUS
  <2>1. Len(d.waiting) \in Nat /\ Len(d.waiting) # 0
    <3> DEFINE q == d.waiting
    <3>1. q \in Seq(Suspended) /\ q # <<>>
      BY <1>1
    <3> HIDE DEF q
    <3>2. Len(q) \in Nat /\ Len(q) # 0
      BY <3>1
    <3> QED BY <3>2 DEF q
  <2>2. Len(b.waiting) # 0 /\ Len(b.waiting) # k
    BY <1>1, <1>3, <1>4, <2>1
  <2> QED BY <2>2
<1>6. d.open /\ d.waiting # <<>> => Len(d.queue) + Cardinality(d.granted) >= Cap
  BY <1>1, <1>2, <1>3, <1>5, CapAssumption DEF SameQueue
<1>7. \A i \in 1 .. Len(d.waiting) : i + k \in 1 .. Len(b.waiting)
  BY <1>1, <1>3, <1>4
<1> HIDE DEF k
<1>8. \A i, j \in 1 .. Len(d.waiting) : d.waiting[i].who = d.waiting[j].who => i = j
  <2> SUFFICES ASSUME NEW i \in 1 .. Len(d.waiting), NEW j \in 1 .. Len(d.waiting),
                      d.waiting[i].who = d.waiting[j].who
               PROVE  i = j
    OBVIOUS
  <2>1. d.waiting[i] = b.waiting[i + k] /\ d.waiting[j] = b.waiting[j + k]
    BY <1>1
  <2>2. i + k \in 1 .. Len(b.waiting) /\ j + k \in 1 .. Len(b.waiting)
    BY <1>7
  <2>3. i + k = j + k
    BY <2>1, <2>2
  <2> QED BY <1>3, <1>4, <2>3
<1>9. MovesUp(b, d, k)
  BY <1>1, <1>4, <1>7 DEF MovesUp
<1>10. MovesUp(b, d, 0)
  BY <1>1, <1>4, <1>7 DEF MovesUp
<1> QED BY <1>1, <1>5, <1>6, <1>8, <1>9, <1>10 DEF Pressure, d

\* A sender that leaves passes its permit on, or its place.
LEMMA WithdrawMoves ==
    ASSUME NEW b \in InboxState, HandsUnique(b), Pressure(b), NEW s \in InHands(b)
    PROVE  LET d == Withdraw(b, s)
           IN  Pressure(d) /\ MovesUp(b, d, 0) /\ InHands(b) \subseteq InHands(d) \cup {s}
<1>1. CASE s \in b.granted
  <2> DEFINE e == [b EXCEPT !.granted = @ \ {s}]
  <2>1. e \in InboxState /\ SameQueue(b, e) /\ e.waiting = b.waiting
        /\ e.granted = b.granted \ {s}
    BY DEF InboxState, SameQueue
  <2>2. HandsUnique(e) /\ InHands(b) \subseteq InHands(e) \cup {s}
    BY <2>1 DEF HandsUnique, InHands
  <2>3. Withdraw(b, s) = Permits(e, 1)
    BY <1>1 DEF Withdraw
  <2> HIDE DEF e
  <2>4. IsFiniteSet(e.granted) /\ Cardinality(e.granted) = Cardinality(b.granted) - 1
        /\ Cardinality(b.granted) \in Nat
    BY <1>1, <2>1, FS_RemoveElement, FS_CardinalityType DEF Pressure
  <2>5. e.open /\ e.waiting # <<>> => Len(e.queue) + 1 + Cardinality(e.granted) >= Cap
    <3>1. Len(b.queue) \in Nat
      BY DEF InboxState
    <3> QED BY <2>1, <2>4, <3>1, CapAssumption DEF Pressure, SameQueue
  <2>6. Pressure(Permits(e, 1)) /\ MovesUp(e, Permits(e, 1), 0)
    BY <2>1, <2>2, <2>4, <2>5, PressurePermits DEF Pressure
  <2>7. InHands(Permits(e, 1)) = InHands(e)
    BY <2>1, <2>2, PermitsProperties
  <2> QED BY <2>1, <2>2, <2>3, <2>6, <2>7 DEF MovesUp
<1>2. CASE s \notin b.granted
  <2> DEFINE w == b.waiting
             at == CHOOSE i \in 1 .. Len(w) : w[i] = s
             r == RemoveAt(w, at)
             d == Withdraw(b, s)
  <2>1. w \in Seq(Suspended) /\ Len(w) \in Nat /\ DOMAIN w = 1 .. Len(w)
    BY DEF InboxState
  <2>2. at \in 1 .. Len(w) /\ w[at] = s
    BY <1>2, <2>1 DEF InHands, ToSet
  <2>3. d = [b EXCEPT !.waiting = r]
    BY <1>2 DEF Withdraw
  <2> HIDE DEF at
  <2>4. /\ r \in Seq(Suspended) /\ Len(r) = Len(w) - 1
        /\ \A k \in 1 .. Len(w) - 1 : r[k] = IF k < at THEN w[k] ELSE w[k + 1]
    BY <2>1, <2>2, RemoveAtProperties
  <2> HIDE DEF r
  <2>5. SameQueue(b, d) /\ d.waiting = r /\ d.granted = b.granted
    BY <2>3, <2>4 DEF InboxState, SameQueue
  <2> HIDE DEF d
  <2>6. MovesUp(b, d, 0)
    <3> SUFFICES ASSUME NEW k \in 1 .. Len(r)
                 PROVE  \E j \in 1 .. Len(w) : j >= k /\ r[k] = w[j]
      BY <2>5 DEF MovesUp
    <3> DEFINE j == IF k < at THEN k ELSE k + 1
    <3>1. k \in 1 .. Len(w) - 1 /\ r[k] = w[j]
      BY <2>1, <2>4
    <3>2. j \in 1 .. Len(w) /\ j >= k
      <4> DEFINE m == Len(w)
      <4>1. m \in Nat /\ k \in 1 .. m - 1
        BY <2>1, <3>1
      <4> HIDE DEF m
      <4>2. j \in 1 .. m /\ j >= k
        BY <4>1
      <4> QED BY <4>2 DEF m
    <3> QED BY <3>1, <3>2
  <2>7. ASSUME NEW i \in 1 .. Len(r), NEW j \in 1 .. Len(r), r[i].who = r[j].who
        PROVE  i = j
    <3> DEFINE f(k) == IF k < at THEN k ELSE k + 1
    <3>1. /\ f(i) \in 1 .. Len(w) /\ r[i] = w[f(i)]
          /\ f(j) \in 1 .. Len(w) /\ r[j] = w[f(j)]
      BY <2>1, <2>2, <2>4
    <3>2. f(i) = f(j) => i = j
      BY <2>1, <2>2, <2>4
    <3> HIDE DEF f
    <3> QED BY <2>7, <3>1, <3>2 DEF Pressure
  <2>8. w # <<>>
    BY <2>1, <2>2
  <2>9. Pressure(d)
    BY <2>5, <2>7, <2>8 DEF Pressure, SameQueue
  <2>10. ToSet(w) \subseteq ToSet(r) \cup {s}
    <3> SUFFICES ASSUME NEW i \in 1 .. Len(w), i # at PROVE \E k \in 1 .. Len(r) : r[k] = w[i]
      BY <2>1, <2>2, <2>4 DEF ToSet
    <3>1. CASE i < at
      <4>1. i \in 1 .. Len(r) /\ r[i] = w[i]
        BY <2>1, <2>2, <2>4, <3>1
      <4> QED BY <4>1
    <3>2. CASE i > at
      <4>1. i - 1 \in 1 .. Len(r) /\ r[i - 1] = w[i]
        BY <2>1, <2>2, <2>4, <3>2
      <4> QED BY <4>1
    <3> QED BY <2>1, <2>2, <3>1, <3>2
  <2> QED BY <2>5, <2>6, <2>9, <2>10 DEF InHands, d
<1> QED BY <1>1, <1>2

\* No more senders are suspended than there are.
LEMMA WaitingBound ==
    ASSUME NEW b \in InboxState, Pressure(b)
    PROVE  Cardinality(Sender) \in Nat /\ Len(b.waiting) <= Cardinality(Sender)
<1> DEFINE w == b.waiting
           f == [i \in 1 .. Len(w) |-> w[i].who]
<1>1. w \in Seq(Suspended) /\ Len(w) \in Nat
  BY DEF InboxState
<1>2. f \in [1 .. Len(w) -> Sender]
  <2>1. \A i \in 1 .. Len(w) : w[i] \in Suspended
    BY <1>1
  <2>2. \A s \in Suspended : s.who \in Sender
    BY DEF Suspended
  <2> QED BY <2>1, <2>2
<1>3. \A i, j \in 1 .. Len(w) : f[i] = f[j] => i = j
  BY DEF Pressure
<1>4. f \in Injection(1 .. Len(w), Sender)
  BY <1>2, <1>3 DEF Injection, IsInjective
<1>5. Cardinality(1 .. Len(w)) = Len(w)
  BY <1>1, FS_Interval
<1> HIDE DEF f
<1>6. Cardinality(1 .. Len(w)) <= Cardinality(Sender)
  BY <1>4, SenderAssumption, FS_Injection
<1> QED BY <1>5, <1>6, SenderAssumption, FS_CardinalityType

\* What a step that only adds chunks or takes none out does to the pressure.
LEMMA PressureGrows ==
    ASSUME NEW b, NEW d, Pressure(b), d.waiting = b.waiting, IsFiniteSet(d.granted),
           b.queue \in Seq(Chunk), d.queue \in Seq(Chunk), d.open = b.open,
           Len(d.queue) + Cardinality(d.granted) >= Len(b.queue) + Cardinality(b.granted)
    PROVE  Pressure(d)
<1>1. Len(b.queue) \in Nat /\ Len(d.queue) \in Nat /\ Cardinality(b.granted) \in Nat
      /\ Cardinality(d.granted) \in Nat
  BY FS_CardinalityType DEF Pressure
<1> QED BY <1>1, CapAssumption DEF Pressure

\* Who finds no room goes to the back.
LEMMA SuspendPressure ==
    ASSUME NEW b \in InboxState, Pressure(b), ~Room(b), NEW w \in Sender, Idle(b, w),
           NEW c \in Chunk
    PROVE  LET d == Suspend(b, w, c)
           IN  /\ Pressure(d) /\ d.granted = b.granted
               /\ \A i \in 1 .. Len(d.waiting) :
                      \/ d.waiting[i].chunk = c
                      \/ i \in 1 .. Len(b.waiting) /\ d.waiting[i] = b.waiting[i]
<1> DEFINE q == b.waiting
           e == [who |-> w, chunk |-> c]
           r == Append(q, e)
           d == Suspend(b, w, c)
<1>1. q \in Seq(Suspended) /\ e \in Suspended /\ e.who = w /\ e.chunk = c
  BY DEF InboxState, Suspended
<1>2. d = [b EXCEPT !.waiting = r]
  BY DEF Suspend
<1>3. \A i \in 1 .. Len(q) : q[i].who # w
  <2>1. \A i \in 1 .. Len(q) : q[i] \in InHands(b)
    BY <1>1 DEF InHands, ToSet
  <2> QED BY <2>1 DEF Idle
<1> HIDE DEF e
<1>4. /\ Len(r) = Len(q) + 1 /\ Len(q) \in Nat /\ r[Len(q) + 1] = e
      /\ \A i \in 1 .. Len(q) : r[i] = q[i]
  BY <1>1
<1> HIDE DEF r
<1>5. d.waiting = r /\ d.granted = b.granted /\ d.queue = b.queue /\ d.open = b.open
  BY <1>2 DEF InboxState
<1> HIDE DEF d
<1>6. \A i \in 1 .. Len(r) : (i = Len(q) + 1 /\ r[i] = e) \/ (i \in 1 .. Len(q) /\ r[i] = q[i])
  BY <1>4
<1>7. \A i, j \in 1 .. Len(q) : q[i].who = q[j].who => i = j
  BY DEF Pressure
<1>8. ASSUME NEW i \in 1 .. Len(r), NEW j \in 1 .. Len(r), r[i].who = r[j].who
      PROVE  i = j
  BY <1>1, <1>3, <1>6, <1>7, <1>8
<1>9. Len(b.queue) + Cardinality(b.granted) >= Cap
  <2>1. Len(b.queue) \in Nat /\ Cardinality(b.granted) \in Nat
    BY FS_CardinalityType DEF InboxState, Pressure
  <2> QED BY <2>1, CapAssumption DEF Room
<1> QED BY <1>1, <1>5, <1>6, <1>8, <1>9 DEF Pressure, d

\* A permit becomes a chunk in the queue.
LEMMA LandPressure ==
    ASSUME NEW b \in InboxState, Pressure(b), NEW s \in b.granted, s.chunk \in Chunk
    PROVE  Pressure(Land(b, s)) /\ Land(b, s).waiting = b.waiting
           /\ InHands(b) = InHands(Land(b, s)) \cup {s}
<1> DEFINE c == s.chunk
           r == Append(b.queue, c)
           d == Land(b, s)
<1>1. d = [b EXCEPT !.queue = r, !.granted = @ \ {s}]
  BY DEF Land
<1>2. b.queue \in Seq(Chunk) /\ r \in Seq(Chunk) /\ Len(r) = Len(b.queue) + 1
      /\ Len(b.queue) \in Nat
  BY DEF InboxState
<1> HIDE DEF c, r
<1>3. d.queue = r /\ d.granted = b.granted \ {s} /\ d.waiting = b.waiting /\ d.open = b.open
  BY <1>1 DEF InboxState
<1> HIDE DEF d
<1>4. /\ IsFiniteSet(d.granted) /\ Cardinality(d.granted) = Cardinality(b.granted) - 1
      /\ Cardinality(b.granted) \in Nat
  BY <1>3, FS_RemoveElement, FS_CardinalityType DEF Pressure
<1>5. Len(d.queue) + Cardinality(d.granted) >= Len(b.queue) + Cardinality(b.granted)
  BY <1>2, <1>3, <1>4
<1>6. Pressure(d)
  BY <1>2, <1>3, <1>4, <1>5, PressureGrows
<1> QED BY <1>3, <1>6 DEF InHands, d

\* A chunk taken out is a permit handed out.
LEMMA PollRecvPressure ==
    ASSUME NEW b \in InboxState, HandsUnique(b), Pressure(b), b.queue # <<>>
    PROVE  Pressure(PollRecv(b))
<1> DEFINE q == b.queue
           t == Tail(q)
           h == Head(q)
           e == [b EXCEPT !.queue = t, !.held = h]
<1>1. q \in Seq(Chunk) /\ q # <<>>
  BY DEF InboxState
<1>2. t \in Seq(Chunk) /\ h \in Chunk /\ Len(t) = Len(q) - 1 /\ Len(q) \in Nat
  BY <1>1, HeadTailProperties
<1>3. PollRecv(b) = Permits(e, 1)
  BY DEF PollRecv
<1> HIDE DEF q, t, h
<1>4. /\ e \in InboxState /\ e.queue = t /\ e.waiting = b.waiting /\ e.granted = b.granted
      /\ e.open = b.open
  BY <1>2 DEF InboxState
<1> HIDE DEF e
<1>5. HandsUnique(e)
  BY <1>4 DEF HandsUnique
<1>6. Cardinality(b.granted) \in Nat
  BY FS_CardinalityType DEF Pressure
<1>7. e.open /\ e.waiting # <<>> => Len(e.queue) + 1 + Cardinality(e.granted) >= Cap
  BY <1>2, <1>4, <1>6, CapAssumption DEF Pressure, q
<1>8. /\ IsFiniteSet(e.granted)
      /\ \A i, j \in 1 .. Len(e.waiting) : e.waiting[i].who = e.waiting[j].who => i = j
  BY <1>4 DEF Pressure
<1> QED BY <1>3, <1>4, <1>5, <1>7, <1>8, PressurePermits

\* A purge round moves whoever it leaves behind up by the length of the queue.
LEMMA DrainMoves ==
    ASSUME NEW b \in InboxState, HandsUnique(b), Pressure(b)
    PROVE  /\ Pressure(Drain(b))
           /\ Drain(b).waiting # <<>> => MovesUp(b, Drain(b), Len(b.queue))
<1> DEFINE z == <<>>
           e == [b EXCEPT !.queue = z]
           n == Len(b.queue)
<1>1. n \in Nat /\ z \in Seq(Chunk) /\ Len(z) = 0
  BY DEF InboxState
<1>2. Drain(b) = Permits(e, n)
  BY DEF Drain
<1> HIDE DEF z
<1>3. /\ e \in InboxState /\ e.queue = z /\ e.waiting = b.waiting /\ e.granted = b.granted
      /\ e.open = b.open
  BY <1>1 DEF InboxState
<1> HIDE DEF e
<1>4. HandsUnique(e)
  BY <1>3 DEF HandsUnique
<1>5. Cardinality(b.granted) \in Nat
  BY FS_CardinalityType DEF Pressure
<1>6. e.open /\ e.waiting # <<>> => Len(e.queue) + n + Cardinality(e.granted) >= Cap
  BY <1>1, <1>3, <1>5, CapAssumption DEF Pressure
<1>7. /\ IsFiniteSet(e.granted)
      /\ \A i, j \in 1 .. Len(e.waiting) : e.waiting[i].who = e.waiting[j].who => i = j
  BY <1>3 DEF Pressure
<1> HIDE DEF n
<1>8. /\ Pressure(Permits(e, n))
      /\ Permits(e, n).waiting # <<>> => MovesUp(e, Permits(e, n), n)
  BY <1>1, <1>3, <1>4, <1>6, <1>7, PressurePermits
<1> QED BY <1>2, <1>3, <1>8 DEF MovesUp, n
=============================================================================
