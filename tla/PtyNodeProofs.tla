--------------------------- MODULE PtyNodeProofs ---------------------------
(***************************************************************************)
(* Proofs about the pty node: what was typed and what was sent is          *)
(* accounted for, the handler of the last close does not wake itself, and  *)
(* the input of a settled session never reaches the endpoint.              *)
(***************************************************************************)
EXTENDS PtyNode, SequenceTheorems, TLAPS
-----------------------------------------------------------------------------
(* The inductive invariant *)

Chunks == Nat \ {0}

ClientState == [session : 0 .. MaxSessions, open : BOOLEAN, touched : BOOLEAN, marked : BOOLEAN]
PairState == [kin : Seq(Chunks), kout : Seq(Nat), ctl : {"none", "client", Baseline}]
EdgeState == [kind : {"none", "spy", "writer"}, arb : {"exclusive", "free"},
              mode : {"ondemand", "held"}, holder : {"none", "self", "other"}, verbs : Nat]
ChanState == [q : Seq(Nat), open : BOOLEAN]
ReaderState == [pc : {"wait", "drain", "close", "last", "residual"}, now : BOOLEAN,
                origin : {"none", "spy", "writer", "dead"}, may : BOOLEAN, pending : Nat,
                saw : BOOLEAN, closed : BOOLEAN, present : BOOLEAN, held : Nat]
WriterState == [bridge : Seq(Chunks), chunk : Nat]
CountState == [targetward : Nat, purged : Nat, lastClose : Nat, absent : Nat, full : Nat]
PastState == [typed : Seq(Nat), taken : Seq(Chunks), fed : Seq(Nat), read : Nat, lockedIn : Nat,
              settled : Nat, takenAt : Nat, closed : Nat, stale : BOOLEAN]

PtyTypes ==
    /\ client \in ClientState /\ pair \in PairState /\ edge \in EdgeState
    /\ chan \in ChanState /\ rd \in ReaderState /\ wr \in WriterState
    /\ ptyCount \in CountState /\ past \in PastState
    /\ edge.kind # "writer" => edge.holder # "self"
    /\ Len(chan.q) <= EndpointCap /\ Len(wr.bridge) <= BridgeCap

\* A hand holds one chunk or none.
One(p) == IF p = 0 THEN 0 ELSE 1

Rising(s) == \A i, j \in 1 .. Len(s) : i < j => s[i] < s[j]

\* Of n typed chunks tk were taken, p is in hand, kn are unread and x on the counters.
Ledger(n, tk, p, kn, x) ==
    /\ Rising(tk) /\ Rising(kn)
    /\ \A i \in 1 .. Len(tk) : tk[i] <= n
    /\ \A j \in 1 .. Len(kn) : kn[j] <= n
    /\ \A i \in 1 .. Len(tk), j \in 1 .. Len(kn) : tk[i] < kn[j]
    /\ p # 0 => /\ p <= n
                /\ \A i \in 1 .. Len(tk) : tk[i] < p
                /\ \A j \in 1 .. Len(kn) : p < kn[j]
    /\ n = Len(tk) + One(p) + Len(kn) + x

TypedInv ==
    Ledger(Typed, past.taken, rd.pending, pair.kin, rd.held + ptyCount.targetward + ptyCount.purged)

\* What is unread or in hand was typed in a session later than st.
Later(tp, st, p, kn) ==
    /\ p # 0 => tp[p] > st
    /\ \A j \in 1 .. Len(kn) : tp[kn[j]] > st

\* Nothing of a settled session is going to be taken: the residue of a close that
\* was handled with the right to write is read dry before the reader goes on.
StaleInv ==
    /\ Later(past.typed, past.settled, rd.pending,
             IF rd.pc = "residual" /\ rd.may THEN <<>> ELSE pair.kin)
    /\ \A i \in past.takenAt + 1 .. Len(past.taken) : past.typed[past.taken[i]] > past.settled
    /\ past.settled <= client.session
    /\ client.open => past.settled < client.session

\* Of n chunks sent br are on the bridge, ch is in hand, ko are unread, y elsewhere.
Output(n, br, ch, ko, y) == n = Len(br) + One(ch) + Len(ko) + y

OutputInv ==
    Output(Sent, wr.bridge, wr.chunk, pair.kout,
           past.read + ptyCount.lastClose + ptyCount.absent + ptyCount.full)

\* Where the reader is, and what it then knows.
ReaderInv ==
    /\ rd.pc \in {"drain", "last", "residual"} => rd.pending = None
    /\ rd.pc \notin {"last", "residual"} => rd.held = 0
    /\ rd.pending # None => rd.present \/ (rd.pc = "close" /\ rd.saw)
    /\ rd.pc \in {"drain", "close", "last"} /\ rd.origin = "writer" /\ MayWrite(edge) => rd.may
    /\ Between /\ rd.may /\ ~rd.present => pair.ctl # Baseline
    /\ rd.pc = "close" /\ rd.may /\ rd.pending = None => pair.ctl # Baseline

PtyInv == PtyTypes /\ TypedInv /\ StaleInv /\ OutputInv /\ ReaderInv
-----------------------------------------------------------------------------
(* The ledger of one direction *)

\* The next typed chunk.
LEMMA LedgerTypes ==
    ASSUME NEW n \in Nat, NEW tk \in Seq(Chunks), NEW p \in Nat, NEW kn \in Seq(Chunks), NEW x \in Nat,
           Ledger(n, tk, p, kn, x)
    PROVE  /\ Append(kn, n + 1) \in Seq(Chunks)
           /\ Ledger(n + 1, tk, p, Append(kn, n + 1), x)
<1> DEFINE m == n + 1
           a == Append(kn, m)
           k == Len(kn)
<1>1. m \in Chunks /\ m = n + 1
  BY DEF Chunks
<1> HIDE DEF m
<1>2. /\ a \in Seq(Chunks) /\ Len(a) = k + 1 /\ k \in Nat /\ a[k + 1] = m
      /\ \A i \in 1 .. k : a[i] = kn[i]
  BY <1>1, AppendProperties
<1>3. \A i \in 1 .. k : kn[i] \in Chunks
  OBVIOUS
<1>4. \A i \in 1 .. Len(tk) : tk[i] \in Chunks
  OBVIOUS
<1> HIDE DEF a, k
<1>5. \A j \in 1 .. Len(a) : (j \in 1 .. k /\ a[j] = kn[j]) \/ (j = k + 1 /\ a[j] = m)
  BY <1>2
<1>6. Rising(a)
  <2> SUFFICES ASSUME NEW i \in 1 .. Len(a), NEW j \in 1 .. Len(a), i < j PROVE a[i] < a[j]
    BY DEF Rising
  <2>1. i \in 1 .. k /\ a[i] = kn[i]
    BY <1>2, <1>5
  <2>2. CASE j \in 1 .. k /\ a[j] = kn[j]
    BY <2>1, <2>2 DEF Ledger, Rising, k
  <2>3. CASE j = k + 1 /\ a[j] = m
    <3>1. kn[i] <= n /\ kn[i] \in Nat
      BY <1>3, <2>1 DEF Ledger, k, Chunks
    <3> QED BY <1>1, <2>1, <2>3, <3>1
  <2> QED BY <1>5, <2>2, <2>3
<1>7. /\ \A i \in 1 .. Len(tk) : tk[i] <= m
      /\ \A i \in 1 .. Len(tk) : tk[i] < m
  <2>1. \A i \in 1 .. Len(tk) : tk[i] <= n /\ tk[i] \in Nat
    BY <1>4 DEF Ledger, Chunks
  <2> QED BY <1>1, <2>1
<1>8. \A j \in 1 .. Len(a) : a[j] <= m
  <2> SUFFICES ASSUME NEW j \in 1 .. Len(a) PROVE a[j] <= m
    OBVIOUS
  <2>1. CASE j \in 1 .. k /\ a[j] = kn[j]
    <3>1. kn[j] <= n /\ kn[j] \in Nat
      BY <1>3, <2>1 DEF Ledger, k, Chunks
    <3> QED BY <1>1, <2>1, <3>1
  <2>2. CASE j = k + 1 /\ a[j] = m
    BY <1>1, <2>2 DEF Chunks
  <2> QED BY <1>5, <2>1, <2>2
<1>9. \A i \in 1 .. Len(tk), j \in 1 .. Len(a) : tk[i] < a[j]
  BY <1>5, <1>7 DEF Ledger, k
<1>10. p # 0 => /\ p <= m /\ \A i \in 1 .. Len(tk) : tk[i] < p
                /\ \A j \in 1 .. Len(a) : p < a[j]
  <2> SUFFICES ASSUME p # 0
               PROVE  /\ p <= m /\ \A i \in 1 .. Len(tk) : tk[i] < p
                      /\ \A j \in 1 .. Len(a) : p < a[j]
    OBVIOUS
  <2>1. p <= n
    BY DEF Ledger
  <2>2. p < m /\ p <= m
    BY <1>1, <2>1
  <2> QED BY <1>5, <2>2 DEF Ledger, k
<1>11. m = Len(tk) + One(p) + Len(a) + x
  <2> DEFINE u == Len(tk)
             v == One(p)
             w == Len(a)
  <2>1. n = u + v + k + x /\ u \in Nat /\ v \in Nat /\ w = k + 1 /\ k \in Nat
    BY <1>2 DEF Ledger, One, k
  <2> HIDE DEF u, v, w
  <2>2. m = u + v + w + x
    BY <1>1, <2>1
  <2> QED BY <2>2 DEF u, v, w
<1>12. Ledger(m, tk, p, a, x)
  BY <1>6, <1>7, <1>8, <1>9, <1>10, <1>11 DEF Ledger
<1> QED BY <1>2, <1>12 DEF m, a

\* The chunk in hand is taken.
LEMMA LedgerTakes ==
    ASSUME NEW n \in Nat, NEW tk \in Seq(Chunks), NEW p \in Chunks, NEW kn \in Seq(Chunks), NEW x \in Nat,
           Ledger(n, tk, p, kn, x)
    PROVE  Append(tk, p) \in Seq(Chunks) /\ Ledger(n, Append(tk, p), 0, kn, x)
<1> DEFINE a == Append(tk, p)
           k == Len(tk)
<1>1. /\ a \in Seq(Chunks) /\ Len(a) = k + 1 /\ k \in Nat /\ a[k + 1] = p
      /\ \A i \in 1 .. k : a[i] = tk[i]
  BY AppendProperties
<1>2. p # 0
  BY DEF Chunks
<1> HIDE DEF a, k
<1>3. \A j \in 1 .. Len(a) : (j \in 1 .. k /\ a[j] = tk[j]) \/ (j = k + 1 /\ a[j] = p)
  BY <1>1
<1>4. Rising(a)
  <2> SUFFICES ASSUME NEW i \in 1 .. Len(a), NEW j \in 1 .. Len(a), i < j PROVE a[i] < a[j]
    BY DEF Rising
  <2>1. i \in 1 .. k /\ a[i] = tk[i]
    BY <1>1, <1>3
  <2> QED BY <1>2, <1>3, <2>1 DEF Ledger, Rising, k
<1>5. /\ \A j \in 1 .. Len(a) : a[j] <= n
      /\ \A i \in 1 .. Len(a), j \in 1 .. Len(kn) : a[i] < kn[j]
  BY <1>2, <1>3 DEF Ledger, k
<1>6. n = Len(a) + One(0) + Len(kn) + x
  <2> DEFINE u == Len(a)
             w == Len(kn)
  <2>1. n = k + 1 + w + x /\ u = k + 1 /\ k \in Nat /\ w \in Nat /\ One(0) = 0
    BY <1>1, <1>2 DEF Ledger, One, k
  <2> HIDE DEF u, w
  <2>2. n = u + 0 + w + x
    BY <2>1
  <2> QED BY <2>1, <2>2 DEF u, w
<1>7. Ledger(n, a, 0, kn, x)
  BY <1>4, <1>5, <1>6 DEF Ledger
<1> QED BY <1>1, <1>7 DEF a

\* The chunk in hand goes to a counter.
LEMMA LedgerLoses ==
    ASSUME NEW n \in Nat, NEW tk \in Seq(Chunks), NEW p \in Chunks, NEW kn \in Seq(Chunks), NEW x \in Nat,
           Ledger(n, tk, p, kn, x)
    PROVE  Ledger(n, tk, 0, kn, x + 1)
<1>1. n = Len(tk) + One(0) + Len(kn) + (x + 1)
  <2> DEFINE u == Len(tk)
             w == Len(kn)
  <2>1. n = u + 1 + w + x /\ u \in Nat /\ w \in Nat /\ One(0) = 0
    BY DEF Ledger, One, Chunks
  <2> HIDE DEF u, w
  <2>2. n = u + 0 + w + (x + 1)
    BY <2>1
  <2> QED BY <2>1, <2>2 DEF u, w
<1> QED BY <1>1 DEF Ledger

\* The first unread chunk comes to hand.
LEMMA LedgerHeads ==
    ASSUME NEW n \in Nat, NEW tk \in Seq(Chunks), NEW kn \in Seq(Chunks), NEW x \in Nat,
           Ledger(n, tk, 0, kn, x), kn # <<>>
    PROVE  /\ Head(kn) \in Chunks /\ Tail(kn) \in Seq(Chunks)
           /\ Ledger(n, tk, Head(kn), Tail(kn), x)
<1> DEFINE a == Tail(kn)
           p == Head(kn)
           k == Len(kn)
<1>1. /\ p \in Chunks /\ p = kn[1] /\ a \in Seq(Chunks) /\ k \in Nat /\ k >= 1 /\ Len(a) = k - 1
      /\ \A i \in 1 .. k - 1 : a[i] = kn[i + 1]
  BY HeadTailProperties, EmptySeq
<1> HIDE DEF a, k, p
<1>2. \A i \in 1 .. Len(a) : i + 1 \in 1 .. k /\ a[i] = kn[i + 1] /\ 1 < i + 1
  BY <1>1
<1>3. 1 \in 1 .. k /\ p # 0
  BY <1>1 DEF Chunks
<1>4. Rising(a)
  <2> SUFFICES ASSUME NEW i \in 1 .. Len(a), NEW j \in 1 .. Len(a), i < j PROVE a[i] < a[j]
    BY DEF Rising
  <2>1. i + 1 < j + 1
    BY <1>1
  <2> QED BY <1>2, <2>1 DEF Ledger, Rising, k
<1>5. /\ \A j \in 1 .. Len(a) : a[j] <= n
      /\ \A i \in 1 .. Len(tk), j \in 1 .. Len(a) : tk[i] < a[j]
  BY <1>2 DEF Ledger, k
<1>6. p <= n /\ \A i \in 1 .. Len(tk) : tk[i] < p
  BY <1>1, <1>3 DEF Ledger, k
<1>7. \A j \in 1 .. Len(a) : p < a[j]
  BY <1>1, <1>2, <1>3 DEF Ledger, Rising, k
<1>8. n = Len(tk) + One(p) + Len(a) + x
  <2> DEFINE u == Len(tk)
             w == Len(a)
  <2>1. n = u + 0 + k + x /\ u \in Nat /\ w = k - 1 /\ k \in Nat /\ One(p) = 1
    BY <1>1, <1>3 DEF Ledger, One, k
  <2> HIDE DEF u, w
  <2>2. n = u + 1 + w + x
    BY <1>1, <2>1
  <2> QED BY <2>1, <2>2 DEF u, w
<1>9. Ledger(n, tk, p, a, x)
  BY <1>4, <1>5, <1>6, <1>7, <1>8 DEF Ledger
<1> QED BY <1>1, <1>9 DEF a, p

\* What is unread goes to a counter.
LEMMA LedgerPurges ==
    ASSUME NEW n \in Nat, NEW tk \in Seq(Chunks), NEW p \in Nat, NEW kn \in Seq(Chunks), NEW x \in Nat,
           Ledger(n, tk, p, kn, x)
    PROVE  Ledger(n, tk, p, <<>>, x + Len(kn))
<1>1. n = Len(tk) + One(p) + Len(<<>>) + (x + Len(kn))
  <2> DEFINE u == Len(tk)
             v == One(p)
             w == Len(kn)
             e == Len(<<>>)
  <2>1. n = u + v + w + x /\ u \in Nat /\ v \in Nat /\ w \in Nat /\ e = 0
    BY DEF Ledger, One
  <2> HIDE DEF u, v, w, e
  <2>2. n = u + v + e + (x + w)
    BY <2>1
  <2> QED BY <2>2 DEF u, v, w, e
<1>2. 1 .. Len(<<>>) = {}
  OBVIOUS
<1>3. Rising(<<>>)
  BY <1>2 DEF Rising
<1> QED BY <1>1, <1>2, <1>3 DEF Ledger
-----------------------------------------------------------------------------
(* What the invariant says *)

\* The state, field by field.
LEMMA PtyFields ==
    ASSUME PtyInv
    PROVE  /\ past.typed \in Seq(Nat) /\ past.taken \in Seq(Chunks) /\ past.fed \in Seq(Nat)
           /\ pair.kin \in Seq(Chunks) /\ pair.kout \in Seq(Nat) /\ wr.bridge \in Seq(Chunks)
           /\ chan.q \in Seq(Nat)
           /\ Typed \in Nat /\ Sent \in Nat /\ rd.pending \in Nat /\ rd.held \in Nat /\ wr.chunk \in Nat
           /\ ptyCount.targetward \in Nat /\ ptyCount.purged \in Nat /\ ptyCount.lastClose \in Nat
           /\ ptyCount.absent \in Nat /\ ptyCount.full \in Nat /\ past.read \in Nat
           /\ past.settled \in Nat /\ past.takenAt \in Nat /\ past.closed \in Nat
           /\ client.session \in Nat
<1>1. past.typed \in Seq(Nat) /\ past.taken \in Seq(Chunks) /\ past.fed \in Seq(Nat)
  BY DEF PtyInv, PtyTypes, PastState
<1>2. pair.kin \in Seq(Chunks) /\ pair.kout \in Seq(Nat) /\ wr.bridge \in Seq(Chunks) /\ chan.q \in Seq(Nat)
  BY DEF PtyInv, PtyTypes, PairState, WriterState, ChanState
<1>3. Typed \in Nat /\ Sent \in Nat
  BY <1>1 DEF Typed, Sent
<1>4. rd.pending \in Nat /\ rd.held \in Nat /\ wr.chunk \in Nat
  BY DEF PtyInv, PtyTypes, WriterState, ReaderState
<1>5. /\ ptyCount.targetward \in Nat /\ ptyCount.purged \in Nat /\ ptyCount.lastClose \in Nat
      /\ ptyCount.absent \in Nat /\ ptyCount.full \in Nat
  BY DEF PtyInv, PtyTypes, CountState
<1>6. past.read \in Nat /\ past.settled \in Nat /\ past.takenAt \in Nat /\ past.closed \in Nat
  BY DEF PtyInv, PtyTypes, PastState
<1>7. client.session \in Nat
  <2>1. client.session \in 0 .. MaxSessions
    BY DEF PtyInv, PtyTypes, ClientState
  <2> QED BY <2>1, PtyAssumption
<1> QED BY <1>1, <1>2, <1>3, <1>4, <1>5, <1>6, <1>7

\* Taken, in hand and unread, one after the other.
LEMMA Joined ==
    ASSUME NEW n \in Nat, NEW tk \in Seq(Chunks), NEW p \in Nat, NEW kn \in Seq(Chunks), NEW x \in Nat,
           Ledger(n, tk, p, kn, x)
    PROVE  LET s == tk \o (IF p = 0 THEN <<>> ELSE <<p>>) \o kn
           IN  /\ Len(s) = Len(tk) + One(p) + Len(kn)
               /\ \A i, j \in DOMAIN s : i < j => s[i] < s[j]
<1> DEFINE h == IF p = 0 THEN <<>> ELSE <<p>>
           r == tk \o h
           s == r \o kn
           a == Len(tk)
           o == One(p)
           b == a + o
           k == Len(kn)
<1>1. h \in Seq(Nat) /\ Len(h) = o /\ (p # 0 => h[1] = p) /\ o \in {0, 1} /\ (p # 0 <=> o = 1)
  BY DEF One
<1>2. tk \in Seq(Nat) /\ kn \in Seq(Nat) /\ a \in Nat /\ k \in Nat
  BY DEF Chunks
<1> HIDE DEF h, o
<1>3. /\ r \in Seq(Nat) /\ Len(r) = b
      /\ \A i \in 1 .. b : r[i] = IF i <= a THEN tk[i] ELSE h[i - a]
  BY <1>1, <1>2, ConcatProperties
<1> HIDE DEF r
<1>4. /\ s \in Seq(Nat) /\ Len(s) = Len(r) + k
      /\ \A i \in 1 .. Len(r) + k : s[i] = IF i <= Len(r) THEN r[i] ELSE kn[i - Len(r)]
  BY <1>2, <1>3, ConcatProperties
<1>5. DOMAIN s = 1 .. b + k /\ Len(s) = b + k
  BY <1>3, <1>4
<1> HIDE DEF s, a, k
<1>6. b \in Nat
  BY <1>1, <1>2
<1>7. ASSUME NEW i \in 1 .. b + k
      PROVE  \/ i \in 1 .. a /\ s[i] = tk[i]
             \/ p # 0 /\ i = a + 1 /\ b = a + 1 /\ s[i] = p
             \/ i > b /\ i - b \in 1 .. k /\ s[i] = kn[i - b]
  <2>1. CASE i <= a
    <3>1. i \in 1 .. b /\ i \in 1 .. a
      BY <1>1, <1>2, <2>1
    <3> QED BY <1>3, <1>4, <2>1, <3>1, SMTT(40)
  <2>2. CASE ~(i <= a) /\ i <= b
    <3>1. o = 1 /\ i = a + 1 /\ i \in 1 .. b /\ i - a = 1 /\ b = a + 1
      BY <1>1, <1>2, <2>2
    <3> QED BY <1>1, <1>3, <1>4, <2>2, <3>1
  <2>3. CASE ~(i <= b)
    <3>1. i - b \in 1 .. k /\ i > b
      BY <1>2, <1>6, <2>3
    <3> QED BY <1>3, <1>4, <2>3, <3>1
  <2> QED BY <2>1, <2>2, <2>3
<1>8. ASSUME NEW i \in 1 .. b + k, NEW j \in 1 .. b + k, i < j PROVE s[i] < s[j]
  <2>1. CASE i \in 1 .. a /\ s[i] = tk[i]
    <3>1. CASE j \in 1 .. a /\ s[j] = tk[j]
      BY <1>8, <2>1, <3>1 DEF Ledger, Rising, a
    <3>2. CASE p # 0 /\ j = a + 1 /\ s[j] = p
      BY <2>1, <3>2 DEF Ledger, a
    <3>3. CASE j - b \in 1 .. k /\ s[j] = kn[j - b]
      BY <2>1, <3>3 DEF Ledger, a, k
    <3> QED BY <1>7, <3>1, <3>2, <3>3
  <2>2. CASE p # 0 /\ i = a + 1 /\ b = a + 1 /\ s[i] = p
    <3>1. j > b
      BY <1>2, <1>8, <2>2
    <3>2. j - b \in 1 .. k /\ s[j] = kn[j - b]
      BY <1>2, <1>6, <1>7, <2>2, <3>1
    <3> QED BY <2>2, <3>2 DEF Ledger, k
  <2>3. CASE i > b /\ i - b \in 1 .. k /\ s[i] = kn[i - b]
    <3>1. j > b /\ i - b < j - b
      BY <1>6, <1>8, <2>3
    <3>2. j - b \in 1 .. k /\ s[j] = kn[j - b]
      <4>1. ~(j \in 1 .. a) /\ ~(b = a + 1 /\ j = a + 1)
        BY <1>1, <1>2, <3>1
      <4> QED BY <1>7, <4>1
    <3> QED BY <2>3, <3>1, <3>2 DEF Ledger, Rising, k
  <2> QED BY <1>7, <2>1, <2>2, <2>3
<1>9. Len(s) = a + o + k
  BY <1>5
<1>10. \A i, j \in DOMAIN s : i < j => s[i] < s[j]
  BY <1>5, <1>8
<1> QED BY <1>9, <1>10 DEF s, r, h, o, a, k

\* The invariant says what the run checks.
LEMMA PtyInvSound == PtyInv => PtySound /\ StaleInputNeverFires
<1> SUFFICES ASSUME PtyInv PROVE PtySound /\ StaleInputNeverFires
  OBVIOUS
<1>1. PtyTypeOK
  <2>1. client.session \in 0 .. MaxSessions
    BY DEF PtyInv, PtyTypes, ClientState
  <2>2. rd.pc \in {"wait", "drain", "close", "last", "residual"}
    BY DEF PtyInv, PtyTypes, ReaderState
  <2>3. pair.ctl \in {"none", "client", Baseline}
    BY DEF PtyInv, PtyTypes, PairState
  <2>4. edge.kind \in {"none", "spy", "writer"} /\ edge.holder \in {"none", "self", "other"}
    BY DEF PtyInv, PtyTypes, EdgeState
  <2>5. Len(chan.q) <= EndpointCap /\ Len(wr.bridge) <= BridgeCap /\ (edge.kind # "writer" => edge.holder # "self")
    BY DEF PtyInv, PtyTypes
  <2> QED BY <2>1, <2>2, <2>3, <2>4, <2>5 DEF PtyTypeOK
<1>2. TypedExact
  <2> DEFINE tk == past.taken
             p == rd.pending
             kn == pair.kin
             u == rd.held
             v == ptyCount.targetward
             w == ptyCount.purged
             x == u + v + w
             s == tk \o (IF p = 0 THEN <<>> ELSE <<p>>) \o kn
  <2>1. /\ Ledger(Typed, tk, p, kn, x) /\ Typed \in Nat /\ tk \in Seq(Chunks) /\ p \in Nat
        /\ kn \in Seq(Chunks) /\ u \in Nat /\ v \in Nat /\ w \in Nat
    BY PtyFields DEF PtyInv, TypedInv
  <2> HIDE DEF tk, p, kn, u, v, w
  <2>2. x \in Nat
    BY <2>1
  <2>3. Len(s) = Len(tk) + One(p) + Len(kn) /\ \A i, j \in DOMAIN s : i < j => s[i] < s[j]
    <3> HIDE DEF x
    <3> QED BY <2>1, <2>2, Joined
  <2>4. Typed = Len(s) + u + v + w
    <3> DEFINE l == Len(s)
               m == Len(tk) + One(p) + Len(kn)
    <3>1. Len(tk) \in Nat /\ One(p) \in Nat /\ Len(kn) \in Nat
      BY <2>1 DEF One
    <3>2. m \in Nat
      BY <3>1
    <3>3. Typed = m + x /\ l = m
      BY <2>1, <2>3 DEF Ledger
    <3> HIDE DEF l, m
    <3>4. Typed = l + u + v + w
      BY <2>1, <3>2, <3>3
    <3> QED BY <3>4 DEF l
  <2> QED BY <2>3, <2>4 DEF TypedExact, tk, p, kn, u, v, w, None
<1>3. OutputExact
  <2> DEFINE a == Len(wr.bridge)
             b == One(wr.chunk)
             c == Len(pair.kout)
             d == past.read
             e == ptyCount.lastClose
             f == ptyCount.absent
             g == ptyCount.full
  <2>1. /\ a \in Nat /\ b \in Nat /\ c \in Nat /\ d \in Nat /\ e \in Nat /\ f \in Nat /\ g \in Nat
        /\ Sent \in Nat
    <3>1. wr.bridge \in Seq(Chunks) /\ pair.kout \in Seq(Nat)
      BY PtyFields
    <3>2. a \in Nat /\ c \in Nat
      BY <3>1
    <3>3. b \in Nat
      BY DEF One
    <3>4. d \in Nat /\ e \in Nat /\ f \in Nat /\ g \in Nat /\ Sent \in Nat
      BY PtyFields
    <3> QED BY <3>2, <3>3, <3>4
  <2>2. Sent = a + b + c + (d + e + f + g)
    BY DEF PtyInv, OutputInv, Output
  <2> HIDE DEF a, b, c, d, e, f, g
  <2>3. Sent = a + b + c + d + e + f + g
    BY <2>1, <2>2
  <2> QED BY <2>3 DEF OutputExact, One, a, b, c, d, e, f, g, None
<1>4. QuietAfterClose
  BY DEF PtyInv, ReaderInv, QuietAfterClose
<1>5. StaleInputNeverFires
  BY DEF PtyInv, StaleInv, StaleInputNeverFires
<1> QED BY <1>1, <1>2, <1>3, <1>4, <1>5 DEF PtySound
-----------------------------------------------------------------------------
(* The initial states *)

\* The bounds of the model.
LEMMA PtyBounds == EndpointCap \in Nat /\ EndpointCap >= 1 /\ BridgeCap \in Nat /\ BridgeCap >= 0
BY PtyAssumption

\* No client, nothing typed, nothing sent.
LEMMA PtyInitInv == PtyInit => PtyInv
<1> SUFFICES ASSUME PtyInit PROVE PtyInv
  OBVIOUS
<1> DEFINE e == <<>>
           no == FALSE
           yes == TRUE
           f == <<None>>
<1>1. /\ client = [session |-> 0, open |-> no, touched |-> no, marked |-> no]
      /\ pair = [kin |-> e, kout |-> e, ctl |-> "none"]
      /\ chan = [q |-> f, open |-> yes]
      /\ rd = [pc |-> "wait", now |-> no, origin |-> "none", may |-> no, pending |-> None,
               saw |-> no, closed |-> no, present |-> no, held |-> 0]
      /\ wr = [bridge |-> e, chunk |-> None]
      /\ ptyCount = [targetward |-> 0, purged |-> 0, lastClose |-> 0, absent |-> 0, full |-> 0]
      /\ past = [typed |-> e, taken |-> e, fed |-> e, read |-> 0, lockedIn |-> 0,
                 settled |-> 0, takenAt |-> 0, closed |-> 0, stale |-> no]
  BY DEF PtyInit
<1>2. /\ e \in Seq(Chunks) /\ e \in Seq(Nat) /\ Len(e) = 0 /\ no \in BOOLEAN /\ ~no /\ yes \in BOOLEAN
      /\ f \in Seq(Nat) /\ Len(f) = 1 /\ None = 0
  BY DEF None
<1> HIDE DEF e, no, yes, f
<1>3. edge \in EdgeState /\ (edge.kind # "writer" => edge.holder # "self")
  BY DEF PtyInit, EdgeState
<1>4. PtyTypes
  <2>1. client \in ClientState
    BY <1>1, <1>2, PtyAssumption DEF ClientState
  <2>2. pair \in PairState /\ chan \in ChanState /\ wr \in WriterState
    BY <1>1, <1>2 DEF PairState, ChanState, WriterState
  <2>3. rd \in ReaderState
    BY <1>1, <1>2 DEF ReaderState
  <2>4. ptyCount \in CountState
    BY <1>1 DEF CountState
  <2>5. past \in PastState
    BY <1>1, <1>2 DEF PastState
  <2>6. Len(chan.q) <= EndpointCap /\ Len(wr.bridge) <= BridgeCap
    <3>1. chan.q = f /\ wr.bridge = e
      BY <1>1
    <3> QED BY <1>2, <3>1, PtyBounds
  <2> QED BY <1>3, <2>1, <2>2, <2>3, <2>4, <2>5, <2>6 DEF PtyTypes
<1>5. TypedInv
  <2>1. Ledger(0, e, 0, e, 0)
    BY <1>2 DEF Ledger, Rising, One
  <2>2. Typed = 0 /\ past.taken = e /\ rd.pending = 0 /\ pair.kin = e
    BY <1>1, <1>2 DEF Typed
  <2>3. rd.held + ptyCount.targetward + ptyCount.purged = 0
    BY <1>1
  <2> QED BY <2>1, <2>2, <2>3 DEF TypedInv
<1>6. StaleInv
  <2>1. /\ past.taken = e /\ rd.pending = 0 /\ pair.kin = e /\ past.settled = 0 /\ past.takenAt = 0
        /\ client.session = 0 /\ ~client.open /\ rd.pc = "wait"
    BY <1>1, <1>2
  <2>2. Later(past.typed, 0, 0, e)
    BY <1>2 DEF Later
  <2> QED BY <1>2, <2>1, <2>2 DEF StaleInv
<1>7. OutputInv
  <2>1. Sent = 0 /\ wr.bridge = e /\ wr.chunk = 0 /\ pair.kout = e
    BY <1>1, <1>2 DEF Sent
  <2>2. past.read + ptyCount.lastClose + ptyCount.absent + ptyCount.full = 0
    BY <1>1
  <2> QED BY <1>2, <2>1, <2>2 DEF OutputInv, Output, One
<1>8. ReaderInv
  BY <1>1, <1>2 DEF ReaderInv, Between
<1> QED BY <1>4, <1>5, <1>6, <1>7, <1>8 DEF PtyInv
-----------------------------------------------------------------------------
(* Clients *)

\* Open: a later session than any that was settled.
LEMMA OpenInv == ASSUME PtyInv, Open PROVE PtyInv'
<1> DEFINE m == client.session + 1
           yes == TRUE
           no == FALSE
<1>1. /\ client' = [session |-> m, open |-> yes, touched |-> no, marked |-> no]
      /\ client.session < MaxSessions /\ UNCHANGED <<pair, edge, chan, rd, wr, ptyCount, past>>
  BY DEF Open
<1>2. /\ client.session \in Nat /\ past.settled \in Nat /\ yes \in BOOLEAN /\ no \in BOOLEAN
      /\ past.settled <= client.session
  BY PtyFields DEF PtyInv, StaleInv
<1>3. m \in 0 .. MaxSessions /\ past.settled <= m /\ past.settled < m
  BY <1>1, <1>2, PtyAssumption
<1> HIDE DEF m, yes, no
<1>4. client' \in ClientState /\ client'.session = m
  BY <1>1, <1>2, <1>3 DEF ClientState
<1>5. PtyTypes'
  BY <1>1, <1>4 DEF PtyInv, PtyTypes
<1>6. TypedInv' /\ OutputInv' /\ ReaderInv'
  BY <1>1 DEF PtyInv, TypedInv, OutputInv, ReaderInv, Typed, Sent, Between
<1>7. StaleInv'
  BY <1>1, <1>3, <1>4 DEF PtyInv, StaleInv
<1> QED BY <1>5, <1>6, <1>7 DEF PtyInv

\* Close: the session is over, and the reader does not know it yet.
LEMMA CloseInv == ASSUME PtyInv, Close PROVE PtyInv'
<1> DEFINE no == FALSE
<1>1. /\ client' = [client EXCEPT !.open = no]
      /\ UNCHANGED <<pair, edge, chan, rd, wr, ptyCount, past>>
  BY DEF Close
<1>2. client \in ClientState /\ no \in BOOLEAN /\ ~no
  BY DEF PtyInv, PtyTypes
<1> HIDE DEF no
<1>3. client' \in ClientState /\ client'.session = client.session /\ client'.open = no
  BY <1>1, <1>2 DEF ClientState
<1>4. PtyTypes'
  BY <1>1, <1>3 DEF PtyInv, PtyTypes
<1>5. TypedInv' /\ OutputInv' /\ ReaderInv'
  BY <1>1 DEF PtyInv, TypedInv, OutputInv, ReaderInv, Typed, Sent, Between
<1>6. StaleInv'
  BY <1>1, <1>2, <1>3 DEF PtyInv, StaleInv
<1> QED BY <1>4, <1>5, <1>6 DEF PtyInv

\* Type: a chunk of the open session, which is not settled.
LEMMA TypeInv == ASSUME PtyInv, Type PROVE PtyInv'
<1> DEFINE n == Typed
           m == n + 1
           tp == past.typed
           ss == client.session
           a == Append(tp, ss)
           kn == pair.kin
           k == Append(kn, m)
           st == past.settled
           tk == past.taken
           p == rd.pending
           x == rd.held + ptyCount.targetward + ptyCount.purged
           yes == TRUE
<1>1. /\ client.open /\ pair' = [pair EXCEPT !.kin = k] /\ past' = [past EXCEPT !.typed = a]
      /\ client' = [[client EXCEPT !.touched = yes] EXCEPT !.marked = yes]
      /\ UNCHANGED <<edge, chan, rd, wr, ptyCount>>
  BY DEF Type
<1>2. /\ tp \in Seq(Nat) /\ tk \in Seq(Chunks) /\ kn \in Seq(Chunks) /\ n \in Nat /\ n = Len(tp)
      /\ p \in Nat /\ ss \in Nat /\ st \in Nat /\ past.takenAt \in Nat /\ yes \in BOOLEAN
  BY PtyFields DEF Typed
<1>3. x \in Nat
  <2>1. rd.held \in Nat /\ ptyCount.targetward \in Nat /\ ptyCount.purged \in Nat
    BY PtyFields
  <2> QED BY <2>1
<1>4. Ledger(n, tk, p, kn, x) /\ st < ss
  BY <1>1 DEF PtyInv, TypedInv, StaleInv
<1>5. client \in ClientState /\ pair \in PairState /\ past \in PastState
  BY DEF PtyInv, PtyTypes
<1> HIDE DEF n, tp, ss, kn, st, tk, p, x, yes
<1>6. k \in Seq(Chunks) /\ Ledger(m, tk, p, k, x)
  BY <1>2, <1>3, <1>4, LedgerTypes
<1>7. /\ a \in Seq(Nat) /\ Len(a) = m /\ a[m] = ss /\ \A i \in 1 .. n : a[i] = tp[i]
  BY <1>2, AppendProperties
<1>8. \A j \in 1 .. Len(k) : (j \in 1 .. Len(kn) /\ k[j] = kn[j]) \/ k[j] = m
  <2>1. m \in Chunks
    BY <1>2 DEF Chunks
  <2> HIDE DEF m
  <2>2. /\ Len(k) = Len(kn) + 1 /\ k[Len(kn) + 1] = m /\ Len(kn) \in Nat
        /\ \A j \in 1 .. Len(kn) : k[j] = kn[j]
    BY <1>2, <2>1, AppendProperties
  <2> HIDE DEF k
  <2> QED BY <2>2
<1> HIDE DEF m, a, k
<1>9. /\ past' \in PastState /\ past'.typed = a /\ past'.taken = tk /\ past'.fed = past.fed
      /\ past'.read = past.read /\ past'.settled = st /\ past'.takenAt = past.takenAt
  BY <1>1, <1>5, <1>7 DEF PastState, tk, st
<1>10. pair' \in PairState /\ pair'.kin = k /\ pair'.kout = pair.kout /\ pair'.ctl = pair.ctl
  BY <1>1, <1>5, <1>6 DEF PairState
<1>11. client' \in ClientState /\ client'.session = ss /\ client'.open = client.open
  BY <1>1, <1>2, <1>5 DEF ClientState, ss
<1>12. PtyTypes'
  BY <1>1, <1>9, <1>10, <1>11 DEF PtyInv, PtyTypes
<1>13. TypedInv'
  <2>1. Typed' = m
    BY <1>7, <1>9 DEF Typed
  <2> QED BY <1>1, <1>6, <1>9, <1>10, <2>1 DEF TypedInv, p, x
<1>14. OutputInv' /\ ReaderInv'
  BY <1>1, <1>9, <1>10 DEF PtyInv, OutputInv, ReaderInv, Sent, Between
<1>15. StaleInv'
  <2>1. \A c \in 1 .. n : a[c] = tp[c]
    BY <1>7
  <2>2. /\ \A i \in 1 .. Len(tk) : tk[i] \in 1 .. n
        /\ \A j \in 1 .. Len(kn) : kn[j] \in 1 .. n
        /\ p # 0 => p \in 1 .. n
    <3>1. /\ \A i \in 1 .. Len(tk) : tk[i] \in Nat /\ tk[i] # 0
          /\ \A j \in 1 .. Len(kn) : kn[j] \in Nat /\ kn[j] # 0
      BY <1>2 DEF Chunks
    <3> QED BY <1>2, <1>4, <3>1 DEF Ledger
  <2>3. \A i \in past.takenAt + 1 .. Len(tk) : a[tk[i]] > st
    <3>1. \A i \in past.takenAt + 1 .. Len(tk) : i \in 1 .. Len(tk)
      BY <1>2
    <3>2. \A i \in past.takenAt + 1 .. Len(tk) : tp[tk[i]] > st
      BY DEF PtyInv, StaleInv, tk, st, tp
    <3> QED BY <2>1, <2>2, <3>1, <3>2
  <2>4. p # 0 => a[p] > st
    <3>1. p # 0 => tp[p] > st
      BY DEF PtyInv, StaleInv, Later, tp, p, st
    <3> QED BY <2>1, <2>2, <3>1
  <2>5. a[m] > st
    BY <1>2, <1>4, <1>7
  <2>6. CASE rd.pc = "residual" /\ rd.may
    <3>1. Later(a, st, p, <<>>)
      BY <2>4 DEF Later
    <3> QED BY <1>1, <1>4, <1>9, <1>10, <1>11, <2>3, <2>6, <3>1 DEF PtyInv, StaleInv, p, tk, st, ss
  <2>7. CASE ~(rd.pc = "residual" /\ rd.may)
    <3>1. \A j \in 1 .. Len(kn) : tp[kn[j]] > st
      BY <2>7 DEF PtyInv, StaleInv, Later, tp, kn, st
    <3>2. \A j \in 1 .. Len(k) : a[k[j]] > st
      BY <1>8, <2>1, <2>2, <2>5, <3>1
    <3>3. Later(a, st, p, k)
      BY <2>4, <3>2 DEF Later
    <3> QED BY <1>1, <1>4, <1>9, <1>10, <1>11, <2>3, <2>7, <3>3 DEF PtyInv, StaleInv, p, tk, st, ss
  <2> QED BY <2>6, <2>7
<1> QED BY <1>12, <1>13, <1>14, <1>15 DEF PtyInv

\* SetAttr: a control packet of a client.
LEMMA SetAttrInv == ASSUME PtyInv, SetAttr PROVE PtyInv'
<1> DEFINE yes == TRUE
<1>1. /\ pair' = [pair EXCEPT !.ctl = "client"]
      /\ client' = [[client EXCEPT !.touched = yes] EXCEPT !.marked = yes]
      /\ UNCHANGED <<edge, chan, rd, wr, ptyCount, past>>
  BY DEF SetAttr
<1>2. client \in ClientState /\ pair \in PairState /\ yes \in BOOLEAN
  BY DEF PtyInv, PtyTypes
<1> HIDE DEF yes
<1>3. client' \in ClientState /\ client'.session = client.session /\ client'.open = client.open
  BY <1>1, <1>2 DEF ClientState
<1>4. pair' \in PairState /\ pair'.kin = pair.kin /\ pair'.kout = pair.kout /\ pair'.ctl = "client"
  BY <1>1, <1>2 DEF PairState
<1>5. PtyTypes'
  BY <1>1, <1>3, <1>4 DEF PtyInv, PtyTypes
<1>6. TypedInv' /\ OutputInv'
  BY <1>1, <1>4 DEF PtyInv, TypedInv, OutputInv, Typed, Sent
<1>7. StaleInv'
  BY <1>1, <1>3, <1>4 DEF PtyInv, StaleInv
<1>8. ReaderInv'
  BY <1>1, <1>4 DEF PtyInv, ReaderInv, Between, Baseline
<1> QED BY <1>5, <1>6, <1>7, <1>8 DEF PtyInv

\* ReadOut: one chunk of the device is read.
LEMMA ReadOutInv == ASSUME PtyInv, ReadOut PROVE PtyInv'
<1> DEFINE ko == pair.kout
           t == Tail(ko)
           r == past.read + 1
           b == past.stale \/ past.fed[Head(pair.kout)] \in 1 .. past.closed
<1>1. /\ ko # <<>> /\ pair' = [pair EXCEPT !.kout = t]
      /\ past' = [[past EXCEPT !.read = r] EXCEPT !.stale = b]
      /\ UNCHANGED <<client, edge, chan, rd, wr, ptyCount>>
  BY DEF ReadOut
<1>2. pair \in PairState /\ past \in PastState
  BY DEF PtyInv, PtyTypes
<1>3. b \in BOOLEAN
  OBVIOUS
<1>4. ko \in Seq(Nat) /\ past.read \in Nat
  BY PtyFields
<1>5. r \in Nat
  BY <1>4
<1>6. t \in Seq(Nat) /\ Len(t) = Len(ko) - 1 /\ Len(ko) \in Nat
  BY <1>1, <1>4, HeadTailProperties
<1> HIDE DEF b, r, t
<1>7. pair' \in PairState /\ pair'.kin = pair.kin /\ pair'.kout = t /\ pair'.ctl = pair.ctl
  BY <1>1, <1>2, <1>6 DEF PairState
<1>8. /\ past' \in PastState /\ past'.typed = past.typed /\ past'.taken = past.taken
      /\ past'.fed = past.fed /\ past'.read = r /\ past'.settled = past.settled
      /\ past'.takenAt = past.takenAt
  BY <1>1, <1>2, <1>3, <1>5 DEF PastState
<1>9. PtyTypes'
  BY <1>1, <1>7, <1>8 DEF PtyInv, PtyTypes
<1>10. TypedInv' /\ StaleInv' /\ ReaderInv'
  BY <1>1, <1>7, <1>8 DEF PtyInv, TypedInv, StaleInv, ReaderInv, Typed, Between
<1>11. OutputInv'
  <2> DEFINE a == Len(wr.bridge)
             c == One(wr.chunk)
             l == Len(ko)
             d == past.read
             f == ptyCount.lastClose
             g == ptyCount.absent
             h == ptyCount.full
             l2 == Len(t)
  <2>1. a \in Nat /\ c \in Nat /\ f \in Nat /\ g \in Nat /\ h \in Nat
    <3>1. wr.bridge \in Seq(Chunks) /\ f \in Nat /\ g \in Nat /\ h \in Nat
      BY PtyFields
    <3> QED BY <3>1 DEF One
  <2>2. Sent = a + c + l + (d + f + g + h) /\ d \in Nat /\ l2 = l - 1 /\ l \in Nat /\ r = d + 1
    BY <1>4, <1>6 DEF PtyInv, OutputInv, Output, r
  <2> HIDE DEF a, c, l, d, f, g, h, l2
  <2>3. Sent = a + c + l2 + (r + f + g + h)
    BY <2>1, <2>2
  <2> QED BY <1>1, <1>7, <1>8, <2>3 DEF OutputInv, Output, Sent, a, c, l2, f, g, h
<1> QED BY <1>9, <1>10, <1>11 DEF PtyInv
-----------------------------------------------------------------------------
(* The daemon, between passes *)

\* PurgeOrigin: what is unread is counted, whatever else the verb does.
LEMMA PurgeOriginInv ==
    ASSUME PtyInv, PurgeOrigin, Between, wr' = wr,
           rd'.pending = rd.pending, rd'.held = rd.held, rd'.pc = rd.pc, rd'.may = rd.may,
           past'.typed = past.typed, past'.taken = past.taken, past'.fed = past.fed,
           past'.read = past.read, past'.settled = past.settled, past'.takenAt = past.takenAt
    PROVE  /\ pair' \in PairState /\ pair'.ctl = "none"
           /\ client' \in ClientState /\ ptyCount' \in CountState
           /\ TypedInv' /\ StaleInv' /\ OutputInv'
<1> DEFINE e == <<>>
           k == Len(pair.kin)
           u == ptyCount.purged
           v == u + k
           no == FALSE
<1>1. /\ pair' = [[pair EXCEPT !.kin = e] EXCEPT !.ctl = "none"]
      /\ ptyCount' = [ptyCount EXCEPT !.purged = v] /\ client' = [client EXCEPT !.marked = no]
  BY DEF PurgeOrigin
<1>2. pair \in PairState /\ client \in ClientState /\ ptyCount \in CountState /\ no \in BOOLEAN
  BY DEF PtyInv, PtyTypes
<1>3. k \in Nat /\ u \in Nat /\ e \in Seq(Chunks) /\ Len(e) = 0
  <2>1. pair.kin \in Seq(Chunks) /\ u \in Nat
    BY PtyFields
  <2>2. k \in Nat
    BY <2>1
  <2>3. e \in Seq(Chunks) /\ Len(e) = 0
    OBVIOUS
  <2> QED BY <2>1, <2>2, <2>3
<1> HIDE DEF e, no, k, u
<1>4. v \in Nat
  BY <1>3
<1> HIDE DEF v
<1>5. pair' \in PairState /\ pair'.kin = e /\ pair'.kout = pair.kout /\ pair'.ctl = "none"
  BY <1>1, <1>2, <1>3 DEF PairState
<1>6. client' \in ClientState /\ client'.session = client.session /\ client'.open = client.open
  BY <1>1, <1>2 DEF ClientState
<1>7. /\ ptyCount' \in CountState /\ ptyCount'.targetward = ptyCount.targetward /\ ptyCount'.purged = v
      /\ ptyCount'.lastClose = ptyCount.lastClose /\ ptyCount'.absent = ptyCount.absent
      /\ ptyCount'.full = ptyCount.full
  BY <1>1, <1>2, <1>4 DEF CountState
<1>8. TypedInv'
  <2> DEFINE n == Typed
             tk == past.taken
             p == rd.pending
             kn == pair.kin
             h == rd.held
             t == ptyCount.targetward
             x == h + t + u
  <2>1. /\ n \in Nat /\ tk \in Seq(Chunks) /\ p \in Nat /\ kn \in Seq(Chunks) /\ h \in Nat /\ t \in Nat
        /\ Ledger(n, tk, p, kn, x)
    BY PtyFields DEF PtyInv, TypedInv, u
  <2> HIDE DEF n, tk, p, kn, h, t
  <2>2. x \in Nat /\ x + k = h + t + v
    BY <1>3, <2>1 DEF v
  <2> HIDE DEF x
  <2>3. Ledger(n, tk, p, <<>>, x + k)
    BY <2>1, <2>2, LedgerPurges DEF k, kn
  <2> QED BY <1>5, <1>7, <2>2, <2>3 DEF TypedInv, Typed, n, tk, p, h, t, e
<1>9. StaleInv'
  <2>1. Later(past.typed, past.settled, rd.pending, e)
    BY <1>3 DEF PtyInv, StaleInv, Later
  <2>2. rd.pc = "wait"
    BY DEF Between
  <2> QED BY <1>5, <1>6, <2>1, <2>2 DEF PtyInv, StaleInv
<1>10. OutputInv'
  BY <1>5, <1>7 DEF PtyInv, OutputInv, Sent
<1> QED BY <1>5, <1>6, <1>7, <1>8, <1>9, <1>10

\* A verb that changes the edge alone: the reader is between passes.
LEMMA EdgeOnlyInv ==
    ASSUME PtyInv, Between, edge' \in EdgeState, edge'.kind # "writer" => edge'.holder # "self",
           UNCHANGED <<client, pair, chan, rd, wr, ptyCount, past>>
    PROVE  PtyInv'
<1>1. PtyTypes'
  BY DEF PtyInv, PtyTypes
<1>2. TypedInv' /\ StaleInv' /\ OutputInv'
  BY DEF PtyInv, TypedInv, StaleInv, OutputInv, Typed, Sent
<1>3. ReaderInv'
  BY DEF PtyInv, ReaderInv, Between
<1> QED BY <1>1, <1>2, <1>3 DEF PtyInv

\* LockOther and Unlock.
LEMMA LockOtherInv == ASSUME PtyInv, LockOther \/ Unlock PROVE PtyInv'
<1>1. Between /\ UNCHANGED <<client, pair, chan, rd, wr, ptyCount, past>>
  BY DEF LockOther, Unlock, AVerb
<1>2. edge \in EdgeState /\ edge.verbs \in Nat
  BY DEF PtyInv, PtyTypes, EdgeState
<1>3. PICK h \in {"none", "other"} : edge' = ByVerb([edge EXCEPT !.holder = h])
  BY DEF LockOther, Unlock
<1> DEFINE f == [edge EXCEPT !.holder = h]
           v == f.verbs + 1
<1>4. f \in EdgeState /\ f.holder = h /\ f.verbs \in Nat
  BY <1>2 DEF EdgeState
<1>5. v \in Nat /\ edge' = [f EXCEPT !.verbs = v]
  BY <1>3, <1>4 DEF ByVerb
<1> HIDE DEF f, v
<1>6. edge' \in EdgeState /\ edge'.holder = h
  BY <1>4, <1>5 DEF EdgeState
<1> QED BY <1>1, <1>6, EdgeOnlyInv

\* LockSelf: purge-on-acquire.
LEMMA LockSelfInv == ASSUME PtyInv, LockSelf PROVE PtyInv'
<1> DEFINE l == IF client.open THEN client.session ELSE 0
           f == [edge EXCEPT !.holder = "self"]
           v == f.verbs + 1
<1>1. /\ Between /\ edge.kind = "writer" /\ edge' = ByVerb(f) /\ PurgeOrigin
      /\ past' = [past EXCEPT !.lockedIn = l] /\ UNCHANGED <<chan, rd, wr>>
  BY DEF LockSelf, AVerb
<1>2. edge \in EdgeState /\ past \in PastState
  BY DEF PtyInv, PtyTypes
<1>3. l \in Nat
  BY PtyFields
<1>4. f \in EdgeState /\ f.verbs \in Nat /\ f.kind = "writer"
  BY <1>1, <1>2 DEF EdgeState
<1>5. v \in Nat /\ edge' = [f EXCEPT !.verbs = v]
  BY <1>1, <1>4 DEF ByVerb
<1> HIDE DEF f, v, l
<1>6. edge' \in EdgeState /\ edge'.kind = "writer"
  BY <1>4, <1>5 DEF EdgeState
<1>7. /\ past' \in PastState /\ past'.typed = past.typed /\ past'.taken = past.taken
      /\ past'.fed = past.fed /\ past'.read = past.read /\ past'.settled = past.settled
      /\ past'.takenAt = past.takenAt
  BY <1>1, <1>2, <1>3 DEF PastState
<1>8. /\ pair' \in PairState /\ pair'.ctl = "none"
      /\ client' \in ClientState /\ ptyCount' \in CountState
      /\ TypedInv' /\ StaleInv' /\ OutputInv'
  BY <1>1, <1>7, PurgeOriginInv
<1>9. PtyTypes'
  BY <1>1, <1>6, <1>7, <1>8 DEF PtyInv, PtyTypes
<1>10. ReaderInv'
  BY <1>1, <1>8 DEF PtyInv, ReaderInv, Between, Baseline
<1> QED BY <1>8, <1>9, <1>10 DEF PtyInv

\* Reclaimed keeps the edge well-formed.
LEMMA ReclaimedOf ==
    ASSUME NEW f \in EdgeState, f.kind # "writer" => f.holder # "self"
    PROVE  /\ Reclaimed(f) \in EdgeState /\ Reclaimed(f).kind = f.kind
           /\ Reclaimed(f).kind # "writer" => Reclaimed(f).holder # "self"
<1> DEFINE g == [f EXCEPT !.holder = "self"]
<1>1. g \in EdgeState /\ g.kind = f.kind
  BY DEF EdgeState
<1> HIDE DEF g
<1>2. CASE f.kind = "writer" /\ f.arb = "exclusive" /\ f.mode = "held" /\ f.holder = "none"
  <2>1. Reclaimed(f) = g
    BY <1>2 DEF Reclaimed, g
  <2> QED BY <1>1, <1>2, <2>1
<1>3. CASE ~(f.kind = "writer" /\ f.arb = "exclusive" /\ f.mode = "held" /\ f.holder = "none")
  <2>1. Reclaimed(f) = f
    BY <1>3 DEF Reclaimed
  <2> QED BY <2>1
<1> QED BY <1>2, <1>3

\* Connect: granted at once, and then purged, or not.
LEMMA ConnectInv == ASSUME PtyInv, NEW kind \in {"spy", "writer"}, Connect(kind) PROVE PtyInv'
<1> DEFINE f == [edge EXCEPT !.kind = kind]
           g == Reclaimed(f)
           v == g.verbs + 1
           yes == TRUE
<1>1. /\ Between /\ edge.kind = "none" /\ edge' = ByVerb(g)
      /\ PurgeOrigin \/ UNCHANGED <<client, pair, ptyCount>>
      /\ chan' = [chan EXCEPT !.open = yes] /\ UNCHANGED <<rd, wr, past>>
  BY DEF Connect, AVerb
<1>2. edge \in EdgeState /\ chan \in ChanState /\ (edge.kind # "writer" => edge.holder # "self") /\ yes \in BOOLEAN
  BY DEF PtyInv, PtyTypes
<1> HIDE DEF yes
<1>3. f \in EdgeState /\ f.kind = kind /\ f.holder = edge.holder
  BY <1>2 DEF EdgeState
<1> HIDE DEF f
<1>4. g \in EdgeState /\ (g.kind # "writer" => g.holder # "self")
  BY <1>1, <1>2, <1>3, ReclaimedOf
<1> HIDE DEF g
<1>5. v \in Nat /\ edge' = [g EXCEPT !.verbs = v]
  BY <1>1, <1>4 DEF ByVerb, EdgeState
<1> HIDE DEF v
<1>6. edge' \in EdgeState /\ edge'.kind = g.kind /\ edge'.holder = g.holder
  BY <1>4, <1>5 DEF EdgeState
<1>7. chan' \in ChanState /\ chan'.q = chan.q
  BY <1>1, <1>2 DEF ChanState
<1>8. /\ pair' \in PairState /\ (pair'.ctl = "none" \/ pair'.ctl = pair.ctl)
      /\ client' \in ClientState /\ ptyCount' \in CountState
      /\ TypedInv' /\ StaleInv' /\ OutputInv'
  <2>1. CASE PurgeOrigin
    BY <1>1, <2>1, PurgeOriginInv
  <2>2. CASE UNCHANGED <<client, pair, ptyCount>>
    BY <1>1, <2>2 DEF PtyInv, PtyTypes, TypedInv, StaleInv, OutputInv, Typed, Sent
  <2> QED BY <1>1, <2>1, <2>2
<1>9. PtyTypes'
  BY <1>1, <1>4, <1>6, <1>7, <1>8 DEF PtyInv, PtyTypes
<1>10. ReaderInv'
  BY <1>1, <1>8 DEF PtyInv, ReaderInv, Between, Baseline
<1> QED BY <1>8, <1>9, <1>10 DEF PtyInv

\* Disconnect: purged, and a payload in hand has lost its endpoint.
LEMMA DisconnectInv == ASSUME PtyInv, NEW gone \in BOOLEAN, Disconnect(gone) PROVE PtyInv'
<1> DEFINE h == IF edge.holder = "self" THEN "none" ELSE edge.holder
           f == [[edge EXCEPT !.kind = "none"] EXCEPT !.holder = h]
           g == [f EXCEPT !.holder = "none"]
           e == <<>>
           no == FALSE
           d == [rd EXCEPT !.origin = "dead"]
<1>1. /\ Between /\ PurgeOrigin /\ UNCHANGED <<wr, past>>
      /\ edge' = ByVerb(f) \/ edge' = ByVerb(g)
      /\ chan' = chan \/ chan' = [q |-> e, open |-> no]
      /\ rd' = rd \/ rd' = d
  BY DEF Disconnect, AVerb, Unregistered
<1>2. /\ edge \in EdgeState /\ chan \in ChanState /\ rd \in ReaderState /\ no \in BOOLEAN
      /\ e \in Seq(Nat) /\ Len(e) = 0
  BY DEF PtyInv, PtyTypes
<1> HIDE DEF e, no
<1>3. h \in {"none", "other"}
  BY <1>2 DEF EdgeState
<1> HIDE DEF h
<1>4. f \in EdgeState /\ f.holder = h
  BY <1>2, <1>3 DEF EdgeState
<1> HIDE DEF f
<1>5. g \in EdgeState /\ g.holder = "none"
  BY <1>4 DEF EdgeState
<1> HIDE DEF g
<1>6. edge' \in EdgeState /\ edge'.holder # "self"
  <2>1. PICK w \in {f, g} : edge' = ByVerb(w)
    BY <1>1
  <2> DEFINE v == w.verbs + 1
  <2>2. w \in EdgeState /\ w.holder # "self" /\ v \in Nat
    BY <1>3, <1>4, <1>5, <2>1 DEF EdgeState
  <2>3. edge' = [w EXCEPT !.verbs = v]
    BY <2>1 DEF ByVerb
  <2> HIDE DEF v
  <2> QED BY <2>2, <2>3 DEF EdgeState
<1>7. chan' \in ChanState /\ Len(chan'.q) <= EndpointCap
  <2>1. CASE chan' = chan
    BY <2>1 DEF PtyInv, PtyTypes
  <2>2. CASE chan' = [q |-> e, open |-> no]
    <3>1. chan' \in ChanState /\ chan'.q = e
      BY <1>2, <2>2 DEF ChanState
    <3> QED BY <1>2, <3>1, PtyBounds
  <2> QED BY <1>1, <2>1, <2>2
<1>8. /\ d \in ReaderState /\ d.pending = rd.pending /\ d.held = rd.held /\ d.pc = rd.pc
      /\ d.may = rd.may /\ d.present = rd.present /\ d.saw = rd.saw
  BY <1>2 DEF ReaderState
<1> HIDE DEF d
<1>9. /\ rd' \in ReaderState /\ rd'.pending = rd.pending /\ rd'.held = rd.held /\ rd'.pc = rd.pc
      /\ rd'.may = rd.may /\ rd'.present = rd.present /\ rd'.saw = rd.saw
  BY <1>1, <1>2, <1>8
<1>10. /\ pair' \in PairState /\ pair'.ctl = "none"
       /\ client' \in ClientState /\ ptyCount' \in CountState
       /\ TypedInv' /\ StaleInv' /\ OutputInv'
  BY <1>1, <1>9, PurgeOriginInv
<1>11. PtyTypes'
  BY <1>1, <1>6, <1>7, <1>9, <1>10 DEF PtyInv, PtyTypes
<1>12. ReaderInv'
  BY <1>1, <1>9, <1>10 DEF PtyInv, ReaderInv, Between, Baseline
<1> QED BY <1>10, <1>11, <1>12 DEF PtyInv

\* Consume: the endpoint's channel gets room.
LEMMA ConsumeInv == ASSUME PtyInv, Consume PROVE PtyInv'
<1> DEFINE q == chan.q
           t == Tail(q)
<1>1. q # <<>> /\ chan' = [chan EXCEPT !.q = t] /\ UNCHANGED <<client, pair, edge, rd, wr, ptyCount, past>>
  BY DEF Consume
<1>2. chan \in ChanState /\ q \in Seq(Nat) /\ Len(q) <= EndpointCap
  BY PtyFields DEF PtyInv, PtyTypes
<1>3. t \in Seq(Nat) /\ Len(t) = Len(q) - 1 /\ Len(q) \in Nat
  BY <1>1, <1>2, HeadTailProperties
<1>4. Len(t) <= EndpointCap
  <2> DEFINE a == Len(t)
             b == Len(q)
  <2>1. a = b - 1 /\ b \in Nat /\ b <= EndpointCap
    BY <1>2, <1>3
  <2> HIDE DEF a, b
  <2>2. a <= EndpointCap
    BY <2>1, PtyBounds
  <2> QED BY <2>2 DEF a
<1> HIDE DEF t
<1>5. chan' \in ChanState /\ chan'.q = t
  BY <1>1, <1>2, <1>3 DEF ChanState
<1>6. PtyTypes'
  BY <1>1, <1>4, <1>5 DEF PtyInv, PtyTypes
<1>7. TypedInv' /\ StaleInv' /\ OutputInv' /\ ReaderInv'
  BY <1>1 DEF PtyInv, TypedInv, StaleInv, OutputInv, ReaderInv, Typed, Sent, Between
<1> QED BY <1>6, <1>7 DEF PtyInv
-----------------------------------------------------------------------------
(* Hostward: the bridge and the writer thread *)

\* Feed: a chunk goes to the bridge, or is counted.
LEMMA FeedInv == ASSUME PtyInv, Feed PROVE PtyInv'
<1> DEFINE s == IF client.open THEN client.session ELSE 0
           fd == past.fed
           n == Sent
           m == n + 1
           a == Append(fd, s)
           br == wr.bridge
           b == Append(br, m)
           g == ptyCount.full
           f == g + 1
<1>1. /\ past' = [past EXCEPT !.fed = a] /\ UNCHANGED <<client, pair, edge, chan, rd>>
      /\ \/ Len(br) < BridgeCap /\ wr' = [wr EXCEPT !.bridge = b] /\ ptyCount' = ptyCount
         \/ ptyCount' = [ptyCount EXCEPT !.full = f] /\ wr' = wr
  BY DEF Feed
<1>2. /\ fd \in Seq(Nat) /\ br \in Seq(Chunks) /\ n \in Nat /\ n = Len(fd) /\ g \in Nat
      /\ wr.chunk \in Nat /\ past.read \in Nat /\ ptyCount.lastClose \in Nat /\ ptyCount.absent \in Nat
      /\ pair.kout \in Seq(Nat)
  BY PtyFields DEF Sent
<1>3. s \in Nat
  BY PtyFields
<1>4. past \in PastState /\ wr \in WriterState /\ ptyCount \in CountState /\ Len(br) <= BridgeCap
  BY DEF PtyInv, PtyTypes
<1> HIDE DEF s, fd, n, br, g
<1>5. a \in Seq(Nat) /\ Len(a) = m
  BY <1>2, <1>3, AppendProperties
<1>6. b \in Seq(Chunks) /\ Len(b) = Len(br) + 1 /\ Len(br) \in Nat
  <2>1. m \in Chunks
    BY <1>2 DEF Chunks
  <2> HIDE DEF m
  <2> QED BY <1>2, <2>1, AppendProperties
<1>7. f \in Nat
  BY <1>2
<1> HIDE DEF a, b, f
<1>8. /\ past' \in PastState /\ past'.typed = past.typed /\ past'.taken = past.taken
      /\ past'.fed = a /\ past'.read = past.read /\ past'.settled = past.settled
      /\ past'.takenAt = past.takenAt
  BY <1>1, <1>4, <1>5 DEF PastState
<1> DEFINE c == One(wr.chunk)
           k == Len(pair.kout)
           r == past.read
           u == ptyCount.lastClose
           v == ptyCount.absent
           l == Len(br)
<1>9. n = l + c + k + (r + u + v + g) /\ l \in Nat /\ c \in Nat /\ k \in Nat /\ r \in Nat /\ u \in Nat /\ v \in Nat
  <2>1. c \in Nat
    BY DEF One
  <2>2. l \in Nat /\ k \in Nat
    BY <1>2
  <2>3. n = l + c + k + (r + u + v + g)
    BY DEF PtyInv, OutputInv, Output, n, g, br
  <2> QED BY <1>2, <2>1, <2>2, <2>3
<1>10. Sent' = m
  BY <1>5, <1>8 DEF Sent
<1>11. wr' \in WriterState /\ Len(wr'.bridge) <= BridgeCap /\ ptyCount' \in CountState
       /\ ptyCount'.targetward = ptyCount.targetward /\ ptyCount'.purged = ptyCount.purged /\ OutputInv'
  <2>1. CASE Len(br) < BridgeCap /\ wr' = [wr EXCEPT !.bridge = b] /\ ptyCount' = ptyCount
    <3>1. wr' \in WriterState /\ wr'.bridge = b /\ wr'.chunk = wr.chunk
      BY <1>4, <1>6, <2>1 DEF WriterState
    <3> DEFINE j == Len(b)
    <3>2. j = l + 1 /\ l < BridgeCap
      BY <1>6, <2>1
    <3> HIDE DEF j, l, c, k, r, u, v
    <3>3. j <= BridgeCap
      BY <1>9, <3>2, PtyBounds
    <3>4. m = j + c + k + (r + u + v + g)
      BY <1>2, <1>9, <3>2
    <3>5. OutputInv'
      BY <1>1, <1>8, <1>10, <2>1, <3>1, <3>4 DEF OutputInv, Output, j, c, k, r, u, v, g
    <3> QED BY <1>4, <2>1, <3>1, <3>3, <3>5 DEF j
  <2>2. CASE ptyCount' = [ptyCount EXCEPT !.full = f] /\ wr' = wr
    <3>1. /\ ptyCount' \in CountState /\ ptyCount'.targetward = ptyCount.targetward
          /\ ptyCount'.purged = ptyCount.purged /\ ptyCount'.lastClose = u /\ ptyCount'.absent = v
          /\ ptyCount'.full = f
      BY <1>4, <1>7, <2>2 DEF CountState
    <3> HIDE DEF l, c, k, r, u, v
    <3>2. m = l + c + k + (r + u + v + f)
      BY <1>2, <1>9 DEF f
    <3>3. OutputInv'
      BY <1>1, <1>8, <1>10, <2>2, <3>1, <3>2 DEF OutputInv, Output, l, c, k, r, br
    <3> QED BY <1>4, <2>2, <3>1, <3>3 DEF br
  <2> QED BY <1>1, <2>1, <2>2
<1>12. PtyTypes'
  BY <1>1, <1>8, <1>11 DEF PtyInv, PtyTypes
<1>13. TypedInv' /\ StaleInv' /\ ReaderInv'
  BY <1>1, <1>8, <1>11 DEF PtyInv, TypedInv, StaleInv, ReaderInv, Typed, Between
<1> QED BY <1>11, <1>12, <1>13 DEF PtyInv

\* The writer and its counter, while the reader and the clients stand still.
LEMMA WriterInv ==
    ASSUME PtyInv, UNCHANGED <<client, edge, chan, rd, past>>,
           wr' \in WriterState, Len(wr'.bridge) <= BridgeCap,
           NEW ko \in Seq(Nat), pair' = [pair EXCEPT !.kout = ko],
           NEW v \in Nat, ptyCount' = [ptyCount EXCEPT !.absent = v],
           Output(Sent, wr'.bridge, wr'.chunk, ko, past.read + ptyCount.lastClose + v + ptyCount.full)
    PROVE  PtyInv'
<1>1. pair \in PairState /\ ptyCount \in CountState
  BY DEF PtyInv, PtyTypes
<1>2. pair' \in PairState /\ pair'.kin = pair.kin /\ pair'.kout = ko /\ pair'.ctl = pair.ctl
  BY <1>1 DEF PairState
<1>3. /\ ptyCount' \in CountState /\ ptyCount'.targetward = ptyCount.targetward
      /\ ptyCount'.purged = ptyCount.purged /\ ptyCount'.lastClose = ptyCount.lastClose
      /\ ptyCount'.absent = v /\ ptyCount'.full = ptyCount.full
  BY <1>1 DEF CountState
<1>4. PtyTypes'
  BY <1>2, <1>3 DEF PtyInv, PtyTypes
<1>5. TypedInv' /\ StaleInv' /\ ReaderInv'
  BY <1>2, <1>3 DEF PtyInv, TypedInv, StaleInv, ReaderInv, Typed, Between
<1>6. OutputInv'
  BY <1>2, <1>3 DEF OutputInv, Sent
<1> QED BY <1>4, <1>5, <1>6 DEF PtyInv

\* What has been sent, in one sum.
LEMMA SentIs ==
    ASSUME PtyInv
    PROVE  /\ Sent = Len(wr.bridge) + One(wr.chunk) + Len(pair.kout)
                    + (past.read + ptyCount.lastClose + ptyCount.absent + ptyCount.full)
           /\ past.read \in Nat /\ ptyCount.lastClose \in Nat /\ ptyCount.full \in Nat /\ Sent \in Nat
BY PtyFields DEF PtyInv, OutputInv, Output

\* WriterTakes: to the hand, or to the counter of an absent client.
LEMMA WriterTakesInv == ASSUME PtyInv, WriterTakes PROVE PtyInv'
<1> DEFINE br == wr.bridge
           t == Tail(br)
           x == Head(br)
           ko == pair.kout
           d == ptyCount.absent
           d2 == d + 1
<1>1. /\ wr.chunk = 0 /\ br # <<>> /\ UNCHANGED <<client, pair, edge, chan, rd, past>>
      /\ \/ wr' = [bridge |-> t, chunk |-> x] /\ ptyCount' = ptyCount
         \/ wr' = [bridge |-> t, chunk |-> 0] /\ ptyCount' = [ptyCount EXCEPT !.absent = d2]
  BY DEF WriterTakes, None
<1>2. br \in Seq(Chunks) /\ ko \in Seq(Nat) /\ d \in Nat
  BY PtyFields
<1>3. pair \in PairState /\ ptyCount \in CountState /\ Len(br) <= BridgeCap
  BY DEF PtyInv, PtyTypes
<1>4. t \in Seq(Chunks) /\ Len(t) = Len(br) - 1 /\ Len(br) \in Nat /\ x \in Chunks
  BY <1>1, <1>2, HeadTailProperties
<1>5. x \in Nat /\ x # 0 /\ One(x) = 1 /\ One(0) = 0 /\ One(wr.chunk) = 0
  BY <1>1, <1>4 DEF Chunks, One
<1>6. pair' = [pair EXCEPT !.kout = ko]
  BY <1>1, <1>3 DEF PairState
<1>7. Len(ko) \in Nat /\ d2 \in Nat
  BY <1>2
<1> HIDE DEF x, t
<1>8. CASE wr' = [bridge |-> t, chunk |-> x] /\ ptyCount' = ptyCount
  <2>1. wr' \in WriterState /\ wr'.bridge = t /\ wr'.chunk = x
    BY <1>4, <1>5, <1>8 DEF WriterState
  <2>2. ptyCount' = [ptyCount EXCEPT !.absent = d]
    BY <1>3, <1>8 DEF CountState
  <2> DEFINE a == Len(br)
             a2 == Len(t)
             c == Len(ko)
             o == One(wr'.chunk)
             z == One(wr.chunk)
             r == past.read
             u == ptyCount.lastClose
             f == ptyCount.full
  <2>s. Sent = a + z + c + (r + u + d + f) /\ r \in Nat /\ u \in Nat /\ f \in Nat /\ Sent \in Nat
    BY SentIs
  <2>3. a2 = a - 1 /\ a \in Nat /\ a <= BridgeCap /\ c \in Nat /\ o = 1 /\ z = 0
    BY <1>3, <1>4, <1>5, <1>7, <2>1
  <2> HIDE DEF a, a2, c, o, z, d, r, u, f
  <2>4. a2 <= BridgeCap /\ Sent = a2 + o + c + (r + u + d + f)
    BY <1>2, <2>s, <2>3, PtyBounds
  <2>5. /\ Len(wr'.bridge) <= BridgeCap
        /\ Output(Sent, wr'.bridge, wr'.chunk, ko, past.read + ptyCount.lastClose + d + ptyCount.full)
    BY <2>1, <2>4 DEF Output, a, a2, c, o, z, d, r, u, f
  <2> HIDE DEF ko
  <2> QED BY <1>1, <1>2, <1>6, <2>1, <2>2, <2>5, WriterInv
<1>9. CASE wr' = [bridge |-> t, chunk |-> 0] /\ ptyCount' = [ptyCount EXCEPT !.absent = d2]
  <2>1. wr' \in WriterState /\ wr'.bridge = t /\ wr'.chunk = 0
    BY <1>4, <1>9 DEF WriterState
  <2> DEFINE a == Len(br)
             a2 == Len(t)
             c == Len(ko)
             o == One(wr'.chunk)
             z == One(wr.chunk)
             r == past.read
             u == ptyCount.lastClose
             f == ptyCount.full
  <2>s. Sent = a + z + c + (r + u + d + f) /\ r \in Nat /\ u \in Nat /\ f \in Nat /\ Sent \in Nat
    BY SentIs
  <2>3. a2 = a - 1 /\ a \in Nat /\ a <= BridgeCap /\ c \in Nat /\ o = 0 /\ z = 0
    BY <1>3, <1>4, <1>5, <1>7, <2>1
  <2> HIDE DEF a, a2, c, o, z, d, r, u, f
  <2>4. a2 <= BridgeCap /\ Sent = a2 + o + c + (r + u + d2 + f)
    BY <1>2, <2>s, <2>3, PtyBounds
  <2>5. /\ Len(wr'.bridge) <= BridgeCap
        /\ Output(Sent, wr'.bridge, wr'.chunk, ko, past.read + ptyCount.lastClose + d2 + ptyCount.full)
    BY <2>1, <2>4 DEF Output, a, a2, c, o, z, d, r, u, f
  <2> HIDE DEF ko, d2
  <2> QED BY <1>1, <1>2, <1>6, <1>7, <1>9, <2>1, <2>5, WriterInv
<1> QED BY <1>1, <1>8, <1>9

\* WriterWrites: to the kernel, or to the counter after a hangup.
LEMMA WriterWritesInv == ASSUME PtyInv, WriterWrites PROVE PtyInv'
<1> DEFINE br == wr.bridge
           x == wr.chunk
           ko == pair.kout
           k == Append(ko, x)
           d == ptyCount.absent
           d2 == d + 1
           z == 0
<1>1. /\ x # 0 /\ wr' = [wr EXCEPT !.chunk = z] /\ UNCHANGED <<client, edge, chan, rd, past>>
      /\ \/ pair' = [pair EXCEPT !.kout = k] /\ ptyCount' = ptyCount
         \/ pair' = pair /\ ptyCount' = [ptyCount EXCEPT !.absent = d2]
  BY DEF WriterWrites, None
<1>2. br \in Seq(Chunks) /\ ko \in Seq(Nat) /\ d \in Nat /\ x \in Nat
  BY PtyFields
<1>3. pair \in PairState /\ ptyCount \in CountState /\ wr \in WriterState /\ Len(br) <= BridgeCap
  BY DEF PtyInv, PtyTypes
<1>4. k \in Seq(Nat) /\ Len(k) = Len(ko) + 1 /\ Len(ko) \in Nat /\ Len(br) \in Nat
  BY <1>2, AppendProperties
<1>5. One(x) = 1 /\ One(z) = 0 /\ z \in Nat
  BY <1>1 DEF One
<1>6. d2 \in Nat
  BY <1>2
<1> HIDE DEF k, z
<1>7. wr' \in WriterState /\ wr'.bridge = br /\ wr'.chunk = z
  BY <1>1, <1>3, <1>5 DEF WriterState
<1> DEFINE a == Len(br)
           c == Len(ko)
           c2 == Len(k)
           o == One(wr'.chunk)
           y == One(wr.chunk)
           r == past.read
           u == ptyCount.lastClose
           f == ptyCount.full
<1>s. Sent = a + y + c + (r + u + d + f) /\ r \in Nat /\ u \in Nat /\ f \in Nat /\ Sent \in Nat
  BY SentIs
<1>8. c2 = c + 1 /\ c \in Nat /\ a \in Nat /\ o = 0 /\ y = 1
  BY <1>4, <1>5, <1>7
<1>9. CASE pair' = [pair EXCEPT !.kout = k] /\ ptyCount' = ptyCount
  <2>1. ptyCount' = [ptyCount EXCEPT !.absent = d]
    BY <1>3, <1>9 DEF CountState
  <2> HIDE DEF a, c, c2, o, y, d, r, u, f
  <2>2. Sent = a + o + c2 + (r + u + d + f)
    BY <1>2, <1>s, <1>8
  <2>3. /\ Len(wr'.bridge) <= BridgeCap
        /\ Output(Sent, wr'.bridge, wr'.chunk, k, past.read + ptyCount.lastClose + d + ptyCount.full)
    BY <1>3, <1>7, <2>2 DEF Output, a, c, c2, o, y, d, r, u, f
  <2> QED BY <1>1, <1>2, <1>4, <1>7, <1>9, <2>1, <2>3, WriterInv
<1>10. CASE pair' = pair /\ ptyCount' = [ptyCount EXCEPT !.absent = d2]
  <2>1. pair' = [pair EXCEPT !.kout = ko]
    BY <1>3, <1>10 DEF PairState
  <2> HIDE DEF a, c, c2, o, y, d, r, u, f
  <2>2. Sent = a + o + c + (r + u + d2 + f)
    BY <1>2, <1>s, <1>8
  <2>3. /\ Len(wr'.bridge) <= BridgeCap
        /\ Output(Sent, wr'.bridge, wr'.chunk, ko, past.read + ptyCount.lastClose + d2 + ptyCount.full)
    BY <1>3, <1>7, <2>2 DEF Output, a, c, o, y, d, r, u, f
  <2> HIDE DEF ko, d2
  <2> QED BY <1>1, <1>2, <1>6, <1>7, <1>10, <2>1, <2>3, WriterInv
<1> QED BY <1>1, <1>9, <1>10
-----------------------------------------------------------------------------
(* The reader: offering a chunk to the endpoint *)

\* A chunk that was lost, or read under a spying edge, is counted.
Charged(h) ==
    ptyCount' = IF h \in {"lost", "spied"} THEN [ptyCount EXCEPT !.targetward = @ + 1] ELSE ptyCount

\* The counters after an offer.
LEMMA ChargedOf ==
    ASSUME PtyInv, NEW h, Charged(h)
    PROVE  /\ ptyCount' \in CountState /\ ptyCount'.purged = ptyCount.purged
           /\ ptyCount'.lastClose = ptyCount.lastClose /\ ptyCount'.absent = ptyCount.absent
           /\ ptyCount'.full = ptyCount.full
           /\ h \in {"lost", "spied"} => ptyCount'.targetward = ptyCount.targetward + 1
           /\ h \notin {"lost", "spied"} => ptyCount'.targetward = ptyCount.targetward
<1> DEFINE t == ptyCount.targetward
           t2 == t + 1
<1>1. ptyCount \in CountState /\ t \in Nat
  BY PtyFields DEF PtyInv, PtyTypes
<1>2. t2 \in Nat
  BY <1>1
<1> HIDE DEF t2
<1>3. CASE h \in {"lost", "spied"}
  <2>1. ptyCount' = [ptyCount EXCEPT !.targetward = t2]
    BY <1>3 DEF Charged, t2
  <2>2. /\ ptyCount' \in CountState /\ ptyCount'.purged = ptyCount.purged
        /\ ptyCount'.lastClose = ptyCount.lastClose /\ ptyCount'.absent = ptyCount.absent
        /\ ptyCount'.full = ptyCount.full /\ ptyCount'.targetward = t2
    BY <1>1, <1>2, <2>1 DEF CountState
  <2> QED BY <1>3, <2>2 DEF t2
<1>4. CASE h \notin {"lost", "spied"}
  <2>1. ptyCount' = ptyCount
    BY <1>4 DEF Charged
  <2> QED BY <1>1, <1>4, <2>1
<1> QED BY <1>3, <1>4

\* The channel and the history after an offer.
LEMMA TookOf ==
    ASSUME PtyInv, NEW p \in Chunks, NEW h, Took(h, p), h = "taken" => Len(chan.q) < EndpointCap
    PROVE  /\ chan' \in ChanState /\ Len(chan'.q) <= EndpointCap
           /\ past' \in PastState /\ past'.typed = past.typed /\ past'.fed = past.fed
           /\ past'.read = past.read /\ past'.settled = past.settled /\ past'.takenAt = past.takenAt
           /\ h = "taken" => past'.taken = Append(past.taken, p)
           /\ h # "taken" => past'.taken = past.taken
<1>1. chan \in ChanState /\ past \in PastState /\ Len(chan.q) <= EndpointCap
  BY DEF PtyInv, PtyTypes
<1>2. CASE h = "taken"
  <2> DEFINE q == chan.q
             b == Append(q, p)
             tk == past.taken
             a == Append(tk, p)
  <2>1. chan' = [chan EXCEPT !.q = b] /\ past' = [past EXCEPT !.taken = a]
    BY <1>2 DEF Took
  <2>2. q \in Seq(Nat) /\ tk \in Seq(Chunks) /\ p \in Nat
    BY PtyFields DEF Chunks
  <2>3. b \in Seq(Nat) /\ Len(b) = Len(q) + 1 /\ Len(q) \in Nat
    BY <2>2, AppendProperties
  <2>4. a \in Seq(Chunks)
    BY <2>2, AppendProperties
  <2>5. Len(b) <= EndpointCap
    <3> DEFINE i == Len(q)
               j == Len(b)
    <3>1. j = i + 1 /\ i \in Nat /\ i < EndpointCap
      BY <1>2, <2>3
    <3> HIDE DEF i, j
    <3>2. j <= EndpointCap
      BY <3>1, PtyBounds
    <3> QED BY <3>2 DEF j
  <2> HIDE DEF a, b
  <2>6. chan' \in ChanState /\ chan'.q = b
    BY <1>1, <2>1, <2>3 DEF ChanState
  <2>7. /\ past' \in PastState /\ past'.typed = past.typed /\ past'.fed = past.fed
        /\ past'.read = past.read /\ past'.settled = past.settled /\ past'.takenAt = past.takenAt
        /\ past'.taken = a
    BY <1>1, <2>1, <2>4 DEF PastState
  <2> QED BY <1>2, <2>5, <2>6, <2>7 DEF a
<1>3. CASE h # "taken"
  <2>1. chan' = chan /\ past' = past
    BY <1>3 DEF Took
  <2> QED BY <1>1, <1>3, <2>1
<1> QED BY <1>2, <1>3

\* A chunk that is not stale is offered with outcome h, and is then taken, counted or
\* still in hand.
LEMMA OfferInv ==
    ASSUME PtyInv, NEW p \in Chunks, NEW h \in {"taken", "full", "lost", "spied"}, NEW kn \in Seq(Chunks),
           Took(h, p), Charged(h), h = "taken" => Len(chan.q) < EndpointCap,
           Ledger(Typed, past.taken, p, kn, rd.held + ptyCount.targetward + ptyCount.purged),
           past.typed[p] > past.settled
    PROVE  /\ \A i \in past.takenAt + 1 .. Len(past'.taken) : past.typed[past'.taken[i]] > past.settled
           /\ Ledger(Typed, past'.taken, IF h = "full" THEN p ELSE 0, kn,
                     rd.held + ptyCount'.targetward + ptyCount'.purged)
<1> DEFINE n == Typed
           tk == past.taken
           d == rd.held
           t == ptyCount.targetward
           u == ptyCount.purged
           x == d + t + u
           tk2 == past'.taken
           t2 == ptyCount'.targetward
           x2 == d + t2 + ptyCount'.purged
           at == past.takenAt
           st == past.settled
           tp == past.typed
<1>1. n \in Nat /\ tk \in Seq(Chunks) /\ d \in Nat /\ t \in Nat /\ u \in Nat /\ at \in Nat
  BY PtyFields
<1>2. /\ h \in {"lost", "spied"} => t2 = t + 1
      /\ h \notin {"lost", "spied"} => t2 = t
      /\ ptyCount'.purged = u
  BY ChargedOf
<1>3. /\ h = "taken" => tk2 = Append(tk, p)
      /\ h # "taken" => tk2 = tk
  BY TookOf
<1>4. Ledger(n, tk, p, kn, x)
  OBVIOUS
<1>5. \A i \in at + 1 .. Len(tk) : tp[tk[i]] > st
  BY DEF PtyInv, StaleInv
<1>6. tp[p] > st
  OBVIOUS
<1>7. x \in Nat
  <2> HIDE DEF d, t, u
  <2> QED BY <1>1
<1>8. /\ h \in {"lost", "spied"} => x2 = x + 1
      /\ h \notin {"lost", "spied"} => x2 = x
  <2> HIDE DEF d, t, u, t2
  <2> QED BY <1>1, <1>2
<1> HIDE DEF n, tk, d, t, u, x, tk2, t2, x2, at, st, tp
<1>9. CASE h = "taken"
  <2>1. tk2 \in Seq(Chunks) /\ Ledger(n, tk2, 0, kn, x)
    BY <1>1, <1>3, <1>4, <1>7, <1>9, LedgerTakes
  <2>2. Len(tk2) = Len(tk) + 1 /\ Len(tk) \in Nat /\ tk2[Len(tk) + 1] = p /\ \A i \in 1 .. Len(tk) : tk2[i] = tk[i]
    BY <1>1, <1>3, <1>9, AppendProperties
  <2>3. ASSUME NEW i \in at + 1 .. Len(tk2) PROVE tp[tk2[i]] > st
    <3> DEFINE k == Len(tk)
               k2 == Len(tk2)
    <3>1. k2 = k + 1 /\ k \in Nat /\ i \in at + 1 .. k2
      BY <2>2
    <3> HIDE DEF k, k2
    <3>2. i = k + 1 \/ (i \in 1 .. k /\ i \in at + 1 .. k)
      BY <1>1, <3>1
    <3> QED BY <1>5, <1>6, <2>2, <3>2 DEF k
  <2> QED BY <1>8, <1>9, <2>1, <2>3 DEF n, tk2, x2, at, st, tp, d, t2
<1>10. CASE h = "full"
  <2>1. tk2 = tk /\ x2 = x
    BY <1>3, <1>8, <1>10
  <2>2. Ledger(n, tk2, p, kn, x2) /\ \A i \in at + 1 .. Len(tk2) : tp[tk2[i]] > st
    BY <1>4, <1>5, <2>1
  <2> QED BY <1>10, <2>2 DEF n, tk2, x2, at, st, tp, d, t2
<1>11. CASE h \in {"lost", "spied"}
  <2>1. tk2 = tk /\ x2 = x + 1
    BY <1>3, <1>8, <1>11
  <2>2. Ledger(n, tk, 0, kn, x + 1)
    BY <1>1, <1>4, <1>7, LedgerLoses
  <2>3. Ledger(n, tk2, 0, kn, x2) /\ \A i \in at + 1 .. Len(tk2) : tp[tk2[i]] > st
    BY <1>5, <2>1, <2>2
  <2> QED BY <1>11, <2>3 DEF n, tk2, x2, at, st, tp, d, t2
<1> QED BY <1>9, <1>10, <1>11

\* The outcomes of an offer.
LEMMA HandoffOf ==
    ASSUME PtyInv
    PROVE  Handoff \in {"taken", "full", "lost"} /\ (Handoff = "taken" => Len(chan.q) < EndpointCap)
BY DEF Handoff

\* The output is not the reader's until the last close.
LEMMA OutputFrame ==
    ASSUME PtyInv, wr' = wr, pair'.kout = pair.kout, past'.fed = past.fed, past'.read = past.read,
           ptyCount'.lastClose = ptyCount.lastClose, ptyCount'.absent = ptyCount.absent,
           ptyCount'.full = ptyCount.full
    PROVE  OutputInv'
BY DEF PtyInv, OutputInv, Sent

\* Nothing of a settled session is unread or in hand while the reader is not at the residue.
LEMMA LaterNow ==
    ASSUME PtyInv, rd.pc # "residual"
    PROVE  Later(past.typed, past.settled, rd.pending, pair.kin)
BY DEF PtyInv, StaleInv

\* An offer keeps both accounts, whatever the reader does next.
LEMMA OfferSettles ==
    ASSUME PtyInv, NEW p \in Chunks, NEW h \in {"taken", "full", "lost", "spied"}, NEW kn \in Seq(Chunks),
           Took(h, p), Charged(h), h = "taken" => Len(chan.q) < EndpointCap,
           Ledger(Typed, past.taken, p, kn, rd.held + ptyCount.targetward + ptyCount.purged),
           Later(past.typed, past.settled, p, kn),
           rd'.pending = (IF h = "full" THEN p ELSE 0), rd'.held = rd.held,
           pair'.kin = kn, pair'.kout = pair.kout, client' = client, wr' = wr
    PROVE  /\ chan' \in ChanState /\ Len(chan'.q) <= EndpointCap
           /\ past' \in PastState /\ ptyCount' \in CountState
           /\ TypedInv' /\ StaleInv' /\ OutputInv'
<1>1. p # 0 /\ past.typed[p] > past.settled /\ \A j \in 1 .. Len(kn) : past.typed[kn[j]] > past.settled
  BY DEF Later, Chunks
<1>2. /\ chan' \in ChanState /\ Len(chan'.q) <= EndpointCap
      /\ past' \in PastState /\ past'.typed = past.typed /\ past'.fed = past.fed
      /\ past'.read = past.read /\ past'.settled = past.settled /\ past'.takenAt = past.takenAt
  BY TookOf
<1>3. /\ ptyCount' \in CountState /\ ptyCount'.lastClose = ptyCount.lastClose
      /\ ptyCount'.absent = ptyCount.absent /\ ptyCount'.full = ptyCount.full
  BY ChargedOf
<1>4. /\ \A i \in past.takenAt + 1 .. Len(past'.taken) : past.typed[past'.taken[i]] > past.settled
      /\ Ledger(Typed, past'.taken, rd'.pending, kn, rd.held + ptyCount'.targetward + ptyCount'.purged)
  BY <1>1, OfferInv
<1>5. TypedInv'
  BY <1>2, <1>4 DEF TypedInv, Typed
<1>6. StaleInv'
  <2> DEFINE kk == IF rd'.pc = "residual" /\ rd'.may THEN <<>> ELSE kn
  <2>1. \A j \in 1 .. Len(kk) : past.typed[kk[j]] > past.settled
    BY <1>1
  <2>2. Later(past.typed, past.settled, rd'.pending, kk)
    BY <1>1, <2>1 DEF Later
  <2> HIDE DEF kk
  <2>3. past.settled <= client.session /\ (client.open => past.settled < client.session)
    BY DEF PtyInv, StaleInv
  <2> QED BY <1>2, <1>4, <2>2, <2>3 DEF StaleInv, kk
<1>7. OutputInv'
  BY <1>2, <1>3, OutputFrame
<1> QED BY <1>2, <1>3, <1>5, <1>6, <1>7

\* The ledger of the state, ready to be offered from.
LEMMA TypedNow ==
    ASSUME PtyInv
    PROVE  Ledger(Typed, past.taken, rd.pending, pair.kin, rd.held + ptyCount.targetward + ptyCount.purged)
BY DEF PtyInv, TypedInv

\* Reserve: the payload in hand goes, and the hand is empty.
LEMMA ReserveInv == ASSUME PtyInv, Reserve PROVE PtyInv'
<1> DEFINE p == rd.pending
           h == IF rd.origin = "dead" THEN "lost" ELSE Handoff
           z == 0
           r == [[rd EXCEPT !.pending = z] EXCEPT !.origin = "none"]
<1>1. /\ rd.pc = "wait" /\ p # 0 /\ h # "full" /\ Took(h, p) /\ rd' = r
      /\ UNCHANGED <<client, pair, edge, wr>>
  BY DEF Reserve, Between, None
<1>2. h \in {"taken", "lost"} /\ (h = "taken" => Len(chan.q) < EndpointCap)
  BY <1>1, HandoffOf
<1>3. Charged(h)
  BY <1>2 DEF Reserve, Charged
<1>4. p \in Chunks /\ pair.kin \in Seq(Chunks) /\ rd \in ReaderState /\ z \in Nat /\ z = 0
  BY <1>1, PtyFields DEF PtyInv, PtyTypes, Chunks
<1> HIDE DEF z, h
<1>5. /\ r \in ReaderState /\ r.pending = z /\ r.held = rd.held /\ r.pc = rd.pc /\ r.may = rd.may
      /\ r.present = rd.present
  BY <1>4 DEF ReaderState
<1> HIDE DEF r
<1>6. /\ chan' \in ChanState /\ Len(chan'.q) <= EndpointCap
      /\ past' \in PastState /\ ptyCount' \in CountState
      /\ TypedInv' /\ StaleInv' /\ OutputInv'
  <2> DEFINE kn == pair.kin
  <2>1. Later(past.typed, past.settled, p, kn)
    BY <1>1, LaterNow
  <2>2. pair'.kin = kn /\ pair'.kout = pair.kout /\ rd'.held = rd.held /\ rd'.pending = (IF h = "full" THEN p ELSE 0)
    BY <1>1, <1>2, <1>4, <1>5
  <2>3. Ledger(Typed, past.taken, p, kn, rd.held + ptyCount.targetward + ptyCount.purged)
    BY TypedNow
  <2>4. kn \in Seq(Chunks) /\ h \in {"taken", "full", "lost", "spied"} /\ client' = client /\ wr' = wr
    BY <1>1, <1>2, <1>4
  <2> HIDE DEF kn, p
  <2> QED BY <1>1, <1>2, <1>3, <1>4, <2>1, <2>2, <2>3, <2>4, OfferSettles
<1>7. PtyTypes'
  BY <1>1, <1>5, <1>6 DEF PtyInv, PtyTypes
<1>8. ReaderInv'
  BY <1>1, <1>4, <1>5 DEF PtyInv, ReaderInv, Between, None
<1> QED BY <1>6, <1>7, <1>8 DEF PtyInv

\* Drain: a control packet is read.
LEMMA DrainControl ==
    ASSUME PtyInv, rd.pc = "drain", NEW yes \in BOOLEAN, yes, pair' = [pair EXCEPT !.ctl = "none"],
           rd' = [rd EXCEPT !.saw = yes], UNCHANGED <<client, edge, wr, chan, ptyCount, past>>
    PROVE  PtyInv'
<1>1. pair \in PairState /\ rd \in ReaderState
  BY DEF PtyInv, PtyTypes
<1>2. pair' \in PairState /\ pair'.kin = pair.kin /\ pair'.kout = pair.kout /\ pair'.ctl = "none"
  BY <1>1 DEF PairState
<1>3. /\ rd' \in ReaderState /\ rd'.pc = rd.pc /\ rd'.pending = rd.pending /\ rd'.held = rd.held
      /\ rd'.may = rd.may /\ rd'.present = rd.present /\ rd'.origin = rd.origin /\ rd'.saw = yes
  BY <1>1 DEF ReaderState
<1>4. PtyTypes'
  BY <1>2, <1>3 DEF PtyInv, PtyTypes
<1>5. TypedInv' /\ StaleInv' /\ OutputInv'
  BY <1>2, <1>3 DEF PtyInv, TypedInv, StaleInv, OutputInv, Typed, Sent
<1>6. ReaderInv'
  BY <1>2, <1>3 DEF PtyInv, ReaderInv, Between, Baseline
<1> QED BY <1>4, <1>5, <1>6 DEF PtyInv

\* Drain: there is nothing to read.
LEMMA DrainDry ==
    ASSUME PtyInv, rd.pc = "drain", pair.ctl = "none", NEW c \in BOOLEAN,
           rd' = [[rd EXCEPT !.pc = "close"] EXCEPT !.closed = c],
           UNCHANGED <<client, pair, edge, wr, chan, ptyCount, past>>
    PROVE  PtyInv'
<1>1. rd \in ReaderState
  BY DEF PtyInv, PtyTypes
<1>2. /\ rd' \in ReaderState /\ rd'.pc = "close" /\ rd'.pending = rd.pending /\ rd'.held = rd.held
      /\ rd'.may = rd.may /\ rd'.present = rd.present /\ rd'.origin = rd.origin /\ rd'.saw = rd.saw
  BY <1>1 DEF ReaderState
<1>3. PtyTypes'
  BY <1>2 DEF PtyInv, PtyTypes
<1>4. TypedInv' /\ StaleInv' /\ OutputInv'
  BY <1>2 DEF PtyInv, TypedInv, StaleInv, OutputInv, Typed, Sent
<1>5. ReaderInv'
  BY <1>2 DEF PtyInv, ReaderInv, Between, Baseline
<1> QED BY <1>3, <1>4, <1>5 DEF PtyInv

\* What is left after the first unread chunk was read is as late as it was.
LEMMA LaterTail ==
    ASSUME NEW tp, NEW st, NEW kn \in Seq(Chunks), kn # <<>>, Later(tp, st, 0, kn)
    PROVE  Later(tp, st, Head(kn), Tail(kn))
<1> DEFINE a == Tail(kn)
           p == Head(kn)
           k == Len(kn)
<1>1. /\ p = kn[1] /\ k \in Nat /\ k >= 1 /\ Len(a) = k - 1
      /\ \A i \in 1 .. k - 1 : a[i] = kn[i + 1]
  BY HeadTailProperties, EmptySeq
<1> HIDE DEF a, p, k
<1>2. \A i \in 1 .. Len(a) : i + 1 \in 1 .. k /\ a[i] = kn[i + 1]
  BY <1>1
<1>3. 1 \in 1 .. k
  BY <1>1
<1>4. \A j \in 1 .. k : tp[kn[j]] > st
  BY DEF Later, k
<1>5. tp[p] > st /\ \A j \in 1 .. Len(a) : tp[a[j]] > st
  BY <1>1, <1>2, <1>3, <1>4
<1> QED BY <1>5 DEF Later, a, p

\* Drain: a chunk is read, and offered or spied on.
LEMMA DrainChunk ==
    ASSUME PtyInv, rd.pc = "drain", pair.ctl = "none", pair.kin # <<>>,
           NEW h \in {"taken", "full", "lost", "spied"}, h = "taken" => Len(chan.q) < EndpointCap,
           NEW yes \in BOOLEAN, yes, NEW pc \in {"drain", "close"}, h = "full" => pc = "close",
           NEW p \in Nat, p = (IF h = "full" THEN Head(pair.kin) ELSE 0),
           Took(h, Head(pair.kin)), Charged(h),
           pair' = [pair EXCEPT !.kin = Tail(pair.kin)],
           rd' = [[[rd EXCEPT !.saw = yes] EXCEPT !.pending = p] EXCEPT !.pc = pc],
           UNCHANGED <<client, edge, wr>>
    PROVE  PtyInv'
<1> DEFINE kn == pair.kin
           c == Head(kn)
           t == Tail(kn)
           x == rd.held + ptyCount.targetward + ptyCount.purged
<1>1. pair \in PairState /\ rd \in ReaderState /\ kn \in Seq(Chunks) /\ kn # <<>>
  BY PtyFields DEF PtyInv, PtyTypes
<1>2. rd.pending = 0
  BY DEF PtyInv, ReaderInv, None
<1>3. x \in Nat
  <2>1. rd.held \in Nat /\ ptyCount.targetward \in Nat /\ ptyCount.purged \in Nat
    BY PtyFields
  <2> QED BY <2>1
<1>4. Ledger(Typed, past.taken, 0, kn, x) /\ Typed \in Nat /\ past.taken \in Seq(Chunks)
  BY <1>2, TypedNow, PtyFields
<1>5. Later(past.typed, past.settled, 0, kn)
  BY <1>2, LaterNow
<1>6. c \in Chunks /\ t \in Seq(Chunks) /\ Ledger(Typed, past.taken, c, t, x)
  <2> HIDE DEF x, kn
  <2> QED BY <1>1, <1>3, <1>4, LedgerHeads
<1>7. Later(past.typed, past.settled, c, t)
  <2> HIDE DEF kn
  <2> QED BY <1>1, <1>5, LaterTail
<1>8. pair' = [pair EXCEPT !.kin = t] /\ Took(h, c) /\ p = (IF h = "full" THEN c ELSE 0)
  OBVIOUS
<1> HIDE DEF c, t
<1>9. pair' \in PairState /\ pair'.kin = t /\ pair'.kout = pair.kout /\ pair'.ctl = "none"
  BY <1>1, <1>6, <1>8 DEF PairState
<1>10. /\ rd' \in ReaderState /\ rd'.pc = pc /\ rd'.pending = p /\ rd'.held = rd.held
       /\ rd'.may = rd.may /\ rd'.present = rd.present /\ rd'.origin = rd.origin /\ rd'.saw = yes
  BY <1>1 DEF ReaderState
<1>11. /\ chan' \in ChanState /\ Len(chan'.q) <= EndpointCap
       /\ past' \in PastState /\ ptyCount' \in CountState
       /\ TypedInv' /\ StaleInv' /\ OutputInv'
  BY <1>6, <1>7, <1>8, <1>9, <1>10, OfferSettles
<1>12. PtyTypes'
  BY <1>9, <1>10, <1>11 DEF PtyInv, PtyTypes
<1>13. ReaderInv'
  BY <1>8, <1>9, <1>10 DEF PtyInv, ReaderInv, Between, Baseline, None
<1> QED BY <1>11, <1>12, <1>13 DEF PtyInv

\* Drain.
LEMMA DrainInv == ASSUME PtyInv, Drain PROVE PtyInv'
<1> DEFINE yes == TRUE
           h == IF rd.origin = "writer" THEN Handoff ELSE "spied"
           p == IF h = "full" THEN Head(pair.kin) ELSE 0
           pc == IF h \in {"full", "lost"} THEN "close" ELSE "drain"
           c == ~client.open
<1>1. rd.pc = "drain" /\ UNCHANGED <<client, edge, wr>> /\ yes \in BOOLEAN /\ yes
  BY DEF Drain
<1>2. c \in BOOLEAN
  BY DEF PtyInv, PtyTypes, ClientState
<1>3. h \in {"taken", "full", "lost", "spied"} /\ (h = "taken" => Len(chan.q) < EndpointCap)
  BY HandoffOf
<1>4. \/ /\ pair' = [pair EXCEPT !.ctl = "none"] /\ rd' = [rd EXCEPT !.saw = yes]
         /\ UNCHANGED <<chan, ptyCount, past>>
      \/ /\ pair.ctl = "none" /\ pair.kin # <<>> /\ Took(h, Head(pair.kin)) /\ Charged(h)
         /\ rd' = [[[rd EXCEPT !.saw = yes] EXCEPT !.pending = p] EXCEPT !.pc = pc]
         /\ pair' = [pair EXCEPT !.kin = Tail(pair.kin)]
      \/ /\ pair.ctl = "none" /\ rd' = [[rd EXCEPT !.pc = "close"] EXCEPT !.closed = c]
         /\ UNCHANGED <<pair, chan, ptyCount, past>>
  BY DEF Drain, Charged, None
<1> HIDE DEF yes, c, h
<1>5. CASE /\ pair' = [pair EXCEPT !.ctl = "none"] /\ rd' = [rd EXCEPT !.saw = yes]
           /\ UNCHANGED <<chan, ptyCount, past>>
  BY <1>1, <1>5, DrainControl
<1>6. CASE /\ pair.ctl = "none" /\ pair.kin # <<>> /\ Took(h, Head(pair.kin)) /\ Charged(h)
           /\ rd' = [[[rd EXCEPT !.saw = yes] EXCEPT !.pending = p] EXCEPT !.pc = pc]
           /\ pair' = [pair EXCEPT !.kin = Tail(pair.kin)]
  <2>1. p \in Nat
    <3>1. Head(pair.kin) \in Chunks
      BY <1>6, PtyFields, HeadTailProperties
    <3> QED BY <3>1 DEF Chunks
  <2>2. pc \in {"drain", "close"} /\ (h = "full" => pc = "close")
    BY <1>3
  <2>3. p = (IF h = "full" THEN Head(pair.kin) ELSE 0)
    OBVIOUS
  <2> HIDE DEF p, pc
  <2> QED BY <1>1, <1>3, <1>6, <2>1, <2>2, <2>3, DrainChunk
<1>7. CASE /\ pair.ctl = "none" /\ rd' = [[rd EXCEPT !.pc = "close"] EXCEPT !.closed = c]
           /\ UNCHANGED <<pair, chan, ptyCount, past>>
  BY <1>1, <1>2, <1>7, DrainDry
<1> QED BY <1>4, <1>5, <1>6, <1>7

\* The reader at the end of the top of a pass.
LEMMA PassReader ==
    ASSUME PtyInv, rd.pc = "wait", pair' = pair, rd'.held = rd.held, rd'.present = rd.present,
           rd'.pc = (IF Reads(rd'.pending, rd'.may) THEN "drain" ELSE "close"),
           rd'.pending # 0 => rd.pending # 0, rd'.origin = "writer" /\ MayWrite(edge)' => rd'.may
    PROVE  ReaderInv'
<1>1. rd'.pc = "drain" => rd'.pending = 0
  BY DEF Reads, None
<1>2. rd'.pc = "close" /\ rd'.may /\ rd'.pending = 0 => pair.ctl = "none"
  BY DEF Reads, None
<1>3. rd.held = 0 /\ (rd'.pending # 0 => rd.present)
  BY DEF PtyInv, ReaderInv, None
<1>4. rd'.pc \in {"drain", "close"} /\ rd'.held = 0 /\ ~Between'
  BY <1>3 DEF Between
<1>5. rd'.pc \in {"drain", "last", "residual"} => rd'.pending = 0
  BY <1>1, <1>4
<1>6. rd'.pending # 0 => rd'.present
  BY <1>3
<1>7. rd'.pc = "close" /\ rd'.may /\ rd'.pending = 0 => pair'.ctl # Baseline
  BY <1>2 DEF Baseline
<1> QED BY <1>4, <1>5, <1>6, <1>7 DEF ReaderInv, None

\* Pass: the edge, the lock and the payload in hand.
LEMMA PassInv == ASSUME PtyInv, Pass PROVE PtyInv'
<1> DEFINE e == Reclaimed(edge)
           may == IF e.kind = "writer" THEN MayWrite(e) ELSE e.kind = "spy"
           h == IF e.kind = "writer" THEN Handoff ELSE "lost"
           c == rd.pending
           p == IF c # 0 /\ h = "full" THEN c ELSE 0
           pc == IF Reads(p, may) THEN "drain" ELSE "close"
           now == client.open
           no == FALSE
<1>1. /\ rd.pc = "wait" /\ edge' = e /\ UNCHANGED <<client, pair, wr>>
      /\ rd' = [[[[[[rd EXCEPT !.pc = pc] EXCEPT !.now = now] EXCEPT !.origin = e.kind]
                    EXCEPT !.may = may] EXCEPT !.pending = p] EXCEPT !.closed = no]
  BY DEF Pass, Between, None
<1>2. /\ c = 0 => UNCHANGED <<chan, ptyCount, past>>
      /\ c # 0 => /\ Took(h, c)
                  /\ ptyCount' = IF h = "lost" THEN [ptyCount EXCEPT !.targetward = @ + 1] ELSE ptyCount
  BY DEF Pass, None
<1>3. h \in {"taken", "full", "lost"} /\ (h = "taken" => Len(chan.q) < EndpointCap)
  BY HandoffOf
<1>4. c # 0 => Charged(h)
  BY <1>2, <1>3 DEF Charged
<1>5. c \in Nat /\ pair.kin \in Seq(Chunks)
  BY PtyFields
<1>6. may \in BOOLEAN /\ now \in BOOLEAN /\ no \in BOOLEAN
  BY DEF PtyInv, PtyTypes, ClientState, MayWrite
<1>7. e.kind = "writer" /\ MayWrite(e) => may
  OBVIOUS
<1>8. e \in EdgeState /\ (e.kind # "writer" => e.holder # "self")
  BY ReclaimedOf DEF PtyInv, PtyTypes
<1>9. p \in Nat /\ (p # 0 => c # 0)
  BY <1>5
<1>10. MayWrite(edge)' = MayWrite(e)
  BY <1>1 DEF MayWrite
<1>11. /\ rd' \in ReaderState /\ rd'.pending = p /\ rd'.held = rd.held /\ rd'.pc # "residual"
       /\ ReaderInv'
  <2> DEFINE k == e.kind
  <2>1. k \in {"none", "spy", "writer"} /\ pc \in {"drain", "close"} /\ rd \in ReaderState
    BY <1>8 DEF EdgeState, PtyInv, PtyTypes
  <2>2. pc = (IF Reads(p, may) THEN "drain" ELSE "close")
    OBVIOUS
  <2>3. rd' = [[[[[[rd EXCEPT !.pc = pc] EXCEPT !.now = now] EXCEPT !.origin = k]
                    EXCEPT !.may = may] EXCEPT !.pending = p] EXCEPT !.closed = no]
    BY <1>1
  <2> HIDE DEF may, now, no, p, pc, k
  <2>4. /\ rd' \in ReaderState /\ rd'.pc = pc /\ rd'.pending = p /\ rd'.held = rd.held /\ rd'.origin = k
        /\ rd'.may = may /\ rd'.present = rd.present
    BY <1>6, <1>9, <2>1, <2>3 DEF ReaderState
  <2>5. rd'.pc = (IF Reads(rd'.pending, rd'.may) THEN "drain" ELSE "close")
    BY <2>2, <2>4
  <2>6. rd'.origin = "writer" /\ MayWrite(edge)' => rd'.may
    BY <1>7, <1>10, <2>4 DEF k
  <2>7. ReaderInv'
    BY <1>1, <1>9, <2>4, <2>5, <2>6, PassReader
  <2> QED BY <2>1, <2>4, <2>7
<1>12. /\ chan' \in ChanState /\ Len(chan'.q) <= EndpointCap
       /\ past' \in PastState /\ ptyCount' \in CountState
       /\ TypedInv' /\ StaleInv' /\ OutputInv'
  <2>1. CASE c = 0
    <3>1. p = 0 /\ UNCHANGED <<client, pair, wr, chan, ptyCount, past>>
      BY <1>1, <1>2, <2>1
    <3> HIDE DEF p
    <3> QED BY <1>1, <1>11, <2>1, <3>1
            DEF PtyInv, PtyTypes, TypedInv, StaleInv, OutputInv, Typed, Sent
  <2>2. CASE c # 0
    <3> DEFINE kn == pair.kin
    <3>1. Later(past.typed, past.settled, c, kn)
      BY <1>1, LaterNow
    <3>2. pair'.kin = kn /\ pair'.kout = pair.kout /\ rd'.held = rd.held /\ rd'.pending = (IF h = "full" THEN c ELSE 0)
      BY <1>1, <1>11, <2>2
    <3>3. Ledger(Typed, past.taken, c, kn, rd.held + ptyCount.targetward + ptyCount.purged)
      BY TypedNow
    <3>4. /\ kn \in Seq(Chunks) /\ h \in {"taken", "full", "lost", "spied"} /\ client' = client /\ wr' = wr
          /\ c \in Chunks /\ Took(h, c) /\ Charged(h)
      BY <1>1, <1>2, <1>3, <1>4, <1>5, <2>2 DEF Chunks
    <3> HIDE DEF kn, c, h
    <3> QED BY <1>3, <3>1, <3>2, <3>3, <3>4, OfferSettles
  <2> QED BY <2>1, <2>2
<1>13. PtyTypes'
  BY <1>1, <1>8, <1>11, <1>12 DEF PtyInv, PtyTypes
<1> QED BY <1>11, <1>12, <1>13 DEF PtyInv

\* Presence: the session goes on, or none was noticed.
LEMMA PresenceStays ==
    ASSUME PtyInv, rd.pc = "close", NEW here \in BOOLEAN, ~Ended(here), NEW no \in BOOLEAN,
           NEW o \in {"none", "spy", "writer", "dead"},
           rd' = [[[[[rd EXCEPT !.pc = "wait"] EXCEPT !.present = here] EXCEPT !.now = no]
                   EXCEPT !.closed = no] EXCEPT !.origin = o],
           UNCHANGED <<client, pair, edge, wr, chan, ptyCount, past>>
    PROVE  PtyInv'
<1>1. rd \in ReaderState
  BY DEF PtyInv, PtyTypes
<1>2. /\ rd' \in ReaderState /\ rd'.pc = "wait" /\ rd'.pending = rd.pending /\ rd'.held = rd.held
      /\ rd'.may = rd.may /\ rd'.present = here
  BY <1>1 DEF ReaderState
<1>3. PtyTypes'
  BY <1>2 DEF PtyInv, PtyTypes
<1>4. TypedInv' /\ StaleInv' /\ OutputInv'
  BY <1>2 DEF PtyInv, TypedInv, StaleInv, OutputInv, Typed, Sent
<1>5. rd.held = 0 /\ (rd.pending # 0 => here) /\ (~here /\ rd.may => pair.ctl # Baseline)
  BY DEF PtyInv, ReaderInv, Ended, None
<1>6. ReaderInv'
  BY <1>2, <1>5 DEF ReaderInv, Between, None
<1> QED BY <1>3, <1>4, <1>6 DEF PtyInv

\* Presence: the reader after the session's end was noticed.
LEMMA EndedReader ==
    ASSUME PtyInv, rd.pc = "close", NEW no \in BOOLEAN, NEW z \in Nat, z = 0, NEW d \in Nat,
           rd' = [[[[rd EXCEPT !.pc = "last"] EXCEPT !.present = no] EXCEPT !.pending = z] EXCEPT !.held = d],
           edge' = edge
    PROVE  /\ rd' \in ReaderState /\ rd'.pc = "last" /\ rd'.pending = 0 /\ rd'.held = d /\ ReaderInv'
<1>1. rd \in ReaderState
  BY DEF PtyInv, PtyTypes
<1>2. /\ rd' \in ReaderState /\ rd'.pc = "last" /\ rd'.pending = z /\ rd'.held = d
      /\ rd'.may = rd.may /\ rd'.origin = rd.origin
  BY <1>1 DEF ReaderState
<1>3. rd.origin = "writer" /\ MayWrite(edge) => rd.may
  BY DEF PtyInv, ReaderInv
<1>4. MayWrite(edge)' = MayWrite(edge)
  BY DEF MayWrite
<1>5. ReaderInv'
  BY <1>2, <1>3, <1>4 DEF ReaderInv, Between, None
<1> QED BY <1>2, <1>5

\* A payload that the endpoint cannot take is put aside for the counters.
LEMMA AsideInv ==
    ASSUME PtyInv, rd.pc = "close", rd.pending # 0, rd'.pending = 0, rd'.held = 1, rd'.pc = "last",
           UNCHANGED <<client, pair, edge, wr, chan, ptyCount, past>>
    PROVE  TypedInv' /\ StaleInv' /\ OutputInv'
<1>1. TypedInv'
  <2> DEFINE n == Typed
             tk == past.taken
             p == rd.pending
             kn == pair.kin
             h == rd.held
             t == ptyCount.targetward
             u == ptyCount.purged
             x == h + t + u
  <2>1. /\ n \in Nat /\ tk \in Seq(Chunks) /\ p \in Chunks /\ kn \in Seq(Chunks) /\ t \in Nat /\ u \in Nat
        /\ Ledger(n, tk, p, kn, x) /\ h = 0
    BY PtyFields DEF PtyInv, TypedInv, ReaderInv, Chunks
  <2> HIDE DEF n, tk, p, kn, h, t, u
  <2>2. x \in Nat /\ x + 1 = 1 + t + u
    BY <2>1
  <2> HIDE DEF x
  <2>3. Ledger(n, tk, 0, kn, x + 1)
    BY <2>1, <2>2, LedgerLoses
  <2> QED BY <2>2, <2>3 DEF TypedInv, Typed, n, tk, kn, t, u
<1>2. StaleInv'
  <2>1. Later(past.typed, past.settled, 0, pair.kin)
    BY LaterNow DEF Later
  <2> QED BY <2>1 DEF PtyInv, StaleInv
<1>3. OutputInv'
  BY OutputFrame
<1> QED BY <1>1, <1>2, <1>3

\* Presence.
LEMMA PresenceInv == ASSUME PtyInv, Presence PROVE PtyInv'
<1> DEFINE here == rd.now /\ ~rd.closed
           h == IF rd.origin = "writer" THEN Handoff ELSE "lost"
           no == FALSE
           z == 0
           c == rd.pending
           o == IF c = 0 THEN "none" ELSE rd.origin
           d == IF c # 0 /\ h = "full" THEN 1 ELSE 0
<1>1. rd.pc = "close" /\ UNCHANGED <<client, pair, edge, wr>>
  BY DEF Presence
<1>2. /\ rd \in ReaderState /\ here \in BOOLEAN /\ no \in BOOLEAN /\ o \in {"none", "spy", "writer", "dead"}
      /\ z \in Nat /\ z = 0 /\ d \in Nat /\ c \in Nat
  BY PtyFields DEF PtyInv, PtyTypes, ReaderState
<1>3. h \in {"taken", "full", "lost"} /\ (h = "taken" => Len(chan.q) < EndpointCap)
  BY HandoffOf
<1>4. CASE ~Ended(here)
  <2>1. /\ rd' = [[[[[rd EXCEPT !.pc = "wait"] EXCEPT !.present = here] EXCEPT !.now = no]
                   EXCEPT !.closed = no] EXCEPT !.origin = o]
        /\ UNCHANGED <<chan, ptyCount, past>>
    BY <1>4 DEF Presence, None
  <2> HIDE DEF here, no, o
  <2> QED BY <1>1, <1>2, <1>4, <2>1, PresenceStays
<1>5. CASE Ended(here)
  <2>1. /\ rd' = [[[[rd EXCEPT !.pc = "last"] EXCEPT !.present = no] EXCEPT !.pending = z] EXCEPT !.held = d]
        /\ c = 0 => UNCHANGED <<chan, ptyCount, past>>
        /\ c # 0 => /\ Took(h, c)
                    /\ ptyCount' = IF h = "lost" THEN [ptyCount EXCEPT !.targetward = @ + 1] ELSE ptyCount
    BY <1>5 DEF Presence, Carried, None
  <2>2. c # 0 => Charged(h)
    BY <1>3, <2>1 DEF Charged
  <2>3. d = (IF c # 0 /\ h = "full" THEN 1 ELSE 0)
    OBVIOUS
  <2> HIDE DEF no, z, d
  <2>4. /\ rd' \in ReaderState /\ rd'.pc = "last" /\ rd'.pending = 0 /\ rd'.held = d /\ ReaderInv'
    BY <1>1, <1>2, <2>1, EndedReader
  <2>5. rd.held = 0
    BY <1>1 DEF PtyInv, ReaderInv
  <2>6. /\ chan' \in ChanState /\ Len(chan'.q) <= EndpointCap
        /\ past' \in PastState /\ ptyCount' \in CountState
        /\ TypedInv' /\ StaleInv' /\ OutputInv'
    <3>1. CASE c = 0
      BY <1>1, <2>1, <2>3, <2>4, <2>5, <3>1
         DEF PtyInv, PtyTypes, TypedInv, StaleInv, OutputInv, Typed, Sent
    <3>2. CASE c # 0 /\ h = "full"
      <4>1. UNCHANGED <<chan, ptyCount, past>>
        BY <2>1, <3>2 DEF Took
      <4> QED BY <1>1, <2>3, <2>4, <3>2, <4>1, AsideInv DEF PtyInv, PtyTypes
    <3>3. CASE c # 0 /\ h # "full"
      <4> DEFINE kn == pair.kin
      <4>1. Later(past.typed, past.settled, c, kn)
        BY <1>1, LaterNow
      <4>2. pair'.kin = kn /\ pair'.kout = pair.kout /\ rd'.held = rd.held /\ rd'.pending = (IF h = "full" THEN c ELSE 0)
        BY <1>1, <2>3, <2>4, <2>5, <3>3
      <4>3. Ledger(Typed, past.taken, c, kn, rd.held + ptyCount.targetward + ptyCount.purged)
        BY TypedNow
      <4>4. /\ kn \in Seq(Chunks) /\ h \in {"taken", "full", "lost", "spied"} /\ client' = client /\ wr' = wr
            /\ c \in Chunks /\ Took(h, c) /\ Charged(h)
        BY <1>1, <1>2, <1>3, <2>1, <2>2, <3>3, PtyFields DEF Chunks
      <4> HIDE DEF kn, c, h
      <4> QED BY <1>3, <4>1, <4>2, <4>3, <4>4, OfferSettles
    <3> QED BY <3>1, <3>2, <3>3
  <2>7. PtyTypes'
    BY <1>1, <2>4, <2>6 DEF PtyInv, PtyTypes
  <2> QED BY <2>4, <2>6, <2>7 DEF PtyInv
<1> QED BY <1>4, <1>5

\* LastClose: the input, purged or left for the residue.
LEMMA LastCloseTyped ==
    ASSUME PtyInv, rd.pc = "last", rd'.pc = "residual", rd'.pending = rd.pending, rd'.held = rd.held,
           rd'.may = rd.may, client' = client,
           pair'.kin = (IF Purges THEN <<>> ELSE pair.kin),
           ptyCount'.targetward = ptyCount.targetward,
           ptyCount'.purged = ptyCount.purged + (IF Purges THEN Len(pair.kin) ELSE 0),
           past'.typed = past.typed, past'.taken = past.taken, past'.takenAt = Len(past.taken),
           past'.settled = (IF rd.origin = "writer" THEN SessionsOver ELSE past.settled)
    PROVE  TypedInv' /\ StaleInv'
<1>1. TypedInv'
  <2> DEFINE n == Typed
             tk == past.taken
             p == rd.pending
             kn == pair.kin
             h == rd.held
             t == ptyCount.targetward
             u == ptyCount.purged
             k == Len(kn)
             x == h + t + u
             u2 == ptyCount'.purged
  <2>1. /\ n \in Nat /\ tk \in Seq(Chunks) /\ p \in Nat /\ kn \in Seq(Chunks) /\ h \in Nat /\ t \in Nat
        /\ u \in Nat /\ Ledger(n, tk, p, kn, x)
    BY PtyFields, TypedNow
  <2>2. k \in Nat /\ (Purges => u2 = u + k) /\ (~Purges => u2 = u + 0)
    BY <2>1
  <2> HIDE DEF n, tk, p, kn, h, t, u, k, u2
  <2>3. x \in Nat /\ (Purges => x + k = h + t + u2) /\ (~Purges => x = h + t + u2)
    BY <2>1, <2>2
  <2> HIDE DEF x
  <2>4. Ledger(n, tk, p, <<>>, x + k)
    BY <2>1, <2>3, LedgerPurges DEF k
  <2>5. Ledger(n, tk, p, pair'.kin, h + t + u2)
    <3>1. CASE Purges
      BY <2>3, <2>4, <3>1
    <3>2. CASE ~Purges
      BY <2>1, <2>3, <3>2 DEF kn
    <3> QED BY <3>1, <3>2
  <2> QED BY <2>5 DEF TypedInv, Typed, n, tk, p, h, t, u2
<1>2. StaleInv'
  <2> DEFINE ss == client.session
             st == past.settled
             s2 == past'.settled
             kk == IF rd.may THEN <<>> ELSE pair'.kin
  <2>1. rd.pending = 0
    BY DEF PtyInv, ReaderInv, None
  <2>2. s2 <= ss /\ (client.open => s2 < ss)
    <3>1. ss \in Nat /\ st \in Nat /\ st <= ss /\ (client.open => st < ss)
      BY PtyFields DEF PtyInv, StaleInv
    <3>2. (client.open /\ s2 = ss - 1) \/ (~client.open /\ s2 = ss) \/ s2 = st
      BY DEF SessionsOver
    <3> HIDE DEF ss, st, s2
    <3> QED BY <3>1, <3>2
  <2>3. Later(past.typed, s2, 0, kk)
    <3>1. CASE rd.may \/ Purges
      <4>1. kk = <<>>
        BY <3>1
      <4>2. Later(past.typed, s2, 0, <<>>)
        BY DEF Later
      <4> QED BY <4>1, <4>2
    <3>2. CASE ~rd.may /\ ~Purges
      <4>1. edge.arb \in {"exclusive", "free"}
        BY DEF PtyInv, PtyTypes, EdgeState
      <4>2. rd.origin = "writer" /\ MayWrite(edge) => rd.may
        BY DEF PtyInv, ReaderInv
      <4>3. rd.origin # "writer"
        BY <3>2, <4>1, <4>2 DEF Purges, MayWrite
      <4>4. s2 = st /\ kk = pair.kin
        BY <3>2, <4>3
      <4>5. Later(past.typed, st, 0, pair.kin)
        BY <2>1, LaterNow
      <4> QED BY <4>4, <4>5
    <3> QED BY <3>1, <3>2
  <2>4. Len(past'.taken) \in Nat /\ past'.takenAt = Len(past'.taken)
    <3>1. past.taken \in Seq(Chunks)
      BY PtyFields
    <3> QED BY <3>1
  <2>5. past'.takenAt + 1 .. Len(past'.taken) = {}
    <3> DEFINE l == Len(past'.taken)
    <3>1. l \in Nat /\ past'.takenAt = l
      BY <2>4
    <3> HIDE DEF l
    <3>2. l + 1 .. l = {}
      BY <3>1
    <3> QED BY <3>1, <3>2 DEF l
  <2>6. Later(past'.typed, s2, rd'.pending, IF rd'.pc = "residual" /\ rd'.may THEN <<>> ELSE pair'.kin)
    BY <2>1, <2>3
  <2> HIDE DEF s2, kk, st, ss
  <2> QED BY <2>2, <2>5, <2>6 DEF StaleInv, s2, ss
<1> QED BY <1>1, <1>2

\* LastClose: what was not read is discarded and counted.
LEMMA LastCloseOutput ==
    ASSUME PtyInv, wr' = wr, pair'.kout = <<>>, past'.fed = past.fed, past'.read = past.read,
           ptyCount'.lastClose = ptyCount.lastClose + Len(pair.kout),
           ptyCount'.absent = ptyCount.absent, ptyCount'.full = ptyCount.full
    PROVE  OutputInv'
<1> DEFINE a == Len(wr.bridge)
           b == One(wr.chunk)
           c == Len(pair.kout)
           d == past.read
           e == ptyCount.lastClose
           f == ptyCount.absent
           g == ptyCount.full
           c2 == Len(pair'.kout)
           e2 == ptyCount'.lastClose
<1>1. Sent = a + b + c + (d + e + f + g) /\ d \in Nat /\ e \in Nat /\ g \in Nat /\ f \in Nat
  BY SentIs, PtyFields
<1>2. a \in Nat /\ b \in Nat /\ c \in Nat /\ c2 = 0 /\ e2 = e + c
  <2>1. wr.bridge \in Seq(Chunks) /\ pair.kout \in Seq(Nat)
    BY PtyFields
  <2> QED BY <2>1 DEF One
<1> HIDE DEF a, b, c, d, e, f, g, c2, e2
<1>3. Sent = a + b + c2 + (d + e2 + f + g)
  BY <1>1, <1>2
<1> QED BY <1>3 DEF OutputInv, Output, Sent, a, b, c2, d, e2, f, g

\* LastClose.
LEMMA LastCloseInv == ASSUME PtyInv, LastClose PROVE PtyInv'
<1> DEFINE e == <<>>
           k == IF Purges THEN e ELSE pair.kin
           ct == IF Purges THEN "none" ELSE Baseline
           l == ptyCount.lastClose + Len(pair.kout)
           m == IF Purges THEN Len(pair.kin) ELSE 0
           u == ptyCount.purged + m
           so == SessionsOver
           st == IF rd.origin = "writer" THEN so ELSE past.settled
           at == Len(past.taken)
           no == FALSE
           g == [edge EXCEPT !.holder = "none"]
<1>1. /\ rd.pc = "last" /\ UNCHANGED <<client, chan, wr>>
      /\ pair' = [kout |-> e, kin |-> k, ctl |-> ct]
      /\ ptyCount' = [[ptyCount EXCEPT !.lastClose = l] EXCEPT !.purged = u]
      /\ edge' = edge \/ edge' = g
      /\ rd' = [[rd EXCEPT !.pc = "residual"] EXCEPT !.saw = no]
      /\ past' = [[[past EXCEPT !.closed = so] EXCEPT !.settled = st] EXCEPT !.takenAt = at]
  BY DEF LastClose
<1>2. /\ edge \in EdgeState /\ (edge.kind # "writer" => edge.holder # "self")
      /\ rd \in ReaderState /\ ptyCount \in CountState /\ past \in PastState
  BY DEF PtyInv, PtyTypes
<1>3. e \in Seq(Nat) /\ k \in Seq(Chunks) /\ ct \in {"none", "client", Baseline} /\ no \in BOOLEAN
  BY PtyFields
<1>4. l \in Nat /\ u \in Nat
  <2>1. ptyCount.lastClose \in Nat /\ ptyCount.purged \in Nat /\ pair.kout \in Seq(Nat) /\ pair.kin \in Seq(Chunks)
    BY PtyFields
  <2>2. Len(pair.kout) \in Nat /\ m \in Nat
    BY <2>1
  <2> HIDE DEF m
  <2> QED BY <2>1, <2>2
<1>5. so \in Nat /\ st \in Nat /\ at \in Nat
  <2>1. past.taken \in Seq(Chunks) /\ past.settled \in Nat /\ client.session \in Nat
    BY PtyFields
  <2>2. client.open => past.settled < client.session
    BY DEF PtyInv, StaleInv
  <2>3. so \in Nat
    <3> DEFINE ss == client.session
               s == past.settled
    <3>1. ss \in Nat /\ s \in Nat /\ (client.open => s < ss) /\ so = (IF client.open THEN ss - 1 ELSE ss)
      BY <2>1, <2>2 DEF SessionsOver
    <3> HIDE DEF ss, s, so
    <3> QED BY <3>1
  <2>4. at \in Nat
    BY <2>1
  <2> QED BY <2>1, <2>3, <2>4
<1>6. /\ k = (IF Purges THEN <<>> ELSE pair.kin) /\ l = ptyCount.lastClose + Len(pair.kout)
      /\ u = ptyCount.purged + (IF Purges THEN Len(pair.kin) ELSE 0) /\ at = Len(past.taken)
      /\ st = (IF rd.origin = "writer" THEN SessionsOver ELSE past.settled) /\ e = <<>>
  OBVIOUS
<1> HIDE DEF e, k, ct, l, m, u, so, st, at, no
<1>7. pair' \in PairState /\ pair'.kin = k /\ pair'.kout = e /\ pair'.ctl = ct
  BY <1>1, <1>3 DEF PairState
<1>8. /\ ptyCount' \in CountState /\ ptyCount'.targetward = ptyCount.targetward
      /\ ptyCount'.purged = u /\ ptyCount'.lastClose = l
      /\ ptyCount'.absent = ptyCount.absent /\ ptyCount'.full = ptyCount.full
  BY <1>1, <1>2, <1>4 DEF CountState
<1>9. /\ rd' \in ReaderState /\ rd'.pc = "residual" /\ rd'.pending = rd.pending /\ rd'.held = rd.held
      /\ rd'.may = rd.may
  BY <1>1, <1>2, <1>3 DEF ReaderState
<1>10. /\ past' \in PastState /\ past'.typed = past.typed /\ past'.taken = past.taken
       /\ past'.fed = past.fed /\ past'.read = past.read /\ past'.settled = st /\ past'.takenAt = at
  BY <1>1, <1>2, <1>5 DEF PastState
<1>11. edge' \in EdgeState /\ (edge'.kind # "writer" => edge'.holder # "self")
  <2>1. g \in EdgeState /\ g.holder = "none"
    BY <1>2 DEF EdgeState
  <2> HIDE DEF g
  <2> QED BY <1>1, <1>2, <2>1
<1>12. PtyTypes'
  BY <1>1, <1>7, <1>8, <1>9, <1>10, <1>11 DEF PtyInv, PtyTypes
<1>13. TypedInv' /\ StaleInv'
  BY <1>1, <1>6, <1>7, <1>8, <1>9, <1>10, LastCloseTyped
<1>14. OutputInv'
  BY <1>1, <1>6, <1>7, <1>8, <1>10, LastCloseOutput
<1>15. ReaderInv'
  <2>1. rd.pending = 0
    BY <1>1 DEF PtyInv, ReaderInv, None
  <2> QED BY <1>9, <2>1 DEF ReaderInv, Between, None
<1> QED BY <1>12, <1>13, <1>14, <1>15 DEF PtyInv

\* Residual: what was put aside and what is still unread is counted.
LEMMA ResidualTyped ==
    ASSUME PtyInv, rd.pc = "residual", rd'.pc = "wait", rd'.pending = rd.pending, rd'.held = 0,
           client' = client, past' = past, NEW n \in Nat,
           n = rd.held + (IF rd.may THEN Len(pair.kin) ELSE 0),
           pair'.kin = (IF rd.may THEN <<>> ELSE pair.kin),
           \/ ptyCount'.targetward = ptyCount.targetward /\ ptyCount'.purged = ptyCount.purged + n
           \/ ptyCount'.targetward = ptyCount.targetward + n /\ ptyCount'.purged = ptyCount.purged
    PROVE  TypedInv' /\ StaleInv'
<1>1. TypedInv'
  <2> DEFINE nt == Typed
             tk == past.taken
             p == rd.pending
             kn == pair.kin
             h == rd.held
             t == ptyCount.targetward
             u == ptyCount.purged
             k == Len(kn)
             x == h + t + u
             t2 == ptyCount'.targetward
             u2 == ptyCount'.purged
             z == rd'.held
  <2>1. /\ nt \in Nat /\ tk \in Seq(Chunks) /\ p \in Nat /\ kn \in Seq(Chunks) /\ h \in Nat /\ t \in Nat
        /\ u \in Nat /\ Ledger(nt, tk, p, kn, x) /\ z = 0
    BY PtyFields, TypedNow
  <2>2. /\ k \in Nat /\ (rd.may => n = h + k) /\ (~rd.may => n = h + 0)
        /\ (t2 = t /\ u2 = u + n) \/ (t2 = t + n /\ u2 = u)
    BY <2>1, SMTT(40)
  <2> HIDE DEF nt, tk, p, kn, h, t, u, k, t2, u2, z
  <2>3. x \in Nat /\ (rd.may => x + k = z + t2 + u2) /\ (~rd.may => x = z + t2 + u2)
    <3>1. h \in Nat /\ t \in Nat /\ u \in Nat /\ k \in Nat /\ z = 0
      BY <2>1, <2>2
    <3>2. z + t2 + u2 = t + u + n
      <4>1. CASE t2 = t /\ u2 = u + n
        BY <3>1, <4>1
      <4>2. CASE t2 = t + n /\ u2 = u
        BY <3>1, <4>2
      <4> QED BY <2>2, <4>1, <4>2
    <3>3. CASE rd.may
      <4>1. n = h + k
        BY <2>2, <3>3
      <4> QED BY <3>1, <3>2, <3>3, <4>1
    <3>4. CASE ~rd.may
      <4>1. n = h + 0
        BY <2>2, <3>4
      <4> QED BY <3>1, <3>2, <3>4, <4>1
    <3> QED BY <3>3, <3>4
  <2> HIDE DEF x
  <2>4. Ledger(nt, tk, p, <<>>, x + k)
    BY <2>1, <2>3, LedgerPurges DEF k
  <2>5. Ledger(nt, tk, p, pair'.kin, z + t2 + u2)
    <3>1. CASE rd.may
      BY <2>3, <2>4, <3>1
    <3>2. CASE ~rd.may
      BY <2>1, <2>3, <3>2 DEF kn
    <3> QED BY <3>1, <3>2
  <2> QED BY <2>5 DEF TypedInv, Typed, nt, tk, p, t2, u2, z
<1>2. StaleInv'
  <2>1. Later(past.typed, past.settled, rd.pending, pair'.kin)
    BY DEF PtyInv, StaleInv
  <2> QED BY <2>1 DEF PtyInv, StaleInv
<1> QED BY <1>1, <1>2

\* Residual.
LEMMA ResidualInv == ASSUME PtyInv, Residual PROVE PtyInv'
<1> DEFINE n == rd.held + IF rd.may THEN Len(pair.kin) ELSE 0
           e == <<>>
           z == 0
           no == FALSE
           o == IF rd.pending = None THEN "none" ELSE rd.origin
           t2 == ptyCount.targetward + n
           u2 == ptyCount.purged + n
<1>1. /\ rd.pc = "residual" /\ UNCHANGED <<client, edge, chan, wr, past>>
      /\ ptyCount' = [ptyCount EXCEPT !.purged = u2] \/ ptyCount' = [ptyCount EXCEPT !.targetward = t2]
      /\ rd.may => pair' = [[pair EXCEPT !.kin = e] EXCEPT !.ctl = "none"]
      /\ ~rd.may => pair' = pair
      /\ rd' = [[[[[rd EXCEPT !.pc = "wait"] EXCEPT !.held = z] EXCEPT !.now = no]
                  EXCEPT !.closed = no] EXCEPT !.origin = o]
  BY DEF Residual, ReadsResidual
<1>2. /\ pair \in PairState /\ rd \in ReaderState /\ ptyCount \in CountState
      /\ no \in BOOLEAN /\ o \in {"none", "spy", "writer", "dead"} /\ z \in Nat /\ z = 0
      /\ e \in Seq(Chunks)
  BY DEF PtyInv, PtyTypes, ReaderState
<1>3. n \in Nat /\ t2 \in Nat /\ u2 \in Nat
  <2> DEFINE m == IF rd.may THEN Len(pair.kin) ELSE 0
  <2>1. pair.kin \in Seq(Chunks) /\ rd.held \in Nat /\ ptyCount.targetward \in Nat /\ ptyCount.purged \in Nat
    BY PtyFields
  <2>2. m \in Nat
    BY <2>1
  <2> HIDE DEF m
  <2>3. rd.held + m \in Nat
    BY <2>1, <2>2
  <2>4. n \in Nat
    BY <2>3 DEF m
  <2> HIDE DEF n
  <2> QED BY <2>1, <2>4
<1>4. n = rd.held + (IF rd.may THEN Len(pair.kin) ELSE 0)
  OBVIOUS
<1> HIDE DEF n, no, o, z
<1>5. t2 = ptyCount.targetward + n /\ u2 = ptyCount.purged + n /\ e = <<>>
  OBVIOUS
<1> HIDE DEF t2, u2, e
<1>6. /\ rd' \in ReaderState /\ rd'.pc = "wait" /\ rd'.pending = rd.pending /\ rd'.held = z
      /\ rd'.may = rd.may
  BY <1>1, <1>2 DEF ReaderState
<1>7. /\ pair' \in PairState /\ pair'.kin = (IF rd.may THEN e ELSE pair.kin) /\ pair'.kout = pair.kout
      /\ rd.may => pair'.ctl = "none"
  <2>1. CASE rd.may
    <3>1. pair' = [[pair EXCEPT !.kin = e] EXCEPT !.ctl = "none"]
      BY <1>1, <2>1
    <3>2. pair' \in PairState /\ pair'.kin = e /\ pair'.kout = pair.kout /\ pair'.ctl = "none"
      BY <1>2, <3>1 DEF PairState
    <3> QED BY <2>1, <3>2
  <2>2. CASE ~rd.may
    BY <1>1, <1>2, <2>2
  <2> QED BY <2>1, <2>2
<1>8. /\ ptyCount' \in CountState /\ ptyCount'.lastClose = ptyCount.lastClose
      /\ ptyCount'.absent = ptyCount.absent /\ ptyCount'.full = ptyCount.full
      /\ \/ ptyCount'.targetward = ptyCount.targetward /\ ptyCount'.purged = u2
         \/ ptyCount'.targetward = t2 /\ ptyCount'.purged = ptyCount.purged
  <2>1. CASE ptyCount' = [ptyCount EXCEPT !.purged = u2]
    BY <1>2, <1>3, <2>1 DEF CountState
  <2>2. CASE ptyCount' = [ptyCount EXCEPT !.targetward = t2]
    BY <1>2, <1>3, <2>2 DEF CountState
  <2> QED BY <1>1, <2>1, <2>2
<1>9. PtyTypes'
  BY <1>1, <1>6, <1>7, <1>8 DEF PtyInv, PtyTypes
<1>10. TypedInv' /\ StaleInv'
  <2>1. rd'.held = 0 /\ client' = client /\ past' = past
    BY <1>1, <1>2, <1>6
  <2> QED BY <1>1, <1>3, <1>4, <1>5, <1>6, <1>7, <1>8, <2>1, ResidualTyped
<1>11. OutputInv'
  BY <1>1, <1>7, <1>8, OutputFrame
<1>12. ReaderInv'
  <2>1. rd.pending = 0
    BY <1>1 DEF PtyInv, ReaderInv, None
  <2> QED BY <1>2, <1>6, <1>7, <2>1 DEF ReaderInv, Between, Baseline, None
<1> QED BY <1>9, <1>10, <1>11, <1>12 DEF PtyInv
-----------------------------------------------------------------------------
(* The theorems *)

\* Every step keeps the invariant.
LEMMA PtyStepInv == PtyInv /\ [PtyNext]_ptyVars => PtyInv'
<1> SUFFICES ASSUME PtyInv, [PtyNext]_ptyVars PROVE PtyInv'
  OBVIOUS
<1>1. CASE Open \/ Type \/ SetAttr \/ ReadOut \/ Close
  BY <1>1, OpenInv, TypeInv, SetAttrInv, ReadOutInv, CloseInv
<1>2. CASE Pass \/ Drain \/ Presence \/ LastClose \/ Residual \/ Reserve
  BY <1>2, PassInv, DrainInv, PresenceInv, LastCloseInv, ResidualInv, ReserveInv
<1>3. ASSUME NEW k \in {"spy", "writer"}, Connect(k) PROVE PtyInv'
  BY <1>3, ConnectInv
<1>4. ASSUME NEW g \in BOOLEAN, Disconnect(g) PROVE PtyInv'
  BY <1>4, DisconnectInv
<1>5. CASE LockSelf \/ LockOther \/ Unlock \/ Consume
  BY <1>5, LockSelfInv, LockOtherInv, ConsumeInv
<1>6. CASE Feed \/ WriterTakes \/ WriterWrites
  BY <1>6, FeedInv, WriterTakesInv, WriterWritesInv
<1>7. CASE UNCHANGED ptyVars
  BY <1>7 DEF ptyVars, PtyInv, PtyTypes, TypedInv, StaleInv, OutputInv, ReaderInv, Typed, Sent, Between, MayWrite
<1> QED BY <1>1, <1>2, <1>3, <1>4, <1>5, <1>6, <1>7 DEF PtyNext

\* The accounts of both directions, the reader's knowledge and the lateness of all
\* that may still be taken hold in every state of the node, for any number of
\* sessions, verbs and chunks and any depth of the channel and of the bridge.
THEOREM PtyInvariance == PtySpec => []PtyInv
<1>1. PtyInit => PtyInv
  BY PtyInitInv
<1>2. PtyInv /\ [PtyNext]_ptyVars => PtyInv'
  BY PtyStepInv
<1> QED BY <1>1, <1>2, PTL DEF PtySpec

\* Everything typed and everything sent is accounted for once, the endpoint takes
\* input in the order of typing, and the handler of the last close
\* (handle_last_close) leaves no packet behind that wakes the reader again.
THEOREM PtyAccount == PtySpec => []PtySound
<1>1. PtyInv => PtySound
  BY PtyInvSound
<1> QED BY <1>1, PtyInvariance, PTL

\* After the last close of a session was handled on a writing edge nothing that the
\* session typed is handed to the endpoint, whoever holds its lock by then.
THEOREM SettledInputNeverFires == PtySpec => []StaleInputNeverFires
<1>1. PtyInv => StaleInputNeverFires
  BY PtyInvSound
<1> QED BY <1>1, PtyInvariance, PTL
=============================================================================
