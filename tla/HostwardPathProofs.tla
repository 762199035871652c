------------------------- MODULE HostwardPathProofs -------------------------
(***************************************************************************)
(* Proofs about what an endpoint does with the bytes of its device: the    *)
(* account each consumer of the fan-out can trust, and the one each tap    *)
(* and each wait of the hub can.                                           *)
(***************************************************************************)
EXTENDS Hostward, TapHub, SequenceTheorems, FiniteSetTheorems, WellFoundedInduction,
        TLAPS
-----------------------------------------------------------------------------
(* The fan-out: the inductive invariant *)

ReaderState == [pc : {"idle", "checked", "sending"}, chunk : 0 .. HostChunks,
                at : Nat \ {0}, live : BOOLEAN]
EdgeState == [target : Endpoint \cup {NewEdge.target}, buf : Seq(Nat),
              tx : BOOLEAN, rx : BOOLEAN]

HostTypes ==
    /\ sinks \in Seq(Edge)
    /\ edge \in [Edge -> EdgeState]
    /\ edgeInbox \in [Endpoint -> Seq(Edge)]
    /\ serving \in [Endpoint -> Edge \cup {NoEdge}]
    /\ pumping \subseteq Endpoint
    /\ wired \in [Endpoint -> Edge \cup {NoEdge}]
    /\ reader \in ReaderState
    /\ full \in [Endpoint -> SUBSET Nat]
    /\ unattached \subseteq Nat /\ delivered \subseteq Nat
    /\ got \in [Endpoint -> Seq(Nat)]
    /\ due \in [Endpoint -> SUBSET Nat]

\* The limits of the queues.
HostLimits ==
    /\ \A e \in Edge : Len(edge[e].buf) <= EdgeDepth
    /\ \A t \in Endpoint : Len(edgeInbox[t]) <= EdgeInboxCap

\* A sink has a sender and is the configured edge of its target, and there are
\* no others; it has a receiver if its target has a pump.
SinksInv ==
    /\ \A i, j \in 1 .. Len(sinks) : sinks[i] = sinks[j] => i = j
    /\ \A i \in 1 .. Len(sinks) :
           LET e == sinks[i]
           IN  /\ edge[e].tx /\ edge[e].target \in Endpoint
               /\ wired[edge[e].target] = e
               /\ edge[e].rx <=> edge[e].target \in pumping
    /\ \A e \in Edge : edge[e].tx => \E i \in 1 .. Len(sinks) : sinks[i] = e
    /\ \A t \in Endpoint : wired[t] # NoEdge =>
           edge[wired[t]].tx /\ edge[wired[t]].target = t

\* Edge e is in the hands of t's pump.
InLine(t, e) == serving[t] = e \/ \E i \in 1 .. Len(edgeInbox[t]) : edgeInbox[t][i] = e

\* A pump has its own edges, once each, the configured one last; only what a
\* pump has can hold chunks.
LineInv ==
    /\ \A t \in Endpoint, e \in Edge : InLine(t, e) =>
           t \in pumping /\ edge[e].target = t /\ edge[e].rx
    /\ \A t \in Endpoint :
           /\ \A i, j \in 1 .. Len(edgeInbox[t]) : edgeInbox[t][i] = edgeInbox[t][j] => i = j
           /\ \A i \in 1 .. Len(edgeInbox[t]) :
                  /\ serving[t] # edgeInbox[t][i]
                  /\ edge[edgeInbox[t][i]].tx => i = Len(edgeInbox[t])
           /\ serving[t] # NoEdge /\ edge[serving[t]].tx => Len(edgeInbox[t]) = 0
    /\ \A e \in Edge : edge[e].rx =>
           edge[e].target \in Endpoint /\ InLine(edge[e].target, e)
    /\ \A e \in Edge : Len(edge[e].buf) # 0 => edge[e].rx

\* What the producer is about to do with its chunk.
ReaderInv ==
    LET c == reader.chunk
    IN  /\ reader.pc # "sending" => reader.at = 1 /\ ~reader.live
        /\ reader.pc # "idle" => c \notin unattached /\ c # 0
        /\ reader.pc # "idle" /\ ~reader.live =>
               c \notin delivered /\ \A t \in Endpoint : c \notin due[t]
        /\ reader.live => c \in delivered \/ \E t \in Endpoint : c \in full[t]
        /\ \A i \in 1 .. Len(sinks) :
               reader.pc = "sending" /\ i >= reader.at => c \notin due[edge[sinks[i]].target]

\* Nothing is counted before it is read, and what is nobody's is nobody's.
CountInv ==
    /\ \A x \in unattached \cup delivered : x \in 1 .. reader.chunk
    /\ \A t \in Endpoint : \A x \in due[t] : x \in 1 .. reader.chunk /\ x \notin unattached
    /\ \A t \in Endpoint : full[t] \subseteq due[t]
    /\ unattached \cap delivered = {}
    /\ \A x \in 1 .. reader.chunk :
           \/ x \in unattached \/ x \in delivered
           \/ \E t \in Endpoint : x \in full[t]
           \/ x = reader.chunk /\ reader.pc # "idle"

Buf(e) == ToSet(edge[e].buf)

Rising(s) == \A i, j \in 1 .. Len(s) : i < j => s[i] < s[j]
Before(S, T) == \A a \in S, b \in T : a < b

\* A consumer's chunks are in order along its line.
OrderInv ==
    /\ \A e \in Edge : Rising(edge[e].buf)
    /\ \A t \in Endpoint :
           /\ Rising(got[t])
           /\ \A e \in Edge : edge[e].target = t => Before(ToSet(got[t]), Buf(e))
           /\ \A i, j \in 1 .. Len(edgeInbox[t]) :
                  i < j => Before(Buf(edgeInbox[t][i]), Buf(edgeInbox[t][j]))
           /\ \A i \in 1 .. Len(edgeInbox[t]) :
                  serving[t] # NoEdge => Before(Buf(serving[t]), Buf(edgeInbox[t][i]))

\* Every chunk due to a consumer with a pump has one fate.
FateInv ==
    \A t \in pumping :
        /\ due[t] = ToSet(got[t]) \cup Waiting(t) \cup full[t]
        /\ full[t] \cap (ToSet(got[t]) \cup Waiting(t)) = {}

HostInv ==
    /\ HostTypes /\ HostLimits /\ SinksInv /\ LineInv
    /\ ReaderInv /\ CountInv /\ OrderInv /\ FateInv
-----------------------------------------------------------------------------
(* Sequences *)

\* Nothing is in an empty sequence.
LEMMA SetOfEmpty == ToSet(<<>>) = {}
BY DEF ToSet

\* The elements of a sequence, index by index.
LEMMA SetOf ==
    ASSUME NEW S, NEW q \in Seq(S)
    PROVE  /\ ToSet(q) \subseteq S /\ Len(q) \in Nat
           /\ \A x : x \in ToSet(q) <=> \E i \in 1 .. Len(q) : q[i] = x
           /\ Len(q) = 0 => ToSet(q) = {}
BY DEF ToSet

\* Appending adds one element.
LEMMA SetOfAppend ==
    ASSUME NEW S, NEW q \in Seq(S), NEW c \in S
    PROVE  /\ Append(q, c) \in Seq(S) /\ Len(Append(q, c)) = Len(q) + 1
           /\ ToSet(Append(q, c)) = ToSet(q) \cup {c}
           /\ \A i \in 1 .. Len(q) + 1 : Append(q, c)[i] = IF i = Len(q) + 1 THEN c ELSE q[i]
<1> DEFINE a == Append(q, c)
<1>1. /\ a \in Seq(S) /\ Len(a) = Len(q) + 1
      /\ \A i \in 1 .. Len(q) : a[i] = q[i]
      /\ a[Len(q) + 1] = c /\ Len(q) \in Nat
  BY AppendProperties
<1>2. DOMAIN q = 1 .. Len(q) /\ DOMAIN a = 1 .. Len(q) + 1
  BY <1>1
<1> HIDE DEF a
<1> QED BY <1>1, <1>2 DEF ToSet, a

\* A rising sequence goes on with anything larger than all it has.
LEMMA RisingAppend ==
    ASSUME NEW q \in Seq(Nat), NEW c \in Nat, Rising(q), \A x \in ToSet(q) : x < c
    PROVE  Rising(Append(q, c))
<1> DEFINE a == Append(q, c)
<1>1. /\ Len(a) = Len(q) + 1 /\ Len(q) \in Nat
      /\ \A i \in 1 .. Len(q) + 1 : a[i] = IF i = Len(q) + 1 THEN c ELSE q[i]
  BY SetOfAppend
<1>2. \A i \in 1 .. Len(q) : q[i] < c
  BY SetOf
<1> HIDE DEF a
<1>3. Rising(a)
  BY <1>1, <1>2 DEF Rising
<1> QED BY <1>3 DEF a

\* The head and the tail make up the sequence.
LEMMA SetOfTail ==
    ASSUME NEW S, NEW q \in Seq(S), Len(q) # 0
    PROVE  /\ Head(q) \in S /\ Head(q) = q[1] /\ Tail(q) \in Seq(S)
           /\ Len(Tail(q)) = Len(q) - 1 /\ Len(q) \in Nat \ {0}
           /\ \A i \in 1 .. Len(q) - 1 : Tail(q)[i] = q[i + 1]
           /\ ToSet(q) = {Head(q)} \cup ToSet(Tail(q))
<1> DEFINE t == Tail(q)
           h == Head(q)
<1>1. /\ h = q[1] /\ Len(q) \in Nat \ {0} /\ t \in Seq(S) /\ Len(t) = Len(q) - 1
      /\ \A i \in 1 .. Len(q) - 1 : t[i] = q[i + 1]
  BY HeadTailProperties, EmptySeq
<1>2. q[1] \in S
  BY <1>1
<1>3. /\ \A x : x \in ToSet(q) <=> \E i \in 1 .. Len(q) : q[i] = x
      /\ \A x : x \in ToSet(t) <=> \E i \in 1 .. Len(t) : t[i] = x
  BY <1>1, SetOf
<1> HIDE DEF t, h
<1>4. ASSUME NEW x \in ToSet(q) PROVE x \in {h} \cup ToSet(t)
  <2>1. PICK i \in 1 .. Len(q) : q[i] = x
    BY <1>3
  <2>2. CASE i = 1
    BY <2>1, <2>2, <1>1
  <2>3. CASE i # 1
    <3>1. i - 1 \in 1 .. Len(t) /\ t[i - 1] = x
      BY <2>1, <2>3, <1>1
    <3> QED BY <3>1, <1>3
  <2> QED BY <2>2, <2>3
<1>5. ASSUME NEW x \in ToSet(t) PROVE x \in ToSet(q)
  <2>1. PICK i \in 1 .. Len(t) : t[i] = x
    BY <1>3
  <2>2. i + 1 \in 1 .. Len(q) /\ q[i + 1] = x
    BY <2>1, <1>1
  <2> QED BY <2>2, <1>3
<1>6. h \in ToSet(q)
  BY <1>1, <1>3
<1> QED BY <1>1, <1>2, <1>4, <1>5, <1>6 DEF t, h

\* Of a rising sequence the head is least.
LEMMA RisingTail ==
    ASSUME NEW q \in Seq(Nat), Len(q) # 0, Rising(q)
    PROVE  Rising(Tail(q)) /\ Before({Head(q)}, ToSet(Tail(q)))
<1> DEFINE t == Tail(q)
           h == Head(q)
<1>1. /\ h = q[1] /\ t \in Seq(Nat) /\ Len(t) = Len(q) - 1 /\ Len(q) \in Nat \ {0}
      /\ \A i \in 1 .. Len(q) - 1 : t[i] = q[i + 1]
  BY SetOfTail
<1>2. \A x : x \in ToSet(t) <=> \E i \in 1 .. Len(t) : t[i] = x
  BY <1>1, SetOf
<1> HIDE DEF t, h
<1>3. \A i, j \in 1 .. Len(q) : i < j => q[i] < q[j]
  BY DEF Rising
<1>4. ASSUME NEW i \in 1 .. Len(t)
      PROVE  i + 1 \in 1 .. Len(q) /\ t[i] = q[i + 1] /\ 1 < i + 1
  <2>1. i \in 1 .. Len(q) - 1
    BY <1>1
  <2> QED BY <1>1, <2>1
<1>5. ASSUME NEW i \in 1 .. Len(t), NEW j \in 1 .. Len(t), i < j PROVE t[i] < t[j]
  <2>1. i + 1 < j + 1
    BY <1>1, <1>5
  <2> QED BY <1>3, <1>4, <2>1
<1>6. Rising(t)
  BY <1>5 DEF Rising
<1>7. \A i \in 1 .. Len(t) : h < t[i]
  <2>1. 1 \in 1 .. Len(q)
    BY <1>1
  <2> QED BY <1>1, <1>3, <1>4, <2>1
<1> QED BY <1>2, <1>6, <1>7 DEF Before, t, h

\* Removing an element of a sequence, index by index.
LEMMA SetOfRemoveAt ==
    ASSUME NEW S, NEW s \in Seq(S), NEW i \in 1 .. Len(s)
    PROVE  /\ RemoveAt(s, i) \in Seq(S)
           /\ Len(RemoveAt(s, i)) = Len(s) - 1
           /\ \A k \in 1 .. Len(s) - 1 :
                  RemoveAt(s, i)[k] = IF k < i THEN s[k] ELSE s[k + 1]
<1>1. Len(s) \in Nat /\ i \in Nat
  OBVIOUS
<1> DEFINE u == SubSeq(s, 1, i - 1)
           v == SubSeq(s, i + 1, Len(s))
<1>2. u \in Seq(S) /\ Len(u) = i - 1 /\ \A k \in 1 .. i - 1 : u[k] = s[k]
  BY <1>1
<1>3. v \in Seq(S) /\ Len(v) = Len(s) - i /\ \A k \in 1 .. Len(s) - i : v[k] = s[k + i]
  BY <1>1
<1>4. RemoveAt(s, i) = u \o v
  BY DEF RemoveAt
<1> HIDE DEF u, v
<1>5. /\ u \o v \in Seq(S) /\ Len(u \o v) = Len(u) + Len(v)
      /\ \A k \in 1 .. Len(u) + Len(v) :
             (u \o v)[k] = IF k <= Len(u) THEN u[k] ELSE v[k - Len(u)]
  BY <1>2, <1>3, ConcatProperties, Zenon
<1>6. Len(u) + Len(v) = Len(s) - 1
  BY <1>1, <1>2, <1>3
<1> DEFINE w == u \o v
<1> HIDE DEF w
<1>7. \A k \in 1 .. Len(s) - 1 : w[k] = IF k < i THEN s[k] ELSE s[k + 1]
  BY <1>1, <1>2, <1>3, <1>5, <1>6 DEF w
<1> QED BY <1>4, <1>5, <1>6, <1>7 DEF w
-----------------------------------------------------------------------------
(* The fan-out: the initial state and the producer *)

\* A behaviour begins with nothing connected and nothing read.
LEMMA HostInitInv ==
    ASSUME HostInit
    PROVE  HostInv
<1> USE HostwardAssumption
<1>1. \A S : <<>> \in Seq(S) /\ Len(<<>>) = 0
  BY EmptySeq
<1>2. NewEdge \in EdgeState /\ NewEdge.buf = <<>> /\ ~NewEdge.tx /\ ~NewEdge.rx
  BY <1>1 DEF NewEdge, EdgeState
<1>3. HostTypes
  BY <1>1, <1>2 DEF HostInit, HostTypes, ReaderState, Idle
<1>4. \A e \in Edge : edge[e] = NewEdge
  BY DEF HostInit
<1>5. HostLimits
  BY <1>1, <1>2, <1>4 DEF HostInit, HostLimits
<1>6. SinksInv
  BY <1>1, <1>2, <1>4 DEF HostInit, SinksInv
<1>7. LineInv
  BY <1>1, <1>2, <1>4 DEF HostInit, LineInv, InLine, Edge, NoEdge
<1>8. ReaderInv /\ CountInv
  BY <1>1 DEF HostInit, ReaderInv, CountInv, Idle
<1>9. OrderInv
  BY <1>1, <1>2, <1>4 DEF HostInit, OrderInv, Rising, Before, Buf, ToSet
<1>10. FateInv
  BY <1>1, <1>2, <1>4, SetOfEmpty DEF HostInit, FateInv, Waiting
<1> QED BY <1>3, <1>5, <1>6, <1>7, <1>8, <1>9, <1>10 DEF HostInv

\* What the edges, the lines and the chunks in them are worth by themselves.
LEMMA EdgesFrame ==
    ASSUME HostInv, UNCHANGED <<edges, full, got, due>>
    PROVE  HostLimits' /\ SinksInv' /\ LineInv' /\ OrderInv' /\ FateInv'
<1> USE DEF HostInv, edges
<1>1. HostLimits' /\ SinksInv'
  BY DEF HostLimits, SinksInv
<1>2. LineInv'
  BY DEF LineInv, InLine
<1>3. OrderInv'
  BY DEF OrderInv, Buf
<1>4. FateInv'
  BY DEF FateInv, Waiting
<1> QED BY <1>1, <1>2, <1>3, <1>4

\* The producer reads a chunk.
LEMMA ReadChunkInv ==
    ASSUME HostInv, NEW w \in BOOLEAN, ReadChunk(w)
    PROVE  HostInv'
<1> USE HostwardAssumption
<1> DEFINE c == reader.chunk + 1
<1>1. HostTypes /\ SinksInv /\ ReaderInv /\ CountInv
  BY DEF HostInv
<1>2. /\ reader.pc = "idle" /\ reader.chunk \in 0 .. HostChunks /\ c \in 1 .. HostChunks
      /\ UNCHANGED <<edges, full, delivered, got, due>>
  BY <1>1 DEF ReadChunk, HostTypes, ReaderState
<1>3. HostLimits' /\ SinksInv' /\ LineInv' /\ OrderInv' /\ FateInv'
  BY <1>2, EdgesFrame
<1>4. c \notin unattached /\ c \notin delivered /\ \A t \in Endpoint : c \notin due[t]
  BY <1>1, <1>2 DEF CountInv
<1>5. /\ reader' \in ReaderState
      /\ reader'.chunk = c /\ reader'.at = 1 /\ ~reader'.live
      /\ \/ reader'.pc = "idle" /\ unattached' = unattached \cup {c}
         \/ reader'.pc = "checked" /\ unattached' = unattached
  <2> DEFINE no == FALSE
             r(p) == [pc |-> p, chunk |-> c, at |-> 1, live |-> no]
  <2>1. \/ reader' = r("idle") /\ unattached' = unattached \cup {c}
        \/ reader' = r("checked") /\ unattached' = unattached
    BY <1>2 DEF ReadChunk, Idle
  <2>2. ~no /\ no \in BOOLEAN
    OBVIOUS
  <2> HIDE DEF no
  <2> QED BY <1>2, <2>1, <2>2 DEF ReaderState
<1>6. HostTypes'
  <2>1. unattached \subseteq Nat /\ c \in Nat
    BY <1>1, <1>2 DEF HostTypes
  <2>2. unattached' = unattached \/ unattached' = unattached \cup {c}
    BY <1>5
  <2> HIDE DEF c
  <2>3. unattached' \subseteq Nat
    BY <2>1, <2>2
  <2> QED BY <1>1, <1>2, <1>5, <2>3 DEF HostTypes, edges
<1>7. ReaderInv'
  BY <1>1, <1>2, <1>4, <1>5 DEF ReaderInv
<1>8. CountInv'
  <2>1. \A x : x \in 1 .. c <=> x \in 1 .. reader.chunk \/ x = c
    BY <1>2
  <2> QED BY <1>1, <1>2, <1>4, <1>5, <2>1 DEF CountInv
<1> QED BY <1>3, <1>6, <1>7, <1>8 DEF HostInv

\* It takes the list's mutex.
LEMMA BeginBroadcastInv ==
    ASSUME HostInv, BeginBroadcast
    PROVE  HostInv'
<1>1. HostTypes /\ SinksInv /\ ReaderInv /\ CountInv
  BY DEF HostInv
<1>2. reader.pc = "checked" /\ UNCHANGED <<edges, full, unattached, delivered, got, due>>
  BY DEF BeginBroadcast, charges
<1>3. HostLimits' /\ SinksInv' /\ LineInv' /\ OrderInv' /\ FateInv'
  BY <1>2, EdgesFrame
<1>4. /\ reader' \in ReaderState
      /\ reader'.pc = "sending" /\ reader'.chunk = reader.chunk
      /\ reader'.at = reader.at /\ reader'.live = reader.live
  BY <1>1 DEF BeginBroadcast, HostTypes, ReaderState
<1>5. HostTypes'
  BY <1>1, <1>2, <1>4 DEF HostTypes, edges
<1>6. ReaderInv'
  BY <1>1, <1>2, <1>4 DEF ReaderInv, SinksInv, edges
<1>7. CountInv'
  BY <1>1, <1>2, <1>4 DEF CountInv
<1> QED BY <1>3, <1>5, <1>6, <1>7 DEF HostInv

\* The end of the broadcast: a chunk that no live sink saw is the producer's loss.
LEMMA EndBroadcastInv ==
    ASSUME HostInv, EndBroadcast
    PROVE  HostInv'
<1>1. HostTypes /\ SinksInv /\ ReaderInv /\ CountInv
  BY DEF HostInv
<1>2. /\ reader.pc = "sending" /\ UNCHANGED <<edges, full, delivered, got, due>>
      /\ unattached' = IF reader.live THEN unattached ELSE unattached \cup {reader.chunk}
  BY DEF EndBroadcast
<1>3. HostLimits' /\ SinksInv' /\ LineInv' /\ OrderInv' /\ FateInv'
  BY <1>2, EdgesFrame
<1>4. /\ reader' \in ReaderState
      /\ reader'.pc = "idle" /\ reader'.chunk = reader.chunk
      /\ reader'.at = 1 /\ ~reader'.live /\ reader.chunk \in 0 .. HostChunks
  <2> DEFINE no == FALSE
  <2>1. reader' = [pc |-> "idle", chunk |-> reader.chunk, at |-> 1, live |-> no]
    BY DEF EndBroadcast, Idle
  <2>2. ~no /\ no \in BOOLEAN
    OBVIOUS
  <2> HIDE DEF no
  <2> QED BY <1>1, <2>1, <2>2 DEF HostTypes, ReaderState
<1>5. HostTypes'
  <2>1. unattached \subseteq Nat /\ reader.chunk \in Nat
    BY <1>1, <1>4, HostwardAssumption DEF HostTypes
  <2>2. unattached' = unattached \/ unattached' = unattached \cup {reader.chunk}
    BY <1>2
  <2>3. unattached' \subseteq Nat
    BY <2>1, <2>2
  <2> QED BY <1>1, <1>2, <1>4, <2>3 DEF HostTypes, edges
<1>6. ReaderInv'
  BY <1>1, <1>2, <1>4 DEF ReaderInv
<1>7. CountInv'
  <2>1. reader.chunk \in 1 .. reader.chunk
    BY <1>1, <1>2, <1>4, HostwardAssumption DEF ReaderInv
  <2> QED BY <1>1, <1>2, <1>4, <2>1 DEF CountInv, ReaderInv
<1> QED BY <1>3, <1>5, <1>6, <1>7 DEF HostInv

\* What waits for t, chunk by chunk.
LEMMA WaitingOf ==
    ASSUME NEW t
    PROVE  \A x : x \in Waiting(t) <=> \E e \in Edge : edge[e].target = t /\ x \in Buf(e)
BY DEF Waiting, Buf

\* Edges keep their ends: what the sinks and the lines are worth stays.
LEMMA EndsFrame ==
    ASSUME HostInv, UNCHANGED <<sinks, edgeInbox, serving, pumping, wired>>,
           \A f \in Edge : /\ edge'[f].target = edge[f].target
                           /\ edge'[f].tx = edge[f].tx /\ edge'[f].rx = edge[f].rx
                           /\ Len(edge'[f].buf) # 0 => edge[f].rx
    PROVE  SinksInv' /\ LineInv'
<1>1. SinksInv /\ LineInv /\ sinks \in Seq(Edge) /\ wired \in [Endpoint -> Edge \cup {NoEdge}]
      /\ edgeInbox \in [Endpoint -> Seq(Edge)] /\ serving \in [Endpoint -> Edge \cup {NoEdge}]
  BY DEF HostInv, HostTypes
<1>2. \A i \in 1 .. Len(sinks) : sinks[i] \in Edge
  BY <1>1
<1>3. \A t \in Endpoint : \A i \in 1 .. Len(edgeInbox[t]) : edgeInbox[t][i] \in Edge
  BY <1>1
<1>4. \A t \in Endpoint : wired[t] # NoEdge => wired[t] \in Edge
  BY <1>1
<1>5. \A t \in Endpoint : serving[t] # NoEdge => serving[t] \in Edge
  BY <1>1
<1>6. SinksInv'
  <2>1. /\ \A i, j \in 1 .. Len(sinks) : sinks[i] = sinks[j] => i = j
        /\ \A i \in 1 .. Len(sinks) :
               /\ edge[sinks[i]].tx /\ edge[sinks[i]].target \in Endpoint
               /\ wired[edge[sinks[i]].target] = sinks[i]
               /\ edge[sinks[i]].rx <=> edge[sinks[i]].target \in pumping
    BY <1>1 DEF SinksInv
  <2>2. /\ \A e \in Edge : edge'[e].tx => \E i \in 1 .. Len(sinks) : sinks[i] = e
        /\ \A t \in Endpoint : wired[t] # NoEdge =>
               edge'[wired[t]].tx /\ edge'[wired[t]].target = t
    BY <1>1, <1>4 DEF SinksInv
  <2>3. \A i \in 1 .. Len(sinks) :
               /\ edge'[sinks[i]].tx /\ edge'[sinks[i]].target \in Endpoint
               /\ wired[edge'[sinks[i]].target] = sinks[i]
               /\ edge'[sinks[i]].rx <=> edge'[sinks[i]].target \in pumping
    BY <1>2, <2>1
  <2> QED BY <2>1, <2>2, <2>3 DEF SinksInv
<1>7. \A t, e : InLine(t, e)' <=> InLine(t, e)
  BY DEF InLine
<1>8. LineInv'
  <2>1. \A t \in Endpoint, e \in Edge : InLine(t, e)' =>
            t \in pumping' /\ edge'[e].target = t /\ edge'[e].rx
    BY <1>1, <1>7, SMTT(40) DEF LineInv
  <2>2. \A t \in Endpoint :
           /\ \A i, j \in 1 .. Len(edgeInbox'[t]) : edgeInbox'[t][i] = edgeInbox'[t][j] => i = j
           /\ \A i \in 1 .. Len(edgeInbox'[t]) :
                  /\ serving'[t] # edgeInbox'[t][i]
                  /\ edge'[edgeInbox'[t][i]].tx => i = Len(edgeInbox'[t])
           /\ serving'[t] # NoEdge /\ edge'[serving'[t]].tx => Len(edgeInbox'[t]) = 0
    BY <1>1, <1>3, <1>5 DEF LineInv
  <2>3. \A e \in Edge : edge'[e].rx =>
            edge'[e].target \in Endpoint /\ InLine(edge[e].target, e)'
    <3>1. ASSUME NEW e \in Edge, edge'[e].rx
          PROVE  edge'[e].target \in Endpoint /\ InLine(edge[e].target, e)'
      <4>1. edge[e].target \in Endpoint /\ InLine(edge[e].target, e)
            /\ edge'[e].target = edge[e].target
        BY <1>1, <3>1 DEF LineInv
      <4> QED BY <4>1 DEF InLine
    <3> QED BY <3>1
  <2>4. \A e \in Edge : Len(edge'[e].buf) # 0 => edge'[e].rx
    OBVIOUS
  <2> QED BY <2>1, <2>2, <2>3, <2>4 DEF LineInv
<1> QED BY <1>6, <1>8

\* One try_send of the broadcast.
LEMMA SendNextInv ==
    ASSUME HostInv, SendNext
    PROVE  HostInv'
<1> DEFINE e == sinks[reader.at]
           t == edge[e].target
           c == reader.chunk
<1>1. HostTypes /\ HostLimits /\ SinksInv /\ LineInv /\ ReaderInv /\ CountInv /\ OrderInv /\ FateInv
  BY DEF HostInv
<1>2. /\ reader.pc = "sending" /\ reader.at \in 1 .. Len(sinks)
      /\ UNCHANGED <<sinks, edgeInbox, serving, pumping, wired, unattached, got>>
      /\ reader \in ReaderState /\ c \in Nat /\ Len(sinks) \in Nat
  BY <1>1, HostwardAssumption DEF SendNext, HostTypes, ReaderState
<1>3. /\ e \in Edge /\ edge[e] \in EdgeState /\ edge[e].tx /\ t \in Endpoint
      /\ wired[t] = e /\ (edge[e].rx <=> t \in pumping)
  BY <1>1, <1>2 DEF SinksInv, HostTypes
<1>4. c \notin due[t] /\ c # 0 /\ c \notin unattached /\ c \in 1 .. c /\ c \notin full[t]
  <2>1. c \notin due[t] /\ c # 0 /\ c \notin unattached
    BY <1>1, <1>2 DEF ReaderInv
  <2> QED BY <2>1, <1>1, <1>2, <1>3 DEF CountInv
<1>5. /\ edge' = IF Accepts(e) THEN [edge EXCEPT ![e].buf = Append(@, c)] ELSE edge
      /\ full' = IF edge[e].rx /\ ~Accepts(e) THEN [full EXCEPT ![t] = @ \cup {c}] ELSE full
      /\ delivered' = IF Accepts(e) THEN delivered \cup {c} ELSE delivered
      /\ due' = IF edge[e].rx THEN [due EXCEPT ![t] = @ \cup {c}] ELSE due
      /\ reader' = [reader EXCEPT !.at = @ + 1, !.live = @ \/ edge[e].rx]
  BY DEF SendNext, TrySend
<1> HIDE DEF t, c, e
<1>6. /\ reader' \in ReaderState /\ reader'.pc = "sending" /\ reader'.chunk = c
      /\ reader'.at = reader.at + 1 /\ (reader'.live <=> reader.live \/ edge[e].rx)
  <2> DEFINE b == reader.live \/ edge[e].rx
  <2>1. reader' = [reader EXCEPT !.at = @ + 1, !.live = b]
    BY <1>5
  <2>2. b \in BOOLEAN /\ (b <=> reader.live \/ edge[e].rx)
    BY <1>2, <1>3 DEF ReaderState, EdgeState
  <2> HIDE DEF b
  <2>3. reader.at + 1 \in Nat \ {0}
    BY <1>2 DEF ReaderState
  <2>4. /\ reader'.pc = reader.pc /\ reader'.chunk = reader.chunk
        /\ reader'.at = reader.at + 1 /\ reader'.live = b
    BY <1>2, <2>1 DEF ReaderState
  <2>5. reader' \in ReaderState
    BY <1>2, <2>1, <2>2, <2>3 DEF ReaderState
  <2> QED BY <1>2, <2>2, <2>4, <2>5 DEF c
<1>7. CASE ~edge[e].rx
  <2>1. UNCHANGED <<edges, full, delivered, due>>
    BY <1>2, <1>5, <1>7 DEF Accepts, edges
  <2>2. HostLimits' /\ SinksInv' /\ LineInv' /\ OrderInv' /\ FateInv'
    BY <1>2, <2>1, EdgesFrame
  <2>3. HostTypes'
    BY <1>1, <1>2, <1>6, <2>1 DEF HostTypes, edges
  <2>4. reader'.live <=> reader.live
    BY <1>6, <1>7
  <2>5. ReaderInv'
    BY <1>1, <1>2, <1>6, <2>1, <2>4 DEF ReaderInv, edges, ReaderState, c
  <2>6. CountInv'
    BY <1>1, <1>2, <1>6, <2>1 DEF CountInv, c
  <2> QED BY <2>2, <2>3, <2>5, <2>6 DEF HostInv
<1>8. CASE edge[e].rx
  <2>1. /\ t \in pumping /\ InLine(t, e)
        /\ due' = [due EXCEPT ![t] = @ \cup {c}]
    BY <1>1, <1>3, <1>5, <1>8 DEF LineInv, t
  <2>2. /\ due' \in [Endpoint -> SUBSET Nat] /\ due'[t] = due[t] \cup {c}
        /\ \A s \in Endpoint : s # t => due'[s] = due[s]
        /\ \A s \in Endpoint : due[s] \subseteq due'[s]
    BY <1>1, <1>2, <1>3, <2>1 DEF HostTypes
  <2>3. /\ due[t] = ToSet(got[t]) \cup Waiting(t) \cup full[t]
        /\ \A x \in due[t] : x < c
    <3>1. \A x \in due[t] : x \in 1 .. c /\ x # c
      BY <1>1, <1>3, <1>4 DEF CountInv, c
    <3> QED BY <1>1, <1>2, <2>1, <3>1 DEF FateInv
  <2>4. \A i \in 1 .. Len(sinks) : i > reader.at => edge[sinks[i]].target # t
    <3> SUFFICES ASSUME NEW i \in 1 .. Len(sinks), i > reader.at, edge[sinks[i]].target = t
                 PROVE  FALSE
      OBVIOUS
    <3>1. sinks[i] = e
      BY <1>1, <1>3 DEF SinksInv
    <3> QED BY <1>1, <1>2, <3>1 DEF SinksInv, e
  <2>5. reader'.live
    BY <1>6, <1>8
  <2>6. ASSUME /\ \A f \in Edge : edge'[f].target = edge[f].target
               /\ c \in delivered' \/ c \in full'[t]
               /\ delivered \subseteq delivered' /\ delivered' \subseteq delivered \cup {c}
               /\ full' \in [Endpoint -> SUBSET Nat]
               /\ \A s \in Endpoint : full[s] \subseteq full'[s] /\ full'[s] \subseteq full[s] \cup {c}
               /\ \A s \in Endpoint : s # t => full'[s] = full[s]
        PROVE  ReaderInv' /\ CountInv'
    <3>1. ReaderInv'
      <4>1. \A i \in 1 .. Len(sinks) : sinks[i] \in Edge /\ edge'[sinks[i]].target = edge[sinks[i]].target
                                         /\ edge[sinks[i]].target \in Endpoint
        <5>1. \A i \in 1 .. Len(sinks) : sinks[i] \in Edge
          BY <1>1 DEF HostTypes
        <5>2. \A i \in 1 .. Len(sinks) : edge[sinks[i]].target \in Endpoint
          BY <1>1 DEF SinksInv
        <5> QED BY <2>6, <5>1, <5>2
      <4>2. ASSUME NEW i \in 1 .. Len(sinks), i >= reader.at + 1
            PROVE  c \notin due'[edge'[sinks[i]].target]
        <5>1. i > reader.at /\ i >= reader.at
          BY <4>2, <1>2
        <5>2. c \notin due[edge[sinks[i]].target]
          BY <1>1, <1>2, <5>1 DEF ReaderInv, c
        <5> QED BY <2>2, <2>4, <4>1, <5>1, <5>2
      <4> QED BY <1>1, <1>2, <1>3, <1>4, <1>6, <2>5, <2>6, <4>2 DEF ReaderInv
    <3>2. CountInv'
      <4>1. \A x \in unattached \cup delivered' : x \in 1 .. c
        BY <1>1, <1>4, <2>6 DEF CountInv, c
      <4>2. \A s \in Endpoint : \A x \in due'[s] : x \in 1 .. c /\ x \notin unattached
        BY <1>1, <1>4, <2>2 DEF CountInv, c
      <4>3. \A s \in Endpoint : full'[s] \subseteq due'[s]
        BY <1>1, <1>3, <2>2, <2>6 DEF CountInv
      <4>4. unattached \cap delivered' = {}
        BY <1>1, <1>4, <2>6 DEF CountInv
      <4>5. \A x \in 1 .. c :
               \/ x \in unattached \/ x \in delivered'
               \/ \E s \in Endpoint : x \in full'[s]
               \/ x = c
        BY <1>1, <2>6 DEF CountInv, c
      <4> QED BY <1>2, <1>6, <4>1, <4>2, <4>3, <4>4, <4>5 DEF CountInv
    <3> QED BY <3>1, <3>2
  <2>7. CASE ~Accepts(e)
    <3>1. /\ edge' = edge /\ delivered' = delivered
          /\ full' = [full EXCEPT ![t] = @ \cup {c}]
      BY <1>5, <1>8, <2>7
    <3>2. /\ full' \in [Endpoint -> SUBSET Nat] /\ full'[t] = full[t] \cup {c}
          /\ \A s \in Endpoint : s # t => full'[s] = full[s]
      BY <1>1, <1>2, <1>3, <3>1 DEF HostTypes
    <3>3. ReaderInv' /\ CountInv'
      <4>1. \A s \in Endpoint : full[s] \subseteq full'[s] /\ full'[s] \subseteq full[s] \cup {c}
        BY <3>2
      <4>2. c \in full'[t]
        BY <3>2
      <4> QED BY <2>6, <3>1, <3>2, <4>1, <4>2
    <3>4. HostTypes'
      BY <1>1, <1>2, <1>6, <2>2, <3>1, <3>2 DEF HostTypes
    <3>5. HostLimits' /\ OrderInv' /\ SinksInv' /\ LineInv'
      <4>1. HostLimits' /\ SinksInv'
        BY <1>1, <1>2, <3>1 DEF HostLimits, SinksInv
      <4>2. OrderInv'
        BY <1>1, <1>2, <3>1 DEF OrderInv, Buf
      <4>3. LineInv'
        BY <1>1, <1>2, <3>1 DEF LineInv, InLine
      <4> QED BY <4>1, <4>2, <4>3
    <3>6. FateInv'
      <4>1. \A s : Waiting(s)' = Waiting(s)
        BY <3>1 DEF Waiting
      <4>2. ASSUME NEW s \in pumping
            PROVE  /\ due'[s] = ToSet(got[s]) \cup Waiting(s) \cup full'[s]
                   /\ full'[s] \cap (ToSet(got[s]) \cup Waiting(s)) = {}
        <5>1. s \in Endpoint
          BY <1>1 DEF HostTypes
        <5>2. CASE s # t
          BY <1>1, <2>2, <3>2, <5>1, <5>2 DEF FateInv
        <5>3. CASE s = t
          <6>1. c \notin ToSet(got[t]) \cup Waiting(t)
            BY <1>4, <2>3
          <6>2. full[t] \cap (ToSet(got[t]) \cup Waiting(t)) = {}
            BY <1>1, <2>1 DEF FateInv
          <6> QED BY <2>2, <2>3, <3>2, <5>3, <6>1, <6>2
        <5> QED BY <5>2, <5>3
      <4> QED BY <1>2, <4>1, <4>2 DEF FateInv
    <3> QED BY <3>3, <3>4, <3>5, <3>6 DEF HostInv
  <2>8. CASE Accepts(e)
    <3> DEFINE b == Append(edge[e].buf, c)
    <3>1. /\ edge' = [edge EXCEPT ![e].buf = b] /\ delivered' = delivered \cup {c}
          /\ full' = full /\ Len(edge[e].buf) < EdgeDepth
      BY <1>5, <2>8 DEF Accepts
    <3>2. /\ edge[e].buf \in Seq(Nat) /\ b \in Seq(Nat) /\ Len(b) = Len(edge[e].buf) + 1
          /\ ToSet(b) = Buf(e) \cup {c} /\ Len(edge[e].buf) \in Nat
      BY <1>2, <1>3, SetOfAppend, SMTT(40) DEF EdgeState, Buf
    <3> HIDE DEF b
    <3>3. /\ edge' \in [Edge -> EdgeState] /\ edge'[e] = [edge[e] EXCEPT !.buf = b]
          /\ \A f \in Edge : f # e => edge'[f] = edge[f]
      BY <1>1, <1>3, <3>1, <3>2 DEF HostTypes, EdgeState
    <3>4. \A f \in Edge : /\ edge'[f].target = edge[f].target
                          /\ edge'[f].tx = edge[f].tx /\ edge'[f].rx = edge[f].rx
                          /\ edge'[f].buf = IF f = e THEN b ELSE edge[f].buf
      BY <1>3, <3>3 DEF EdgeState
    <3>5. HostTypes'
      BY <1>1, <1>2, <1>6, <2>2, <3>1, <3>3 DEF HostTypes
    <3>6. HostLimits'
      BY <1>1, <1>2, <3>1, <3>2, <3>4, HostwardAssumption DEF HostLimits
    <3>7. SinksInv' /\ LineInv'
      <4>1. \A f \in Edge : Len(edge'[f].buf) # 0 => edge[f].rx
        BY <1>1, <1>8, <3>4 DEF LineInv
      <4> QED BY <1>2, <3>4, <4>1, EndsFrame
    <3>8. ReaderInv' /\ CountInv'
      <4>1. /\ c \in delivered' /\ delivered \subseteq delivered' /\ delivered' \subseteq delivered \cup {c}
            /\ full' \in [Endpoint -> SUBSET Nat]
        BY <1>1, <3>1 DEF HostTypes
      <4> QED BY <2>6, <3>1, <3>4, <4>1
    <3>9. \A f \in Edge : Buf(f)' = IF f = e THEN Buf(e) \cup {c} ELSE Buf(f)
      BY <3>2, <3>4 DEF Buf
    <3>10. \A f \in Edge : edge[f].target = t => \A x \in Buf(f) : x < c
      BY <2>3, WaitingOf
    <3>11. OrderInv'
      <4>1. \A f \in Edge : Rising(edge'[f].buf)
        <5>1. Rising(b)
          BY <1>1, <1>2, <1>3, <3>2, <3>10, RisingAppend DEF OrderInv, b, Buf, t
        <5> QED BY <1>1, <3>4, <5>1 DEF OrderInv
      <4>2. \A s \in Endpoint, f \in Edge : edge'[f].target = s => Before(ToSet(got[s]), Buf(f)')
        <5>1. Before(ToSet(got[t]), Buf(e) \cup {c})
          BY <1>1, <1>3, <2>3 DEF OrderInv, Before, t
        <5>2. ASSUME NEW s \in Endpoint, NEW f \in Edge, edge[f].target = s
              PROVE  Before(ToSet(got[s]), Buf(f)')
          <6>1. Before(ToSet(got[s]), Buf(f))
            BY <1>1, <5>2 DEF OrderInv
          <6>2. CASE f = e
            BY <3>9, <5>1, <5>2, <6>2 DEF t
          <6>3. CASE f # e
            BY <3>9, <6>1, <6>3
          <6> QED BY <6>2, <6>3
        <5> QED BY <3>4, <5>2
      <4>3. ASSUME NEW s \in Endpoint, NEW f \in Edge, NEW g \in Edge,
                   InLine(s, f), InLine(s, g), Before(Buf(f), Buf(g)), f # e
            PROVE  Before(Buf(f)', Buf(g)')
        <5>1. CASE g # e
          BY <3>9, <4>3, <5>1
        <5>2. CASE g = e
          <6>1. edge[f].target = t
            BY <1>1, <1>3, <4>3, <5>2 DEF LineInv, t
          <6> QED BY <3>9, <3>10, <4>3, <5>2, <6>1 DEF Before
        <5> QED BY <5>1, <5>2
      <4>4. ASSUME NEW s \in Endpoint, NEW i \in 1 .. Len(edgeInbox[s]),
                   NEW j \in 1 .. Len(edgeInbox[s]), i < j
            PROVE  Before(Buf(edgeInbox[s][i])', Buf(edgeInbox[s][j])')
        <5>1. edgeInbox[s][i] \in Edge /\ edgeInbox[s][j] \in Edge
          BY <1>1 DEF HostTypes
        <5>2. InLine(s, edgeInbox[s][i]) /\ InLine(s, edgeInbox[s][j])
          BY DEF InLine
        <5>3. edgeInbox[s][i] # e
          <6>1. i # Len(edgeInbox[s])
            BY <1>1, <4>4 DEF HostTypes
          <6> QED BY <1>1, <1>3, <6>1 DEF LineInv
        <5>4. Before(Buf(edgeInbox[s][i]), Buf(edgeInbox[s][j]))
          BY <1>1, <4>4 DEF OrderInv
        <5> QED BY <1>2, <4>3, <5>1, <5>2, <5>3, <5>4 DEF Buf
      <4>5. ASSUME NEW s \in Endpoint, NEW i \in 1 .. Len(edgeInbox[s]), serving[s] # NoEdge
            PROVE  Before(Buf(serving[s])', Buf(edgeInbox[s][i])')
        <5>1. edgeInbox[s][i] \in Edge /\ serving[s] \in Edge /\ Len(edgeInbox[s]) # 0
          BY <1>1, <4>5 DEF HostTypes
        <5>2. InLine(s, edgeInbox[s][i]) /\ InLine(s, serving[s])
          BY DEF InLine
        <5>3. serving[s] # e
          BY <1>1, <1>3, <4>5, <5>1 DEF LineInv
        <5>4. Before(Buf(serving[s]), Buf(edgeInbox[s][i]))
          BY <1>1, <4>5 DEF OrderInv
        <5> QED BY <1>2, <4>3, <5>1, <5>2, <5>3, <5>4 DEF Buf
      <4>6. \A s \in Endpoint : Rising(got[s])
        BY <1>1 DEF OrderInv
      <4> HIDE DEF Rising, Before
      <4> QED BY <1>2, <4>1, <4>2, <4>4, <4>5, <4>6 DEF OrderInv
    <3>12. FateInv'
      <4>1. \A s : Waiting(s)' = IF s = t THEN Waiting(s) \cup {c} ELSE Waiting(s)
        <5>1. \A s, x : x \in Waiting(s)' <=> \E f \in Edge : edge[f].target = s /\ x \in Buf(f)'
          BY <3>4 DEF Waiting, Buf
        <5>2. \A s, x : x \in Waiting(s) <=> \E f \in Edge : edge[f].target = s /\ x \in Buf(f)
          BY WaitingOf
        <5>3. ASSUME NEW s, NEW x
              PROVE  x \in Waiting(s)' <=> x \in Waiting(s) \/ (s = t /\ x = c)
          <6>1. \A f \in Edge : x \in Buf(f)' <=> x \in Buf(f) \/ (f = e /\ x = c)
            BY <3>9
          <6> QED BY <1>3, <5>1, <5>2, <6>1 DEF t
        <5> QED BY <5>3
      <4>2. ASSUME NEW s \in pumping
            PROVE  /\ due'[s] = ToSet(got[s]) \cup Waiting(s)' \cup full[s]
                   /\ full[s] \cap (ToSet(got[s]) \cup Waiting(s)') = {}
        <5>1. s \in Endpoint
          BY <1>1 DEF HostTypes
        <5>2. CASE s # t
          BY <1>1, <2>2, <4>1, <5>1, <5>2 DEF FateInv
        <5>3. CASE s = t
          <6>1. full[t] \cap (ToSet(got[t]) \cup Waiting(t)) = {}
            BY <1>1, <2>1 DEF FateInv
          <6> QED BY <1>4, <2>2, <2>3, <4>1, <5>3, <6>1
        <5> QED BY <5>2, <5>3
      <4> QED BY <1>2, <3>1, <4>2 DEF FateInv
    <3> QED BY <3>5, <3>6, <3>7, <3>8, <3>11, <3>12 DEF HostInv
  <2> QED BY <2>7, <2>8
<1> QED BY <1>7, <1>8
-----------------------------------------------------------------------------
(* The fan-out: the edges and the pumps *)

\* What the producer counts is not touched by edges that come and go.
LEMMA ProducerFrame ==
    ASSUME HostInv, UNCHANGED <<reader, charges, due>>,
           \/ reader.pc # "sending"
           \/ /\ sinks' = sinks
              /\ \A i \in 1 .. Len(sinks) : edge'[sinks[i]].target = edge[sinks[i]].target
    PROVE  ReaderInv' /\ CountInv'
<1>1. ReaderInv /\ CountInv
  BY DEF HostInv
<1>2. CountInv'
  BY <1>1 DEF CountInv, charges
<1>3. ReaderInv'
  BY <1>1 DEF ReaderInv, charges
<1> QED BY <1>2, <1>3

\* A consumer that still has a pump waits for the same chunks as before.
LEMMA FateFrame ==
    ASSUME HostInv, pumping' \subseteq pumping, UNCHANGED <<full, due, got>>,
           \A s \in pumping', f \in Edge : \A x :
               edge'[f].target = s /\ x \in Buf(f)' <=> edge[f].target = s /\ x \in Buf(f)
    PROVE  FateInv'
<1>1. \A s, x : x \in Waiting(s)' <=> \E f \in Edge : edge'[f].target = s /\ x \in Buf(f)'
  BY DEF Waiting, Buf
<1>2. \A s, x : x \in Waiting(s) <=> \E f \in Edge : edge[f].target = s /\ x \in Buf(f)
  BY WaitingOf
<1>3. \A s \in pumping' : Waiting(s)' = Waiting(s)
  <2>1. ASSUME NEW s \in pumping', NEW x PROVE x \in Waiting(s)' <=> x \in Waiting(s)
    BY <1>1, <1>2
  <2> QED BY <2>1
<1>4. FateInv
  BY DEF HostInv
<1> QED BY <1>3, <1>4 DEF FateInv

\* A pump takes the next edge of its inbox.
LEMMA TakeEdgeInv ==
    ASSUME HostInv, NEW t \in Endpoint, TakeEdge(t)
    PROVE  HostInv'
<1> DEFINE q == edgeInbox[t]
           h == Head(q)
           r == Tail(q)
<1>1. HostTypes /\ HostLimits /\ SinksInv /\ LineInv /\ ReaderInv /\ CountInv /\ OrderInv /\ FateInv
  BY DEF HostInv
<1>2. /\ t \in pumping /\ serving[t] = NoEdge
      /\ UNCHANGED <<sinks, edge, pumping, wired, reader, charges, got, due>>
      /\ edgeInbox \in [Endpoint -> Seq(Edge)] /\ serving \in [Endpoint -> Edge \cup {NoEdge}]
  BY <1>1 DEF TakeEdge, HostTypes
<1>3. /\ h \in Edge /\ h = q[1] /\ r \in Seq(Edge)
      /\ Len(r) = Len(q) - 1 /\ Len(q) \in Nat \ {0} /\ \A i \in 1 .. Len(q) - 1 : r[i] = q[i + 1]
  <2>1. q \in Seq(Edge) /\ Len(q) # 0
    BY <1>2, EmptySeq DEF TakeEdge
  <2> QED BY <2>1, SetOfTail
<1>4. /\ serving' = [serving EXCEPT ![t] = h] /\ edgeInbox' = [edgeInbox EXCEPT ![t] = r]
  BY DEF TakeEdge, NextEdge
<1> HIDE DEF h, r
<1>5. /\ serving'[t] = h /\ edgeInbox'[t] = r
      /\ \A s \in Endpoint : s # t => serving'[s] = serving[s] /\ edgeInbox'[s] = edgeInbox[s]
      /\ serving' \in [Endpoint -> Edge \cup {NoEdge}] /\ edgeInbox' \in [Endpoint -> Seq(Edge)]
  BY <1>2, <1>3, <1>4
<1>6. HostTypes'
  BY <1>1, <1>2, <1>5 DEF HostTypes, charges
<1>7. HostLimits'
  <2>1. Len(q) <= EdgeInboxCap
    BY <1>1 DEF HostLimits
  <2>2. Len(r) <= EdgeInboxCap
    BY <2>1, <1>3, HostwardAssumption
  <2> QED BY <1>1, <1>2, <1>5, <2>2 DEF HostLimits
<1>8. SinksInv'
  BY <1>1, <1>2 DEF SinksInv
<1>9. \A i \in 1 .. Len(r) : i + 1 \in 1 .. Len(q) /\ r[i] = q[i + 1] /\ i + 1 # 1
  BY <1>3
<1>10. \A i \in 1 .. Len(q) : i # 1 => i - 1 \in 1 .. Len(r) /\ r[i - 1] = q[i]
  BY <1>3
<1>11. 1 \in 1 .. Len(q)
  BY <1>3
<1>12. \A s \in Endpoint, f \in Edge : InLine(s, f)' <=> InLine(s, f)
  <2>1. ASSUME NEW f \in Edge PROVE InLine(t, f)' <=> InLine(t, f)
    <3>1. f # NoEdge
      BY DEF Edge, NoEdge
    <3>2. ASSUME InLine(t, f)' PROVE InLine(t, f)
      BY <1>3, <1>5, <1>9, <1>11, <3>2, ZenonT(60) DEF InLine
    <3>3. ASSUME InLine(t, f) PROVE InLine(t, f)'
      <4>1. PICK i \in 1 .. Len(q) : q[i] = f
        BY <1>2, <3>1, <3>3 DEF InLine
      <4> QED BY <1>3, <1>5, <1>10, <4>1 DEF InLine
    <3> QED BY <3>2, <3>3
  <2>2. ASSUME NEW s \in Endpoint, NEW f \in Edge, s # t PROVE InLine(s, f)' <=> InLine(s, f)
    BY <1>5, <2>2 DEF InLine
  <2> QED BY <2>1, <2>2
<1>13. LineInv'
  <2>1. \A s \in Endpoint, f \in Edge : InLine(s, f)' =>
           s \in pumping' /\ edge'[f].target = s /\ edge'[f].rx
    BY <1>1, <1>2, <1>12 DEF LineInv
  <2>2. ASSUME NEW s \in Endpoint
        PROVE  /\ \A i, j \in 1 .. Len(edgeInbox'[s]) : edgeInbox'[s][i] = edgeInbox'[s][j] => i = j
               /\ \A i \in 1 .. Len(edgeInbox'[s]) :
                    /\ serving'[s] # edgeInbox'[s][i]
                    /\ edge'[edgeInbox'[s][i]].tx => i = Len(edgeInbox'[s])
               /\ serving'[s] # NoEdge /\ edge'[serving'[s]].tx => Len(edgeInbox'[s]) = 0
    <3>1. CASE s # t
      BY <1>1, <1>2, <1>5, <3>1 DEF LineInv
    <3>2. CASE s = t
      <4>1. \A i, j \in 1 .. Len(q) : q[i] = q[j] => i = j
        BY <1>1 DEF LineInv
      <4>2. \A i \in 1 .. Len(q) : edge[q[i]].tx => i = Len(q)
        BY <1>1 DEF LineInv
      <4>3. ASSUME NEW i \in 1 .. Len(r), NEW j \in 1 .. Len(r), r[i] = r[j] PROVE i = j
        <5>1. i + 1 = j + 1
          BY <1>9, <4>1, <4>3
        <5> QED BY <5>1
      <4>4. \A i \in 1 .. Len(r) : h # r[i]
        BY <1>3, <1>9, <1>11, <4>1
      <4>5. ASSUME NEW i \in 1 .. Len(r), edge[r[i]].tx PROVE i = Len(r)
        <5>1. i + 1 = Len(q)
          BY <1>9, <4>2, <4>5
        <5> QED BY <1>3, <5>1
      <4>6. edge[h].tx => Len(r) = 0
        <5>1. edge[q[1]].tx => 1 = Len(q)
          BY <1>11, <4>2
        <5> QED BY <1>3, <5>1
      <4> QED BY <1>2, <1>5, <3>2, <4>3, <4>4, <4>5, <4>6
    <3> QED BY <3>1, <3>2
  <2>3. \A f \in Edge : edge'[f].rx => edge'[f].target \in Endpoint /\ InLine(edge[f].target, f)'
    BY <1>1, <1>2, <1>12 DEF LineInv
  <2>4. \A f \in Edge : Len(edge'[f].buf) # 0 => edge'[f].rx
    BY <1>1, <1>2 DEF LineInv
  <2> QED BY <2>1, <2>2, <2>3, <2>4 DEF LineInv
<1>14. ReaderInv' /\ CountInv'
  BY <1>2, ProducerFrame
<1>15. \A f : Buf(f)' = Buf(f)
  BY <1>2 DEF Buf
<1>16. OrderInv'
  <2>1. ASSUME NEW s \in Endpoint
        PROVE  /\ Rising(got'[s])
               /\ \A f \in Edge : edge'[f].target = s => Before(ToSet(got'[s]), Buf(f))
               /\ \A i, j \in 1 .. Len(edgeInbox'[s]) :
                    i < j => Before(Buf(edgeInbox'[s][i]), Buf(edgeInbox'[s][j]))
               /\ \A i \in 1 .. Len(edgeInbox'[s]) :
                    serving'[s] # NoEdge => Before(Buf(serving'[s]), Buf(edgeInbox'[s][i]))
    <3>1. CASE s # t
      BY <1>1, <1>2, <1>5, <3>1 DEF OrderInv
    <3>2. CASE s = t
      <4>1. \A i, j \in 1 .. Len(q) : i < j => Before(Buf(q[i]), Buf(q[j]))
        BY <1>1 DEF OrderInv
      <4>2. ASSUME NEW i \in 1 .. Len(r), NEW j \in 1 .. Len(r), i < j
            PROVE  Before(Buf(r[i]), Buf(r[j]))
        <5>1. i + 1 < j + 1
          BY <4>2
        <5> QED BY <1>9, <4>1, <5>1
      <4>3. ASSUME NEW i \in 1 .. Len(r) PROVE Before(Buf(h), Buf(r[i]))
        <5>1. 1 < i + 1
          OBVIOUS
        <5> QED BY <1>3, <1>9, <1>11, <4>1, <5>1
      <4> QED BY <1>1, <1>2, <1>5, <3>2, <4>2, <4>3 DEF OrderInv
    <3> QED BY <3>1, <3>2
  <2>2. \A f \in Edge : Rising(edge'[f].buf)
    BY <1>1, <1>2 DEF OrderInv
  <2> QED BY <1>15, <2>1, <2>2 DEF OrderInv
<1>17. FateInv'
  BY <1>2, <1>15, FateFrame DEF charges
<1> QED BY <1>6, <1>7, <1>8, <1>13, <1>14, <1>16, <1>17 DEF HostInv

\* Edges end and lines get shorter: what is left of them is in order.
LEMMA ShrinkFrame ==
    ASSUME HostInv, HostTypes', got' = got, pumping' \subseteq pumping,
           \A s \in Endpoint : edgeInbox'[s] = edgeInbox[s] \/ Len(edgeInbox'[s]) = 0,
           \A s \in Endpoint : serving'[s] = serving[s] \/ serving'[s] = NoEdge,
           \A s \in Endpoint, f \in Edge : InLine(s, f)' => s \in pumping',
           \A f \in Edge : edge'[f].tx => edge[f].tx,
           \A f \in Edge :
               \/ /\ edge'[f].target = edge[f].target /\ edge'[f].rx = edge[f].rx
                  /\ edge'[f].buf = edge[f].buf
                  /\ \A s \in Endpoint : InLine(s, f)' <=> InLine(s, f)
               \/ /\ ~edge'[f].rx /\ edge'[f].buf = <<>>
                  /\ \A s \in Endpoint : ~InLine(s, f)'
    PROVE  LineInv' /\ OrderInv'
<1>1. HostTypes /\ LineInv /\ OrderInv
  BY DEF HostInv
<1>2. \A s \in Endpoint : \A i \in 1 .. Len(edgeInbox[s]) : edgeInbox[s][i] \in Edge
  BY <1>1 DEF HostTypes
<1>3. \A s \in Endpoint : \A i \in 1 .. Len(edgeInbox'[s]) :
          edgeInbox'[s] = edgeInbox[s] /\ i \in 1 .. Len(edgeInbox[s]) /\ edgeInbox'[s][i] \in Edge
  <2>1. ASSUME NEW s \in Endpoint, NEW i \in 1 .. Len(edgeInbox'[s]) PROVE edgeInbox'[s] = edgeInbox[s]
    BY <2>1
  <2> QED BY <1>2, <2>1
<1>4. \A s \in Endpoint : serving'[s] # NoEdge => serving'[s] = serving[s] /\ serving[s] \in Edge
  BY <1>1 DEF HostTypes
<1>5. LineInv'
  <2>1. \A s \in Endpoint, f \in Edge : InLine(s, f)' =>
           s \in pumping' /\ edge'[f].target = s /\ edge'[f].rx
    BY <1>1 DEF LineInv
  <2>2. ASSUME NEW s \in Endpoint
        PROVE  /\ \A i, j \in 1 .. Len(edgeInbox'[s]) : edgeInbox'[s][i] = edgeInbox'[s][j] => i = j
               /\ \A i \in 1 .. Len(edgeInbox'[s]) :
                    /\ serving'[s] # edgeInbox'[s][i]
                    /\ edge'[edgeInbox'[s][i]].tx => i = Len(edgeInbox'[s])
               /\ serving'[s] # NoEdge /\ edge'[serving'[s]].tx => Len(edgeInbox'[s]) = 0
    <3>1. \A i, j \in 1 .. Len(edgeInbox'[s]) : edgeInbox'[s][i] = edgeInbox'[s][j] => i = j
      BY <1>1, <1>3 DEF LineInv
    <3>2. ASSUME NEW i \in 1 .. Len(edgeInbox'[s])
          PROVE  /\ serving'[s] # edgeInbox'[s][i]
                 /\ edge'[edgeInbox'[s][i]].tx => i = Len(edgeInbox'[s])
      <4>1. edgeInbox'[s][i] # NoEdge
        BY <1>3 DEF Edge, NoEdge
      <4>2. /\ serving[s] # edgeInbox[s][i]
            /\ edge[edgeInbox[s][i]].tx => i = Len(edgeInbox[s])
        BY <1>1, <1>3 DEF LineInv
      <4> QED BY <1>3, <1>4, <4>1, <4>2
    <3>3. ASSUME serving'[s] # NoEdge, edge'[serving'[s]].tx PROVE Len(edgeInbox'[s]) = 0
      <4>1. Len(edgeInbox[s]) = 0
        BY <1>1, <1>4, <3>3 DEF LineInv
      <4> QED BY <4>1
    <3> QED BY <3>1, <3>2, <3>3
  <2>3. ASSUME NEW f \in Edge, edge'[f].rx
        PROVE  edge'[f].target \in Endpoint /\ InLine(edge[f].target, f)'
    <3>1. /\ edge'[f].target = edge[f].target /\ edge[f].rx
          /\ \A s \in Endpoint : InLine(s, f)' <=> InLine(s, f)
      BY <2>3
    <3>2. edge[f].target \in Endpoint /\ InLine(edge[f].target, f)
      BY <1>1, <3>1 DEF LineInv
    <3> QED BY <3>1, <3>2 DEF InLine
  <2>4. \A f \in Edge : Len(edge'[f].buf) # 0 => edge'[f].rx
    BY <1>1, EmptySeq DEF LineInv
  <2> QED BY <2>1, <2>2, <2>3, <2>4 DEF LineInv
<1>6. \A f \in Edge : Buf(f)' = {} \/ (Buf(f)' = Buf(f) /\ edge'[f].target = edge[f].target)
  BY SetOfEmpty DEF Buf
<1>7. OrderInv'
  <2>1. \A f \in Edge : Rising(edge'[f].buf)
    <3>1. Rising(<<>>)
      BY EmptySeq DEF Rising
    <3> QED BY <1>1, <3>1 DEF OrderInv
  <2>2. ASSUME NEW s \in Endpoint
        PROVE  /\ Rising(got'[s])
               /\ \A f \in Edge : edge'[f].target = s => Before(ToSet(got'[s]), Buf(f)')
               /\ \A i, j \in 1 .. Len(edgeInbox'[s]) :
                    i < j => Before(Buf(edgeInbox[s][i])', Buf(edgeInbox[s][j])')
               /\ \A i \in 1 .. Len(edgeInbox'[s]) :
                    serving'[s] # NoEdge => Before(Buf(serving[s])', Buf(edgeInbox[s][i])')
    <3>1. \A S, T : S = {} \/ T = {} => Before(S, T)
      BY DEF Before
    <3>2. Rising(got'[s])
      BY <1>1 DEF OrderInv
    <3>3. \A f \in Edge : edge'[f].target = s => Before(ToSet(got'[s]), Buf(f)')
      BY <1>1, <1>6, <3>1 DEF OrderInv
    <3>4. ASSUME NEW f \in Edge, NEW g \in Edge, Before(Buf(f), Buf(g)) PROVE Before(Buf(f)', Buf(g)')
      BY <1>6, <3>1, <3>4
    <3>5. ASSUME NEW i \in 1 .. Len(edgeInbox'[s]), NEW j \in 1 .. Len(edgeInbox'[s]), i < j
          PROVE  Before(Buf(edgeInbox[s][i])', Buf(edgeInbox[s][j])')
      <4>1. Before(Buf(edgeInbox[s][i]), Buf(edgeInbox[s][j]))
        BY <1>1, <1>3, <3>5 DEF OrderInv
      <4>2. PICK f \in Edge, g \in Edge : f = edgeInbox'[s][i] /\ g = edgeInbox'[s][j]
        BY <1>3
      <4>3. Before(Buf(f)', Buf(g)')
        BY <1>3, <3>4, <4>1, <4>2
      <4> QED BY <4>2, <4>3 DEF Buf
    <3>6. ASSUME NEW i \in 1 .. Len(edgeInbox'[s]), serving'[s] # NoEdge
          PROVE  Before(Buf(serving[s])', Buf(edgeInbox[s][i])')
      <4>1. Before(Buf(serving[s]), Buf(edgeInbox[s][i]))
        BY <1>1, <1>3, <1>4, <3>6 DEF OrderInv
      <4>2. PICK f \in Edge, g \in Edge : f = serving'[s] /\ g = edgeInbox'[s][i]
        BY <1>3, <1>4, <3>6
      <4>3. Before(Buf(f)', Buf(g)')
        BY <1>3, <1>4, <3>4, <3>6, <4>1, <4>2
      <4> QED BY <4>2, <4>3 DEF Buf
    <3> QED BY <3>2, <3>3, <3>5, <3>6
  <2> QED BY <2>1, <2>2 DEF OrderInv
<1> QED BY <1>5, <1>7

\* A pump receives the next chunk of the edge it serves.
LEMMA RecvInv ==
    ASSUME HostInv, NEW t \in Endpoint, Recv(t)
    PROVE  HostInv'
<1> DEFINE e == serving[t]
           q == edge[e].buf
           h == Head(q)
           r == Tail(q)
           g == Append(got[t], h)
<1>1. HostTypes /\ HostLimits /\ SinksInv /\ LineInv /\ ReaderInv /\ CountInv /\ OrderInv /\ FateInv
  BY DEF HostInv
<1>2. /\ UNCHANGED <<sinks, edgeInbox, serving, pumping, wired, reader, charges, due>>
      /\ e \in Edge /\ edge[e] \in EdgeState /\ q \in Seq(Nat) /\ Len(q) # 0
  BY <1>1, EmptySeq DEF Recv, HostTypes, EdgeState
<1>3. /\ h \in Nat /\ r \in Seq(Nat) /\ Len(r) = Len(q) - 1 /\ Len(q) \in Nat \ {0}
      /\ ToSet(q) = {h} \cup ToSet(r)
  BY <1>2, SetOfTail
<1>4. Rising(r) /\ Before({h}, ToSet(r))
  BY <1>1, <1>2, RisingTail DEF OrderInv
<1>5. /\ InLine(t, e) /\ t \in pumping /\ edge[e].target = t /\ edge[e].rx
  BY <1>1, <1>2 DEF LineInv, InLine
<1>6. /\ got[t] \in Seq(Nat) /\ g \in Seq(Nat) /\ ToSet(g) = ToSet(got[t]) \cup {h}
  <2>1. got[t] \in Seq(Nat)
    BY <1>1 DEF HostTypes
  <2> QED BY <1>3, <2>1, SetOfAppend
<1>7. /\ edge' = [edge EXCEPT ![e].buf = r] /\ got' = [got EXCEPT ![t] = g]
  BY DEF Recv
<1>8. Rising(g)
  <2>1. Rising(got[t]) /\ Before(ToSet(got[t]), Buf(e))
    BY <1>1, <1>2, <1>5 DEF OrderInv
  <2>2. \A x \in ToSet(got[t]) : x < h
    BY <1>3, <2>1 DEF Before, Buf
  <2> QED BY <1>3, <1>6, <2>1, <2>2, RisingAppend
<1> HIDE DEF h, r, g
<1>9. /\ edge' \in [Edge -> EdgeState]
      /\ \A f \in Edge : /\ edge'[f].target = edge[f].target
                         /\ edge'[f].tx = edge[f].tx /\ edge'[f].rx = edge[f].rx
                         /\ edge'[f].buf = IF f = e THEN r ELSE edge[f].buf
  BY <1>1, <1>2, <1>3, <1>7 DEF HostTypes, EdgeState
<1>10. /\ got' \in [Endpoint -> Seq(Nat)] /\ got'[t] = g
       /\ \A s \in Endpoint : s # t => got'[s] = got[s]
  BY <1>1, <1>6, <1>7 DEF HostTypes
<1> HIDE DEF e
<1>11. HostTypes'
  BY <1>1, <1>2, <1>9, <1>10 DEF HostTypes, charges
<1>12. HostLimits'
  <2>1. Len(q) <= EdgeDepth
    BY <1>1, <1>2 DEF HostLimits
  <2>2. Len(r) <= EdgeDepth
    BY <2>1, <1>3, HostwardAssumption
  <2> QED BY <1>1, <1>2, <1>9, <2>2 DEF HostLimits
<1>13. SinksInv' /\ LineInv'
  <2>1. \A f \in Edge : Len(edge'[f].buf) # 0 => edge[f].rx
    BY <1>1, <1>5, <1>9 DEF LineInv
  <2> QED BY <1>2, <1>9, <2>1, EndsFrame
<1>14. ReaderInv' /\ CountInv'
  <2>1. \A i \in 1 .. Len(sinks) : edge'[sinks[i]].target = edge[sinks[i]].target
    BY <1>1, <1>9 DEF HostTypes
  <2> QED BY <1>2, <2>1, ProducerFrame
<1>15. \A f \in Edge : Buf(f)' = IF f = e THEN ToSet(r) ELSE Buf(f)
  BY <1>9 DEF Buf
<1>16. \A f \in Edge : Buf(f)' \subseteq Buf(f)
  BY <1>3, <1>15 DEF Buf
<1>17. ASSUME NEW f \in Edge, edge[f].target = t PROVE Before({h}, Buf(f)')
  <2>1. CASE f = e
    BY <1>4, <1>15, <2>1
  <2>2. CASE f # e /\ Buf(f) = {}
    BY <1>15, <2>2 DEF Before
  <2>3. CASE f # e /\ Buf(f) # {}
    <3>1. edge[f].buf \in Seq(Nat)
      BY <1>1 DEF HostTypes, EdgeState
    <3>2. Len(edge[f].buf) # 0
      BY <2>3, <3>1, SetOf DEF Buf
    <3>3. InLine(t, f)
      BY <1>1, <1>17, <3>2 DEF LineInv
    <3>4. PICK i \in 1 .. Len(edgeInbox[t]) : edgeInbox[t][i] = f
      BY <2>3, <3>3 DEF InLine, e
    <3>5. e # NoEdge
      BY <1>2 DEF Edge, NoEdge
    <3>6. Before(Buf(e), Buf(f))
      BY <1>1, <3>4, <3>5 DEF OrderInv, e
    <3> QED BY <1>3, <1>15, <2>3, <3>6 DEF Before, Buf
  <2> QED BY <2>1, <2>2, <2>3
<1>18. OrderInv'
  <2>1. \A f \in Edge : Rising(edge'[f].buf)
    BY <1>1, <1>4, <1>9 DEF OrderInv
  <2>2. \A s \in Endpoint : Rising(got'[s])
    BY <1>1, <1>8, <1>10 DEF OrderInv
  <2>3. ASSUME NEW s \in Endpoint, NEW f \in Edge, edge[f].target = s
        PROVE  Before(ToSet(got'[s]), Buf(f)')
    <3>1. Before(ToSet(got[s]), Buf(f)')
      BY <1>1, <1>16, <2>3 DEF OrderInv, Before
    <3>2. CASE s = t
      <4>1. Before(ToSet(got[t]), Buf(f)') /\ Before({h}, Buf(f)')
        BY <1>17, <2>3, <3>1, <3>2
      <4>2. Before(ToSet(got[t]) \cup {h}, Buf(f)')
        BY <4>1 DEF Before
      <4> QED BY <1>6, <1>10, <3>2, <4>2
    <3>3. CASE s # t
      BY <1>10, <3>1, <3>3
    <3> QED BY <3>2, <3>3
  <2>4. ASSUME NEW f \in Edge, NEW k \in Edge, Before(Buf(f), Buf(k)) PROVE Before(Buf(f)', Buf(k)')
    BY <1>16, <2>4 DEF Before
  <2>5. ASSUME NEW s \in Endpoint, NEW i \in 1 .. Len(edgeInbox[s]),
               NEW j \in 1 .. Len(edgeInbox[s]), i < j
        PROVE  Before(Buf(edgeInbox[s][i])', Buf(edgeInbox[s][j])')
    <3>1. PICK f \in Edge, k \in Edge : f = edgeInbox[s][i] /\ k = edgeInbox[s][j]
      BY <1>1 DEF HostTypes
    <3>2. Before(Buf(f)', Buf(k)')
      BY <1>1, <2>4, <2>5, <3>1 DEF OrderInv
    <3> QED BY <1>2, <3>1, <3>2 DEF Buf
  <2>6. ASSUME NEW s \in Endpoint, NEW i \in 1 .. Len(edgeInbox[s]), serving[s] # NoEdge
        PROVE  Before(Buf(serving[s])', Buf(edgeInbox[s][i])')
    <3>1. PICK f \in Edge, k \in Edge : f = serving[s] /\ k = edgeInbox[s][i]
      BY <1>1, <2>6 DEF HostTypes
    <3>2. Before(Buf(f)', Buf(k)')
      BY <1>1, <2>4, <2>6, <3>1 DEF OrderInv
    <3> QED BY <1>2, <3>1, <3>2 DEF Buf
  <2> QED BY <1>2, <1>9, <2>1, <2>2, <2>3, <2>5, <2>6 DEF OrderInv
<1>19. FateInv'
  <2>1. \A s, x : x \in Waiting(s)' <=> \E f \in Edge : edge[f].target = s /\ x \in Buf(f)'
    BY <1>9 DEF Waiting, Buf
  <2>2. \A s, x : x \in Waiting(s) <=> \E f \in Edge : edge[f].target = s /\ x \in Buf(f)
    BY WaitingOf
  <2>3. \A f \in Edge : f = e => \A x : x \in Buf(f) <=> x = h \/ x \in Buf(f)'
    BY <1>2, <1>3, <1>15 DEF Buf
  <2>4. ASSUME NEW s \in Endpoint PROVE ToSet(got'[s]) \cup Waiting(s)' = ToSet(got[s]) \cup Waiting(s)
    <3>1. CASE s # t
      <4>1. ASSUME NEW x PROVE x \in Waiting(s)' <=> x \in Waiting(s)
        BY <1>5, <1>15, <2>1, <2>2, <3>1
      <4> QED BY <1>10, <3>1, <4>1
    <3>2. CASE s = t
      <4>1. ASSUME NEW x PROVE x \in Waiting(t) <=> x \in Waiting(t)' \/ x = h
        <5>1. \A f \in Edge : f # e => (x \in Buf(f)' <=> x \in Buf(f))
          BY <1>15
        <5> QED BY <1>2, <1>5, <2>1, <2>2, <2>3, <5>1
      <4> QED BY <1>6, <1>10, <3>2, <4>1
    <3> QED BY <3>1, <3>2
  <2>5. \A s \in pumping : s \in Endpoint
    BY <1>1 DEF HostTypes
  <2> QED BY <1>1, <1>2, <2>4, <2>5 DEF FateInv, charges
<1> QED BY <1>11, <1>12, <1>13, <1>14, <1>18, <1>19 DEF HostInv

\* A pump is done with an edge.
LEMMA EdgeEndsInv ==
    ASSUME HostInv, NEW t \in Endpoint, EdgeEnds(t)
    PROVE  HostInv'
<1> DEFINE e == serving[t]
<1>1. HostTypes /\ HostLimits /\ SinksInv /\ LineInv /\ ReaderInv /\ CountInv /\ OrderInv /\ FateInv
  BY DEF HostInv
<1>2. /\ UNCHANGED <<sinks, edgeInbox, pumping, wired, reader, charges, got, due>>
      /\ e \in Edge /\ edge[e] \in EdgeState /\ edge[e].buf = <<>> /\ ~edge[e].tx
      /\ serving' = [serving EXCEPT ![t] = NoEdge] /\ edge' = [edge EXCEPT ![e] = NewEdge]
  BY <1>1 DEF EdgeEnds, HostTypes
<1>3. NewEdge \in EdgeState /\ NewEdge.buf = <<>> /\ ~NewEdge.tx /\ ~NewEdge.rx
  BY EmptySeq DEF NewEdge, EdgeState
<1>4. /\ edge' \in [Edge -> EdgeState] /\ edge'[e] = NewEdge
      /\ \A f \in Edge : f # e => edge'[f] = edge[f]
      /\ serving' \in [Endpoint -> Edge \cup {NoEdge}] /\ serving'[t] = NoEdge
      /\ \A s \in Endpoint : s # t => serving'[s] = serving[s]
  BY <1>1, <1>2, <1>3 DEF HostTypes
<1>5. /\ InLine(t, e) /\ t \in pumping /\ edge[e].target = t /\ edge[e].rx
      /\ \A i \in 1 .. Len(edgeInbox[t]) : edgeInbox[t][i] # e
  BY <1>1, <1>2 DEF LineInv, InLine
<1>6. \A f \in Edge, s \in Endpoint : InLine(s, f)' <=> InLine(s, f) /\ f # e
  <2>1. ASSUME NEW f \in Edge, NEW s \in Endpoint PROVE InLine(s, f)' <=> InLine(s, f) /\ f # e
    <3>1. f # NoEdge
      BY DEF Edge, NoEdge
    <3>2. CASE s = t
      BY <1>2, <1>4, <1>5, <3>1, <3>2 DEF InLine
    <3>3. CASE s # t
      <4>1. ~InLine(s, e)
        BY <1>1, <1>2, <1>5, <3>3 DEF LineInv
      <4> QED BY <1>2, <1>4, <3>3, <4>1 DEF InLine
    <3> QED BY <3>2, <3>3
  <2> QED BY <2>1
<1> HIDE DEF e
<1>7. HostTypes'
  BY <1>1, <1>2, <1>4 DEF HostTypes, charges
<1>8. HostLimits'
  BY <1>1, <1>2, <1>3, <1>4, EmptySeq, HostwardAssumption DEF HostLimits
<1>9. SinksInv'
  <2>1. \A i \in 1 .. Len(sinks) : sinks[i] \in Edge /\ sinks[i] # e /\ edge'[sinks[i]] = edge[sinks[i]]
    BY <1>1, <1>2, <1>4, SMTT(40) DEF HostTypes, SinksInv
  <2>2. \A s \in Endpoint : wired[s] # NoEdge => wired[s] \in Edge /\ wired[s] # e
    BY <1>1, <1>2 DEF HostTypes, SinksInv
  <2>3. \A f \in Edge : edge'[f].tx => \E i \in 1 .. Len(sinks) : sinks[i] = f
    BY <1>1, <1>3, <1>4 DEF SinksInv
  <2> QED BY <1>1, <1>2, <1>4, <2>1, <2>2, <2>3 DEF SinksInv
<1>10. LineInv' /\ OrderInv'
  <2>1. \A s \in Endpoint : serving'[s] = serving[s] \/ serving'[s] = NoEdge
    BY <1>4
  <2>2. \A s \in Endpoint, f \in Edge : InLine(s, f)' => s \in pumping'
    BY <1>1, <1>2, <1>6 DEF LineInv
  <2>3. \A f \in Edge : edge'[f].tx => edge[f].tx
    BY <1>3, <1>4
  <2>4. \A f \in Edge :
           \/ /\ edge'[f].target = edge[f].target /\ edge'[f].rx = edge[f].rx
              /\ edge'[f].buf = edge[f].buf
              /\ \A s \in Endpoint : InLine(s, f)' <=> InLine(s, f)
           \/ /\ ~edge'[f].rx /\ edge'[f].buf = <<>>
              /\ \A s \in Endpoint : ~InLine(s, f)'
    BY <1>3, <1>4, <1>6
  <2> QED BY <1>2, <1>7, <2>1, <2>2, <2>3, <2>4, ShrinkFrame
<1>11. ReaderInv' /\ CountInv'
  <2>1. \A i \in 1 .. Len(sinks) : edge'[sinks[i]].target = edge[sinks[i]].target
    BY <1>1, <1>2, <1>4, SMTT(40) DEF HostTypes, SinksInv
  <2> QED BY <1>2, <2>1, ProducerFrame
<1>12. FateInv'
  <2>1. \A f \in Edge : f = e => Buf(f) = {} /\ Buf(f)' = {}
    BY <1>2, <1>3, <1>4, SetOfEmpty DEF Buf
  <2>2. \A f \in Edge : f # e => Buf(f)' = Buf(f)
    BY <1>4 DEF Buf
  <2>3. \A s \in pumping', f \in Edge : \A x :
           edge'[f].target = s /\ x \in Buf(f)' <=> edge[f].target = s /\ x \in Buf(f)
    BY <1>4, <2>1, <2>2
  <2> QED BY <1>2, <2>3, FateFrame DEF charges
<1> QED BY <1>7, <1>8, <1>9, <1>10, <1>11, <1>12 DEF HostInv

\* A consumer is removed, with every receiver it still had.
LEMMA RemoveConsumerInv ==
    ASSUME HostInv, NEW t \in Endpoint, RemoveConsumer(t)
    PROVE  HostInv'
<1> DEFINE dead == ToSet(edgeInbox[t]) \cup {serving[t]}
<1>1. HostTypes /\ HostLimits /\ SinksInv /\ LineInv /\ ReaderInv /\ CountInv /\ OrderInv /\ FateInv
  BY DEF HostInv
<1>2. /\ UNCHANGED <<sinks, wired, reader, charges, got, due>>
      /\ t \in pumping /\ wired[t] = NoEdge /\ pumping' = pumping \ {t}
      /\ edge' = [f \in Edge |-> IF f \in dead THEN NewEdge ELSE edge[f]]
      /\ edgeInbox' = [edgeInbox EXCEPT ![t] = <<>>]
      /\ serving' = [serving EXCEPT ![t] = NoEdge]
  BY DEF RemoveConsumer
<1>3. NewEdge \in EdgeState /\ NewEdge.buf = <<>> /\ ~NewEdge.tx /\ ~NewEdge.rx
  BY EmptySeq DEF NewEdge, EdgeState
<1>4. \A f \in Edge : f \in dead <=> InLine(t, f)
  <2>1. edgeInbox[t] \in Seq(Edge)
    BY <1>1 DEF HostTypes
  <2>2. \A x : x \in ToSet(edgeInbox[t]) <=> \E i \in 1 .. Len(edgeInbox[t]) : edgeInbox[t][i] = x
    BY <2>1, SetOf
  <2> QED BY <2>2 DEF InLine
<1> HIDE DEF dead
<1>5. \A f \in Edge : f \in dead => edge[f].target = t /\ ~edge[f].tx
  <2>1. ASSUME NEW f \in Edge, f \in dead PROVE edge[f].target = t /\ ~edge[f].tx
    <3>1. edge[f].target = t
      BY <1>1, <1>4, <2>1 DEF LineInv
    <3>2. ASSUME edge[f].tx PROVE FALSE
      <4>1. wired[t] = f
        BY <1>1, <3>1, <3>2 DEF SinksInv
      <4> QED BY <1>2, <4>1 DEF Edge, NoEdge
    <3> QED BY <3>1, <3>2
  <2> QED BY <2>1
<1>6. /\ edge' \in [Edge -> EdgeState]
      /\ \A f \in Edge : f \in dead => edge'[f] = NewEdge
      /\ \A f \in Edge : f \notin dead => edge'[f] = edge[f]
  BY <1>1, <1>2, <1>3 DEF HostTypes
<1>7. /\ edgeInbox' \in [Endpoint -> Seq(Edge)] /\ serving' \in [Endpoint -> Edge \cup {NoEdge}]
      /\ edgeInbox'[t] = <<>> /\ serving'[t] = NoEdge
      /\ \A s \in Endpoint : s # t => edgeInbox'[s] = edgeInbox[s] /\ serving'[s] = serving[s]
  <2>1. <<>> \in Seq(Edge)
    BY EmptySeq
  <2>2. edgeInbox \in [Endpoint -> Seq(Edge)] /\ serving \in [Endpoint -> Edge \cup {NoEdge}]
    BY <1>1 DEF HostTypes
  <2> QED BY <1>2, <2>1, <2>2
<1>8. \A f \in Edge, s \in Endpoint : InLine(s, f)' <=> InLine(s, f) /\ s # t
  <2>1. ASSUME NEW f \in Edge, NEW s \in Endpoint PROVE InLine(s, f)' <=> InLine(s, f) /\ s # t
    <3>1. f # NoEdge
      BY DEF Edge, NoEdge
    <3>2. CASE s = t
      BY <1>7, <3>1, <3>2, EmptySeq DEF InLine
    <3>3. CASE s # t
      BY <1>7, <3>3 DEF InLine
    <3> QED BY <3>2, <3>3
  <2> QED BY <2>1
<1>9. HostTypes'
  BY <1>1, <1>2, <1>6, <1>7 DEF HostTypes, charges
<1>10. HostLimits'
  BY <1>1, <1>2, <1>3, <1>6, <1>7, EmptySeq, HostwardAssumption DEF HostLimits
<1>11. \A i \in 1 .. Len(sinks) :
           sinks[i] \in Edge /\ sinks[i] \notin dead /\ edge'[sinks[i]] = edge[sinks[i]]
  <2>1. \A i \in 1 .. Len(sinks) : sinks[i] \in Edge
    BY <1>1 DEF HostTypes
  <2>2. \A i \in 1 .. Len(sinks) : edge[sinks[i]].tx
    BY <1>1 DEF SinksInv
  <2> QED BY <1>5, <1>6, <2>1, <2>2
<1>12. SinksInv'
  <2>1. \A s \in Endpoint : wired[s] # NoEdge => wired[s] \in Edge /\ wired[s] \notin dead
    <3>1. \A s \in Endpoint : wired[s] # NoEdge => wired[s] \in Edge
      BY <1>1 DEF HostTypes
    <3>2. \A s \in Endpoint : wired[s] # NoEdge => edge[wired[s]].tx
      BY <1>1 DEF SinksInv
    <3> QED BY <1>5, <3>1, <3>2
  <2>2. \A f \in Edge : edge'[f].tx => \E i \in 1 .. Len(sinks) : sinks[i] = f
    BY <1>1, <1>3, <1>6 DEF SinksInv
  <2>3. ASSUME NEW i \in 1 .. Len(sinks)
        PROVE  edge[sinks[i]].target # t
    <3>1. wired[edge[sinks[i]].target] = sinks[i] /\ sinks[i] # NoEdge
      BY <1>1, <1>11 DEF SinksInv, Edge, NoEdge
    <3> QED BY <1>2, <3>1
  <2> QED BY <1>1, <1>2, <1>6, <1>11, <2>1, <2>2, <2>3 DEF SinksInv
<1>13. LineInv' /\ OrderInv'
  <2>1. /\ \A s \in Endpoint : serving'[s] = serving[s] \/ serving'[s] = NoEdge
        /\ \A s \in Endpoint : edgeInbox'[s] = edgeInbox[s] \/ Len(edgeInbox'[s]) = 0
    BY <1>7, EmptySeq
  <2>2. \A s \in Endpoint, f \in Edge : InLine(s, f)' => s \in pumping'
    BY <1>1, <1>2, <1>8 DEF LineInv
  <2>3. \A f \in Edge : edge'[f].tx => edge[f].tx
    BY <1>3, <1>6
  <2>4. ASSUME NEW f \in Edge
        PROVE  \/ /\ edge'[f].target = edge[f].target /\ edge'[f].rx = edge[f].rx
                  /\ edge'[f].buf = edge[f].buf
                  /\ \A s \in Endpoint : InLine(s, f)' <=> InLine(s, f)
               \/ /\ ~edge'[f].rx /\ edge'[f].buf = <<>>
                  /\ \A s \in Endpoint : ~InLine(s, f)'
    <3>1. CASE f \in dead
      <4>1. \A s \in Endpoint : ~InLine(s, f)'
        BY <1>1, <1>5, <1>8, <3>1 DEF LineInv
      <4> QED BY <1>3, <1>6, <3>1, <4>1
    <3>2. CASE f \notin dead
      BY <1>4, <1>6, <1>8, <3>2
    <3> QED BY <3>1, <3>2
  <2>5. pumping' \subseteq pumping /\ got' = got
    BY <1>2
  <2> QED BY <1>9, <2>1, <2>2, <2>3, <2>4, <2>5, ShrinkFrame
<1>14. ReaderInv' /\ CountInv'
  BY <1>2, <1>11, ProducerFrame
<1>15. FateInv'
  <2>1. \A f \in Edge : f \in dead => Buf(f)' = {} /\ edge[f].target = t
    BY <1>3, <1>5, <1>6, SetOfEmpty DEF Buf
  <2>2. \A f \in Edge : f \notin dead => Buf(f)' = Buf(f)
    BY <1>6 DEF Buf
  <2>3. \A s \in pumping', f \in Edge : \A x :
           edge'[f].target = s /\ x \in Buf(f)' <=> edge[f].target = s /\ x \in Buf(f)
    BY <1>2, <1>6, <2>1, <2>2
  <2>4. pumping' \subseteq pumping
    BY <1>2
  <2> QED BY <1>2, <2>3, <2>4, FateFrame DEF charges
<1> QED BY <1>9, <1>10, <1>12, <1>13, <1>14, <1>15 DEF HostInv

\* An edge is disconnected: its sink goes, its receiver drains what it has.
LEMMA DisconnectEdgeInv ==
    ASSUME HostInv, NEW t \in Endpoint, DisconnectEdge(t)
    PROVE  HostInv'
<1> DEFINE e == wired[t]
           n == CHOOSE i \in 1 .. Len(sinks) : sinks[i] = e
<1>1. HostTypes /\ HostLimits /\ SinksInv /\ LineInv /\ ReaderInv /\ CountInv /\ OrderInv /\ FateInv
  BY DEF HostInv
<1>2. /\ UNCHANGED <<edgeInbox, serving, pumping, reader, charges, got, due>>
      /\ reader.pc # "sending" /\ e \in Edge /\ edge[e] \in EdgeState
      /\ edge[e].tx /\ edge[e].target = t
      /\ wired' = [wired EXCEPT ![t] = NoEdge] /\ sinks' = RemoveAt(sinks, n)
      /\ edge' = [edge EXCEPT ![e] = IF @.rx THEN [@ EXCEPT !.tx = FALSE] ELSE NewEdge]
  BY <1>1 DEF DisconnectEdge, Detach, HostTypes, SinksInv, MutexFree
<1>3. n \in 1 .. Len(sinks) /\ sinks[n] = e
  <2>1. \E i \in 1 .. Len(sinks) : sinks[i] = e
    BY <1>1, <1>2 DEF SinksInv
  <2> QED BY <2>1
<1> HIDE DEF n
<1>4. /\ sinks' \in Seq(Edge) /\ Len(sinks') = Len(sinks) - 1 /\ Len(sinks) \in Nat
      /\ \A k \in 1 .. Len(sinks) - 1 : sinks'[k] = IF k < n THEN sinks[k] ELSE sinks[k + 1]
  <2>1. sinks \in Seq(Edge) /\ Len(sinks) \in Nat
    BY <1>1 DEF HostTypes
  <2> QED BY <1>2, <1>3, <2>1, SetOfRemoveAt
<1>5. NewEdge \in EdgeState /\ NewEdge.buf = <<>> /\ ~NewEdge.tx /\ ~NewEdge.rx
  BY EmptySeq DEF NewEdge, EdgeState
<1>6. /\ edge' \in [Edge -> EdgeState] /\ ~edge'[e].tx
      /\ \/ edge[e].rx /\ edge'[e].rx /\ edge'[e].target = t /\ edge'[e].buf = edge[e].buf
         \/ ~edge[e].rx /\ edge'[e] = NewEdge
      /\ \A f \in Edge : f # e => edge'[f] = edge[f]
  <2> DEFINE no == FALSE
  <2>1. ~no /\ no \in BOOLEAN
    OBVIOUS
  <2>2. edge' = [edge EXCEPT ![e] = IF edge[e].rx THEN [edge[e] EXCEPT !.tx = no] ELSE NewEdge]
    BY <1>2
  <2> HIDE DEF no, e
  <2>3. [edge[e] EXCEPT !.tx = no] \in EdgeState
    BY <1>2, <2>1 DEF EdgeState
  <2>4. /\ edge'[e] = IF edge[e].rx THEN [edge[e] EXCEPT !.tx = no] ELSE NewEdge
        /\ edge' \in [Edge -> EdgeState] /\ \A f \in Edge : f # e => edge'[f] = edge[f]
    BY <1>1, <1>2, <1>5, <2>2, <2>3, ZenonT(60) DEF HostTypes
  <2>5. CASE edge[e].rx
    BY <1>2, <2>1, <2>4, <2>5 DEF EdgeState
  <2>6. CASE ~edge[e].rx
    BY <1>5, <2>4, <2>6
  <2> QED BY <2>4, <2>5, <2>6
<1>7. /\ wired' \in [Endpoint -> Edge \cup {NoEdge}] /\ wired'[t] = NoEdge
      /\ \A s \in Endpoint : s # t => wired'[s] = wired[s]
  BY <1>1, <1>2 DEF HostTypes
<1>8. \A s, f : InLine(s, f)' <=> InLine(s, f)
  BY <1>2 DEF InLine
<1>9. ~edge[e].rx => Len(edge[e].buf) = 0 /\ \A s \in Endpoint : ~InLine(s, e)
  BY <1>1, <1>2 DEF LineInv
<1>10. ~edge[e].rx => edge[e].buf = <<>>
  BY <1>2, <1>9, EmptySeq DEF EdgeState
<1> HIDE DEF e
<1>11. HostTypes'
  BY <1>1, <1>2, <1>4, <1>6, <1>7 DEF HostTypes, charges
<1>12. HostLimits'
  BY <1>1, <1>2, <1>5, <1>6, EmptySeq, HostwardAssumption DEF HostLimits
<1>13. \A k \in 1 .. Len(sinks') : \E i \in 1 .. Len(sinks) :
           i # n /\ sinks'[k] = sinks[i] /\ i = IF k < n THEN k ELSE k + 1
  <2>1. ASSUME NEW k \in 1 .. Len(sinks')
        PROVE  \E i \in 1 .. Len(sinks) : i # n /\ sinks'[k] = sinks[i] /\ i = IF k < n THEN k ELSE k + 1
    <3> DEFINE i == IF k < n THEN k ELSE k + 1
    <3>1. i \in 1 .. Len(sinks) /\ i # n
      BY <1>3, <1>4
    <3>2. sinks'[k] = sinks[i]
      BY <1>4
    <3> QED BY <3>1, <3>2
  <2> QED BY <2>1
<1>14. ASSUME NEW i \in 1 .. Len(sinks), i # n
       PROVE  \E k \in 1 .. Len(sinks') : sinks'[k] = sinks[i]
  <2> DEFINE k == IF i < n THEN i ELSE i - 1
  <2>1. k \in 1 .. Len(sinks') /\ sinks'[k] = sinks[i]
    BY <1>3, <1>4, <1>14
  <2> QED BY <2>1
<1>15. SinksInv'
  <2>1. ASSUME NEW j \in 1 .. Len(sinks'), NEW k \in 1 .. Len(sinks'), sinks'[j] = sinks'[k]
        PROVE  j = k
    <3>1. PICK a \in 1 .. Len(sinks) : sinks'[j] = sinks[a] /\ a = IF j < n THEN j ELSE j + 1
      BY <1>13
    <3>2. PICK b \in 1 .. Len(sinks) : sinks'[k] = sinks[b] /\ b = IF k < n THEN k ELSE k + 1
      BY <1>13
    <3>3. a = b
      <4>1. sinks[a] = sinks[b] => a = b
        BY <1>1 DEF SinksInv
      <4> QED BY <2>1, <3>1, <3>2, <4>1
    <3> QED BY <1>3, <1>4, <3>1, <3>2, <3>3
  <2>2. ASSUME NEW k \in 1 .. Len(sinks'), NEW f, f = sinks'[k]
        PROVE  /\ edge'[f].tx /\ edge'[f].target \in Endpoint /\ wired'[edge'[f].target] = f
               /\ edge'[f].rx <=> edge'[f].target \in pumping'
    <3>1. PICK i \in 1 .. Len(sinks) : i # n /\ f = sinks[i]
      BY <1>13, <2>2
    <3>2. f # e /\ f \in Edge
      BY <1>1, <1>3, <3>1 DEF SinksInv, HostTypes
    <3>3. /\ edge[f].tx /\ edge[f].target \in Endpoint /\ wired[edge[f].target] = f
          /\ edge[f].rx <=> edge[f].target \in pumping
      BY <1>1, <3>1 DEF SinksInv
    <3>4. edge[f].target # t
      BY <3>2, <3>3 DEF e
    <3> QED BY <1>2, <1>6, <1>7, <3>2, <3>3, <3>4
  <2>3. ASSUME NEW f \in Edge, edge'[f].tx PROVE \E k \in 1 .. Len(sinks') : sinks'[k] = f
    <3>1. f # e /\ edge[f].tx
      BY <1>6, <2>3
    <3>2. PICK i \in 1 .. Len(sinks) : sinks[i] = f
      BY <1>1, <3>1 DEF SinksInv
    <3> QED BY <1>3, <1>14, <3>1, <3>2
  <2>4. ASSUME NEW s \in Endpoint, wired'[s] # NoEdge
        PROVE  edge'[wired'[s]].tx /\ edge'[wired'[s]].target = s
    <3>1. s # t /\ wired'[s] = wired[s] /\ wired[s] \in Edge
      BY <1>1, <1>7, <2>4 DEF HostTypes
    <3>2. edge[wired[s]].tx /\ edge[wired[s]].target = s
      BY <1>1, <2>4, <3>1 DEF SinksInv
    <3> QED BY <1>2, <1>6, <3>1, <3>2
  <2> QED BY <2>1, <2>2, <2>3, <2>4 DEF SinksInv
<1>16. LineInv' /\ OrderInv'
  <2>1. \A s \in Endpoint, f \in Edge : InLine(s, f)' => s \in pumping'
    BY <1>1, <1>2, <1>8 DEF LineInv
  <2>2. \A f \in Edge : edge'[f].tx => edge[f].tx
    BY <1>6
  <2>3. ASSUME NEW f \in Edge
        PROVE  \/ /\ edge'[f].target = edge[f].target /\ edge'[f].rx = edge[f].rx
                  /\ edge'[f].buf = edge[f].buf
                  /\ \A s \in Endpoint : InLine(s, f)' <=> InLine(s, f)
               \/ /\ ~edge'[f].rx /\ edge'[f].buf = <<>>
                  /\ \A s \in Endpoint : ~InLine(s, f)'
    <3>1. CASE f # e
      BY <1>6, <1>8, <3>1
    <3>2. CASE f = e /\ edge[e].rx
      <4>1. edge'[e].rx = edge[e].rx
        <5>1. edge[e].rx \in BOOLEAN /\ edge'[e].rx \in BOOLEAN
          BY <1>2, <1>6 DEF EdgeState
        <5> QED BY <1>6, <3>2, <5>1
      <4> QED BY <1>2, <1>6, <1>8, <3>2, <4>1
    <3>3. CASE f = e /\ ~edge[e].rx
      BY <1>5, <1>6, <1>8, <1>9, <3>3
    <3> QED BY <3>1, <3>2, <3>3
  <2> QED BY <1>2, <1>11, <2>1, <2>2, <2>3, ShrinkFrame
<1>17. ReaderInv' /\ CountInv'
  BY <1>2, ProducerFrame
<1>18. FateInv'
  <2>1. \A f \in Edge : f # e => Buf(f)' = Buf(f) /\ edge'[f].target = edge[f].target
    BY <1>6 DEF Buf
  <2>2. ASSUME NEW f \in Edge, f = e
        PROVE  \/ Buf(f)' = Buf(f) /\ edge'[f].target = edge[f].target
               \/ Buf(f)' = {} /\ Buf(f) = {}
    BY <1>2, <1>5, <1>6, <1>10, <2>2, SetOfEmpty DEF Buf
  <2>3. \A s \in pumping', f \in Edge : \A x :
           edge'[f].target = s /\ x \in Buf(f)' <=> edge[f].target = s /\ x \in Buf(f)
    BY <2>1, <2>2
  <2> QED BY <1>2, <2>3, FateFrame DEF charges
<1> QED BY <1>11, <1>12, <1>15, <1>16, <1>17, <1>18 DEF HostInv

\* An edge is connected: at the end of its consumer's line, and with nothing in it.
LEMMA ConnectEdgeInv ==
    ASSUME HostInv, NEW t \in Endpoint, ConnectEdge(t)
    PROVE  HostInv'
<1> DEFINE e == CHOOSE f \in Free : TRUE
           q == edgeInbox[t]
           a == Append(sinks, e)
           b == Append(q, e)
<1>1. HostTypes /\ HostLimits /\ SinksInv /\ LineInv /\ ReaderInv /\ CountInv /\ OrderInv /\ FateInv
  BY DEF HostInv
<1>2. /\ UNCHANGED <<serving, pumping, reader, charges, got, due>>
      /\ reader.pc # "sending" /\ wired[t] = NoEdge /\ e \in Free /\ Attach(t, e)
  BY DEF ConnectEdge, MutexFree
<1> HIDE DEF e
<1>3. ReaderInv' /\ CountInv'
  BY <1>2, ProducerFrame
<1>4. CASE t \in pumping /\ Len(q) = EdgeInboxCap
  <2>1. UNCHANGED <<edges, reader, charges, got, due>>
    BY <1>2, <1>4 DEF Attach, edges
  <2>2. HostLimits' /\ SinksInv' /\ LineInv' /\ OrderInv' /\ FateInv'
    BY <2>1, EdgesFrame DEF charges
  <2>3. HostTypes'
    BY <1>1, <2>1 DEF HostTypes, edges, charges
  <2> QED BY <1>3, <2>2, <2>3 DEF HostInv
<1>5. CASE ~(t \in pumping /\ Len(q) = EdgeInboxCap)
  <2>1. /\ edgeInbox' = IF t \in pumping THEN [edgeInbox EXCEPT ![t] = b] ELSE edgeInbox
        /\ edge' = [edge EXCEPT ![e] = [target |-> t, buf |-> <<>>, tx |-> TRUE, rx |-> t \in pumping]]
        /\ sinks' = a /\ wired' = [wired EXCEPT ![t] = e]
    BY <1>2, <1>5 DEF Attach
  <2>2. /\ e \in Edge /\ e # NoEdge
        /\ \A i \in 1 .. Len(sinks) : sinks[i] # e
        /\ \A s \in Endpoint : ~InLine(s, e)
    <3>1. e \in Edge /\ e \notin InUse
      BY <1>2 DEF Free
    <3>2. sinks \in Seq(Edge) /\ \A s \in Endpoint : edgeInbox[s] \in Seq(Edge)
      BY <1>1 DEF HostTypes
    <3>3. \A i \in 1 .. Len(sinks) : sinks[i] \in ToSet(sinks)
      BY <3>2, SetOf
    <3>4. \A s \in Endpoint : \A i \in 1 .. Len(edgeInbox[s]) : edgeInbox[s][i] \in ToSet(edgeInbox[s])
      BY <3>2, SetOf
    <3> QED BY <3>1, <3>3, <3>4 DEF InUse, InLine, Edge, NoEdge
  <2>3. /\ ~edge[e].rx /\ ~edge[e].tx /\ Len(edge[e].buf) = 0
        /\ edge[e] \in EdgeState
    <3>1. ~edge[e].rx
      BY <1>1, <2>2 DEF LineInv
    <3>2. ~edge[e].tx
      BY <1>1, <2>2 DEF SinksInv
    <3> QED BY <1>1, <2>2, <3>1, <3>2 DEF LineInv, HostTypes
  <2>4. /\ a \in Seq(Edge) /\ Len(a) = Len(sinks) + 1 /\ Len(sinks) \in Nat
        /\ \A i \in 1 .. Len(sinks) + 1 : a[i] = IF i = Len(sinks) + 1 THEN e ELSE sinks[i]
    <3>1. sinks \in Seq(Edge)
      BY <1>1 DEF HostTypes
    <3> QED BY <2>2, <3>1, SetOfAppend, SetOf
  <2>5. /\ q \in Seq(Edge) /\ b \in Seq(Edge) /\ Len(b) = Len(q) + 1 /\ Len(q) \in Nat
        /\ \A i \in 1 .. Len(q) + 1 : b[i] = IF i = Len(q) + 1 THEN e ELSE q[i]
    <3>1. q \in Seq(Edge)
      BY <1>1 DEF HostTypes
    <3> QED BY <2>2, <3>1, SetOfAppend, SetOf
  <2> HIDE DEF a, b
  <2>6. /\ edge' \in [Edge -> EdgeState]
        /\ edge'[e].target = t /\ edge'[e].buf = <<>> /\ edge'[e].tx
        /\ edge'[e].rx <=> t \in pumping
        /\ \A f \in Edge : f # e => edge'[f] = edge[f]
    <3> DEFINE yes == TRUE
               rx == t \in pumping
               new == [target |-> t, buf |-> <<>>, tx |-> yes, rx |-> rx]
    <3>1. yes \in BOOLEAN /\ yes /\ rx \in BOOLEAN /\ (rx <=> t \in pumping)
      OBVIOUS
    <3>2. edge' = [edge EXCEPT ![e] = new]
      BY <2>1
    <3> HIDE DEF yes, rx
    <3>3. new \in EdgeState /\ new.target = t /\ new.buf = <<>> /\ new.tx /\ new.rx = rx
      BY <3>1, EmptySeq DEF EdgeState
    <3> HIDE DEF new
    <3>4. /\ edge' \in [Edge -> EdgeState] /\ edge'[e] = new
          /\ \A f \in Edge : f # e => edge'[f] = edge[f]
      BY <1>1, <2>2, <3>2, <3>3 DEF HostTypes
    <3> QED BY <3>1, <3>3, <3>4
  <2>7. /\ edgeInbox' \in [Endpoint -> Seq(Edge)]
        /\ edgeInbox'[t] = IF t \in pumping THEN b ELSE q
        /\ \A s \in Endpoint : s # t => edgeInbox'[s] = edgeInbox[s]
        /\ wired' \in [Endpoint -> Edge \cup {NoEdge}] /\ wired'[t] = e
        /\ \A s \in Endpoint : s # t => wired'[s] = wired[s]
    BY <1>1, <2>1, <2>2, <2>5 DEF HostTypes
  <2>8. HostTypes'
    BY <1>1, <1>2, <2>1, <2>4, <2>6, <2>7 DEF HostTypes, charges
  <2>9. HostLimits'
    <3>1. Len(q) <= EdgeInboxCap
      BY <1>1 DEF HostLimits
    <3>2. t \in pumping => Len(b) <= EdgeInboxCap
      BY <1>5, <2>5, <3>1, HostwardAssumption
    <3>3. \A s \in Endpoint : Len(edgeInbox'[s]) <= EdgeInboxCap
      BY <1>1, <2>7, <3>1, <3>2 DEF HostLimits
    <3>4. \A f \in Edge : Len(edge'[f].buf) <= EdgeDepth
      BY <1>1, <2>6, EmptySeq, HostwardAssumption DEF HostLimits
    <3> QED BY <3>3, <3>4 DEF HostLimits
  <2>10. \A i \in 1 .. Len(sinks') :
            \/ i = Len(sinks) + 1 /\ sinks'[i] = e
            \/ i \in 1 .. Len(sinks) /\ sinks'[i] = sinks[i] /\ sinks[i] # e /\ sinks[i] \in Edge
    <3>1. \A i \in 1 .. Len(sinks) : sinks[i] \in Edge
      BY <1>1 DEF HostTypes
    <3>2. \A i \in 1 .. Len(sinks) + 1 : i = Len(sinks) + 1 \/ i \in 1 .. Len(sinks)
      BY <2>4
    <3>3. \A i \in 1 .. Len(sinks) : i # Len(sinks) + 1 /\ i \in 1 .. Len(sinks) + 1
      BY <2>4
    <3> QED BY <2>1, <2>2, <2>4, <3>1, <3>2, <3>3
  <2>11. \A i \in 1 .. Len(sinks) : i \in 1 .. Len(sinks') /\ sinks'[i] = sinks[i]
    <3>1. \A i \in 1 .. Len(sinks) : i # Len(sinks) + 1 /\ i \in 1 .. Len(sinks) + 1
      BY <2>4
    <3> QED BY <2>1, <2>4, <3>1
  <2>12. SinksInv'
    <3>1. ASSUME NEW i \in 1 .. Len(sinks'), NEW j \in 1 .. Len(sinks'), sinks'[i] = sinks'[j]
          PROVE  i = j
      <4>1. \A k, l \in 1 .. Len(sinks) : sinks[k] = sinks[l] => k = l
        BY <1>1 DEF SinksInv
      <4> QED BY <2>10, <3>1, <4>1
    <3>2. ASSUME NEW i \in 1 .. Len(sinks'), NEW f, f = sinks'[i]
          PROVE  /\ edge'[f].tx /\ edge'[f].target \in Endpoint /\ wired'[edge'[f].target] = f
                 /\ edge'[f].rx <=> edge'[f].target \in pumping'
      <4>1. CASE f = e
        BY <1>2, <2>6, <2>7, <4>1
      <4>2. CASE f # e
        <5>1. i \in 1 .. Len(sinks) /\ f = sinks[i] /\ f \in Edge /\ f # NoEdge
          BY <2>10, <3>2, <4>2 DEF Edge, NoEdge
        <5>2. /\ edge[f].tx /\ edge[f].target \in Endpoint /\ wired[edge[f].target] = f
              /\ edge[f].rx <=> edge[f].target \in pumping
          BY <1>1, <5>1 DEF SinksInv
        <5>3. edge[f].target # t
          BY <1>2, <5>1, <5>2
        <5> QED BY <1>2, <2>6, <2>7, <4>2, <5>1, <5>2, <5>3
      <4> QED BY <4>1, <4>2
    <3>3. ASSUME NEW f \in Edge, edge'[f].tx PROVE \E i \in 1 .. Len(sinks') : sinks'[i] = f
      <4>1. CASE f = e
        <5>1. Len(sinks) + 1 \in 1 .. Len(sinks')
          BY <2>1, <2>4
        <5> QED BY <2>1, <2>4, <4>1, <5>1
      <4>2. CASE f # e
        <5>1. PICK i \in 1 .. Len(sinks) : sinks[i] = f
          BY <1>1, <2>6, <3>3, <4>2 DEF SinksInv
        <5> QED BY <2>11, <5>1
      <4> QED BY <4>1, <4>2
    <3>4. ASSUME NEW s \in Endpoint, wired'[s] # NoEdge
          PROVE  edge'[wired'[s]].tx /\ edge'[wired'[s]].target = s
      <4>1. CASE s = t
        BY <2>6, <2>7, <4>1
      <4>2. CASE s # t
        <5>1. wired'[s] = wired[s] /\ wired[s] \in Edge
          BY <1>1, <2>7, <3>4, <4>2 DEF HostTypes
        <5>2. edge[wired[s]].tx /\ edge[wired[s]].target = s
          BY <1>1, <3>4, <5>1 DEF SinksInv
        <5> QED BY <2>3, <2>6, <5>1, <5>2
      <4> QED BY <4>1, <4>2
    <3> QED BY <3>1, <3>2, <3>3, <3>4 DEF SinksInv
  <2>13. \A f \in Edge : InLine(t, f) => ~edge[f].tx
    <3>1. ASSUME NEW f \in Edge, InLine(t, f), edge[f].tx PROVE FALSE
      <4>1. edge[f].target = t
        BY <1>1, <3>1 DEF LineInv
      <4>2. wired[t] = f
        BY <1>1, <3>1, <4>1 DEF SinksInv
      <4> QED BY <1>2, <4>2 DEF Edge, NoEdge
    <3> QED BY <3>1
  <2>14. ASSUME NEW s \in Endpoint, NEW i \in 1 .. Len(edgeInbox'[s])
         PROVE  \/ /\ s = t /\ t \in pumping /\ i = Len(q) + 1
                   /\ edgeInbox'[s][i] = e /\ i = Len(edgeInbox'[s])
                \/ /\ i \in 1 .. Len(edgeInbox[s]) /\ edgeInbox'[s][i] = edgeInbox[s][i]
                   /\ edgeInbox[s][i] # e /\ edgeInbox[s][i] \in Edge
    <3>1. \A k \in 1 .. Len(edgeInbox[s]) : edgeInbox[s][k] # e /\ edgeInbox[s][k] \in Edge
      BY <1>1, <2>2 DEF InLine, HostTypes
    <3>2. CASE s # t \/ t \notin pumping
      BY <2>7, <3>1, <3>2
    <3>3. CASE s = t /\ t \in pumping
      <4>1. i \in 1 .. Len(q) + 1
        BY <2>5, <2>7, <3>3
      <4>2. CASE i = Len(q) + 1
        BY <2>5, <2>7, <3>3, <4>1, <4>2
      <4>3. CASE i # Len(q) + 1
        <5>1. i \in 1 .. Len(q) /\ b[i] = q[i]
          BY <2>5, <4>1, <4>3
        <5> QED BY <2>7, <3>1, <3>3, <5>1
      <4> QED BY <4>2, <4>3
    <3> QED BY <3>2, <3>3
  <2>15. ASSUME NEW s \in Endpoint, NEW i \in 1 .. Len(edgeInbox[s])
         PROVE  i \in 1 .. Len(edgeInbox'[s]) /\ edgeInbox'[s][i] = edgeInbox[s][i]
    <3>1. CASE s # t \/ t \notin pumping
      BY <2>7, <3>1
    <3>2. CASE s = t /\ t \in pumping
      <4>1. i \in 1 .. Len(q) + 1 /\ i # Len(q) + 1
        BY <2>5, <3>2
      <4> QED BY <2>5, <2>7, <3>2, <4>1
    <3> QED BY <3>1, <3>2
  <2>16. ASSUME NEW s \in Endpoint, NEW f \in Edge
         PROVE  InLine(s, f)' <=> InLine(s, f) \/ (s = t /\ f = e /\ t \in pumping)
    <3>1. ASSUME InLine(s, f)' PROVE InLine(s, f) \/ (s = t /\ f = e /\ t \in pumping)
      BY <1>2, <2>14, <3>1 DEF InLine
    <3>2. ASSUME InLine(s, f) PROVE InLine(s, f)'
      BY <1>2, <2>15, <3>2 DEF InLine
    <3>3. ASSUME t \in pumping, s = t, f = e PROVE InLine(s, f)'
      <4>1. Len(q) + 1 \in 1 .. Len(edgeInbox'[t]) /\ edgeInbox'[t][Len(q) + 1] = e
        BY <2>5, <2>7, <3>3
      <4> QED BY <3>3, <4>1 DEF InLine
    <3> QED BY <3>1, <3>2, <3>3
  <2>17. LineInv'
    <3>1. \A s \in Endpoint, f \in Edge : InLine(s, f)' =>
             s \in pumping' /\ edge'[f].target = s /\ edge'[f].rx
      <4>1. ASSUME NEW s \in Endpoint, NEW f \in Edge, InLine(s, f)'
            PROVE  s \in pumping' /\ edge'[f].target = s /\ edge'[f].rx
        <5>1. CASE f = e
          BY <1>2, <2>2, <2>6, <2>16, <4>1, <5>1
        <5>2. CASE f # e
          <6>1. s \in pumping /\ edge[f].target = s /\ edge[f].rx
            BY <1>1, <2>16, <4>1, <5>2 DEF LineInv
          <6> QED BY <1>2, <2>6, <5>2, <6>1
        <5> QED BY <5>1, <5>2
      <4> QED BY <4>1
    <3>2. ASSUME NEW s \in Endpoint, NEW i \in 1 .. Len(edgeInbox'[s]),
                 NEW j \in 1 .. Len(edgeInbox'[s]), edgeInbox'[s][i] = edgeInbox'[s][j]
          PROVE  i = j
      <4>1. \A k, l \in 1 .. Len(edgeInbox[s]) : edgeInbox[s][k] = edgeInbox[s][l] => k = l
        BY <1>1 DEF LineInv
      <4>2. CASE edgeInbox'[s][i] = e
        BY <2>14, <3>2, <4>2
      <4>3. CASE edgeInbox'[s][i] # e
        <5>1. /\ i \in 1 .. Len(edgeInbox[s]) /\ edgeInbox'[s][i] = edgeInbox[s][i]
              /\ j \in 1 .. Len(edgeInbox[s]) /\ edgeInbox'[s][j] = edgeInbox[s][j]
          BY <2>14, <3>2, <4>3
        <5> QED BY <3>2, <4>1, <5>1
      <4> QED BY <4>2, <4>3
    <3>3. ASSUME NEW s \in Endpoint, NEW i \in 1 .. Len(edgeInbox'[s])
          PROVE  /\ serving'[s] # edgeInbox'[s][i]
                 /\ edge'[edgeInbox'[s][i]].tx => i = Len(edgeInbox'[s])
      <4>1. CASE edgeInbox'[s][i] = e
        <5>1. serving'[s] # e
          BY <1>2, <2>2 DEF InLine
        <5> QED BY <2>14, <4>1, <5>1
      <4>2. CASE edgeInbox'[s][i] # e
        <5>1. /\ i \in 1 .. Len(edgeInbox[s]) /\ edgeInbox'[s][i] = edgeInbox[s][i]
              /\ edgeInbox[s][i] \in Edge
          BY <2>14, <4>2
        <5>2. serving[s] # edgeInbox[s][i] /\ (edge[edgeInbox[s][i]].tx => i = Len(edgeInbox[s]))
          BY <1>1, <5>1 DEF LineInv
        <5>3. InLine(s, edgeInbox[s][i])
          BY <5>1 DEF InLine
        <5>4. s # t => edgeInbox'[s] = edgeInbox[s]
          BY <2>7
        <5> QED BY <1>2, <2>6, <2>13, <4>2, <5>1, <5>2, <5>3, <5>4
      <4> QED BY <4>1, <4>2
    <3>4. ASSUME NEW s \in Endpoint, serving'[s] # NoEdge, edge'[serving'[s]].tx
          PROVE  Len(edgeInbox'[s]) = 0
      <4>1. serving'[s] = serving[s] /\ serving[s] \in Edge /\ InLine(s, serving[s])
        BY <1>1, <1>2, <3>4 DEF HostTypes, InLine
      <4>2. serving[s] # e
        BY <2>2, <4>1
      <4>3. edge[serving[s]].tx
        BY <2>6, <3>4, <4>1, <4>2
      <4>4. s # t /\ Len(edgeInbox[s]) = 0
        BY <1>1, <2>13, <3>4, <4>1, <4>3 DEF LineInv
      <4> QED BY <2>7, <4>4
    <3>5. ASSUME NEW f \in Edge, edge'[f].rx
          PROVE  edge'[f].target \in Endpoint /\ InLine(edge[f].target, f)'
      <4>1. CASE f = e
        <5>1. InLine(t, f)'
          BY <2>6, <2>16, <3>5, <4>1
        <5> QED BY <2>6, <4>1, <5>1 DEF InLine
      <4>2. CASE f # e
        <5>1. edge'[f].target = edge[f].target /\ edge[f].target \in Endpoint
              /\ InLine(edge[f].target, f)
          BY <1>1, <2>6, <3>5, <4>2 DEF LineInv
        <5>2. PICK s \in Endpoint : s = edge[f].target
          BY <5>1
        <5>3. InLine(s, f)'
          BY <2>16, <5>1, <5>2
        <5> QED BY <5>1, <5>2, <5>3 DEF InLine
      <4> QED BY <4>1, <4>2
    <3>6. \A f \in Edge : Len(edge'[f].buf) # 0 => edge'[f].rx
      BY <1>1, <2>6, EmptySeq DEF LineInv
    <3> QED BY <3>1, <3>2, <3>3, <3>4, <3>5, <3>6 DEF LineInv
  <2>18. \A f \in Edge : Buf(f)' = Buf(f) /\ (f = e => Buf(f) = {})
    <3>1. ASSUME NEW f \in Edge, f = e PROVE Buf(f)' = {} /\ Buf(f) = {}
      <4>1. edge[e].buf = <<>>
        BY <2>3, EmptySeq DEF EdgeState
      <4> QED BY <2>6, <3>1, <4>1, SetOfEmpty DEF Buf
    <3>2. ASSUME NEW f \in Edge, f # e PROVE Buf(f)' = Buf(f)
      BY <2>6, <3>2 DEF Buf
    <3> QED BY <3>1, <3>2
  <2>19. OrderInv'
    <3>1. \A f \in Edge : Rising(edge'[f].buf)
      <4>1. Rising(<<>>)
        BY EmptySeq DEF Rising
      <4> QED BY <1>1, <2>6, <4>1 DEF OrderInv
    <3>2. \A s \in Endpoint : Rising(got'[s])
      BY <1>1, <1>2 DEF OrderInv
    <3>3. \A S, T : T = {} => Before(S, T)
      BY DEF Before
    <3>4. ASSUME NEW s \in Endpoint, NEW f \in Edge, edge'[f].target = s
          PROVE  Before(ToSet(got'[s]), Buf(f)')
      <4>1. CASE f = e
        BY <2>18, <3>3, <4>1
      <4>2. CASE f # e
        BY <1>1, <1>2, <2>6, <2>18, <3>4, <4>2 DEF OrderInv
      <4> QED BY <4>1, <4>2
    <3>5. ASSUME NEW s \in Endpoint, NEW i \in 1 .. Len(edgeInbox'[s]),
                 NEW j \in 1 .. Len(edgeInbox'[s]), i < j
          PROVE  Before(Buf(edgeInbox[s][i])', Buf(edgeInbox[s][j])')
      <4>1. PICK f \in Edge, g \in Edge : f = edgeInbox'[s][i] /\ g = edgeInbox'[s][j]
        BY <2>2, <2>14
      <4>2. Before(Buf(f), Buf(g))
        <5>1. CASE g = e
          BY <2>18, <3>3, <5>1
        <5>2. CASE g # e
          <6>1. j \in 1 .. Len(edgeInbox[s]) /\ g = edgeInbox[s][j]
            BY <2>14, <4>1, <5>2
          <6>2. f # e
            <7>1. ASSUME f = e PROVE FALSE
              <8>1. s = t /\ i = Len(q) + 1
                BY <2>14, <4>1, <7>1
              <8> QED BY <2>5, <3>5, <6>1, <8>1
            <7> QED BY <7>1
          <6>3. i \in 1 .. Len(edgeInbox[s]) /\ f = edgeInbox[s][i]
            BY <2>14, <4>1, <6>2
          <6> QED BY <1>1, <3>5, <6>1, <6>3 DEF OrderInv
        <5> QED BY <5>1, <5>2
      <4>3. Before(Buf(f)', Buf(g)')
        BY <2>18, <4>2
      <4> QED BY <4>1, <4>3 DEF Buf
    <3>6. ASSUME NEW s \in Endpoint, NEW i \in 1 .. Len(edgeInbox'[s]), serving'[s] # NoEdge
          PROVE  Before(Buf(serving[s])', Buf(edgeInbox[s][i])')
      <4>1. PICK f \in Edge, g \in Edge : f = serving'[s] /\ g = edgeInbox'[s][i]
        BY <1>1, <1>2, <2>2, <2>14, <3>6 DEF HostTypes
      <4>2. Before(Buf(f), Buf(g))
        <5>1. CASE g = e
          BY <2>18, <3>3, <5>1
        <5>2. CASE g # e
          <6>1. i \in 1 .. Len(edgeInbox[s]) /\ g = edgeInbox[s][i]
            BY <2>14, <4>1, <5>2
          <6> QED BY <1>1, <1>2, <3>6, <4>1, <6>1 DEF OrderInv
        <5> QED BY <5>1, <5>2
      <4>3. Before(Buf(f)', Buf(g)')
        BY <2>18, <4>2
      <4> QED BY <4>1, <4>3 DEF Buf
    <3> QED BY <3>1, <3>2, <3>4, <3>5, <3>6 DEF OrderInv
  <2>20. FateInv'
    <3>1. \A s \in pumping', f \in Edge : \A x :
             edge'[f].target = s /\ x \in Buf(f)' <=> edge[f].target = s /\ x \in Buf(f)
      BY <2>6, <2>18
    <3> QED BY <1>2, <3>1, FateFrame DEF charges
  <2> QED BY <1>3, <2>8, <2>9, <2>12, <2>17, <2>19, <2>20 DEF HostInv
<1> QED BY <1>4, <1>5

\* Every step keeps the invariant.
LEMMA HostStepInv ==
    ASSUME HostInv, [HostNext]_hostVars
    PROVE  HostInv'
<1>1. CASE UNCHANGED hostVars
  <2>1. UNCHANGED <<edges, reader, charges, got, due>>
    BY <1>1 DEF hostVars, edges, charges
  <2>2. HostLimits' /\ SinksInv' /\ LineInv' /\ OrderInv' /\ FateInv'
    BY <2>1, EdgesFrame DEF charges
  <2>3. ReaderInv' /\ CountInv'
    BY <2>1, ProducerFrame DEF edges
  <2>4. HostTypes'
    BY <2>1 DEF HostInv, HostTypes, edges, charges
  <2> QED BY <2>2, <2>3, <2>4 DEF HostInv
<1>2. ASSUME NEW w \in BOOLEAN, ReadChunk(w) PROVE HostInv'
  BY <1>2, ReadChunkInv
<1>3. CASE BeginBroadcast
  BY <1>3, BeginBroadcastInv
<1>4. CASE SendNext
  BY <1>4, SendNextInv
<1>5. CASE EndBroadcast
  BY <1>5, EndBroadcastInv
<1>6. ASSUME NEW t \in Endpoint, ConnectEdge(t) PROVE HostInv'
  BY <1>6, ConnectEdgeInv
<1>7. ASSUME NEW t \in Endpoint, DisconnectEdge(t) PROVE HostInv'
  BY <1>7, DisconnectEdgeInv
<1>8. ASSUME NEW t \in Endpoint, RemoveConsumer(t) PROVE HostInv'
  BY <1>8, RemoveConsumerInv
<1>9. ASSUME NEW t \in Endpoint, PumpStep(t) PROVE HostInv'
  BY <1>9, TakeEdgeInv, RecvInv, EdgeEndsInv DEF PumpStep
<1> QED BY <1>1, <1>2, <1>3, <1>4, <1>5, <1>6, <1>7, <1>8, <1>9 DEF HostNext

\* The invariant of the fan-out holds in every state, for any number of
\* endpoints, edges and chunks and any depth of the queues.
THEOREM HostInvariance == HostSpec => []HostInv
<1>1. HostInit => HostInv
  BY HostInitInv
<1>2. HostInv /\ [HostNext]_hostVars => HostInv'
  BY HostStepInv
<1> QED BY <1>1, <1>2, PTL DEF HostSpec

\* What a consumer hears is a faithful account of the device's stream: in order,
\* complete up to what is counted, every loss counted once and at the right place.
THEOREM HostwardAccount == HostSpec => []HostwardSound
<1>1. HostInv => HostwardSound
  <2> SUFFICES ASSUME HostInv PROVE HostwardSound
    OBVIOUS
  <2>1. HostTypes /\ HostLimits /\ SinksInv /\ ReaderInv /\ CountInv /\ OrderInv /\ FateInv
    BY DEF HostInv
  <2>2. reader.chunk \in 0 .. HostChunks /\ reader.pc \in {"idle", "checked", "sending"}
    BY <2>1 DEF HostTypes, ReaderState
  <2>3. IsInjective(sinks)
    <3>1. DOMAIN sinks = 1 .. Len(sinks)
      BY <2>1 DEF HostTypes
    <3> QED BY <2>1, <3>1 DEF SinksInv, IsInjective
  <2>4. ASSUME NEW t \in Endpoint PROVE full[t] \subseteq 1 .. HostChunks
    <3>1. \A x \in full[t] : x \in 1 .. reader.chunk
      BY <2>1 DEF CountInv
    <3> QED BY <2>2, <3>1, HostwardAssumption
  <2>5. HostTypeOK
    BY <2>1, <2>2, <2>3, <2>4 DEF HostTypeOK, HostTypes, HostLimits
  <2>6. HostwardExact
    <3>1. ASSUME NEW t \in Endpoint, t \in pumping
          PROVE  /\ due[t] = ToSet(got[t]) \cup Waiting(t) \cup full[t]
                 /\ full[t] \cap (ToSet(got[t]) \cup Waiting(t)) = {}
                 /\ unattached \cap due[t] = {}
      BY <2>1, <3>1 DEF FateInv, CountInv
    <3>2. unattached \cap delivered = {}
      BY <2>1 DEF CountInv
    <3>3. \A c \in 1 .. reader.chunk :
             c \in unattached \cup delivered \cup UNION {full[t] : t \in Endpoint}
             \/ (c = reader.chunk /\ reader.pc # "idle")
      BY <2>1 DEF CountInv
    <3> QED BY <3>1, <3>2, <3>3 DEF HostwardExact
  <2>7. HostwardInOrder
    <3>1. \A t \in Endpoint : DOMAIN got[t] = 1 .. Len(got[t])
      BY <2>1 DEF HostTypes
    <3> QED BY <2>1, <3>1 DEF HostwardInOrder, OrderInv, Rising
  <2> QED BY <2>5, <2>6, <2>7 DEF HostwardSound
<1> QED BY <1>1, HostInvariance, PTL

\* A configured edge has its sink, and its receiver is in the hands of the
\* consumer's pump if there is one.
THEOREM ConfiguredEdgeIsHeard == HostSpec => []ConfiguredEdgeHeard
<1>1. HostInv => ConfiguredEdgeHeard
  <2> SUFFICES ASSUME HostInv, NEW t \in Endpoint, wired[t] # NoEdge
               PROVE  /\ wired[t] \in ToSet(sinks)
                      /\ t \in pumping => wired[t] \in ToSet(edgeInbox[t]) \cup {serving[t]}
    BY DEF ConfiguredEdgeHeard
  <2> DEFINE e == wired[t]
  <2>1. HostTypes /\ SinksInv /\ LineInv
    BY DEF HostInv
  <2>2. e \in Edge /\ sinks \in Seq(Edge) /\ edgeInbox[t] \in Seq(Edge)
    BY <2>1 DEF HostTypes
  <2>3. edge[e].tx /\ edge[e].target = t
    BY <2>1 DEF SinksInv
  <2>4. PICK i \in 1 .. Len(sinks) : sinks[i] = e
    BY <2>1, <2>2, <2>3 DEF SinksInv
  <2>5. e \in ToSet(sinks)
    BY <2>2, <2>4, SetOf
  <2>6. t \in pumping => InLine(t, e)
    BY <2>1, <2>2, <2>3, <2>4 DEF SinksInv, LineInv
  <2>7. \A x : x \in ToSet(edgeInbox[t]) <=> \E k \in 1 .. Len(edgeInbox[t]) : edgeInbox[t][k] = x
    BY <2>2, SetOf
  <2> QED BY <2>5, <2>6, <2>7 DEF InLine
<1> QED BY <1>1, HostInvariance, PTL
-----------------------------------------------------------------------------
(* The tap hub: the inductive invariant *)

Message == [offset : Nat, byte : Nat, gap : Nat]
TapState == [st : {"none", "open", "closed", "orphaned"}, out : Seq(Message \cup {Closed}),
             lane : BOOLEAN, told : BOOLEAN, read : Seq(Message), dropped : Nat,
             from : Nat, base : Nat, gaps : Nat]
WaitState == [st : {"none", "armed", "settled", "over"}, win : Seq(Nat), gap : Nat, credit : Nat,
              from : Nat, end : {"none", "matched", "closed"}, parked : BOOLEAN,
              answer : {"none", "refused", "matched", "closed", "timed out"},
              hit : Seq(Nat), upto : Nat, cut : Nat, lossAt : Nat]
HubState == [ring : Seq(Nat), hasRing : BOOLEAN, gapAt : Nat \X Nat, seen : Nat, orphaned : BOOLEAN]
FeedState == [q : Seq(Nat), active : BOOLEAN, dropped : Nat]

\* What the producer emitted is in the hub, in the feed or counted, and in order.
StreamInv ==
    /\ emitted \in [n : 0 .. StreamLen, pc : {"idle", "send", "count"}]
    /\ feed \in FeedState /\ Len(feed.q) <= FeedCap /\ inHub \in Seq(Nat)
    /\ emitted.n = Len(inHub) + Len(feed.q) + feed.dropped + (IF emitted.pc = "idle" THEN 0 ELSE 1)
    /\ Rising(inHub) /\ Rising(feed.q) /\ Before(ToSet(inHub), ToSet(feed.q))
    /\ \A x \in ToSet(inHub) \cup ToSet(feed.q) :
           x <= emitted.n /\ (emitted.pc # "idle" => x < emitted.n)

\* r is the newest part of s.
SuffixOf(r, s) ==
    /\ Len(r) <= Len(s)
    /\ \A i \in 1 .. Len(r) : r[i] = s[Len(s) - Len(r) + i]

\* The ring is the newest part of what was ingested, and a hole it remembers is one.
RingInv ==
    /\ hub \in HubState
    /\ hub.seen <= feed.dropped
    /\ Len(hub.ring) <= RingCap /\ SuffixOf(hub.ring, inHub)
    /\ hub.gapAt[1] <= Len(inHub) /\ (hub.gapAt[1] > 0 => hub.gapAt[2] > 0)
    /\ hub.orphaned => ~hub.hasRing
    /\ ~hub.hasRing => Len(hub.ring) = 0

\* A message of a tap says what the hub ingested at its offset.
TrueMessage(m, from, s) ==
    /\ m \in Message /\ m.offset >= from /\ m.offset < Len(s)
    /\ m.byte = s[m.offset + 1]

\* What a tap was sent, given that the hub ingested s and reported the loss l.
TapOk(tp, s, l) ==
    /\ tp \in TapState /\ Len(tp.out) <= TapQueueCap
    /\ \A i \in 1 .. Len(tp.read) : TrueMessage(tp.read[i], tp.from, s)
    /\ \A i \in 1 .. Len(tp.out) :
           \/ TrueMessage(tp.out[i], tp.from, s)
           \/ tp.out[i] = Closed /\ i = Len(tp.out) /\ tp.st = "orphaned"
    /\ \A i, j \in 1 .. Len(tp.read) : i < j => tp.read[i].offset < tp.read[j].offset
    /\ \A i, j \in 1 .. Len(tp.out) :
           i < j /\ tp.out[j] # Closed => tp.out[i].offset < tp.out[j].offset
    /\ \A i \in 1 .. Len(tp.read), j \in 1 .. Len(tp.out) :
           tp.out[j] # Closed => tp.read[i].offset < tp.out[j].offset
    /\ tp.st = "open" => Len(s) - tp.from = Len(tp.read) + Len(tp.out) + tp.dropped
    /\ tp.st = "open" /\ tp.dropped = 0 => tp.base + tp.gaps = l
    /\ tp.st = "orphaned" => \/ tp.told \/ tp.lane
                             \/ Len(tp.out) # 0 /\ tp.out[Len(tp.out)] = Closed

\* The pattern does not occur in s after `from' and up to `upto'.
Absent(from, upto, s) ==
    \A o \in from + 1 .. upto - 1 : ~(Odd(s[o]) /\ ~Odd(s[o + 1]))

\* What a wait knows: a window that ends at the live edge, and no pattern before
\* it unless a gap was reported.
WaitOk(wt, s, seen, dropped) ==
    /\ wt \in WaitState /\ Len(wt.win) <= Lookback
    /\ wt.st = "armed" =>
           /\ wt.parked /\ wt.from <= Len(s) /\ wt.lossAt <= dropped
           /\ wt.credit = IF wt.lossAt > seen THEN wt.lossAt - seen ELSE 0
           /\ wt.gap = wt.cut + (IF seen > wt.lossAt THEN seen - wt.lossAt ELSE 0)
           /\ wt.gap = 0 => /\ Absent(wt.from, Len(s), s)
                            /\ SuffixOf(wt.win, s)
                            /\ wt.from < Len(s) => Len(wt.win) # 0
    /\ wt.answer = "timed out" =>
           /\ wt.st = "over" /\ wt.upto <= Len(s)
           /\ wt.gap = 0 => Absent(wt.from, wt.upto, s)

\* The hub is mirrored to while somebody observes, and nobody observes one that
\* has been given up.
ObserverInv ==
    /\ ObserversAreFed
    /\ hub.orphaned => OpenTaps(taps) = {} /\ Armed(waits) = {}
    /\ IsFiniteSet(Armed(waits)) /\ Cardinality(Armed(waits)) <= MaxArmedWaits

TapInv ==
    /\ StreamInv /\ RingInv /\ ObserverInv
    /\ taps \in [Tap -> TapState] /\ \A k \in Tap : TapOk(taps[k], inHub, hub.seen)
    /\ waits \in [Wait -> WaitState]
    /\ \A w \in Wait : WaitOk(waits[w], inHub, hub.seen, feed.dropped)
-----------------------------------------------------------------------------
(* The tap hub: rings and windows *)

\* The newest n elements of a sequence.
LEMMA NewestOf ==
    ASSUME NEW s \in Seq(Nat), NEW n \in 0 .. Len(s)
    PROVE  /\ Newest(s, n) \in Seq(Nat) /\ Len(Newest(s, n)) = n
           /\ \A i \in 1 .. n : Newest(s, n)[i] = s[Len(s) - n + i]
<1> DEFINE m == Len(s)
           k == m - n + 1
<1>1. m \in Nat /\ n \in Nat /\ n <= m /\ \A i \in 1 .. m : s[i] \in Nat
  OBVIOUS
<1>2. k \in Int /\ m \in Int /\ m - k + 1 = n /\ \A i \in k .. m : i \in 1 .. m
  BY <1>1
<1>3. Newest(s, n) = SubSeq(s, k, m)
  BY DEF Newest
<1>4. /\ SubSeq(s, k, m) \in Seq(Nat)
      /\ Len(SubSeq(s, k, m)) = IF k <= m THEN m - k + 1 ELSE 0
      /\ \A i \in 1 .. m - k + 1 : SubSeq(s, k, m)[i] = s[k + i - 1]
  <2> HIDE DEF k, m
  <2>1. \A i \in k .. m : s[i] \in Nat
    BY <1>1, <1>2
  <2> QED BY <1>2, <2>1, SubSeqProperties
<1>5. (IF k <= m THEN m - k + 1 ELSE 0) = n
  BY <1>1
<1>6. \A i \in 1 .. n : k + i - 1 = m - n + i
  BY <1>1
<1> HIDE DEF k
<1> QED BY <1>2, <1>3, <1>4, <1>5, <1>6

\* Trimming keeps the newest part, and something of it.
LEMMA TrimmedOf ==
    ASSUME NEW s \in Seq(Nat), NEW n \in Nat
    PROVE  /\ Trimmed(s, n) \in Seq(Nat) /\ Len(Trimmed(s, n)) <= n
           /\ SuffixOf(Trimmed(s, n), s)
           /\ n # 0 /\ Len(s) # 0 => Len(Trimmed(s, n)) # 0
<1>1. Len(s) \in Nat
  OBVIOUS
<1>2. CASE Len(s) > n
  <2> DEFINE r == Newest(s, n)
  <2>1. n \in 0 .. Len(s)
    BY <1>1, <1>2
  <2>2. r \in Seq(Nat) /\ Len(r) = n /\ \A i \in 1 .. n : r[i] = s[Len(s) - n + i]
    BY <2>1, NewestOf
  <2>3. Trimmed(s, n) = r
    BY <1>2 DEF Trimmed
  <2> HIDE DEF r
  <2>4. Len(r) <= Len(s) /\ Len(r) <= n
    BY <1>1, <1>2, <2>2
  <2>5. SuffixOf(r, s)
    BY <2>2, <2>4 DEF SuffixOf
  <2>6. n # 0 => Len(r) # 0
    BY <2>2
  <2> QED BY <2>2, <2>3, <2>4, <2>5, <2>6
<1>3. CASE ~(Len(s) > n)
  BY <1>1, <1>3 DEF Trimmed, SuffixOf
<1> QED BY <1>2, <1>3

\* The newest part of the newest part.
LEMMA SuffixTrans ==
    ASSUME NEW q \in Seq(Nat), NEW r \in Seq(Nat), NEW s \in Seq(Nat), SuffixOf(q, r), SuffixOf(r, s)
    PROVE  SuffixOf(q, s)
<1>1. Len(q) \in Nat /\ Len(r) \in Nat /\ Len(s) \in Nat /\ Len(q) <= Len(r) /\ Len(r) <= Len(s)
  BY DEF SuffixOf
<1>2. ASSUME NEW i \in 1 .. Len(q) PROVE q[i] = s[Len(s) - Len(q) + i]
  <2>1. q[i] = r[Len(r) - Len(q) + i]
    BY DEF SuffixOf
  <2> DEFINE j == Len(r) - Len(q) + i
  <2>2. j \in 1 .. Len(r)
    BY <1>1
  <2>3. r[j] = s[Len(s) - Len(r) + j]
    BY <2>2 DEF SuffixOf
  <2>4. Len(s) - Len(r) + j = Len(s) - Len(q) + i
    BY <1>1
  <2> QED BY <2>1, <2>3, <2>4
<1>3. Len(q) <= Len(s)
  BY <1>1
<1> QED BY <1>2, <1>3 DEF SuffixOf

\* Both go on with the same byte.
LEMMA SuffixAppend ==
    ASSUME NEW r \in Seq(Nat), NEW s \in Seq(Nat), NEW b \in Nat, SuffixOf(r, s)
    PROVE  SuffixOf(Append(r, b), Append(s, b))
<1> DEFINE x == Append(r, b)
           y == Append(s, b)
<1>1. /\ Len(x) = Len(r) + 1 /\ Len(y) = Len(s) + 1 /\ Len(r) \in Nat /\ Len(s) \in Nat
      /\ \A i \in 1 .. Len(r) + 1 : x[i] = IF i = Len(r) + 1 THEN b ELSE r[i]
      /\ \A i \in 1 .. Len(s) + 1 : y[i] = IF i = Len(s) + 1 THEN b ELSE s[i]
  BY SetOfAppend
<1>2. Len(r) <= Len(s) /\ \A i \in 1 .. Len(r) : r[i] = s[Len(s) - Len(r) + i]
  BY DEF SuffixOf
<1> HIDE DEF x, y
<1>3. ASSUME NEW i \in 1 .. Len(x) PROVE x[i] = y[Len(y) - Len(x) + i]
  <2> DEFINE j == Len(s) - Len(r) + i
  <2>1. Len(y) - Len(x) + i = j /\ j \in 1 .. Len(s) + 1
    BY <1>1, <1>2
  <2>2. CASE i = Len(r) + 1
    BY <1>1, <2>1, <2>2, SMTT(40)
  <2>3. CASE i # Len(r) + 1
    <3>1. i \in 1 .. Len(r) /\ j # Len(s) + 1
      <4> DEFINE m == Len(r)
                 n == Len(s)
      <4>1. m \in Nat /\ n \in Nat /\ i \in 1 .. m + 1 /\ i # m + 1
        BY <1>1, <2>3
      <4> HIDE DEF m, n
      <4>2. i \in 1 .. m /\ n - m + i # n + 1
        BY <4>1
      <4> QED BY <4>2 DEF m, n
    <3> QED BY <1>1, <1>2, <2>1, <2>3, <3>1
  <2> QED BY <2>2, <2>3
<1>4. SuffixOf(x, y)
  BY <1>1, <1>2, <1>3 DEF SuffixOf
<1> QED BY <1>4 DEF x, y

\* Nothing is the newest part of anything.
LEMMA SuffixEmpty ==
    ASSUME NEW s \in Seq(Nat)
    PROVE  SuffixOf(<<>>, s)
BY EmptySeq DEF SuffixOf
-----------------------------------------------------------------------------
(* The tap hub: one tap *)

\* Messages stay true when more is ingested.
LEMMA TrueAppend ==
    ASSUME NEW s \in Seq(Nat), NEW b \in Nat, NEW from, NEW m, TrueMessage(m, from, s)
    PROVE  TrueMessage(m, from, Append(s, b))
<1>1. /\ Len(Append(s, b)) = Len(s) + 1 /\ Len(s) \in Nat
      /\ \A i \in 1 .. Len(s) + 1 : Append(s, b)[i] = IF i = Len(s) + 1 THEN b ELSE s[i]
  BY SetOfAppend
<1>2. m.offset \in Nat /\ m.offset < Len(s)
  BY DEF TrueMessage, Message
<1>3. m.offset + 1 \in 1 .. Len(s) + 1 /\ m.offset + 1 # Len(s) + 1 /\ m.offset < Len(s) + 1
  BY <1>1, <1>2
<1> QED BY <1>1, <1>3 DEF TrueMessage

\* The terminal event is not data.
LEMMA ClosedIsNoMessage == Closed \notin Message
BY DEF Closed, Message

\* A tap that is not open only has to stand by what it was sent.
LEMMA TapFrame ==
    ASSUME NEW s \in Seq(Nat), NEW b \in Nat, NEW l, NEW m, NEW tp, TapOk(tp, s, l), tp.st # "open"
    PROVE  TapOk(tp, Append(s, b), m)
<1>1. \A i \in 1 .. Len(tp.read) : TrueMessage(tp.read[i], tp.from, Append(s, b))
  BY TrueAppend DEF TapOk
<1>2. \A i \in 1 .. Len(tp.out) :
         \/ TrueMessage(tp.out[i], tp.from, Append(s, b))
         \/ tp.out[i] = Closed /\ i = Len(tp.out) /\ tp.st = "orphaned"
  BY TrueAppend DEF TapOk
<1> QED BY <1>1, <1>2 DEF TapOk

\* A byte is ingested: an open tap is sent it at its offset, or counts it.
LEMMA OfferedOk ==
    ASSUME NEW s \in Seq(Nat), NEW b \in Nat, NEW l \in Nat, NEW gap \in Nat, NEW tp, TapOk(tp, s, l)
    PROVE  TapOk(Offered(tp, [offset |-> Len(s), byte |-> b, gap |-> gap]), Append(s, b), l + gap)
<1> DEFINE msg == [offset |-> Len(s), byte |-> b, gap |-> gap]
           z == Append(s, b)
           out == Append(tp.out, msg)
<1>1. CASE tp.st # "open"
  BY <1>1, TapFrame DEF Offered
<1>2. CASE tp.st = "open"
  <2>1. /\ tp \in TapState /\ tp.out \in Seq(Message \cup {Closed}) /\ tp.read \in Seq(Message)
    BY DEF TapOk, TapState
  <2> DEFINE no == Len(tp.out)
             nr == Len(tp.read)
             nd == tp.dropped
             f == tp.from
             lb == tp.base
             lg == tp.gaps
  <2>2. /\ no \in Nat /\ nr \in Nat /\ TapQueueCap \in Nat
        /\ nd \in Nat /\ f \in Nat /\ lb \in Nat /\ lg \in Nat
        /\ no <= TapQueueCap /\ Len(s) - f = nr + no + nd
        /\ nd = 0 => lb + lg = l
    <3>1. no \in Nat /\ nr \in Nat /\ TapQueueCap \in Nat
      BY <2>1, TapAssumption
    <3>2. tp.dropped \in Nat /\ tp.from \in Nat /\ tp.base \in Nat /\ tp.gaps \in Nat
      BY <2>1 DEF TapState
    <3> QED BY <1>2, <3>1, <3>2 DEF TapOk
  <2> HIDE DEF no, nr, nd, f, lb, lg
  <2>3. /\ z \in Seq(Nat) /\ Len(z) = Len(s) + 1 /\ Len(s) \in Nat
        /\ z[Len(s) + 1] = b
    BY SetOfAppend
  <2>4. /\ \A i \in 1 .. Len(tp.read) : TrueMessage(tp.read[i], tp.from, z)
        /\ \A i \in 1 .. Len(tp.out) : TrueMessage(tp.out[i], tp.from, z)
        /\ \A i \in 1 .. Len(tp.read) : tp.read[i].offset < Len(s)
        /\ \A i \in 1 .. Len(tp.out) : tp.out[i].offset < Len(s) /\ tp.out[i] # Closed
    <3>1. /\ \A i \in 1 .. Len(tp.read) : TrueMessage(tp.read[i], tp.from, s)
          /\ \A i \in 1 .. Len(tp.out) : TrueMessage(tp.out[i], tp.from, s)
      BY <1>2 DEF TapOk
    <3>2. /\ \A i \in 1 .. Len(tp.read) : TrueMessage(tp.read[i], tp.from, z)
          /\ \A i \in 1 .. Len(tp.out) : TrueMessage(tp.out[i], tp.from, z)
      BY <3>1, TrueAppend
    <3> QED BY <3>1, <3>2, ClosedIsNoMessage DEF TrueMessage
  <2> HIDE DEF z
  <2>5. /\ \A i, j \in 1 .. Len(tp.read) : i < j => tp.read[i].offset < tp.read[j].offset
        /\ \A i, j \in 1 .. Len(tp.out) : i < j => tp.out[i].offset < tp.out[j].offset
        /\ \A i \in 1 .. Len(tp.read), j \in 1 .. Len(tp.out) : tp.read[i].offset < tp.out[j].offset
    BY <2>4 DEF TapOk
  <2>6. CASE ~(Len(tp.out) < TapQueueCap)
    <3> DEFINE u == [tp EXCEPT !.dropped = @ + 1]
    <3>1. Offered(tp, msg) = u
      BY <1>2, <2>6 DEF Offered
    <3>2. nd + 1 \in Nat /\ nd + 1 # 0
      BY <2>2
    <3>3. /\ u \in TapState /\ u.st = "open" /\ u.out = tp.out /\ u.read = tp.read
          /\ u.dropped = tp.dropped + 1 /\ u.from = tp.from
      BY <1>2, <2>1, <3>2 DEF TapState, nd
    <3> HIDE DEF u
    <3>4. Len(z) - f = nr + no + (nd + 1)
      <4> DEFINE n == Len(s)
      <4>1. Len(z) = n + 1 /\ n \in Nat /\ n - f = nr + no + nd
        BY <2>2, <2>3
      <4> HIDE DEF n
      <4> QED BY <2>2, <4>1
    <3>5. TapOk(u, z, l + gap)
      BY <2>2, <2>4, <2>5, <3>2, <3>3, <3>4 DEF TapOk, no, nr, nd, f
    <3> QED BY <3>1, <3>5 DEF z
  <2>7. CASE Len(tp.out) < TapQueueCap
    <3> DEFINE u == [tp EXCEPT !.out = out, !.gaps = @ + gap]
    <3>1. Offered(tp, msg) = u
      BY <1>2, <2>7 DEF Offered
    <3>2. msg \in Message /\ msg.offset = Len(s) /\ msg.byte = b
      BY <2>3 DEF Message
    <3> HIDE DEF msg
    <3>3. /\ out \in Seq(Message \cup {Closed}) /\ Len(out) = Len(tp.out) + 1
          /\ \A i \in 1 .. Len(tp.out) + 1 : out[i] = IF i = Len(tp.out) + 1 THEN msg ELSE tp.out[i]
      BY <2>1, <3>2, SetOfAppend
    <3> HIDE DEF out
    <3>4. /\ u \in TapState /\ u.st = "open" /\ u.out = out /\ u.read = tp.read
          /\ u.dropped = tp.dropped /\ u.from = tp.from /\ u.base = tp.base
          /\ u.gaps = tp.gaps + gap
      <4>1. lg + gap \in Nat
        BY <2>2
      <4> QED BY <1>2, <2>1, <3>3, <4>1 DEF TapState, lg
    <3> HIDE DEF u
    <3>5. \A i \in 1 .. Len(out) :
             \/ i \in 1 .. Len(tp.out) /\ out[i] = tp.out[i]
             \/ i = Len(tp.out) + 1 /\ out[i] = msg
      BY <2>2, <3>3, SMTT(40) DEF no
    <3>6. TrueMessage(msg, tp.from, z)
      <4>1. Len(s) >= f /\ Len(s) < Len(z)
        BY <2>2, <2>3
      <4> QED BY <2>3, <3>2, <4>1 DEF TrueMessage, f
    <3>7. \A i \in 1 .. Len(out) : TrueMessage(out[i], tp.from, z)
      BY <2>4, <3>5, <3>6
    <3>8. ASSUME NEW i \in 1 .. Len(out), NEW j \in 1 .. Len(out), i < j
          PROVE  out[i].offset < out[j].offset
      <4>1. no \in Nat /\ Len(out) = no + 1
        BY <2>2, <3>3 DEF no
      <4>2. i # no + 1
        BY <3>8, <4>1
      <4>3. i \in 1 .. Len(tp.out) /\ out[i] = tp.out[i]
        BY <3>5, <4>2 DEF no
      <4>4. CASE j \in 1 .. Len(tp.out) /\ out[j] = tp.out[j]
        BY <2>5, <3>8, <4>3, <4>4
      <4>5. CASE out[j] = msg
        BY <2>4, <3>2, <4>3, <4>5
      <4> QED BY <3>5, <4>4, <4>5
    <3>9. \A i \in 1 .. Len(tp.read), j \in 1 .. Len(out) : tp.read[i].offset < out[j].offset
      BY <2>4, <2>5, <3>2, <3>5
    <3>10. Len(z) - f = nr + Len(out) + nd /\ Len(out) <= TapQueueCap
      <4> DEFINE n == Len(s)
                 m == Len(z)
      <4>1. Len(out) = no + 1 /\ no < TapQueueCap
        BY <2>7, <3>3 DEF no
      <4>2. m = n + 1 /\ n \in Nat /\ n - f = nr + no + nd
        BY <2>2, <2>3
      <4> HIDE DEF n, m
      <4>3. no + 1 <= TapQueueCap /\ m - f = nr + (no + 1) + nd
        BY <2>2, <4>1, <4>2
      <4> QED BY <4>1, <4>3 DEF m
    <3>11. nd = 0 => lb + (lg + gap) = l + gap
      BY <2>2
    <3>12. TapOk(u, z, l + gap)
      BY <2>4, <2>5, <3>4, <3>7, <3>8, <3>9, <3>10, <3>11 DEF TapOk, nr, nd, f, lb, lg
    <3> QED BY <3>1, <3>12 DEF msg, z
  <2> QED BY <2>6, <2>7
<1> QED BY <1>1, <1>2

\* The endpoint goes: an open tap is told, in its queue or past it.
LEMMA TellClosedOk ==
    ASSUME NEW s \in Seq(Nat), NEW l, NEW tp, TapOk(tp, s, l)
    PROVE  TapOk(TellClosed(tp), s, l) /\ TellClosed(tp).st # "open"
<1>1. CASE tp.st # "open"
  BY <1>1 DEF TellClosed
<1>2. CASE tp.st = "open"
  <2> DEFINE out == Append(tp.out, Closed)
             no == Len(tp.out)
  <2>1. /\ tp \in TapState /\ tp.out \in Seq(Message \cup {Closed}) /\ tp.read \in Seq(Message)
    BY DEF TapOk, TapState
  <2>2. no \in Nat /\ TapQueueCap \in Nat /\ no <= TapQueueCap
    BY <2>1, TapAssumption DEF TapOk
  <2>3. /\ \A i \in 1 .. Len(tp.out) : TrueMessage(tp.out[i], tp.from, s) /\ tp.out[i] # Closed
    BY <1>2, ClosedIsNoMessage DEF TapOk, TrueMessage
  <2>4. CASE ~(Len(tp.out) < TapQueueCap)
    <3> DEFINE yes == TRUE
               u == [tp EXCEPT !.st = "orphaned", !.lane = yes]
    <3>1. TellClosed(tp) = u
      BY <1>2, <2>4 DEF TellClosed
    <3>2. yes \in BOOLEAN /\ yes
      OBVIOUS
    <3> HIDE DEF yes
    <3>3. /\ u \in TapState /\ u.st = "orphaned" /\ u.out = tp.out /\ u.read = tp.read
          /\ u.lane /\ u.from = tp.from
      BY <2>1, <3>2 DEF TapState
    <3> HIDE DEF u
    <3>4. TapOk(u, s, l)
      BY <2>3, <3>3 DEF TapOk
    <3> QED BY <3>1, <3>3, <3>4
  <2>5. CASE Len(tp.out) < TapQueueCap
    <3> DEFINE u == [tp EXCEPT !.st = "orphaned", !.out = out]
    <3>1. TellClosed(tp) = u
      BY <1>2, <2>5 DEF TellClosed
    <3>2. /\ out \in Seq(Message \cup {Closed}) /\ Len(out) = Len(tp.out) + 1
          /\ \A i \in 1 .. Len(tp.out) + 1 : out[i] = IF i = Len(tp.out) + 1 THEN Closed ELSE tp.out[i]
      BY <2>1, SetOfAppend
    <3> HIDE DEF out
    <3>3. /\ u \in TapState /\ u.st = "orphaned" /\ u.out = out /\ u.read = tp.read /\ u.from = tp.from
      BY <2>1, <3>2 DEF TapState
    <3> HIDE DEF u
    <3>4. \A i \in 1 .. Len(out) :
             \/ i \in 1 .. Len(tp.out) /\ out[i] = tp.out[i] /\ out[i] # Closed
             \/ i = Len(out) /\ out[i] = Closed
      BY <2>2, <2>3, <3>2, SMTT(40)
    <3>5. Len(out) <= TapQueueCap /\ Len(out) # 0 /\ out[Len(out)] = Closed
      <4>1. Len(out) = no + 1 /\ no < TapQueueCap /\ no + 1 \in 1 .. no + 1
        BY <2>2, <2>5, <3>2
      <4>2. out[no + 1] = Closed
        BY <3>2, <4>1
      <4> HIDE DEF no
      <4> QED BY <2>2, <4>1, <4>2
    <3>6. ASSUME NEW i \in 1 .. Len(out), NEW j \in 1 .. Len(out), i < j, out[j] # Closed
          PROVE  out[i].offset < out[j].offset
      <4>1. j \in 1 .. Len(tp.out) /\ out[j] = tp.out[j] /\ tp.out[j] # Closed
        BY <2>3, <3>4, <3>6
      <4>2. i \in 1 .. Len(tp.out) /\ i # Len(out)
        BY <2>2, <3>2, <3>6, <4>1
      <4>3. out[i] = tp.out[i]
        BY <3>4, <4>2
      <4> QED BY <3>6, <4>1, <4>2, <4>3 DEF TapOk
    <3>7. ASSUME NEW i \in 1 .. Len(tp.read), NEW j \in 1 .. Len(out), out[j] # Closed
          PROVE  tp.read[i].offset < out[j].offset
      <4>1. j \in 1 .. Len(tp.out) /\ out[j] = tp.out[j] /\ tp.out[j] # Closed
        BY <2>3, <3>4, <3>7
      <4> QED BY <4>1 DEF TapOk
    <3>8. /\ \A i \in 1 .. Len(tp.read) : TrueMessage(tp.read[i], tp.from, s)
          /\ \A i, j \in 1 .. Len(tp.read) : i < j => tp.read[i].offset < tp.read[j].offset
      BY DEF TapOk
    <3>9. TapOk(u, s, l)
      BY <2>3, <3>3, <3>4, <3>5, <3>6, <3>7, <3>8 DEF TapOk
    <3> QED BY <3>1, <3>3, <3>9
  <2> QED BY <2>4, <2>5
<1> QED BY <1>1, <1>2

\* A tap that is closed keeps what was read of it.
LEMMA TapClosedOk ==
    ASSUME NEW s \in Seq(Nat), NEW l, NEW tp, TapOk(tp, s, l)
    PROVE  TapOk([tp EXCEPT !.st = "closed", !.out = <<>>], s, l)
<1> DEFINE u == [tp EXCEPT !.st = "closed", !.out = <<>>]
<1>1. <<>> \in Seq(Message \cup {Closed}) /\ Len(<<>>) = 0
  BY EmptySeq
<1>2. tp \in TapState
  BY DEF TapOk
<1>3. u \in TapState /\ u.st = "closed" /\ u.out = <<>> /\ u.read = tp.read /\ u.from = tp.from
  BY <1>1, <1>2 DEF TapState
<1>4. 0 <= TapQueueCap /\ 1 .. 0 = {}
  BY TapAssumption
<1> HIDE DEF u
<1>5. TapOk(u, s, l)
  BY <1>1, <1>3, <1>4 DEF TapOk
<1> QED BY <1>5 DEF u

\* The connection writes an event of the tap.
LEMMA ReadOk ==
    ASSUME NEW s \in Seq(Nat), NEW l, NEW tp, TapOk(tp, s, l), tp.lane \/ tp.out # <<>>
    PROVE  TapOk(AfterRead(tp), s, l) /\ AfterRead(tp).st = tp.st
<1> DEFINE yes == TRUE
           no == FALSE
           h == Head(tp.out)
           r == Tail(tp.out)
           rd == Append(tp.read, h)
<1>1. /\ tp \in TapState /\ tp.out \in Seq(Message \cup {Closed}) /\ tp.read \in Seq(Message)
  BY DEF TapOk, TapState
<1>2. yes \in BOOLEAN /\ yes /\ no \in BOOLEAN
  OBVIOUS
<1>3. CASE tp.lane
  <2> DEFINE u == [tp EXCEPT !.lane = no, !.told = yes]
  <2>1. AfterRead(tp) = u
    BY <1>3 DEF AfterRead
  <2> HIDE DEF yes, no
  <2>2. /\ u \in TapState /\ u.st = tp.st /\ u.out = tp.out /\ u.read = tp.read /\ u.told
        /\ u.from = tp.from /\ u.dropped = tp.dropped /\ u.base = tp.base /\ u.gaps = tp.gaps
    BY <1>1, <1>2 DEF TapState
  <2> HIDE DEF u
  <2>3. TapOk(u, s, l)
    <3>1. u.st = "open" => Len(s) - u.from = Len(u.read) + Len(u.out) + u.dropped
      BY <2>2 DEF TapOk
    <3>2. u.st = "open" /\ u.dropped = 0 => u.base + u.gaps = l
      BY <2>2 DEF TapOk
    <3>3. /\ \A i \in 1 .. Len(u.out) :
                \/ TrueMessage(u.out[i], u.from, s)
                \/ u.out[i] = Closed /\ i = Len(u.out) /\ u.st = "orphaned"
          /\ \A i \in 1 .. Len(u.read) : TrueMessage(u.read[i], u.from, s)
      BY <2>2 DEF TapOk
    <3>4. /\ \A i, j \in 1 .. Len(u.read) : i < j => u.read[i].offset < u.read[j].offset
          /\ \A i, j \in 1 .. Len(u.out) :
                i < j /\ u.out[j] # Closed => u.out[i].offset < u.out[j].offset
          /\ \A i \in 1 .. Len(u.read), j \in 1 .. Len(u.out) :
                u.out[j] # Closed => u.read[i].offset < u.out[j].offset
          /\ Len(u.out) <= TapQueueCap
      BY <2>2 DEF TapOk
    <3>5. u \in TapState /\ u.told
      BY <2>2
    <3> QED BY <3>1, <3>2, <3>3, <3>4, <3>5 DEF TapOk
  <2> QED BY <2>1, <2>2, <2>3
<1>4. CASE ~tp.lane
  <2>1. Len(tp.out) # 0
    BY <1>1, <1>4, EmptySeq
  <2>2. /\ h \in Message \cup {Closed} /\ h = tp.out[1] /\ r \in Seq(Message \cup {Closed})
        /\ Len(r) = Len(tp.out) - 1 /\ Len(tp.out) \in Nat \ {0}
        /\ \A i \in 1 .. Len(tp.out) - 1 : r[i] = tp.out[i + 1]
    BY <1>1, <2>1, SetOfTail
  <2> DEFINE m == Len(tp.out)
  <2>3. \A i \in 1 .. Len(r) :
           /\ i + 1 \in 1 .. m /\ r[i] = tp.out[i + 1] /\ i + 1 # 1 /\ 1 < i + 1
           /\ i + 1 = m <=> i = Len(r)
    BY <2>2
  <2>4. /\ 1 \in 1 .. m /\ Len(r) <= TapQueueCap
    <3>1. m <= TapQueueCap /\ TapQueueCap \in Nat
      BY TapAssumption DEF TapOk
    <3>2. Len(r) = m - 1 /\ m \in Nat \ {0}
      BY <2>2
    <3> HIDE DEF m, r
    <3> QED BY <3>1, <3>2
  <2>5. \A i \in 1 .. Len(r) :
           \/ TrueMessage(r[i], tp.from, s)
           \/ r[i] = Closed /\ i = Len(r) /\ tp.st = "orphaned"
    BY <2>3 DEF TapOk
  <2>6. ASSUME NEW i \in 1 .. Len(r), NEW j \in 1 .. Len(r), i < j, r[j] # Closed
        PROVE  r[i].offset < r[j].offset
    <3>1. i + 1 < j + 1
      BY <2>6
    <3> QED BY <2>3, <2>6, <3>1 DEF TapOk
  <2>7. \A i \in 1 .. Len(r) : r[i] # Closed => h.offset < r[i].offset
    BY <2>2, <2>3, <2>4 DEF TapOk
  <2>8. \A i \in 1 .. Len(tp.read), j \in 1 .. Len(r) : r[j] # Closed => tp.read[i].offset < r[j].offset
    BY <2>3 DEF TapOk
  <2>9. /\ \A i \in 1 .. Len(tp.read) : TrueMessage(tp.read[i], tp.from, s)
        /\ \A i, j \in 1 .. Len(tp.read) : i < j => tp.read[i].offset < tp.read[j].offset
    BY DEF TapOk
  <2>10. CASE h = Closed
    <3> DEFINE u == [tp EXCEPT !.out = r, !.told = yes]
    <3>1. AfterRead(tp) = u
      BY <1>4, <2>10 DEF AfterRead
    <3> HIDE DEF yes, r, h
    <3>2. /\ u \in TapState /\ u.st = tp.st /\ u.out = r /\ u.read = tp.read /\ u.told
          /\ u.from = tp.from
      BY <1>1, <1>2, <2>2 DEF TapState
    <3> HIDE DEF u
    <3>3. u.st = "orphaned"
      <4>1. ~TrueMessage(tp.out[1], tp.from, s)
        BY <2>2, <2>10, ClosedIsNoMessage DEF TrueMessage
      <4> QED BY <2>4, <3>2, <4>1 DEF TapOk
    <3>4. TapOk(u, s, l)
      BY <2>4, <2>5, <2>6, <2>8, <2>9, <3>2, <3>3 DEF TapOk
    <3> QED BY <3>1, <3>2, <3>4
  <2>11. CASE h # Closed
    <3> DEFINE u == [tp EXCEPT !.out = r, !.read = rd]
    <3>1. AfterRead(tp) = u
      BY <1>4, <2>11 DEF AfterRead
    <3>2. h \in Message /\ TrueMessage(h, tp.from, s)
      BY <2>2, <2>4, <2>11 DEF TapOk
    <3>3. /\ rd \in Seq(Message) /\ Len(rd) = Len(tp.read) + 1 /\ Len(tp.read) \in Nat
          /\ \A i \in 1 .. Len(tp.read) + 1 : rd[i] = IF i = Len(tp.read) + 1 THEN h ELSE tp.read[i]
      <4> HIDE DEF h
      <4> QED BY <1>1, <3>2, SetOfAppend, SetOf
    <3> HIDE DEF r, h, rd
    <3>4. /\ u \in TapState /\ u.st = tp.st /\ u.out = r /\ u.read = rd /\ u.told = tp.told
          /\ u.lane = tp.lane
          /\ u.from = tp.from /\ u.dropped = tp.dropped /\ u.base = tp.base /\ u.gaps = tp.gaps
      BY <1>1, <2>2, <3>3 DEF TapState
    <3> HIDE DEF u
    <3>5. \A i \in 1 .. Len(rd) :
             \/ i \in 1 .. Len(tp.read) /\ rd[i] = tp.read[i]
             \/ i = Len(tp.read) + 1 /\ rd[i] = h
      BY <3>3
    <3>6. \A i \in 1 .. Len(tp.read) : tp.read[i].offset < h.offset
      BY <2>2, <2>4, <2>11 DEF TapOk
    <3>7. ASSUME NEW i \in 1 .. Len(rd), NEW j \in 1 .. Len(rd), i < j
          PROVE  rd[i].offset < rd[j].offset
      <4>1. i \in 1 .. Len(tp.read) /\ rd[i] = tp.read[i]
        BY <3>3, <3>5, <3>7
      <4> QED BY <2>9, <3>5, <3>6, <3>7, <4>1
    <3>8. \A i \in 1 .. Len(rd) : TrueMessage(rd[i], tp.from, s)
      BY <2>9, <3>2, <3>5
    <3>9. \A i \in 1 .. Len(rd), j \in 1 .. Len(r) : r[j] # Closed => rd[i].offset < r[j].offset
      BY <2>7, <2>8, <3>5
    <3>10. Len(rd) + Len(r) = Len(tp.read) + Len(tp.out)
      <4> DEFINE a == Len(tp.read)
      <4>1. Len(rd) = a + 1 /\ a \in Nat /\ Len(r) = m - 1 /\ m \in Nat
        BY <2>2, <3>3
      <4> HIDE DEF a, m
      <4>2. Len(rd) + Len(r) = a + m
        BY <4>1
      <4> QED BY <4>2 DEF a, m
    <3>11. tp.st = "open" => Len(s) - u.from = Len(u.read) + Len(u.out) + u.dropped
      BY <3>4, <3>10 DEF TapOk
    <3>12. tp.st = "open" /\ u.dropped = 0 => u.base + u.gaps = l
      BY <3>4 DEF TapOk
    <3>13. u.st = "orphaned" => u.told \/ u.lane \/ (Len(r) # 0 /\ r[Len(r)] = Closed)
      <4>1. ASSUME tp.st = "orphaned", ~tp.told PROVE Len(r) # 0 /\ r[Len(r)] = Closed
        <5>1. tp.out[m] = Closed
          BY <1>4, <4>1 DEF TapOk
        <5>2. m # 1
          BY <2>2, <2>11, <5>1
        <5>3. Len(r) # 0 /\ Len(r) \in 1 .. Len(r)
          <6>1. Len(r) = m - 1 /\ m \in Nat \ {0}
            BY <2>2
          <6> HIDE DEF m
          <6> QED BY <5>2, <6>1
        <5> QED BY <2>3, <5>1, <5>3
      <4> QED BY <3>4, <4>1
    <3>14. TapOk(u, s, l)
      BY <2>4, <2>5, <2>6, <3>4, <3>7, <3>8, <3>9, <3>11, <3>12, <3>13 DEF TapOk
    <3> QED BY <3>1, <3>4, <3>14
  <2> QED BY <2>10, <2>11
<1> QED BY <1>3, <1>4

\* A tap that nobody opened.
LEMMA NewTapOk ==
    ASSUME NEW s \in Seq(Nat), NEW l
    PROVE  TapOk(NewTap, s, l) /\ NewTap.st = "none"
<1>1. \A S : <<>> \in Seq(S) /\ Len(<<>>) = 0
  BY EmptySeq
<1>2. /\ NewTap \in TapState /\ NewTap.st = "none" /\ NewTap.out = <<>> /\ NewTap.read = <<>>
  BY <1>1 DEF NewTap, TapState
<1>3. 0 <= TapQueueCap /\ 1 .. 0 = {}
  BY TapAssumption
<1> QED BY <1>1, <1>2, <1>3 DEF TapOk

\* A tap is opened with n bytes of replay: the newest, at their true offsets.
LEMMA RegisterOk ==
    ASSUME StreamInv, RingInv, NEW n \in 0 .. Len(hub.ring), n <= TapQueueCap
    PROVE  TapOk(Register(n), inHub, hub.seen) /\ Register(n).st = "open"
<1> DEFINE r == Len(hub.ring)
           N == Len(inHub)
           first == N - n
           out == [i \in 1 .. n |-> Piece(first + i - 1)]
<1>1. hub.ring \in Seq(Nat) /\ inHub \in Seq(Nat) /\ hub.seen \in Nat
  BY DEF RingInv, StreamInv, HubState
<1>2. r \in Nat /\ N \in Nat /\ n \in Nat /\ n <= r /\ r <= N
  BY <1>1 DEF RingInv, SuffixOf
<1>3. first \in Nat /\ N - first = n
  <2> HIDE DEF r, N
  <2> QED BY <1>2
<1>4. ASSUME NEW i \in 1 .. n
      PROVE  /\ TrueMessage(Piece(first + i - 1), first, inHub)
             /\ Piece(first + i - 1).offset = first + i - 1
  <2> DEFINE o == first + i - 1
             k == r - n + i
  <2>1. o - (N - r) + 1 = k /\ k \in 1 .. r /\ o \in Nat /\ o >= first /\ o < N
        /\ N - r + k = o + 1
    <3> HIDE DEF r, N
    <3> QED BY <1>2
  <2>2. hub.ring[k] = inHub[N - r + k] /\ hub.ring[k] \in Nat
    <3>1. \A j \in 1 .. r : hub.ring[j] = inHub[N - r + j] /\ hub.ring[j] \in Nat
      <4>1. SuffixOf(hub.ring, inHub)
        BY DEF RingInv
      <4>2. \A j \in 1 .. Len(hub.ring) : hub.ring[j] \in Nat
        BY <1>1, SMTT(40)
      <4> QED BY <4>1, <4>2 DEF SuffixOf
    <3> HIDE DEF k
    <3> QED BY <2>1, <3>1
  <2> DEFINE b == hub.ring[k]
  <2>3. Piece(o) = [offset |-> o, byte |-> b, gap |-> 0]
    BY <2>1 DEF Piece, ingested
  <2>4. b \in Nat /\ b = inHub[o + 1]
    BY <2>1, <2>2
  <2> HIDE DEF o, b
  <2>5. Piece(o) \in Message /\ Piece(o).offset = o /\ Piece(o).byte = b
    BY <2>1, <2>3, <2>4 DEF Message
  <2>6. TrueMessage(Piece(o), first, inHub)
    BY <2>1, <2>4, <2>5 DEF TrueMessage
  <2> QED BY <2>5, <2>6 DEF o
<1>5. /\ out \in Seq(Message \cup {Closed}) /\ Len(out) = n
      /\ \A i \in 1 .. n : out[i] = Piece(first + i - 1)
  <2>1. \A i \in 1 .. n : Piece(first + i - 1) \in Message \cup {Closed}
    BY <1>4 DEF TrueMessage
  <2> HIDE DEF first
  <2> QED BY <1>2, <2>1
<1> DEFINE u == [NewTap EXCEPT !.st = "open", !.from = first, !.base = hub.seen, !.out = out]
<1>6. Register(n) = u
  BY DEF Register, ingested
<1> HIDE DEF out, first
<1>7. /\ u \in TapState /\ u.st = "open" /\ u.from = first /\ u.base = hub.seen /\ u.out = out
      /\ u.read = <<>> /\ u.dropped = 0 /\ u.gaps = 0
  <2>1. NewTap \in TapState /\ NewTap.read = <<>> /\ NewTap.dropped = 0 /\ NewTap.gaps = 0
    <3>1. \A S : <<>> \in Seq(S)
      BY EmptySeq
    <3> QED BY <3>1 DEF NewTap, TapState
  <2> QED BY <1>1, <1>3, <1>5, <2>1 DEF TapState
<1> HIDE DEF u
<1>8. \A i \in 1 .. n : TrueMessage(out[i], first, inHub) /\ out[i].offset = first + i - 1
  BY <1>4, <1>5
<1>9. ASSUME NEW i \in 1 .. n, NEW j \in 1 .. n, i < j PROVE out[i].offset < out[j].offset
  <2>1. first + i - 1 < first + j - 1
    BY <1>2, <1>3, <1>9
  <2> QED BY <1>8, <2>1
<1>10. Len(<<>>) = 0 /\ 1 .. 0 = {}
  BY EmptySeq
<1>11. N - first = 0 + n + 0 /\ hub.seen + 0 = hub.seen
  <2> HIDE DEF N
  <2> QED BY <1>1, <1>2, <1>3
<1>12. TapOk(u, inHub, hub.seen)
  BY <1>5, <1>7, <1>8, <1>9, <1>10, <1>11 DEF TapOk
<1> QED BY <1>6, <1>7, <1>12
-----------------------------------------------------------------------------
(* The tap hub: one wait *)

\* A nonempty set of numbers has a least one.
LEMMA LeastNumber ==
    ASSUME NEW S \in SUBSET Nat, S # {}
    PROVE  \E m \in S : \A n \in S : m <= n
<1> DEFINE R == OpToRel(<, Nat)
<1>1. PICK x \in S : \A y \in S : ~(<<y, x>> \in R)
  <2> HIDE DEF R
  <2>1. IsWellFoundedOn(R, Nat)
    BY NatLessThanWellFounded DEF R
  <2> QED BY <2>1, WFMin
<1>2. \A y \in S : ~(y < x)
  BY <1>1 DEF OpToRel
<1> QED BY <1>2

\* Two numbers make a sequence.
LEMMA PairOf ==
    ASSUME NEW x \in Nat, NEW y \in Nat
    PROVE  <<x, y>> \in Seq(Nat)
OBVIOUS

\* The window that is scanned, and what the scan makes of the wait.
Window(wt, bytes, gap) == (IF gap > 0 THEN <<>> ELSE wt.win) \o bytes
Scanned(sc, wt, win, gap) ==
    /\ sc \in WaitState /\ sc.answer = wt.answer /\ sc.parked = wt.parked
    /\ sc.from = wt.from /\ sc.cut = wt.cut /\ sc.lossAt = wt.lossAt
    /\ sc.gap = wt.gap + gap /\ sc.credit = wt.credit
    /\ \/ Pairs(win) = {} /\ sc.st = wt.st /\ sc.win = Trimmed(win, Lookback)
       \/ sc.st = "settled" /\ sc.win = <<>>

\* What the scan of a window does: no hit, and the window goes on; or the wait is
\* settled.
LEMMA ScanOf ==
    ASSUME NEW wt \in WaitState, NEW bytes, NEW gap \in Nat, Window(wt, bytes, gap) \in Seq(Nat)
    PROVE  Scanned(Scan(wt, bytes, gap), wt, Window(wt, bytes, gap), gap)
<1> DEFINE win == Window(wt, bytes, gap)
           sc == Scan(wt, bytes, gap)
           hits == Pairs(win)
           at == CHOOSE i \in hits : \A j \in hits : i <= j
           t == Trimmed(win, Lookback)
           g == wt.gap + gap
<1>0. win \in Seq(Nat)
  OBVIOUS
<1>1. g \in Nat
  <2> DEFINE a == wt.gap
  <2>1. a \in Nat
    BY DEF WaitState
  <2> HIDE DEF a
  <2>2. a + gap \in Nat
    BY <2>1
  <2> QED BY <2>2 DEF a
<1>2. t \in Seq(Nat)
  BY TrimmedOf, TapAssumption
<1>3. CASE hits = {}
  <2> DEFINE u == [wt EXCEPT !.win = t, !.gap = g]
  <2>1. sc = u
    BY <1>3 DEF Scan, Window
  <2> HIDE DEF t, g, sc, win, hits
  <2>2. /\ u \in WaitState /\ u.answer = wt.answer /\ u.parked = wt.parked /\ u.from = wt.from
        /\ u.cut = wt.cut /\ u.lossAt = wt.lossAt /\ u.credit = wt.credit /\ u.gap = g /\ u.st = wt.st /\ u.win = t
    BY <1>1, <1>2 DEF WaitState
  <2> QED BY <1>3, <2>1, <2>2 DEF t, g, hits, sc, win, Scanned
<1>4. CASE hits # {}
  <2>1. /\ hits \in SUBSET Nat
        /\ \A i \in hits : i \in 1 .. Len(win) /\ i + 1 \in 1 .. Len(win)
    <3>1. Len(win) \in Nat
      OBVIOUS
    <3>2. \A i \in 1 .. Len(win) - 1 : i \in Nat /\ i \in 1 .. Len(win) /\ i + 1 \in 1 .. Len(win)
      BY <3>1
    <3> QED BY <3>2 DEF Pairs
  <2>2. at \in hits
    <3> HIDE DEF hits
    <3>1. \E m \in hits : \A n \in hits : m <= n
      BY <1>4, <2>1, LeastNumber
    <3> QED BY <3>1
  <2> DEFINE h == <<win[at], win[at + 1]>>
             e == <<>>
             u == [wt EXCEPT !.win = e, !.gap = g, !.st = "settled", !.end = "matched", !.hit = h]
  <2>3. sc = u
    BY <1>4 DEF Scan, Window
  <2> HIDE DEF sc, win
  <2>4. win[at] \in Nat /\ win[at + 1] \in Nat
    <3> HIDE DEF at, hits
    <3>1. at \in 1 .. Len(win) /\ at + 1 \in 1 .. Len(win)
      BY <2>1, <2>2
    <3>2. \A i \in 1 .. Len(win) : win[i] \in Nat
      BY <1>0
    <3> QED BY <3>1, <3>2
  <2> HIDE DEF at, hits
  <2>5. h \in Seq(Nat) /\ e \in Seq(Nat)
    <3> DEFINE x == win[at]
               y == win[at + 1]
    <3>1. x \in Nat /\ y \in Nat
      BY <2>4
    <3> HIDE DEF x, y
    <3>2. <<x, y>> \in Seq(Nat)
      BY <3>1, PairOf
    <3> QED BY <3>2, EmptySeq DEF x, y
  <2> HIDE DEF h, g, e
  <2>6. /\ u \in WaitState /\ u.answer = wt.answer /\ u.parked = wt.parked /\ u.from = wt.from
        /\ u.cut = wt.cut /\ u.lossAt = wt.lossAt /\ u.credit = wt.credit /\ u.gap = g /\ u.st = "settled" /\ u.win = e
    BY <1>1, <2>5 DEF WaitState
  <2> QED BY <2>3, <2>6 DEF g, e, sc, win, Scanned
<1> QED BY <1>3, <1>4

\* The window and the stream get the same byte: a pattern across the seam is in
\* the window, so the stream stays free of it as long as the window does.
LEMMA AbsentAppend ==
    ASSUME NEW s \in Seq(Nat), NEW win \in Seq(Nat), NEW b \in Nat, NEW from \in Nat, from <= Len(s),
           Absent(from, Len(s), s), SuffixOf(win, s), from < Len(s) => Len(win) # 0,
           Pairs(Append(win, b)) = {}
    PROVE  Absent(from, Len(s) + 1, Append(s, b))
<1> DEFINE z == Append(s, b)
           x == Append(win, b)
           n == Len(s)
           m == Len(win)
<1>1. /\ Len(z) = n + 1 /\ n \in Nat /\ Len(x) = m + 1 /\ m \in Nat
      /\ \A i \in 1 .. n + 1 : z[i] = IF i = n + 1 THEN b ELSE s[i]
      /\ \A i \in 1 .. m + 1 : x[i] = IF i = m + 1 THEN b ELSE win[i]
  BY SetOfAppend
<1>2. m <= n /\ \A i \in 1 .. m : win[i] = s[n - m + i]
  BY DEF SuffixOf
<1>3. from \in Nat /\ from <= n /\ (from < n => m # 0)
  OBVIOUS
<1>4. \A i \in 1 .. Len(x) - 1 : ~(Odd(x[i]) /\ ~Odd(x[i + 1]))
  BY DEF Pairs
<1>5. \A o \in from + 1 .. n - 1 : ~(Odd(s[o]) /\ ~Odd(s[o + 1]))
  BY DEF Absent
<1> HIDE DEF z, x, n, m
<1>6. ASSUME NEW o \in from + 1 .. (n + 1) - 1 PROVE ~(Odd(z[o]) /\ ~Odd(z[o + 1]))
  <2>1. o \in 1 .. n + 1 /\ o # n + 1 /\ o + 1 \in 1 .. n + 1
    BY <1>1, <1>3
  <2>2. z[o] = s[o]
    BY <1>1, <2>1
  <2>3. CASE o # n
    <3>1. o \in from + 1 .. n - 1 /\ o + 1 # n + 1
      BY <1>1, <1>3, <2>3
    <3>2. z[o + 1] = s[o + 1]
      BY <1>1, <2>1, <3>1
    <3> QED BY <1>5, <2>2, <3>1, <3>2
  <2>4. CASE o = n
    <3>1. m # 0 /\ m \in 1 .. m /\ m \in 1 .. m + 1 /\ m # m + 1 /\ m + 1 \in 1 .. m + 1
          /\ n - m + m = n /\ m \in 1 .. Len(x) - 1
      BY <1>1, <1>2, <1>3, <2>4
    <3>2. x[m] = s[n]
      BY <1>1, <1>2, <3>1
    <3>3. x[m + 1] = b
      BY <1>1, <3>1
    <3>4. z[n + 1] = b
      BY <1>1, <2>1, <2>4
    <3> QED BY <1>4, <2>2, <2>4, <3>1, <3>2, <3>3, <3>4
  <2> QED BY <2>3, <2>4
<1>7. Absent(from, n + 1, z)
  BY <1>6 DEF Absent
<1> QED BY <1>7 DEF n, z

\* What is absent from a part of the stream stays so.
LEMMA AbsentFrame ==
    ASSUME NEW s \in Seq(Nat), NEW b \in Nat, NEW from \in Nat, NEW upto \in Nat, upto <= Len(s),
           Absent(from, upto, s)
    PROVE  Absent(from, upto, Append(s, b))
<1> DEFINE z == Append(s, b)
           n == Len(s)
<1>1. /\ n \in Nat /\ \A i \in 1 .. n + 1 : z[i] = IF i = n + 1 THEN b ELSE s[i]
  BY SetOfAppend
<1>2. upto <= n
  OBVIOUS
<1>3. \A o \in from + 1 .. upto - 1 : ~(Odd(s[o]) /\ ~Odd(s[o + 1]))
  BY DEF Absent
<1> HIDE DEF z, n
<1>4. ASSUME NEW o \in from + 1 .. upto - 1 PROVE ~(Odd(z[o]) /\ ~Odd(z[o + 1]))
  <2>1. o \in 1 .. n + 1 /\ o # n + 1 /\ o + 1 \in 1 .. n + 1 /\ o + 1 # n + 1
    BY <1>1, <1>2
  <2>2. z[o] = s[o] /\ z[o + 1] = s[o + 1]
    BY <1>1, <2>1
  <2> QED BY <1>3, <2>2
<1>5. Absent(from, upto, z)
  BY <1>4 DEF Absent
<1> QED BY <1>5 DEF z

\* A wait that is not armed has said all it will.
LEMMA WaitFrame ==
    ASSUME NEW s \in Seq(Nat), NEW b \in Nat, NEW l, NEW d, NEW l2, NEW d2, NEW wt,
           WaitOk(wt, s, l, d), wt.st # "armed"
    PROVE  WaitOk(wt, Append(s, b), l2, d2)
<1>1. wt \in WaitState /\ Len(wt.win) <= Lookback
  BY DEF WaitOk
<1>2. ASSUME wt.answer = "timed out"
      PROVE  /\ wt.st = "over" /\ wt.upto <= Len(Append(s, b))
             /\ wt.gap = 0 => Absent(wt.from, wt.upto, Append(s, b))
  <2>1. wt.from \in Nat /\ wt.upto \in Nat
    BY <1>1 DEF WaitState
  <2>2. wt.st = "over" /\ wt.upto <= Len(s) /\ (wt.gap = 0 => Absent(wt.from, wt.upto, s))
    BY <1>2 DEF WaitOk
  <2>3. wt.upto <= Len(Append(s, b))
    <3> DEFINE u == wt.upto
               n == Len(s)
    <3>1. Len(Append(s, b)) = n + 1 /\ n \in Nat /\ u \in Nat /\ u <= n
      BY <2>1, <2>2, SetOfAppend
    <3> HIDE DEF u, n
    <3>2. u <= n + 1
      BY <3>1
    <3> QED BY <3>1, <3>2 DEF u, n
  <2> QED BY <2>1, <2>2, <2>3, AbsentFrame
<1> QED BY <1>1, <1>2 DEF WaitOk

\* A byte is ingested while a wait is armed.
LEMMA WaitIngestOk ==
    ASSUME NEW s \in Seq(Nat), NEW b \in Nat, NEW l \in Nat, NEW d \in Nat, l <= d,
           NEW wt, WaitOk(wt, s, l, d), wt.st = "armed"
    PROVE  WaitOk([Scan(wt, <<b>>, Charge(wt, d - l)) EXCEPT !.credit = 0], Append(s, b), d, d)
<1> DEFINE g == Charge(wt, d - l)
           base == IF g > 0 THEN <<>> ELSE wt.win
           win == Append(base, b)
           sc == Scan(wt, <<b>>, g)
           u == [sc EXCEPT !.credit = 0]
           z == Append(s, b)
           t == Trimmed(win, Lookback)
<1>1. /\ wt \in WaitState /\ wt.win \in Seq(Nat) /\ wt.parked /\ wt.answer # "timed out"
      /\ wt.gap = 0 => /\ Absent(wt.from, Len(s), s) /\ SuffixOf(wt.win, s)
                       /\ wt.from < Len(s) => Len(wt.win) # 0
  <2>1. wt \in WaitState
    BY DEF WaitOk
  <2>2. wt.win \in Seq(Nat)
    BY <2>1 DEF WaitState
  <2>3. wt.answer # "timed out"
    BY DEF WaitOk
  <2> QED BY <2>1, <2>2, <2>3 DEF WaitOk
<1> DEFINE wg == wt.gap
           wc == wt.credit
           wk == wt.cut
           wl == wt.lossAt
           wf == wt.from
           n == Len(s)
<1>2. /\ wg \in Nat /\ wc \in Nat /\ wk \in Nat /\ wl \in Nat /\ wf \in Nat /\ n \in Nat
      /\ wf <= n /\ wl <= d
      /\ wc = IF wl > l THEN wl - l ELSE 0
      /\ wg = wk + (IF l > wl THEN l - wl ELSE 0)
      /\ g = IF d - l > wc THEN (d - l) - wc ELSE 0
  <2>1. wg \in Nat /\ wc \in Nat /\ wk \in Nat /\ wl \in Nat /\ wf \in Nat /\ n \in Nat
    <3>1. n \in Nat
      OBVIOUS
    <3> HIDE DEF n
    <3> QED BY <1>1, <3>1 DEF WaitState
  <2> QED BY <2>1 DEF WaitOk, Charge
<1> HIDE DEF wg, wc, wk, wl, wf, n
<1>3. /\ g \in Nat /\ wg + g = wk + (IF d > wl THEN d - wl ELSE 0)
      /\ (wg + g = 0 => wg = 0 /\ ~(g > 0))
      /\ wf <= n + 1 /\ ~(wl > d)
  <2> HIDE DEF g
  <2> QED BY <1>2
<1> HIDE DEF g
<1>4. base \in Seq(Nat)
  BY <1>1, EmptySeq
<1> HIDE DEF base
<1>5. win \in Seq(Nat) /\ Len(win) = Len(base) + 1 /\ Len(base) \in Nat
  BY <1>4, SetOfAppend, SetOf
<1>6. <<b>> \in Seq(Nat) /\ win = base \o <<b>>
  BY <1>4, AppendIsConcat
<1>7. z \in Seq(Nat) /\ Len(z) = n + 1
  BY SetOfAppend DEF n
<1>8. t \in Seq(Nat) /\ Len(t) <= Lookback /\ SuffixOf(t, win) /\ Len(t) # 0
  <2>1. Lookback \in Nat /\ Lookback # 0
    BY TapAssumption
  <2>2. Len(win) # 0
    <3> HIDE DEF win
    <3> QED BY <1>5
  <2> HIDE DEF win
  <2> QED BY <1>5, <2>1, <2>2, TrimmedOf
<1> HIDE DEF win
<1>9. /\ sc \in WaitState /\ sc.answer = wt.answer /\ sc.parked = wt.parked
      /\ sc.from = wt.from /\ sc.cut = wt.cut /\ sc.lossAt = wt.lossAt /\ sc.gap = wt.gap + g
      /\ \/ Pairs(win) = {} /\ sc.st = wt.st /\ sc.win = t
         \/ sc.st = "settled" /\ sc.win = <<>>
  <2>1. win = Window(wt, <<b>>, g)
    BY <1>6 DEF base, Window
  <2>2. Scanned(sc, wt, win, g)
    BY <1>1, <1>3, <1>5, <2>1, ScanOf
  <2> HIDE DEF sc
  <2> QED BY <2>2 DEF Scanned
<1> HIDE DEF sc, t, z
<1>10. /\ u \in WaitState /\ u.answer = wt.answer /\ u.parked = wt.parked /\ u.credit = 0
       /\ u.from = wf /\ u.cut = wk /\ u.lossAt = wl /\ u.gap = wg + g
       /\ u.st = sc.st /\ u.win = sc.win
  BY <1>9 DEF WaitState, wf, wk, wl, wg
<1> HIDE DEF u
<1>11. Len(u.win) <= Lookback
  <2>1. 0 <= Lookback /\ Len(<<>>) = 0
    BY TapAssumption, EmptySeq
  <2> QED BY <1>8, <1>9, <1>10, <2>1
<1>12. ASSUME u.st = "armed", wg + g = 0
       PROVE  Absent(wf, Len(z), z) /\ SuffixOf(u.win, z) /\ Len(u.win) # 0
  <2>1. Pairs(win) = {} /\ u.win = t
    BY <1>9, <1>10, <1>12
  <2>2. wg = 0 /\ win = Append(wt.win, b)
    BY <1>3, <1>12 DEF base, win
  <2>3. Absent(wf, n, s) /\ SuffixOf(wt.win, s) /\ (wf < n => Len(wt.win) # 0)
    BY <1>1, <2>2 DEF wf, n, wg
  <2>4. Absent(wf, n + 1, z)
    BY <1>1, <1>2, <2>1, <2>2, <2>3, AbsentAppend DEF n, z
  <2>5. SuffixOf(win, z)
    BY <1>1, <2>2, <2>3, SuffixAppend DEF z
  <2>6. SuffixOf(t, z)
    BY <1>5, <1>7, <1>8, <2>5, SuffixTrans
  <2> QED BY <1>7, <1>8, <2>1, <2>4, <2>6
<1>13. WaitOk(u, z, d, d)
  <2>1. /\ u.from <= Len(z) /\ u.lossAt <= d
        /\ u.credit = IF u.lossAt > d THEN u.lossAt - d ELSE 0
        /\ u.gap = u.cut + (IF d > u.lossAt THEN d - u.lossAt ELSE 0)
    BY <1>2, <1>3, <1>7, <1>10
  <2>2. u.st = "armed" /\ u.gap = 0 => Absent(u.from, Len(z), z) /\ SuffixOf(u.win, z) /\ Len(u.win) # 0
    BY <1>10, <1>12
  <2>3. u \in WaitState /\ u.answer # "timed out" /\ u.parked
    BY <1>1, <1>10
  <2> QED BY <1>11, <2>1, <2>2, <2>3 DEF WaitOk
<1> QED BY <1>13 DEF u, z, sc, g

\* A wait that nobody armed.
LEMMA NewWaitOk ==
    ASSUME NEW s \in Seq(Nat), NEW l, NEW d
    PROVE  /\ WaitOk(NewWait, s, l, d) /\ NewWait \in WaitState /\ NewWait.st = "none"
           /\ WaitOk([NewWait EXCEPT !.st = "over", !.answer = "refused"], s, l, d)
           /\ [NewWait EXCEPT !.st = "over", !.answer = "refused"].st = "over"
<1> DEFINE u == [NewWait EXCEPT !.st = "over", !.answer = "refused"]
<1>1. \A S : <<>> \in Seq(S) /\ Len(<<>>) = 0
  BY EmptySeq
<1>2. NewWait \in WaitState /\ NewWait.st = "none" /\ NewWait.win = <<>> /\ NewWait.answer = "none"
  BY <1>1 DEF NewWait, WaitState
<1>3. u \in WaitState /\ u.st = "over" /\ u.win = <<>> /\ u.answer = "refused"
  BY <1>2 DEF WaitState
<1>4. 0 <= Lookback
  BY TapAssumption
<1> HIDE DEF u
<1>5. WaitOk(NewWait, s, l, d)
  BY <1>1, <1>2, <1>4 DEF WaitOk
<1>6. WaitOk(u, s, l, d)
  BY <1>1, <1>3, <1>4 DEF WaitOk
<1> QED BY <1>2, <1>3, <1>5, <1>6 DEF u

\* A wait leaves the armed state otherwise than by its deadline.
LEMMA WaitOverOk ==
    ASSUME NEW s, NEW l, NEW d, NEW wt, NEW u \in WaitState, WaitOk(wt, s, l, d),
           u.win = wt.win, u.st # "armed",
           \/ u.answer # "timed out"
           \/ /\ wt.st = "over" \/ wt.st = "settled"
              /\ u.st = "over" /\ u.answer = wt.answer /\ u.upto = wt.upto
              /\ u.gap = wt.gap /\ u.from = wt.from
    PROVE  WaitOk(u, s, l, d)
BY DEF WaitOk

\* The registration of tap.wait, before and after the scan of the ring.
Fresh(sd) ==
    [NewWait EXCEPT !.st = "armed", !.from = sd.from, !.parked = TRUE,
                    !.credit = feed.dropped - hub.seen, !.cut = sd.cut, !.lossAt = feed.dropped]
Seeded(sd) == Scan(Fresh(sd), sd.snap, sd.cut)

\* What tap.wait starts from: with no hole, the newest part of the stream.
LEMMA SeedOf ==
    ASSUME StreamInv, RingInv, NEW r \in BOOLEAN
    PROVE  /\ Seed(r).snap \in Seq(Nat) /\ Seed(r).from \in Nat /\ Seed(r).cut \in Nat
           /\ Seed(r).from <= Len(inHub)
           /\ Seed(r).cut = 0 => /\ SuffixOf(Seed(r).snap, inHub)
                                 /\ Seed(r).from = Len(inHub) - Len(Seed(r).snap)
<1> DEFINE n == Len(inHub)
           m == Len(hub.ring)
           a == hub.gapAt[1]
           c == hub.gapAt[2]
<1>1. /\ inHub \in Seq(Nat) /\ hub.ring \in Seq(Nat) /\ SuffixOf(hub.ring, inHub)
  BY DEF StreamInv, RingInv, HubState
<1>2. n \in Nat /\ m \in Nat /\ m <= n
  BY <1>1 DEF SuffixOf
<1>3. a \in Nat /\ c \in Nat /\ a <= n /\ (a > 0 => c > 0)
  BY DEF RingInv, HubState
<1>4. CASE ~(r /\ hub.hasRing)
  <2>1. Seed(r) = [snap |-> <<>>, from |-> n, cut |-> 0]
    BY <1>4 DEF Seed, ingested
  <2>2. <<>> \in Seq(Nat) /\ Len(<<>>) = 0 /\ SuffixOf(<<>>, inHub)
    BY <1>1, EmptySeq, SuffixEmpty
  <2>3. n <= n /\ n - 0 = n
    <3> HIDE DEF n
    <3> QED BY <1>2
  <2> QED BY <1>2, <2>1, <2>2, <2>3
<1>5. CASE r /\ hub.hasRing /\ a > n - m
  <2> DEFINE k == n - a
             w == Newest(hub.ring, k)
  <2>1. k \in 0 .. m /\ c > 0
    <3> HIDE DEF n, m, a, c
    <3> QED BY <1>2, <1>3, <1>5
  <2>2. Seed(r) = [snap |-> w, from |-> a, cut |-> c]
    BY <1>5 DEF Seed, ingested
  <2>3. w \in Seq(Nat)
    <3> HIDE DEF k
    <3> QED BY <1>1, <2>1, NewestOf
  <2>4. c # 0
    <3> HIDE DEF c
    <3> QED BY <1>3, <2>1
  <2> HIDE DEF w, a, c, n
  <2>5. Seed(r).snap = w /\ Seed(r).from = a /\ Seed(r).cut = c
    BY <2>2
  <2> QED BY <1>3, <2>3, <2>4, <2>5 DEF n
<1>6. CASE r /\ hub.hasRing /\ ~(a > n - m)
  <2>1. Seed(r) = [snap |-> hub.ring, from |-> n - m, cut |-> 0]
    BY <1>6 DEF Seed, ingested
  <2>2. n - m \in Nat /\ n - m <= n
    <3> HIDE DEF n, m
    <3> QED BY <1>2
  <2> QED BY <1>1, <2>1, <2>2
<1> QED BY <1>4, <1>5, <1>6

\* tap.wait arms, with what the ring says about the past.
LEMMA SeededOk ==
    ASSUME StreamInv, RingInv, NEW r \in BOOLEAN
    PROVE  /\ Seeded(Seed(r)) \in WaitState
           /\ Seeded(Seed(r)).st \in {"armed", "settled"} /\ Seeded(Seed(r)).answer = "none"
           /\ WaitOk(Seeded(Seed(r)), inHub, hub.seen, feed.dropped)
<1> DEFINE sd == Seed(r)
           fr == Fresh(sd)
           sc == Seeded(sd)
           yes == TRUE
           cr == feed.dropped - hub.seen
           q == sd.snap
           cut == sd.cut
           from == sd.from
           n == Len(inHub)
           d == feed.dropped
           l == hub.seen
<1>1. inHub \in Seq(Nat) /\ d \in Nat /\ l \in Nat /\ l <= d
  BY DEF StreamInv, RingInv, HubState, FeedState
<1>2. /\ q \in Seq(Nat) /\ from \in Nat /\ cut \in Nat /\ from <= n
      /\ cut = 0 => SuffixOf(q, inHub) /\ from = n - Len(q)
  BY SeedOf
<1>3. cr \in Nat
  <2> HIDE DEF d, l
  <2>1. d - l \in Nat
    BY <1>1
  <2> QED BY <2>1 DEF d, l
<1>4. yes \in BOOLEAN /\ yes
  OBVIOUS
<1>5. fr = [NewWait EXCEPT !.st = "armed", !.from = from, !.parked = yes, !.credit = cr,
                           !.cut = cut, !.lossAt = d]
  BY DEF Fresh
<1>6. /\ NewWait \in WaitState /\ NewWait.win = <<>> /\ NewWait.gap = 0 /\ NewWait.answer = "none"
  <2>1. \A S : <<>> \in Seq(S)
    BY EmptySeq
  <2> QED BY <2>1 DEF NewWait, WaitState
<1> HIDE DEF yes, cr, cut, from, d, fr
<1>7. /\ fr \in WaitState /\ fr.st = "armed" /\ fr.from = from /\ fr.parked /\ fr.credit = cr
      /\ fr.cut = cut /\ fr.lossAt = d /\ fr.win = <<>> /\ fr.gap = 0 /\ fr.answer = "none"
  BY <1>1, <1>2, <1>3, <1>4, <1>5, <1>6 DEF WaitState
<1>8. q = <<>> \o q
  BY <1>2, ConcatEmptySeq
<1>9. sc = Scan(fr, q, cut) /\ q = Window(fr, q, cut)
  BY <1>7, <1>8 DEF Seeded, Window, fr, cut
<1> DEFINE t == Trimmed(q, Lookback)
<1> HIDE DEF sc, q, sd
<1>10. /\ sc \in WaitState /\ sc.answer = fr.answer /\ sc.parked = fr.parked
       /\ sc.from = fr.from /\ sc.cut = fr.cut /\ sc.lossAt = fr.lossAt
       /\ sc.gap = fr.gap + cut /\ sc.credit = fr.credit
       /\ \/ Pairs(q) = {} /\ sc.st = fr.st /\ sc.win = t
          \/ sc.st = "settled" /\ sc.win = <<>>
  <2>1. Scanned(Scan(fr, q, cut), fr, Window(fr, q, cut), cut)
    <3>1. Window(fr, q, cut) \in Seq(Nat)
      BY <1>2, <1>9
    <3> QED BY <1>2, <1>7, <3>1, ScanOf
  <2> QED BY <1>9, <2>1 DEF Scanned
<1>11. /\ t \in Seq(Nat) /\ Len(t) <= Lookback /\ SuffixOf(t, q) /\ (Len(q) # 0 => Len(t) # 0)
  BY <1>2, TrimmedOf, TapAssumption
<1> HIDE DEF t
<1>12. 0 <= Lookback /\ Len(<<>>) = 0
  BY TapAssumption, EmptySeq
<1>13. ASSUME cut = 0, Pairs(q) = {}
       PROVE  /\ Absent(from, n, inHub) /\ SuffixOf(t, inHub)
              /\ from < n => Len(t) # 0
  <2> DEFINE k == Len(q)
  <2>1. k \in Nat /\ n \in Nat /\ from = n - k /\ k <= n
    BY <1>1, <1>2, <1>13 DEF SuffixOf
  <2>2. \A i \in 1 .. k : q[i] = inHub[n - k + i]
    BY <1>2, <1>13 DEF SuffixOf
  <2>3. \A i \in 1 .. k - 1 : ~(Odd(q[i]) /\ ~Odd(q[i + 1]))
    BY <1>13 DEF Pairs
  <2> HIDE DEF k, n
  <2>4. ASSUME NEW o \in from + 1 .. n - 1 PROVE ~(Odd(inHub[o]) /\ ~Odd(inHub[o + 1]))
    <3> DEFINE i == o - (n - k)
    <3>1. /\ i \in 1 .. k - 1 /\ i \in 1 .. k /\ i + 1 \in 1 .. k
          /\ n - k + i = o /\ n - k + (i + 1) = o + 1
      BY <2>1
    <3> HIDE DEF i
    <3>2. q[i] = inHub[o] /\ q[i + 1] = inHub[o + 1]
      BY <2>2, <3>1
    <3> QED BY <2>3, <3>1, <3>2
  <2>5. Absent(from, n, inHub)
    BY <2>4 DEF Absent
  <2>6. SuffixOf(t, inHub)
    BY <1>1, <1>2, <1>11, <1>13, SuffixTrans
  <2>7. from < n => k # 0
    BY <2>1
  <2> QED BY <1>11, <2>5, <2>6, <2>7 DEF k
<1>14. WaitOk(sc, inHub, l, d)
  <2>1. /\ sc.from = from /\ sc.cut = cut /\ sc.lossAt = d /\ sc.credit = cr /\ sc.gap = cut
        /\ sc.parked /\ sc.answer = "none" /\ sc \in WaitState
    <3>1. 0 + cut = cut
      BY <1>2
    <3> QED BY <1>7, <1>10, <3>1
  <2>2. Len(sc.win) <= Lookback
    BY <1>10, <1>11, <1>12
  <2>3. /\ cr = IF d > l THEN d - l ELSE 0
        /\ cut = cut + (IF l > d THEN l - d ELSE 0) /\ d <= d
    <3>1. cr = d - l
      BY DEF cr, d
    <3> HIDE DEF l
    <3> QED BY <1>1, <1>2, <3>1
  <2>4. sc.st = "armed" => Pairs(q) = {} /\ sc.win = t
    BY <1>10
  <2> HIDE DEF n, l
  <2> QED BY <1>2, <1>13, <2>1, <2>2, <2>3, <2>4 DEF WaitOk, n
<1>15. sc.st \in {"armed", "settled"} /\ sc.answer = "none"
  BY <1>7, <1>10
<1> QED BY <1>10, <1>14, <1>15 DEF sc, sd, d
-----------------------------------------------------------------------------
(* The tap hub: the steps *)

\* What the invariant says of the taps and of the waits.
TapsInv == taps \in [Tap -> TapState] /\ \A k \in Tap : TapOk(taps[k], inHub, hub.seen)
WaitsInv == /\ waits \in [Wait -> WaitState]
            /\ \A w \in Wait : WaitOk(waits[w], inHub, hub.seen, feed.dropped)

\* The initial states.
LEMMA TapInitInv == TapInit => TapInv
<1> SUFFICES ASSUME TapInit PROVE TapInv
  OBVIOUS
<1> USE DEF TapInit
<1> DEFINE e == <<>>
<1>1. /\ e \in Seq(Nat) /\ Len(e) = 0 /\ ToSet(e) = {} /\ 1 .. 0 = {}
  BY EmptySeq, SetOfEmpty
<1>2. e = <<>>
  OBVIOUS
<1> HIDE DEF e
<1>3. PICK ring \in BOOLEAN :
         hub = NewHub(ring) /\ feed = [q |-> e, active |-> ring, dropped |-> 0]
  BY <1>2
<1>4. /\ hub.ring = e /\ hub.hasRing = ring /\ hub.gapAt = NoHole /\ hub.seen = 0
      /\ ~hub.orphaned /\ hub \in HubState
  <2> DEFINE no == FALSE
  <2>1. hub = [ring |-> e, hasRing |-> ring, gapAt |-> NoHole, seen |-> 0, orphaned |-> no]
    BY <1>2, <1>3 DEF NewHub
  <2>2. no \in BOOLEAN /\ ~no /\ NoHole \in Nat \X Nat
    BY DEF NoHole
  <2> HIDE DEF no
  <2> QED BY <1>1, <2>1, <2>2 DEF HubState
<1>5. NoHole[1] = 0
  BY DEF NoHole
<1>6. feed \in FeedState /\ feed.q = e /\ feed.dropped = 0 /\ feed.active = ring
  BY <1>1, <1>3 DEF FeedState
<1>7. /\ StreamLen \in Nat /\ RingCap \in Nat /\ FeedCap \in Nat /\ MaxArmedWaits \in Nat
  BY TapAssumption
<1>8. StreamInv
  <2>1. emitted \in [n : 0 .. StreamLen, pc : {"idle", "send", "count"}]
    BY <1>7
  <2>2. inHub = e /\ emitted.n = 0 /\ emitted.pc = "idle"
    BY <1>2
  <2>3. Rising(e)
    BY <1>1 DEF Rising
  <2> QED BY <1>1, <1>6, <1>7, <2>1, <2>2, <2>3 DEF StreamInv, Before
<1>9. RingInv
  <2>1. SuffixOf(e, e)
    BY <1>1 DEF SuffixOf
  <2>2. inHub = e
    BY <1>2
  <2> QED BY <1>1, <1>4, <1>5, <1>6, <1>7, <2>1, <2>2 DEF RingInv
<1>10. \A k \in Tap : taps[k] = NewTap
  OBVIOUS
<1>11. \A w \in Wait : waits[w] = NewWait
  OBVIOUS
<1>12. NewTap.st = "none" /\ NewWait.st = "none"
  BY DEF NewTap, NewWait
<1>13. OpenTaps(taps) = {} /\ Armed(waits) = {}
  BY <1>10, <1>11, <1>12 DEF OpenTaps, Armed
<1>14. ObserverInv
  <2>1. IsFiniteSet({}) /\ Cardinality({}) = 0
    BY FS_EmptySet
  <2>2. 0 <= MaxArmedWaits
    BY <1>7
  <2>3. hub.hasRing = feed.active
    BY <1>4, <1>6
  <2>4. ObserversAreFed
    BY <1>13, <2>3, Zenon DEF ObserversAreFed
  <2>5. IsFiniteSet(Armed(waits)) /\ Cardinality(Armed(waits)) <= MaxArmedWaits
    BY <1>13, <2>1, <2>2
  <2> QED BY <1>4, <2>4, <2>5, Zenon DEF ObserverInv
<1>15. inHub \in Seq(Nat)
  BY <1>8 DEF StreamInv
<1>16. NewTap \in TapState /\ NewWait \in WaitState
  BY <1>15, NewTapOk, NewWaitOk DEF TapOk
<1>17. taps \in [Tap -> TapState] /\ waits \in [Wait -> WaitState]
  <2>1. taps = [k \in Tap |-> NewTap] /\ waits = [w \in Wait |-> NewWait]
    OBVIOUS
  <2> QED BY <1>16, <2>1
<1>18. \A k \in Tap : TapOk(taps[k], inHub, hub.seen)
  BY <1>10, <1>15, NewTapOk
<1>19. \A w \in Wait : WaitOk(waits[w], inHub, hub.seen, feed.dropped)
  BY <1>11, <1>15, NewWaitOk
<1> QED BY <1>8, <1>9, <1>14, <1>17, <1>18, <1>19 DEF TapInv

\* Only the feed's flag changes: the stream and the ring do not notice.
LEMMA FlagFrame ==
    ASSUME StreamInv, RingInv, UNCHANGED <<emitted, inHub, hub>>, NEW x \in BOOLEAN,
           feed' = [feed EXCEPT !.active = x]
    PROVE  /\ StreamInv' /\ RingInv'
           /\ feed'.dropped = feed.dropped /\ feed'.active = x
<1>1. feed \in FeedState
  BY DEF StreamInv
<1>2. feed' \in FeedState /\ feed'.q = feed.q /\ feed'.dropped = feed.dropped /\ feed'.active = x
  BY <1>1 DEF FeedState
<1>3. StreamInv'
  BY <1>2 DEF StreamInv
<1>4. RingInv'
  BY <1>2 DEF RingInv
<1> QED BY <1>2, <1>3, <1>4

\* refresh_active leaves the flag up when somebody observes.
LEMMA RefreshFeeds ==
    ASSUME feed'.active = Wanted(hub', taps', waits'),
           hub'.orphaned => ~hub'.hasRing /\ OpenTaps(taps') = {} /\ Armed(waits') = {}
    PROVE  ObserversAreFed'
BY DEF ObserversAreFed, Wanted

\* Emit: the producer's next byte is later than all before it.
LEMMA EmitInv == ASSUME TapInv, Emit PROVE TapInv'
<1> DEFINE n == emitted.n
           a == Len(inHub)
           q == Len(feed.q)
           d == feed.dropped
<1>1. /\ emitted \in [n : 0 .. StreamLen, pc : {"idle", "send", "count"}]
      /\ feed \in FeedState /\ inHub \in Seq(Nat)
      /\ n = a + q + d + 0
  BY DEF TapInv, StreamInv, Emit
<1>2. n \in Nat /\ n + 1 \in 0 .. StreamLen /\ a \in Nat /\ q \in Nat /\ d \in Nat
  <2>1. n \in 0 .. StreamLen /\ n < StreamLen /\ StreamLen \in Nat
    BY <1>1, TapAssumption DEF Emit
  <2>2. a \in Nat
    BY <1>1
  <2>3. feed.q \in Seq(Nat) /\ d \in Nat
    BY <1>1 DEF FeedState
  <2>4. q \in Nat
    BY <2>3
  <2> HIDE DEF n, a, q, d
  <2> QED BY <2>1, <2>2, <2>3, <2>4
<1>3. emitted'.n = n + 1 /\ emitted'.pc \in {"send", "count"}
  BY DEF Emit
<1>4. UNCHANGED <<feed, hub, taps, waits, inHub>>
  BY DEF Emit
<1>5. \A x \in ToSet(inHub) \cup ToSet(feed.q) : x <= n + 1 /\ x < n + 1
  <2>1. \A x \in ToSet(inHub) \cup ToSet(feed.q) : x <= n
    BY DEF TapInv, StreamInv
  <2>2. ToSet(inHub) \subseteq Nat /\ ToSet(feed.q) \subseteq Nat
    <3>1. feed.q \in Seq(Nat)
      BY <1>1 DEF FeedState
    <3> QED BY <1>1, <3>1, SetOf
  <2> HIDE DEF n
  <2> QED BY <1>2, <2>1, <2>2
<1>6. emitted' \in [n : 0 .. StreamLen, pc : {"idle", "send", "count"}]
  <2>1. emitted' = [n |-> n + 1, pc |-> IF feed.active THEN "send" ELSE "count"]
    BY DEF Emit
  <2> HIDE DEF n
  <2> QED BY <1>2, <2>1
<1>7. n + 1 = a + q + d + 1
  <2> HIDE DEF n, a, q, d
  <2> QED BY <1>1, <1>2
<1>8. StreamInv'
  <2>1. /\ feed' \in FeedState /\ Len(feed'.q) <= FeedCap /\ inHub' \in Seq(Nat)
        /\ Rising(inHub') /\ Rising(feed'.q) /\ Before(ToSet(inHub'), ToSet(feed'.q))
    BY <1>4 DEF TapInv, StreamInv
  <2>2. emitted'.n = Len(inHub') + Len(feed'.q) + feed'.dropped + (IF emitted'.pc = "idle" THEN 0 ELSE 1)
    BY <1>3, <1>4, <1>7
  <2>3. \A x \in ToSet(inHub') \cup ToSet(feed'.q) :
           x <= emitted'.n /\ (emitted'.pc # "idle" => x < emitted'.n)
    BY <1>3, <1>4, <1>5
  <2> QED BY <1>6, <2>1, <2>2, <2>3 DEF StreamInv
<1>9. RingInv' /\ ObserverInv' /\ TapsInv' /\ WaitsInv'
  BY <1>4 DEF TapInv, RingInv, ObserverInv, ObserversAreFed, TapsInv, WaitsInv
<1> QED BY <1>8, <1>9 DEF TapInv, TapsInv, WaitsInv

\* FeedSend: the byte goes to the end of the feed, or is about to be counted.
LEMMA FeedSendInv == ASSUME TapInv, FeedSend PROVE TapInv'
<1> DEFINE n == emitted.n
           a == Len(inHub)
           q == feed.q
           c == Len(q)
           d == feed.dropped
<1>1. /\ emitted \in [n : 0 .. StreamLen, pc : {"idle", "send", "count"}]
      /\ feed \in FeedState /\ inHub \in Seq(Nat)
      /\ emitted.pc = "send" /\ n = a + c + d + 1
      /\ Len(q) <= FeedCap /\ Rising(inHub) /\ Rising(q) /\ Before(ToSet(inHub), ToSet(q))
      /\ \A x \in ToSet(inHub) \cup ToSet(q) : x <= n /\ x < n
  BY DEF TapInv, StreamInv, FeedSend
<1>2. q \in Seq(Nat) /\ d \in Nat /\ n \in 0 .. StreamLen /\ FeedCap \in Nat /\ StreamLen \in Nat
  BY <1>1, TapAssumption DEF FeedState
<1>3. a \in Nat /\ c \in Nat /\ n \in Nat
  BY <1>1, <1>2
<1>4. UNCHANGED <<hub, taps, waits, inHub>>
  BY DEF FeedSend
<1>5. CASE Len(q) < FeedCap
  <2> DEFINE p == Append(q, n)
  <2>1. /\ feed' = [feed EXCEPT !.q = p] /\ emitted' = [emitted EXCEPT !.pc = "idle"]
    BY <1>5 DEF FeedSend
  <2>2. /\ p \in Seq(Nat) /\ Len(p) = c + 1 /\ ToSet(p) = ToSet(q) \cup {n}
    BY <1>2, <1>3, SetOfAppend
  <2>3. Rising(p)
    BY <1>1, <1>2, <1>3, RisingAppend
  <2> HIDE DEF p
  <2>4. /\ feed' \in FeedState /\ feed'.q = p /\ feed'.dropped = d /\ feed'.active = feed.active
    BY <1>1, <2>1, <2>2 DEF FeedState
  <2>5. /\ emitted' \in [n : 0 .. StreamLen, pc : {"idle", "send", "count"}]
        /\ emitted'.n = n /\ emitted'.pc = "idle"
    BY <1>1, <2>1
  <2>6. Len(p) <= FeedCap /\ n = a + Len(p) + d + 0
    <3>1. c < FeedCap /\ n = a + c + d + 1 /\ Len(p) = c + 1
      BY <1>1, <1>5, <2>2
    <3> HIDE DEF n, a, c, d
    <3> QED BY <1>2, <1>3, <3>1
  <2>7. Before(ToSet(inHub), ToSet(p))
    BY <1>1, <2>2 DEF Before
  <2>8. \A x \in ToSet(inHub) \cup ToSet(p) : x <= n
    <3>1. n <= n
      BY <1>3
    <3> QED BY <1>1, <2>2, <3>1
  <2>9. StreamInv'
    BY <1>1, <1>4, <2>3, <2>4, <2>5, <2>6, <2>7, <2>8 DEF StreamInv
  <2>10. RingInv' /\ ObserverInv' /\ TapsInv' /\ WaitsInv'
    BY <1>4, <2>4 DEF TapInv, RingInv, ObserverInv, ObserversAreFed, TapsInv, WaitsInv
  <2> QED BY <2>9, <2>10 DEF TapInv, TapsInv, WaitsInv
<1>6. CASE ~(Len(q) < FeedCap)
  <2>1. feed' = feed /\ emitted' = [emitted EXCEPT !.pc = "count"]
    BY <1>6 DEF FeedSend
  <2>2. /\ emitted' \in [n : 0 .. StreamLen, pc : {"idle", "send", "count"}]
        /\ emitted'.n = n /\ emitted'.pc = "count"
    BY <1>1, <2>1
  <2>3. StreamInv'
    BY <1>1, <1>4, <2>1, <2>2 DEF StreamInv
  <2>4. RingInv' /\ ObserverInv' /\ TapsInv' /\ WaitsInv'
    BY <1>4, <2>1 DEF TapInv, RingInv, ObserverInv, ObserversAreFed, TapsInv, WaitsInv
  <2> QED BY <2>3, <2>4 DEF TapInv, TapsInv, WaitsInv
<1> QED BY <1>5, <1>6

\* FeedCount: the byte that was not mirrored is loss, of which no hub has been told.
LEMMA FeedCountInv == ASSUME TapInv, FeedCount PROVE TapInv'
<1> DEFINE n == emitted.n
           a == Len(inHub)
           q == feed.q
           c == Len(q)
           d == feed.dropped
           l == hub.seen
<1>1. /\ emitted \in [n : 0 .. StreamLen, pc : {"idle", "send", "count"}]
      /\ feed \in FeedState /\ inHub \in Seq(Nat)
      /\ emitted.pc = "count" /\ n = a + c + d + 1
      /\ Len(q) <= FeedCap /\ Rising(inHub) /\ Rising(q) /\ Before(ToSet(inHub), ToSet(q))
      /\ \A x \in ToSet(inHub) \cup ToSet(q) : x <= n /\ x < n
  BY DEF TapInv, StreamInv, FeedCount
<1>2. q \in Seq(Nat) /\ d \in Nat /\ n \in 0 .. StreamLen /\ StreamLen \in Nat /\ l \in Nat /\ l <= d
  BY <1>1, TapAssumption DEF FeedState, TapInv, RingInv, HubState
<1>3. a \in Nat /\ c \in Nat /\ n \in Nat
  BY <1>1, <1>2
<1>4. UNCHANGED <<hub, taps, waits, inHub>>
  BY DEF FeedCount
<1>5. d + 1 \in Nat /\ l <= d + 1 /\ n = a + c + (d + 1) + 0
  <2>1. n = a + c + d + 1
    BY <1>1
  <2> HIDE DEF n, a, c, d, l
  <2> QED BY <1>2, <1>3, <2>1
<1>6. /\ feed' \in FeedState /\ feed'.q = q /\ feed'.dropped = d + 1 /\ feed'.active = feed.active
  <2> DEFINE e == d + 1
  <2>1. feed' = [feed EXCEPT !.dropped = e]
    BY DEF FeedCount
  <2>2. e \in Nat
    BY <1>5
  <2> HIDE DEF e
  <2>3. /\ feed' \in FeedState /\ feed'.q = q /\ feed'.dropped = e /\ feed'.active = feed.active
    BY <1>1, <2>1, <2>2 DEF FeedState
  <2> QED BY <2>3 DEF e
<1>7. /\ emitted' \in [n : 0 .. StreamLen, pc : {"idle", "send", "count"}]
      /\ emitted'.n = n /\ emitted'.pc = "idle"
  BY <1>1 DEF FeedCount
<1>8. StreamInv'
  BY <1>1, <1>4, <1>5, <1>6, <1>7 DEF StreamInv
<1>9. RingInv'
  BY <1>4, <1>5, <1>6 DEF TapInv, RingInv
<1>10. ObserverInv' /\ TapsInv'
  BY <1>4, <1>6 DEF TapInv, ObserverInv, ObserversAreFed, TapsInv
<1>11. ASSUME NEW w \in Wait PROVE WaitOk(waits[w], inHub, hub.seen, d + 1)
  <2>1. WaitOk(waits[w], inHub, hub.seen, d)
    BY DEF TapInv
  <2>2. waits[w].st = "armed" => waits[w].lossAt <= d + 1
    <3> DEFINE x == waits[w].lossAt
    <3>1. x \in Nat
      BY <2>1 DEF WaitOk, WaitState
    <3>2. waits[w].st = "armed" => x <= d
      BY <2>1 DEF WaitOk
    <3> HIDE DEF x, d
    <3>3. waits[w].st = "armed" => x <= d + 1
      BY <1>2, <3>1, <3>2
    <3> QED BY <3>3 DEF x
  <2> QED BY <2>1, <2>2 DEF WaitOk
<1>12. WaitsInv'
  BY <1>4, <1>6, <1>11 DEF TapInv, WaitsInv
<1> QED BY <1>8, <1>9, <1>10, <1>12 DEF TapInv, TapsInv, WaitsInv

\* The armed waits become fewer, or stay.
LEMMA FewerArmed ==
    ASSUME ObserverInv, Armed(waits') \subseteq Armed(waits)
    PROVE  IsFiniteSet(Armed(waits')) /\ Cardinality(Armed(waits')) <= MaxArmedWaits
<1> DEFINE A == Armed(waits)
           B == Armed(waits')
<1>1. IsFiniteSet(A) /\ Cardinality(A) <= MaxArmedWaits /\ MaxArmedWaits \in Nat
  BY TapAssumption DEF ObserverInv
<1>2. IsFiniteSet(B) /\ Cardinality(B) <= Cardinality(A)
  <2> HIDE DEF A, B
  <2>1. B \subseteq A
    BY DEF A, B
  <2> QED BY <1>1, <2>1, FS_Subset
<1>3. Cardinality(A) \in Nat /\ Cardinality(B) \in Nat
  BY <1>1, <1>2, FS_CardinalityType
<1> DEFINE x == Cardinality(A)
           y == Cardinality(B)
<1>4. x \in Nat /\ y \in Nat /\ y <= x /\ x <= MaxArmedWaits /\ MaxArmedWaits \in Nat
  BY <1>1, <1>2, <1>3
<1> HIDE DEF x, y
<1>5. y <= MaxArmedWaits
  BY <1>4
<1> QED BY <1>2, <1>5 DEF y

\* DetachAll: every observer is told and the feed is let go.
LEMMA DetachAllInv == ASSUME TapInv, DetachAll PROVE TapInv'
<1> DEFINE no == FALSE
           yes == TRUE
           e == <<>>
<1>1. /\ hub' = [hub EXCEPT !.orphaned = yes, !.hasRing = no, !.ring = e]
      /\ feed' = [feed EXCEPT !.active = no]
      /\ UNCHANGED <<emitted, inHub>>
  BY DEF DetachAll
<1>2. no \in BOOLEAN /\ ~no /\ yes \in BOOLEAN /\ yes /\ e \in Seq(Nat) /\ Len(e) = 0
  BY EmptySeq
<1>3. inHub \in Seq(Nat) /\ hub \in HubState /\ feed \in FeedState
  BY DEF TapInv, StreamInv, RingInv
<1>4. SuffixOf(e, inHub)
  BY <1>3, SuffixEmpty
<1> HIDE DEF no, yes, e
<1>5. /\ hub' \in HubState /\ hub'.ring = e /\ ~hub'.hasRing /\ hub'.orphaned
      /\ hub'.gapAt = hub.gapAt /\ hub'.seen = hub.seen
  BY <1>1, <1>2, <1>3 DEF HubState
<1>6. feed' \in FeedState /\ feed'.q = feed.q /\ feed'.dropped = feed.dropped
  BY <1>1, <1>2, <1>3 DEF FeedState
<1>7. StreamInv'
  BY <1>1, <1>6 DEF TapInv, StreamInv
<1>8. RingInv'
  <2>1. Len(hub'.ring) <= RingCap
    <3>1. 0 <= RingCap
      BY TapAssumption
    <3> QED BY <1>2, <1>5, <3>1
  <2> QED BY <1>1, <1>2, <1>4, <1>5, <1>6, <2>1 DEF TapInv, RingInv
<1>9. \A k \in Tap : taps'[k] = TellClosed(taps[k])
  BY DEF DetachAll
<1>10. ASSUME NEW k \in Tap
       PROVE  TapOk(taps'[k], inHub, hub.seen) /\ taps'[k].st # "open" /\ taps'[k] \in TapState
  <2>1. TapOk(taps[k], inHub, hub.seen)
    BY DEF TapInv
  <2>2. TapOk(TellClosed(taps[k]), inHub, hub.seen) /\ TellClosed(taps[k]).st # "open"
    BY <1>3, <2>1, TellClosedOk
  <2> QED BY <1>9, <2>2 DEF TapOk
<1>11. TapsInv'
  <2>1. taps' = [k \in Tap |-> TellClosed(taps[k])]
    BY DEF DetachAll
  <2>2. \A k \in Tap : TellClosed(taps[k]) \in TapState
    BY <1>9, <1>10
  <2>3. taps' \in [Tap -> TapState]
    BY <2>1, <2>2
  <2> QED BY <1>1, <1>5, <1>10, <2>3 DEF TapsInv
<1> DEFINE Ended(wt) == [wt EXCEPT !.st = "settled", !.end = "closed"]
           After(wt) == IF wt.st = "armed" THEN Ended(wt) ELSE wt
<1>12. waits' = [w \in Wait |-> After(waits[w])]
  BY DEF DetachAll
<1>13. ASSUME NEW w \in Wait
       PROVE  /\ After(waits[w]) \in WaitState /\ After(waits[w]).st # "armed"
              /\ WaitOk(After(waits[w]), inHub, hub.seen, feed.dropped)
  <2> DEFINE wt == waits[w]
             u == Ended(wt)
  <2>1. WaitOk(wt, inHub, hub.seen, feed.dropped) /\ wt \in WaitState
    BY DEF TapInv, WaitOk
  <2>2. CASE wt.st # "armed"
    BY <2>1, <2>2
  <2>3. CASE wt.st = "armed"
    <3>1. After(wt) = u
      BY <2>3
    <3>2. wt.answer # "timed out"
      BY <2>1, <2>3 DEF WaitOk
    <3> HIDE DEF wt
    <3>3. u \in WaitState /\ u.st = "settled" /\ u.win = wt.win /\ u.answer = wt.answer
      BY <2>1 DEF WaitState
    <3> HIDE DEF u
    <3>4. WaitOk(u, inHub, hub.seen, feed.dropped)
      BY <2>1, <3>2, <3>3, WaitOverOk
    <3>5. After(wt) \in WaitState /\ After(wt).st # "armed"
          /\ WaitOk(After(wt), inHub, hub.seen, feed.dropped)
      BY <3>1, <3>3, <3>4
    <3> QED BY <3>5 DEF wt
  <2> QED BY <2>2, <2>3
<1> HIDE DEF After
<1>14. WaitsInv' /\ Armed(waits') = {}
  <2>1. waits' \in [Wait -> WaitState] /\ \A w \in Wait : waits'[w] = After(waits[w])
    BY <1>12, <1>13
  <2>2. Armed(waits') = {}
    BY <1>13, <2>1 DEF Armed
  <2> QED BY <1>1, <1>5, <1>6, <1>13, <2>1, <2>2 DEF WaitsInv
<1>15. OpenTaps(taps') = {}
  BY <1>10 DEF OpenTaps
<1>16. ObserverInv'
  <2>1. Armed(waits') \subseteq Armed(waits)
    BY <1>14
  <2>2. IsFiniteSet(Armed(waits')) /\ Cardinality(Armed(waits')) <= MaxArmedWaits
    BY <2>1, FewerArmed DEF TapInv
  <2> QED BY <1>5, <1>14, <1>15, <2>2 DEF ObserverInv, ObserversAreFed
<1> QED BY <1>7, <1>8, <1>11, <1>14, <1>16 DEF TapInv, TapsInv, WaitsInv

\* A step of one tap: the hub, the waits and the stream stay.
LEMMA TapStep ==
    ASSUME TapInv, NEW k \in Tap, NEW tp, TapOk(tp, inHub, hub.seen), taps' = [taps EXCEPT ![k] = tp],
           tp.st = "open" => ~hub.orphaned, UNCHANGED <<emitted, hub, waits, inHub>>,
           \/ Refresh(taps', waits)
           \/ feed' = feed /\ tp.st = taps[k].st
    PROVE  TapInv'
<1>1. /\ taps \in [Tap -> TapState] /\ \A j \in Tap : TapOk(taps[j], inHub, hub.seen)
      /\ tp \in TapState
  BY DEF TapInv, TapOk
<1>2. taps' \in [Tap -> TapState]
  BY <1>1
<1>3. \A j \in Tap : taps'[j] = IF j = k THEN tp ELSE taps[j]
  BY <1>1
<1>4. \A j \in Tap : TapOk(taps'[j], inHub, hub.seen)
  BY <1>1, <1>3
<1>5. TapsInv'
  BY <1>2, <1>4 DEF TapsInv
<1>6. hub.orphaned => ~hub.hasRing /\ OpenTaps(taps') = {} /\ Armed(waits) = {}
  <2>1. hub.orphaned => ~hub.hasRing /\ OpenTaps(taps) = {} /\ Armed(waits) = {}
    BY DEF TapInv, RingInv, ObserverInv
  <2>2. hub.orphaned => OpenTaps(taps') = {}
    BY <1>3, <2>1 DEF OpenTaps
  <2> QED BY <2>1, <2>2
<1>7. CASE Refresh(taps', waits)
  <2> DEFINE x == Wanted(hub, taps', waits)
  <2>1. x \in BOOLEAN /\ feed' = [feed EXCEPT !.active = x]
    BY <1>7 DEF Refresh, Wanted
  <2> HIDE DEF x
  <2>2. StreamInv' /\ RingInv' /\ feed'.dropped = feed.dropped /\ feed'.active = x
    BY <2>1, FlagFrame DEF TapInv
  <2>3. feed'.active = Wanted(hub', taps', waits')
    BY <2>2 DEF x
  <2>4. ObserversAreFed'
    BY <1>6, <2>3, RefreshFeeds
  <2>5. ObserverInv'
    BY <1>6, <2>4 DEF TapInv, ObserverInv
  <2>6. WaitsInv'
    BY <2>2 DEF TapInv, WaitsInv
  <2> QED BY <1>5, <2>2, <2>5, <2>6 DEF TapInv, TapsInv, WaitsInv
<1>8. CASE feed' = feed /\ tp.st = taps[k].st
  <2>1. OpenTaps(taps') = OpenTaps(taps)
    BY <1>3, <1>8 DEF OpenTaps
  <2>2. ObserverInv'
    BY <1>8, <2>1 DEF TapInv, ObserverInv, ObserversAreFed
  <2>3. StreamInv' /\ RingInv' /\ WaitsInv'
    BY <1>8 DEF TapInv, StreamInv, RingInv, WaitsInv
  <2> QED BY <1>5, <2>2, <2>3 DEF TapInv, TapsInv, WaitsInv
<1> QED BY <1>7, <1>8

\* TapOpen: the replay and the live stream meet at the live edge.
LEMMA TapOpenInv == ASSUME TapInv, NEW k \in Tap, NEW r \in BOOLEAN, TapOpen(k, r) PROVE TapInv'
<1> DEFINE n == IF r THEN Len(Trimmed(hub.ring, TapQueueCap)) ELSE 0
<1>1. hub.ring \in Seq(Nat) /\ TapQueueCap \in Nat
  BY TapAssumption DEF TapInv, RingInv, HubState
<1>2. n \in 0 .. Len(hub.ring) /\ n <= TapQueueCap
  <2> DEFINE t == Trimmed(hub.ring, TapQueueCap)
  <2>1. t \in Seq(Nat) /\ Len(t) <= TapQueueCap /\ Len(t) <= Len(hub.ring)
    BY <1>1, TrimmedOf DEF SuffixOf
  <2> HIDE DEF t
  <2>2. Len(t) \in Nat /\ Len(hub.ring) \in Nat
    BY <1>1, <2>1
  <2>3. n = IF r THEN Len(t) ELSE 0
    BY DEF t
  <2> HIDE DEF n
  <2> QED BY <1>1, <2>1, <2>2, <2>3
<1>3. taps' = [taps EXCEPT ![k] = Register(n)] /\ ~hub.orphaned
  BY DEF TapOpen
<1> HIDE DEF n
<1>4. TapOk(Register(n), inHub, hub.seen)
  BY <1>2, RegisterOk DEF TapInv
<1>5. Refresh(taps', waits) /\ UNCHANGED <<emitted, hub, waits, inHub>>
  BY DEF TapOpen
<1> QED BY <1>3, <1>4, <1>5, TapStep

\* TapClose: what was queued is gone with the connection.
LEMMA TapCloseInv == ASSUME TapInv, NEW k \in Tap, TapClose(k) PROVE TapInv'
<1> DEFINE tp == taps[k]
           u == [tp EXCEPT !.st = "closed", !.out = <<>>]
<1>1. taps \in [Tap -> TapState] /\ TapOk(tp, inHub, hub.seen) /\ inHub \in Seq(Nat) /\ tp \in TapState
  BY DEF TapInv, StreamInv, TapOk
<1>2. taps' = [taps EXCEPT ![k] = u]
  BY <1>1 DEF TapClose
<1>3. TapOk(u, inHub, hub.seen)
  BY <1>1, TapClosedOk
<1>4. u.st = "closed"
  <2> HIDE DEF tp
  <2> QED BY <1>1 DEF TapState
<1> HIDE DEF u
<1>5. Refresh(taps', waits) /\ UNCHANGED <<emitted, hub, waits, inHub>>
  BY DEF TapClose
<1> QED BY <1>2, <1>3, <1>4, <1>5, TapStep

\* TapRead: the next event goes out.
LEMMA TapReadInv == ASSUME TapInv, NEW k \in Tap, TapRead(k) PROVE TapInv'
<1> DEFINE tp == taps[k]
           u == AfterRead(tp)
<1>1. taps \in [Tap -> TapState] /\ TapOk(tp, inHub, hub.seen) /\ inHub \in Seq(Nat)
  BY DEF TapInv, StreamInv
<1>2. taps' = [taps EXCEPT ![k] = u]
  BY DEF TapRead
<1>3. TapOk(u, inHub, hub.seen) /\ u.st = tp.st
  BY <1>1, ReadOk DEF TapRead
<1>4. feed' = feed /\ UNCHANGED <<emitted, hub, waits, inHub>>
  BY DEF TapRead
<1>5. u.st = "open" => ~hub.orphaned
  <2>1. hub.orphaned => OpenTaps(taps) = {}
    BY DEF TapInv, ObserverInv
  <2> QED BY <1>3, <2>1 DEF OpenTaps
<1> HIDE DEF u
<1> QED BY <1>2, <1>3, <1>4, <1>5, TapStep

\* A step of one wait: the hub, the taps and the stream stay.
LEMMA WaitStep ==
    ASSUME TapInv, NEW w \in Wait, NEW u, WaitOk(u, inHub, hub.seen, feed.dropped),
           waits' = [waits EXCEPT ![w] = u],
           u.st = "armed" => ~hub.orphaned /\ ~AtMaximum /\ waits[w].st # "armed",
           UNCHANGED <<emitted, hub, taps, inHub>>,
           \/ Refresh(taps, waits')
           \/ feed' = feed /\ u.st # "armed" /\ waits[w].st # "armed"
    PROVE  TapInv'
<1>1. /\ waits \in [Wait -> WaitState] /\ u \in WaitState
      /\ \A v \in Wait : WaitOk(waits[v], inHub, hub.seen, feed.dropped)
  BY DEF TapInv, WaitOk
<1>2. waits' \in [Wait -> WaitState]
  BY <1>1
<1>3. \A v \in Wait : waits'[v] = IF v = w THEN u ELSE waits[v]
  BY <1>1
<1>4. \A v \in Wait : WaitOk(waits'[v], inHub, hub.seen, feed.dropped)
  BY <1>1, <1>3
<1>5. ObserverInv
  BY DEF TapInv
<1>6. IsFiniteSet(Armed(waits')) /\ Cardinality(Armed(waits')) <= MaxArmedWaits
  <2>1. CASE u.st # "armed"
    <3>1. Armed(waits') \subseteq Armed(waits)
      BY <1>3, <2>1 DEF Armed
    <3> QED BY <1>5, <3>1, FewerArmed
  <2>2. CASE u.st = "armed"
    <3> DEFINE A == Armed(waits)
               B == Armed(waits')
               m == Cardinality(A)
    <3>1. B = A \cup {w} /\ w \notin A
      BY <1>3, <2>2 DEF Armed
    <3>2. IsFiniteSet(A) /\ MaxArmedWaits \in Nat /\ ~(m >= MaxArmedWaits)
      BY <1>5, <2>2, TapAssumption DEF ObserverInv, AtMaximum
    <3> HIDE DEF A, B
    <3>3. m \in Nat
      BY <3>2, FS_CardinalityType
    <3>4. IsFiniteSet(B) /\ Cardinality(B) = m + 1
      BY <3>1, <3>2, FS_AddElement
    <3> HIDE DEF m
    <3>5. Cardinality(B) <= MaxArmedWaits
      BY <3>2, <3>3, <3>4
    <3> QED BY <3>4, <3>5 DEF B
  <2> QED BY <2>1, <2>2
<1>7. hub.orphaned => ~hub.hasRing /\ OpenTaps(taps) = {} /\ Armed(waits') = {}
  <2>1. hub.orphaned => ~hub.hasRing /\ OpenTaps(taps) = {} /\ Armed(waits) = {}
    BY DEF TapInv, RingInv, ObserverInv
  <2>2. hub.orphaned => Armed(waits') = {}
    BY <1>3, <2>1 DEF Armed
  <2> QED BY <2>1, <2>2
<1>8. CASE Refresh(taps, waits')
  <2> DEFINE x == Wanted(hub, taps, waits')
  <2>1. x \in BOOLEAN /\ feed' = [feed EXCEPT !.active = x]
    BY <1>8 DEF Refresh, Wanted
  <2> HIDE DEF x
  <2>2. StreamInv' /\ RingInv' /\ feed'.dropped = feed.dropped /\ feed'.active = x
    BY <2>1, FlagFrame DEF TapInv
  <2>3. feed'.active = Wanted(hub', taps', waits')
    BY <2>2 DEF x
  <2>4. ObserversAreFed'
    BY <1>7, <2>3, RefreshFeeds
  <2>5. ObserverInv'
    BY <1>6, <1>7, <2>4 DEF ObserverInv
  <2>6. WaitsInv' /\ TapsInv'
    BY <1>2, <1>4, <2>2 DEF TapInv, WaitsInv, TapsInv
  <2> QED BY <2>2, <2>5, <2>6 DEF TapInv, TapsInv, WaitsInv
<1>9. CASE feed' = feed /\ u.st # "armed" /\ waits[w].st # "armed"
  <2>1. Armed(waits') = Armed(waits)
    BY <1>3, <1>9 DEF Armed
  <2>2. ObserverInv'
    BY <1>9, <2>1 DEF TapInv, ObserverInv, ObserversAreFed
  <2>3. StreamInv' /\ RingInv' /\ WaitsInv' /\ TapsInv'
    BY <1>2, <1>4, <1>9 DEF TapInv, StreamInv, RingInv, WaitsInv, TapsInv
  <2> QED BY <2>2, <2>3 DEF TapInv, TapsInv, WaitsInv
<1> QED BY <1>8, <1>9

\* ArmWait: refused, answered by the ring, or armed.
LEMMA ArmWaitInv == ASSUME TapInv, NEW w \in Wait, NEW r \in BOOLEAN, ArmWait(w, r) PROVE TapInv'
<1> DEFINE sc == Seeded(Seed(r))
           refused == [NewWait EXCEPT !.st = "over", !.answer = "refused"]
           no == FALSE
           hit == [sc EXCEPT !.st = "over", !.answer = "matched", !.parked = no]
           u == IF AtMaximum THEN refused ELSE IF sc.st = "settled" THEN hit ELSE sc
<1>1. inHub \in Seq(Nat) /\ waits \in [Wait -> WaitState]
  BY DEF TapInv, StreamInv
<1>2. /\ waits' = [waits EXCEPT ![w] = u]
  BY DEF ArmWait, Seeded, Fresh
<1>3. /\ waits[w].st = "none" /\ ~hub.orphaned
      /\ Refresh(taps, waits') /\ UNCHANGED <<emitted, hub, taps, inHub>>
  BY DEF ArmWait
<1>4. /\ sc \in WaitState /\ sc.st \in {"armed", "settled"}
      /\ WaitOk(sc, inHub, hub.seen, feed.dropped)
  BY SeededOk DEF TapInv
<1>5. WaitOk(refused, inHub, hub.seen, feed.dropped) /\ refused.st = "over"
  BY <1>1, NewWaitOk
<1>6. no \in BOOLEAN
  OBVIOUS
<1> HIDE DEF sc, refused, no
<1>7. hit \in WaitState /\ hit.st = "over" /\ hit.answer = "matched" /\ hit.win = sc.win
  BY <1>4, <1>6 DEF WaitState
<1> HIDE DEF hit
<1>8. WaitOk(hit, inHub, hub.seen, feed.dropped)
  BY <1>4, <1>7, WaitOverOk
<1>9. /\ WaitOk(u, inHub, hub.seen, feed.dropped)
      /\ u.st = "armed" => ~AtMaximum
  BY <1>4, <1>5, <1>7, <1>8
<1> HIDE DEF u
<1> QED BY <1>2, <1>3, <1>9, WaitStep

\* WaitAnswered: the outcome becomes the answer.
LEMMA WaitAnsweredInv == ASSUME TapInv, NEW w \in Wait, WaitAnswered(w) PROVE TapInv'
<1> DEFINE wt == waits[w]
           no == FALSE
           e == wt.end
           u == [wt EXCEPT !.st = "over", !.parked = no, !.answer = e]
<1>1. /\ wt \in WaitState /\ WaitOk(wt, inHub, hub.seen, feed.dropped) /\ wt.st = "settled"
  BY DEF TapInv, WaitOk, WaitAnswered
<1>2. waits' = [waits EXCEPT ![w] = u] /\ feed' = feed /\ UNCHANGED <<emitted, hub, taps, inHub>>
  BY DEF WaitAnswered
<1>3. no \in BOOLEAN
  OBVIOUS
<1>4. e \in {"none", "matched", "closed"}
  BY <1>1 DEF WaitState
<1> HIDE DEF no, wt, e
<1>5. u \in WaitState /\ u.st = "over" /\ u.answer = e /\ u.win = wt.win
  BY <1>1, <1>3, <1>4 DEF WaitState
<1> HIDE DEF u
<1>6. WaitOk(u, inHub, hub.seen, feed.dropped)
  BY <1>1, <1>4, <1>5, WaitOverOk
<1>7. waits[w].st # "armed" /\ u.st # "armed"
  BY <1>1, <1>5 DEF wt
<1> QED BY <1>2, <1>6, <1>7, WaitStep

\* WaitDeadline: nothing came, up to now.
LEMMA WaitDeadlineInv == ASSUME TapInv, NEW w \in Wait, WaitDeadline(w) PROVE TapInv'
<1> DEFINE wt == waits[w]
           no == FALSE
           n == Len(inHub)
           u == [wt EXCEPT !.st = "over", !.parked = no, !.answer = "timed out", !.upto = n]
<1>1. /\ wt \in WaitState /\ WaitOk(wt, inHub, hub.seen, feed.dropped) /\ wt.st = "armed"
  BY DEF TapInv, WaitOk, WaitDeadline
<1>2. /\ waits' = [waits EXCEPT ![w] = u] /\ Refresh(taps, waits')
      /\ UNCHANGED <<emitted, hub, taps, inHub>>
  BY DEF WaitDeadline, TimedOut, ingested
<1>3. no \in BOOLEAN
  OBVIOUS
<1>4. n \in Nat /\ n <= n
  <2>1. inHub \in Seq(Nat)
    BY DEF TapInv, StreamInv
  <2>2. n \in Nat
    BY <2>1
  <2> HIDE DEF n
  <2> QED BY <2>2
<1>5. wt.gap = 0 => Absent(wt.from, n, inHub)
  BY <1>1 DEF WaitOk
<1>6. Len(wt.win) <= Lookback
  BY <1>1 DEF WaitOk
<1> HIDE DEF no, wt, n
<1>7. /\ u \in WaitState /\ u.st = "over" /\ u.answer = "timed out" /\ u.win = wt.win /\ u.upto = n
      /\ u.from = wt.from /\ u.gap = wt.gap
  BY <1>1, <1>3, <1>4 DEF WaitState
<1> HIDE DEF u
<1>8. WaitOk(u, inHub, hub.seen, feed.dropped)
  BY <1>4, <1>5, <1>6, <1>7 DEF WaitOk, n
<1> QED BY <1>2, <1>7, <1>8, WaitStep

\* WaitDropped: the verb goes, armed or not.
LEMMA WaitDroppedInv == ASSUME TapInv, NEW w \in Wait, WaitDropped(w) PROVE TapInv'
<1> DEFINE wt == waits[w]
           no == FALSE
           u == [wt EXCEPT !.st = "over", !.parked = no]
<1>1. /\ wt \in WaitState /\ WaitOk(wt, inHub, hub.seen, feed.dropped)
  BY DEF TapInv, WaitOk
<1>2. /\ waits' = [waits EXCEPT ![w] = u] /\ Refresh(taps, waits')
      /\ UNCHANGED <<emitted, hub, taps, inHub>>
  BY DEF WaitDropped
<1>3. no \in BOOLEAN
  OBVIOUS
<1> HIDE DEF no, wt
<1>4. /\ u \in WaitState /\ u.st = "over" /\ u.answer = wt.answer /\ u.win = wt.win /\ u.upto = wt.upto
      /\ u.from = wt.from /\ u.gap = wt.gap
  BY <1>1, <1>3 DEF WaitState
<1> HIDE DEF u
<1>5. wt.answer = "timed out" => wt.st = "over"
  BY <1>1 DEF WaitOk
<1>6. WaitOk(u, inHub, hub.seen, feed.dropped)
  BY <1>1, <1>4, <1>5, WaitOverOk
<1> QED BY <1>2, <1>4, <1>6, WaitStep

\* One element moves from a queue of c to one of a: the sum stays.
LEMMA MovedOne ==
    ASSUME NEW n, NEW a \in Nat, NEW c \in Nat \ {0}, NEW d \in Nat, NEW i \in Nat, NEW m \in Nat,
           NEW u, NEW v, n = a + c + d + i, c <= m, u = a + 1, v = c - 1
    PROVE  n = u + v + d + i /\ v <= m
OBVIOUS

\* Ingest, the stream: the oldest byte of the feed becomes the hub's newest.
LEMMA IngestStream ==
    ASSUME StreamInv, feed.q # <<>>, inHub' = Append(inHub, Head(feed.q)), NEW x \in BOOLEAN,
           feed' = [feed EXCEPT !.q = Tail(@), !.active = x], UNCHANGED emitted
    PROVE  StreamInv' /\ feed'.dropped = feed.dropped /\ feed'.active = x /\ Head(feed.q) \in Nat
<1> DEFINE n == emitted.n
           a == Len(inHub)
           q == feed.q
           c == Len(q)
           d == feed.dropped
           b == Head(q)
           t == Tail(q)
           z == Append(inHub, b)
           i == IF emitted.pc = "idle" THEN 0 ELSE 1
<1>1. /\ emitted \in [n : 0 .. StreamLen, pc : {"idle", "send", "count"}]
      /\ feed \in FeedState /\ inHub \in Seq(Nat)
      /\ n = a + c + d + i
      /\ Len(q) <= FeedCap /\ Rising(inHub) /\ Rising(q) /\ Before(ToSet(inHub), ToSet(q))
      /\ \A y \in ToSet(inHub) \cup ToSet(q) : y <= n /\ (emitted.pc # "idle" => y < n)
  BY DEF StreamInv
<1>2. q \in Seq(Nat) /\ d \in Nat /\ FeedCap \in Nat
  BY <1>1, TapAssumption DEF FeedState
<1>3. Len(q) # 0
  BY <1>2, EmptySeq
<1>4. /\ b \in Nat /\ t \in Seq(Nat) /\ Len(t) = c - 1 /\ c \in Nat \ {0}
      /\ ToSet(q) = {b} \cup ToSet(t)
  BY <1>2, <1>3, SetOfTail
<1>5. Rising(t) /\ Before({b}, ToSet(t))
  BY <1>1, <1>2, <1>3, RisingTail
<1> HIDE DEF b, t
<1>6. /\ z \in Seq(Nat) /\ Len(z) = a + 1 /\ ToSet(z) = ToSet(inHub) \cup {b} /\ a \in Nat
  <2>1. inHub \in Seq(Nat) /\ b \in Nat
    BY <1>1, <1>4
  <2> QED BY <2>1, SetOfAppend
<1>7. Rising(z)
  <2>1. \A y \in ToSet(inHub) : y < b
    BY <1>1, <1>4 DEF Before
  <2> QED BY <1>1, <1>4, <2>1, RisingAppend
<1>8. inHub' = z
  BY DEF b
<1> HIDE DEF z
<1>9. feed' \in FeedState /\ feed'.q = t /\ feed'.dropped = d /\ feed'.active = x
  <2>1. feed' = [feed EXCEPT !.q = t, !.active = x]
    BY DEF t
  <2> QED BY <1>1, <1>4, <2>1 DEF FeedState
<1>10. Before(ToSet(z), ToSet(t))
  BY <1>1, <1>4, <1>5, <1>6 DEF Before
<1>11. ToSet(z) \cup ToSet(t) = ToSet(inHub) \cup ToSet(q)
  BY <1>4, <1>6
<1>12. n = Len(z) + Len(t) + d + i /\ Len(t) <= FeedCap
  <2>1. i \in Nat
    OBVIOUS
  <2>2. n = a + c + d + i /\ c <= FeedCap /\ Len(z) = a + 1 /\ Len(t) = c - 1
    BY <1>1, <1>4, <1>6
  <2>3. a \in Nat /\ c \in Nat \ {0} /\ d \in Nat /\ FeedCap \in Nat
    BY <1>2, <1>4, <1>6
  <2> DEFINE u == Len(z)
             v == Len(t)
  <2> HIDE DEF n, a, c, d, i, u, v
  <2>4. n = a + c + d + i /\ c <= FeedCap /\ u = a + 1 /\ v = c - 1
    BY <2>2 DEF u, v
  <2>5. n = u + v + d + i /\ v <= FeedCap
    BY <2>1, <2>3, <2>4, MovedOne
  <2> QED BY <2>5 DEF u, v
<1>13. StreamInv'
  BY <1>1, <1>5, <1>6, <1>7, <1>8, <1>9, <1>10, <1>11, <1>12 DEF StreamInv
<1> QED BY <1>4, <1>9, <1>13 DEF b

\* Ingest, the ring: it keeps the newest bytes, and the place of the newest hole.
LEMMA IngestRing ==
    ASSUME StreamInv, RingInv, NEW b \in Nat, inHub' = Append(inHub, b), feed'.dropped = feed.dropped,
           NEW gap, gap = feed.dropped - hub.seen,
           hub' = [hub EXCEPT
                     !.seen = feed.dropped,
                     !.gapAt = IF hub.hasRing /\ gap > 0 THEN <<ingested, gap>> ELSE @,
                     !.ring = IF hub.hasRing THEN Trimmed(Append(@, b), RingCap) ELSE @]
    PROVE  /\ RingInv' /\ hub'.seen = feed.dropped /\ gap \in Nat /\ hub.seen + gap = feed.dropped
           /\ hub'.hasRing = hub.hasRing /\ hub'.orphaned = hub.orphaned
<1> DEFINE n == Len(inHub)
           d == feed.dropped
           l == hub.seen
           z == Append(inHub, b)
           rg == hub.ring
           y == Append(rg, b)
           t == Trimmed(y, RingCap)
           g2 == IF hub.hasRing /\ gap > 0 THEN <<n, gap>> ELSE hub.gapAt
           r2 == IF hub.hasRing THEN t ELSE rg
<1>1. /\ inHub \in Seq(Nat) /\ hub \in HubState /\ d \in Nat /\ l \in Nat /\ l <= d
      /\ hub.ring \in Seq(Nat) /\ hub.gapAt \in Nat \X Nat
      /\ SuffixOf(rg, inHub) /\ Len(rg) <= RingCap /\ RingCap \in Nat
      /\ hub.gapAt[1] <= n /\ (hub.gapAt[1] > 0 => hub.gapAt[2] > 0)
      /\ hub.orphaned => ~hub.hasRing
      /\ ~hub.hasRing => Len(rg) = 0
  BY TapAssumption DEF StreamInv, RingInv, HubState, FeedState
<1>2. gap \in Nat /\ l + gap = d
  <2>1. gap = d - l
    OBVIOUS
  <2> HIDE DEF d, l
  <2> QED BY <1>1, <2>1
<1>3. z \in Seq(Nat) /\ Len(z) = n + 1 /\ n \in Nat /\ y \in Seq(Nat)
  BY <1>1, SetOfAppend, SetOf
<1>4. t \in Seq(Nat) /\ Len(t) <= RingCap /\ SuffixOf(t, z)
  <2>1. SuffixOf(y, z)
    BY <1>1, SuffixAppend
  <2>2. t \in Seq(Nat) /\ Len(t) <= RingCap /\ SuffixOf(t, y)
    BY <1>1, <1>3, TrimmedOf
  <2> HIDE DEF t, y, z
  <2> QED BY <1>3, <2>1, <2>2, SuffixTrans
<1>5. hub' = [hub EXCEPT !.seen = d, !.gapAt = g2, !.ring = r2]
  BY DEF ingested
<1>6. ~hub.hasRing => SuffixOf(rg, z)
  <2>1. 1 .. 0 = {} /\ 0 <= n + 1
    <3> HIDE DEF n
    <3> QED BY <1>3
  <2> QED BY <1>1, <1>3, <2>1 DEF SuffixOf
<1> HIDE DEF z, y, t
<1>7. g2 \in Nat \X Nat /\ g2[1] <= n + 1 /\ (g2[1] > 0 => g2[2] > 0)
  <2> DEFINE h1 == hub.gapAt[1]
             h2 == hub.gapAt[2]
  <2>1. h1 \in Nat /\ h2 \in Nat /\ h1 <= n /\ (h1 > 0 => h2 > 0)
    BY <1>1
  <2>2. CASE hub.hasRing /\ gap > 0
    <3>1. g2 = <<n, gap>>
      BY <2>2
    <3> HIDE DEF n, g2
    <3> QED BY <1>2, <1>3, <2>2, <3>1
  <2>3. CASE ~(hub.hasRing /\ gap > 0)
    <3>1. g2 = hub.gapAt
      BY <2>3
    <3>2. h1 <= n + 1
      <4> HIDE DEF n, h1
      <4> QED BY <1>3, <2>1
    <3> HIDE DEF g2
    <3> QED BY <1>1, <2>1, <3>1, <3>2
  <2> QED BY <2>2, <2>3
<1>8. r2 \in Seq(Nat) /\ Len(r2) <= RingCap
  BY <1>1, <1>4
<1> HIDE DEF g2
<1>9. /\ hub' \in HubState /\ hub'.seen = d /\ hub'.gapAt = g2 /\ hub'.ring = r2
      /\ hub'.hasRing = hub.hasRing /\ hub'.orphaned = hub.orphaned
  <2> HIDE DEF r2, d
  <2> QED BY <1>1, <1>5, <1>7, <1>8 DEF HubState
<1>10. SuffixOf(r2, z) /\ (~hub.hasRing => Len(r2) = 0)
  BY <1>1, <1>4, <1>6
<1> HIDE DEF r2
<1>11. RingInv'
  <2>1. inHub' = z /\ feed'.dropped = d /\ d <= d
    <3>1. d <= d
      <4> HIDE DEF d
      <4> QED BY <1>1
    <3> QED BY <3>1 DEF z
  <2> HIDE DEF d, n
  <2> QED BY <1>1, <1>3, <1>7, <1>8, <1>9, <1>10, <2>1 DEF RingInv
<1> QED BY <1>2, <1>9, <1>11

\* Ingest: the ring, the taps and the waits all see the byte.
LEMMA IngestInv == ASSUME TapInv, Ingest PROVE TapInv'
<1> DEFINE b == Head(feed.q)
           gap == feed.dropped - hub.seen
           msg == [offset |-> ingested, byte |-> b, gap |-> gap]
           z == Append(inHub, b)
           d == feed.dropped
           l == hub.seen
           x == Wanted(hub', taps', waits')
           New(wt) == IF wt.st = "armed"
                      THEN [Scan(wt, <<b>>, Charge(wt, gap)) EXCEPT !.credit = 0]
                      ELSE wt
<1>1. /\ feed.q # <<>> /\ inHub' = z /\ UNCHANGED emitted
      /\ feed' = [feed EXCEPT !.q = Tail(@), !.active = x]
      /\ hub' = [hub EXCEPT
                   !.seen = feed.dropped,
                   !.gapAt = IF hub.hasRing /\ gap > 0 THEN <<ingested, gap>> ELSE @,
                   !.ring = IF hub.hasRing THEN Trimmed(Append(@, b), RingCap) ELSE @]
  BY DEF Ingest
<1>2. taps' = [k \in Tap |-> Offered(taps[k], msg)]
  BY DEF Ingest
<1>3. waits' = [w \in Wait |-> New(waits[w])]
  BY DEF Ingest
<1>4. /\ StreamInv /\ RingInv /\ ObserverInv /\ inHub \in Seq(Nat) /\ d \in Nat /\ l \in Nat /\ l <= d
  BY DEF TapInv, StreamInv, RingInv, HubState, FeedState
<1>5. x \in BOOLEAN
  BY DEF Wanted
<1>6. StreamInv' /\ feed'.dropped = d /\ feed'.active = x /\ b \in Nat
  <2> HIDE DEF x
  <2> QED BY <1>1, <1>4, <1>5, IngestStream
<1>7. /\ RingInv' /\ hub'.seen = d /\ gap \in Nat /\ l + gap = d
      /\ hub'.hasRing = hub.hasRing /\ hub'.orphaned = hub.orphaned
  <2> HIDE DEF b, gap
  <2>1. gap = feed.dropped - hub.seen /\ inHub' = Append(inHub, b)
    BY <1>1 DEF gap
  <2> QED BY <1>1, <1>4, <1>6, <2>1, IngestRing, ZenonT(60)
<1>8. ASSUME NEW k \in Tap
      PROVE  /\ TapOk(Offered(taps[k], msg), z, d) /\ Offered(taps[k], msg) \in TapState
             /\ taps[k].st # "open" => Offered(taps[k], msg) = taps[k]
  <2>1. TapOk(taps[k], inHub, l)
    BY DEF TapInv
  <2>2. TapOk(Offered(taps[k], [offset |-> Len(inHub), byte |-> b, gap |-> gap]), Append(inHub, b), l + gap)
    <3> HIDE DEF b, gap
    <3> QED BY <1>4, <1>6, <1>7, <2>1, OfferedOk
  <2>3. TapOk(Offered(taps[k], msg), z, d)
    BY <1>7, <2>2 DEF ingested
  <2>4. taps[k].st # "open" => Offered(taps[k], msg) = taps[k]
    BY DEF Offered
  <2> QED BY <2>3, <2>4 DEF TapOk
<1>9. ASSUME NEW w \in Wait
      PROVE  /\ WaitOk(New(waits[w]), z, d, d) /\ New(waits[w]) \in WaitState
             /\ New(waits[w]).st = "armed" => waits[w].st = "armed"
  <2> DEFINE wt == waits[w]
  <2>1. WaitOk(wt, inHub, l, d)
    BY DEF TapInv
  <2>2. CASE wt.st # "armed"
    <3>1. New(wt) = wt
      BY <2>2
    <3>2. WaitOk(wt, z, d, d)
      BY <1>4, <1>6, <2>1, <2>2, WaitFrame
    <3>3. wt \in WaitState
      BY <2>1 DEF WaitOk
    <3> HIDE DEF New, z, wt
    <3>4. /\ WaitOk(New(wt), z, d, d) /\ New(wt) \in WaitState
          /\ New(wt).st = "armed" => wt.st = "armed"
      BY <3>1, <3>2, <3>3
    <3> QED BY <3>4 DEF wt
  <2>3. CASE wt.st = "armed"
    <3>1. New(wt) = [Scan(wt, <<b>>, Charge(wt, d - l)) EXCEPT !.credit = 0]
      BY <2>3
    <3>2. WaitOk([Scan(wt, <<b>>, Charge(wt, d - l)) EXCEPT !.credit = 0], Append(inHub, b), d, d)
      <4> HIDE DEF b, d, l, wt
      <4> QED BY <1>4, <1>6, <2>1, <2>3, WaitIngestOk
    <3>3. WaitOk(New(wt), z, d, d)
      BY <3>1, <3>2
    <3> QED BY <2>3, <3>3 DEF WaitOk
  <2> QED BY <2>2, <2>3
<1> HIDE DEF New, msg, b, gap, z, d, x
<1>10. TapsInv'
  <2>1. taps' \in [Tap -> TapState] /\ \A k \in Tap : taps'[k] = Offered(taps[k], msg)
    BY <1>2, <1>8
  <2>2. inHub' = z /\ hub'.seen = d
    BY <1>1, <1>7
  <2> QED BY <1>8, <2>1, <2>2 DEF TapsInv
<1>11. waits' \in [Wait -> WaitState] /\ \A w \in Wait : waits'[w] = New(waits[w])
  BY <1>3, <1>9
<1>12. WaitsInv'
  <2>1. inHub' = z /\ hub'.seen = d /\ feed'.dropped = d
    BY <1>1, <1>6, <1>7
  <2> QED BY <1>9, <1>11, <2>1 DEF WaitsInv
<1>13. Armed(waits') \subseteq Armed(waits)
  BY <1>9, <1>11 DEF Armed
<1>14. hub.orphaned => OpenTaps(taps') = {}
  <2>1. hub.orphaned => OpenTaps(taps) = {}
    BY <1>4 DEF ObserverInv
  <2>2. \A k \in Tap : taps'[k] = Offered(taps[k], msg)
    BY <1>2
  <2> QED BY <1>8, <2>1, <2>2 DEF OpenTaps
<1>15. hub'.orphaned => ~hub'.hasRing /\ OpenTaps(taps') = {} /\ Armed(waits') = {}
  <2>1. hub.orphaned => ~hub.hasRing /\ Armed(waits) = {}
    BY <1>4 DEF RingInv, ObserverInv
  <2>2. hub'.orphaned => ~hub'.hasRing
    BY <1>7 DEF RingInv
  <2>3. hub'.orphaned => hub.orphaned
    BY <1>7
  <2> QED BY <1>13, <1>14, <2>1, <2>2, <2>3
<1>16. ObserverInv'
  <2>1. feed'.active = Wanted(hub', taps', waits')
    BY <1>6 DEF x
  <2>2. ObserversAreFed'
    BY <1>15, <2>1, RefreshFeeds
  <2>3. IsFiniteSet(Armed(waits')) /\ Cardinality(Armed(waits')) <= MaxArmedWaits
    BY <1>4, <1>13, FewerArmed
  <2> QED BY <1>15, <2>2, <2>3 DEF ObserverInv
<1> QED BY <1>6, <1>7, <1>10, <1>12, <1>16 DEF TapInv, TapsInv, WaitsInv

\* Every step keeps the invariant.
LEMMA TapStepInv == ASSUME TapInv, [TapNext]_tapVars PROVE TapInv'
<1>1. CASE UNCHANGED tapVars
  BY <1>1 DEF tapVars, TapInv, StreamInv, RingInv, ObserverInv, ObserversAreFed
<1>2. CASE Emit \/ FeedSend \/ FeedCount \/ Ingest \/ DetachAll
  BY <1>2, EmitInv, FeedSendInv, FeedCountInv, IngestInv, DetachAllInv
<1>3. CASE \E k \in Tap : (\E r \in BOOLEAN : TapOpen(k, r)) \/ TapClose(k) \/ TapRead(k)
  BY <1>3, TapOpenInv, TapCloseInv, TapReadInv
<1>4. CASE \E w \in Wait : (\E r \in BOOLEAN : ArmWait(w, r)) \/ WaitAnswered(w) \/ WaitDeadline(w)
                           \/ WaitDropped(w)
  BY <1>4, ArmWaitInv, WaitAnsweredInv, WaitDeadlineInv, WaitDroppedInv
<1> QED BY <1>1, <1>2, <1>3, <1>4 DEF TapNext

\* The invariant of the hub: what was emitted is somewhere, every queue holds true
\* messages, and an armed wait has seen all it answers for.
THEOREM TapInvariance == TapSpec => []TapInv
<1>1. TapInit => TapInv
  BY TapInitInv
<1>2. TapInv /\ [TapNext]_tapVars => TapInv'
  BY TapStepInv
<1> QED BY <1>1, <1>2, PTL DEF TapSpec
-----------------------------------------------------------------------------
(* The tap hub: what its clients can rely on *)

\* A tap's queue without the terminal event.
Body(tp) == IF tp.out # <<>> /\ Last(tp.out) = Closed THEN Front(tp.out) ELSE tp.out

\* That is data only, the queue's own up to its end.
LEMMA BodyOf ==
    ASSUME NEW s \in Seq(Nat), NEW l, NEW tp, TapOk(tp, s, l)
    PROVE  /\ Body(tp) \in Seq(Message) /\ Len(Body(tp)) <= Len(tp.out)
           /\ \A i \in 1 .. Len(Body(tp)) : Body(tp)[i] = tp.out[i] /\ tp.out[i] # Closed
           /\ tp.st = "open" => Body(tp) = tp.out
<1> DEFINE o == tp.out
           n == Len(o)
<1>1. o \in Seq(Message \cup {Closed})
  BY DEF TapOk, TapState
<1>2. n \in Nat /\ (o # <<>> => n # 0)
  BY <1>1, EmptySeq
<1>3. \A i \in 1 .. n : o[i] \in Message \/ (o[i] = Closed /\ i = n /\ tp.st = "orphaned")
  BY DEF TapOk, TrueMessage
<1>4. CASE o # <<>> /\ Last(o) = Closed
  <2> DEFINE f == SubSeq(o, 1, n - 1)
  <2>1. Body(tp) = f /\ o[n] = Closed
    BY <1>4 DEF Body, Front, Last
  <2>2. n # 0 /\ n \in 1 .. n
    <3> HIDE DEF n
    <3> QED BY <1>2, <1>4
  <2>3. f \in Seq(Message \cup {Closed}) /\ Len(f) = n - 1 /\ \A i \in 1 .. n - 1 : f[i] = o[i]
    BY <1>1, <1>2, <2>2
  <2> HIDE DEF f
  <2>4. \A i \in 1 .. Len(f) : i \in 1 .. n /\ i # n /\ i \in 1 .. n - 1
    <3> HIDE DEF n
    <3> QED BY <1>2, <2>2, <2>3
  <2>5. \A i \in 1 .. Len(f) : f[i] = o[i] /\ o[i] # Closed /\ f[i] \in Message
    BY <1>3, <2>3, <2>4, ClosedIsNoMessage
  <2>6. f \in Seq(Message)
    <3>1. Len(f) \in Nat
      BY <2>3
    <3>2. f = [i \in 1 .. Len(f) |-> f[i]]
      BY <2>3
    <3> QED BY <2>5, <3>1, <3>2, IsASeq
  <2>7. tp.st # "open"
    BY <1>3, <2>1, <2>2, ClosedIsNoMessage
  <2>8. Len(f) <= n
    <3> HIDE DEF n
    <3> QED BY <1>2, <2>3
  <2> QED BY <2>1, <2>5, <2>6, <2>7, <2>8
<1>5. CASE ~(o # <<>> /\ Last(o) = Closed)
  <2>1. Body(tp) = o
    BY <1>5 DEF Body
  <2>2. n # 0 => o[n] # Closed
    BY <1>1, <1>5, EmptySeq DEF Last
  <2>3. \A i \in 1 .. n : n # 0
    <3> HIDE DEF n
    <3> QED BY <1>2
  <2>4. \A i \in 1 .. n : o[i] \in Message /\ o[i] # Closed
    BY <1>3, <2>2, <2>3, ClosedIsNoMessage
  <2>5. o \in Seq(Message)
    <3> HIDE DEF o
    <3>1. o = [i \in 1 .. n |-> o[i]]
      BY <1>1
    <3> QED BY <1>2, <2>4, <3>1, IsASeq
  <2>6. n <= n
    <3> HIDE DEF n
    <3> QED BY <1>2
  <2> QED BY <2>1, <2>4, <2>5, <2>6
<1> QED BY <1>4, <1>5

\* All a tap was sent: what was read and then what is queued.
LEMMA DataOf ==
    ASSUME NEW s \in Seq(Nat), NEW l, NEW tp, TapOk(tp, s, l), NEW D, D = tp.read \o Body(tp)
    PROVE  /\ D \in Seq(Message)
           /\ \A i \in 1 .. Len(D) : TrueMessage(D[i], tp.from, s)
           /\ \A i, j \in 1 .. Len(D) : i < j => D[i].offset < D[j].offset
           /\ tp.st = "open" => Len(s) - tp.from = Len(D) + tp.dropped
<1> DEFINE r == tp.read
           b == Body(tp)
           o == tp.out
           m == Len(r)
           n == Len(b)
<1>1. r \in Seq(Message) /\ o \in Seq(Message \cup {Closed}) /\ tp \in TapState
  BY DEF TapOk, TapState
<1>2. /\ b \in Seq(Message) /\ n <= Len(o)
      /\ \A i \in 1 .. n : b[i] = o[i] /\ o[i] # Closed
      /\ tp.st = "open" => b = o
  BY BodyOf
<1>3. m \in Nat /\ n \in Nat /\ Len(o) \in Nat
  BY <1>1, <1>2
<1> HIDE DEF b
<1>4. /\ D \in Seq(Message) /\ Len(D) = m + n
      /\ \A i \in 1 .. m + n : D[i] = IF i <= m THEN r[i] ELSE b[i - m]
  BY <1>1, <1>2, ConcatProperties DEF b
<1>5. \A i \in 1 .. n : i \in 1 .. Len(o)
  <2> DEFINE c == Len(o)
  <2>1. n <= c /\ c \in Nat
    BY <1>2, <1>3
  <2> HIDE DEF n, c
  <2>2. \A i \in 1 .. n : i \in 1 .. c
    BY <1>3, <2>1
  <2> QED BY <2>2 DEF c
<1>6. /\ \A i \in 1 .. m : TrueMessage(r[i], tp.from, s)
      /\ \A i \in 1 .. n : TrueMessage(b[i], tp.from, s)
  BY <1>2, <1>5 DEF TapOk
<1>7. /\ \A i, j \in 1 .. m : i < j => r[i].offset < r[j].offset
      /\ \A i, j \in 1 .. n : i < j => b[i].offset < b[j].offset
      /\ \A i \in 1 .. m, j \in 1 .. n : r[i].offset < b[j].offset
  BY <1>2, <1>5 DEF TapOk
<1>8. \A i \in 1 .. m + n :
         \/ i \in 1 .. m /\ D[i] = r[i]
         \/ i - m \in 1 .. n /\ ~(i <= m) /\ D[i] = b[i - m]
  <2> HIDE DEF m, n, r, b
  <2>1. \A i \in 1 .. m + n : IF i <= m THEN i \in 1 .. m ELSE i - m \in 1 .. n
    BY <1>3
  <2> QED BY <1>4, <2>1
<1>9. \A i \in 1 .. Len(D) : TrueMessage(D[i], tp.from, s)
  BY <1>4, <1>6, <1>8
<1>10. ASSUME NEW i \in 1 .. Len(D), NEW j \in 1 .. Len(D), i < j
       PROVE  D[i].offset < D[j].offset
  <2> HIDE DEF m, n, r, b
  <2>1. i \in 1 .. m + n /\ j \in 1 .. m + n /\ i < j
    BY <1>4, <1>10
  <2>2. CASE j \in 1 .. m /\ D[j] = r[j]
    <3>1. i <= m /\ i \in 1 .. m
      BY <1>3, <2>1, <2>2
    <3>2. D[i] = r[i]
      BY <1>4, <2>1, <3>1
    <3> QED BY <1>7, <2>1, <2>2, <3>1, <3>2
  <2>3. CASE j - m \in 1 .. n /\ ~(j <= m) /\ D[j] = b[j - m]
    <3>1. CASE i \in 1 .. m /\ D[i] = r[i]
      BY <1>7, <2>3, <3>1
    <3>2. CASE i - m \in 1 .. n /\ ~(i <= m) /\ D[i] = b[i - m]
      <4>1. i - m < j - m
        BY <1>3, <2>1
      <4> QED BY <1>7, <2>3, <3>2, <4>1
    <3> QED BY <1>8, <2>1, <3>1, <3>2
  <2> QED BY <1>8, <2>1, <2>2, <2>3
<1>11. ASSUME tp.st = "open" PROVE Len(s) - tp.from = Len(D) + tp.dropped
  <2>1. Len(s) - tp.from = m + n + tp.dropped
    BY <1>2, <1>11 DEF TapOk
  <2> QED BY <1>4, <2>1
<1> QED BY <1>4, <1>9, <1>10, <1>11

\* Two rising sequences, one before the other, make one.
LEMMA RisingConcat ==
    ASSUME NEW p \in Seq(Nat), NEW q \in Seq(Nat), Rising(p), Rising(q), Before(ToSet(p), ToSet(q))
    PROVE  Increasing(p \o q)
<1> DEFINE s == p \o q
           m == Len(p)
           n == Len(q)
<1>1. /\ s \in Seq(Nat) /\ Len(s) = m + n
      /\ \A i \in 1 .. m + n : s[i] = IF i <= m THEN p[i] ELSE q[i - m]
  BY ConcatProperties
<1>2. m \in Nat /\ n \in Nat /\ DOMAIN s = 1 .. m + n
  BY <1>1
<1>3. /\ \A i, j \in 1 .. m : i < j => p[i] < p[j]
      /\ \A i, j \in 1 .. n : i < j => q[i] < q[j]
      /\ \A i \in 1 .. m, j \in 1 .. n : p[i] < q[j]
  <2>1. \A i \in 1 .. m, j \in 1 .. n : p[i] < q[j]
    BY SetOf DEF Before
  <2> QED BY <2>1 DEF Rising
<1> HIDE DEF s, m, n
<1>4. ASSUME NEW i \in 1 .. m + n, NEW j \in 1 .. m + n, i < j PROVE s[i] < s[j]
  <2>1. CASE j <= m
    <3>1. i <= m /\ i \in 1 .. m /\ j \in 1 .. m
      BY <1>2, <1>4, <2>1
    <3> QED BY <1>1, <1>3, <1>4, <2>1, <3>1
  <2>2. CASE ~(j <= m) /\ i <= m
    <3>1. i \in 1 .. m /\ j - m \in 1 .. n
      BY <1>2, <2>2
    <3> QED BY <1>1, <1>3, <2>2, <3>1
  <2>3. CASE ~(j <= m) /\ ~(i <= m)
    <3>1. i - m \in 1 .. n /\ j - m \in 1 .. n /\ i - m < j - m
      BY <1>2, <1>4, <2>3
    <3> QED BY <1>1, <1>3, <2>3, <3>1
  <2> QED BY <2>1, <2>2, <2>3
<1>5. Increasing(s)
  BY <1>2, <1>4 DEF Increasing
<1> QED BY <1>5 DEF s

\* A tap can trust its offsets and its gaps (tap.rs): for every depth of ring, feed
\* and queue and any number of taps and waits, each byte between the producer and a
\* tap is delivered once at its place or counted, and the endpoint's end is told.
THEOREM TapsAreTold == TapSpec => []TapSound
<1>1. TapInv => TapSound
  <2> SUFFICES ASSUME TapInv PROVE TapSound
    OBVIOUS
  <2>1. inHub \in Seq(Nat) /\ feed.q \in Seq(Nat)
    BY DEF TapInv, StreamInv, FeedState
  <2>2. TapTypeOK
    <3>1. \A k \in Tap : /\ taps[k].st \in {"none", "open", "closed", "orphaned"}
                         /\ Len(taps[k].out) <= TapQueueCap
      BY DEF TapInv, TapOk, TapState
    <3>2. \A w \in Wait : /\ waits[w].st \in {"none", "armed", "settled", "over"}
                          /\ Len(waits[w].win) <= Lookback
      BY DEF TapInv, WaitOk, WaitState
    <3>3. /\ emitted.n \in 0 .. StreamLen /\ emitted.pc \in {"idle", "send", "count"}
          /\ Len(feed.q) <= FeedCap /\ feed.dropped \in Nat
      BY DEF TapInv, StreamInv, FeedState
    <3>4. /\ Len(hub.ring) <= RingCap /\ hub.seen <= feed.dropped
          /\ Cardinality(Armed(waits)) <= MaxArmedWaits
      BY DEF TapInv, RingInv, ObserverInv
    <3> QED BY <3>1, <3>2, <3>3, <3>4 DEF TapTypeOK
  <2>3. FeedExact
    <3>1. Increasing(inHub \o feed.q)
      BY <2>1, RisingConcat DEF TapInv, StreamInv
    <3> QED BY <3>1 DEF FeedExact, TapInv, StreamInv, ingested
  <2>4. ObserversAreFed
    BY DEF TapInv, ObserverInv
  <2>5. SpliceExact
    <3> SUFFICES ASSUME NEW k \in Tap
                 PROVE  /\ \A i \in DOMAIN Data(k) : /\ Data(k)[i].byte = inHub[Data(k)[i].offset + 1]
                                                     /\ Data(k)[i].offset >= taps[k].from
                        /\ Increasing([i \in DOMAIN Data(k) |-> Data(k)[i].offset])
                        /\ taps[k].st = "open" => ingested - taps[k].from = Len(Data(k)) + taps[k].dropped
      BY DEF SpliceExact
    <3> DEFINE tp == taps[k]
               D == Data(k)
    <3>1. D = tp.read \o Body(tp)
      BY DEF Data, Body
    <3>2. TapOk(tp, inHub, hub.seen)
      BY DEF TapInv
    <3> HIDE DEF D, tp
    <3>3. /\ D \in Seq(Message)
          /\ \A i \in 1 .. Len(D) : TrueMessage(D[i], tp.from, inHub)
          /\ \A i, j \in 1 .. Len(D) : i < j => D[i].offset < D[j].offset
          /\ tp.st = "open" => Len(inHub) - tp.from = Len(D) + tp.dropped
      BY <2>1, <3>1, <3>2, DataOf
    <3>4. DOMAIN D = 1 .. Len(D)
      BY <3>3
    <3>5. \A i \in DOMAIN D : D[i].byte = inHub[D[i].offset + 1] /\ D[i].offset >= tp.from
      BY <3>3, <3>4 DEF TrueMessage
    <3>6. Increasing([i \in DOMAIN D |-> D[i].offset])
      BY <3>3, <3>4 DEF Increasing
    <3> QED BY <3>3, <3>5, <3>6 DEF D, tp, ingested
  <2>6. GapsAddUp
    BY DEF GapsAddUp, TapInv, TapOk
  <2>7. ClosedIsTold
    <3> SUFFICES ASSUME NEW k \in Tap, taps[k].st = "orphaned"
                 PROVE  taps[k].told \/ taps[k].lane \/ Closed \in ToSet(taps[k].out)
      BY DEF ClosedIsTold
    <3> DEFINE o == taps[k].out
               n == Len(o)
    <3>1. o \in Seq(Message \cup {Closed})
      BY DEF TapInv, TapOk, TapState
    <3>2. \A y : y \in ToSet(o) <=> \E i \in 1 .. n : o[i] = y
      BY <3>1, SetOf
    <3>3. taps[k].told \/ taps[k].lane \/ (n # 0 /\ o[n] = Closed)
      BY DEF TapInv, TapOk
    <3>4. n # 0 => n \in 1 .. n
      <4>1. n \in Nat
        BY <3>1
      <4> HIDE DEF n
      <4> QED BY <4>1
    <3> QED BY <3>2, <3>3, <3>4
  <2> QED BY <2>2, <2>3, <2>4, <2>5, <2>6, <2>7 DEF TapSound
<1> QED BY <1>1, TapInvariance, PTL

\* An odd number is followed by an even one.
LEMMA OddThenEven ==
    ASSUME NEW n \in Nat, Odd(n)
    PROVE  ~Odd(n + 1)
BY DEF Odd

\* A wait can trust its answer (tap.wait): for every lookback and any interleaving of
\* loss, deadline and removal, timed out without a gap means the pattern did not come,
\* the gap is the loss of the wait's own time, and nobody stays armed.
THEOREM WaitsAnswerTrue == TapSpec => []WaitSound
<1>1. TapInv => WaitSound
  <2> SUFFICES ASSUME TapInv PROVE WaitSound
    OBVIOUS
  <2>1. inHub \in Seq(Nat)
    BY DEF TapInv, StreamInv
  <2>len. Len(inHub) \in Nat /\ Len(inHub) <= Len(inHub)
    <3> DEFINE n == Len(inHub)
    <3>1. n \in Nat
      BY <2>1
    <3> HIDE DEF n
    <3>2. n <= n
      BY <3>1
    <3> QED BY <3>1, <3>2 DEF n
  <2>2. \A w \in Wait : WaitOk(waits[w], inHub, hub.seen, feed.dropped)
    BY DEF TapInv
  <2>3. ASSUME NEW from \in Nat, NEW upto \in Nat, upto <= Len(inHub), Absent(from, upto, inHub),
               NEW o \in from + 1 .. upto - 1
        PROVE  ~Occurs(o)
    <3> DEFINE n == Len(inHub)
    <3>1. n \in Nat /\ upto <= n
      BY <2>1, <2>3
    <3> HIDE DEF n
    <3>2. o \in 1 .. n
      BY <3>1
    <3>3. inHub[o] \in Nat
      BY <2>1, <3>2 DEF n
    <3>4. ~(Odd(inHub[o]) /\ ~Odd(inHub[o + 1]))
      BY <2>3 DEF Absent
    <3>5. Odd(inHub[o]) => ~Odd(inHub[o] + 1)
      BY <3>3, OddThenEven
    <3> QED BY <3>4, <3>5 DEF Occurs
  <2>4. NoFalseTimeout
    <3> SUFFICES ASSUME NEW w \in Wait, waits[w].st = "armed" \/ waits[w].answer = "timed out",
                        waits[w].gap = 0
                 PROVE  \A o \in waits[w].from + 1 ..
                                    (IF waits[w].st = "armed" THEN ingested ELSE waits[w].upto) - 1 : ~Occurs(o)
      BY DEF NoFalseTimeout
    <3> DEFINE f == waits[w].from
               u == IF waits[w].st = "armed" THEN Len(inHub) ELSE waits[w].upto
    <3>1. f \in Nat /\ u \in Nat
      <4>1. waits[w] \in WaitState
        BY <2>2 DEF WaitOk
      <4>2. f \in Nat /\ waits[w].upto \in Nat
        BY <4>1 DEF WaitState
      <4> QED BY <2>len, <4>2
    <3>2. u <= Len(inHub) /\ Absent(f, u, inHub)
      BY <2>2, <2>len DEF WaitOk
    <3> HIDE DEF f, u
    <3>3. \A o \in f + 1 .. u - 1 : ~Occurs(o)
      BY <2>3, <3>1, <3>2
    <3> QED BY <3>3 DEF f, u, ingested
  <2>5. WaitGapExact
    <3> SUFFICES ASSUME NEW w \in Armed(waits)
                 PROVE  waits[w].gap = waits[w].cut + (IF hub.seen - waits[w].lossAt > 0
                                                       THEN hub.seen - waits[w].lossAt ELSE 0)
      BY DEF WaitGapExact
    <3> DEFINE l == hub.seen
               a == waits[w].lossAt
               c == waits[w].cut
               g == waits[w].gap
    <3>1. w \in Wait /\ waits[w].st = "armed"
      BY DEF Armed
    <3>2. a \in Nat /\ c \in Nat /\ l \in Nat
      <4>1. waits[w] \in WaitState
        BY <2>2, <3>1 DEF WaitOk
      <4>2. hub \in HubState
        BY DEF TapInv, RingInv
      <4>3. l \in Nat
        BY <4>2 DEF HubState
      <4> QED BY <4>1, <4>3 DEF WaitState
    <3>3. g = c + (IF l > a THEN l - a ELSE 0)
      BY <2>2, <3>1 DEF WaitOk
    <3> HIDE DEF l, a, c, g
    <3>4. g = c + (IF l - a > 0 THEN l - a ELSE 0)
      BY <3>2, <3>3
    <3> QED BY <3>4 DEF l, a, c, g
  <2>6. ArmedIsParked
    BY <2>2 DEF ArmedIsParked, Armed, WaitOk
  <2> QED BY <2>4, <2>5, <2>6 DEF WaitSound
<1> QED BY <1>1, TapInvariance, PTL
=============================================================================
