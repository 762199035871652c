---------------------------- MODULE LegLinkProofs ----------------------------
(***************************************************************************)
(* Proof of the ledger of a link between two daemons: every command is     *)
(* somewhere or has one fate, commands arrive in order, and what a         *)
(* reconnect purges never arrives.                                         *)
(***************************************************************************)
EXTENDS LegLink, TargetwardInboxProofs
-----------------------------------------------------------------------------
(* The inductive invariant *)

\* The order of what a sequence holds, by a key.
Num == [c \in Chunk |-> c]
Key == [x \in Item |-> x.chunk]
Keys(q, k) == {k[q[i]] : i \in 1 .. Len(q)}
Rising(q, k) == \A i, j \in 1 .. Len(q) : i < j => k[q[i]] < k[q[j]]
Before(S, T) == \A a \in S, b \in T : a < b

\* The commands at each place of the link.
QB == Keys(outbox.queue, Num)
FB == Hand(send.flight)
WB == Keys(wire, Num)
RA == Items(Hand(recv.reading))
QA == Keys(inbound.queue, Key)
HA == Items(HeldChunk(inbound))
DA == Keys(delivered, Num)

\* What left B's queue, and what A is done with.
AtB == ledger.purgedB \cup ledger.peerGone \cup ledger.tornB
AtA == ledger.purgedA \cup ledger.discardedA \cup ledger.tornA
GoneB == ledger.wrote \cup ledger.purgedB \cup ledger.peerGone
DoneA == DA \cup AtA

\* No writer is ever suspended on either queue.
InboxOf(S) ==
    [open : BOOLEAN, queue : Seq(S), held : S \cup {NoChunk},
     waiting : {<<>>}, granted : {{}}]

HistoryOK ==
    /\ DOMAIN history = History
    /\ \A k \in History : history[k] \subseteq IF k = "late" THEN Item ELSE Chunk

LinkTypes ==
    /\ LinkTypeOK /\ outbox \in InboxOf(Chunk)
    /\ recv.pc = "up" => recv.epoch < MaxEpoch

\* B: what is queued was written after what is in flight, and that after all that
\* left; the slot holds what is in flight, or what a lost peer was charged for.
BInv ==
    /\ Rising(outbox.queue, Num)
    /\ Before(GoneB, FB) /\ Before(GoneB \cup FB, QB)
    /\ QB \cup FB \cup GoneB \cup ledger.tornB \subseteq 1 .. accepted
    /\ FB \subseteq HeldChunk(outbox) /\ HeldChunk(outbox) \subseteq FB \cup ledger.peerGone
    /\ send.pc # "up" => send.flight = NoChunk
    /\ send.pc # "gone" => ledger.tornB = {}
    /\ send.pc = "gone" => ~outbox.open /\ outbox.queue = <<>>

\* What B charged it charged once, but for the slot a lost peer was charged for.
FatesB ==
    /\ ledger.wrote \cap AtB = {}
    /\ ledger.purgedB \cap (ledger.peerGone \cup ledger.tornB) = {}
    /\ \A c, d \in ledger.peerGone \cap ledger.tornB : c = d

\* A: commands are done with in the order they arrive, and once.
AInv ==
    /\ Rising(wire, Num) /\ Rising(inbound.queue, Key) /\ Rising(delivered, Num)
    /\ Before(DoneA, HA) /\ Before(DoneA \cup HA, QA) /\ Before(DoneA \cup HA \cup QA, RA)
    /\ Before(DoneA \cup HA \cup QA \cup RA, WB)
    /\ DoneA \cup HA \cup QA \cup RA \cup WB \subseteq ledger.wrote
    /\ DA \cap AtA = {}

\* The channel task has a command in hand while it waits for the floor or sends it.
TaskInv == inbound.held # NoChunk <=> task.pc \in {"acquire", "sending"}

\* A command's tag is the epoch of its connection, and no later than the present
\* one; who is in the endpoint's send entered it under the epoch of its tag.
UpTo(q, e) == \A i \in 1 .. Len(q) : q[i].epoch <= e
EpochInv ==
    /\ UpTo(inbound.queue, recv.epoch)
    /\ \A x \in Hand(recv.reading) \cup HeldChunk(inbound) : x.epoch <= recv.epoch
    /\ Purge =>
           /\ \A y \in history.late : y.epoch < recv.epoch
           /\ task.pc = "sending" => \A y \in history.late : y.epoch # inbound.held.epoch

\* What waited through an outage is on the purge's counter.
StaleInv == Purge => history.stale \subseteq ledger.purgedB

\* Every command is at one of the places.
Somewhere ==
    QB \cup FB \cup WB \cup RA \cup QA \cup HA \cup DA
    \cup history.onWire \cup history.reader \cup AtA \cup AtB
NoneLost == 1 .. accepted \subseteq Somewhere

LinkInv == LinkTypes /\ BInv /\ FatesB /\ AInv /\ TaskInv /\ EpochInv /\ StaleInv
           /\ NoneLost /\ LateAtMostOnce

-----------------------------------------------------------------------------
(* Rising sequences *)

\* Keys are numbers.
LEMMA KeysType ==
    ASSUME NEW S, NEW k \in [S -> Nat], NEW q \in Seq(S)
    PROVE  Keys(q, k) \subseteq Nat
BY DEF Keys

\* An empty sequence is in order.
LEMMA EmptyRising ==
    ASSUME NEW k
    PROVE  Rising(<<>>, k) /\ Keys(<<>>, k) = {}
BY DEF Rising, Keys

\* Nothing comes before itself.
LEMMA BeforeDisjoint ==
    ASSUME NEW S, NEW T \in SUBSET Nat, Before(S, T)
    PROVE  T \cap S = {}
<1>1. \A a \in Nat : ~(a < a)
  OBVIOUS
<1>2. ASSUME NEW a \in T, a \in S PROVE FALSE
  <2>1. a < a
    BY <1>2 DEF Before
  <2> QED BY <1>1, <2>1
<1> QED BY <1>2

\* The head of a rising sequence comes before its tail.
LEMMA RisingHead ==
    ASSUME NEW S, NEW k \in [S -> Nat], NEW q \in Seq(S), q # <<>>, Rising(q, k)
    PROVE  /\ Head(q) \in S /\ Tail(q) \in Seq(S) /\ Rising(Tail(q), k)
           /\ Keys(q, k) = {k[Head(q)]} \cup Keys(Tail(q), k)
           /\ Before({k[Head(q)]}, Keys(Tail(q), k))
<1> DEFINE h == Head(q)
           t == Tail(q)
<1>1. /\ h = q[1] /\ Len(q) \in Nat \ {0} /\ t \in Seq(S) /\ Len(t) = Len(q) - 1
      /\ \A i \in 1 .. Len(q) - 1 : t[i] = q[i + 1]
  BY HeadTailProperties
<1> HIDE DEF h, t
<1>2. h \in S
  BY <1>1
<1>3. \A i \in 1 .. Len(t) : i + 1 \in 1 .. Len(q) /\ 1 \in 1 .. Len(q) /\ t[i] = q[i + 1] /\ 1 < i + 1
  BY <1>1
<1>4. Rising(t, k)
  <2> SUFFICES ASSUME NEW i \in 1 .. Len(t), NEW j \in 1 .. Len(t), i < j
               PROVE  k[t[i]] < k[t[j]]
    BY DEF Rising
  <2>1. i + 1 \in 1 .. Len(q) /\ j + 1 \in 1 .. Len(q) /\ i + 1 < j + 1
    BY <1>1
  <2> QED BY <1>3, <2>1 DEF Rising
<1>5. Before({k[h]}, Keys(t, k))
  <2> SUFFICES ASSUME NEW i \in 1 .. Len(t) PROVE k[h] < k[t[i]]
    BY DEF Before, Keys
  <2> QED BY <1>1, <1>3 DEF Rising
<1>6. Keys(q, k) = {k[h]} \cup Keys(t, k)
  <2>1. ASSUME NEW i \in 1 .. Len(q) PROVE k[q[i]] \in {k[h]} \cup Keys(t, k)
    <3>1. CASE i = 1
      BY <1>1, <3>1
    <3>2. CASE i # 1
      <4>1. i - 1 \in 1 .. Len(t) /\ t[i - 1] = q[i]
        BY <1>1, <3>2
      <4> QED BY <4>1 DEF Keys
    <3> QED BY <3>1, <3>2
  <2>2. k[h] \in Keys(q, k)
    BY <1>1 DEF Keys
  <2>3. ASSUME NEW i \in 1 .. Len(t) PROVE k[t[i]] \in Keys(q, k)
    BY <1>3 DEF Keys
  <2> QED BY <2>1, <2>2, <2>3 DEF Keys
<1> QED BY <1>1, <1>2, <1>4, <1>5, <1>6 DEF h, t

\* What comes after everything goes to the end.
LEMMA RisingAppend ==
    ASSUME NEW S, NEW k \in [S -> Nat], NEW q \in Seq(S), NEW x \in S,
           Rising(q, k), Before(Keys(q, k), {k[x]})
    PROVE  /\ Append(q, x) \in Seq(S) /\ Rising(Append(q, x), k)
           /\ Keys(Append(q, x), k) = Keys(q, k) \cup {k[x]}
<1> DEFINE r == Append(q, x)
<1>1. /\ r \in Seq(S) /\ Len(r) = Len(q) + 1 /\ Len(q) \in Nat
      /\ \A i \in 1 .. Len(q) : r[i] = q[i]
      /\ r[Len(q) + 1] = x
  BY AppendProperties
<1> HIDE DEF r
<1>2. \A i \in 1 .. Len(q) : k[q[i]] < k[x]
  BY DEF Before, Keys
<1>3. Rising(r, k)
  <2> SUFFICES ASSUME NEW i \in 1 .. Len(r), NEW j \in 1 .. Len(r), i < j
               PROVE  k[r[i]] < k[r[j]]
    BY DEF Rising
  <2>1. i \in 1 .. Len(q) /\ r[i] = q[i]
    BY <1>1, SMTT(40)
  <2>2. CASE j \in 1 .. Len(q)
    BY <1>1, <2>1, <2>2 DEF Rising
  <2>3. CASE j = Len(q) + 1
    BY <1>1, <1>2, <2>1, <2>3
  <2>4. j \in 1 .. Len(q) \/ j = Len(q) + 1
    BY <1>1
  <2> QED BY <2>2, <2>3, <2>4
<1>4. Keys(r, k) = Keys(q, k) \cup {k[x]}
  <2>1. \A i \in 1 .. Len(r) : i \in 1 .. Len(q) \/ i = Len(q) + 1
    BY <1>1
  <2>2. \A i \in 1 .. Len(q) : i \in 1 .. Len(r)
    BY <1>1
  <2>3. Len(q) + 1 \in 1 .. Len(r)
    BY <1>1
  <2>4. ASSUME NEW y \in Keys(r, k) PROVE y \in Keys(q, k) \cup {k[x]}
    <3>1. PICK i \in 1 .. Len(r) : y = k[r[i]]
      BY DEF Keys
    <3> QED BY <1>1, <2>1, <3>1 DEF Keys
  <2>5. ASSUME NEW y \in Keys(q, k) PROVE y \in Keys(r, k)
    <3>1. PICK i \in 1 .. Len(q) : y = k[q[i]]
      BY DEF Keys
    <3> QED BY <1>1, <2>2, <3>1 DEF Keys
  <2>6. k[x] \in Keys(r, k)
    BY <1>1, <2>3 DEF Keys
  <2> QED BY <2>4, <2>5, <2>6
<1> QED BY <1>1, <1>3, <1>4 DEF r

\* A break cuts a rising sequence in two.
LEMMA RisingCut ==
    ASSUME NEW S, NEW k \in [S -> Nat], NEW q \in Seq(S), NEW n \in 0 .. Len(q), Rising(q, k)
    PROVE  LET r == SubSeq(q, 1, n)
               t == SubSeq(q, n + 1, Len(q))
           IN  /\ r \in Seq(S) /\ t \in Seq(S) /\ Rising(r, k)
               /\ Keys(q, k) = Keys(r, k) \cup Keys(t, k)
<1> DEFINE r == SubSeq(q, 1, n)
           t == SubSeq(q, n + 1, Len(q))
<1>1. Len(q) \in Nat /\ n \in Nat
  OBVIOUS
<1>2. r \in Seq(S) /\ Len(r) = n /\ \A i \in 1 .. n : r[i] = q[i]
  BY <1>1
<1>3. t \in Seq(S) /\ Len(t) = Len(q) - n /\ \A i \in 1 .. Len(q) - n : t[i] = q[i + n]
  BY <1>1
<1> HIDE DEF r, t
<1>4. \A i \in 1 .. n : i \in 1 .. Len(q)
  BY <1>1
<1>5. Rising(r, k)
  BY <1>2, <1>4 DEF Rising
<1>6. Keys(r, k) \subseteq Keys(q, k)
  BY <1>2, <1>4 DEF Keys
<1>7. Keys(t, k) \subseteq Keys(q, k)
  <2>1. \A i \in 1 .. Len(t) : i + n \in 1 .. Len(q) /\ t[i] = q[i + n]
    BY <1>1, <1>3
  <2> QED BY <2>1 DEF Keys
<1>8. ASSUME NEW i \in 1 .. Len(q) PROVE k[q[i]] \in Keys(r, k) \cup Keys(t, k)
  <2>1. CASE i <= n
    <3>1. i \in 1 .. Len(r) /\ r[i] = q[i]
      BY <1>1, <1>2, <2>1
    <3> QED BY <3>1 DEF Keys
  <2>2. CASE i > n
    <3>1. i - n \in 1 .. Len(t) /\ t[i - n] = q[i]
      BY <1>1, <1>3, <2>2
    <3> QED BY <3>1 DEF Keys
  <2> QED BY <1>1, <2>1, <2>2
<1>9. Keys(q, k) \subseteq Keys(r, k) \cup Keys(t, k)
  BY <1>8 DEF Keys
<1> QED BY <1>2, <1>3, <1>5, <1>6, <1>7, <1>9 DEF r, t

\* The keys of commands are the commands, those of items their commands.
LEMMA KeyTypes == Num \in [Chunk -> Nat] /\ Key \in [Item -> Nat]
<1>1. Chunk \subseteq Nat
  BY CommandsAssumption
<1>2. \A x \in Item : x.chunk \in Chunk
  BY DEF Item
<1> QED BY <1>1, <1>2 DEF Num, Key

\* The keys of a queue of commands are what it holds.
LEMMA ChunkKeys ==
    ASSUME NEW q \in Seq(Chunk)
    PROVE  ToSet(q) = Keys(q, Num) /\ Keys(q, Num) \subseteq Chunk
<1>1. \A i \in 1 .. Len(q) : Num[q[i]] = q[i] /\ q[i] \in Chunk
  BY DEF Num
<1>2. DOMAIN q = 1 .. Len(q)
  OBVIOUS
<1> QED BY <1>1, <1>2 DEF ToSet, Keys

\* The keys of a queue of tagged commands are their commands.
LEMMA ItemKeys ==
    ASSUME NEW q \in Seq(Item)
    PROVE  Items(ToSet(q)) = Keys(q, Key) /\ Keys(q, Key) \subseteq Chunk
<1>1. \A i \in 1 .. Len(q) : q[i] \in Item
  OBVIOUS
<1>2. \A x \in Item : Key[x] = x.chunk /\ x.chunk \in Chunk
  BY DEF Key, Item
<1>3. ToSet(q) = {q[i] : i \in 1 .. Len(q)}
  BY DEF ToSet
<1> QED BY <1>1, <1>2, <1>3 DEF Items, Keys

-----------------------------------------------------------------------------
(* A queue nobody waits for *)

\* Permits change nothing when nobody waits.
LEMMA PermitsOf ==
    ASSUME NEW S, NEW b \in InboxOf(S), NEW n \in Nat
    PROVE  LET d == Permits(b, n)
           IN  d \in InboxOf(S) /\ d.queue = b.queue /\ d.held = b.held /\ d.open = b.open
<1> DEFINE w == b.waiting
           k == IF n < Len(w) THEN n ELSE Len(w)
           G == b.granted \cup {w[i] : i \in 1 .. k}
           r == SubSeq(w, k + 1, Len(w))
           d == Permits(b, n)
<1>1. w = <<>> /\ b.granted = {}
  BY DEF InboxOf
<1>2. k = 0 /\ Len(w) = 0
  BY <1>1
<1>3. G = {}
  BY <1>1, <1>2
<1>4. r = <<>>
  BY <1>1, <1>2
<1>5. d = [b EXCEPT !.granted = G, !.waiting = r]
  BY DEF Permits
<1>6. G \in {{}} /\ r \in {<<>>}
  BY <1>3, <1>4
<1> HIDE DEF G, r, k, w, d
<1>7. d \in InboxOf(S) /\ d.queue = b.queue /\ d.held = b.held /\ d.open = b.open
  BY <1>5, <1>6 DEF InboxOf
<1> QED BY <1>7 DEF d

\* A command goes in at the end.
LEMMA PushOf ==
    ASSUME NEW S, NEW b \in InboxOf(S), NEW c \in S
    PROVE  LET d == Push(b, c)
           IN  d \in InboxOf(S) /\ d.queue = Append(b.queue, c) /\ d.held = b.held /\ d.open = b.open
<1> DEFINE r == Append(b.queue, c)
           d == Push(b, c)
<1>1. b.queue \in Seq(S) /\ d = [b EXCEPT !.queue = r]
  BY DEF InboxOf, Push
<1>2. r \in Seq(S)
  BY <1>1
<1> HIDE DEF r, d
<1>3. d \in InboxOf(S) /\ d.queue = r /\ d.held = b.held /\ d.open = b.open
  BY <1>1, <1>2 DEF InboxOf
<1> QED BY <1>3 DEF r, d

\* The slot is emptied, the queue is not.
LEMMA SettleOf ==
    ASSUME NEW S, NEW b \in InboxOf(S)
    PROVE  LET d == SettleHeld(b)
           IN  d \in InboxOf(S) /\ d.queue = b.queue /\ d.held = NoChunk /\ d.open = b.open
BY DEF SettleHeld, InboxOf

\* The head goes into the slot.
LEMMA PollOf ==
    ASSUME NEW S, NEW b \in InboxOf(S), b.queue # <<>>
    PROVE  LET d == PollRecv(b)
           IN  /\ d \in InboxOf(S) /\ d.queue = Tail(b.queue) /\ d.held = Head(b.queue)
               /\ d.open = b.open
<1> DEFINE t == Tail(b.queue)
           h == Head(b.queue)
           e == [b EXCEPT !.queue = t, !.held = h]
           d == PollRecv(b)
<1>1. b.queue \in Seq(S) /\ d = Permits(e, 1)
  BY DEF InboxOf, PollRecv
<1>2. t \in Seq(S) /\ h \in S
  BY <1>1, HeadTailProperties
<1> HIDE DEF t, h, d
<1>3. e \in InboxOf(S) /\ e.queue = t /\ e.held = h /\ e.open = b.open
  BY <1>2 DEF InboxOf
<1> HIDE DEF e
<1>4. d \in InboxOf(S) /\ d.queue = e.queue /\ d.held = e.held /\ d.open = e.open
  BY <1>1, <1>3, PermitsOf
<1> QED BY <1>3, <1>4 DEF d, t, h

\* A purge round empties the queue, not the slot.
LEMMA DrainOf ==
    ASSUME NEW S, NEW b \in InboxOf(S)
    PROVE  LET d == Drain(b)
           IN  d \in InboxOf(S) /\ d.queue = <<>> /\ d.held = b.held /\ d.open = b.open
<1> DEFINE z == <<>>
           n == Len(b.queue)
           e == [b EXCEPT !.queue = z]
           d == Drain(b)
<1>1. n \in Nat /\ z \in Seq(S)
  BY DEF InboxOf
<1>2. d = Permits(e, n)
  BY DEF Drain
<1> HIDE DEF z, n, d
<1>3. e \in InboxOf(S) /\ e.queue = z /\ e.held = b.held /\ e.open = b.open
  BY <1>1 DEF InboxOf
<1> HIDE DEF e
<1>4. d \in InboxOf(S) /\ d.queue = e.queue /\ d.held = e.held /\ d.open = e.open
  BY <1>1, <1>2, <1>3, PermitsOf
<1> QED BY <1>3, <1>4 DEF d, z

\* Teardown leaves a closed queue and an empty slot.
LEMMA TakenOf ==
    ASSUME NEW S, NEW b \in InboxOf(S)
    PROVE  LET d == Taken(b)
           IN  d \in InboxOf(S) /\ d.queue = <<>> /\ d.held = NoChunk /\ ~d.open
<1> DEFINE z == <<>>
           no == FALSE
           d == Taken(b)
<1>1. z \in Seq(S) /\ no \in BOOLEAN /\ d = [b EXCEPT !.open = no, !.queue = z, !.held = NoChunk]
  BY DEF Taken
<1> HIDE DEF z, no, d
<1>2. d \in InboxOf(S) /\ d.queue = z /\ d.held = NoChunk /\ d.open = no
  BY <1>1 DEF InboxOf
<1>3. ~d.open
  BY <1>2, Zenon DEF no
<1> QED BY <1>2, <1>3 DEF d, z
-----------------------------------------------------------------------------
(* The places of the link *)

\* What the types say of each place.
LEMMA PlaceTypes ==
    ASSUME LinkTypes
    PROVE  /\ outbox \in InboxOf(Chunk) /\ inbound \in InboxOf(Item)
           /\ outbox.queue \in Seq(Chunk) /\ inbound.queue \in Seq(Item)
           /\ wire \in Seq(Chunk) /\ delivered \in Seq(Chunk)
           /\ Chunk \subseteq Nat
           /\ QB \cup FB \cup WB \cup RA \cup QA \cup HA \cup DA \subseteq Chunk
           /\ ToSet(outbox.queue) = QB /\ ToSet(wire) = WB /\ Received = DA
           /\ Items(ToSet(inbound.queue)) = QA
           /\ ledger \in [Counter -> SUBSET Chunk]
           /\ send \in SendState /\ recv \in RecvState /\ task \in TaskState
           /\ accepted \in 0 .. Commands
<1>1. /\ outbox \in InboxOf(Chunk) /\ inbound \in InboxOf(Item)
      /\ outbox.queue \in Seq(Chunk) /\ inbound.queue \in Seq(Item)
      /\ wire \in Seq(Chunk) /\ delivered \in Seq(Chunk)
      /\ send \in SendState /\ recv \in RecvState /\ task \in TaskState
      /\ ledger \in [Counter -> SUBSET Chunk] /\ accepted \in 0 .. Commands
  BY DEF LinkTypes, LinkTypeOK, InboxOf
<1>2. Chunk \subseteq Nat
  BY CommandsAssumption
<1>3. QB \cup WB \cup QA \cup DA \subseteq Chunk
      /\ ToSet(outbox.queue) = QB /\ ToSet(wire) = WB /\ Received = DA
      /\ Items(ToSet(inbound.queue)) = QA
  BY <1>1, ChunkKeys, ItemKeys DEF QB, WB, QA, DA, Received
<1>4. FB \subseteq Chunk
  BY <1>1 DEF FB, Hand, SendState
<1>5. \A x \in Item : x.chunk \in Chunk
  BY DEF Item
<1>6. HeldChunk(inbound) \subseteq Item /\ Hand(recv.reading) \subseteq Item
  BY <1>1 DEF InboxOf, HeldChunk, Hand, RecvState
<1>7. RA \cup HA \subseteq Chunk
  BY <1>5, <1>6 DEF RA, HA, Items
<1> QED BY <1>1, <1>2, <1>3, <1>4, <1>7

\* Charging one counter leaves the others alone.
LEMMA ChargeFacts ==
    ASSUME LinkTypes, NEW c \in Counter, NEW S \in SUBSET Chunk, Charge(c, S)
    PROVE  /\ ledger' \in [Counter -> SUBSET Chunk] /\ ledger'[c] = ledger[c] \cup S
           /\ \A d \in Counter : d # c => ledger'[d] = ledger[d]
<1>1. ledger \in [Counter -> SUBSET Chunk] /\ ledger' = [ledger EXCEPT ![c] = @ \cup S]
  BY PlaceTypes DEF Charge
<1> QED BY <1>1

\* The counters of a discarded command, spelled out.
LEMMA CountedUnion ==
    UNION {ledger[k] : k \in Counter \ {"wrote"}} = AtA \cup AtB
<1> DEFINE U == UNION {ledger[k] : k \in Counter \ {"wrote"}}
<1>1. Counter \ {"wrote"} =
          {"peerGone", "purgedB", "tornB", "purgedA", "discardedA", "tornA"}
  BY DEF Counter
<1>2. U = UNION {ledger[k] : k \in {"peerGone", "purgedB", "tornB", "purgedA", "discardedA", "tornA"}}
  BY <1>1
<1>3. ASSUME NEW e \in U PROVE e \in AtA \cup AtB
  <2>1. PICK k \in {"peerGone", "purgedB", "tornB", "purgedA", "discardedA", "tornA"} : e \in ledger[k]
    BY <1>2
  <2> QED BY <2>1 DEF AtA, AtB
<1>4. ASSUME NEW e \in AtA \cup AtB PROVE e \in U
  BY <1>1 DEF AtA, AtB
<1> QED BY <1>3, <1>4

\* The ledger of the specification is the one of the places.
LEMMA LedgerOfPlaces ==
    ASSUME LinkTypes
    PROVE  NoCommandVanishes <=> NoneLost
<1>1. Items(Hand(recv.reading) \cup ToSet(inbound.queue) \cup HeldChunk(inbound)) =
          RA \cup QA \cup HA
  BY PlaceTypes DEF Items, RA, HA
<1>2. ToSet(outbox.queue) = QB /\ ToSet(wire) = WB /\ Received = DA /\ Hand(send.flight) = FB
  BY PlaceTypes DEF FB
<1> QED BY <1>1, <1>2, CountedUnion DEF NoCommandVanishes, NoneLost, Somewhere

\* B's fates, A's fates and the order between them leave a command one fate.
LEMMA OneFateOfSides ==
    ASSUME LinkTypes, FatesB, AInv
    PROVE  OneFate
BY PlaceTypes DEF OneFate, FatesB, AInv, DoneA, AtA, AtB

\* Adding to one of the history's sets leaves the others alone.
LEMMA NoteFacts ==
    ASSUME LinkTypes, NEW k \in History, NEW S, Note(k, S),
           S \subseteq IF k = "late" THEN Item ELSE Chunk
    PROVE  /\ HistoryOK' /\ history'[k] = history[k] \cup S
           /\ \A d \in History : d # k => history'[d] = history[d]
<1>1. HistoryOK /\ history' = [history EXCEPT ![k] = @ \cup S]
  BY DEF LinkTypes, LinkTypeOK, HistoryOK, Note
<1>2. /\ DOMAIN history' = History /\ history'[k] = history[k] \cup S
      /\ \A d \in History : d # k => history'[d] = history[d]
  BY <1>1 DEF HistoryOK
<1>3. ASSUME NEW d \in History PROVE history'[d] \subseteq IF d = "late" THEN Item ELSE Chunk
  BY <1>1, <1>2 DEF HistoryOK
<1> QED BY <1>2, <1>3 DEF HistoryOK

-----------------------------------------------------------------------------
(* What a step of one side leaves alone *)

\* A step that leaves B and its counters alone.
LEMMA BFrame ==
    ASSUME BInv, FatesB, UNCHANGED <<send, outbox, accepted>>,
           \A k \in {"wrote", "purgedB", "peerGone", "tornB"} : ledger'[k] = ledger[k]
    PROVE  BInv' /\ FatesB'
<1>1. /\ ledger'.wrote = ledger.wrote /\ ledger'.purgedB = ledger.purgedB
      /\ ledger'.peerGone = ledger.peerGone /\ ledger'.tornB = ledger.tornB
  OBVIOUS
<1>2. QB' = QB /\ FB' = FB /\ GoneB' = GoneB /\ AtB' = AtB /\ HeldChunk(outbox)' = HeldChunk(outbox)
  BY <1>1 DEF QB, FB, GoneB, AtB, HeldChunk
<1> QED BY <1>1, <1>2 DEF BInv, FatesB, Rising

\* A step that leaves the wire, A and its counters alone.
LEMMA AFrame ==
    ASSUME AInv, UNCHANGED <<wire, inbound, delivered>>, recv'.reading = recv.reading,
           \A k \in {"purgedA", "discardedA", "tornA"} : ledger'[k] = ledger[k],
           ledger.wrote \subseteq ledger'.wrote
    PROVE  AInv'
<1>1. /\ ledger'.purgedA = ledger.purgedA /\ ledger'.discardedA = ledger.discardedA
      /\ ledger'.tornA = ledger.tornA
  OBVIOUS
<1>2. WB' = WB /\ RA' = RA /\ QA' = QA /\ HA' = HA /\ DA' = DA /\ AtA' = AtA /\ DoneA' = DoneA
  BY <1>1 DEF WB, RA, QA, HA, DA, AtA, DoneA, HeldChunk
<1> QED BY <1>1, <1>2 DEF AInv, Rising

\* A step that leaves the task and the slot alone.
LEMMA TaskFrame ==
    ASSUME TaskInv, inbound'.held = inbound.held, task'.pc = task.pc
    PROVE  TaskInv'
BY DEF TaskInv

\* A step that leaves the tags and the epoch alone.
LEMMA EpochFrame ==
    ASSUME EpochInv, UNCHANGED inbound, recv'.reading = recv.reading,
           recv'.epoch = recv.epoch, history'.late = history.late, task'.pc = task.pc
    PROVE  EpochInv'
BY DEF EpochInv, HeldChunk, Hand

\* A queue nobody waits for is a queue.
LEMMA InboxOfChunks == InboxOf(Chunk) \subseteq InboxState
<1> SUFFICES ASSUME NEW b \in InboxOf(Chunk) PROVE b \in InboxState
  OBVIOUS
<1>1. <<>> \in Seq(Suspended) /\ {} \in SUBSET Suspended
  OBVIOUS
<1> QED BY <1>1 DEF InboxOf, InboxState

-----------------------------------------------------------------------------
(* Computer B *)

\* A new command is later than all others.
LEMMA WriteInv == ASSUME LinkInv, Write PROVE LinkInv'
<1> DEFINE n == accepted + 1
<1>1. /\ LinkTypes /\ BInv /\ FatesB /\ AInv /\ TaskInv /\ EpochInv /\ StaleInv
      /\ NoneLost /\ LateAtMostOnce
  BY DEF LinkInv
<1>2. /\ outbox.open /\ outbox' = Push(outbox, n) /\ accepted' = n
      /\ UNCHANGED <<send, wire, cut, recv, inbound, task, edge, dead, floor,
                     ledger, delivered, history>>
  BY DEF Write, A, graph
<1>3. accepted \in Nat /\ n \in 1 .. Commands /\ n \in Chunk /\ Num[n] = n
  BY <1>1, PlaceTypes, CommandsAssumption DEF Write, Num
<1>4. \A c \in 1 .. accepted : c < n
  BY <1>3
<1>5. 1 .. n = (1 .. accepted) \cup {n}
  BY <1>3
<1> HIDE DEF n
<1>6. /\ outbox' \in InboxOf(Chunk) /\ outbox'.queue = Append(outbox.queue, n)
      /\ outbox'.held = outbox.held /\ outbox'.open = outbox.open
  <2>1. outbox \in InboxOf(Chunk)
    BY <1>1, PlaceTypes
  <2>2. outbox' = Push(outbox, n) /\ n \in Chunk
    BY <1>2, <1>3
  <2> QED BY <2>1, <2>2, PushOf
<1>7. Before(QB, {n})
  BY <1>1, <1>4 DEF BInv, Before
<1>8. Rising(outbox'.queue, Num) /\ QB' = QB \cup {n}
  <2> DEFINE q == outbox.queue
  <2>1. q \in Seq(Chunk) /\ Rising(q, Num) /\ QB = Keys(q, Num) /\ Num \in [Chunk -> Nat]
    BY <1>1, KeyTypes, PlaceTypes DEF QB, BInv
  <2>2. Before(Keys(q, Num), {Num[n]})
    BY <1>3, <1>7, <2>1
  <2> HIDE DEF q
  <2>3. Rising(Append(q, n), Num) /\ Keys(Append(q, n), Num) = Keys(q, Num) \cup {Num[n]}
    BY <1>3, <2>1, <2>2, RisingAppend, SMTT(40)
  <2> QED BY <1>3, <1>6, <2>1, <2>3 DEF QB, q
<1>9. /\ FB' = FB /\ GoneB' = GoneB /\ AtB' = AtB
      /\ HeldChunk(outbox)' = HeldChunk(outbox)
      /\ WB' = WB /\ RA' = RA /\ QA' = QA /\ HA' = HA /\ DA' = DA /\ AtA' = AtA
  BY <1>2, <1>6 DEF FB, GoneB, AtB, AtA, HeldChunk, WB, RA, QA, HA, DA
<1>10. LinkTypes'
  <2>1. outbox' \in InboxState
    BY <1>6, InboxOfChunks
  <2>2. accepted' \in 0 .. Commands
    BY <1>2, <1>3
  <2> QED BY <1>1, <1>2, <1>6, <2>1, <2>2 DEF LinkTypes, LinkTypeOK
<1>11. BInv'
  <2>1. send.pc # "gone"
    BY <1>1, <1>2 DEF BInv
  <2>2. Before((GoneB \cup FB)', QB')
    BY <1>1, <1>4, <1>8, <1>9 DEF BInv, Before
  <2>3. (QB \cup FB \cup GoneB \cup ledger.tornB)' \subseteq 1 .. n
    BY <1>1, <1>2, <1>5, <1>8, <1>9 DEF BInv
  <2> QED BY <1>1, <1>2, <1>8, <1>9, <2>1, <2>2, <2>3 DEF BInv
<1>12. FatesB'
  BY <1>1, <1>2, <1>9 DEF FatesB
<1>13. AInv' /\ TaskInv' /\ EpochInv' /\ StaleInv' /\ LateAtMostOnce'
  BY <1>1, <1>2, AFrame, TaskFrame, EpochFrame DEF StaleInv, LateAtMostOnce
<1>14. NoneLost'
  BY <1>1, <1>2, <1>5, <1>8, <1>9 DEF NoneLost, Somewhere
<1> QED BY <1>10, <1>11, <1>12, <1>13, <1>14 DEF LinkInv

\* A round of the purge: all that is queued goes to the purge's counter.
LEMMA RoundInv ==
    ASSUME LinkTypes, BInv, FatesB, NoneLost, send.pc \in {"down", "purging"},
           NEW s \in SendState, s.flight = send.flight, NEW r \in 1 .. PurgeRounds,
           PurgeRound(s, r), UNCHANGED <<wire, inbound, task, accepted, delivered>>,
           recv'.reading = recv.reading, history'.onWire = history.onWire,
           history'.reader = history.reader
    PROVE  /\ outbox' \in InboxOf(Chunk) /\ send' \in SendState
           /\ ledger' \in [Counter -> SUBSET Chunk]
           /\ ledger'.purgedB = ledger.purgedB \cup QB
           /\ \A k \in Counter : k # "purgedB" => ledger'[k] = ledger[k]
           /\ BInv' /\ FatesB' /\ NoneLost'
<1>1. /\ outbox' = Drain(outbox) /\ Charge("purgedB", QB)
      /\ QB \subseteq Chunk /\ outbox \in InboxOf(Chunk)
  BY PlaceTypes DEF PurgeRound
<1>2. /\ outbox' \in InboxOf(Chunk) /\ outbox'.queue = <<>>
      /\ outbox'.held = outbox.held /\ outbox'.open = outbox.open
  BY <1>1, DrainOf
<1>3. "purgedB" \in Counter
  BY DEF Counter
<1>4. /\ ledger' \in [Counter -> SUBSET Chunk] /\ ledger'.purgedB = ledger.purgedB \cup QB
      /\ \A k \in Counter : k # "purgedB" => ledger'[k] = ledger[k]
  BY <1>1, <1>3, ChargeFacts
<1>5. /\ ledger'.wrote = ledger.wrote /\ ledger'.peerGone = ledger.peerGone
      /\ ledger'.tornB = ledger.tornB /\ ledger'.purgedA = ledger.purgedA
      /\ ledger'.discardedA = ledger.discardedA /\ ledger'.tornA = ledger.tornA
  BY <1>4 DEF Counter
<1>6. send' \in SendState /\ send'.pc \in {"purging", "up"} /\ send'.flight = send.flight
  <2>1. /\ PurgeRounds \in Nat /\ r \in 0 .. PurgeRounds /\ 0 \in 0 .. PurgeRounds
    BY PurgeAssumption
  <2>2. CASE outbox.queue # <<>>
    <3>1. send' = [s EXCEPT !.pc = "purging", !.rounds = r]
      BY <2>2 DEF PurgeRound
    <3> QED BY <2>1, <3>1 DEF SendState
  <2>3. CASE outbox.queue = <<>>
    <3>1. send' = [s EXCEPT !.pc = "up", !.rounds = 0]
      BY <2>3 DEF PurgeRound
    <3> QED BY <2>1, <3>1 DEF SendState
  <2> QED BY <2>2, <2>3
<1>7. FB = {} /\ FB' = {} /\ send.flight = NoChunk
  BY <1>6 DEF BInv, FB, Hand
<1>8. /\ QB' = {} /\ Rising(outbox'.queue, Num)
      /\ HeldChunk(outbox)' = HeldChunk(outbox)
      /\ WB' = WB /\ RA' = RA /\ QA' = QA /\ HA' = HA /\ DA' = DA
  BY <1>2, EmptyRising DEF QB, HeldChunk, WB, RA, QA, HA, DA
<1>9. AtB' = AtB \cup QB /\ AtA' = AtA /\ GoneB' = GoneB \cup QB
  BY <1>4, <1>5 DEF AtB, AtA, GoneB
<1>10. BInv'
  BY <1>2, <1>5, <1>6, <1>7, <1>8, <1>9 DEF BInv, Before
<1>11. FatesB'
  <2>1. ledger.tornB = {}
    BY DEF BInv
  <2>2. \A c \in ledger.wrote \cup ledger.peerGone, d \in QB : c < d
    BY DEF BInv, Before, GoneB
  <2>3. (ledger.wrote \cup ledger.peerGone) \cap QB = {}
    BY <1>1, <2>2, PlaceTypes
  <2> QED BY <1>4, <1>5, <1>9, <2>1, <2>3 DEF FatesB, AtB
<1>12. NoneLost'
  BY <1>7, <1>8, <1>9 DEF NoneLost, Somewhere
<1> QED BY <1>2, <1>4, <1>6, <1>10, <1>11, <1>12

\* The purge takes its next round, or gives up at its bound.
LEMMA PurgeResumesInv == ASSUME LinkInv, PurgeResumes PROVE LinkInv'
<1>1. /\ LinkTypes /\ BInv /\ FatesB /\ AInv /\ TaskInv /\ EpochInv /\ StaleInv
      /\ NoneLost /\ LateAtMostOnce
  BY DEF LinkInv
<1>2. UNCHANGED <<wire, cut, recv, inbound, task, edge, dead, floor, accepted,
                  delivered, history>> /\ send.pc = "purging" /\ send \in SendState
  BY <1>1, PlaceTypes DEF PurgeResumes, A, graph, past
<1>3. CASE send.rounds < PurgeRounds
  <2> DEFINE r == send.rounds + 1
  <2>1. r \in 1 .. PurgeRounds /\ PurgeRound(send, r)
    BY <1>2, <1>3, PurgeAssumption DEF PurgeResumes, SendState
  <2> HIDE DEF r
  <2>2. /\ outbox' \in InboxOf(Chunk) /\ send' \in SendState
        /\ ledger' \in [Counter -> SUBSET Chunk]
        /\ ledger'.purgedB = ledger.purgedB \cup QB
        /\ \A k \in Counter : k # "purgedB" => ledger'[k] = ledger[k]
        /\ BInv' /\ FatesB' /\ NoneLost'
    BY <1>1, <1>2, <2>1, RoundInv
  <2>3. LinkTypes'
    BY <1>1, <1>2, <2>2, InboxOfChunks DEF LinkTypes, LinkTypeOK
  <2>4. AInv'
    BY <1>1, <1>2, <2>2, AFrame DEF Counter
  <2>5. TaskInv' /\ EpochInv' /\ StaleInv' /\ LateAtMostOnce'
    BY <1>1, <1>2, <2>2, TaskFrame, EpochFrame DEF StaleInv, LateAtMostOnce
  <2> QED BY <2>2, <2>3, <2>4, <2>5 DEF LinkInv
<1>4. CASE ~(send.rounds < PurgeRounds)
  <2>1. send' = [send EXCEPT !.pc = "up", !.rounds = 0] /\ UNCHANGED <<outbox, ledger>>
    BY <1>4 DEF PurgeResumes
  <2>2. send' \in SendState /\ send'.pc = "up" /\ send'.flight = send.flight
    <3>1. 0 \in 0 .. PurgeRounds
      BY PurgeAssumption
    <3> QED BY <1>2, <2>1, <3>1 DEF SendState
  <2>3. LinkTypes'
    BY <1>1, <1>2, <2>1, <2>2 DEF LinkTypes, LinkTypeOK
  <2>4. QB' = QB /\ FB' = FB /\ GoneB' = GoneB /\ AtB' = AtB /\ HeldChunk(outbox)' = HeldChunk(outbox)
    BY <2>1, <2>2 DEF QB, FB, GoneB, AtB, HeldChunk
  <2>5. BInv' /\ FatesB'
    BY <1>1, <1>2, <2>1, <2>2, <2>4 DEF BInv, FatesB
  <2>6. AInv' /\ TaskInv' /\ EpochInv' /\ StaleInv' /\ LateAtMostOnce'
    BY <1>1, <1>2, <2>1, AFrame, TaskFrame, EpochFrame DEF StaleInv, LateAtMostOnce
  <2>7. NoneLost'
    BY <1>1, <1>2, <2>1, <2>4 DEF NoneLost, Somewhere, WB, RA, QA, HA, DA, AtA, HeldChunk
  <2> QED BY <2>3, <2>5, <2>6, <2>7 DEF LinkInv
<1> QED BY <1>3, <1>4

\* The oldest queued command goes into flight.
LEMMA NextSendInv == ASSUME LinkInv, NextSend PROVE LinkInv'
<1> DEFINE h == Head(outbox.queue)
           t == Tail(outbox.queue)
<1>1. /\ LinkTypes /\ BInv /\ FatesB /\ AInv /\ TaskInv /\ EpochInv /\ StaleInv
      /\ NoneLost /\ LateAtMostOnce
  BY DEF LinkInv
<1>2. /\ send.pc = "up" /\ send.flight = NoChunk /\ outbox.queue # <<>>
      /\ send' = [send EXCEPT !.flight = h] /\ send \in SendState
      /\ UNCHANGED <<wire, cut, recv, inbound, task, edge, dead, floor, ledger,
                     accepted, delivered, history>>
  BY <1>1, PlaceTypes DEF NextSend, A, graph, past
<1>3. /\ outbox' \in InboxOf(Chunk) /\ outbox'.queue = t /\ outbox'.held = h
  <2> DEFINE d == SettleHeld(outbox)
  <2>1. d \in InboxOf(Chunk) /\ d.queue = outbox.queue
    BY <1>1, PlaceTypes, SettleOf
  <2>2. outbox' = PollRecv(d)
    BY DEF NextSend
  <2> HIDE DEF d
  <2> QED BY <1>2, <2>1, <2>2, PollOf
<1>4. /\ h \in Chunk /\ Rising(t, Num)
      /\ Keys(outbox.queue, Num) = {Num[h]} \cup Keys(t, Num)
      /\ Before({Num[h]}, Keys(t, Num))
  BY <1>1, <1>2, RisingHead, KeyTypes, PlaceTypes DEF BInv
<1> HIDE DEF h, t
<1>5. Num[h] = h /\ h # NoChunk
  BY <1>4, NoChunkAssumption DEF Num
<1>6. QB = {h} \cup QB' /\ Before({h}, QB') /\ Rising(outbox'.queue, Num)
  BY <1>3, <1>4, <1>5 DEF QB
<1>7. send' \in SendState /\ send'.pc = "up" /\ send'.flight = h
  BY <1>2, <1>4 DEF SendState
<1>8. FB = {} /\ FB' = {h} /\ HeldChunk(outbox)' = {h}
  BY <1>2, <1>3, <1>5, <1>7 DEF FB, Hand, HeldChunk
<1>9. GoneB' = GoneB /\ AtB' = AtB /\ WB' = WB /\ RA' = RA /\ QA' = QA /\ HA' = HA
      /\ DA' = DA /\ AtA' = AtA
  BY <1>2 DEF GoneB, AtB, AtA, HeldChunk, WB, RA, QA, HA, DA
<1>10. LinkTypes'
  BY <1>1, <1>2, <1>3, <1>7, InboxOfChunks DEF LinkTypes, LinkTypeOK
<1>11. BInv'
  <2>1. Before(GoneB', FB') /\ Before((GoneB \cup FB)', QB')
    BY <1>1, <1>6, <1>8, <1>9 DEF BInv, Before
  <2>2. (QB \cup FB \cup GoneB \cup ledger.tornB)' \subseteq 1 .. accepted
    BY <1>1, <1>2, <1>6, <1>8, <1>9 DEF BInv
  <2> QED BY <1>1, <1>2, <1>6, <1>7, <1>8, <2>1, <2>2 DEF BInv
<1>12. FatesB'
  BY <1>1, <1>2, <1>9 DEF FatesB
<1>13. AInv' /\ TaskInv' /\ EpochInv' /\ StaleInv' /\ LateAtMostOnce'
  BY <1>1, <1>2, AFrame, TaskFrame, EpochFrame DEF StaleInv, LateAtMostOnce
<1>14. NoneLost'
  BY <1>1, <1>2, <1>6, <1>8, <1>9 DEF NoneLost, Somewhere
<1> QED BY <1>10, <1>11, <1>12, <1>13, <1>14 DEF LinkInv

\* What is written is later than all that was, so the wire stays in order.
LEMMA WireWriteInv == ASSUME LinkInv, WireWrite PROVE LinkInv'
<1> DEFINE c == send.flight
<1>1. /\ LinkTypes /\ BInv /\ FatesB /\ AInv /\ TaskInv /\ EpochInv /\ StaleInv
      /\ NoneLost /\ LateAtMostOnce
  BY DEF LinkInv
<1>2. /\ send.pc = "up" /\ c # NoChunk /\ Charge("wrote", {c})
      /\ send' = [send EXCEPT !.flight = NoChunk] /\ outbox' = SettleHeld(outbox)
      /\ send \in SendState /\ c \in Chunk
      /\ UNCHANGED <<cut, recv, inbound, task, edge, dead, floor, accepted, delivered>>
  BY <1>1, PlaceTypes DEF WireWrite, A, graph, SendState
<1> HIDE DEF c
<1>3. FB = {c}
  BY <1>2 DEF FB, Hand, c
<1>4. /\ ledger' \in [Counter -> SUBSET Chunk] /\ ledger'.wrote = ledger.wrote \cup {c}
      /\ \A k \in Counter : k # "wrote" => ledger'[k] = ledger[k]
  <2>1. "wrote" \in Counter
    BY DEF Counter
  <2> QED BY <1>1, <1>2, <2>1, ChargeFacts
<1>5. /\ ledger'.purgedB = ledger.purgedB /\ ledger'.peerGone = ledger.peerGone
      /\ ledger'.tornB = ledger.tornB /\ ledger'.purgedA = ledger.purgedA
      /\ ledger'.discardedA = ledger.discardedA /\ ledger'.tornA = ledger.tornA
  BY <1>4 DEF Counter
<1>6. outbox' \in InboxOf(Chunk) /\ outbox'.queue = outbox.queue /\ outbox'.held = NoChunk
      /\ outbox'.open = outbox.open
  BY <1>1, <1>2, PlaceTypes, SettleOf
<1>7. send' \in SendState /\ send'.pc = "up" /\ send'.flight = NoChunk
  BY <1>2 DEF SendState
<1>8. /\ QB' = QB /\ FB' = {} /\ HeldChunk(outbox)' = {} /\ GoneB' = GoneB \cup {c}
      /\ AtB' = AtB /\ AtA' = AtA /\ DoneA' = DoneA
      /\ RA' = RA /\ QA' = QA /\ HA' = HA /\ DA' = DA
  BY <1>2, <1>4, <1>5, <1>6, <1>7
     DEF QB, FB, Hand, HeldChunk, GoneB, AtB, AtA, DoneA, RA, QA, HA, DA
<1>9. Before(ledger.wrote, {c}) /\ ledger.wrote \subseteq Nat /\ c \in Nat
  BY <1>1, <1>2, <1>3, PlaceTypes DEF BInv, Before, GoneB, Counter
<1>10. /\ wire' \in Seq(Chunk) /\ Rising(wire', Num) /\ HistoryOK'
       /\ WB \subseteq WB' /\ WB' \subseteq WB \cup {c} /\ c \in WB' \cup history'.onWire
       /\ \A k \in History : k # "onWire" => history'[k] = history[k]
       /\ history.onWire \subseteq history'.onWire
  <2>1. CASE cut
    <3>1. Note("onWire", {c}) /\ wire' = wire /\ "onWire" \in History /\ {c} \subseteq Chunk
      BY <1>2, <2>1 DEF WireWrite, c, History
    <3>2. WB' = WB /\ wire \in Seq(Chunk) /\ Rising(wire, Num)
      BY <1>1, <3>1, PlaceTypes DEF WB, AInv
    <3> QED BY <1>1, <3>1, <3>2, NoteFacts
  <2>2. CASE ~cut
    <3>1. wire' = Append(wire, c) /\ history' = history
      BY <2>2 DEF WireWrite, c
    <3>2. Num[c] = c /\ WB = Keys(wire, Num) /\ Before(WB, {c})
      BY <1>1, <1>2, <1>9 DEF Num, WB, AInv, Before
    <3>3. Before(Keys(wire, Num), {Num[c]})
      BY <3>2
    <3>4. /\ Append(wire, c) \in Seq(Chunk) /\ Rising(Append(wire, c), Num)
          /\ Keys(Append(wire, c), Num) = Keys(wire, Num) \cup {Num[c]}
      <4>1. wire \in Seq(Chunk) /\ Rising(wire, Num) /\ Num \in [Chunk -> Nat]
        BY <1>1, KeyTypes, PlaceTypes DEF AInv
      <4> QED BY <1>2, <3>3, <4>1, RisingAppend
    <3>5. WB' = WB \cup {c}
      BY <3>1, <3>2, <3>4 DEF WB
    <3>6. HistoryOK'
      BY <1>1, <3>1 DEF LinkTypes, LinkTypeOK, HistoryOK
    <3> QED BY <3>1, <3>4, <3>5, <3>6
  <2> QED BY <2>1, <2>2
<1>11. history'.late = history.late /\ history'.stale = history.stale
       /\ history'.reader = history.reader
  BY <1>10 DEF History
<1>12. LinkTypes'
  BY <1>1, <1>2, <1>4, <1>6, <1>7, <1>10, InboxOfChunks DEF LinkTypes, LinkTypeOK, HistoryOK
<1>13. BInv'
  BY <1>1, <1>2, <1>3, <1>5, <1>6, <1>7, <1>8 DEF BInv, Before
<1>14. FatesB'
  <2>1. ledger.tornB = {} /\ Before(ledger.purgedB \cup ledger.peerGone, {c})
    BY <1>1, <1>2, <1>3 DEF BInv, Before, GoneB
  <2>2. c \notin AtB
    BY <1>9, <2>1 DEF Before, AtB
  <2> QED BY <1>1, <1>4, <1>5, <1>8, <2>2 DEF FatesB
<1>15. AInv'
  <2>1. Before((DoneA \cup HA \cup QA \cup RA)', WB')
    BY <1>1, <1>8, <1>9, <1>10 DEF AInv, Before
  <2>2. (DoneA \cup HA \cup QA \cup RA \cup WB)' \subseteq ledger'.wrote
    BY <1>1, <1>4, <1>8, <1>10 DEF AInv
  <2> QED BY <1>1, <1>2, <1>8, <1>10, <2>1, <2>2 DEF AInv
<1>16. TaskInv' /\ EpochInv' /\ StaleInv' /\ LateAtMostOnce'
  BY <1>1, <1>2, <1>5, <1>11, TaskFrame, EpochFrame DEF StaleInv, LateAtMostOnce
<1>17. NoneLost'
  BY <1>1, <1>2, <1>3, <1>8, <1>10, <1>11 DEF NoneLost, Somewhere
<1> QED BY <1>12, <1>13, <1>14, <1>15, <1>16, <1>17 DEF LinkInv

\* The command in flight is charged to the lost peer; the slot keeps it.
LEMMA SendDropsInv == ASSUME LinkInv, SendDrops PROVE LinkInv'
<1>1. /\ LinkTypes /\ BInv /\ FatesB /\ AInv /\ TaskInv /\ EpochInv /\ StaleInv
      /\ NoneLost /\ LateAtMostOnce
  BY DEF LinkInv
<1>2. /\ send.pc = "up" /\ Charge("peerGone", FB) /\ send \in SendState /\ FB \subseteq Chunk
      /\ UNCHANGED <<outbox, wire, cut, recv, inbound, task, edge, dead, floor,
                     accepted, delivered, history>>
  BY <1>1, PlaceTypes DEF SendDrops, A, graph, past, FB
<1>3. send' \in SendState /\ send'.pc = "down" /\ send'.flight = NoChunk
  <2> DEFINE no == FALSE
  <2>1. no \in BOOLEAN /\ send' = [send EXCEPT !.pc = "down", !.bound = no, !.flight = NoChunk]
    BY DEF SendDrops
  <2> HIDE DEF no
  <2> QED BY <1>2, <2>1 DEF SendState
<1>4. /\ ledger' \in [Counter -> SUBSET Chunk] /\ ledger'.peerGone = ledger.peerGone \cup FB
      /\ \A k \in Counter : k # "peerGone" => ledger'[k] = ledger[k]
  <2>1. "peerGone" \in Counter
    BY DEF Counter
  <2> QED BY <1>1, <1>2, <2>1, ChargeFacts
<1>5. /\ ledger'.purgedB = ledger.purgedB /\ ledger'.wrote = ledger.wrote
      /\ ledger'.tornB = ledger.tornB /\ ledger'.purgedA = ledger.purgedA
      /\ ledger'.discardedA = ledger.discardedA /\ ledger'.tornA = ledger.tornA
  BY <1>4 DEF Counter
<1>6. /\ QB' = QB /\ FB' = {} /\ HeldChunk(outbox)' = HeldChunk(outbox)
      /\ GoneB' = GoneB \cup FB /\ AtB' = AtB \cup FB /\ AtA' = AtA
      /\ WB' = WB /\ RA' = RA /\ QA' = QA /\ HA' = HA /\ DA' = DA
  BY <1>2, <1>3, <1>4, <1>5 DEF QB, FB, Hand, HeldChunk, GoneB, AtB, AtA, WB, RA, QA, HA, DA
<1>7. LinkTypes'
  BY <1>1, <1>2, <1>3, <1>4 DEF LinkTypes, LinkTypeOK
<1>8. BInv'
  BY <1>1, <1>2, <1>3, <1>4, <1>5, <1>6 DEF BInv, Before
<1>9. FatesB'
  <2>1. ledger.tornB = {} /\ Before(ledger.purgedB \cup ledger.wrote, FB)
    BY <1>1, <1>2 DEF BInv, Before, GoneB
  <2>2. FB \cap (ledger.purgedB \cup ledger.wrote) = {}
    BY <1>1, <1>2, <2>1, BeforeDisjoint, PlaceTypes
  <2> QED BY <1>1, <1>4, <1>5, <1>6, <2>1, <2>2 DEF FatesB
<1>10. AInv' /\ TaskInv' /\ EpochInv' /\ StaleInv' /\ LateAtMostOnce'
  BY <1>1, <1>2, <1>5, AFrame, TaskFrame, EpochFrame DEF StaleInv, LateAtMostOnce
<1>11. NoneLost'
  BY <1>1, <1>2, <1>6 DEF NoneLost, Somewhere
<1> QED BY <1>7, <1>8, <1>9, <1>10, <1>11 DEF LinkInv

\* B's teardown charges the queue and the slot; only the slot's command may
\* already be charged to the lost peer.
LEMMA SendStopsInv == ASSUME LinkInv, SendStops PROVE LinkInv'
<1> DEFINE H == HeldChunk(outbox)
<1>1. /\ LinkTypes /\ BInv /\ FatesB /\ AInv /\ TaskInv /\ EpochInv /\ StaleInv
      /\ NoneLost /\ LateAtMostOnce
  BY DEF LinkInv
<1>2. /\ send.pc # "gone" /\ Charge("tornB", QB \cup H) /\ outbox' = Taken(outbox)
      /\ send' = [send EXCEPT !.pc = "gone", !.flight = NoChunk] /\ send \in SendState
      /\ cut' = TRUE
      /\ UNCHANGED <<wire, recv, inbound, task, edge, dead, floor,
                     accepted, delivered, history>>
  BY <1>1, PlaceTypes DEF SendStops, A, graph, past, DrainAndCount
<1>3. H \subseteq Chunk /\ QB \subseteq Chunk /\ (\A c, d \in H : c = d)
      /\ H \subseteq FB \cup ledger.peerGone /\ FB \subseteq H
  BY <1>1, PlaceTypes DEF HeldChunk, InboxOf, BInv
<1>4. send' \in SendState /\ send'.pc = "gone" /\ send'.flight = NoChunk
  BY <1>2 DEF SendState
<1>5. outbox' \in InboxOf(Chunk) /\ outbox'.queue = <<>> /\ outbox'.held = NoChunk /\ ~outbox'.open
  BY <1>1, <1>2, PlaceTypes, TakenOf
<1>6. ledger.tornB = {}
  BY <1>1, <1>2 DEF BInv
<1> HIDE DEF H
<1>7. /\ ledger' \in [Counter -> SUBSET Chunk] /\ ledger'.tornB = QB \cup H
      /\ \A k \in Counter : k # "tornB" => ledger'[k] = ledger[k]
  <2>1. "tornB" \in Counter /\ QB \cup H \in SUBSET Chunk
    BY <1>3 DEF Counter
  <2>2. /\ ledger' \in [Counter -> SUBSET Chunk] /\ ledger'["tornB"] = ledger["tornB"] \cup (QB \cup H)
        /\ \A k \in Counter : k # "tornB" => ledger'[k] = ledger[k]
    BY <1>1, <1>2, <2>1, ChargeFacts
  <2> QED BY <1>6, <2>2
<1>8. /\ ledger'.purgedB = ledger.purgedB /\ ledger'.wrote = ledger.wrote
      /\ ledger'.peerGone = ledger.peerGone /\ ledger'.purgedA = ledger.purgedA
      /\ ledger'.discardedA = ledger.discardedA /\ ledger'.tornA = ledger.tornA
  BY <1>7 DEF Counter
<1>9. /\ QB' = {} /\ FB' = {} /\ HeldChunk(outbox)' = {} /\ Rising(outbox'.queue, Num)
      /\ GoneB' = GoneB /\ AtB' = AtB \cup QB \cup H /\ AtA' = AtA
      /\ WB' = WB /\ RA' = RA /\ QA' = QA /\ HA' = HA /\ DA' = DA
  BY <1>2, <1>4, <1>5, <1>6, <1>7, <1>8, EmptyRising
     DEF QB, FB, Hand, HeldChunk, GoneB, AtB, AtA, WB, RA, QA, HA, DA
<1>10. LinkTypes'
  BY <1>1, <1>2, <1>4, <1>5, <1>7, InboxOfChunks DEF LinkTypes, LinkTypeOK
<1>11. BInv'
  <2>1. QB \cup H \subseteq 1 .. accepted
    BY <1>1, <1>3 DEF BInv, GoneB
  <2> QED BY <1>1, <1>2, <1>4, <1>5, <1>7, <1>9, <2>1 DEF BInv, Before
<1>12. FatesB'
  <2>1. Before(ledger.wrote \cup ledger.purgedB, FB)
        /\ Before(ledger.wrote \cup ledger.purgedB \cup ledger.peerGone, QB)
    BY <1>1 DEF BInv, Before, GoneB
  <2>2. /\ (ledger.wrote \cup ledger.purgedB) \cap FB = {}
        /\ (ledger.wrote \cup ledger.purgedB \cup ledger.peerGone) \cap QB = {}
    <3>1. FB \in SUBSET Nat /\ QB \in SUBSET Nat
      BY <1>1, PlaceTypes
    <3>2. FB \cap (ledger.wrote \cup ledger.purgedB) = {}
      BY <2>1, <3>1, BeforeDisjoint
    <3>3. QB \cap (ledger.wrote \cup ledger.purgedB \cup ledger.peerGone) = {}
      BY <2>1, <3>1, BeforeDisjoint
    <3> QED BY <3>2, <3>3
  <2>3. (ledger.wrote \cup ledger.purgedB) \cap (QB \cup H) = {}
    BY <1>1, <1>3, <2>2 DEF FatesB, AtB
  <2>4. ledger.peerGone \cap (QB \cup H) \subseteq H
    BY <2>2
  <2> QED BY <1>1, <1>3, <1>7, <1>8, <1>9, <2>3, <2>4 DEF FatesB
<1>13. AInv' /\ TaskInv' /\ EpochInv' /\ StaleInv' /\ LateAtMostOnce'
  BY <1>1, <1>2, <1>8, AFrame, TaskFrame, EpochFrame DEF StaleInv, LateAtMostOnce
<1>14. NoneLost'
  BY <1>1, <1>2, <1>3, <1>9 DEF NoneLost, Somewhere
<1> QED BY <1>10, <1>11, <1>12, <1>13, <1>14 DEF LinkInv

\* B's end of a new connection: on a reconnect what was queued is purged.
LEMMA ConnectedInv ==
    ASSUME LinkInv, NEW announced \in BOOLEAN, Connected(announced), send.pc = "down",
           UNCHANGED <<wire, inbound, task, accepted, delivered>>,
           recv'.reading = recv.reading
    PROVE  /\ outbox' \in InboxOf(Chunk) /\ send' \in SendState
           /\ ledger' \in [Counter -> SUBSET Chunk]
           /\ \A k \in Counter : k # "purgedB" => ledger'[k] = ledger[k]
           /\ HistoryOK' /\ \A k \in History : k # "stale" => history'[k] = history[k]
           /\ BInv' /\ FatesB' /\ NoneLost' /\ StaleInv'
<1> DEFINE yes == TRUE
           s == [send EXCEPT !.bound = announced, !.before = yes]
           old == IF send.before THEN ToSet(outbox.queue) ELSE {}
<1>1. LinkTypes /\ BInv /\ FatesB /\ StaleInv /\ NoneLost
  BY DEF LinkInv
<1>2. send \in SendState /\ yes \in BOOLEAN /\ QB \subseteq Chunk /\ ToSet(outbox.queue) = QB
      /\ ledger \in [Counter -> SUBSET Chunk] /\ outbox \in InboxOf(Chunk)
  BY <1>1, PlaceTypes
<1>3. /\ IF send.before /\ Purge
         THEN PurgeRound(s, 1)
         ELSE send' = [s EXCEPT !.pc = "up"] /\ UNCHANGED <<outbox, ledger>>
      /\ Note("stale", old)
  BY DEF Connected
<1> HIDE DEF yes
<1>4. s \in SendState /\ s.flight = send.flight
  BY <1>2 DEF SendState
<1>5. old \subseteq QB /\ (~send.before => old = {})
  BY <1>2
<1> HIDE DEF s, old
<1>6. /\ HistoryOK' /\ history'.stale = history.stale \cup old
      /\ \A k \in History : k # "stale" => history'[k] = history[k]
  <2>1. "stale" \in History /\ old \subseteq Chunk
    BY <1>2, <1>5 DEF History
  <2> QED BY <1>1, <1>3, <2>1, NoteFacts
<1>7. history'.onWire = history.onWire /\ history'.reader = history.reader
  BY <1>6 DEF History
<1>8. CASE send.before /\ Purge
  <2>1. PurgeRound(s, 1) /\ 1 \in 1 .. PurgeRounds
    BY <1>3, <1>8, PurgeAssumption
  <2>2. /\ outbox' \in InboxOf(Chunk) /\ send' \in SendState
        /\ ledger' \in [Counter -> SUBSET Chunk]
        /\ ledger'.purgedB = ledger.purgedB \cup QB
        /\ \A k \in Counter : k # "purgedB" => ledger'[k] = ledger[k]
        /\ BInv' /\ FatesB' /\ NoneLost'
    BY <1>1, <1>4, <1>7, <2>1, RoundInv
  <2>3. StaleInv'
    BY <1>1, <1>5, <1>6, <2>2 DEF StaleInv
  <2> QED BY <1>6, <2>2, <2>3
<1>9. CASE ~(send.before /\ Purge)
  <2>1. send' = [s EXCEPT !.pc = "up"] /\ UNCHANGED <<outbox, ledger>>
    BY <1>3, <1>9
  <2>2. send' \in SendState /\ send'.pc = "up" /\ send'.flight = send.flight
    BY <1>4, <2>1 DEF SendState
  <2>3. QB' = QB /\ FB' = FB /\ GoneB' = GoneB /\ AtB' = AtB /\ HeldChunk(outbox)' = HeldChunk(outbox)
    BY <2>1, <2>2 DEF QB, FB, GoneB, AtB, HeldChunk
  <2>4. BInv' /\ FatesB'
    BY <1>1, <2>1, <2>2, <2>3 DEF BInv, FatesB
  <2>5. NoneLost'
    BY <1>1, <1>7, <2>1, <2>3 DEF NoneLost, Somewhere, WB, RA, QA, HA, DA, AtA, HeldChunk
  <2>6. StaleInv'
    BY <1>1, <1>5, <1>6, <1>9, <2>1 DEF StaleInv
  <2> QED BY <1>2, <1>6, <2>1, <2>2, <2>4, <2>5, <2>6
<1> QED BY <1>8, <1>9

\* One end or both finish the handshake.
LEMMA EstablishInv ==
    ASSUME LinkInv, NEW announced \in BOOLEAN, Establish(announced)
    PROVE  LinkInv'
<1>1. /\ LinkTypes /\ BInv /\ FatesB /\ AInv /\ TaskInv /\ EpochInv /\ StaleInv
      /\ NoneLost /\ LateAtMostOnce
  BY DEF LinkInv
<1>2. /\ send.pc = "down" /\ recv.pc = "down" /\ recv.epoch < MaxEpoch /\ recv \in RecvState
      /\ UNCHANGED <<wire, inbound, task, edge, dead, floor, accepted, delivered>>
  BY <1>1, PlaceTypes DEF Establish, graph
<1>3. cut' \in BOOLEAN /\ recv' \in RecvState /\ recv'.reading = recv.reading
      /\ recv'.epoch = recv.epoch
  <2>1. recv' = recv \/ recv' = [recv EXCEPT !.pc = "up"]
    BY DEF Establish
  <2>2. cut' \in BOOLEAN
    BY DEF Establish
  <2> QED BY <1>2, <2>1, <2>2 DEF RecvState
<1>4. /\ outbox' \in InboxOf(Chunk) /\ send' \in SendState
      /\ ledger' \in [Counter -> SUBSET Chunk]
      /\ \A k \in Counter : k # "purgedB" => ledger'[k] = ledger[k]
      /\ HistoryOK' /\ \A k \in History : k # "stale" => history'[k] = history[k]
      /\ BInv' /\ FatesB' /\ NoneLost' /\ StaleInv'
  <2>1. CASE Connected(announced)
    BY <1>2, <1>3, <2>1, ConnectedInv
  <2>2. CASE UNCHANGED <<B, ledger, history>>
    <3>1. UNCHANGED <<send, outbox, ledger, history>>
      BY <2>2 DEF B
    <3>2. BInv' /\ FatesB' /\ StaleInv'
      BY <1>1, <1>2, <3>1, BFrame DEF StaleInv
    <3>3. NoneLost'
      BY <1>1, <1>2, <1>3, <3>1
         DEF NoneLost, Somewhere, QB, FB, WB, RA, QA, HA, DA, AtA, AtB, HeldChunk
    <3>4. HistoryOK'
      BY <1>1, <3>1 DEF HistoryOK, LinkTypes, LinkTypeOK
    <3> QED BY <1>1, <3>1, <3>2, <3>3, <3>4, PlaceTypes
  <2> QED BY <2>1, <2>2 DEF Establish
<1>5. LinkTypes'
  BY <1>1, <1>2, <1>3, <1>4, InboxOfChunks DEF LinkTypes, LinkTypeOK, HistoryOK
<1>6. AInv'
  BY <1>1, <1>2, <1>3, <1>4, AFrame DEF Counter
<1>7. history'.late = history.late
  BY <1>4 DEF History
<1>8. TaskInv' /\ EpochInv' /\ LateAtMostOnce'
  BY <1>1, <1>2, <1>3, <1>7, TaskFrame, EpochFrame DEF LateAtMostOnce
<1> QED BY <1>4, <1>5, <1>6, <1>8 DEF LinkInv

\* What a break cuts off is lost on the wire.
LEMMA BreakInv ==
    ASSUME LinkInv, NEW n \in 0 .. Len(wire), Break(n)
    PROVE  LinkInv'
<1> DEFINE r == SubSeq(wire, 1, n)
           t == SubSeq(wire, n + 1, Len(wire))
<1>1. /\ LinkTypes /\ BInv /\ FatesB /\ AInv /\ TaskInv /\ EpochInv /\ StaleInv
      /\ NoneLost /\ LateAtMostOnce
  BY DEF LinkInv
<1>2. /\ wire' = r /\ Note("onWire", ToSet(t)) /\ cut' = TRUE
      /\ UNCHANGED <<send, outbox, recv, inbound, task, edge, dead, floor, ledger,
                     accepted, delivered>>
  BY DEF Break, A, B, graph
<1>3. r \in Seq(Chunk) /\ t \in Seq(Chunk) /\ Rising(r, Num)
      /\ Keys(wire, Num) = Keys(r, Num) \cup Keys(t, Num)
  BY <1>1, RisingCut, KeyTypes, PlaceTypes DEF AInv
<1> HIDE DEF r, t
<1>4. WB = WB' \cup ToSet(t) /\ ToSet(t) \subseteq Chunk
  BY <1>2, <1>3, ChunkKeys DEF WB
<1>5. /\ HistoryOK' /\ history'.onWire = history.onWire \cup ToSet(t)
      /\ \A k \in History : k # "onWire" => history'[k] = history[k]
  <2>1. "onWire" \in History
    BY DEF History
  <2> QED BY <1>1, <1>2, <1>4, <2>1, NoteFacts
<1>6. history'.late = history.late /\ history'.stale = history.stale
      /\ history'.reader = history.reader
  BY <1>5 DEF History
<1>7. RA' = RA /\ QA' = QA /\ HA' = HA /\ DA' = DA /\ AtA' = AtA /\ DoneA' = DoneA
      /\ QB' = QB /\ FB' = FB /\ AtB' = AtB
  BY <1>2 DEF RA, QA, HA, DA, AtA, AtB, DoneA, HeldChunk, QB, FB
<1>8. LinkTypes'
  BY <1>1, <1>2, <1>3, <1>5 DEF LinkTypes, LinkTypeOK, HistoryOK
<1>9. AInv'
  BY <1>1, <1>2, <1>3, <1>4, <1>7 DEF AInv, Before
<1>10. BInv' /\ FatesB' /\ TaskInv' /\ EpochInv' /\ StaleInv' /\ LateAtMostOnce'
  BY <1>1, <1>2, <1>6, BFrame, TaskFrame, EpochFrame DEF StaleInv, LateAtMostOnce
<1>11. NoneLost'
  BY <1>1, <1>2, <1>4, <1>5, <1>6, <1>7 DEF NoneLost, Somewhere
<1> QED BY <1>8, <1>9, <1>10, <1>11 DEF LinkInv

-----------------------------------------------------------------------------
(* Computer A: the read half *)

\* A bound on the tags of a queue survives its operations.
LEMMA UpToSteps ==
    ASSUME NEW q \in Seq(Item), NEW e \in Nat, UpTo(q, e)
    PROVE  /\ \A x \in Item : x.epoch <= e => UpTo(Append(q, x), e)
           /\ q # <<>> => UpTo(Tail(q), e) /\ Head(q).epoch <= e
           /\ UpTo(q, e + 1) /\ UpTo(<<>>, e)
<1>1. ASSUME NEW x \in Item, x.epoch <= e PROVE UpTo(Append(q, x), e)
  <2>1. \A i \in 1 .. Len(Append(q, x)) :
            \/ i \in 1 .. Len(q) /\ Append(q, x)[i] = q[i]
            \/ Append(q, x)[i] = x
    OBVIOUS
  <2> QED BY <1>1, <2>1 DEF UpTo
<1>2. ASSUME q # <<>> PROVE UpTo(Tail(q), e) /\ Head(q).epoch <= e
  <2>1. /\ Head(q) = q[1] /\ Len(q) \in Nat \ {0} /\ Len(Tail(q)) = Len(q) - 1
        /\ \A i \in 1 .. Len(q) - 1 : Tail(q)[i] = q[i + 1]
    BY <1>2, HeadTailProperties
  <2>2. \A i \in 1 .. Len(Tail(q)) : i + 1 \in 1 .. Len(q) /\ Tail(q)[i] = q[i + 1]
    BY <2>1
  <2>3. 1 \in 1 .. Len(q)
    BY <2>1
  <2> QED BY <2>1, <2>2, <2>3 DEF UpTo
<1>3. UpTo(q, e + 1)
  <2>1. \A i \in 1 .. Len(q) : q[i] \in Item
    OBVIOUS
  <2>2. \A x \in Item : x.epoch \in Nat
    BY MaxEpochAssumption DEF Item
  <2>3. \A k \in Nat : k <= e => k <= e + 1
    OBVIOUS
  <2> QED BY <2>1, <2>2, <2>3 DEF UpTo
<1>4. UpTo(<<>>, e)
  BY DEF UpTo
<1> QED BY <1>1, <1>2, <1>3, <1>4

\* The commands of one item in hand.
LEMMA HandItem ==
    ASSUME NEW x \in Item
    PROVE  /\ x # NoChunk /\ Hand(x) = {x} /\ Items(Hand(x)) = {x.chunk}
           /\ x.chunk \in Chunk /\ Key[x] = x.chunk
           /\ x.epoch \in 0 .. MaxEpoch
BY NoItemAssumption DEF Hand, Items, Key, Item

\* An empty hand holds no command.
LEMMA HandNothing == Hand(NoChunk) = {} /\ Items(Hand(NoChunk)) = {}
BY DEF Hand, Items

\* The oldest command on the wire goes into A's queue, or waits for room.
LEMMA ReadInv == ASSUME LinkInv, Read PROVE LinkInv'
<1> DEFINE h == Head(wire)
           t == Tail(wire)
           x == [chunk |-> h, epoch |-> recv.epoch]
<1>1. /\ LinkTypes /\ BInv /\ FatesB /\ AInv /\ TaskInv /\ EpochInv /\ StaleInv
      /\ NoneLost /\ LateAtMostOnce
  BY DEF LinkInv
<1>2. /\ recv.pc = "up" /\ recv.reading = NoChunk /\ wire # <<>> /\ wire' = t
      /\ recv \in RecvState
      /\ UNCHANGED <<send, outbox, cut, task, edge, dead, floor, ledger,
                     accepted, delivered, history>>
  BY <1>1, PlaceTypes DEF Read, B, graph, past
<1>3. \/ inbound' = Push(inbound, x) /\ recv' = recv
      \/ recv' = [recv EXCEPT !.reading = x] /\ inbound' = inbound
  BY DEF Read
<1>4. /\ h \in Chunk /\ t \in Seq(Chunk) /\ Rising(t, Num)
      /\ Keys(wire, Num) = {Num[h]} \cup Keys(t, Num)
      /\ Before({Num[h]}, Keys(t, Num))
  BY <1>1, <1>2, RisingHead, KeyTypes, PlaceTypes DEF AInv
<1> HIDE DEF h, t
<1>5. x \in Item /\ x.chunk = h /\ x.epoch = recv.epoch
  BY <1>2, <1>4 DEF Item, RecvState
<1> HIDE DEF x
<1>6. Num[h] = h /\ Key[x] = h /\ Items(Hand(x)) = {h} /\ Hand(x) = {x}
  BY <1>4, <1>5, HandItem DEF Num
<1>7. WB = {h} \cup WB' /\ Before({h}, WB') /\ Rising(wire', Num)
  BY <1>2, <1>4, <1>6 DEF WB
<1>8. RA = {} /\ Before(DoneA \cup HA \cup QA, {h}) /\ h \in ledger.wrote
  BY <1>1, <1>2, <1>7, HandNothing DEF RA, AInv, Before
<1>9. /\ DA' = DA /\ AtA' = AtA /\ DoneA' = DoneA /\ QB' = QB /\ FB' = FB /\ AtB' = AtB
  BY <1>2 DEF DA, AtA, AtB, DoneA, QB, FB
<1>10. recv.epoch \in Nat
  BY <1>2, MaxEpochAssumption DEF RecvState
<1>11. CASE inbound' = Push(inbound, x) /\ recv' = recv
  <2>1. /\ inbound' \in InboxOf(Item) /\ inbound'.queue = Append(inbound.queue, x)
        /\ inbound'.held = inbound.held
    <3>1. inbound \in InboxOf(Item)
      BY <1>1, PlaceTypes
    <3>2. inbound' = Push(inbound, x) /\ x \in Item
      BY <1>5, <1>11
    <3> QED BY <3>1, <3>2, PushOf
  <2>2. Rising(inbound'.queue, Key) /\ QA' = QA \cup {h}
    <3>1. inbound.queue \in Seq(Item) /\ Rising(inbound.queue, Key) /\ Key \in [Item -> Nat]
      BY <1>1, KeyTypes, PlaceTypes DEF AInv
    <3>2. Before(Keys(inbound.queue, Key), {Key[x]})
      BY <1>6, <1>8 DEF QA, Before
    <3> QED BY <1>5, <1>6, <2>1, <3>1, <3>2, RisingAppend DEF QA
  <2>3. HA' = HA /\ RA' = {} /\ HeldChunk(inbound)' = HeldChunk(inbound)
    BY <1>8, <1>11, <2>1 DEF HA, RA, HeldChunk
  <2>4. LinkTypes'
    BY <1>1, <1>2, <1>4, <1>11, <2>1 DEF LinkTypes, LinkTypeOK, InboxOf
  <2>5. AInv'
    BY <1>1, <1>2, <1>7, <1>8, <1>9, <2>2, <2>3 DEF AInv, Before
  <2>6. EpochInv'
    <3>1. UpTo(inbound'.queue, recv.epoch)
      BY <1>1, <1>5, <1>10, <2>1, UpToSteps, PlaceTypes, SMTT(40) DEF EpochInv
    <3> QED BY <1>1, <1>2, <1>11, <2>1, <2>3, <3>1 DEF EpochInv
  <2>7. TaskInv' /\ BInv' /\ FatesB' /\ StaleInv' /\ LateAtMostOnce'
    BY <1>1, <1>2, <2>1, BFrame, TaskFrame DEF StaleInv, LateAtMostOnce
  <2>8. NoneLost'
    BY <1>1, <1>2, <1>7, <1>8, <1>9, <2>2, <2>3 DEF NoneLost, Somewhere
  <2> QED BY <2>4, <2>5, <2>6, <2>7, <2>8 DEF LinkInv
<1>12. CASE recv' = [recv EXCEPT !.reading = x] /\ inbound' = inbound
  <2>1. recv' \in RecvState /\ recv'.reading = x /\ recv'.epoch = recv.epoch /\ recv'.pc = recv.pc
    BY <1>2, <1>5, <1>12 DEF RecvState
  <2>2. RA' = {h} /\ HA' = HA /\ QA' = QA /\ HeldChunk(inbound)' = HeldChunk(inbound)
    BY <1>6, <1>12, <2>1 DEF HA, RA, QA, HeldChunk
  <2>3. LinkTypes'
    BY <1>1, <1>2, <1>4, <1>12, <2>1 DEF LinkTypes, LinkTypeOK
  <2>4. AInv'
    BY <1>1, <1>2, <1>7, <1>8, <1>9, <1>12, <2>2 DEF AInv, Before
  <2>5. EpochInv'
    BY <1>1, <1>2, <1>5, <1>6, <1>10, <1>12, <2>1, <2>2 DEF EpochInv
  <2>6. TaskInv' /\ BInv' /\ FatesB' /\ StaleInv' /\ LateAtMostOnce'
    BY <1>1, <1>2, <1>12, BFrame, TaskFrame DEF StaleInv, LateAtMostOnce
  <2>7. NoneLost'
    BY <1>1, <1>2, <1>7, <1>8, <1>9, <2>2 DEF NoneLost, Somewhere
  <2> QED BY <2>3, <2>4, <2>5, <2>6, <2>7 DEF LinkInv
<1> QED BY <1>3, <1>11, <1>12

\* The read half's command goes in; it is later than all that is queued.
LEMMA ReadLandsInv == ASSUME LinkInv, ReadLands PROVE LinkInv'
<1> DEFINE x == recv.reading
<1>1. /\ LinkTypes /\ BInv /\ FatesB /\ AInv /\ TaskInv /\ EpochInv /\ StaleInv
      /\ NoneLost /\ LateAtMostOnce
  BY DEF LinkInv
<1>2. /\ x \in Item /\ inbound' = Push(inbound, x)
      /\ recv' = [recv EXCEPT !.reading = NoChunk] /\ recv \in RecvState
      /\ UNCHANGED <<send, outbox, wire, cut, task, edge, dead, floor, ledger,
                     accepted, delivered, history>>
  BY <1>1, PlaceTypes DEF ReadLands, B, graph, past, RecvState
<1>3. x.epoch <= recv.epoch
  BY <1>1, <1>2, HandItem DEF EpochInv
<1>4. RA = {Key[x]}
  BY <1>2, HandItem DEF RA
<1> HIDE DEF x
<1>5. recv' \in RecvState /\ recv'.reading = NoChunk /\ recv'.epoch = recv.epoch
      /\ recv'.pc = recv.pc /\ recv.epoch \in Nat
  BY <1>2, MaxEpochAssumption DEF RecvState
<1>6. /\ inbound' \in InboxOf(Item) /\ inbound'.queue = Append(inbound.queue, x)
      /\ inbound'.held = inbound.held
  <2>1. inbound \in InboxOf(Item)
    BY <1>1, PlaceTypes
  <2>2. inbound' = Push(inbound, x) /\ x \in Item
    BY <1>2
  <2> QED BY <2>1, <2>2, PushOf
<1>7. Rising(inbound'.queue, Key) /\ QA' = QA \cup RA
  <2>1. inbound.queue \in Seq(Item) /\ Rising(inbound.queue, Key) /\ Key \in [Item -> Nat]
    BY <1>1, KeyTypes, PlaceTypes DEF AInv
  <2>2. Before(Keys(inbound.queue, Key), {Key[x]})
    BY <1>1, <1>4 DEF QA, AInv, Before
  <2>3. /\ Rising(Append(inbound.queue, x), Key)
        /\ Keys(Append(inbound.queue, x), Key) = Keys(inbound.queue, Key) \cup {Key[x]}
    BY <1>2, <2>1, <2>2, RisingAppend
  <2> QED BY <1>4, <1>6, <2>3 DEF QA
<1>8. /\ RA' = {} /\ Hand(recv.reading)' = {} /\ HA' = HA
      /\ HeldChunk(inbound)' = HeldChunk(inbound)
      /\ WB' = WB /\ DA' = DA /\ AtA' = AtA /\ DoneA' = DoneA
      /\ QB' = QB /\ FB' = FB /\ AtB' = AtB
  BY <1>2, <1>5, <1>6, HandNothing DEF RA, HA, HeldChunk, WB, DA, AtA, AtB, DoneA, QB, FB
<1>9. LinkTypes'
  BY <1>1, <1>2, <1>5, <1>6 DEF LinkTypes, LinkTypeOK, InboxOf
<1>10. AInv'
  BY <1>1, <1>2, <1>7, <1>8 DEF AInv, Before
<1>11. EpochInv'
  <2>1. UpTo(inbound'.queue, recv.epoch)
    BY <1>1, <1>2, <1>3, <1>5, <1>6, UpToSteps, PlaceTypes DEF EpochInv
  <2> QED BY <1>1, <1>2, <1>5, <1>6, <1>8, <2>1 DEF EpochInv
<1>12. TaskInv' /\ BInv' /\ FatesB' /\ StaleInv' /\ LateAtMostOnce'
  BY <1>1, <1>2, <1>6, BFrame, TaskFrame DEF StaleInv, LateAtMostOnce
<1>13. NoneLost'
  BY <1>1, <1>2, <1>7, <1>8 DEF NoneLost, Somewhere
<1> QED BY <1>9, <1>10, <1>11, <1>12, <1>13 DEF LinkInv

\* A dropped read half loses what it has not read, and the command in its hands.
LEMMA LostFacts ==
    ASSUME LinkTypes, ReadHalfLost
    PROVE  /\ HistoryOK' /\ history'.onWire = history.onWire \cup WB
           /\ history'.reader = history.reader \cup RA
           /\ history'.late = history.late /\ history'.stale = history.stale
<1>1. HistoryOK /\ WB \subseteq Chunk /\ RA \subseteq Chunk
      /\ history' = [history EXCEPT !.onWire = @ \cup WB, !.reader = @ \cup RA]
  BY PlaceTypes DEF LinkTypes, LinkTypeOK, HistoryOK, ReadHalfLost, RA, Items
<1>2. /\ DOMAIN history' = History /\ history'.onWire = history.onWire \cup WB
      /\ history'.reader = history.reader \cup RA
      /\ \A d \in History : d \notin {"onWire", "reader"} => history'[d] = history[d]
  BY <1>1 DEF HistoryOK, History
<1>3. ASSUME NEW d \in History PROVE history'[d] \subseteq IF d = "late" THEN Item ELSE Chunk
  BY <1>1, <1>2 DEF HistoryOK
<1>4. history'.late = history.late /\ history'.stale = history.stale
  BY <1>2 DEF History
<1> QED BY <1>2, <1>3, <1>4 DEF HistoryOK

\* The epoch is bumped; what the task holds keeps its older tag.
LEMMA RecvDropsInv == ASSUME LinkInv, RecvDrops PROVE LinkInv'
<1> DEFINE g == recv.epoch + 1
           l == Listening
           z == <<>>
<1>1. /\ LinkTypes /\ BInv /\ FatesB /\ AInv /\ TaskInv /\ EpochInv /\ StaleInv
      /\ NoneLost /\ LateAtMostOnce
  BY DEF LinkInv
<1>2. /\ recv.pc = "up" /\ recv' = [recv EXCEPT !.pc = "down", !.epoch = g, !.reading = NoChunk]
      /\ ReadHalfLost /\ wire' = z /\ task' = [task EXCEPT !.pulse = l]
      /\ recv \in RecvState /\ task \in TaskState
      /\ UNCHANGED <<send, outbox, cut, inbound, edge, dead, floor, ledger,
                     accepted, delivered>>
  BY <1>1, PlaceTypes DEF RecvDrops, B, graph
<1>3. recv.epoch \in Nat /\ g \in 0 .. MaxEpoch
  BY <1>1, <1>2, MaxEpochAssumption DEF LinkTypes, RecvState
<1>4. z \in Seq(Chunk) /\ Rising(z, Num) /\ WB' = {}
  BY <1>2, EmptyRising DEF WB
<1>5. l \in BOOLEAN
  BY DEF Listening
<1>6. UpTo(inbound.queue, g)
  BY <1>1, <1>3, UpToSteps, PlaceTypes DEF EpochInv
<1>7. \A e \in Nat : e <= recv.epoch => e <= g /\ e < g
  BY <1>3
<1> HIDE DEF g, l, z
<1>8. recv' \in RecvState /\ recv'.pc = "down" /\ recv'.epoch = g /\ recv'.reading = NoChunk
  BY <1>2, <1>3 DEF RecvState
<1>9. task' \in TaskState /\ task'.pc = task.pc
  BY <1>2, <1>5 DEF TaskState
<1>10. /\ HistoryOK' /\ history'.onWire = history.onWire \cup WB
       /\ history'.reader = history.reader \cup RA
       /\ history'.late = history.late /\ history'.stale = history.stale
  BY <1>1, <1>2, LostFacts
<1>11. /\ RA' = {} /\ Hand(recv.reading)' = {} /\ HA' = HA /\ QA' = QA
       /\ HeldChunk(inbound)' = HeldChunk(inbound)
       /\ DA' = DA /\ AtA' = AtA /\ DoneA' = DoneA /\ QB' = QB /\ FB' = FB /\ AtB' = AtB
  BY <1>2, <1>8, HandNothing DEF RA, HA, QA, HeldChunk, DA, AtA, AtB, DoneA, QB, FB
<1>12. LinkTypes'
  BY <1>1, <1>2, <1>4, <1>8, <1>9, <1>10 DEF LinkTypes, LinkTypeOK, HistoryOK
<1>13. AInv'
  BY <1>1, <1>2, <1>4, <1>11 DEF AInv, Before
<1>14. EpochInv'
  <2>1. \A x \in HeldChunk(inbound) : x.epoch \in Nat
    BY <1>1, PlaceTypes, MaxEpochAssumption DEF HeldChunk, InboxOf, Item
  <2>2. \A y \in history.late : y.epoch \in Nat
    BY <1>1, MaxEpochAssumption DEF LinkTypes, LinkTypeOK, History, Item
  <2>3. \A x \in HeldChunk(inbound) : x.epoch <= g
    BY <1>1, <1>7, <2>1 DEF EpochInv
  <2>4. Purge => \A y \in history.late : y.epoch < g
    BY <1>1, <1>3, <1>7, <2>2 DEF EpochInv
  <2> QED BY <1>1, <1>2, <1>6, <1>8, <1>9, <1>10, <1>11, <2>3, <2>4 DEF EpochInv
<1>15. TaskInv' /\ BInv' /\ FatesB' /\ StaleInv' /\ LateAtMostOnce'
  BY <1>1, <1>2, <1>9, <1>10, BFrame, TaskFrame DEF StaleInv, LateAtMostOnce
<1>16. NoneLost'
  BY <1>1, <1>2, <1>10, <1>11 DEF NoneLost, Somewhere
<1> QED BY <1>12, <1>13, <1>14, <1>15, <1>16 DEF LinkInv

\* A's teardown charges the queue and the command in the task's hands.
LEMMA RecvStopsInv == ASSUME LinkInv, RecvStops PROVE LinkInv'
<1> DEFINE no == FALSE
           z == <<>>
<1>1. /\ LinkTypes /\ BInv /\ FatesB /\ AInv /\ TaskInv /\ EpochInv /\ StaleInv
      /\ NoneLost /\ LateAtMostOnce
  BY DEF LinkInv
<1>2. /\ recv' = [recv EXCEPT !.pc = "gone", !.reading = NoChunk]
      /\ inbound' = Taken(inbound) /\ ReadHalfLost /\ wire' = z /\ cut' = TRUE
      /\ task' = [task EXCEPT !.pc = "gone", !.pulse = no]
      /\ edge' = NoEdge /\ floor' = "free" /\ no \in BOOLEAN
      /\ recv \in RecvState /\ task \in TaskState
      /\ UNCHANGED <<send, outbox, dead, accepted, delivered>>
  BY <1>1, PlaceTypes DEF RecvStops, B
<1>3. Charge("tornA", QA \cup HA)
  <2>1. {x.chunk : x \in DrainAndCount(inbound)} = QA \cup HA
    BY <1>1, PlaceTypes DEF DrainAndCount, Items, HA
  <2> QED BY <2>1 DEF RecvStops
<1>4. z \in Seq(Chunk) /\ Rising(z, Num) /\ WB' = {}
  BY <1>2, EmptyRising DEF WB
<1> HIDE DEF no, z
<1>5. recv' \in RecvState /\ recv'.pc = "gone" /\ recv'.reading = NoChunk
      /\ recv'.epoch = recv.epoch
  BY <1>2 DEF RecvState
<1>6. task' \in TaskState /\ task'.pc = "gone"
  BY <1>2 DEF TaskState
<1>7. inbound' \in InboxOf(Item) /\ inbound'.queue = <<>> /\ inbound'.held = NoChunk
  BY <1>1, <1>2, PlaceTypes, TakenOf
<1>8. /\ HistoryOK' /\ history'.onWire = history.onWire \cup WB
      /\ history'.reader = history.reader \cup RA
      /\ history'.late = history.late /\ history'.stale = history.stale
  BY <1>1, <1>2, LostFacts
<1>9. /\ ledger' \in [Counter -> SUBSET Chunk] /\ ledger'.tornA = ledger.tornA \cup (QA \cup HA)
      /\ \A k \in Counter : k # "tornA" => ledger'[k] = ledger[k]
  <2>1. "tornA" \in Counter /\ QA \cup HA \in SUBSET Chunk
    BY <1>1, PlaceTypes DEF Counter
  <2> QED BY <1>1, <1>3, <2>1, ChargeFacts
<1>10. /\ ledger'.wrote = ledger.wrote /\ ledger'.purgedB = ledger.purgedB
       /\ ledger'.peerGone = ledger.peerGone /\ ledger'.tornB = ledger.tornB
       /\ ledger'.purgedA = ledger.purgedA /\ ledger'.discardedA = ledger.discardedA
  BY <1>9 DEF Counter
<1>11. /\ RA' = {} /\ Hand(recv.reading)' = {} /\ HA' = {} /\ QA' = {}
       /\ HeldChunk(inbound)' = {} /\ Rising(inbound'.queue, Key)
       /\ DA' = DA /\ AtA' = AtA \cup QA \cup HA /\ DoneA' = DoneA \cup QA \cup HA
       /\ QB' = QB /\ FB' = FB /\ AtB' = AtB
  BY <1>2, <1>5, <1>7, <1>9, <1>10, HandNothing, EmptyRising
     DEF RA, HA, QA, HeldChunk, Items, DA, AtA, AtB, DoneA, QB, FB
<1>12. LinkTypes'
  BY <1>1, <1>2, <1>4, <1>5, <1>6, <1>7, <1>8, <1>9 DEF LinkTypes, LinkTypeOK, HistoryOK, InboxOf
<1>13. AInv'
  <2>1. Before(DA, QA) /\ Before(DA, HA)
    BY <1>1 DEF AInv, Before, DoneA
  <2>2. QA \in SUBSET Nat /\ HA \in SUBSET Nat
    BY <1>1, PlaceTypes
  <2>3. QA \cap DA = {} /\ HA \cap DA = {}
    BY <2>1, <2>2, BeforeDisjoint
  <2> QED BY <1>1, <1>2, <1>4, <1>10, <1>11, <2>3 DEF AInv, Before
<1>14. EpochInv'
  <2>1. UpTo(inbound'.queue, recv.epoch)
    BY <1>7 DEF UpTo
  <2> QED BY <1>1, <1>5, <1>6, <1>8, <1>11, <2>1 DEF EpochInv
<1>15. TaskInv'
  BY <1>6, <1>7 DEF TaskInv
<1>16. BInv' /\ FatesB' /\ StaleInv' /\ LateAtMostOnce'
  BY <1>1, <1>2, <1>8, <1>10, BFrame DEF StaleInv, LateAtMostOnce
<1>17. NoneLost'
  BY <1>1, <1>2, <1>4, <1>8, <1>11 DEF NoneLost, Somewhere
<1> QED BY <1>12, <1>13, <1>14, <1>15, <1>16, <1>17 DEF LinkInv

-----------------------------------------------------------------------------
(* Computer A: the channel task *)

\* The task has command x in hand, with b what its queue is then.
InHand(x, b) ==
    /\ b \in InboxOf(Item) /\ x \in Item /\ b.held = x
    /\ Rising(b.queue, Key)
    /\ QA \cup HA = Keys(b.queue, Key) \cup {x.chunk}
    /\ Before(DoneA, {x.chunk}) /\ Before(DoneA \cup {x.chunk}, Keys(b.queue, Key))
    /\ UpTo(b.queue, recv.epoch) /\ x.epoch <= recv.epoch

\* A turn takes the oldest command ...
LEMMA TurnInHand ==
    ASSUME LinkInv, task.pc \in {"drain", "free", "held"}, inbound.queue # <<>>
    PROVE  InHand(Head(inbound.queue), PollRecv(inbound))
<1> DEFINE q == inbound.queue
           x == Head(q)
           t == Tail(q)
           b == PollRecv(inbound)
<1>1. LinkTypes /\ AInv /\ TaskInv /\ EpochInv
  BY DEF LinkInv
<1>2. inbound \in InboxOf(Item) /\ q \in Seq(Item) /\ Rising(q, Key) /\ Key \in [Item -> Nat]
      /\ recv.epoch \in Nat
  BY <1>1, PlaceTypes, KeyTypes, MaxEpochAssumption DEF AInv, RecvState
<1>3. b \in InboxOf(Item) /\ b.queue = t /\ b.held = x
  BY <1>2, PollOf
<1>4. /\ x \in Item /\ t \in Seq(Item) /\ Rising(t, Key)
      /\ Keys(q, Key) = {Key[x]} \cup Keys(t, Key)
      /\ Before({Key[x]}, Keys(t, Key))
  BY <1>2, RisingHead
<1>5. UpTo(t, recv.epoch) /\ x.epoch <= recv.epoch
  BY <1>1, <1>2, UpToSteps DEF EpochInv
<1> HIDE DEF x, t, b
<1>6. Key[x] = x.chunk
  BY <1>4, HandItem
<1>7. HA = {}
  BY <1>1 DEF TaskInv, HA, HeldChunk, Items
<1>8. QA = {x.chunk} \cup Keys(t, Key) /\ Before({x.chunk}, Keys(t, Key))
  BY <1>4, <1>6 DEF QA
<1>9. Before(DoneA, {x.chunk}) /\ Before(DoneA \cup {x.chunk}, Keys(t, Key))
  BY <1>1, <1>8 DEF AInv, Before
<1>10. InHand(x, b)
  BY <1>3, <1>4, <1>5, <1>7, <1>8, <1>9 DEF InHand
<1> QED BY <1>10 DEF x, b

\* ... and keeps it through the wait for the floor and the send.
LEMMA WaitInHand ==
    ASSUME LinkInv, task.pc \in {"acquire", "sending"}
    PROVE  InHand(x0, inbound)
<1>1. LinkTypes /\ AInv /\ TaskInv /\ EpochInv
  BY DEF LinkInv
<1>2. inbound \in InboxOf(Item) /\ x0 \in Item
  BY <1>1, PlaceTypes DEF TaskInv, InboxOf, x0
<1>3. HeldChunk(inbound) = Hand(x0)
  BY DEF HeldChunk, Hand, x0
<1>4. HA = {x0.chunk} /\ x0 \in HeldChunk(inbound)
  BY <1>2, <1>3, HandItem DEF HA
<1>5. x0.epoch <= recv.epoch
  BY <1>1, <1>4 DEF EpochInv
<1> QED BY <1>1, <1>2, <1>4, <1>5 DEF InHand, AInv, EpochInv, QA, x0

\* The command stays in hand.
LEMMA KeptInv ==
    ASSUME LinkInv, NEW x, NEW b, InHand(x, b), inbound' = b,
           UNCHANGED <<send, outbox, wire, cut, recv, edge, dead, ledger, accepted,
                       delivered, history>>,
           floor' \in {"free", "ours", "other"},
           task' \in TaskState, task'.pc \in {"acquire", "sending"},
           Purge /\ task'.pc = "sending" => x.epoch = recv.epoch
    PROVE  LinkInv'
<1>1. /\ LinkTypes /\ BInv /\ FatesB /\ AInv /\ TaskInv /\ EpochInv /\ StaleInv
      /\ NoneLost /\ LateAtMostOnce
  BY DEF LinkInv
<1>2. x \in Item /\ b \in InboxOf(Item) /\ b.held = x /\ x # NoChunk
  BY HandItem DEF InHand
<1>3. HeldChunk(inbound)' = {x} /\ HA' = {x.chunk} /\ QA' = Keys(b.queue, Key)
  BY <1>2 DEF HeldChunk, HA, Items, QA
<1>4. /\ WB' = WB /\ RA' = RA /\ DA' = DA /\ AtA' = AtA /\ DoneA' = DoneA
      /\ QB' = QB /\ FB' = FB /\ AtB' = AtB
  BY DEF WB, RA, DA, AtA, AtB, DoneA, QB, FB
<1>5. QA \cup HA = QA' \cup HA'
  BY <1>3 DEF InHand
<1>6. LinkTypes'
  BY <1>1, <1>2 DEF LinkTypes, LinkTypeOK, InboxOf
<1>7. AInv'
  <2>1. Before((DoneA \cup HA \cup QA)', RA') /\ Before((DoneA \cup HA \cup QA \cup RA)', WB')
    BY <1>1, <1>4, <1>5 DEF AInv, Before
  <2>2. (DoneA \cup HA \cup QA \cup RA \cup WB)' \subseteq ledger.wrote
    BY <1>1, <1>4, <1>5 DEF AInv
  <2> QED BY <1>1, <1>3, <1>4, <2>1, <2>2 DEF AInv, InHand
<1>8. TaskInv'
  BY <1>2 DEF TaskInv
<1>9. EpochInv'
  <2>1. \A y \in history.late : y.epoch \in Nat
    BY <1>1, MaxEpochAssumption DEF LinkTypes, LinkTypeOK, History, Item
  <2>2. recv.epoch \in Nat
    BY <1>1, PlaceTypes, MaxEpochAssumption DEF RecvState
  <2>3. ASSUME Purge, task'.pc = "sending", NEW y \in history.late PROVE y.epoch # x.epoch
    <3>1. y.epoch < recv.epoch
      BY <1>1, <2>3 DEF EpochInv
    <3> QED BY <2>1, <2>2, <2>3, <3>1
  <2> QED BY <1>1, <1>2, <1>3, <2>3 DEF EpochInv, InHand
<1>10. BInv' /\ FatesB' /\ StaleInv' /\ LateAtMostOnce'
  BY <1>1, BFrame DEF StaleInv, LateAtMostOnce
<1>11. NoneLost'
  BY <1>1, <1>4, <1>5 DEF NoneLost, Somewhere
<1> QED BY <1>6, <1>7, <1>8, <1>9, <1>10, <1>11 DEF LinkInv

\* The task is done with the command: one of A's counters or the endpoint has it.
LEMMA SettledInv ==
    ASSUME LinkInv, NEW x, NEW b, InHand(x, b), inbound' = SettleHeld(b),
           UNCHANGED <<send, outbox, wire, cut, recv, edge, dead, accepted>>,
           floor' \in {"free", "ours", "other"},
           task' \in TaskState, task'.pc \in {"drain", "free", "held"},
           ledger' \in [Counter -> SUBSET Chunk],
           \A k \in {"wrote", "purgedB", "peerGone", "tornB"} : ledger'[k] = ledger[k],
           delivered' \in Seq(Chunk), Rising(delivered', Num),
           \/ AtA' = AtA \cup {x.chunk} /\ DA' = DA
           \/ AtA' = AtA /\ DA' = DA \cup {x.chunk},
           HistoryOK', history'.stale = history.stale, history'.onWire = history.onWire,
           history'.reader = history.reader,
           Purge => /\ \A y \in history'.late : y.epoch < recv.epoch
                    /\ LateAtMostOnce'
    PROVE  LinkInv'
<1>1. /\ LinkTypes /\ BInv /\ FatesB /\ AInv /\ TaskInv /\ EpochInv /\ StaleInv
      /\ NoneLost /\ LateAtMostOnce
  BY DEF LinkInv
<1>2. x \in Item /\ b \in InboxOf(Item) /\ b.held = x /\ x.chunk \in Nat
  BY HandItem, CommandsAssumption DEF InHand
<1>3. inbound' \in InboxOf(Item) /\ inbound'.queue = b.queue /\ inbound'.held = NoChunk
  BY <1>2, SettleOf
<1>4. HeldChunk(inbound)' = {} /\ HA' = {} /\ QA' = Keys(b.queue, Key)
  BY <1>3 DEF HeldChunk, HA, Items, QA
<1>5. ledger'.wrote = ledger.wrote /\ ledger'.purgedB = ledger.purgedB
      /\ ledger'.peerGone = ledger.peerGone /\ ledger'.tornB = ledger.tornB
  OBVIOUS
<1>6. /\ WB' = WB /\ RA' = RA /\ DoneA' = DoneA \cup {x.chunk}
      /\ QB' = QB /\ FB' = FB /\ AtB' = AtB
  BY <1>5 DEF WB, RA, DoneA, QB, FB, AtB
<1>7. DoneA' \cup QA' = DoneA \cup HA \cup QA
  BY <1>4, <1>6 DEF InHand
<1>8. LinkTypes'
  BY <1>1, <1>3 DEF LinkTypes, LinkTypeOK, HistoryOK, InboxOf
<1>9. AInv'
  <2>1. Before((DoneA \cup HA \cup QA)', RA') /\ Before((DoneA \cup HA \cup QA \cup RA)', WB')
    BY <1>1, <1>4, <1>6, <1>7 DEF AInv, Before
  <2>2. (DoneA \cup HA \cup QA \cup RA \cup WB)' \subseteq ledger.wrote
    BY <1>1, <1>4, <1>6, <1>7 DEF AInv
  <2>3. Before(DoneA', QA')
    BY <1>4, <1>6 DEF InHand, Before
  <2>4. {x.chunk} \cap DoneA = {}
    BY <1>2, BeforeDisjoint DEF InHand
  <2>5. (DA \cap AtA)' = {}
    BY <1>1, <2>4 DEF AInv, DoneA
  <2> QED BY <1>1, <1>3, <1>4, <1>5, <2>1, <2>2, <2>3, <2>5 DEF AInv, InHand, Before
<1>10. TaskInv'
  BY <1>3 DEF TaskInv
<1>11. EpochInv'
  <2>1. task'.pc # "sending"
    OBVIOUS
  <2> QED BY <1>1, <1>3, <1>4, <2>1 DEF EpochInv, InHand
<1>12. LateAtMostOnce'
  BY DEF LateAtMostOnce
<1>13. BInv' /\ FatesB' /\ StaleInv'
  BY <1>1, <1>5, BFrame DEF StaleInv
<1>14. NoneLost'
  BY <1>1, <1>6, <1>7 DEF NoneLost, Somewhere, DoneA
<1> QED BY <1>8, <1>9, <1>10, <1>11, <1>12, <1>13, <1>14 DEF LinkInv

\* The top of the loop waits for a command.
LEMMA LoopTopFacts ==
    ASSUME LinkTypes, NEW o \in Edge \cup {NoEdge}, LoopTop(o)
    PROVE  task' \in TaskState /\ task'.pc \in {"drain", "free", "held"}
<1> DEFINE h == IF o = edge THEN o ELSE NoEdge
           p == IF edge = NoEdge THEN "drain" ELSE IF h = NoEdge THEN "free" ELSE "held"
           no == FALSE
<1>1. task' = [pc |-> p, binding |-> edge, holding |-> h, pulse |-> no]
  BY DEF LoopTop
<1>2. h \in Edge \cup {NoEdge} /\ p \in {"drain", "free", "held"} /\ no \in BOOLEAN
      /\ edge \in Edge \cup {NoEdge}
  BY DEF LinkTypes, LinkTypeOK
<1> HIDE DEF h, p, no
<1> QED BY <1>1, <1>2 DEF TaskState

\* A release leaves the floor in its type.
LEMMA ReleasedType ==
    ASSUME LinkTypes
    PROVE  Released \in {"free", "ours", "other"}
BY DEF LinkTypes, LinkTypeOK, Released

\* The command goes to one of A's counters.
LEMMA FinishInv ==
    ASSUME LinkInv, NEW x, NEW b, InHand(x, b), NEW k \in {"purgedA", "discardedA"},
           Finish(k, x, b),
           UNCHANGED <<send, outbox, wire, cut, recv, edge, dead, accepted, delivered>>,
           floor' \in {"free", "ours", "other"},
           HistoryOK', \A d \in History : d # "missed" => history'[d] = history[d]
    PROVE  LinkInv'
<1>1. LinkTypes /\ AInv /\ EpochInv /\ LateAtMostOnce
  BY DEF LinkInv
<1>2. Charge(k, {x.chunk}) /\ inbound' = SettleHeld(b) /\ LoopTop(NoEdge)
  BY DEF Finish
<1>3. task' \in TaskState /\ task'.pc \in {"drain", "free", "held"}
  BY <1>1, <1>2, LoopTopFacts
<1>4. k \in Counter /\ {x.chunk} \in SUBSET Chunk
  BY HandItem DEF Counter, InHand
<1>5. /\ ledger' \in [Counter -> SUBSET Chunk] /\ ledger'[k] = ledger[k] \cup {x.chunk}
      /\ \A d \in Counter : d # k => ledger'[d] = ledger[d]
  BY <1>1, <1>2, <1>4, ChargeFacts
<1>6. \A d \in {"wrote", "purgedB", "peerGone", "tornB"} : ledger'[d] = ledger[d]
  BY <1>5 DEF Counter
<1>7. AtA' = AtA \cup {x.chunk}
  <2>1. CASE k = "purgedA"
    BY <1>5, <2>1 DEF AtA, Counter
  <2>2. CASE k = "discardedA"
    BY <1>5, <2>2 DEF AtA, Counter
  <2> QED BY <2>1, <2>2
<1>8. DA' = DA /\ delivered' \in Seq(Chunk) /\ Rising(delivered', Num)
  BY <1>1, PlaceTypes DEF DA, AInv
<1>9. /\ history'.stale = history.stale /\ history'.onWire = history.onWire
      /\ history'.reader = history.reader /\ history'.late = history.late
  BY DEF History
<1>10. Purge => /\ \A y \in history'.late : y.epoch < recv.epoch
                /\ LateAtMostOnce'
  BY <1>1, <1>9 DEF EpochInv, LateAtMostOnce
<1> QED BY <1>2, <1>3, <1>5, <1>6, <1>7, <1>8, <1>9, <1>10, SettledInv

\* An unchanged history keeps its type.
LEMMA SameHistory == ASSUME LinkTypes, UNCHANGED history PROVE HistoryOK'
BY DEF LinkTypes, LinkTypeOK, HistoryOK

\* Without an edge the command is discarded, and counted.
LEMMA RefuseInv ==
    ASSUME LinkInv, NEW x, NEW b, InHand(x, b), Refuse(x, b),
           UNCHANGED <<send, outbox, wire, cut, recv, edge, dead, accepted, delivered>>
    PROVE  LinkInv'
<1>1. LinkTypes /\ floor \in {"free", "ours", "other"}
  BY DEF LinkInv, LinkTypes, LinkTypeOK
<1>2. Finish("discardedA", x, b) /\ floor' = floor
      /\ (Note("missed", {x.chunk}) \/ UNCHANGED history)
  BY DEF Refuse
<1>3. HistoryOK' /\ \A d \in History : d # "missed" => history'[d] = history[d]
  <2>1. CASE Note("missed", {x.chunk})
    <3>1. "missed" \in History /\ {x.chunk} \subseteq Chunk
      BY HandItem DEF History, InHand
    <3> QED BY <1>1, <2>1, <3>1, NoteFacts
  <2>2. CASE UNCHANGED history
    BY <1>1, <2>2, SameHistory
  <2> QED BY <1>2, <2>1, <2>2
<1> QED BY <1>1, <1>2, <1>3, FinishInv

\* Who has the floor and looks at the epoch once more sends under its own tag.
LEMMA AcquireInv ==
    ASSUME LinkInv, NEW x, NEW b, InHand(x, b), Acquire(x, b),
           UNCHANGED <<send, outbox, wire, cut, recv, edge, dead, accepted, delivered>>
    PROVE  LinkInv'
<1>1. LinkTypes /\ floor \in {"free", "ours", "other"} /\ task \in TaskState
  BY PlaceTypes DEF LinkInv, LinkTypes, LinkTypeOK
<1>2. CASE Refuse(x, b)
  BY <1>2, RefuseInv
<1>3. CASE Granted(x, b) /\ Stale(x)
  <2>1. Finish("purgedA", x, b) /\ floor' = "free" /\ UNCHANGED history
    BY <1>3 DEF Granted
  <2> QED BY <1>1, <2>1, SameHistory, FinishInv
<1>4. CASE Granted(x, b) /\ ~Stale(x)
  <2> DEFINE no == FALSE
             e == task.binding
  <2>1. /\ floor' = "ours" /\ inbound' = b /\ UNCHANGED <<ledger, history>>
        /\ task' = [task EXCEPT !.pc = "sending", !.holding = e, !.pulse = no]
        /\ no \in BOOLEAN /\ e \in Edge \cup {NoEdge}
    BY <1>1, <1>4 DEF Granted, TaskState
  <2> HIDE DEF no, e
  <2>2. task' \in TaskState /\ task'.pc = "sending"
    BY <1>1, <2>1 DEF TaskState
  <2>3. Purge => x.epoch = recv.epoch
    BY <1>4 DEF Stale, Tag
  <2> QED BY <2>1, <2>2, <2>3, KeptInv
<1>5. CASE /\ inbound' = b
           /\ task' = [task EXCEPT !.pc = "acquire", !.pulse = FALSE]
           /\ UNCHANGED <<floor, ledger, history>>
  <2> DEFINE no == FALSE
  <2>1. no \in BOOLEAN /\ task' = [task EXCEPT !.pc = "acquire", !.pulse = no]
    BY <1>5
  <2> HIDE DEF no
  <2>2. task' \in TaskState /\ task'.pc = "acquire"
    BY <1>1, <2>1 DEF TaskState
  <2> QED BY <1>1, <1>5, <2>2, KeptInv
<1> QED BY <1>2, <1>3, <1>4, <1>5 DEF Acquire

\* A command is received: refused, purged, or the floor is asked for.
LEMMA TurnInv == ASSUME LinkInv, Turn PROVE LinkInv'
<1> DEFINE x == Head(inbound.queue)
           b == PollRecv(inbound)
<1>1. /\ task.pc \in {"drain", "free", "held"} /\ inbound.queue # <<>>
      /\ \/ Refuse(x, b)
         \/ Finish("purgedA", x, b) /\ floor' = Released /\ UNCHANGED history
         \/ Acquire(x, b)
      /\ UNCHANGED <<send, outbox, wire, cut, recv, edge, dead, accepted, delivered>>
  BY DEF Turn, B
<1>2. InHand(x, b) /\ LinkTypes
  BY <1>1, TurnInHand DEF LinkInv
<1> HIDE DEF x, b
<1>3. CASE Refuse(x, b)
  BY <1>1, <1>2, <1>3, RefuseInv
<1>4. CASE Finish("purgedA", x, b) /\ floor' = Released /\ UNCHANGED history
  BY <1>1, <1>2, <1>4, SameHistory, ReleasedType, FinishInv
<1>5. CASE Acquire(x, b)
  BY <1>1, <1>2, <1>5, AcquireInv
<1> QED BY <1>1, <1>3, <1>4, <1>5

\* The wait for the floor ends.
LEMMA AcquireWakesInv == ASSUME LinkInv, AcquireWakes PROVE LinkInv'
<1>1. InHand(x0, inbound)
  BY WaitInHand DEF AcquireWakes
<1> QED BY <1>1, AcquireInv DEF AcquireWakes, B

\* A failed or cancelled send goes to a counter.
LEMMA SendEndsInv ==
    ASSUME LinkInv, SendFails \/ SendCancelled
    PROVE  LinkInv'
<1>1. InHand(x0, inbound) /\ LinkTypes
  BY WaitInHand DEF SendFails, SendCancelled, LinkInv
<1>2. /\ floor' = Released
      /\ Finish("discardedA", x0, inbound) \/ Finish("purgedA", x0, inbound)
      /\ UNCHANGED <<send, outbox, wire, cut, recv, edge, dead, accepted, delivered, history>>
  BY DEF SendFails, SendCancelled, B, past
<1> QED BY <1>1, <1>2, SameHistory, ReleasedType, FinishInv

\* The command in hand comes after all that was delivered; when its connection
\* is gone it is the only one of that connection.
LEMMA SendDoneInv == ASSUME LinkInv, SendDone PROVE LinkInv'
<1> DEFINE x == x0
           c == x.chunk
           gone == x.epoch # recv.epoch
<1>1. LinkTypes /\ AInv /\ EpochInv /\ LateAtMostOnce
  BY DEF LinkInv
<1>2. /\ task.pc = "sending" /\ delivered' = Append(delivered, c)
      /\ IF gone THEN Note("late", {x}) ELSE UNCHANGED history
      /\ floor' = IF gone THEN Released ELSE floor
      /\ inbound' = SettleHeld(inbound)
      /\ LoopTop(IF gone THEN NoEdge ELSE task.holding)
      /\ UNCHANGED <<send, outbox, wire, cut, recv, edge, dead, ledger, accepted>>
  BY DEF SendDone, B
<1>3. InHand(x, inbound)
  BY <1>2, WaitInHand
<1>4. task' \in TaskState /\ task'.pc \in {"drain", "free", "held"}
  <2> DEFINE o == IF gone THEN NoEdge ELSE task.holding
  <2>1. o \in Edge \cup {NoEdge}
    BY <1>1, PlaceTypes DEF TaskState
  <2> HIDE DEF o
  <2> QED BY <1>1, <1>2, <2>1, LoopTopFacts DEF o
<1>5. floor' \in {"free", "ours", "other"}
  BY <1>1, <1>2, ReleasedType DEF LinkTypes, LinkTypeOK
<1>6. x \in Item /\ c \in Chunk /\ x.epoch \in Nat /\ recv.epoch \in Nat /\ x.epoch <= recv.epoch
      /\ x = inbound.held
  BY <1>1, <1>3, HandItem, PlaceTypes, MaxEpochAssumption DEF InHand, RecvState, x0
<1> HIDE DEF x, c
<1>7. delivered' \in Seq(Chunk) /\ Rising(delivered', Num) /\ DA' = DA \cup {c}
  <2>1. delivered \in Seq(Chunk) /\ Rising(delivered, Num) /\ Num \in [Chunk -> Nat] /\ Num[c] = c
    BY <1>1, <1>6, PlaceTypes, KeyTypes DEF AInv, Num
  <2>2. Before(DA, {c})
    BY <1>3 DEF InHand, Before, DoneA, c
  <2>3. Before(Keys(delivered, Num), {Num[c]})
    BY <2>1, <2>2 DEF DA
  <2>4. /\ Append(delivered, c) \in Seq(Chunk) /\ Rising(Append(delivered, c), Num)
        /\ Keys(Append(delivered, c), Num) = Keys(delivered, Num) \cup {Num[c]}
    BY <1>6, <2>1, <2>3, RisingAppend, SMTT(40)
  <2> QED BY <1>2, <2>1, <2>4 DEF DA
<1>8. /\ HistoryOK' /\ \A d \in History : d # "late" => history'[d] = history[d]
      /\ \/ history'.late = history.late
         \/ gone /\ history'.late = history.late \cup {x}
  <2>1. CASE gone
    <3>1. "late" \in History /\ {x} \subseteq Item /\ Note("late", {x})
      BY <1>2, <1>6, <2>1 DEF History
    <3> QED BY <1>1, <2>1, <3>1, NoteFacts
  <2>2. CASE ~gone
    BY <1>1, <1>2, <2>2, SameHistory
  <2> QED BY <2>1, <2>2
<1>9. /\ history'.stale = history.stale /\ history'.onWire = history.onWire
      /\ history'.reader = history.reader
  BY <1>8 DEF History
<1>10. Purge => /\ \A y \in history'.late : y.epoch < recv.epoch
                /\ LateAtMostOnce'
  <2> SUFFICES ASSUME Purge
               PROVE  /\ \A y \in history'.late : y.epoch < recv.epoch
                      /\ LateAtMostOnce'
    OBVIOUS
  <2>1. /\ \A y \in history.late : y.epoch < recv.epoch
        /\ \A y \in history.late : y.epoch # x.epoch
        /\ \A y, z \in history.late : y.epoch = z.epoch => y = z
    BY <1>1, <1>2, <1>6 DEF EpochInv, LateAtMostOnce
  <2>2. gone => x.epoch < recv.epoch
    BY <1>6
  <2> QED BY <1>8, <2>1, <2>2 DEF LateAtMostOnce
<1>11. ledger' \in [Counter -> SUBSET Chunk] /\ AtA' = AtA
       /\ \A d \in {"wrote", "purgedB", "peerGone", "tornB"} : ledger'[d] = ledger[d]
  BY <1>1, <1>2, PlaceTypes DEF AtA
<1>12. DA' = DA \cup {x.chunk}
  BY <1>7 DEF c
<1> QED BY <1>2, <1>3, <1>4, <1>5, <1>7, <1>8, <1>9, <1>10, <1>11, <1>12, SettledInv
-----------------------------------------------------------------------------
(* Computer A: the graph, the floor *)

\* A step that moves no command.
LEMMA GraphStepInv ==
    ASSUME LinkInv, UNCHANGED <<send, outbox, wire, cut, recv, inbound, ledger, accepted,
                                delivered, history>>,
           task' \in TaskState,
           task'.pc = task.pc \/ {task.pc, task'.pc} \subseteq {"drain", "free", "held"},
           edge' \in Edge \cup {NoEdge}, dead' \subseteq Edge,
           floor' \in {"free", "ours", "other"}
    PROVE  LinkInv'
<1>1. /\ LinkTypes /\ BInv /\ FatesB /\ AInv /\ TaskInv /\ EpochInv /\ StaleInv
      /\ NoneLost /\ LateAtMostOnce
  BY DEF LinkInv
<1>2. LinkTypes'
  BY <1>1 DEF LinkTypes, LinkTypeOK
<1>3. BInv' /\ FatesB' /\ AInv' /\ StaleInv' /\ LateAtMostOnce'
  BY <1>1, BFrame, AFrame DEF StaleInv, LateAtMostOnce
<1>4. TaskInv'
  BY <1>1 DEF TaskInv
<1>5. EpochInv'
  BY <1>1 DEF EpochInv, HeldChunk, Hand
<1>6. NoneLost'
  BY <1>1 DEF NoneLost, Somewhere, QB, FB, WB, RA, QA, HA, DA, AtA, AtB, HeldChunk
<1> QED BY <1>2, <1>3, <1>4, <1>5, <1>6 DEF LinkInv

\* The task gives the floor back.
LEMMA YieldInv == ASSUME LinkInv, Yield PROVE LinkInv'
<1>1. LinkTypes /\ edge \in Edge \cup {NoEdge} /\ dead \subseteq Edge
  BY DEF LinkInv, LinkTypes, LinkTypeOK
<1>2. /\ task.pc = "held" /\ floor' = Released /\ LoopTop(NoEdge)
      /\ UNCHANGED <<send, outbox, wire, cut, recv, inbound, edge, dead, ledger, accepted,
                     delivered, history>>
  BY DEF Yield, B, past
<1>3. task' \in TaskState /\ task'.pc \in {"drain", "free", "held"}
  BY <1>1, <1>2, LoopTopFacts
<1> QED BY <1>1, <1>2, <1>3, ReleasedType, GraphStepInv

\* connect, disconnect, and other writers of A's endpoint.
LEMMA AroundInv ==
    ASSUME LinkInv,
           \/ \E e \in Edge : Attach(e)
           \/ \E removed \in BOOLEAN : Detach(removed)
           \/ Rival
    PROVE  LinkInv'
<1>1. LinkTypes /\ edge \in Edge \cup {NoEdge} /\ dead \subseteq Edge /\ task \in TaskState
  BY PlaceTypes DEF LinkInv, LinkTypes, LinkTypeOK
<1>2. UNCHANGED <<send, outbox, wire, cut, recv, inbound, task, ledger, accepted,
                  delivered, history>>
  BY DEF Attach, Detach, Rival, A, B, past
<1>3. /\ edge' \in Edge \cup {NoEdge} /\ dead' \subseteq Edge
      /\ floor' \in {"free", "ours", "other"}
  BY <1>1 DEF Attach, Detach, Rival
<1> QED BY <1>1, <1>2, <1>3, GraphStepInv

-----------------------------------------------------------------------------
(* The theorems *)

\* Two legs that never met.
LEMMA LinkInitInv == LinkInit => LinkInv
<1> SUFFICES ASSUME LinkInit PROVE LinkInv
  OBVIOUS
<1> DEFINE yes == TRUE
           no == FALSE
           z == <<>>
<1>1. /\ outbox = [open |-> yes, queue |-> z, held |-> NoChunk, waiting |-> z, granted |-> {}]
      /\ inbound = [open |-> yes, queue |-> z, held |-> NoChunk, waiting |-> z, granted |-> {}]
      /\ send = [pc |-> "down", bound |-> no, flight |-> NoChunk, before |-> no, rounds |-> 0]
      /\ recv = [pc |-> "down", epoch |-> 0, reading |-> NoChunk]
      /\ task = [pc |-> "drain", binding |-> NoEdge, holding |-> NoEdge, pulse |-> no]
      /\ wire = z /\ delivered = z
  BY DEF LinkInit, NewInbox
<1>2. /\ yes \in BOOLEAN /\ no \in BOOLEAN
      /\ \A k \in {Num, Key} : Rising(z, k) /\ Keys(z, k) = {}
      /\ z \in Seq(Chunk) /\ z \in Seq(Item) /\ z \in {<<>>} /\ UpTo(z, 0)
  BY EmptyRising DEF UpTo
<1> HIDE DEF yes, no, z
<1>3. /\ outbox \in InboxOf(Chunk) /\ inbound \in InboxOf(Item)
      /\ outbox.queue = z /\ inbound.queue = z /\ outbox.held = NoChunk /\ inbound.held = NoChunk
  BY <1>1, <1>2 DEF InboxOf
<1>4. 0 \in 0 .. PurgeRounds /\ 0 \in 0 .. MaxEpoch /\ 0 \in 0 .. Commands /\ 1 .. 0 = {}
  BY PurgeAssumption, MaxEpochAssumption, CommandsAssumption
<1>5. send \in SendState /\ send.pc = "down" /\ send.flight = NoChunk
  BY <1>1, <1>2, <1>4 DEF SendState
<1>6. recv \in RecvState /\ recv.pc = "down" /\ recv.reading = NoChunk /\ recv.epoch = 0
  BY <1>1, <1>4 DEF RecvState
<1>7. task \in TaskState /\ task.pc = "drain"
  BY <1>1, <1>2 DEF TaskState
<1>8. ledger \in [Counter -> SUBSET Chunk] /\ \A k \in Counter : ledger[k] = {}
  BY DEF LinkInit
<1>9. HistoryOK /\ \A k \in History : history[k] = {}
  BY DEF LinkInit, HistoryOK
<1>10. /\ QB = {} /\ FB = {} /\ WB = {} /\ RA = {} /\ QA = {} /\ HA = {} /\ DA = {}
       /\ HeldChunk(outbox) = {} /\ HeldChunk(inbound) = {} /\ Hand(recv.reading) = {}
  BY <1>1, <1>2, <1>3, <1>5, <1>6, HandNothing DEF QB, FB, WB, RA, QA, HA, DA, HeldChunk, Hand, Items
<1>11. /\ ledger.wrote = {} /\ ledger.purgedB = {} /\ ledger.peerGone = {} /\ ledger.tornB = {}
       /\ AtA = {}
  BY <1>8 DEF Counter, AtA
<1>12. history.late = {} /\ history.stale = {}
  BY <1>9 DEF History
<1>13. LinkTypes
  BY <1>1, <1>2, <1>3, <1>4, <1>5, <1>6, <1>7, <1>8, <1>9, InboxOfChunks
     DEF LinkInit, LinkTypes, LinkTypeOK, HistoryOK, InboxOf
<1>14. BInv /\ FatesB
  BY <1>2, <1>3, <1>5, <1>10, <1>11 DEF BInv, FatesB, Before, GoneB, AtB
<1>15. AInv
  BY <1>1, <1>2, <1>3, <1>10, <1>11 DEF AInv, Before, DoneA
<1>16. TaskInv /\ EpochInv /\ StaleInv /\ LateAtMostOnce
  BY <1>2, <1>3, <1>6, <1>7, <1>10, <1>12 DEF TaskInv, EpochInv, StaleInv, LateAtMostOnce
<1>17. NoneLost
  BY <1>4 DEF LinkInit, NoneLost
<1> QED BY <1>13, <1>14, <1>15, <1>16, <1>17 DEF LinkInv

\* Every step keeps the link in order.
LEMMA LinkNextInv == ASSUME LinkInv, [LinkNext]_vars PROVE LinkInv'
<1>1. CASE Write
  BY <1>1, WriteInv
<1>2. CASE PurgeResumes
  BY <1>2, PurgeResumesInv
<1>3. CASE NextSend
  BY <1>3, NextSendInv
<1>4. CASE WireWrite
  BY <1>4, WireWriteInv
<1>5. CASE SendDrops
  BY <1>5, SendDropsInv
<1>6. CASE SendStops
  BY <1>6, SendStopsInv
<1>7. CASE \E announced \in BOOLEAN : Establish(announced)
  BY <1>7, EstablishInv
<1>8. CASE \E n \in 0 .. Len(wire) : Break(n)
  BY <1>8, BreakInv
<1>9. CASE Read
  BY <1>9, ReadInv
<1>10. CASE ReadLands
  BY <1>10, ReadLandsInv
<1>11. CASE RecvDrops
  BY <1>11, RecvDropsInv
<1>12. CASE RecvStops
  BY <1>12, RecvStopsInv
<1>13. CASE TaskStep
  BY <1>13, TurnInv, AcquireWakesInv, SendEndsInv, YieldInv DEF TaskStep, PulseSeen
<1>14. CASE SendDone
  BY <1>14, SendDoneInv
<1>15. CASE SendFails
  BY <1>15, SendEndsInv
<1>16. CASE Yield
  BY <1>16, YieldInv
<1>17. CASE \/ \E e \in Edge : Attach(e)
            \/ \E removed \in BOOLEAN : Detach(removed)
            \/ Rival
  BY <1>17, AroundInv
<1>18. CASE UNCHANGED vars
  <2>1. UNCHANGED <<send, outbox, wire, cut, recv, inbound, task, edge, dead, floor,
                    ledger, accepted, delivered, history>>
    BY <1>18 DEF vars, graph, past
  <2>2. task \in TaskState /\ edge \in Edge \cup {NoEdge} /\ dead \subseteq Edge
        /\ floor \in {"free", "ours", "other"}
    BY DEF LinkInv, LinkTypes, LinkTypeOK
  <2> QED BY <2>1, <2>2, GraphStepInv
<1> QED BY <1>1, <1>2, <1>3, <1>4, <1>5, <1>6, <1>7, <1>8, <1>9, <1>10, <1>11, <1>12,
           <1>13, <1>14, <1>15, <1>16, <1>17, <1>18 DEF LinkNext

\* The places of the link stay in order, whatever breaks or stops when: nothing at
\* a place of leg.rs was written before what is further along, and every command
\* is at a place or was charged where it was dropped.
THEOREM LinkInvariance == LinkSpec => []LinkInv
<1>1. LinkInit => LinkInv
  BY LinkInitInv
<1>2. LinkInv /\ [LinkNext]_vars => LinkInv'
  BY LinkNextInv
<1> QED BY <1>1, <1>2, PTL DEF LinkSpec

\* Every command B's queue took is somewhere on the link or has exactly one fate,
\* and of a dead connection's commands at most one reaches A's endpoint late.
THEOREM LedgerAlwaysHolds == LinkSpec => []CommandLedger
<1>1. LinkInv => CommandLedger
  BY LedgerOfPlaces, OneFateOfSides DEF LinkInv, LinkTypes, CommandLedger
<1> QED BY <1>1, LinkInvariance, PTL

\* Commands reach the endpoint in the order they were written, and once, across
\* every reconnect: no queue of the path is overtaken by the one behind it.
THEOREM AlwaysDeliveredInOrder == LinkSpec => []DeliveredInOrder
<1>1. LinkInv => DeliveredInOrder
  <2> SUFFICES ASSUME LinkInv PROVE DeliveredInOrder
    OBVIOUS
  <2>1. delivered \in Seq(Chunk) /\ Rising(delivered, Num)
    BY PlaceTypes DEF LinkInv, AInv
  <2>2. DOMAIN delivered = 1 .. Len(delivered)
        /\ \A i \in 1 .. Len(delivered) : Num[delivered[i]] = delivered[i]
    BY <2>1 DEF Num
  <2> QED BY <2>1, <2>2 DEF DeliveredInOrder, Rising
<1> QED BY <1>1, LinkInvariance, PTL

\* What waited in B's queue through an outage never reaches A's endpoint when
\* purge_on_reconnect is set: it was all purged before anything was sent again.
THEOREM BacklogAlwaysPurged == LinkSpec => []OutageBacklogPurged
<1>1. LinkInv => OutageBacklogPurged
  <2> SUFFICES ASSUME LinkInv, Purge PROVE history.stale \cap Received = {}
    BY DEF OutageBacklogPurged
  <2>1. history.stale \subseteq ledger.purgedB /\ Received \subseteq ledger.wrote
    BY PlaceTypes DEF LinkInv, StaleInv, AInv, DoneA
  <2>2. ledger.wrote \cap ledger.purgedB = {}
    BY DEF LinkInv, FatesB, AtB
  <2> QED BY <2>1, <2>2
<1> QED BY <1>1, LinkInvariance, PTL
=============================================================================
