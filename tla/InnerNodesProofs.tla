-------------------------- MODULE InnerNodesProofs --------------------------
(***************************************************************************)
(* Proofs about the nodes behind the boundary ones.  The pumps of a map or *)
(* codec: whatever connect, disconnect, steal and remove do under them,    *)
(* every piece is accounted for once, no pump sleeps through a wakeup, and *)
(* a detached edge gets at most the one piece per pump that was in its     *)
(* send.  The exec codec: every chunk has one place or fate, wherever its  *)
(* child dies or the node is torn down.  The log: no rotation replaces a   *)
(* rotated file, through failures, crashes and new nodes.                  *)
(***************************************************************************)
EXTENDS InteriorPump, ExecCodec, LogNode, TargetwardInboxProofs
-----------------------------------------------------------------------------
(* The pumps: the inductive invariant *)

\* A pump with a chunk in its hands, and one that is through await_origin.
Hold == {"edge", "edgeWoken", "gate", "gateWoken", "sending"}
Through == {"gate", "gateWoken", "sending"}

\* Nobody has taken or charged the chunk from piece i on.
Fresh(c, i) ==
    /\ c \notin torn
    /\ \A j \in i .. Pieces : <<c, j>> \notin delivered \cup discarded

\* Pump p has taken the chunk of b, and sent what is before piece i.
InHand(p, b, i) ==
    /\ b.held \in accepted /\ PumpOf[b.held] = p
    /\ b.held \notin ToSet(b.queue)
    /\ Fresh(b.held, i)
    /\ \A j \in 1 .. i - 1 : <<b.held, j>> \in delivered
    /\ \A j \in 1 .. Pieces : <<b.held, j>> \notin discarded

\* What is queued is fresh, once, and in the queue of its own pump.
InQueue(p, b) ==
    /\ InHands(b) = {}
    /\ Unique(b.queue)
    /\ \A c \in ToSet(b.queue) : c \in accepted /\ PumpOf[c] = p /\ Fresh(c, 1)

QueueInv == \A p \in Pump : InQueue(p, inbox[p])

HandInv ==
    \A p \in Pump :
        /\ pump[p].pc \in Hold => InHand(p, inbox[p], pump[p].piece)
        /\ pump[p].pc \notin Hold => inbox[p].held = NoChunk

\* Only accepted chunks are counted; only teardown tears, and it ends all pumps.
CountInv ==
    /\ \A x \in delivered \cup discarded : x[1] \in accepted
    /\ torn \subseteq accepted
    /\ torn # {} => Gone
    /\ \A p, q \in Pump : pump[p].pc = "gone" => pump[q].pc = "gone"
    /\ \A p \in Pump : pump[p].pc = "gone" => ~inbox[p].open /\ inbox[p].queue = <<>>

LedgerInv == QueueInv /\ HandInv /\ CountInv /\ NoPieceVanishes /\ PieceChargedOnce

\* A pump waits for an edge before its first piece, never in mid-chunk.  A
\* binding is of an edge that was attached, writable for as long as it is in
\* the slot; what landed late is of an edge that its pump has let go.
EdgeInv ==
    /\ slot.edge \in used \cup {NoEdge}
    /\ \A p \in Pump :
           /\ pump[p].pc \in Through => pump[p].bound \in used
           /\ pump[p].pc \notin Through => pump[p].bound = NoEdge
           /\ pump[p].pc \in {"edge", "edgeWoken"} => pump[p].piece = 1
           /\ pump[p].bound = slot.edge /\ Attached => slot.writable
    /\ \A y \in late :
           /\ y[1] \in used /\ y[1] # slot.edge
           /\ pump[PumpOf[y[2][1]]].bound # y[1]

PumpInv == PumpTypeOK /\ LedgerInv /\ EdgeInv /\ LatePerPump /\ NoLostEdgeWakeup
-----------------------------------------------------------------------------
(* What the typed state says *)

\* The fields of the state.
LEMMA Typed ==
    ASSUME PumpTypeOK, NEW p \in Pump
    PROVE  /\ inbox[p] \in InboxState /\ inbox[p].queue \in Seq(Chunk)
           /\ inbox[p].open \in BOOLEAN /\ inbox[p].held \in Chunk \cup {NoChunk}
           /\ pump[p] \in PumpState /\ pump[p].piece \in 1 .. Pieces
           /\ pump[p].bound \in Edge \cup {NoEdge}
           /\ slot.edge \in Edge \cup {NoEdge} /\ slot.writable \in BOOLEAN
           /\ Origin \in {slot.edge, NoEdge}
<1>1. inbox[p] \in InboxState /\ pump[p] \in PumpState
      /\ slot \in [edge : Edge \cup {NoEdge}, writable : BOOLEAN]
  BY DEF PumpTypeOK
<1> QED BY <1>1 DEF InboxState, PumpState, Origin

\* Nobody is suspended, before and after a poll.
LEMMA PollFacts ==
    ASSUME NEW b \in InboxState, InHands(b) = {}, Unique(b.queue), b.queue # <<>>
    PROVE  LET d == PollRecv(b)
           IN  /\ d \in InboxState /\ InHands(d) = {} /\ Unique(d.queue)
               /\ d.open = b.open /\ d.held \in Chunk
               /\ d.held \notin ToSet(d.queue)
               /\ ToSet(b.queue) = {d.held} \cup ToSet(d.queue)
<1>1. b.queue \in Seq(Chunk) /\ b.waiting \in Seq(Suspended)
  BY DEF InboxState
<1>2. b.granted = {} /\ Len(b.waiting) = 0
  <2>1. b.granted = {} /\ ToSet(b.waiting) = {}
    BY DEF InHands
  <2>2. Len(b.waiting) \in Nat /\ DOMAIN b.waiting = 1 .. Len(b.waiting)
    BY <1>1
  <2>3. 1 \in DOMAIN b.waiting => b.waiting[1] \in ToSet(b.waiting)
    BY DEF ToSet
  <2> QED BY <2>1, <2>2, <2>3
<1>3. HandsUnique(b)
  BY <1>2 DEF HandsUnique
<1> QED BY <1>1, <1>3, PollRecvProperties, ToSetHead, UniqueTail

\* Settling leaves the queue.
LEMMA SettleFacts ==
    ASSUME NEW b \in InboxState
    PROVE  LET d == SettleHeld(b)
           IN  /\ d \in InboxState /\ d.queue = b.queue /\ d.open = b.open
               /\ d.held = NoChunk /\ InHands(d) = InHands(b)
BY DEF SettleHeld, InboxState, InHands

\* Waking moves parked pumps to the woken states, and nothing else.
LEMMA WakeFacts ==
    ASSUME pump \in [Pump -> PumpState], NEW pcs \in SUBSET {"edge", "gate"},
           NEW p \in Pump
    PROVE  LET w == Wake(pcs)
           IN  /\ w \in [Pump -> PumpState]
               /\ w[p].bound = pump[p].bound /\ w[p].piece = pump[p].piece
               /\ w[p].pc = IF pump[p].pc \notin pcs THEN pump[p].pc
                            ELSE IF pump[p].pc = "edge" THEN "edgeWoken" ELSE "gateWoken"
<1>1. Woken["edge"] = "edgeWoken" /\ Woken["gate"] = "gateWoken"
  BY DEF Woken
<1>2. ASSUME NEW q \in Pump
      PROVE  LET x == IF pump[q].pc \in pcs
                      THEN [pump[q] EXCEPT !.pc = Woken[@]] ELSE pump[q]
             IN  /\ x \in PumpState
                 /\ x.bound = pump[q].bound /\ x.piece = pump[q].piece
                 /\ x.pc = IF pump[q].pc \notin pcs THEN pump[q].pc
                           ELSE IF pump[q].pc = "edge" THEN "edgeWoken" ELSE "gateWoken"
  <2>1. pump[q] \in PumpState
    OBVIOUS
  <2>2. CASE pump[q].pc \in pcs
    <3>1. pump[q].pc = "edge" \/ pump[q].pc = "gate"
      BY <2>2
    <3> DEFINE z == Woken[pump[q].pc]
    <3>2. z = IF pump[q].pc = "edge" THEN "edgeWoken" ELSE "gateWoken"
      BY <3>1, <1>1
    <3> HIDE DEF z
    <3>3. [pump[q] EXCEPT !.pc = z] \in PumpState
      BY <2>1, <3>1, <3>2 DEF PumpState
    <3>4. /\ [pump[q] EXCEPT !.pc = z].pc = z
          /\ [pump[q] EXCEPT !.pc = z].bound = pump[q].bound
          /\ [pump[q] EXCEPT !.pc = z].piece = pump[q].piece
      BY <2>1 DEF PumpState
    <3> QED BY <2>2, <3>2, <3>3, <3>4 DEF z
  <2>3. CASE pump[q].pc \notin pcs
    BY <2>1, <2>3
  <2> QED BY <2>2, <2>3
<1> QED BY <1>2, Zenon DEF Wake
-----------------------------------------------------------------------------
(* The ledger *)

\* A turn of pump p with the chunk of b in hand, from piece i on: settled and
\* charged (nothing is left after the last piece), or deleted by the rules, or
\* parked.
Turn(p, b, i) ==
    \/ Done(p, b) /\ discarded' = discarded \cup Rest(b.held, i)
    \/ Done(p, b) /\ discarded' = discarded /\ b.held \in Deleted
    \/ /\ i <= Pieces /\ discarded' = discarded
       /\ \E pc \in Hold, e \in Edge \cup {NoEdge} : Park(p, b, pc, e, i)

\* A turn keeps the ledger, when b has the chunks that p had.
LEMMA TurnLedger ==
    ASSUME PumpTypeOK, LedgerInv, NEW p \in Pump, pump[p].pc # "gone",
           NEW b \in InboxState, NEW i \in 1 .. Pieces + 1,
           b.held \in Chunk, InHands(b) = {}, Unique(b.queue), b.open = inbox[p].open,
           {b.held} \cup ToSet(b.queue) = DrainAndCount(inbox[p]),
           ToSet(b.queue) \subseteq ToSet(inbox[p].queue),
           delivered \subseteq delivered', delivered' \subseteq delivered \cup Rest(b.held, 1),
           \A j \in i .. Pieces : <<b.held, j>> \notin delivered',
           \A j \in 1 .. i - 1 : <<b.held, j>> \in delivered',
           \A j \in 1 .. Pieces : <<b.held, j>> \notin discarded,
           b.held \notin ToSet(b.queue),
           Turn(p, b, i), UNCHANGED <<torn, accepted>>
    PROVE  /\ LedgerInv'
           /\ inbox' \in [Pump -> InboxState] /\ pump' \in [Pump -> PumpState]
           /\ discarded' \subseteq Piece /\ delivered' \subseteq Piece
<1> DEFINE c == b.held
<1>1. /\ inbox \in [Pump -> InboxState] /\ pump \in [Pump -> PumpState]
      /\ Pieces \in Nat \ {0} /\ torn \subseteq Chunk
      /\ delivered \subseteq Piece /\ discarded \subseteq Piece
  BY PiecesAssumption DEF PumpTypeOK
<1>2. c \in Chunk /\ c # NoChunk /\ NoChunk \notin Chunk
  BY NoChunkAssumption
<1>3. torn = {} /\ ~Gone /\ \A q \in Pump : pump[q].pc # "gone"
  BY DEF LedgerInv, CountInv, Gone
\* What the pump has afterwards: its queue, and its hands full or empty.
<1>4. PICK d \in InboxState, s \in PumpState :
          /\ inbox' = [inbox EXCEPT ![p] = d] /\ pump' = [pump EXCEPT ![p] = s]
          /\ d.queue = b.queue /\ d.open = inbox[p].open /\ InHands(d) = {}
          /\ \/ /\ s.pc = "recv" /\ d.held = NoChunk
                /\ \/ discarded' = discarded \cup Rest(c, i)
                   \/ discarded' = discarded /\ c \in Deleted
             \/ /\ s.pc \in Hold /\ d.held = c /\ s.piece = i /\ i <= Pieces
                /\ discarded' = discarded
  <2>1. CASE /\ Done(p, b)
             /\ \/ discarded' = discarded \cup Rest(c, i)
                \/ discarded' = discarded /\ c \in Deleted
    <3>1. AtRecv \in PumpState /\ AtRecv.pc = "recv"
      BY <1>1 DEF AtRecv, PumpState
    <3> DEFINE d == SettleHeld(b)
    <3>2. /\ d \in InboxState /\ d.queue = b.queue /\ d.open = inbox[p].open
          /\ InHands(d) = {} /\ d.held = NoChunk
      BY SettleFacts
    <3>3. inbox' = [inbox EXCEPT ![p] = d] /\ pump' = [pump EXCEPT ![p] = AtRecv]
      BY <2>1 DEF Done
    <3> HIDE DEF d
    <3> QED BY <2>1, <3>1, <3>2, <3>3
  <2>2. CASE /\ i <= Pieces /\ discarded' = discarded
             /\ \E pc \in Hold, e \in Edge \cup {NoEdge} : Park(p, b, pc, e, i)
    <3>1. PICK pc \in Hold, e \in Edge \cup {NoEdge} : Park(p, b, pc, e, i)
      BY <2>2
    <3> DEFINE s == [pc |-> pc, bound |-> e, piece |-> i]
    <3>2. s \in PumpState /\ s.pc = pc /\ s.piece = i
      BY <1>1, <2>2 DEF PumpState, Hold
    <3>3. inbox' = [inbox EXCEPT ![p] = b] /\ pump' = [pump EXCEPT ![p] = s]
      BY <3>1 DEF Park
    <3> HIDE DEF s
    <3> QED BY <2>2, <3>2, <3>3
  <2> QED BY <2>1, <2>2 DEF Turn
<1> HIDE DEF c
<1>5. /\ inbox' \in [Pump -> InboxState] /\ pump' \in [Pump -> PumpState]
      /\ inbox'[p] = d /\ pump'[p] = s
      /\ \A q \in Pump \ {p} : inbox'[q] = inbox[q] /\ pump'[q] = pump[q]
  BY <1>1, <1>4
<1>6. Rest(c, i) \subseteq Rest(c, 1) /\ Rest(c, 1) \subseteq Piece
  BY <1>1, <1>2 DEF Rest, Piece
<1>7. /\ discarded \subseteq discarded' /\ discarded' \subseteq discarded \cup Rest(c, i)
      /\ s.pc \in Hold => discarded' = discarded
      /\ s.pc \in Hold <=> d.held = c
      /\ s.pc \in Hold \/ s.pc = "recv"
  BY <1>2, <1>4 DEF Hold
\* Only c moves.
<1>8. \A x \in Chunk, j \in 1 .. Pieces :
          x # c => /\ <<x, j>> \in delivered' <=> <<x, j>> \in delivered
                   /\ <<x, j>> \in discarded' <=> <<x, j>> \in discarded
  BY <1>6, <1>7 DEF Rest, c
<1>9. c \in accepted /\ PumpOf[c] = p
  BY DEF c, DrainAndCount, HeldChunk, LedgerInv, QueueInv, InQueue, HandInv, InHand
<1>10. ASSUME NEW x \in Chunk, x # c PROVE Fresh(x, 1) => Fresh(x, 1)'
  BY <1>8, <1>10 DEF Fresh
<1>11. QueueInv'
  <2> SUFFICES ASSUME NEW q \in Pump PROVE InQueue(q, inbox[q])'
    BY DEF QueueInv
  <2>1. InQueue(q, inbox[q]) /\ InQueue(p, inbox[p])
    BY DEF LedgerInv, QueueInv
  <2>2. ToSet(inbox[q].queue) \subseteq Chunk /\ ToSet(b.queue) \subseteq Chunk
    BY <1>1, ToSetType DEF InboxState
  <2>3. CASE q = p
    <3>1. \A x \in ToSet(b.queue) : x \in accepted /\ PumpOf[x] = p /\ Fresh(x, 1)'
      BY <2>1, <2>2, <1>10 DEF InQueue, c
    <3> QED BY <2>3, <3>1, <1>4, <1>5 DEF InQueue
  <2>4. CASE q # p
    <3>1. \A x \in ToSet(inbox[q].queue) : x # c
      BY <2>1, <2>4, <1>9 DEF InQueue
    <3>2. inbox'[q] = inbox[q]
      BY <2>4, <1>5
    <3> QED BY <2>1, <2>2, <3>1, <3>2, <1>10 DEF InQueue
  <2> QED BY <2>3, <2>4
<1>12. HandInv'
  <2> SUFFICES ASSUME NEW q \in Pump
               PROVE  /\ pump'[q].pc \in Hold => InHand(q, inbox[q], pump[q].piece)'
                      /\ pump'[q].pc \notin Hold => inbox'[q].held = NoChunk
    BY DEF HandInv
  <2>1. CASE q = p
    <3>1. s.pc \in Hold => InHand(p, d, i)'
      BY <1>3, <1>4, <1>7, <1>9 DEF InHand, Fresh, c
    <3>2. s.pc \notin Hold => d.held = NoChunk
      BY <1>4
    <3>3. s.pc \in Hold => s.piece = i
      BY <1>4 DEF Hold
    <3> QED BY <2>1, <3>1, <3>2, <3>3, <1>5 DEF InHand, Fresh
  <2>2. CASE q # p
    <3>1. inbox'[q] = inbox[q] /\ pump'[q] = pump[q]
      BY <2>2, <1>5
    <3>2. CASE pump[q].pc \in Hold
      <4> DEFINE x == inbox[q].held
      <4>1. InHand(q, inbox[q], pump[q].piece) /\ x # c
        BY <2>2, <3>2, <1>9 DEF LedgerInv, HandInv, InHand
      <4>2. x \in Chunk
        BY <4>1 DEF InHand, PumpTypeOK
      <4>3. pump[q].piece \in 1 .. Pieces
        BY <1>1 DEF PumpState
      <4>4. \A j \in pump[q].piece .. Pieces : j \in 1 .. Pieces
        BY <4>3, <1>1
      <4>5. \A j \in 1 .. pump[q].piece - 1 : j \in 1 .. Pieces
        BY <4>3, <1>1
      <4> QED BY <3>1, <3>2, <4>1, <4>2, <4>4, <4>5, <1>8 DEF InHand, Fresh
    <3>3. CASE pump[q].pc \notin Hold
      BY <3>1, <3>3 DEF LedgerInv, HandInv
    <3> QED BY <3>2, <3>3
  <2> QED BY <2>1, <2>2
<1>13. CountInv'
  <2>1. \A x \in delivered' \cup discarded' : x[1] \in accepted'
    BY <1>6, <1>7, <1>9 DEF LedgerInv, CountInv, Rest, c
  <2>2. \A q \in Pump : pump'[q].pc # "gone"
    BY <1>3, <1>5, <1>7 DEF Hold
  <2> QED BY <2>1, <2>2, <1>3 DEF CountInv
<1>14. NoPieceVanishes'
  <2> SUFFICES ASSUME NEW x \in accepted, NEW j \in 1 .. Pieces
               PROVE  \/ Pending(x, j)'
                      \/ <<x, j>> \in delivered' \cup discarded'
                      \/ x \in torn \cup Deleted
    BY DEF NoPieceVanishes
  <2>1. CASE x = c
    <3>1. CASE j < i
      BY <2>1, <3>1, <1>1 DEF c
    <3>2. CASE j >= i /\ s.pc \in Hold
      <4>1. inbox'[p].held = c /\ pump'[p].pc # "recv" /\ j >= pump'[p].piece
        BY <3>2, <1>4, <1>5, <1>7 DEF Hold
      <4> QED BY <2>1, <4>1, <1>9 DEF Pending
    <3>3. CASE j >= i /\ s.pc \notin Hold
      <4>1. <<c, j>> \in Rest(c, i)
        BY <3>3, <1>1 DEF Rest
      <4> QED BY <2>1, <3>3, <4>1, <1>4
    <3> QED BY <3>1, <3>2, <3>3, <1>1
  <2>2. CASE x # c
    <3>1. x \in Chunk
      BY DEF PumpTypeOK
    <3>2. PumpOf[x] \in Pump
      BY <3>1, PumpOfAssumption
    <3>3. Pending(x, j) => Pending(x, j)'
      <4>1. CASE PumpOf[x] = p
        <5>1. Pending(x, j) => x \in DrainAndCount(inbox[p])
          BY <4>1, <3>1, <1>2 DEF Pending, DrainAndCount, HeldChunk
        <5>2. Pending(x, j) => x \in ToSet(b.queue)
          BY <5>1, <2>2 DEF c
        <5> QED BY <4>1, <5>2, <1>4, <1>5 DEF Pending
      <4>2. CASE PumpOf[x] # p
        BY <4>2, <3>2, <1>5 DEF Pending
      <4> QED BY <4>1, <4>2
    <3> QED BY <2>2, <3>1, <3>3, <1>8 DEF LedgerInv, NoPieceVanishes
  <2> QED BY <2>1, <2>2
<1>15. PieceChargedOnce'
  <2>1. delivered' \cap discarded' = {}
    <3> SUFFICES ASSUME NEW y \in delivered', y \in discarded' PROVE FALSE
      OBVIOUS
    <3>1. y \in Piece
      BY <1>1, <1>6 DEF c
    <3>2. PICK x \in Chunk, j \in 1 .. Pieces : y = <<x, j>>
      BY <3>1 DEF Piece
    <3>3. CASE x # c
      BY <3>2, <3>3, <1>8 DEF LedgerInv, PieceChargedOnce
    <3>4. CASE x = c
      <4>1. <<c, j>> \notin discarded
        BY DEF c
      <4>2. y \in Rest(c, i)
        BY <3>2, <3>4, <4>1, <1>7
      <4>3. j \in i .. Pieces
        BY <4>2, <3>2, <3>4 DEF Rest
      <4> QED BY <3>2, <3>4, <4>3 DEF c
    <3> QED BY <3>3, <3>4
  <2> QED BY <2>1, <1>3 DEF PieceChargedOnce
<1> QED BY <1>1, <1>5, <1>6, <1>7, <1>11, <1>12, <1>13, <1>14, <1>15 DEF LedgerInv, c

\* A step of the control plane that moves no chunk keeps the ledger: a pump
\* that has a chunk still has it, at the same piece.
LEMMA LedgerKept ==
    ASSUME PumpTypeOK, LedgerInv, UNCHANGED <<inbox, ledgers, accepted>>,
           \A p \in Pump : /\ pump'[p].piece = pump[p].piece
                           /\ pump'[p].pc \in Hold <=> pump[p].pc \in Hold
                           /\ pump'[p].pc = "recv" <=> pump[p].pc = "recv"
                           /\ pump'[p].pc = "gone" <=> pump[p].pc = "gone"
    PROVE  LedgerInv'
<1>1. UNCHANGED <<inbox, delivered, discarded, torn, accepted>>
  BY DEF ledgers
<1>2. QueueInv'
  BY <1>1 DEF LedgerInv, QueueInv, InQueue, Fresh
<1>3. HandInv'
  BY <1>1 DEF LedgerInv, HandInv, InHand, Fresh
<1>4. CountInv'
  BY <1>1 DEF LedgerInv, CountInv, Gone
<1>5. NoPieceVanishes'
  <2> SUFFICES ASSUME NEW c \in accepted, NEW i \in 1 .. Pieces, Pending(c, i)
               PROVE  Pending(c, i)'
    BY <1>1 DEF LedgerInv, NoPieceVanishes
  <2>1. PumpOf[c] \in Pump
    BY PumpOfAssumption DEF PumpTypeOK
  <2> QED BY <1>1, <2>1 DEF Pending
<1>6. PieceChargedOnce'
  BY <1>1 DEF LedgerInv, PieceChargedOnce
<1> QED BY <1>2, <1>3, <1>4, <1>5, <1>6 DEF LedgerInv

\* A writer's chunk goes in.
LEMMA AcceptInv ==
    ASSUME PumpInv, NEW c \in Chunk, Accept(c)
    PROVE  PumpInv'
<1> DEFINE p == PumpOf[c]
<1>1. /\ PumpTypeOK /\ LedgerInv /\ EdgeInv /\ LatePerPump /\ NoLostEdgeWakeup
      /\ inbox \in [Pump -> InboxState] /\ accepted \subseteq Chunk
      /\ torn \subseteq accepted
  BY DEF PumpInv, PumpTypeOK, LedgerInv, CountInv
<1>2. /\ p \in Pump /\ c \notin accepted /\ inbox[p].open
      /\ accepted' = accepted \cup {c}
      /\ inbox' = [inbox EXCEPT ![p] = Push(@, c)]
      /\ UNCHANGED <<pump, slot, floor, removed, used, delivered, discarded, torn, late, shed>>
  BY PumpOfAssumption DEF Accept, ledgers
<1> HIDE DEF p
<1> DEFINE b == inbox[p]
           d == Push(b, c)
<1>3. b \in InboxState /\ b.queue \in Seq(Chunk) /\ b.held \in Chunk \cup {NoChunk}
  BY <1>1, <1>2 DEF InboxState
<1>4. /\ d \in InboxState /\ d.queue = Append(b.queue, c) /\ d.held = b.held
      /\ d.open = b.open /\ InHands(d) = InHands(b)
  <2>1. Append(b.queue, c) \in Seq(Chunk)
    BY <1>3
  <2> QED BY <1>3, <2>1 DEF Push, InboxState, InHands
<1>5. ToSet(d.queue) = ToSet(b.queue) \cup {c}
  BY <1>3, <1>4, ToSetAppend
<1>6. InQueue(p, b) /\ ToSet(b.queue) \subseteq accepted
  BY <1>1, <1>2 DEF LedgerInv, QueueInv, InQueue
<1>7. Unique(d.queue)
  BY <1>2, <1>3, <1>4, <1>6, UniqueAppend DEF InQueue
<1>8. /\ inbox' \in [Pump -> InboxState] /\ inbox'[p] = d
      /\ \A q \in Pump \ {p} : inbox'[q] = inbox[q]
  BY <1>1, <1>2, <1>4
<1> HIDE DEF d
<1>9. Fresh(c, 1)
  <2>1. \A j \in 1 .. Pieces : <<c, j>>[1] = c
    OBVIOUS
  <2> QED BY <1>1, <1>2, <2>1 DEF LedgerInv, CountInv, Fresh
<1>10. \A x, j : Fresh(x, j)' <=> Fresh(x, j)
  BY <1>2 DEF Fresh
<1>11. PumpTypeOK'
  BY <1>1, <1>2, <1>8 DEF PumpTypeOK
<1>12. QueueInv'
  <2> SUFFICES ASSUME NEW q \in Pump PROVE InQueue(q, inbox[q])'
    BY DEF QueueInv
  <2>1. CASE q = p
    BY <2>1, <1>2, <1>4, <1>5, <1>6, <1>7, <1>8, <1>9, <1>10 DEF InQueue, p
  <2>2. CASE q # p
    BY <2>2, <1>1, <1>2, <1>8, <1>10 DEF LedgerInv, QueueInv, InQueue
  <2> QED BY <2>1, <2>2
<1>13. HandInv'
  <2> SUFFICES ASSUME NEW q \in Pump
               PROVE  /\ pump'[q].pc \in Hold => InHand(q, inbox[q], pump[q].piece)'
                      /\ pump'[q].pc \notin Hold => inbox'[q].held = NoChunk
    BY DEF HandInv
  <2>1. inbox'[q].held = inbox[q].held /\ pump'[q] = pump[q]
    BY <1>2, <1>4, <1>8
  <2>2. inbox[q].held \in accepted => (inbox'[q].held \notin ToSet(inbox'[q].queue)
                                       <=> inbox[q].held \notin ToSet(inbox[q].queue))
    BY <1>2, <1>4, <1>5, <1>8
  <2> QED BY <1>1, <1>2, <1>10, <2>1, <2>2 DEF LedgerInv, HandInv, InHand
<1>14. CountInv'
  <2>1. \A q \in Pump : pump[q].pc = "gone" => q # p
    BY <1>1, <1>2 DEF LedgerInv, CountInv
  <2> QED BY <1>1, <1>2, <1>8, <2>1 DEF LedgerInv, CountInv, Gone
<1>15. NoPieceVanishes'
  <2> SUFFICES ASSUME NEW x \in accepted', NEW j \in 1 .. Pieces
               PROVE  \/ Pending(x, j)'
                      \/ <<x, j>> \in delivered \cup discarded
                      \/ x \in torn \cup Deleted
    BY <1>2 DEF NoPieceVanishes
  <2>1. CASE x = c
    BY <2>1, <1>4, <1>5, <1>8 DEF Pending, p
  <2>2. CASE x \in accepted
    <3>1. PumpOf[x] \in Pump
      BY <2>2, <1>1, PumpOfAssumption
    <3>2. Pending(x, j) => Pending(x, j)'
      BY <1>2, <1>4, <1>5, <1>8, <3>1 DEF Pending
    <3> QED BY <2>2, <3>2, <1>1 DEF LedgerInv, NoPieceVanishes
  <2> QED BY <2>1, <2>2, <1>2
<1>16. PieceChargedOnce'
  BY <1>1, <1>2 DEF LedgerInv, PieceChargedOnce
<1>17. EdgeInv' /\ LatePerPump' /\ NoLostEdgeWakeup'
  BY <1>1, <1>2 DEF EdgeInv, LatePerPump, NoLostEdgeWakeup, Attached, Origin
<1> QED BY <1>11, <1>12, <1>13, <1>14, <1>15, <1>16, <1>17 DEF PumpInv, LedgerInv
-----------------------------------------------------------------------------
(* The edge *)

\* What a turn of pump p does to its binding and the floor: it lets go, it is
\* bound to the attached edge (waiting only while the floor is stolen), or it
\* waits for an edge while there is none.
EdgeTurn(p) ==
    /\ \E s \in PumpState :
           /\ pump' = [pump EXCEPT ![p] = s]
           /\ \/ s.pc = "recv" /\ s.bound = NoEdge
              \/ /\ s.bound = Origin /\ Origin # NoEdge
                 /\ (s.pc = "sending" \/ (s.pc = "gate" /\ floor' = "stolen"))
              \/ s.pc = "edge" /\ s.bound = NoEdge /\ s.piece = 1 /\ ~Attached
    /\ (floor' = floor \/ (floor # "stolen" /\ floor' = "ours"))

\* A turn keeps the wakeups and the bindings; a piece that lands late is of the
\* edge that the turn lets go.
LEMMA TurnEdges ==
    ASSUME PumpTypeOK, EdgeInv, LatePerPump, NoLostEdgeWakeup, NEW p \in Pump,
           EdgeTurn(p), UNCHANGED <<slot, used>>,
           NEW e, NEW x, e = pump[p].bound, PumpOf[x[1]] = p,
           \/ late' = late
           \/ /\ pump[p].pc = "sending" /\ Origin # e
              /\ late' = late \cup {<<e, x>>}
    PROVE  EdgeInv' /\ LatePerPump' /\ NoLostEdgeWakeup' /\ floor' \in {"ours", "free", "stolen"}
<1>1. /\ pump \in [Pump -> PumpState] /\ used \subseteq Edge /\ NoEdge \notin Edge
      /\ slot.edge \in used \cup {NoEdge}
      /\ late \subseteq Edge \X Piece
  BY EdgeAssumption DEF PumpTypeOK, EdgeInv
<1>2. Origin' = Origin /\ Attached' = Attached /\ Origin \in {slot.edge, NoEdge}
      /\ (Origin # NoEdge => slot.writable)
  BY DEF Origin, Attached
<1>3. PICK s \in PumpState :
          /\ pump' = [pump EXCEPT ![p] = s]
          /\ \/ s.pc = "recv" /\ s.bound = NoEdge
             \/ /\ s.bound = Origin /\ Origin # NoEdge
                /\ (s.pc = "sending" \/ (s.pc = "gate" /\ floor' = "stolen"))
             \/ s.pc = "edge" /\ s.bound = NoEdge /\ s.piece = 1 /\ ~Attached
  BY DEF EdgeTurn
<1>4. pump'[p] = s /\ \A q \in Pump \ {p} : pump'[q] = pump[q]
  BY <1>1, <1>3
<1>5. (floor' = floor \/ (floor # "stolen" /\ floor' = "ours"))
  BY DEF EdgeTurn
<1>6. \A q \in Pump :
          /\ pump'[q].pc \in Through => pump'[q].bound \in used
          /\ pump'[q].pc \notin Through => pump'[q].bound = NoEdge
          /\ pump'[q].pc \in {"edge", "edgeWoken"} => pump'[q].piece = 1
          /\ pump'[q].bound = slot.edge /\ Attached => slot.writable
  <2>1. CASE Origin # NoEdge
    BY <2>1, <1>1, <1>2, <1>3, <1>4 DEF EdgeInv, Through
  <2>2. CASE Origin = NoEdge
    BY <2>2, <1>1, <1>2, <1>3, <1>4 DEF EdgeInv, Through, Attached
  <2> QED BY <2>1, <2>2
<1>7. \A q \in Pump :
          /\ pump'[q].pc = "edge" => ~Attached
          /\ pump'[q].pc = "gate" => Origin = pump'[q].bound /\ floor' = "stolen"
  BY <1>3, <1>4, <1>5 DEF NoLostEdgeWakeup
<1>8. s.bound = NoEdge \/ s.bound = slot.edge
  BY <1>2, <1>3
<1>9. ASSUME NEW y \in late
      PROVE  y[1] \in used /\ y[1] # slot.edge /\ pump'[PumpOf[y[2][1]]].bound # y[1]
  <2>1. y[1] \in used /\ y[1] # slot.edge /\ pump[PumpOf[y[2][1]]].bound # y[1]
    BY DEF EdgeInv
  <2>2. PumpOf[y[2][1]] \in Pump
    BY <1>1, PumpOfAssumption DEF Piece
  <2> QED BY <1>1, <1>4, <1>8, <2>1, <2>2
<1>10. CASE late' = late
  <2>1. LatePerPump'
    BY <1>10 DEF LatePerPump
  <2>2. EdgeInv'
    BY <1>1, <1>2, <1>6, <1>9, <1>10 DEF EdgeInv
  <2> QED BY <1>2, <1>5, <1>7, <2>1, <2>2 DEF NoLostEdgeWakeup, PumpTypeOK
<1>11. CASE pump[p].pc = "sending" /\ Origin # e /\ late' = late \cup {<<e, x>>}
  <2>1. e \in used /\ e # NoEdge
    BY <1>1, <1>11 DEF EdgeInv, Through
  <2>2. e # slot.edge
    BY <1>2, <1>11, <2>1 DEF EdgeInv, Origin, Attached
  <2>3. pump'[p].bound # e
    BY <1>4, <1>8, <2>1, <2>2
  <2>4. EdgeInv'
    <3> SUFFICES ASSUME NEW y \in late'
                 PROVE  y[1] \in used /\ y[1] # slot.edge /\ pump'[PumpOf[y[2][1]]].bound # y[1]
      BY <1>1, <1>2, <1>6 DEF EdgeInv
    <3>1. CASE y = <<e, x>>
      <4>1. y[1] = e /\ y[2] = x
        BY <3>1
      <4> QED BY <4>1, <2>1, <2>2, <2>3
    <3> QED BY <3>1, <1>9, <1>11
  <2>5. \A y \in late : ~(y[1] = e /\ PumpOf[y[2][1]] = p)
    BY DEF EdgeInv
  <2>6. LatePerPump'
    <3> SUFFICES ASSUME NEW y \in late', NEW z \in late', y[1] = z[1],
                        PumpOf[y[2][1]] = PumpOf[z[2][1]]
                 PROVE  y = z
      BY DEF LatePerPump
    <3>1. <<e, x>>[1] = e /\ <<e, x>>[2] = x
      OBVIOUS
    <3> QED BY <1>11, <2>5, <3>1 DEF LatePerPump
  <2> QED BY <1>2, <1>5, <1>7, <2>4, <2>6 DEF NoLostEdgeWakeup, PumpTypeOK
<1> QED BY <1>10, <1>11

\* A pump that is done lets go.
LEMMA DoneEdge ==
    ASSUME NEW p, NEW b, Done(p, b),
           (floor' = floor \/ (floor # "stolen" /\ floor' = "ours"))
    PROVE  EdgeTurn(p)
<1> DEFINE s == AtRecv
<1>1. s \in PumpState /\ s.pc = "recv" /\ s.bound = NoEdge
  BY PiecesAssumption DEF AtRecv, PumpState
<1>2. pump' = [pump EXCEPT ![p] = s]
  BY DEF Done
<1> HIDE DEF s
<1> QED BY <1>1, <1>2 DEF EdgeTurn

\* The ways through forward_targetward, framing and await_origin are turns.
LEMMA ForwardTurn ==
    ASSUME PumpTypeOK, NEW p \in Pump, NEW b, NEW e \in Edge, NEW i \in 1 .. Pieces,
           Forward(p, b, e, i)
    PROVE  Turn(p, b, i) /\ EdgeTurn(p) /\ shed' \subseteq shed \cup Rest(b.held, i)
<1>1. NoEdge \notin Edge /\ Pieces \in Nat \ {0}
  BY EdgeAssumption, PiecesAssumption
<1>2. \A pc \in Hold : LET s == [pc |-> pc, bound |-> e, piece |-> i]
                       IN  s \in PumpState /\ s.pc = pc /\ s.bound = e
  BY <1>1 DEF PumpState, Hold
<1>3. CASE /\ Origin # e /\ Discard(p, b, i)
           /\ shed' = IF HostOf[e] \in removed THEN shed ELSE shed \cup Rest(b.held, i)
           /\ UNCHANGED floor
  <2>1. Done(p, b) /\ discarded' = discarded \cup Rest(b.held, i)
    BY <1>3 DEF Discard
  <2> QED BY <1>3, <2>1, DoneEdge DEF Turn
<1>4. CASE /\ Origin = e /\ floor # "stolen" /\ Done(p, b) /\ b.held \in Deleted
           /\ floor' = "ours" /\ UNCHANGED <<discarded, shed>>
  <2>1. EdgeTurn(p)
    BY <1>4, DoneEdge
  <2>2. Turn(p, b, i)
    BY <1>4 DEF Turn
  <2> QED BY <1>4, <2>1, <2>2
<1>5. ASSUME NEW pc \in {"sending", "gate"}, Origin = e, Park(p, b, pc, e, i),
             UNCHANGED <<discarded, shed>>,
             \/ pc = "sending" /\ floor # "stolen" /\ floor' = "ours"
             \/ pc = "gate" /\ floor = "stolen" /\ floor' = floor
      PROVE  Turn(p, b, i) /\ EdgeTurn(p) /\ shed' \subseteq shed \cup Rest(b.held, i)
  <2>1. pc \in Hold /\ e \in Edge \cup {NoEdge} /\ i <= Pieces
    BY <1>1 DEF Hold
  <2>2. Turn(p, b, i)
    BY <1>5, <2>1 DEF Turn
  <2> DEFINE s == [pc |-> pc, bound |-> e, piece |-> i]
  <2>3. s \in PumpState /\ s.pc = pc /\ s.bound = e
    BY <1>2, <2>1
  <2>4. pump' = [pump EXCEPT ![p] = s]
    BY <1>5 DEF Park
  <2> HIDE DEF s
  <2>5. /\ s.bound = Origin /\ Origin # NoEdge
        /\ (s.pc = "sending" \/ (s.pc = "gate" /\ floor' = "stolen"))
        /\ (floor' = floor \/ (floor # "stolen" /\ floor' = "ours"))
    BY <1>1, <1>5, <2>3
  <2>6. EdgeTurn(p)
    BY <2>3, <2>4, <2>5, Zenon DEF EdgeTurn
  <2> QED BY <1>5, <2>2, <2>6
<1> QED BY <1>3, <1>4, <1>5 DEF Forward

\* A turn that goes on with a piece: it is forwarded, or the rest is charged.
LEMMA FrameTurn ==
    ASSUME PumpTypeOK, NEW p \in Pump, NEW b, NEW e \in Edge, NEW i \in 1 .. Pieces,
           Frame(p, b, e, i)
    PROVE  Turn(p, b, i) /\ EdgeTurn(p) /\ shed' \subseteq shed \cup Rest(b.held, i)
<1>1. CASE Forward(p, b, e, i)
  BY <1>1, ForwardTurn
<1>2. CASE b.held \in Refused /\ Discard(p, b, i) /\ UNCHANGED <<floor, shed>>
  <2>1. Done(p, b) /\ discarded' = discarded \cup Rest(b.held, i)
    BY <1>2 DEF Discard
  <2> QED BY <1>2, <2>1, DoneEdge DEF Turn
<1> QED BY <1>1, <1>2 DEF Frame

\* A turn from the top: the edge is read, and the chunk is framed, charged or kept.
LEMMA BindTurn ==
    ASSUME PumpTypeOK, NEW p \in Pump, NEW b, Bind(p, b)
    PROVE  Turn(p, b, 1) /\ EdgeTurn(p) /\ shed' \subseteq shed \cup Rest(b.held, 1)
<1>1. 1 \in 1 .. Pieces /\ 1 <= Pieces
  BY PiecesAssumption
<1>2. CASE Origin # NoEdge /\ Frame(p, b, Origin, 1)
  BY <1>1, <1>2, Typed, FrameTurn
<1>3. CASE Discard(p, b, 1) /\ UNCHANGED <<floor, shed>>
  <2>1. Done(p, b) /\ discarded' = discarded \cup Rest(b.held, 1)
    BY <1>3 DEF Discard
  <2> QED BY <1>3, <2>1, DoneEdge DEF Turn
<1>4. CASE /\ ~Attached /\ Park(p, b, "edge", NoEdge, 1)
           /\ UNCHANGED <<floor, discarded, shed>>
  <2> DEFINE s == [pc |-> "edge", bound |-> NoEdge, piece |-> 1]
  <2>1. s \in PumpState /\ s.pc = "edge" /\ s.bound = NoEdge /\ s.piece = 1
    BY <1>1 DEF PumpState
  <2>2. pump' = [pump EXCEPT ![p] = s]
    BY <1>4 DEF Park
  <2>3. "edge" \in Hold /\ NoEdge \in Edge \cup {NoEdge}
    BY DEF Hold
  <2>4. Turn(p, b, 1)
    BY <1>1, <1>4, <2>3 DEF Turn
  <2> HIDE DEF s
  <2>5. EdgeTurn(p)
    BY <1>4, <2>1, <2>2, Zenon DEF EdgeTurn
  <2> QED BY <1>4, <2>4, <2>5
<1> QED BY <1>2, <1>3, <1>4 DEF Bind

\* A turn keeps the invariant: TurnLedger and TurnEdges together.
LEMMA TurnInv ==
    ASSUME PumpInv, NEW p \in Pump, pump[p].pc # "gone",
           NEW b \in InboxState, NEW i \in 1 .. Pieces + 1,
           b.held \in Chunk, InHands(b) = {}, Unique(b.queue), b.open = inbox[p].open,
           {b.held} \cup ToSet(b.queue) = DrainAndCount(inbox[p]),
           ToSet(b.queue) \subseteq ToSet(inbox[p].queue),
           delivered \subseteq delivered', delivered' \subseteq delivered \cup Rest(b.held, 1),
           \A j \in i .. Pieces : <<b.held, j>> \notin delivered',
           \A j \in 1 .. i - 1 : <<b.held, j>> \in delivered',
           \A j \in 1 .. Pieces : <<b.held, j>> \notin discarded,
           b.held \notin ToSet(b.queue), PumpOf[b.held] = p,
           Turn(p, b, i), EdgeTurn(p), shed' \subseteq shed \cup Rest(b.held, 1),
           UNCHANGED <<slot, removed, used, torn, accepted>>,
           NEW j0 \in 1 .. Pieces,
           \/ late' = late
           \/ /\ pump[p].pc = "sending" /\ Origin # pump[p].bound
              /\ late' = late \cup {<<pump[p].bound, <<b.held, j0>>>>}
    PROVE  PumpInv'
<1>1. PumpTypeOK /\ LedgerInv /\ EdgeInv /\ LatePerPump /\ NoLostEdgeWakeup
  BY DEF PumpInv
<1>2. /\ LedgerInv'
      /\ inbox' \in [Pump -> InboxState] /\ pump' \in [Pump -> PumpState]
      /\ discarded' \subseteq Piece /\ delivered' \subseteq Piece
  BY <1>1, TurnLedger
<1> DEFINE e == pump[p].bound
           x == <<b.held, j0>>
<1>3. e = pump[p].bound /\ PumpOf[x[1]] = p
      /\ \/ late' = late
         \/ /\ pump[p].pc = "sending" /\ Origin # e
            /\ late' = late \cup {<<e, x>>}
  OBVIOUS
<1>4. x \in Piece
  BY DEF Piece
<1>5. pump[p].pc = "sending" => e \in Edge
  BY <1>1 DEF EdgeInv, Through, PumpTypeOK
<1> HIDE DEF e, x
<1>6. EdgeInv' /\ LatePerPump' /\ NoLostEdgeWakeup' /\ floor' \in {"ours", "free", "stolen"}
  BY <1>1, <1>3, TurnEdges
<1>7. late' \subseteq Edge \X Piece
  BY <1>1, <1>3, <1>4, <1>5 DEF PumpTypeOK
<1>8. shed' \subseteq Piece
  <2>1. Rest(b.held, 1) \subseteq Piece
    BY DEF Rest, Piece
  <2> QED BY <1>1, <2>1 DEF PumpTypeOK
<1>9. /\ slot' \in [edge : Edge \cup {NoEdge}, writable : BOOLEAN]
      /\ removed' \subseteq {HostOf[a] : a \in Edge}
      /\ used' \subseteq Edge /\ torn' \subseteq Chunk /\ accepted' \subseteq Chunk
  BY <1>1, Zenon DEF PumpTypeOK
<1>10. PumpTypeOK'
  BY <1>2, <1>6, <1>7, <1>8, <1>9, Zenon DEF PumpTypeOK
<1> QED BY <1>2, <1>6, <1>10 DEF PumpInv

\* What a pump has in its hands.
LEMMA HandFacts ==
    ASSUME PumpInv, NEW p \in Pump, pump[p].pc \in Hold
    PROVE  LET b == inbox[p]
               i == pump[p].piece
           IN  /\ b \in InboxState /\ i \in 1 .. Pieces /\ pump[p].pc # "gone"
               /\ b.held \in Chunk /\ InHands(b) = {} /\ Unique(b.queue)
               /\ {b.held} \cup ToSet(b.queue) = DrainAndCount(b)
               /\ \A j \in i .. Pieces : <<b.held, j>> \notin delivered
               /\ \A j \in 1 .. i - 1 : <<b.held, j>> \in delivered
               /\ \A j \in 1 .. Pieces : <<b.held, j>> \notin discarded
               /\ b.held \notin ToSet(b.queue) /\ PumpOf[b.held] = p
<1>1. PumpTypeOK /\ InQueue(p, inbox[p]) /\ InHand(p, inbox[p], pump[p].piece)
  BY DEF PumpInv, LedgerInv, QueueInv, HandInv
<1>2. inbox[p] \in InboxState /\ pump[p].piece \in 1 .. Pieces
  BY <1>1, Typed
<1>3. inbox[p].held \in Chunk /\ inbox[p].held # NoChunk
  BY <1>1, NoChunkAssumption DEF InHand, PumpTypeOK
<1> QED BY <1>1, <1>2, <1>3 DEF InHand, Fresh, InQueue, DrainAndCount, HeldChunk, Hold
-----------------------------------------------------------------------------
(* One lemma per action of a pump *)

\* The pump takes its next chunk.
LEMMA RecvInv ==
    ASSUME PumpInv, NEW p \in Pump, Recv(p)
    PROVE  PumpInv'
<1> DEFINE b == PollRecv(inbox[p])
<1>1. /\ pump[p].pc = "recv" /\ inbox[p].queue # <<>> /\ Bind(p, b)
      /\ UNCHANGED <<slot, removed, used, delivered, torn, accepted, late>>
  BY DEF Recv
<1>2. PumpTypeOK /\ InQueue(p, inbox[p]) /\ inbox[p].held = NoChunk
      /\ inbox[p] \in InboxState
  BY <1>1, Typed DEF PumpInv, LedgerInv, QueueInv, HandInv, Hold
<1>3. /\ b \in InboxState /\ InHands(b) = {} /\ Unique(b.queue)
      /\ b.open = inbox[p].open /\ b.held \in Chunk
      /\ b.held \notin ToSet(b.queue)
      /\ ToSet(inbox[p].queue) = {b.held} \cup ToSet(b.queue)
  BY <1>1, <1>2, PollFacts DEF InQueue
<1>4. Turn(p, b, 1) /\ EdgeTurn(p) /\ shed' \subseteq shed \cup Rest(b.held, 1)
  BY <1>1, <1>2, BindTurn
<1> HIDE DEF b
<1>5. {b.held} \cup ToSet(b.queue) = DrainAndCount(inbox[p])
  BY <1>2, <1>3 DEF DrainAndCount, HeldChunk
<1>6. PumpOf[b.held] = p /\ Fresh(b.held, 1)
  BY <1>2, <1>3 DEF InQueue
<1>7. Pieces \in Nat /\ 1 \in 1 .. Pieces /\ 1 \in 1 .. Pieces + 1 /\ 1 .. 1 - 1 = {}
  BY PiecesAssumption
<1>8. /\ \A j \in 1 .. Pieces : <<b.held, j>> \notin delivered'
      /\ \A j \in 1 .. Pieces : <<b.held, j>> \notin discarded
      /\ \A j \in 1 .. 1 - 1 : <<b.held, j>> \in delivered'
  BY <1>1, <1>6, <1>7 DEF Fresh
<1>9. pump[p].pc # "gone" /\ delivered' = delivered /\ late' = late
      /\ UNCHANGED <<slot, removed, used, torn, accepted>>
  BY <1>1
<1> QED BY <1>3, <1>4, <1>5, <1>6, <1>7, <1>8, <1>9, TurnInv

\* The pump, waiting for an edge, is woken.
LEMMA EdgeWakesInv ==
    ASSUME PumpInv, NEW p \in Pump, EdgeWakes(p)
    PROVE  PumpInv'
<1> DEFINE b == inbox[p]
<1>1. /\ pump[p].pc = "edgeWoken" /\ Bind(p, b)
      /\ UNCHANGED <<slot, removed, used, delivered, torn, accepted, late>>
  BY DEF EdgeWakes
<1>2. /\ b \in InboxState /\ pump[p].piece = 1 /\ pump[p].pc # "gone"
      /\ b.held \in Chunk /\ InHands(b) = {} /\ Unique(b.queue)
      /\ {b.held} \cup ToSet(b.queue) = DrainAndCount(b)
      /\ \A j \in 1 .. Pieces : <<b.held, j>> \notin delivered
      /\ \A j \in 1 .. Pieces : <<b.held, j>> \notin discarded
      /\ b.held \notin ToSet(b.queue) /\ PumpOf[b.held] = p
  <2>1. pump[p].pc \in Hold /\ pump[p].piece = 1
    BY <1>1 DEF Hold, PumpInv, EdgeInv
  <2> QED BY <2>1, HandFacts
<1>3. Turn(p, b, 1) /\ EdgeTurn(p) /\ shed' \subseteq shed \cup Rest(b.held, 1)
  BY <1>1, BindTurn DEF PumpInv
<1>4. Pieces \in Nat /\ 1 \in 1 .. Pieces /\ 1 \in 1 .. Pieces + 1
      /\ \A j \in 1 .. 1 - 1 : <<b.held, j>> \in delivered'
  BY PiecesAssumption
<1>5. delivered' = delivered /\ late' = late /\ b.open = inbox[p].open
      /\ ToSet(b.queue) \subseteq ToSet(inbox[p].queue)
      /\ DrainAndCount(b) = DrainAndCount(inbox[p])
      /\ UNCHANGED <<slot, removed, used, torn, accepted>>
  BY <1>1
<1> HIDE DEF b
<1> QED BY <1>2, <1>3, <1>4, <1>5, TurnInv

\* The pump, waiting for the floor, is woken.
LEMMA GateWakesInv ==
    ASSUME PumpInv, NEW p \in Pump, GateWakes(p)
    PROVE  PumpInv'
<1> DEFINE b == inbox[p]
           i == pump[p].piece
           e == pump[p].bound
<1>1. /\ pump[p].pc = "gateWoken" /\ Forward(p, b, e, i)
      /\ UNCHANGED <<slot, removed, used, delivered, torn, accepted, late>>
  BY DEF GateWakes
<1>2. /\ b \in InboxState /\ i \in 1 .. Pieces /\ pump[p].pc # "gone"
      /\ b.held \in Chunk /\ InHands(b) = {} /\ Unique(b.queue)
      /\ {b.held} \cup ToSet(b.queue) = DrainAndCount(b)
      /\ \A j \in i .. Pieces : <<b.held, j>> \notin delivered
      /\ \A j \in 1 .. i - 1 : <<b.held, j>> \in delivered
      /\ \A j \in 1 .. Pieces : <<b.held, j>> \notin discarded
      /\ b.held \notin ToSet(b.queue) /\ PumpOf[b.held] = p
  BY <1>1, HandFacts DEF Hold
<1>3. e \in Edge /\ PumpTypeOK
  BY <1>1 DEF PumpInv, EdgeInv, Through, PumpTypeOK
<1>4. Turn(p, b, i) /\ EdgeTurn(p) /\ shed' \subseteq shed \cup Rest(b.held, i)
  BY <1>1, <1>2, <1>3, ForwardTurn
<1>5. Pieces \in Nat /\ i \in 1 .. Pieces + 1 /\ Rest(b.held, i) \subseteq Rest(b.held, 1)
  BY <1>2, PiecesAssumption DEF Rest
<1>6. delivered' = delivered /\ late' = late /\ b.open = inbox[p].open
      /\ ToSet(b.queue) \subseteq ToSet(inbox[p].queue)
      /\ DrainAndCount(b) = DrainAndCount(inbox[p])
      /\ UNCHANGED <<slot, removed, used, torn, accepted>>
  BY <1>1
<1> HIDE DEF b, i, e
<1> QED BY <1>2, <1>4, <1>5, <1>6, TurnInv

\* The endpoint is gone: the chunk in hand is charged.
LEMMA SendFailsInv ==
    ASSUME PumpInv, NEW p \in Pump, SendFails(p)
    PROVE  PumpInv'
<1> DEFINE b == inbox[p]
           i == pump[p].piece
<1>1. /\ pump[p].pc = "sending" /\ Discard(p, b, i)
      /\ UNCHANGED <<slot, floor, removed, used, delivered, torn, accepted, late, shed>>
  BY DEF SendFails
<1>2. /\ b \in InboxState /\ i \in 1 .. Pieces /\ pump[p].pc # "gone"
      /\ b.held \in Chunk /\ InHands(b) = {} /\ Unique(b.queue)
      /\ {b.held} \cup ToSet(b.queue) = DrainAndCount(b)
      /\ \A j \in i .. Pieces : <<b.held, j>> \notin delivered
      /\ \A j \in 1 .. i - 1 : <<b.held, j>> \in delivered
      /\ \A j \in 1 .. Pieces : <<b.held, j>> \notin discarded
      /\ b.held \notin ToSet(b.queue) /\ PumpOf[b.held] = p
  BY <1>1, HandFacts DEF Hold
<1>3. Turn(p, b, i) /\ EdgeTurn(p)
  <2>1. Done(p, b) /\ discarded' = discarded \cup Rest(b.held, i)
    BY <1>1 DEF Discard
  <2> QED BY <1>1, <2>1, DoneEdge DEF Turn
<1>4. i \in 1 .. Pieces + 1
  BY <1>2, PiecesAssumption
<1>5. delivered' = delivered /\ late' = late /\ shed' = shed /\ b.open = inbox[p].open
      /\ ToSet(b.queue) \subseteq ToSet(inbox[p].queue)
      /\ DrainAndCount(b) = DrainAndCount(inbox[p])
      /\ UNCHANGED <<slot, removed, used, torn, accepted>>
  BY <1>1
<1> HIDE DEF b, i
<1> QED BY <1>2, <1>3, <1>4, <1>5, TurnInv

\* After the last piece nothing is left to charge.
LEMMA SendDoneInv ==
    ASSUME PumpInv, NEW p \in Pump, SendDone(p)
    PROVE  PumpInv'
<1> DEFINE b == inbox[p]
           i == pump[p].piece
           e == pump[p].bound
           x == <<b.held, i>>
<1>1. /\ pump[p].pc = "sending" /\ delivered' = delivered \cup {x}
      /\ late' = IF Origin = e THEN late ELSE late \cup {<<e, x>>}
      /\ \/ i = Pieces /\ Done(p, b) /\ UNCHANGED <<floor, discarded, shed>>
         \/ i < Pieces /\ Frame(p, b, e, i + 1)
      /\ UNCHANGED <<slot, removed, used, torn, accepted>>
  BY DEF SendDone
<1>2. /\ b \in InboxState /\ i \in 1 .. Pieces /\ pump[p].pc # "gone"
      /\ b.held \in Chunk /\ InHands(b) = {} /\ Unique(b.queue)
      /\ {b.held} \cup ToSet(b.queue) = DrainAndCount(b)
      /\ \A j \in i .. Pieces : <<b.held, j>> \notin delivered
      /\ \A j \in 1 .. i - 1 : <<b.held, j>> \in delivered
      /\ \A j \in 1 .. Pieces : <<b.held, j>> \notin discarded
      /\ b.held \notin ToSet(b.queue) /\ PumpOf[b.held] = p
  BY <1>1, HandFacts DEF Hold
<1>3. e \in Edge /\ PumpTypeOK
  BY <1>1 DEF PumpInv, EdgeInv, Through, PumpTypeOK
<1>4. /\ b.open = inbox[p].open /\ ToSet(b.queue) \subseteq ToSet(inbox[p].queue)
      /\ DrainAndCount(b) = DrainAndCount(inbox[p])
  OBVIOUS
<1>5. Pieces \in Nat \ {0} /\ i \in Nat /\ i + 1 \in 1 .. Pieces + 1
      /\ Rest(b.held, i + 1) \subseteq Rest(b.held, 1) /\ x \in Rest(b.held, 1)
      /\ Rest(b.held, Pieces + 1) = {}
  BY <1>2, PiecesAssumption DEF Rest
<1> HIDE DEF b, i, e
<1>6. Turn(p, b, i + 1) /\ EdgeTurn(p) /\ shed' \subseteq shed \cup Rest(b.held, 1)
  <2>1. CASE i = Pieces /\ Done(p, b) /\ UNCHANGED <<floor, discarded, shed>>
    <3>1. Done(p, b) /\ discarded' = discarded \cup Rest(b.held, i + 1)
      BY <2>1, <1>5
    <3> QED BY <2>1, <3>1, DoneEdge DEF Turn
  <2>2. CASE i < Pieces /\ Frame(p, b, e, i + 1)
    <3>1. i + 1 \in 1 .. Pieces
      BY <2>2, <1>5
    <3> QED BY <2>2, <3>1, <1>3, <1>5, FrameTurn
  <2> QED BY <2>1, <2>2, <1>1
<1>7. \A j \in i + 1 .. Pieces : <<b.held, j>> \notin delivered'
  BY <1>1, <1>2, <1>5
<1>8. \A j \in 1 .. (i + 1) - 1 : <<b.held, j>> \in delivered'
  BY <1>1, <1>2, <1>5
<1>9. \/ late' = late
      \/ /\ pump[p].pc = "sending" /\ Origin # pump[p].bound
         /\ late' = late \cup {<<pump[p].bound, <<b.held, i>>>>}
  BY <1>1 DEF e
<1>10. delivered \subseteq delivered' /\ delivered' \subseteq delivered \cup Rest(b.held, 1)
       /\ UNCHANGED <<slot, removed, used, torn, accepted>>
  BY <1>1, <1>5
<1> QED BY <1>2, <1>4, <1>5, <1>6, <1>7, <1>8, <1>9, <1>10, TurnInv
-----------------------------------------------------------------------------
(* The control plane *)

\* A step that changes the slot or the floor and wakes who waits for it.
LEMMA WakingInv ==
    ASSUME PumpInv, NEW pcs \in SUBSET {"edge", "gate"}, pump' = Wake(pcs), "gate" \in pcs,
           slot' = slot \/ ("edge" \in pcs /\ slot'.edge \in (used' \ used) \cup {NoEdge}),
           slot' \in [edge : Edge \cup {NoEdge}, writable : BOOLEAN],
           floor' \in {"ours", "free", "stolen"},
           removed' \subseteq {HostOf[e] : e \in Edge},
           used \subseteq used', used' \subseteq Edge,
           UNCHANGED <<inbox, ledgers, accepted, late, shed>>
    PROVE  PumpInv'
<1>1. PumpTypeOK /\ LedgerInv /\ EdgeInv /\ LatePerPump /\ NoLostEdgeWakeup
      /\ pump \in [Pump -> PumpState] /\ used \subseteq Edge /\ NoEdge \notin Edge
      /\ late \subseteq Edge \X Piece
  BY EdgeAssumption DEF PumpInv, PumpTypeOK
<1>2. pump' \in [Pump -> PumpState]
  <2>1. CASE Pump = {}
    BY <1>1, <2>1 DEF Wake
  <2>2. CASE Pump # {}
    BY <1>1, <2>2, WakeFacts
  <2> QED BY <2>1, <2>2
<1>3. ASSUME NEW p \in Pump
      PROVE  /\ pump'[p].bound = pump[p].bound /\ pump'[p].piece = pump[p].piece
             /\ pump'[p].pc = IF pump[p].pc \notin pcs THEN pump[p].pc
                              ELSE IF pump[p].pc = "edge" THEN "edgeWoken" ELSE "gateWoken"
  BY <1>1, WakeFacts
<1>4. LedgerInv'
  <2>1. ASSUME NEW p \in Pump
        PROVE  /\ pump'[p].piece = pump[p].piece
               /\ pump'[p].pc \in Hold <=> pump[p].pc \in Hold
               /\ pump'[p].pc = "recv" <=> pump[p].pc = "recv"
               /\ pump'[p].pc = "gone" <=> pump[p].pc = "gone"
    BY <1>3 DEF Hold
  <2> QED BY <1>1, <2>1, LedgerKept
<1>5. slot'.edge \in used' \cup {NoEdge}
  BY <1>1 DEF EdgeInv
<1>6. ASSUME NEW p \in Pump
      PROVE  /\ pump'[p].pc \in Through => pump'[p].bound \in used'
             /\ pump'[p].pc \notin Through => pump'[p].bound = NoEdge
             /\ pump'[p].pc \in {"edge", "edgeWoken"} => pump'[p].piece = 1
             /\ pump'[p].bound = slot'.edge /\ slot'.edge # NoEdge => slot'.writable
  <2>1. /\ pump[p].pc \in Through => pump[p].bound \in used
        /\ pump[p].pc \notin Through => pump[p].bound = NoEdge
        /\ pump[p].pc \in {"edge", "edgeWoken"} => pump[p].piece = 1
        /\ pump[p].bound = slot.edge /\ slot.edge # NoEdge => slot.writable
    BY <1>1 DEF EdgeInv, Attached
  <2> QED BY <1>1, <1>3, <2>1 DEF Through
<1>7. ASSUME NEW y \in late
      PROVE  y[1] \in used' /\ y[1] # slot'.edge /\ pump'[PumpOf[y[2][1]]].bound # y[1]
  <2>1. y[1] \in used /\ y[1] # slot.edge /\ pump[PumpOf[y[2][1]]].bound # y[1]
    BY <1>1 DEF EdgeInv
  <2>2. PumpOf[y[2][1]] \in Pump
    BY <1>1, PumpOfAssumption DEF Piece
  <2> QED BY <1>1, <1>3, <2>1, <2>2
<1>8. EdgeInv'
  BY <1>5, <1>6, <1>7 DEF EdgeInv, Attached
<1>9. NoLostEdgeWakeup'
  <2> SUFFICES ASSUME NEW p \in Pump
               PROVE  pump'[p].pc # "gate" /\ (pump'[p].pc = "edge" => slot'.edge = NoEdge)
    BY DEF NoLostEdgeWakeup, Attached
  <2> QED BY <1>1, <1>3 DEF NoLostEdgeWakeup, Attached
<1>10. LatePerPump'
  BY <1>1 DEF LatePerPump
<1>11. PumpTypeOK'
  <2>1. UNCHANGED <<inbox, delivered, discarded, torn, accepted, late, shed>>
    BY DEF ledgers
  <2> QED BY <1>1, <1>2, <2>1, Zenon DEF PumpTypeOK
<1> QED BY <1>4, <1>8, <1>9, <1>10, <1>11 DEF PumpInv

\* Slots are slots.
LEMMA SlotFacts ==
    /\ Unattached \in [edge : Edge \cup {NoEdge}, writable : BOOLEAN]
    /\ Unattached.edge = NoEdge
    /\ \A e \in Edge, w \in BOOLEAN :
           LET s == [edge |-> e, writable |-> w]
           IN  s \in [edge : Edge \cup {NoEdge}, writable : BOOLEAN] /\ s.edge = e
<1>1. \A e \in Edge \cup {NoEdge}, w \in BOOLEAN :
           LET s == [edge |-> e, writable |-> w]
           IN  s \in [edge : Edge \cup {NoEdge}, writable : BOOLEAN] /\ s.edge = e
  OBVIOUS
<1>2. FALSE \in BOOLEAN /\ NoEdge \in Edge \cup {NoEdge}
  OBVIOUS
<1> QED BY <1>1, <1>2, Zenon DEF Unattached

\* connect fills the slot and wakes whoever waits for an edge.
LEMMA ConnectInv ==
    ASSUME PumpInv, NEW e \in Edge, Connect(e)
    PROVE  PumpInv'
<1>1. /\ e \notin used /\ used' = used \cup {e} /\ pump' = Wake({"edge", "gate"})
      /\ UNCHANGED <<inbox, removed, ledgers, accepted, late, shed>>
  BY DEF Connect
<1>2. PumpTypeOK /\ used \subseteq Edge /\ floor \in {"ours", "free", "stolen"}
      /\ removed \subseteq {HostOf[a] : a \in Edge}
  BY DEF PumpInv, PumpTypeOK
<1>3. slot' = [edge |-> e, writable |-> TRUE] \/ slot' = [edge |-> e, writable |-> FALSE]
  BY Zenon DEF Connect
<1>4. slot' \in [edge : Edge \cup {NoEdge}, writable : BOOLEAN] /\ slot'.edge = e
  <2>1. TRUE \in BOOLEAN /\ FALSE \in BOOLEAN
    OBVIOUS
  <2> QED BY <1>3, <2>1, SlotFacts, Zenon
<1>5. floor' \in {"ours", "free", "stolen"}
  <2>1. floor' \in {"ours", "stolen"} \/ floor' = floor
    BY Zenon DEF Connect
  <2> QED BY <2>1, <1>2
<1> DEFINE pcs == {"edge", "gate"}
<1>6. pcs \in SUBSET {"edge", "gate"} /\ "gate" \in pcs /\ "edge" \in pcs /\ pump' = Wake(pcs)
  BY <1>1
<1> HIDE DEF pcs
<1> QED BY <1>1, <1>2, <1>4, <1>5, <1>6, WakingInv

\* Detaching the edge, whatever removes it.
LEMMA DetachInv ==
    ASSUME PumpInv, Detach, removed' \subseteq {HostOf[e] : e \in Edge},
           UNCHANGED <<inbox, used, ledgers, accepted, late, shed>>
    PROVE  PumpInv'
<1> DEFINE pcs == {"edge", "gate"}
<1>1. pcs \in SUBSET {"edge", "gate"} /\ "gate" \in pcs /\ "edge" \in pcs /\ pump' = Wake(pcs)
      /\ floor' = "free"
  BY DEF Detach
<1>2. slot' \in [edge : Edge \cup {NoEdge}, writable : BOOLEAN] /\ slot'.edge = NoEdge
  <2>1. slot' = Unattached
    BY DEF Detach
  <2> QED BY <2>1, SlotFacts, Zenon
<1>3. used \subseteq used' /\ used' \subseteq Edge
  BY DEF PumpInv, PumpTypeOK
<1> HIDE DEF pcs
<1> QED BY <1>1, <1>2, <1>3, WakingInv

\* disconnect empties the slot.
LEMMA DisconnectInv ==
    ASSUME PumpInv, Disconnect
    PROVE  PumpInv'
<1>1. Detach /\ UNCHANGED <<inbox, removed, used, ledgers, accepted, late, shed>>
  BY DEF Disconnect
<1> QED BY <1>1, DetachInv DEF PumpInv, PumpTypeOK

\* The endpoint above is removed with what it had taken.
LEMMA RemoveUpstreamInv ==
    ASSUME PumpInv, NEW e \in Edge, RemoveUpstream(HostOf[e])
    PROVE  PumpInv'
<1>1. /\ removed' = removed \cup {HostOf[e]}
      /\ Detach \/ UNCHANGED <<slot, floor, pump>>
      /\ UNCHANGED <<inbox, used, ledgers, accepted, late, shed>>
  BY DEF RemoveUpstream
<1>2. removed' \subseteq {HostOf[a] : a \in Edge}
  BY <1>1 DEF PumpInv, PumpTypeOK
<1>3. CASE Detach
  BY <1>1, <1>2, <1>3, DetachInv
<1>4. CASE UNCHANGED <<slot, floor, pump>>
  <2>1. UNCHANGED <<inbox, pump, slot, floor, used, delivered, discarded, torn, accepted,
                    late, shed>>
    BY <1>1, <1>4 DEF ledgers
  <2>2. PumpTypeOK'
    BY <1>2, <2>1, Zenon DEF PumpInv, PumpTypeOK
  <2>3. LedgerInv'
    BY <1>1, <1>4, LedgerKept DEF PumpInv
  <2>4. EdgeInv' /\ LatePerPump' /\ NoLostEdgeWakeup'
    BY <2>1 DEF PumpInv, EdgeInv, LatePerPump, NoLostEdgeWakeup, Attached, Origin
  <2> QED BY <2>2, <2>3, <2>4 DEF PumpInv
<1> QED BY <1>1, <1>3, <1>4

\* The floor of the endpoint above changes hands.
LEMMA FloorInv ==
    ASSUME PumpInv, Steal \/ StealerLeaves
    PROVE  PumpInv'
<1> DEFINE pcs == {"gate"}
<1>1. pcs \in SUBSET {"edge", "gate"} /\ "gate" \in pcs /\ pump' = Wake(pcs)
      /\ floor' \in {"ours", "free", "stolen"}
      /\ UNCHANGED <<inbox, slot, removed, used, ledgers, accepted, late, shed>>
  BY DEF Steal, StealerLeaves
<1>2. /\ slot \in [edge : Edge \cup {NoEdge}, writable : BOOLEAN]
      /\ removed \subseteq {HostOf[e] : e \in Edge} /\ used \subseteq Edge
  BY DEF PumpInv, PumpTypeOK
<1> HIDE DEF pcs
<1> QED BY <1>1, <1>2, WakingInv

\* Teardown empties every queue and every hand onto its counter.
LEMMA RemoveNodeInv ==
    ASSUME PumpInv, RemoveNode
    PROVE  PumpInv'
<1>1. /\ PumpTypeOK /\ LedgerInv /\ EdgeInv /\ LatePerPump /\ NoLostEdgeWakeup
      /\ inbox \in [Pump -> InboxState] /\ accepted \subseteq Chunk
      /\ late \subseteq Edge \X Piece /\ used \subseteq Edge /\ NoEdge \notin Edge
      /\ delivered \subseteq Piece /\ Pieces \in Nat \ {0}
  BY EdgeAssumption, PiecesAssumption DEF PumpInv, PumpTypeOK
<1>2. /\ ~Gone /\ slot' = Unattached /\ floor' = "free"
      /\ torn' = torn \cup UNION {DrainAndCount(inbox[p]) : p \in Pump}
      /\ inbox' = [p \in Pump |-> Taken(inbox[p])]
      /\ pump' = [p \in Pump |-> [AtRecv EXCEPT !.pc = "gone"]]
      /\ UNCHANGED <<removed, used, delivered, discarded, accepted, late, shed>>
  BY DEF RemoveNode
<1>3. slot' \in [edge : Edge \cup {NoEdge}, writable : BOOLEAN] /\ slot'.edge = NoEdge
  BY <1>2, SlotFacts, Zenon
<1>4. pump' \in [Pump -> PumpState]
      /\ \A p \in Pump : pump'[p].pc = "gone" /\ pump'[p].bound = NoEdge
  <2> DEFINE s == [AtRecv EXCEPT !.pc = "gone"]
  <2>1. s \in PumpState /\ s.pc = "gone" /\ s.bound = NoEdge
    BY <1>1 DEF AtRecv, PumpState
  <2>2. pump' = [p \in Pump |-> s]
    BY <1>2
  <2> HIDE DEF s
  <2> QED BY <2>1, <2>2
<1>5. ASSUME NEW b \in InboxState
      PROVE  /\ Taken(b) \in InboxState /\ Taken(b).queue = <<>> /\ Taken(b).held = NoChunk
             /\ InHands(Taken(b)) = InHands(b) /\ ~Taken(b).open
  <2> DEFINE z == <<>>
             no == FALSE
  <2>1. z \in Seq(Chunk) /\ no \in BOOLEAN /\ ~no
    OBVIOUS
  <2>2. Taken(b) = [b EXCEPT !.open = no, !.queue = z, !.held = NoChunk]
    BY DEF Taken
  <2> HIDE DEF z, no
  <2>3. /\ Taken(b) \in InboxState /\ Taken(b).queue = z /\ Taken(b).held = NoChunk
        /\ Taken(b).waiting = b.waiting /\ Taken(b).granted = b.granted
    BY <2>1, <2>2 DEF InboxState
  <2>4. Taken(b).open = no
    BY <2>2 DEF InboxState
  <2> QED BY <2>1, <2>3, <2>4 DEF z, InHands
<1>6. inbox' \in [Pump -> InboxState]
      /\ \A p \in Pump : /\ inbox'[p].queue = <<>> /\ inbox'[p].held = NoChunk
                         /\ InHands(inbox'[p]) = InHands(inbox[p]) /\ ~inbox'[p].open
  BY <1>1, <1>2, <1>5
<1>7. torn = {}
  BY <1>1, <1>2 DEF LedgerInv, CountInv
\* What is torn was queued, untouched, or in a pump's hands, not charged.
<1>8. ASSUME NEW c \in torn'
      PROVE  /\ c \in accepted
             /\ \A j \in 1 .. Pieces : <<c, j>> \notin discarded
             /\ \A j \in 1 .. Pieces : <<c, j>> \in delivered => c = inbox[PumpOf[c]].held
  <2>1. PICK p \in Pump : c \in ToSet(inbox[p].queue) \/ (c = inbox[p].held /\ c # NoChunk)
    BY <1>2, <1>7 DEF DrainAndCount, HeldChunk
  <2>2. CASE c \in ToSet(inbox[p].queue)
    BY <1>1, <2>2 DEF LedgerInv, QueueInv, InQueue, Fresh
  <2>3. CASE c = inbox[p].held /\ c # NoChunk
    BY <1>1, <2>3 DEF LedgerInv, HandInv, InHand
  <2> QED BY <2>1, <2>2, <2>3
<1>9. torn' \subseteq accepted
  BY <1>8
<1>10. PumpTypeOK'
  <2>1. torn' \subseteq Chunk /\ floor' \in {"ours", "free", "stolen"}
    BY <1>1, <1>2, <1>9
  <2> QED BY <1>1, <1>2, <1>3, <1>4, <1>6, <2>1, Zenon DEF PumpTypeOK
<1>11. QueueInv'
  <2>1. \A p \in Pump : Unique(inbox'[p].queue) /\ ToSet(inbox'[p].queue) = {}
    BY <1>6, ToSetEmpty DEF Unique
  <2>2. \A p \in Pump : InHands(inbox'[p]) = {}
    BY <1>1, <1>6 DEF LedgerInv, QueueInv, InQueue
  <2> QED BY <2>1, <2>2 DEF QueueInv, InQueue
<1>12. HandInv'
  BY <1>4, <1>6 DEF HandInv, Hold
<1>13. CountInv'
  BY <1>1, <1>2, <1>4, <1>6, <1>9 DEF LedgerInv, CountInv, Gone
<1>14. NoPieceVanishes'
  <2> SUFFICES ASSUME NEW c \in accepted, NEW i \in 1 .. Pieces,
                      c \notin torn' \cup Deleted
               PROVE  <<c, i>> \in delivered \cup discarded
    BY <1>2 DEF NoPieceVanishes
  <2>1. PumpOf[c] \in Pump /\ c # NoChunk
    BY <1>1, PumpOfAssumption, NoChunkAssumption
  <2>2. c \notin DrainAndCount(inbox[PumpOf[c]])
    BY <1>2, <2>1
  <2>3. ~Pending(c, i)
    BY <2>1, <2>2 DEF Pending, DrainAndCount, HeldChunk
  <2> QED BY <1>1, <1>2, <2>3 DEF LedgerInv, NoPieceVanishes
<1>15. PieceChargedOnce'
  <2>1. \A x \in delivered \cup discarded : \E j \in 1 .. Pieces : x = <<x[1], j>>
    BY <1>1 DEF PumpTypeOK, Piece
  <2>2. \A x \in discarded : x[1] \notin torn'
    BY <1>8, <2>1
  <2>3. \A x \in delivered : x[1] \in torn' => x[1] = inbox[PumpOf[x[1]]].held
    BY <1>8, <2>1
  <2>4. \A x, y \in delivered :
            x[1] \in torn' /\ y[1] \in torn' /\ PumpOf[x[1]] = PumpOf[y[1]] => x[1] = y[1]
    BY <2>3
  <2> QED BY <1>1, <1>2, <2>2, <2>4 DEF LedgerInv, PieceChargedOnce
<1>16. EdgeInv'
  <2>1. \A y \in late : /\ y[1] \in used /\ y[1] # NoEdge
                        /\ pump'[PumpOf[y[2][1]]].bound # y[1]
    <3> SUFFICES ASSUME NEW y \in late
                 PROVE  y[1] \in used /\ y[1] # NoEdge /\ pump'[PumpOf[y[2][1]]].bound # y[1]
      OBVIOUS
    <3>1. PumpOf[y[2][1]] \in Pump
      BY <1>1, PumpOfAssumption DEF Piece
    <3>2. y[1] \in used
      BY <1>1 DEF EdgeInv
    <3> QED BY <1>1, <1>4, <3>1, <3>2
  <2> QED BY <1>2, <1>3, <1>4, <2>1 DEF EdgeInv, Attached, Through
<1>17. LatePerPump' /\ NoLostEdgeWakeup'
  BY <1>1, <1>2, <1>4 DEF LatePerPump, NoLostEdgeWakeup
<1> QED BY <1>10, <1>11, <1>12, <1>13, <1>14, <1>15, <1>16, <1>17 DEF PumpInv, LedgerInv

\* A new pump with an empty queue and no edge.
LEMMA PumpInitInv == PumpInit => PumpInv
<1> SUFFICES ASSUME PumpInit PROVE PumpInv
  OBVIOUS
<1>1. NewInbox \in InboxState /\ NewInbox.queue = <<>> /\ NewInbox.held = NoChunk
      /\ NewInbox.waiting = <<>> /\ NewInbox.granted = {}
  BY DEF NewInbox, InboxState
<1>2. InHands(NewInbox) = {} /\ ToSet(NewInbox.queue) = {} /\ Unique(NewInbox.queue)
  BY <1>1, ToSetEmpty DEF InHands, Unique
<1>3. AtRecv \in PumpState /\ AtRecv.pc = "recv" /\ AtRecv.bound = NoEdge
  BY PiecesAssumption DEF AtRecv, PumpState
<1>4. /\ inbox = [p \in Pump |-> NewInbox] /\ pump = [p \in Pump |-> AtRecv]
      /\ slot = Unattached /\ floor = "free" /\ removed = {} /\ used = {}
      /\ delivered = {} /\ discarded = {} /\ torn = {}
      /\ accepted = {} /\ late = {} /\ shed = {}
  BY DEF PumpInit
<1>5. slot \in [edge : Edge \cup {NoEdge}, writable : BOOLEAN] /\ slot.edge = NoEdge
  BY <1>4, SlotFacts, Zenon
<1>6. \A p \in Pump : inbox[p] = NewInbox /\ pump[p] = AtRecv
  BY <1>4
<1>7. inbox \in [Pump -> InboxState] /\ pump \in [Pump -> PumpState]
  BY <1>1, <1>3, <1>4
<1>8. PumpTypeOK
  <2>1. floor \in {"ours", "free", "stolen"}
    BY <1>4
  <2> QED BY <1>4, <1>5, <1>7, <2>1, Zenon DEF PumpTypeOK
<1>9. LedgerInv
  BY <1>1, <1>2, <1>3, <1>4, <1>6 DEF LedgerInv, QueueInv, InQueue, HandInv, CountInv,
     NoPieceVanishes, PieceChargedOnce, Hold
<1>10. EdgeInv /\ LatePerPump /\ NoLostEdgeWakeup
  BY <1>3, <1>4, <1>5, <1>6 DEF EdgeInv, LatePerPump, NoLostEdgeWakeup, Attached, Through
<1> QED BY <1>8, <1>9, <1>10 DEF PumpInv
-----------------------------------------------------------------------------
(* Theorems *)

\* The inductive invariant holds of every behaviour of the pumps and the control
\* plane around them.
THEOREM PumpInvariance == PumpSpec => []PumpInv
<1>1. PumpInit => PumpInv
  BY PumpInitInv
<1>2. PumpInv /\ [PumpNext]_vars => PumpInv'
  <2> SUFFICES ASSUME PumpInv, [PumpNext]_vars PROVE PumpInv'
    OBVIOUS
  <2>1. ASSUME NEW c \in Chunk, Accept(c) PROVE PumpInv'
    BY <2>1, AcceptInv
  <2>2. ASSUME NEW p \in Pump,
               Recv(p) \/ EdgeWakes(p) \/ GateWakes(p) \/ SendDone(p) \/ SendFails(p)
        PROVE  PumpInv'
    BY <2>2, RecvInv, EdgeWakesInv, GateWakesInv, SendDoneInv, SendFailsInv
  <2>3. ASSUME NEW e \in Edge, Connect(e) \/ RemoveUpstream(HostOf[e]) PROVE PumpInv'
    BY <2>3, ConnectInv, RemoveUpstreamInv
  <2>4. CASE Disconnect \/ RemoveNode \/ Steal \/ StealerLeaves
    BY <2>4, DisconnectInv, RemoveNodeInv, FloorInv
  <2>5. CASE UNCHANGED vars
    <3>1. UNCHANGED <<inbox, pump, slot, floor, removed, used, delivered, discarded, torn,
                      accepted, late, shed>>
      BY <2>5 DEF vars, ledgers
    <3>2. PumpTypeOK'
      BY <3>1, Zenon DEF PumpInv, PumpTypeOK
    <3>3. LedgerInv'
      BY <3>1, LedgerKept DEF PumpInv, ledgers
    <3>4. EdgeInv' /\ LatePerPump' /\ NoLostEdgeWakeup'
      BY <3>1 DEF PumpInv, EdgeInv, LatePerPump, NoLostEdgeWakeup, Attached, Origin
    <3> QED BY <3>2, <3>3, <3>4 DEF PumpInv
  <2> QED BY <2>1, <2>2, <2>3, <2>4, <2>5 DEF PumpNext
<1> QED BY <1>1, <1>2, PTL DEF PumpSpec

\* For any number of pumps, chunks, pieces and edges: every piece of every chunk
\* an interior node accepted is pending, delivered upstream or on a counter,
\* none twice, and a detached edge gets at most one piece more of each pump.
THEOREM PumpLedgerHolds == PumpSpec => []PumpLedger
<1>1. PumpInv => PumpLedger
  BY DEF PumpInv, LedgerInv, PumpLedger
<1> QED BY <1>1, PumpInvariance, PTL

\* For any number of pumps and edges: no pump sleeps in await_origin while an
\* edge is attached, nor in reacquire_held while it could have the floor.
THEOREM NoEdgeWakeupLost == PumpSpec => []NoLostEdgeWakeup
<1>1. PumpInv => NoLostEdgeWakeup
  BY DEF PumpInv
<1> QED BY <1>1, PumpInvariance, PTL
-----------------------------------------------------------------------------
(* The exec codec: the inductive invariant *)

Some(x) == {x} \ {0}

\* A bounded queue without repetitions.
Queue(q, cap) == q \in Seq(Int) /\ Len(q) <= cap /\ Unique(q)

ExecTypes ==
    /\ arrived \in [t : Nat, h : Nat]
    /\ chan \in [queue : Seq(Int), held : Int]
    /\ merge \in [queue : Seq(Int), held : Int, writing : BOOLEAN, mux : Int]
    /\ kid \in [alive : BOOLEAN, stdin : Seq(Int), stdout : Seq(Int), hand : Int]
    /\ super \in [at : {"spawn", "pump", "kill", "backoff", "gone"}, live : BOOLEAN, spawns : Nat]
    /\ execNode \in [status : {"active", "waiting", "faulted"}, attached : BOOLEAN, surgery : Nat]
    /\ routing \in Int
    /\ fate \in [fed : SUBSET Int, torn : SUBSET Int, shed : SUBSET Int, sent : SUBSET Int,
                 heard : SUBSET Int, orphaned : SUBSET Int]

\* The queues are those of the pipes and channels.
QueuesInv ==
    /\ Queue(chan.queue, MergeCap) /\ Queue(merge.queue, MergeCap)
    /\ Queue(kid.stdin, PipeCap) /\ Queue(kid.stdout, PipeCap)

\* The way to the child, of t chunks of the channel and h of the device: each is in
\* one of the queues and hands, or was fed (F), torn (T) or orphaned (O).
Custody(t, h, CQ, CH, MQ, MH, MX, F, T, O) ==
    /\ CQ \cap CH = {} /\ CQ \cap MQ = {} /\ CQ \cap MH = {} /\ CQ \cap MX = {}
    /\ CH \cap MQ = {} /\ CH \cap MH = {} /\ CH \cap MX = {}
    /\ MQ \cap MH = {} /\ MQ \cap MX = {} /\ MH \cap MX = {}
    /\ (CQ \cup CH \cup MQ \cup MH \cup MX) \cap (F \cup T \cup O) = {}
    /\ T \cap (F \cup O) = {}
    /\ 1 .. t \subseteq CQ \cup CH \cup MQ \cup MH \cup F \cup T \cup O
    /\ \A c \in CQ \cup CH \cup T : c \in 1 .. t
    /\ \A c \in MX : c < 0 /\ c >= -h
    /\ \A c \in MQ \cup MH \cup F \cup O : c \in 1 .. t \/ (c < 0 /\ c >= -h)

CustodyInv ==
    Custody(arrived.t, arrived.h, ToSet(chan.queue), Some(chan.held), ToSet(merge.queue),
            Some(merge.held), Some(merge.mux), fate.fed, fate.torn, fate.orphaned)

\* The way from the child: what was fed is in one of the pipes and hands, or was shed
\* (SH) or sent (SE), or neither.
Answers(F, SI, HA, SO, RO, SH, SE) ==
    /\ SI \cup HA \cup SO \cup RO \cup SH \cup SE \subseteq F
    /\ SI \cap HA = {} /\ SI \cap SO = {} /\ SI \cap RO = {}
    /\ HA \cap SO = {} /\ HA \cap RO = {} /\ SO \cap RO = {}
    /\ (SI \cup HA \cup SO \cup RO) \cap (SH \cup SE) = {}
    /\ SH \cap SE = {}
    /\ \A c \in SH \cup SE \cup RO : c > 0

AnswersInv ==
    Answers(fate.fed, ToSet(kid.stdin), Some(kid.hand), ToSet(kid.stdout), Some(routing),
            fate.shed, fate.sent)

\* The supervisor and the status, and what is over when the node is gone.
SuperInv ==
    /\ super.at = "pump" => super.live /\ execNode.status = StatusOf(execNode.attached)
    /\ super.at = "backoff" => ~super.live /\ execNode.status = "faulted"
    /\ merge.writing => merge.held # 0 /\ super.at = "pump"
    /\ super.at = "gone" => ~kid.alive
    /\ fate.torn # {} => super.at = "gone"

ExecInv == ExecTypes /\ QueuesInv /\ CustodyInv /\ AnswersInv /\ SuperInv
-----------------------------------------------------------------------------
(* The exec codec: queues and hands *)

\* A chunk that is nowhere goes to the end of a queue with room.
LEMMA QueuePush ==
    ASSUME NEW q, NEW cap \in Nat, NEW c \in Int, Queue(q, cap), Len(q) < cap, c \notin ToSet(q)
    PROVE  /\ Queue(Append(q, c), cap) /\ Append(q, c) \in Seq(Int)
           /\ ToSet(Append(q, c)) = ToSet(q) \cup {c}
<1>1. q \in Seq(Int) /\ Unique(q)
  BY DEF Queue
<1>2. /\ Append(q, c) \in Seq(Int) /\ Len(Append(q, c)) = Len(q) + 1 /\ Len(q) \in Nat
  BY <1>1, AppendProperties
<1>3. Unique(Append(q, c)) /\ ToSet(Append(q, c)) = ToSet(q) \cup {c}
  BY <1>1, UniqueAppend, ToSetAppend
<1>4. Len(Append(q, c)) <= cap
  <2> DEFINE n == Len(q)
             m == Len(Append(q, c))
  <2>1. m = n + 1 /\ n \in Nat /\ n < cap
    BY <1>2
  <2> HIDE DEF n, m
  <2>2. m <= cap
    BY <2>1
  <2> QED BY <2>2 DEF m
<1> QED BY <1>2, <1>3, <1>4 DEF Queue

\* A queue loses its head.
LEMMA QueuePop ==
    ASSUME NEW q, NEW cap \in Nat, Queue(q, cap), q # <<>>
    PROVE  /\ Queue(Tail(q), cap) /\ Tail(q) \in Seq(Int) /\ Head(q) \in Int
           /\ Head(q) \in ToSet(q) /\ ToSet(Tail(q)) = ToSet(q) \ {Head(q)}
<1>1. q \in Seq(Int) /\ Unique(q)
  BY DEF Queue
<1>2. /\ Head(q) \in Int /\ Tail(q) \in Seq(Int)
      /\ ToSet(q) = {Head(q)} \cup ToSet(Tail(q))
  BY <1>1, ToSetHead
<1>3. Unique(Tail(q)) /\ Head(q) \notin ToSet(Tail(q))
  BY <1>1, UniqueTail
<1>4. Len(Tail(q)) <= cap
  <2> DEFINE n == Len(q)
             m == Len(Tail(q))
  <2>1. m = n - 1 /\ n \in Nat /\ n <= cap
    BY <1>1, HeadTailProperties DEF Queue
  <2> HIDE DEF n, m
  <2>2. m <= cap
    BY <2>1
  <2> QED BY <2>2 DEF m
<1>5. ToSet(Tail(q)) = ToSet(q) \ {Head(q)}
  <2> DEFINE A == ToSet(q)
             B == ToSet(Tail(q))
             x == Head(q)
  <2> HIDE DEF A, B, x
  <2>1. A = {x} \cup B /\ x \notin B
    BY <1>2, <1>3 DEF A, B, x
  <2>2. B = A \ {x}
    BY <2>1
  <2> QED BY <2>2 DEF A, B, x
<1>6. Head(q) \in ToSet(q)
  BY <1>2
<1> QED BY <1>2, <1>3, <1>4, <1>5, <1>6 DEF Queue

\* An empty queue.
LEMMA QueueNone ==
    ASSUME NEW cap \in Nat
    PROVE  Queue(<<>>, cap) /\ <<>> \in Seq(Int) /\ ToSet(<<>>) = {}
<1>1. <<>> \in Seq(Int) /\ Len(<<>>) = 0
  BY EmptySeq
<1>2. Unique(<<>>) /\ 0 <= cap
  BY <1>1 DEF Unique
<1> QED BY <1>1, <1>2, ToSetEmpty DEF Queue

\* The bounds of the model.
LEMMA ExecBounds == MergeCap \in Nat /\ PipeCap \in Nat
BY ExecAssumption

\* An empty hand, and a full one.
LEMMA SomeOf ==
    ASSUME NEW x \in Int
    PROVE  (x = 0 => Some(x) = {}) /\ (x # 0 => Some(x) = {x}) /\ Some(0) = {}
BY DEF Some

\* The state, field by field.
LEMMA ExecFields ==
    ASSUME ExecInv
    PROVE  /\ arrived.t \in Nat /\ arrived.h \in Nat
           /\ chan.held \in Int /\ merge.held \in Int /\ merge.mux \in Int /\ kid.hand \in Int
           /\ routing \in Int
<1>1. arrived \in [t : Nat, h : Nat] /\ routing \in Int
  BY DEF ExecInv, ExecTypes
<1>2. chan.held \in Int
  BY DEF ExecInv, ExecTypes
<1>3. merge.held \in Int /\ merge.mux \in Int
  BY DEF ExecInv, ExecTypes
<1>4. kid.hand \in Int
  BY DEF ExecInv, ExecTypes
<1> QED BY <1>1, <1>2, <1>3, <1>4

\* The initial states.
LEMMA ExecInitInv == ExecInit => ExecInv
<1> SUFFICES ASSUME ExecInit PROVE ExecInv
  OBVIOUS
<1> DEFINE e == <<>>
           no == FALSE
<1>1. /\ arrived = [t |-> 0, h |-> 0] /\ chan = [queue |-> e, held |-> 0]
      /\ merge = [queue |-> e, held |-> 0, writing |-> no, mux |-> 0]
      /\ kid = [alive |-> no, stdin |-> e, stdout |-> e, hand |-> 0]
      /\ super = [at |-> "spawn", live |-> no, spawns |-> 0] /\ routing = 0
      /\ fate = [fed |-> {}, torn |-> {}, shed |-> {}, sent |-> {}, heard |-> {}, orphaned |-> {}]
  BY DEF ExecInit, NoKid
<1>2. /\ e \in Seq(Int) /\ ToSet(e) = {} /\ Queue(e, MergeCap) /\ Queue(e, PipeCap)
      /\ no \in BOOLEAN /\ ~no
  BY QueueNone, ExecBounds
<1> HIDE DEF e, no
<1>3. PICK a \in BOOLEAN : execNode = [status |-> IF a THEN "active" ELSE "waiting", attached |-> a, surgery |-> 0]
  BY DEF ExecInit
<1>4. ExecTypes
  <2>1. execNode \in [status : {"active", "waiting", "faulted"}, attached : BOOLEAN, surgery : Nat]
    BY <1>3
  <2>2. /\ arrived \in [t : Nat, h : Nat] /\ chan \in [queue : Seq(Int), held : Int]
        /\ merge \in [queue : Seq(Int), held : Int, writing : BOOLEAN, mux : Int]
    BY <1>1, <1>2
  <2>3. /\ kid \in [alive : BOOLEAN, stdin : Seq(Int), stdout : Seq(Int), hand : Int]
        /\ super \in [at : {"spawn", "pump", "kill", "backoff", "gone"}, live : BOOLEAN, spawns : Nat]
        /\ routing \in Int
    BY <1>1, <1>2
  <2>4. fate \in [fed : SUBSET Int, torn : SUBSET Int, shed : SUBSET Int, sent : SUBSET Int,
                  heard : SUBSET Int, orphaned : SUBSET Int]
    BY <1>1
  <2> QED BY <2>1, <2>2, <2>3, <2>4 DEF ExecTypes
<1>5. QueuesInv
  BY <1>1, <1>2 DEF QueuesInv
<1>6. Some(0) = {}
  BY DEF Some
<1>7. CustodyInv
  <2>1. Custody(0, 0, {}, {}, {}, {}, {}, {}, {}, {})
    BY DEF Custody
  <2> QED BY <1>1, <1>2, <1>6, <2>1 DEF CustodyInv
<1>8. AnswersInv
  <2>1. Answers({}, {}, {}, {}, {}, {}, {})
    BY DEF Answers
  <2> QED BY <1>1, <1>2, <1>6, <2>1 DEF AnswersInv
<1>9. SuperInv
  BY <1>1, <1>2 DEF SuperInv
<1> QED BY <1>4, <1>5, <1>7, <1>8, <1>9 DEF ExecInv

\* The invariant says what the run checks.
LEMMA ExecInvSound == ExecInv => ExecSound
<1> SUFFICES ASSUME ExecInv PROVE ExecSound
  OBVIOUS
<1>1. ExecTypeOK
  <2>1. super.at \in {"spawn", "pump", "kill", "backoff", "gone"}
    BY DEF ExecInv, ExecTypes
  <2> QED BY <2>1 DEF ExecInv, QueuesInv, Queue, ExecTypeOK
<1>2. ExecStatusHonest
  BY DEF ExecInv, SuperInv, ExecStatusHonest
<1> DEFINE t == arrived.t
           h == arrived.h
           CQ == ToSet(chan.queue)
           CH == Some(chan.held)
           MQ == ToSet(merge.queue)
           MH == Some(merge.held)
           MX == Some(merge.mux)
           F == fate.fed
           T == fate.torn
           O == fate.orphaned
           U == <<CQ, CH, MQ, MH, F, T, O \ F>>
<1>3. Custody(t, h, CQ, CH, MQ, MH, MX, F, T, O) /\ t \in Nat /\ h \in Nat
  BY ExecFields DEF ExecInv, CustodyInv
<1>4. Upstream = U
  BY DEF Upstream, Some
<1>6. \A c \in fate.torn \cup fate.shed \cup fate.sent : c > 0
  <2>1. \A c \in T : c > 0
    <3> HIDE DEF CQ, CH, MQ, MH, MX, F, T, O, t, h
    <3> QED BY <1>3 DEF Custody
  <2>2. \A c \in fate.shed \cup fate.sent : c > 0
    BY DEF ExecInv, AnswersInv, Answers
  <2> QED BY <2>1, <2>2
<1>7. fate.shed \cap fate.sent = {}
  BY DEF ExecInv, AnswersInv, Answers
<1> HIDE DEF CQ, CH, MQ, MH, MX, F, T, O, t, h
<1>8. ASSUME NEW c \in 1 .. t PROVE Cardinality({i \in DOMAIN U : c \in U[i]}) = 1
  <2> DEFINE D == {i \in DOMAIN U : c \in U[i]}
  <2>1. /\ U[1] = CQ /\ U[2] = CH /\ U[3] = MQ /\ U[4] = MH /\ U[5] = F /\ U[6] = T /\ U[7] = O \ F
        /\ DOMAIN U = 1 .. 7
    OBVIOUS
  <2> HIDE DEF U
  <2>2. DOMAIN U = {1, 2, 3, 4, 5, 6, 7}
    BY <2>1
  <2>3. c \in CQ \cup CH \cup MQ \cup MH \cup F \cup T \cup O
    BY <1>3 DEF Custody
  <2>4. CASE c \in CQ
    <3>1. c \notin CH /\ c \notin MQ /\ c \notin MH /\ c \notin F /\ c \notin T /\ c \notin O
      BY <1>3, <2>4 DEF Custody
    <3>2. D = {1}
      BY <2>1, <2>2, <2>4, <3>1
    <3> QED BY <3>2, FS_Singleton
  <2>5. CASE c \in CH
    <3>1. c \notin CQ /\ c \notin MQ /\ c \notin MH /\ c \notin F /\ c \notin T /\ c \notin O
      BY <1>3, <2>5 DEF Custody
    <3>2. D = {2}
      BY <2>1, <2>2, <2>5, <3>1
    <3> QED BY <3>2, FS_Singleton
  <2>6. CASE c \in MQ
    <3>1. c \notin CQ /\ c \notin CH /\ c \notin MH /\ c \notin F /\ c \notin T /\ c \notin O
      BY <1>3, <2>6 DEF Custody
    <3>2. D = {3}
      BY <2>1, <2>2, <2>6, <3>1
    <3> QED BY <3>2, FS_Singleton
  <2>7. CASE c \in MH
    <3>1. c \notin CQ /\ c \notin CH /\ c \notin MQ /\ c \notin F /\ c \notin T /\ c \notin O
      BY <1>3, <2>7 DEF Custody
    <3>2. D = {4}
      BY <2>1, <2>2, <2>7, <3>1
    <3> QED BY <3>2, FS_Singleton
  <2>8. CASE c \in F
    <3>1. c \notin CQ /\ c \notin CH /\ c \notin MQ /\ c \notin MH /\ c \notin T
      BY <1>3, <2>8 DEF Custody
    <3>2. D = {5}
      BY <2>1, <2>2, <2>8, <3>1
    <3> QED BY <3>2, FS_Singleton
  <2>9. CASE c \in T
    <3>1. c \notin CQ /\ c \notin CH /\ c \notin MQ /\ c \notin MH /\ c \notin F /\ c \notin O
      BY <1>3, <2>9 DEF Custody
    <3>2. D = {6}
      BY <2>1, <2>2, <2>9, <3>1
    <3> QED BY <3>2, FS_Singleton
  <2>10. CASE c \in O /\ c \notin F
    <3>1. c \notin CQ /\ c \notin CH /\ c \notin MQ /\ c \notin MH /\ c \notin T
      BY <1>3, <2>10 DEF Custody
    <3>2. D = {7}
      BY <2>1, <2>2, <2>10, <3>1
    <3> QED BY <3>2, FS_Singleton
  <2> QED BY <2>3, <2>4, <2>5, <2>6, <2>7, <2>8, <2>9, <2>10
<1>9. ExecCustody
  <2>1. \A c \in 1 .. arrived.t : Cardinality({i \in DOMAIN Upstream : c \in Upstream[i]}) = 1
    BY <1>4, <1>8 DEF t
  <2> QED BY <1>6, <1>7, <2>1 DEF ExecCustody
<1> QED BY <1>1, <1>2, <1>9 DEF ExecSound
-----------------------------------------------------------------------------
(* The exec codec: the merge *)

\* ChannelWrite: a number that no chunk had before.
LEMMA ChannelWriteInv == ASSUME ExecInv, ChannelWrite PROVE ExecInv'
<1> DEFINE t == arrived.t
           h == arrived.h
           x == t + 1
           q == chan.queue
           CQ == ToSet(q)
           CH == Some(chan.held)
           MQ == ToSet(merge.queue)
           MH == Some(merge.held)
           MX == Some(merge.mux)
           F == fate.fed
           T == fate.torn
           O == fate.orphaned
<1>1. /\ arrived \in [t : Nat, h : Nat] /\ chan \in [queue : Seq(Int), held : Int]
      /\ Queue(q, MergeCap)
  BY DEF ExecInv, ExecTypes, QueuesInv
<1>2. t \in Nat /\ h \in Nat /\ x \in Nat
  <2>1. t \in Nat /\ h \in Nat
    BY <1>1
  <2> HIDE DEF t
  <2> QED BY <2>1
<1>3. Len(q) < MergeCap /\ UNCHANGED <<merge, kid, super, execNode, routing, fate>>
  BY DEF ChannelWrite
<1>4. arrived' = [arrived EXCEPT !.t = x]
  BY DEF ChannelWrite
<1>5. chan' = [chan EXCEPT !.queue = Append(q, arrived'.t)]
  BY DEF ChannelWrite
<1>6. Custody(t, h, CQ, CH, MQ, MH, MX, F, T, O)
  BY DEF ExecInv, CustodyInv
<1> HIDE DEF CQ, CH, MQ, MH, MX, F, T, O, h
<1>7. x \notin CQ \cup CH \cup MQ \cup MH \cup MX \cup F \cup T \cup O
  <2>1. \A c \in CQ \cup CH \cup MQ \cup MH \cup MX \cup F \cup T \cup O : c \in 1 .. t \/ c < 0
    BY <1>6 DEF Custody
  <2>2. ~(x \in 1 .. t) /\ ~(x < 0)
    <3> HIDE DEF t
    <3> QED BY <1>2
  <2> HIDE DEF x
  <2> QED BY <2>1, <2>2
<1>8. 1 .. x = (1 .. t) \cup {x}
  <2> HIDE DEF t
  <2> QED BY <1>2
<1> HIDE DEF x, t
<1>9. arrived' \in [t : Nat, h : Nat] /\ arrived'.t = x /\ arrived'.h = h
  BY <1>1, <1>2, <1>4 DEF h
<1>10. /\ Queue(Append(q, x), MergeCap) /\ Append(q, x) \in Seq(Int)
       /\ ToSet(Append(q, x)) = CQ \cup {x}
  <2>1. x \in Int /\ x \notin ToSet(q)
    BY <1>2, <1>7 DEF CQ
  <2> QED BY <1>1, <1>3, <2>1, ExecBounds, QueuePush DEF CQ
<1>11. /\ chan' \in [queue : Seq(Int), held : Int] /\ chan'.queue = Append(q, x)
       /\ chan'.held = chan.held
  <2> DEFINE p == Append(q, x)
  <2>1. chan' = [chan EXCEPT !.queue = p] /\ p \in Seq(Int)
    BY <1>5, <1>9, <1>10
  <2> HIDE DEF p, q
  <2>2. chan' \in [queue : Seq(Int), held : Int] /\ chan'.queue = p /\ chan'.held = chan.held
    BY <1>1, <2>1
  <2> QED BY <2>2 DEF p
<1>12. ExecTypes' /\ QueuesInv'
  BY <1>3, <1>9, <1>10, <1>11 DEF ExecInv, ExecTypes, QueuesInv
<1>13. Custody(x, h, CQ \cup {x}, CH, MQ, MH, MX, F, T, O)
  BY <1>6, <1>7, <1>8 DEF Custody
<1>14. CustodyInv'
  BY <1>3, <1>9, <1>10, <1>11, <1>13 DEF CustodyInv, CH, MQ, MH, MX, F, T, O
<1>15. AnswersInv' /\ SuperInv'
  BY <1>3 DEF ExecInv, AnswersInv, SuperInv
<1> QED BY <1>12, <1>14, <1>15 DEF ExecInv

\* MuxRecv: so does the device's.
LEMMA MuxRecvInv == ASSUME ExecInv, MuxRecv PROVE ExecInv'
<1> DEFINE t == arrived.t
           h == arrived.h
           g == h + 1
           x == -g
           CQ == ToSet(chan.queue)
           CH == Some(chan.held)
           MQ == ToSet(merge.queue)
           MH == Some(merge.held)
           MX == Some(merge.mux)
           F == fate.fed
           T == fate.torn
           O == fate.orphaned
<1>1. /\ arrived \in [t : Nat, h : Nat]
      /\ merge \in [queue : Seq(Int), held : Int, writing : BOOLEAN, mux : Int]
  BY DEF ExecInv, ExecTypes
<1>2. t \in Nat /\ h \in Nat /\ g \in Nat /\ x \in Int /\ x < 0 /\ x # 0
  <2>1. t \in Nat /\ h \in Nat
    BY <1>1
  <2> HIDE DEF h
  <2> QED BY <2>1
<1>3. merge.mux = 0 /\ UNCHANGED <<chan, kid, super, execNode, routing, fate>>
  BY DEF MuxRecv
<1>4. arrived' = [arrived EXCEPT !.h = g] /\ merge' = [merge EXCEPT !.mux = -arrived'.h]
  BY DEF MuxRecv
<1>5. Custody(t, h, CQ, CH, MQ, MH, MX, F, T, O)
  BY DEF ExecInv, CustodyInv
<1>6. MX = {}
  BY <1>3, SomeOf
<1> HIDE DEF CQ, CH, MQ, MH, MX, F, T, O
<1>7. x \notin CQ \cup CH \cup MQ \cup MH \cup F \cup T \cup O
  <2>1. \A c \in CQ \cup CH \cup MQ \cup MH \cup F \cup T \cup O : c \in 1 .. t \/ c >= -h
    BY <1>5 DEF Custody
  <2>2. ~(x \in 1 .. t) /\ ~(x >= -h)
    <3> HIDE DEF h, t
    <3> QED BY <1>2
  <2> HIDE DEF x
  <2> QED BY <2>1, <2>2
<1>8. \A c \in Int : c >= -h => c >= -g
  <2> HIDE DEF h
  <2> QED BY <1>2
<1>9. x >= -g
  <2> HIDE DEF g
  <2> QED BY <1>2
<1> HIDE DEF x, g, t, h
<1>10. arrived' \in [t : Nat, h : Nat] /\ arrived'.t = t /\ arrived'.h = g
  BY <1>1, <1>2, <1>4 DEF t
<1>11. /\ merge' \in [queue : Seq(Int), held : Int, writing : BOOLEAN, mux : Int]
       /\ merge'.queue = merge.queue /\ merge'.held = merge.held /\ merge'.writing = merge.writing
       /\ merge'.mux = x
  <2>1. merge' = [merge EXCEPT !.mux = x]
    BY <1>4, <1>10 DEF x
  <2> QED BY <1>1, <1>2, <2>1
<1>12. ExecTypes' /\ QueuesInv'
  BY <1>3, <1>10, <1>11 DEF ExecInv, ExecTypes, QueuesInv
<1>13. Custody(t, g, CQ, CH, MQ, MH, {x}, F, T, O)
  <2>1. \A c \in MQ \cup MH \cup F \cup O : c \in 1 .. t \/ (c < 0 /\ c >= -g)
    <3>1. \A c \in MQ \cup MH \cup F \cup O : c \in Int
      <4>1. MQ \subseteq Int /\ F \subseteq Int /\ O \subseteq Int /\ MH \subseteq Int
        BY ToSetType, ExecFields DEF ExecInv, ExecTypes, MQ, MH, F, O, Some
      <4> QED BY <4>1
    <3> QED BY <1>5, <1>8, <3>1 DEF Custody
  <2> QED BY <1>2, <1>5, <1>6, <1>7, <1>9, <2>1 DEF Custody
<1>14. Some(x) = {x}
  BY <1>2, SomeOf
<1>15. CustodyInv'
  BY <1>3, <1>10, <1>11, <1>13, <1>14 DEF CustodyInv, CQ, CH, MQ, MH, F, T, O
<1>16. AnswersInv' /\ SuperInv'
  BY <1>3, <1>11 DEF ExecInv, AnswersInv, SuperInv
<1> QED BY <1>12, <1>15, <1>16 DEF ExecInv

\* ForwarderRecv: from the channel's queue into the hand.
LEMMA ForwarderRecvInv == ASSUME ExecInv, ForwarderRecv PROVE ExecInv'
<1> DEFINE q == chan.queue
           x == Head(q)
           p == Tail(q)
           t == arrived.t
           h == arrived.h
           CQ == ToSet(q)
           CH == Some(chan.held)
           MQ == ToSet(merge.queue)
           MH == Some(merge.held)
           MX == Some(merge.mux)
           F == fate.fed
           T == fate.torn
           O == fate.orphaned
<1>1. chan.held = 0 /\ q # <<>> /\ UNCHANGED <<arrived, merge, kid, super, execNode, routing, fate>>
  BY DEF ForwarderRecv
<1>2. chan' = [queue |-> p, held |-> x]
  BY DEF ForwarderRecv
<1>3. /\ Queue(p, MergeCap) /\ p \in Seq(Int) /\ x \in Int /\ x \in CQ /\ ToSet(p) = CQ \ {x}
  BY <1>1, ExecBounds, QueuePop DEF ExecInv, QueuesInv
<1>4. Custody(t, h, CQ, CH, MQ, MH, MX, F, T, O) /\ t \in Nat
  BY ExecFields DEF ExecInv, CustodyInv
<1>5. CH = {}
  BY <1>1, SomeOf
<1> HIDE DEF x, p, q, CQ, CH, MQ, MH, MX, F, T, O, t, h
<1>6. x # 0
  BY <1>3, <1>4 DEF Custody
<1>7. Some(x) = {x}
  BY <1>3, <1>6, SomeOf
<1>8. ExecTypes' /\ QueuesInv'
  BY <1>1, <1>2, <1>3 DEF ExecInv, ExecTypes, QueuesInv
<1>9. Custody(t, h, CQ \ {x}, {x}, MQ, MH, MX, F, T, O)
  BY <1>3, <1>4, <1>5 DEF Custody
<1>10. CustodyInv'
  BY <1>1, <1>2, <1>3, <1>7, <1>9 DEF CustodyInv, MQ, MH, MX, F, T, O, t, h
<1>11. AnswersInv' /\ SuperInv'
  BY <1>1 DEF ExecInv, AnswersInv, SuperInv
<1> QED BY <1>8, <1>10, <1>11 DEF ExecInv

\* ForwarderSent: from the hand into the merge queue.
LEMMA ForwarderSentInv == ASSUME ExecInv, ForwarderSent PROVE ExecInv'
<1> DEFINE q == merge.queue
           x == chan.held
           p == Append(q, x)
           t == arrived.t
           h == arrived.h
           CQ == ToSet(chan.queue)
           MQ == ToSet(q)
           MH == Some(merge.held)
           MX == Some(merge.mux)
           F == fate.fed
           T == fate.torn
           O == fate.orphaned
<1>1. /\ x # 0 /\ Len(q) < MergeCap /\ UNCHANGED <<arrived, kid, super, execNode, routing, fate>>
      /\ merge' = [merge EXCEPT !.queue = p] /\ chan' = [chan EXCEPT !.held = 0]
  BY DEF ForwarderSent
<1>2. x \in Int /\ Some(x) = {x} /\ Some(0) = {}
  BY <1>1, ExecFields, SomeOf
<1>3. Custody(t, h, CQ, {x}, MQ, MH, MX, F, T, O)
  BY <1>2 DEF ExecInv, CustodyInv
<1>4. x \notin MQ
  BY <1>3 DEF Custody
<1>5. Queue(p, MergeCap) /\ p \in Seq(Int) /\ ToSet(p) = MQ \cup {x}
  BY <1>1, <1>2, <1>4, ExecBounds, QueuePush DEF ExecInv, QueuesInv
<1> HIDE DEF x, p, q, CQ, MQ, MH, MX, F, T, O, t, h
<1>6. /\ merge' \in [queue : Seq(Int), held : Int, writing : BOOLEAN, mux : Int]
      /\ merge'.queue = p /\ merge'.held = merge.held /\ merge'.writing = merge.writing
      /\ merge'.mux = merge.mux
  BY <1>1, <1>5 DEF ExecInv, ExecTypes
<1>7. chan' \in [queue : Seq(Int), held : Int] /\ chan'.queue = chan.queue /\ chan'.held = 0
  <2>1. chan \in [queue : Seq(Int), held : Int]
    BY DEF ExecInv, ExecTypes
  <2> DEFINE z == 0
  <2>2. chan' = [chan EXCEPT !.held = z] /\ z \in Int
    BY <1>1
  <2> HIDE DEF z
  <2>3. chan' \in [queue : Seq(Int), held : Int] /\ chan'.queue = chan.queue /\ chan'.held = z
    BY <2>1, <2>2
  <2> QED BY <2>3 DEF z
<1>8. ExecTypes' /\ QueuesInv'
  BY <1>1, <1>5, <1>6, <1>7 DEF ExecInv, ExecTypes, QueuesInv
<1>9. Custody(t, h, CQ, {}, MQ \cup {x}, MH, MX, F, T, O)
  BY <1>3 DEF Custody
<1>10. CustodyInv'
  BY <1>1, <1>2, <1>5, <1>6, <1>7, <1>9 DEF CustodyInv, CQ, MH, MX, F, T, O, t, h
<1>11. AnswersInv' /\ SuperInv'
  BY <1>1, <1>6 DEF ExecInv, AnswersInv, SuperInv
<1> QED BY <1>8, <1>10, <1>11 DEF ExecInv

\* MuxSent: so does the mux task's chunk.
LEMMA MuxSentInv == ASSUME ExecInv, MuxSent PROVE ExecInv'
<1> DEFINE q == merge.queue
           x == merge.mux
           p == Append(q, x)
           t == arrived.t
           h == arrived.h
           CQ == ToSet(chan.queue)
           CH == Some(chan.held)
           MQ == ToSet(q)
           MH == Some(merge.held)
           F == fate.fed
           T == fate.torn
           O == fate.orphaned
<1>1. /\ x # 0 /\ Len(q) < MergeCap /\ UNCHANGED <<arrived, chan, kid, super, execNode, routing, fate>>
      /\ merge' = [merge EXCEPT !.queue = p, !.mux = 0]
  BY DEF MuxSent
<1>2. x \in Int /\ Some(x) = {x} /\ Some(0) = {}
  BY <1>1, ExecFields, SomeOf
<1>3. Custody(t, h, CQ, CH, MQ, MH, {x}, F, T, O)
  BY <1>2 DEF ExecInv, CustodyInv
<1>4. x \notin MQ
  BY <1>3 DEF Custody
<1>5. Queue(p, MergeCap) /\ p \in Seq(Int) /\ ToSet(p) = MQ \cup {x}
  BY <1>1, <1>2, <1>4, ExecBounds, QueuePush DEF ExecInv, QueuesInv
<1> HIDE DEF x, p, q, CQ, CH, MQ, MH, F, T, O, t, h
<1>6. /\ merge' \in [queue : Seq(Int), held : Int, writing : BOOLEAN, mux : Int]
      /\ merge'.queue = p /\ merge'.held = merge.held /\ merge'.writing = merge.writing
      /\ merge'.mux = 0
  <2> DEFINE z == 0
  <2>1. merge \in [queue : Seq(Int), held : Int, writing : BOOLEAN, mux : Int]
    BY DEF ExecInv, ExecTypes
  <2>2. merge' = [merge EXCEPT !.queue = p, !.mux = z] /\ p \in Seq(Int) /\ z \in Int
    BY <1>1, <1>5
  <2> HIDE DEF z
  <2>3. /\ merge' \in [queue : Seq(Int), held : Int, writing : BOOLEAN, mux : Int]
        /\ merge'.queue = p /\ merge'.held = merge.held /\ merge'.writing = merge.writing
        /\ merge'.mux = z
    BY <2>1, <2>2
  <2> QED BY <2>3 DEF z
<1>7. ExecTypes' /\ QueuesInv'
  BY <1>1, <1>5, <1>6 DEF ExecInv, ExecTypes, QueuesInv
<1>8. Custody(t, h, CQ, CH, MQ \cup {x}, MH, {}, F, T, O)
  BY <1>3 DEF Custody
<1>9. CustodyInv'
  BY <1>1, <1>2, <1>5, <1>6, <1>8 DEF CustodyInv, CQ, CH, MH, F, T, O, t, h
<1>10. AnswersInv' /\ SuperInv'
  BY <1>1, <1>6 DEF ExecInv, AnswersInv, SuperInv
<1> QED BY <1>7, <1>9, <1>10 DEF ExecInv
-----------------------------------------------------------------------------
(* The exec codec: the supervisor *)

\* A child that has just been spawned, or reaped, has nothing on its way.
LEMMA FreshKid ==
    ASSUME NEW b \in BOOLEAN, ExecInv,
           kid' = [alive |-> b, stdin |-> <<>>, stdout |-> <<>>, hand |-> 0],
           UNCHANGED <<routing, fate>>
    PROVE  /\ kid' \in [alive : BOOLEAN, stdin : Seq(Int), stdout : Seq(Int), hand : Int]
           /\ Queue(kid'.stdin, PipeCap) /\ Queue(kid'.stdout, PipeCap)
           /\ AnswersInv' /\ kid'.alive = b
<1> DEFINE e == <<>>
           z == 0
<1>1. e \in Seq(Int) /\ ToSet(e) = {} /\ Queue(e, PipeCap) /\ z \in Int /\ Some(z) = {}
  BY QueueNone, ExecBounds, SomeOf
<1>2. kid' = [alive |-> b, stdin |-> e, stdout |-> e, hand |-> z]
  OBVIOUS
<1> HIDE DEF e, z
<1>3. /\ kid' \in [alive : BOOLEAN, stdin : Seq(Int), stdout : Seq(Int), hand : Int]
      /\ kid'.stdin = e /\ kid'.stdout = e /\ kid'.hand = z /\ kid'.alive = b
  BY <1>1, <1>2
<1>4. Answers(fate.fed, ToSet(kid.stdin), Some(kid.hand), ToSet(kid.stdout), Some(routing), fate.shed, fate.sent)
  BY DEF ExecInv, AnswersInv
<1>5. Answers(fate.fed, {}, {}, {}, Some(routing), fate.shed, fate.sent)
  BY <1>4 DEF Answers
<1>6. AnswersInv'
  BY <1>1, <1>3, <1>5 DEF AnswersInv
<1> QED BY <1>1, <1>3, <1>6

\* Spawn: an empty pair of pipes, and the status of the edge.
LEMMA SpawnInv == ASSUME ExecInv, Spawn PROVE ExecInv'
<1> DEFINE yes == TRUE
           n == super.spawns + 1
           st == StatusOf(execNode.attached)
<1>1. yes \in BOOLEAN /\ yes
  OBVIOUS
<1>2. /\ super' = [at |-> "pump", live |-> yes, spawns |-> n] /\ super.at = "spawn"
      /\ kid' = [alive |-> yes, stdin |-> <<>>, stdout |-> <<>>, hand |-> 0]
      /\ execNode' = [execNode EXCEPT !.status = st]
      /\ UNCHANGED <<arrived, chan, merge, routing, fate>>
  BY DEF Spawn, NoKid
<1> HIDE DEF yes
<1>3. n \in Nat
  <2>1. super.spawns \in Nat
    BY DEF ExecInv, ExecTypes
  <2> QED BY <2>1
<1>4. execNode \in [status : {"active", "waiting", "faulted"}, attached : BOOLEAN, surgery : Nat]
  BY DEF ExecInv, ExecTypes
<1>5. st \in {"active", "waiting", "faulted"}
  BY <1>4 DEF StatusOf
<1> HIDE DEF n, st
<1>6. /\ execNode' \in [status : {"active", "waiting", "faulted"}, attached : BOOLEAN, surgery : Nat]
      /\ execNode'.status = st /\ execNode'.attached = execNode.attached
  BY <1>2, <1>4, <1>5
<1>7. super' \in [at : {"spawn", "pump", "kill", "backoff", "gone"}, live : BOOLEAN, spawns : Nat]
  BY <1>1, <1>2, <1>3
<1>8. /\ kid' \in [alive : BOOLEAN, stdin : Seq(Int), stdout : Seq(Int), hand : Int]
      /\ Queue(kid'.stdin, PipeCap) /\ Queue(kid'.stdout, PipeCap) /\ AnswersInv'
  BY <1>1, <1>2, FreshKid
<1>9. ExecTypes' /\ QueuesInv'
  BY <1>2, <1>6, <1>7, <1>8 DEF ExecInv, ExecTypes, QueuesInv
<1>10. CustodyInv'
  BY <1>2 DEF ExecInv, CustodyInv
<1>11. SuperInv'
  <2>1. super'.at = "pump" /\ super'.live
    BY <1>1, <1>2
  <2>2. merge.writing => merge.held # 0
    BY DEF ExecInv, SuperInv
  <2>3. fate.torn = {}
    BY <1>2 DEF ExecInv, SuperInv
  <2> QED BY <1>2, <1>6, <2>1, <2>2, <2>3 DEF SuperInv, st
<1> QED BY <1>8, <1>9, <1>10, <1>11 DEF ExecInv

\* SpawnFails: a fault, and nothing moves.
LEMMA SpawnFailsInv == ASSUME ExecInv, SpawnFails PROVE ExecInv'
<1> DEFINE no == FALSE
           n == super.spawns + 1
<1>1. no \in BOOLEAN /\ ~no
  OBVIOUS
<1>2. /\ super' = [at |-> "backoff", live |-> no, spawns |-> n] /\ super.at = "spawn"
      /\ execNode' = [execNode EXCEPT !.status = "faulted"]
      /\ UNCHANGED <<arrived, chan, merge, kid, routing, fate>>
  BY DEF SpawnFails
<1> HIDE DEF no
<1>3. n \in Nat
  <2>1. super.spawns \in Nat
    BY DEF ExecInv, ExecTypes
  <2> QED BY <2>1
<1>4. execNode \in [status : {"active", "waiting", "faulted"}, attached : BOOLEAN, surgery : Nat]
  BY DEF ExecInv, ExecTypes
<1> HIDE DEF n
<1>5. /\ execNode' \in [status : {"active", "waiting", "faulted"}, attached : BOOLEAN, surgery : Nat]
      /\ execNode'.status = "faulted"
  BY <1>2, <1>4
<1>6. super' \in [at : {"spawn", "pump", "kill", "backoff", "gone"}, live : BOOLEAN, spawns : Nat]
  BY <1>1, <1>2, <1>3
<1>7. ExecTypes' /\ QueuesInv'
  BY <1>2, <1>5, <1>6 DEF ExecInv, ExecTypes, QueuesInv
<1>8. CustodyInv' /\ AnswersInv'
  BY <1>2 DEF ExecInv, CustodyInv, AnswersInv
<1>9. SuperInv'
  <2>1. super'.at = "backoff" /\ ~super'.live
    BY <1>1, <1>2
  <2>2. ~merge.writing /\ fate.torn = {}
    BY <1>2 DEF ExecInv, SuperInv
  <2> QED BY <1>2, <1>5, <2>1, <2>2 DEF SuperInv
<1> QED BY <1>7, <1>8, <1>9 DEF ExecInv

\* PumpEnds, of any of its three causes: what was being routed is orphaned.
LEMMA PumpEndsInv ==
    ASSUME ExecInv, super.at = "pump", PumpEnds, UNCHANGED <<arrived, chan, kid, execNode>>
    PROVE  ExecInv'
<1> DEFINE no == FALSE
           z == 0
           R == Some(routing)
           O == fate.orphaned
           Q == O \cup R
           t == arrived.t
           h == arrived.h
           CQ == ToSet(chan.queue)
           CH == Some(chan.held)
           MQ == ToSet(merge.queue)
           MH == Some(merge.held)
           MX == Some(merge.mux)
           F == fate.fed
           T == fate.torn
<1>1. no \in BOOLEAN /\ ~no /\ z \in Int /\ Some(z) = {}
  BY SomeOf
<1>2. /\ super' = [super EXCEPT !.at = "kill"] /\ merge' = [merge EXCEPT !.writing = no]
      /\ routing' = z /\ fate' = [fate EXCEPT !.orphaned = Q]
  BY DEF PumpEnds, Some
<1> HIDE DEF no, z
<1>3. /\ super \in [at : {"spawn", "pump", "kill", "backoff", "gone"}, live : BOOLEAN, spawns : Nat]
      /\ merge \in [queue : Seq(Int), held : Int, writing : BOOLEAN, mux : Int]
      /\ fate \in [fed : SUBSET Int, torn : SUBSET Int, shed : SUBSET Int, sent : SUBSET Int,
                   heard : SUBSET Int, orphaned : SUBSET Int]
  BY DEF ExecInv, ExecTypes
<1>4. /\ super' \in [at : {"spawn", "pump", "kill", "backoff", "gone"}, live : BOOLEAN, spawns : Nat]
      /\ super'.at = "kill"
  BY <1>2, <1>3
<1>5. /\ merge' \in [queue : Seq(Int), held : Int, writing : BOOLEAN, mux : Int]
      /\ merge'.queue = merge.queue /\ merge'.held = merge.held /\ merge'.mux = merge.mux
      /\ merge'.writing = no
  BY <1>1, <1>2, <1>3
<1>6. Q \subseteq Int
  <2>1. R \subseteq Int /\ O \subseteq Int
    BY <1>3, ExecFields DEF Some
  <2> QED BY <2>1
<1> HIDE DEF Q
<1>7. /\ fate' \in [fed : SUBSET Int, torn : SUBSET Int, shed : SUBSET Int, sent : SUBSET Int,
                    heard : SUBSET Int, orphaned : SUBSET Int]
      /\ fate'.orphaned = Q /\ fate'.fed = F /\ fate'.torn = T /\ fate'.shed = fate.shed
      /\ fate'.sent = fate.sent
  BY <1>2, <1>3, <1>6
<1>8. ExecTypes' /\ QueuesInv'
  BY <1>1, <1>2, <1>4, <1>5, <1>7 DEF ExecInv, ExecTypes, QueuesInv
<1>9. Answers(F, ToSet(kid.stdin), Some(kid.hand), ToSet(kid.stdout), R, fate.shed, fate.sent)
  BY DEF ExecInv, AnswersInv
<1>10. Answers(F, ToSet(kid.stdin), Some(kid.hand), ToSet(kid.stdout), {}, fate.shed, fate.sent)
  BY <1>9 DEF Answers
<1>11. AnswersInv'
  BY <1>1, <1>2, <1>7, <1>10 DEF AnswersInv
<1>12. Custody(t, h, CQ, CH, MQ, MH, MX, F, T, O)
  BY DEF ExecInv, CustodyInv
<1>13. R \subseteq F
  BY <1>9 DEF Answers
<1> HIDE DEF R, O, CQ, CH, MQ, MH, MX, F, T, t, h
<1>14. Custody(t, h, CQ, CH, MQ, MH, MX, F, T, Q)
  BY <1>12, <1>13 DEF Custody, Q
<1>15. CustodyInv'
  BY <1>5, <1>7, <1>14 DEF CustodyInv, CQ, CH, MQ, MH, MX, t, h
<1>16. SuperInv'
  <2>1. T = {}
    BY DEF ExecInv, SuperInv, T
  <2> QED BY <1>1, <1>4, <1>5, <1>7, <2>1 DEF SuperInv
<1> QED BY <1>8, <1>11, <1>15, <1>16 DEF ExecInv

\* Reaped: the pipes are gone, with what was in them, and the node is faulted.
LEMMA ReapedInv == ASSUME ExecInv, Reaped PROVE ExecInv'
<1> DEFINE no == FALSE
<1>1. no \in BOOLEAN /\ ~no
  OBVIOUS
<1>2. /\ super' = [[super EXCEPT !.at = "backoff"] EXCEPT !.live = no] /\ super.at = "kill"
      /\ kid' = [alive |-> no, stdin |-> <<>>, stdout |-> <<>>, hand |-> 0]
      /\ execNode' = [execNode EXCEPT !.status = "faulted"]
      /\ UNCHANGED <<arrived, chan, merge, routing, fate>>
  BY DEF Reaped, NoKid
<1> HIDE DEF no
<1>3. /\ execNode \in [status : {"active", "waiting", "faulted"}, attached : BOOLEAN, surgery : Nat]
      /\ super \in [at : {"spawn", "pump", "kill", "backoff", "gone"}, live : BOOLEAN, spawns : Nat]
  BY DEF ExecInv, ExecTypes
<1>4. /\ execNode' \in [status : {"active", "waiting", "faulted"}, attached : BOOLEAN, surgery : Nat]
      /\ execNode'.status = "faulted"
  BY <1>2, <1>3
<1>5. /\ super' \in [at : {"spawn", "pump", "kill", "backoff", "gone"}, live : BOOLEAN, spawns : Nat]
      /\ super'.at = "backoff" /\ super'.live = no
  BY <1>1, <1>2, <1>3
<1>6. /\ kid' \in [alive : BOOLEAN, stdin : Seq(Int), stdout : Seq(Int), hand : Int]
      /\ Queue(kid'.stdin, PipeCap) /\ Queue(kid'.stdout, PipeCap) /\ AnswersInv'
  BY <1>1, <1>2, FreshKid
<1>7. ExecTypes' /\ QueuesInv'
  BY <1>2, <1>4, <1>5, <1>6 DEF ExecInv, ExecTypes, QueuesInv
<1>8. CustodyInv'
  BY <1>2 DEF ExecInv, CustodyInv
<1>9. SuperInv'
  <2>1. ~merge.writing /\ fate.torn = {}
    BY <1>2 DEF ExecInv, SuperInv
  <2> QED BY <1>1, <1>2, <1>4, <1>5, <2>1 DEF SuperInv
<1> QED BY <1>6, <1>7, <1>8, <1>9 DEF ExecInv

\* BackoffEnds: only the supervisor moves.
LEMMA BackoffEndsInv == ASSUME ExecInv, BackoffEnds PROVE ExecInv'
<1>1. /\ super' = [super EXCEPT !.at = "spawn"] /\ super.at = "backoff"
      /\ UNCHANGED <<arrived, chan, merge, kid, execNode, routing, fate>>
  BY DEF BackoffEnds
<1>2. super \in [at : {"spawn", "pump", "kill", "backoff", "gone"}, live : BOOLEAN, spawns : Nat]
  BY DEF ExecInv, ExecTypes
<1>3. /\ super' \in [at : {"spawn", "pump", "kill", "backoff", "gone"}, live : BOOLEAN, spawns : Nat]
      /\ super'.at = "spawn"
  BY <1>1, <1>2
<1>4. ExecTypes' /\ QueuesInv' /\ CustodyInv' /\ AnswersInv'
  BY <1>1, <1>3 DEF ExecInv, ExecTypes, QueuesInv, CustodyInv, AnswersInv
<1>5. SuperInv'
  <2>1. ~merge.writing /\ fate.torn = {}
    BY <1>1 DEF ExecInv, SuperInv
  <2> QED BY <1>1, <1>3, <2>1 DEF SuperInv
<1> QED BY <1>4, <1>5 DEF ExecInv
-----------------------------------------------------------------------------
(* The exec codec: the two halves of pump_child *)

\* FeedBegins: the chunk the last child died on is orphaned.
LEMMA FeedBeginsInv == ASSUME ExecInv, FeedBegins PROVE ExecInv'
<1> DEFINE z == 0
           x == merge.held
           O == fate.orphaned
           Q == O \cup {x}
           t == arrived.t
           h == arrived.h
           CQ == ToSet(chan.queue)
           CH == Some(chan.held)
           MQ == ToSet(merge.queue)
           MX == Some(merge.mux)
           F == fate.fed
           T == fate.torn
<1>1. /\ super.at = "pump" /\ x # 0 /\ ~merge.writing
      /\ merge' = [merge EXCEPT !.held = z] /\ fate' = [fate EXCEPT !.orphaned = Q]
      /\ UNCHANGED <<arrived, chan, kid, super, execNode, routing>>
  BY DEF FeedBegins
<1>2. z \in Int /\ Some(z) = {} /\ x \in Int /\ Some(x) = {x}
  BY <1>1, ExecFields, SomeOf
<1> HIDE DEF z
<1>3. /\ merge \in [queue : Seq(Int), held : Int, writing : BOOLEAN, mux : Int]
      /\ fate \in [fed : SUBSET Int, torn : SUBSET Int, shed : SUBSET Int, sent : SUBSET Int,
                   heard : SUBSET Int, orphaned : SUBSET Int]
  BY DEF ExecInv, ExecTypes
<1>4. /\ merge' \in [queue : Seq(Int), held : Int, writing : BOOLEAN, mux : Int]
      /\ merge'.queue = merge.queue /\ merge'.held = z /\ merge'.mux = merge.mux
      /\ merge'.writing = merge.writing
  BY <1>1, <1>2, <1>3
<1>5. Q \subseteq Int
  <2>1. O \subseteq Int
    BY <1>3
  <2> QED BY <1>2, <2>1
<1> HIDE DEF Q
<1>6. /\ fate' \in [fed : SUBSET Int, torn : SUBSET Int, shed : SUBSET Int, sent : SUBSET Int,
                    heard : SUBSET Int, orphaned : SUBSET Int]
      /\ fate'.orphaned = Q /\ fate'.fed = F /\ fate'.torn = T /\ fate'.shed = fate.shed
      /\ fate'.sent = fate.sent
  BY <1>1, <1>3, <1>5
<1>7. ExecTypes' /\ QueuesInv'
  BY <1>1, <1>4, <1>6 DEF ExecInv, ExecTypes, QueuesInv
<1>8. AnswersInv'
  BY <1>1, <1>6 DEF ExecInv, AnswersInv
<1>9. Custody(t, h, CQ, CH, MQ, {x}, MX, F, T, O)
  BY <1>2 DEF ExecInv, CustodyInv
<1> HIDE DEF x, O, CQ, CH, MQ, MX, F, T, t, h
<1>10. Custody(t, h, CQ, CH, MQ, {}, MX, F, T, Q)
  <2>1. x \notin T
    BY <1>9 DEF Custody
  <2> QED BY <1>9, <2>1 DEF Custody, Q
<1>11. CustodyInv'
  BY <1>1, <1>2, <1>4, <1>6, <1>10 DEF CustodyInv, CQ, CH, MQ, MX, t, h
<1>12. SuperInv'
  BY <1>1, <1>4, <1>6 DEF ExecInv, SuperInv, T
<1> QED BY <1>7, <1>8, <1>11, <1>12 DEF ExecInv

\* FeedRecv: from the merge queue into the feed half's hand.
LEMMA FeedRecvInv == ASSUME ExecInv, FeedRecv PROVE ExecInv'
<1> DEFINE yes == TRUE
           q == merge.queue
           x == Head(q)
           p == Tail(q)
           t == arrived.t
           h == arrived.h
           CQ == ToSet(chan.queue)
           CH == Some(chan.held)
           MQ == ToSet(q)
           MX == Some(merge.mux)
           F == fate.fed
           T == fate.torn
           O == fate.orphaned
<1>1. /\ super.at = "pump" /\ merge.held = 0 /\ q # <<>>
      /\ merge' = [[[merge EXCEPT !.queue = p] EXCEPT !.held = x] EXCEPT !.writing = yes]
      /\ UNCHANGED <<arrived, chan, kid, super, execNode, routing, fate>>
  BY DEF FeedRecv
<1>2. Some(merge.held) = {} /\ yes \in BOOLEAN
  BY <1>1, ExecFields, SomeOf
<1>3. Queue(p, MergeCap) /\ p \in Seq(Int) /\ x \in Int /\ x \in MQ /\ ToSet(p) = MQ \ {x}
  BY <1>1, ExecBounds, QueuePop DEF ExecInv, QueuesInv
<1>4. Custody(t, h, CQ, CH, MQ, {}, MX, F, T, O) /\ t \in Nat
  BY <1>2, ExecFields DEF ExecInv, CustodyInv
<1>5. merge \in [queue : Seq(Int), held : Int, writing : BOOLEAN, mux : Int]
  BY DEF ExecInv, ExecTypes
<1> HIDE DEF yes, x, p, q, CQ, CH, MQ, MX, F, T, O, t, h
<1>6. x # 0
  BY <1>3, <1>4 DEF Custody
<1>7. Some(x) = {x}
  BY <1>3, <1>6, SomeOf
<1>8. /\ merge' \in [queue : Seq(Int), held : Int, writing : BOOLEAN, mux : Int]
      /\ merge'.queue = p /\ merge'.held = x /\ merge'.mux = merge.mux
  BY <1>1, <1>2, <1>3, <1>5
<1>9. ExecTypes' /\ QueuesInv'
  BY <1>1, <1>3, <1>8 DEF ExecInv, ExecTypes, QueuesInv
<1>10. Custody(t, h, CQ, CH, MQ \ {x}, {x}, MX, F, T, O)
  BY <1>3, <1>4 DEF Custody
<1>11. CustodyInv'
  BY <1>1, <1>3, <1>7, <1>8, <1>10 DEF CustodyInv, CQ, CH, MX, F, T, O, t, h
<1>12. AnswersInv'
  BY <1>1 DEF ExecInv, AnswersInv
<1>13. SuperInv'
  BY <1>1, <1>6, <1>8 DEF ExecInv, SuperInv
<1> QED BY <1>9, <1>11, <1>12, <1>13 DEF ExecInv

\* FeedWrites: from the hand to the child.
LEMMA FeedWritesInv == ASSUME ExecInv, FeedWrites PROVE ExecInv'
<1> DEFINE no == FALSE
           z == 0
           x == merge.held
           q == kid.stdin
           p == Append(q, x)
           t == arrived.t
           h == arrived.h
           CQ == ToSet(chan.queue)
           CH == Some(chan.held)
           MQ == ToSet(merge.queue)
           MX == Some(merge.mux)
           F == fate.fed
           G == F \cup {x}
           T == fate.torn
           O == fate.orphaned
           SI == ToSet(q)
           HA == Some(kid.hand)
           SO == ToSet(kid.stdout)
           RO == Some(routing)
           SH == fate.shed
           SE == fate.sent
<1>1. /\ super.at = "pump" /\ merge.writing /\ Len(q) < PipeCap
      /\ kid' = [kid EXCEPT !.stdin = p] /\ fate' = [fate EXCEPT !.fed = G]
      /\ merge' = [[merge EXCEPT !.held = z] EXCEPT !.writing = no]
      /\ UNCHANGED <<arrived, chan, super, execNode, routing>>
  BY DEF FeedWrites
<1>2. x # 0
  BY <1>1 DEF ExecInv, SuperInv
<1>3. z \in Int /\ Some(z) = {} /\ x \in Int /\ Some(x) = {x} /\ no \in BOOLEAN /\ ~no
  BY <1>2, ExecFields, SomeOf
<1> HIDE DEF no, z
<1>4. Custody(t, h, CQ, CH, MQ, {x}, MX, F, T, O)
  BY <1>3 DEF ExecInv, CustodyInv
<1>5. Answers(F, SI, HA, SO, RO, SH, SE)
  BY DEF ExecInv, AnswersInv
<1>6. x \notin F /\ x \notin T /\ x \notin O
  BY <1>4 DEF Custody
<1>7. x \notin SI \cup HA \cup SO \cup RO \cup SH \cup SE
  <2> HIDE DEF SI, HA, SO, RO, SH, SE, F, x
  <2> QED BY <1>5, <1>6 DEF Answers
<1>8. Queue(p, PipeCap) /\ p \in Seq(Int) /\ ToSet(p) = SI \cup {x}
  BY <1>1, <1>3, <1>7, ExecBounds, QueuePush DEF ExecInv, QueuesInv
<1>9. /\ merge \in [queue : Seq(Int), held : Int, writing : BOOLEAN, mux : Int]
      /\ kid \in [alive : BOOLEAN, stdin : Seq(Int), stdout : Seq(Int), hand : Int]
      /\ fate \in [fed : SUBSET Int, torn : SUBSET Int, shed : SUBSET Int, sent : SUBSET Int,
                   heard : SUBSET Int, orphaned : SUBSET Int]
  BY DEF ExecInv, ExecTypes
<1>10. G \subseteq Int
  <2>1. F \subseteq Int
    BY <1>9
  <2> QED BY <1>3, <2>1
<1> HIDE DEF G, p, q, x
<1>11. /\ merge' \in [queue : Seq(Int), held : Int, writing : BOOLEAN, mux : Int]
       /\ merge'.queue = merge.queue /\ merge'.held = z /\ merge'.mux = merge.mux
       /\ merge'.writing = no
  BY <1>1, <1>3, <1>9
<1>12. /\ kid' \in [alive : BOOLEAN, stdin : Seq(Int), stdout : Seq(Int), hand : Int]
       /\ kid'.stdin = p /\ kid'.stdout = kid.stdout /\ kid'.hand = kid.hand
  BY <1>1, <1>8, <1>9
<1>13. /\ fate' \in [fed : SUBSET Int, torn : SUBSET Int, shed : SUBSET Int, sent : SUBSET Int,
                     heard : SUBSET Int, orphaned : SUBSET Int]
       /\ fate'.orphaned = O /\ fate'.fed = G /\ fate'.torn = T /\ fate'.shed = SH
       /\ fate'.sent = SE
  BY <1>1, <1>9, <1>10
<1>14. ExecTypes' /\ QueuesInv'
  BY <1>1, <1>8, <1>11, <1>12, <1>13 DEF ExecInv, ExecTypes, QueuesInv
<1> HIDE DEF CQ, CH, MQ, MX, F, T, O, t, h, SI, HA, SO, RO, SH, SE
<1>15. Custody(t, h, CQ, CH, MQ, {}, MX, G, T, O)
  BY <1>4, <1>6 DEF Custody, G
<1>16. Answers(G, SI \cup {x}, HA, SO, RO, SH, SE)
  BY <1>5, <1>7 DEF Answers, G
<1>17. CustodyInv'
  BY <1>1, <1>3, <1>11, <1>13, <1>15 DEF CustodyInv, CQ, CH, MQ, MX, t, h
<1>18. AnswersInv'
  BY <1>1, <1>8, <1>12, <1>13, <1>16 DEF AnswersInv, HA, SO, RO
<1>19. SuperInv'
  <2>1. T = {}
    BY <1>1 DEF ExecInv, SuperInv, T
  <2>2. super.live /\ execNode.status = StatusOf(execNode.attached)
    BY <1>1 DEF ExecInv, SuperInv
  <2> QED BY <1>1, <1>3, <1>11, <1>13, <2>1, <2>2 DEF SuperInv
<1> QED BY <1>14, <1>17, <1>18, <1>19 DEF ExecInv

\* RouteEvent: the next frame is fanned out, taken to be sent, or shed.
LEMMA RouteEventInv == ASSUME ExecInv, RouteEvent PROVE ExecInv'
<1> DEFINE q == kid.stdout
           f == Head(q)
           p == Tail(q)
           t == arrived.t
           h == arrived.h
           CQ == ToSet(chan.queue)
           CH == Some(chan.held)
           MQ == ToSet(merge.queue)
           MH == Some(merge.held)
           MX == Some(merge.mux)
           F == fate.fed
           T == fate.torn
           O == fate.orphaned
           SI == ToSet(kid.stdin)
           HA == Some(kid.hand)
           SO == ToSet(q)
           SH == fate.shed
           SE == fate.sent
           HE == fate.heard
<1>1. /\ super.at = "pump" /\ routing = 0 /\ q # <<>> /\ kid' = [kid EXCEPT !.stdout = p]
      /\ UNCHANGED <<arrived, chan, merge, super, execNode>>
  BY DEF RouteEvent, Reads
<1>2. \/ f < 0 /\ fate' = [fate EXCEPT !.heard = HE \cup {f}] /\ routing' = routing
      \/ f > 0 /\ routing' = f /\ fate' = fate
      \/ ~(f < 0) /\ fate' = [fate EXCEPT !.shed = SH \cup {f}] /\ routing' = routing
  BY DEF RouteEvent
<1>3. Some(routing) = {} /\ t \in Nat
  BY <1>1, ExecFields, SomeOf
<1>4. Queue(p, PipeCap) /\ p \in Seq(Int) /\ f \in Int /\ f \in SO /\ ToSet(p) = SO \ {f}
  BY <1>1, ExecBounds, QueuePop DEF ExecInv, QueuesInv
<1>5. Custody(t, h, CQ, CH, MQ, MH, MX, F, T, O)
  BY DEF ExecInv, CustodyInv
<1>6. Answers(F, SI, HA, SO, {}, SH, SE)
  BY <1>3 DEF ExecInv, AnswersInv
<1>7. /\ kid \in [alive : BOOLEAN, stdin : Seq(Int), stdout : Seq(Int), hand : Int]
      /\ fate \in [fed : SUBSET Int, torn : SUBSET Int, shed : SUBSET Int, sent : SUBSET Int,
                   heard : SUBSET Int, orphaned : SUBSET Int]
  BY DEF ExecInv, ExecTypes
<1>8. SH \subseteq Int /\ HE \subseteq Int
  BY <1>7
<1> HIDE DEF f, p, q, CQ, CH, MQ, MH, MX, F, T, O, SI, HA, SO, SH, SE, HE, t, h
<1>9. f \in F /\ f \notin SI \cup HA \cup SH \cup SE
  BY <1>4, <1>6 DEF Answers
<1>10. f # 0 /\ (~(f < 0) => f > 0)
  <2>1. f \in 1 .. t \/ f < 0
    BY <1>5, <1>9 DEF Custody
  <2> QED BY <1>3, <1>4, <2>1
<1>11. /\ kid' \in [alive : BOOLEAN, stdin : Seq(Int), stdout : Seq(Int), hand : Int]
       /\ kid'.stdin = kid.stdin /\ kid'.stdout = p /\ kid'.hand = kid.hand /\ kid'.alive = kid.alive
  BY <1>1, <1>4, <1>7
<1>12. Some(f) = {f}
  BY <1>4, <1>10, SomeOf
<1>13. /\ fate' \in [fed : SUBSET Int, torn : SUBSET Int, shed : SUBSET Int, sent : SUBSET Int,
                     heard : SUBSET Int, orphaned : SUBSET Int]
       /\ fate'.orphaned = O /\ fate'.fed = F /\ fate'.torn = T /\ fate'.sent = SE
       /\ routing' \in Int
       /\ \/ f < 0 /\ fate'.shed = SH /\ Some(routing') = {}
          \/ f > 0 /\ fate'.shed = SH /\ Some(routing') = {f}
          \/ f > 0 /\ fate'.shed = SH \cup {f} /\ Some(routing') = {}
  <2>1. CASE f < 0 /\ fate' = [fate EXCEPT !.heard = HE \cup {f}] /\ routing' = routing
    <3> DEFINE X == HE \cup {f}
    <3>1. X \subseteq Int /\ fate' = [fate EXCEPT !.heard = X] /\ routing \in Int
      BY <1>4, <1>8, <2>1, ExecFields
    <3> HIDE DEF X
    <3>2. /\ fate' \in [fed : SUBSET Int, torn : SUBSET Int, shed : SUBSET Int, sent : SUBSET Int,
                        heard : SUBSET Int, orphaned : SUBSET Int]
          /\ fate'.orphaned = O /\ fate'.fed = F /\ fate'.torn = T /\ fate'.sent = SE
          /\ fate'.shed = SH
      BY <1>7, <3>1 DEF O, F, T, SE, SH
    <3> QED BY <1>3, <2>1, <3>1, <3>2
  <2>2. CASE f > 0 /\ routing' = f /\ fate' = fate
    BY <1>4, <1>7, <1>12, <2>2 DEF O, F, T, SE, SH
  <2>3. CASE ~(f < 0) /\ fate' = [fate EXCEPT !.shed = SH \cup {f}] /\ routing' = routing
    <3> DEFINE X == SH \cup {f}
    <3>1. X \subseteq Int /\ fate' = [fate EXCEPT !.shed = X] /\ routing \in Int
      BY <1>4, <1>8, <2>3, ExecFields
    <3> HIDE DEF X
    <3>2. /\ fate' \in [fed : SUBSET Int, torn : SUBSET Int, shed : SUBSET Int, sent : SUBSET Int,
                        heard : SUBSET Int, orphaned : SUBSET Int]
          /\ fate'.orphaned = O /\ fate'.fed = F /\ fate'.torn = T /\ fate'.sent = SE
          /\ fate'.shed = X
      BY <1>7, <3>1 DEF O, F, T, SE
    <3> QED BY <1>3, <1>10, <2>3, <3>1, <3>2 DEF X
  <2> QED BY <1>2, <2>1, <2>2, <2>3
<1>14. ExecTypes' /\ QueuesInv'
  BY <1>1, <1>4, <1>11, <1>13 DEF ExecInv, ExecTypes, QueuesInv
<1>15. CustodyInv'
  BY <1>1, <1>5, <1>13 DEF CustodyInv, CQ, CH, MQ, MH, MX, t, h
<1>16. Answers(F, SI, HA, SO \ {f}, Some(routing'), fate'.shed, SE)
  <2>1. Answers(F, SI, HA, SO \ {f}, {}, SH, SE)
    BY <1>4, <1>6 DEF Answers
  <2>2. f > 0 => Answers(F, SI, HA, SO \ {f}, {f}, SH, SE)
    BY <1>6, <1>9 DEF Answers
  <2>3. f > 0 => Answers(F, SI, HA, SO \ {f}, {}, SH \cup {f}, SE)
    BY <1>6, <1>9 DEF Answers
  <2> QED BY <1>13, <2>1, <2>2, <2>3
<1>17. AnswersInv'
  BY <1>4, <1>11, <1>13, <1>16 DEF AnswersInv, SI, HA
<1>18. SuperInv'
  BY <1>1, <1>11, <1>13 DEF ExecInv, SuperInv, T
<1> QED BY <1>14, <1>15, <1>17, <1>18 DEF ExecInv

\* Forwarded: what was being sent is sent, or shed.
LEMMA ForwardedInv == ASSUME ExecInv, NEW b \in BOOLEAN, Forwarded(b) PROVE ExecInv'
<1> DEFINE z == 0
           x == routing
           t == arrived.t
           h == arrived.h
           F == fate.fed
           T == fate.torn
           O == fate.orphaned
           SI == ToSet(kid.stdin)
           HA == Some(kid.hand)
           SO == ToSet(kid.stdout)
           SH == fate.shed
           SE == fate.sent
<1>1. /\ super.at = "pump" /\ x # 0 /\ routing' = z
      /\ UNCHANGED <<arrived, chan, merge, kid, super, execNode>>
  BY DEF Forwarded
<1>2. \/ fate' = [fate EXCEPT !.sent = SE \cup {x}]
      \/ fate' = [fate EXCEPT !.shed = SH \cup {x}]
  BY DEF Forwarded
<1>3. z \in Int /\ Some(z) = {} /\ x \in Int /\ Some(x) = {x}
  BY <1>1, ExecFields, SomeOf
<1> HIDE DEF z
<1>4. Answers(F, SI, HA, SO, {x}, SH, SE)
  BY <1>3 DEF ExecInv, AnswersInv
<1>5. fate \in [fed : SUBSET Int, torn : SUBSET Int, shed : SUBSET Int, sent : SUBSET Int,
                heard : SUBSET Int, orphaned : SUBSET Int]
  BY DEF ExecInv, ExecTypes
<1>6. SH \subseteq Int /\ SE \subseteq Int
  BY <1>5
<1> HIDE DEF x, F, T, O, SI, HA, SO, SH, SE
<1>7. /\ fate' \in [fed : SUBSET Int, torn : SUBSET Int, shed : SUBSET Int, sent : SUBSET Int,
                    heard : SUBSET Int, orphaned : SUBSET Int]
      /\ fate'.orphaned = O /\ fate'.fed = F /\ fate'.torn = T
      /\ \/ fate'.sent = SE \cup {x} /\ fate'.shed = SH
         \/ fate'.sent = SE /\ fate'.shed = SH \cup {x}
  <2>1. CASE fate' = [fate EXCEPT !.sent = SE \cup {x}]
    <3> DEFINE X == SE \cup {x}
    <3>1. X \subseteq Int /\ fate' = [fate EXCEPT !.sent = X]
      BY <1>3, <1>6, <2>1
    <3> HIDE DEF X
    <3>2. /\ fate' \in [fed : SUBSET Int, torn : SUBSET Int, shed : SUBSET Int, sent : SUBSET Int,
                        heard : SUBSET Int, orphaned : SUBSET Int]
          /\ fate'.orphaned = O /\ fate'.fed = F /\ fate'.torn = T /\ fate'.sent = X
          /\ fate'.shed = SH
      BY <1>5, <3>1 DEF O, F, T, SH
    <3> QED BY <3>2 DEF X
  <2>2. CASE fate' = [fate EXCEPT !.shed = SH \cup {x}]
    <3> DEFINE X == SH \cup {x}
    <3>1. X \subseteq Int /\ fate' = [fate EXCEPT !.shed = X]
      BY <1>3, <1>6, <2>2
    <3> HIDE DEF X
    <3>2. /\ fate' \in [fed : SUBSET Int, torn : SUBSET Int, shed : SUBSET Int, sent : SUBSET Int,
                        heard : SUBSET Int, orphaned : SUBSET Int]
          /\ fate'.orphaned = O /\ fate'.fed = F /\ fate'.torn = T /\ fate'.sent = SE
          /\ fate'.shed = X
      BY <1>5, <3>1 DEF O, F, T, SE
    <3> QED BY <3>2 DEF X
  <2> QED BY <1>2, <2>1, <2>2
<1>8. ExecTypes' /\ QueuesInv'
  BY <1>1, <1>3, <1>7 DEF ExecInv, ExecTypes, QueuesInv
<1>9. CustodyInv'
  BY <1>1, <1>7 DEF ExecInv, CustodyInv, F, T, O
<1>10. Answers(F, SI, HA, SO, {}, fate'.shed, fate'.sent)
  <2>1. Answers(F, SI, HA, SO, {}, SH, SE \cup {x})
    BY <1>4 DEF Answers
  <2>2. Answers(F, SI, HA, SO, {}, SH \cup {x}, SE)
    BY <1>4 DEF Answers
  <2> QED BY <1>7, <2>1, <2>2
<1>11. AnswersInv'
  BY <1>1, <1>3, <1>7, <1>10 DEF AnswersInv, SI, HA, SO
<1>12. SuperInv'
  BY <1>1, <1>7 DEF ExecInv, SuperInv, T
<1> QED BY <1>8, <1>9, <1>11, <1>12 DEF ExecInv
-----------------------------------------------------------------------------
(* The exec codec: the child *)

\* A step of the child moves chunks between its pipes and its hand, or loses them.
LEMMA KidStepInv ==
    ASSUME ExecInv, UNCHANGED <<arrived, chan, merge, super, execNode, routing, fate>>,
           kid' \in [alive : BOOLEAN, stdin : Seq(Int), stdout : Seq(Int), hand : Int],
           Queue(kid'.stdin, PipeCap), Queue(kid'.stdout, PipeCap),
           kid'.alive => kid.alive,
           Answers(fate.fed, ToSet(kid'.stdin), Some(kid'.hand), ToSet(kid'.stdout), Some(routing),
                   fate.shed, fate.sent)
    PROVE  ExecInv'
<1>1. ExecTypes' /\ QueuesInv'
  BY DEF ExecInv, ExecTypes, QueuesInv
<1>2. CustodyInv'
  BY DEF ExecInv, CustodyInv
<1>3. AnswersInv'
  BY DEF AnswersInv
<1>4. SuperInv'
  BY DEF ExecInv, SuperInv
<1> QED BY <1>1, <1>2, <1>3, <1>4 DEF ExecInv

\* KidReads: from stdin into the child's hand.
LEMMA KidReadsInv == ASSUME ExecInv, KidReads PROVE ExecInv'
<1> DEFINE q == kid.stdin
           x == Head(q)
           p == Tail(q)
           F == fate.fed
           SI == ToSet(q)
           SO == ToSet(kid.stdout)
           RO == Some(routing)
           SH == fate.shed
           SE == fate.sent
<1>1. /\ kid.hand = 0 /\ q # <<>> /\ kid' = [[kid EXCEPT !.hand = x] EXCEPT !.stdin = p]
      /\ UNCHANGED <<arrived, chan, merge, super, execNode, routing, fate>>
  BY DEF KidReads
<1>2. Queue(p, PipeCap) /\ p \in Seq(Int) /\ x \in Int /\ x \in SI /\ ToSet(p) = SI \ {x}
  BY <1>1, ExecBounds, QueuePop DEF ExecInv, QueuesInv
<1>3. Some(kid.hand) = {}
  BY <1>1, ExecFields, SomeOf
<1>4. Answers(F, SI, {}, SO, RO, SH, SE)
  BY <1>3 DEF ExecInv, AnswersInv
<1>5. kid \in [alive : BOOLEAN, stdin : Seq(Int), stdout : Seq(Int), hand : Int]
  BY DEF ExecInv, ExecTypes
<1>6. \A c \in F : c # 0
  <2>1. \A c \in F : c \in 1 .. arrived.t \/ c < 0
    BY DEF ExecInv, CustodyInv, Custody
  <2> QED BY <2>1, ExecFields
<1> HIDE DEF q, x, p, F, SI, SO, RO, SH, SE
<1>7. x # 0
  BY <1>2, <1>4, <1>6 DEF Answers
<1>8. Some(x) = {x}
  BY <1>2, <1>7, SomeOf
<1>9. /\ kid' \in [alive : BOOLEAN, stdin : Seq(Int), stdout : Seq(Int), hand : Int]
      /\ kid'.stdin = p /\ kid'.stdout = kid.stdout /\ kid'.hand = x /\ kid'.alive = kid.alive
  BY <1>1, <1>2, <1>5
<1>10. Answers(F, SI \ {x}, {x}, SO, RO, SH, SE)
  BY <1>2, <1>4 DEF Answers
<1>11. Answers(fate.fed, ToSet(kid'.stdin), Some(kid'.hand), ToSet(kid'.stdout), Some(routing),
               fate.shed, fate.sent)
  BY <1>2, <1>8, <1>9, <1>10 DEF F, SO, RO, SH, SE
<1>12. Queue(kid'.stdin, PipeCap) /\ Queue(kid'.stdout, PipeCap)
  BY <1>2, <1>9 DEF ExecInv, QueuesInv
<1> QED BY <1>1, <1>9, <1>11, <1>12, KidStepInv

\* KidWrites: from the hand to stdout.
LEMMA KidWritesInv == ASSUME ExecInv, KidWrites PROVE ExecInv'
<1> DEFINE z == 0
           q == kid.stdout
           x == kid.hand
           p == Append(q, x)
           F == fate.fed
           SI == ToSet(kid.stdin)
           SO == ToSet(q)
           RO == Some(routing)
           SH == fate.shed
           SE == fate.sent
<1>1. /\ x # 0 /\ Len(q) < PipeCap /\ kid' = [[kid EXCEPT !.stdout = p] EXCEPT !.hand = z]
      /\ UNCHANGED <<arrived, chan, merge, super, execNode, routing, fate>>
  BY DEF KidWrites
<1>2. z \in Int /\ Some(z) = {} /\ x \in Int /\ Some(x) = {x}
  BY <1>1, ExecFields, SomeOf
<1> HIDE DEF z
<1>3. Answers(F, SI, {x}, SO, RO, SH, SE)
  BY <1>2 DEF ExecInv, AnswersInv
<1>4. x \notin SO
  BY <1>3 DEF Answers
<1>5. Queue(p, PipeCap) /\ p \in Seq(Int) /\ ToSet(p) = SO \cup {x}
  BY <1>1, <1>2, <1>4, ExecBounds, QueuePush DEF ExecInv, QueuesInv
<1>6. kid \in [alive : BOOLEAN, stdin : Seq(Int), stdout : Seq(Int), hand : Int]
  BY DEF ExecInv, ExecTypes
<1> HIDE DEF q, x, p, F, SI, SO, RO, SH, SE
<1>7. /\ kid' \in [alive : BOOLEAN, stdin : Seq(Int), stdout : Seq(Int), hand : Int]
      /\ kid'.stdin = kid.stdin /\ kid'.stdout = p /\ kid'.hand = z /\ kid'.alive = kid.alive
  BY <1>1, <1>2, <1>5, <1>6
<1>8. Answers(F, SI, {}, SO \cup {x}, RO, SH, SE)
  BY <1>3 DEF Answers
<1>9. Answers(fate.fed, ToSet(kid'.stdin), Some(kid'.hand), ToSet(kid'.stdout), Some(routing),
              fate.shed, fate.sent)
  BY <1>2, <1>5, <1>7, <1>8 DEF F, SI, RO, SH, SE
<1>10. Queue(kid'.stdin, PipeCap) /\ Queue(kid'.stdout, PipeCap)
  BY <1>5, <1>7 DEF ExecInv, QueuesInv
<1> QED BY <1>1, <1>7, <1>9, <1>10, KidStepInv

\* KidDies: what it had not written is lost with it.
LEMMA KidDiesInv == ASSUME ExecInv, KidDies PROVE ExecInv'
<1> DEFINE z == 0
           e == <<>>
           no == FALSE
           F == fate.fed
           SI == ToSet(kid.stdin)
           HA == Some(kid.hand)
           SO == ToSet(kid.stdout)
           RO == Some(routing)
           SH == fate.shed
           SE == fate.sent
<1>1. /\ kid' = [[[kid EXCEPT !.alive = no] EXCEPT !.stdin = e] EXCEPT !.hand = z]
      /\ UNCHANGED <<arrived, chan, merge, super, execNode, routing, fate>>
  BY DEF KidDies
<1>2. /\ e \in Seq(Int) /\ ToSet(e) = {} /\ Queue(e, PipeCap) /\ z \in Int /\ Some(z) = {}
      /\ no \in BOOLEAN /\ ~no
  BY QueueNone, ExecBounds, SomeOf
<1> HIDE DEF z, e, no
<1>3. Answers(F, SI, HA, SO, RO, SH, SE)
  BY DEF ExecInv, AnswersInv
<1>4. kid \in [alive : BOOLEAN, stdin : Seq(Int), stdout : Seq(Int), hand : Int]
  BY DEF ExecInv, ExecTypes
<1> HIDE DEF F, SI, HA, SO, RO, SH, SE
<1>5. /\ kid' \in [alive : BOOLEAN, stdin : Seq(Int), stdout : Seq(Int), hand : Int]
      /\ kid'.stdin = e /\ kid'.stdout = kid.stdout /\ kid'.hand = z /\ kid'.alive = no
  BY <1>1, <1>2, <1>4
<1>6. Answers(F, {}, {}, SO, RO, SH, SE)
  BY <1>3 DEF Answers
<1>7. Answers(fate.fed, ToSet(kid'.stdin), Some(kid'.hand), ToSet(kid'.stdout), Some(routing),
              fate.shed, fate.sent)
  BY <1>2, <1>5, <1>6 DEF F, SO, RO, SH, SE
<1>8. Queue(kid'.stdin, PipeCap) /\ Queue(kid'.stdout, PipeCap)
  BY <1>2, <1>5 DEF ExecInv, QueuesInv
<1> QED BY <1>1, <1>2, <1>5, <1>7, <1>8, KidStepInv
-----------------------------------------------------------------------------
(* The exec codec: verbs, and the theorems *)

\* EdgeVerb: the status follows the edge of a live child only.
LEMMA EdgeVerbInv == ASSUME ExecInv, EdgeVerb PROVE ExecInv'
<1> DEFINE a == ~execNode.attached
           s == execNode.surgery + 1
           n == [[execNode EXCEPT !.attached = a] EXCEPT !.surgery = s]
<1>1. /\ execNode' = Restamped(n, super.live)
      /\ UNCHANGED <<arrived, chan, merge, kid, super, routing, fate>>
  BY DEF EdgeVerb
<1>2. /\ execNode \in [status : {"active", "waiting", "faulted"}, attached : BOOLEAN, surgery : Nat]
      /\ super \in [at : {"spawn", "pump", "kill", "backoff", "gone"}, live : BOOLEAN, spawns : Nat]
  BY DEF ExecInv, ExecTypes
<1>3. a \in BOOLEAN /\ s \in Nat
  <2>1. execNode.surgery \in Nat
    BY <1>2
  <2> QED BY <2>1
<1> HIDE DEF a, s
<1>4. /\ n \in [status : {"active", "waiting", "faulted"}, attached : BOOLEAN, surgery : Nat]
      /\ n.attached = a /\ n.status = execNode.status
  BY <1>2, <1>3
<1> DEFINE st == StatusOf(n.attached)
<1>5. st \in {"active", "waiting", "faulted"} /\ super.live \in BOOLEAN
  BY <1>2 DEF StatusOf
<1>6. \/ super.live /\ execNode' = [n EXCEPT !.status = st]
      \/ ~super.live /\ execNode' = n
  BY <1>1, <1>5 DEF Restamped
<1> HIDE DEF n, st
<1>7. /\ execNode' \in [status : {"active", "waiting", "faulted"}, attached : BOOLEAN, surgery : Nat]
      /\ super.live => execNode'.status = st /\ execNode'.attached = n.attached
      /\ ~super.live => execNode'.status = execNode.status
  BY <1>4, <1>5, <1>6
<1>8. ExecTypes' /\ QueuesInv' /\ CustodyInv' /\ AnswersInv'
  BY <1>1, <1>7 DEF ExecInv, ExecTypes, QueuesInv, CustodyInv, AnswersInv
<1>9. SuperInv'
  BY <1>1, <1>7 DEF ExecInv, SuperInv, st
<1> QED BY <1>8, <1>9 DEF ExecInv

\* ExecTeardown: every targetward chunk still on the way is charged.
LEMMA ExecTeardownInv == ASSUME ExecInv, ExecTeardown PROVE ExecInv'
<1> DEFINE z == 0
           e == <<>>
           no == FALSE
           a == chan.held
           b == merge.held
           R == Some(routing)
           t == arrived.t
           h == arrived.h
           CQ == ToSet(chan.queue)
           CH == Some(a)
           MQ == ToSet(merge.queue)
           MH == Some(b)
           MX == Some(merge.mux)
           F == fate.fed
           T == fate.torn
           O == fate.orphaned
           P == O \cup R
           U == TeardownBytes(CQ \cup {a} \cup MQ \cup {b})
           SI == ToSet(kid.stdin)
           HA == Some(kid.hand)
           SO == ToSet(kid.stdout)
           SH == fate.shed
           SE == fate.sent
<1>1. /\ super.at # "gone" /\ fate' = [[fate EXCEPT !.torn = U] EXCEPT !.orphaned = P]
      /\ chan' = [queue |-> e, held |-> z] /\ routing' = z
      /\ merge' = [queue |-> e, held |-> z, writing |-> no, mux |-> z]
      /\ kid' = [alive |-> no, stdin |-> e, stdout |-> e, hand |-> z]
      /\ super' = [[super EXCEPT !.at = "gone"] EXCEPT !.live = no]
      /\ UNCHANGED <<arrived, execNode>>
  BY DEF ExecTeardown, ExecGone, NoKid, Some
<1>2. /\ e \in Seq(Int) /\ ToSet(e) = {} /\ Queue(e, PipeCap) /\ Queue(e, MergeCap) /\ z \in Int
      /\ Some(z) = {} /\ no \in BOOLEAN /\ ~no
  BY QueueNone, ExecBounds, SomeOf
<1> HIDE DEF z, e, no
<1>3. /\ super \in [at : {"spawn", "pump", "kill", "backoff", "gone"}, live : BOOLEAN, spawns : Nat]
      /\ fate \in [fed : SUBSET Int, torn : SUBSET Int, shed : SUBSET Int, sent : SUBSET Int,
                   heard : SUBSET Int, orphaned : SUBSET Int]
      /\ CQ \subseteq Int /\ MQ \subseteq Int
  BY ToSetType DEF ExecInv, ExecTypes
<1>4. a \in Int /\ b \in Int /\ routing \in Int /\ t \in Nat /\ h \in Nat
  BY ExecFields
<1>5. Custody(t, h, CQ, CH, MQ, MH, MX, F, T, O)
  BY DEF ExecInv, CustodyInv
<1>6. Answers(F, SI, HA, SO, R, SH, SE)
  BY DEF ExecInv, AnswersInv
<1>7. T = {}
  BY <1>1 DEF ExecInv, SuperInv
<1>8. P \subseteq Int
  <2>1. O \subseteq Int /\ R \subseteq Int
    BY <1>3, <1>4 DEF Some
  <2> QED BY <2>1
<1> HIDE DEF CQ, MQ, MX, F, T, O, R, P, SI, HA, SO, SH, SE, t, h, a, b
<1>9. U \subseteq Int /\ U \subseteq CQ \cup CH \cup MQ \cup MH /\ \A c \in U : c > 0
  <2>1. U \subseteq CQ \cup {a} \cup MQ \cup {b} /\ \A c \in U : c > 0
    BY DEF TeardownBytes
  <2> HIDE DEF U
  <2>2. U \subseteq Int
    BY <1>3, <1>4, <2>1
  <2>3. ASSUME NEW c \in U PROVE c \in CQ \cup CH \cup MQ \cup MH
    <3>1. c # 0 /\ c \in CQ \cup {a} \cup MQ \cup {b}
      BY <2>1, <2>2, <2>3
    <3> QED BY <3>1 DEF Some
  <2> QED BY <2>1, <2>2, <2>3
<1>10. \A c \in CQ \cup CH \cup MQ \cup MH : c > 0 => c \in U
  BY DEF TeardownBytes, Some
<1> HIDE DEF U, CH, MH
<1>11. R \subseteq F
  BY <1>6 DEF Answers
<1>12. Custody(t, h, {}, {}, {}, {}, {}, F, U, P)
  <2>1. U \cap (F \cup P) = {}
    BY <1>5, <1>9, <1>11 DEF Custody, P
  <2>2. \A c \in U : c \in 1 .. t
    BY <1>4, <1>5, <1>9 DEF Custody
  <2>3. 1 .. t \subseteq F \cup U \cup P
    BY <1>4, <1>5, <1>7, <1>10 DEF Custody, P
  <2>4. \A c \in F \cup P : c \in 1 .. t \/ (c < 0 /\ c >= -h)
    BY <1>5, <1>11 DEF Custody, P
  <2> QED BY <2>1, <2>2, <2>3, <2>4 DEF Custody
<1>13. Answers(F, {}, {}, {}, {}, SH, SE)
  BY <1>6 DEF Answers
<1>14. /\ fate' \in [fed : SUBSET Int, torn : SUBSET Int, shed : SUBSET Int, sent : SUBSET Int,
                     heard : SUBSET Int, orphaned : SUBSET Int]
       /\ fate'.orphaned = P /\ fate'.fed = F /\ fate'.torn = U /\ fate'.sent = SE
       /\ fate'.shed = SH
  BY <1>1, <1>3, <1>8, <1>9 DEF F, SE, SH
<1>15. /\ super' \in [at : {"spawn", "pump", "kill", "backoff", "gone"}, live : BOOLEAN, spawns : Nat]
       /\ super'.at = "gone" /\ super'.live = no
  BY <1>1, <1>2, <1>3
<1>16. ExecTypes'
  <2>1. chan' \in [queue : Seq(Int), held : Int]
    BY <1>1, <1>2
  <2>2. merge' \in [queue : Seq(Int), held : Int, writing : BOOLEAN, mux : Int]
    BY <1>1, <1>2
  <2>3. kid' \in [alive : BOOLEAN, stdin : Seq(Int), stdout : Seq(Int), hand : Int]
    BY <1>1, <1>2
  <2> QED BY <1>1, <1>2, <1>14, <1>15, <2>1, <2>2, <2>3 DEF ExecInv, ExecTypes
<1>17. QueuesInv'
  BY <1>1, <1>2 DEF QueuesInv
<1>18. CustodyInv'
  BY <1>1, <1>2, <1>12, <1>14 DEF CustodyInv, t, h
<1>19. AnswersInv'
  BY <1>1, <1>2, <1>13, <1>14 DEF AnswersInv
<1>20. SuperInv'
  BY <1>1, <1>2, <1>15 DEF SuperInv
<1> QED BY <1>16, <1>17, <1>18, <1>19, <1>20 DEF ExecInv

\* Every step keeps the invariant.
LEMMA ExecStepInv == ASSUME ExecInv, [ExecNext]_execVars PROVE ExecInv'
<1>1. CASE ChannelWrite BY <1>1, ChannelWriteInv
<1>2. CASE MuxRecv BY <1>2, MuxRecvInv
<1>3. CASE ForwarderRecv BY <1>3, ForwarderRecvInv
<1>4. CASE ForwarderSent BY <1>4, ForwarderSentInv
<1>5. CASE MuxSent BY <1>5, MuxSentInv
<1>6. CASE Spawn BY <1>6, SpawnInv
<1>7. CASE SpawnFails BY <1>7, SpawnFailsInv
<1>8. CASE ReadEnds BY <1>8, PumpEndsInv DEF ReadEnds
<1>9. CASE MalformedFrame BY <1>9, PumpEndsInv DEF MalformedFrame
<1>10. CASE FeedEnds BY <1>10, PumpEndsInv DEF FeedEnds
<1>11. CASE Reaped BY <1>11, ReapedInv
<1>12. CASE BackoffEnds BY <1>12, BackoffEndsInv
<1>13. CASE FeedBegins BY <1>13, FeedBeginsInv
<1>14. CASE FeedRecv BY <1>14, FeedRecvInv
<1>15. CASE FeedWrites BY <1>15, FeedWritesInv
<1>16. CASE RouteEvent BY <1>16, RouteEventInv
<1>17. ASSUME NEW b \in BOOLEAN, Forwarded(b) PROVE ExecInv'
  BY <1>17, ForwardedInv
<1>18. CASE KidReads BY <1>18, KidReadsInv
<1>19. CASE KidWrites BY <1>19, KidWritesInv
<1>20. CASE KidDies BY <1>20, KidDiesInv
<1>21. CASE EdgeVerb BY <1>21, EdgeVerbInv
<1>22. CASE ExecTeardown BY <1>22, ExecTeardownInv
<1>23. CASE UNCHANGED execVars
  BY <1>23 DEF execVars, ExecInv, ExecTypes, QueuesInv, CustodyInv, AnswersInv, SuperInv
<1> QED BY <1>1, <1>2, <1>3, <1>4, <1>5, <1>6, <1>7, <1>8, <1>9, <1>10, <1>11, <1>12, <1>13,
           <1>14, <1>15, <1>16, <1>17, <1>18, <1>19, <1>20, <1>21, <1>22, <1>23 DEF ExecNext

\* For every depth of queues and pipes, every chunk has one place or fate wherever the
\* child dies, is respawned or torn down, and the status agrees with child and edge.
THEOREM ExecInvariance == ExecSpec => []ExecInv
<1>1. ExecInit => ExecInv
  BY ExecInitInv
<1>2. ExecInv /\ [ExecNext]_execVars => ExecInv'
  BY ExecStepInv
<1> QED BY <1>1, <1>2, PTL DEF ExecSpec

\* A targetward chunk is queued, in hand, given to a child, charged by teardown or
\* orphaned by a death, and one of these only; none is both shed and sent; no hostward
\* chunk is charged; and a node whose child runs shows the edge, one without a fault.
THEOREM ExecAccount == ExecSpec => []ExecSound
<1>1. ExecInv => ExecSound
  BY ExecInvSound
<1> QED BY <1>1, ExecInvariance, PTL
-----------------------------------------------------------------------------
(* The log: the inductive invariant of its directory *)

\* The fields of a writer thread and of a queue.
WriterFields == {"pc", "batch", "closing", "notified", "file"}
QueueFields == {"items", "queued", "draining", "dropped", "pending", "rotation", "closed", "gone",
                "faulted", "overflow"}

\* The writer of generation g may still touch the directory.
Writes(g) == writer[g].pc \notin {"none", "done"}

\* The rotated files are those up to suffix r, and whoever may still rotate knows it.
Rotated(r) ==
    /\ DOMAIN logName \ {Current} = 0 .. r
    /\ \A g \in Generation : Writes(g) /\ writer[g].pc # "exiting" =>
          logq[g].rotation = IF writer[g].pc = "renamed" THEN r - 1 ELSE r

\* At most one generation may write, the one in the graph, and it numbers its next
\* rotation from what is in the directory.
DirInv ==
    /\ logLive \in Generation \cup {0}
    /\ DOMAIN writer = Generation /\ DOMAIN logq = Generation
    /\ \A g \in Generation : DOMAIN writer[g] = WriterFields /\ DOMAIN logq[g] = QueueFields
    /\ \A g \in Generation : Writes(g) => g = logLive
    /\ \E r \in Nat \cup {NoRotation} : Rotated(r)
-----------------------------------------------------------------------------
(* The log: the node and its queue *)

\* A field that is not assigned keeps its value.
LEMMA QueueFrame ==
    ASSUME NEW q, DOMAIN q = QueueFields, NEW x
    PROVE  /\ DOMAIN [q EXCEPT !.items = x] = QueueFields /\ [q EXCEPT !.items = x].rotation = q.rotation
           /\ DOMAIN [q EXCEPT !.queued = x] = QueueFields /\ [q EXCEPT !.queued = x].rotation = q.rotation
           /\ DOMAIN [q EXCEPT !.dropped = x] = QueueFields /\ [q EXCEPT !.dropped = x].rotation = q.rotation
           /\ DOMAIN [q EXCEPT !.draining = x] = QueueFields /\ [q EXCEPT !.draining = x].rotation = q.rotation
           /\ DOMAIN [q EXCEPT !.pending = x] = QueueFields /\ [q EXCEPT !.pending = x].rotation = q.rotation
           /\ DOMAIN [q EXCEPT !.faulted = x] = QueueFields /\ [q EXCEPT !.faulted = x].rotation = q.rotation
           /\ DOMAIN [q EXCEPT !.rotation = x] = QueueFields /\ [q EXCEPT !.rotation = x].rotation = x
BY DEF QueueFields

\* Lost counts, and leaves the rest alone.
LEMMA LostFrame ==
    ASSUME NEW q, DOMAIN q = QueueFields, NEW n
    PROVE  DOMAIN Lost(q, n) = QueueFields /\ Lost(q, n).rotation = q.rotation
BY QueueFrame DEF Lost

\* Enqueue leaves the rotation counter alone.
LEMMA EnqueueFrame ==
    ASSUME NEW q, DOMAIN q = QueueFields, NEW c
    PROVE  DOMAIN Enqueue(q, c) = QueueFields /\ Enqueue(q, c).rotation = q.rotation
<1>1. ASSUME NEW x, DOMAIN x = QueueFields
      PROVE  DOMAIN Queued(x, c) = QueueFields /\ Queued(x, c).rotation = x.rotation
  BY <1>1 DEF Queued, QueueFields
<1>2. DOMAIN Evict(q, c) = QueueFields /\ Evict(q, c).rotation = q.rotation
  BY DEF Evict, QueueFields
<1>3. DOMAIN Lost(q, LogLen[c]) = QueueFields /\ Lost(q, LogLen[c]).rotation = q.rotation
  BY LostFrame
<1>4. /\ DOMAIN [Lost(q, LogLen[c]) EXCEPT !.faulted = TRUE] = QueueFields
      /\ [Lost(q, LogLen[c]) EXCEPT !.faulted = TRUE].rotation = q.rotation
  BY <1>3, QueueFrame
<1>5. CASE q.gone
  BY <1>3, <1>5 DEF Enqueue
<1>6. CASE ~q.gone /\ q.queued + LogLen[c] <= LogCap
  BY <1>1, <1>6 DEF Enqueue
<1>7. CASE ~q.gone /\ ~(q.queued + LogLen[c] <= LogCap) /\ q.overflow = "drop-oldest"
  BY <1>1, <1>2, <1>7 DEF Enqueue
<1>8. CASE ~q.gone /\ ~(q.queued + LogLen[c] <= LogCap) /\ q.overflow # "drop-oldest"
  BY <1>4, <1>8 DEF Enqueue
<1> QED BY <1>5, <1>6, <1>7, <1>8

\* One generation moves, and no other may write.
LEMMA StepAt ==
    ASSUME DirInv, NEW g \in Generation, \A h \in Generation : h # g => ~Writes(h),
           DOMAIN writer' = Generation, DOMAIN logq' = Generation,
           \A h \in Generation : h # g => writer'[h] = writer[h] /\ logq'[h] = logq[h],
           DOMAIN writer'[g] = WriterFields, DOMAIN logq'[g] = QueueFields,
           logLive' \in Generation \cup {0}, writer'[g].pc \notin {"none", "done"} => logLive' = g,
           NEW r \in Nat \cup {NoRotation}, DOMAIN logName' \ {Current} = 0 .. r,
           writer'[g].pc \notin {"none", "done", "exiting"} =>
               logq'[g].rotation = IF writer'[g].pc = "renamed" THEN r - 1 ELSE r
    PROVE  DirInv'
<1>1. \A h \in Generation : DOMAIN writer'[h] = WriterFields /\ DOMAIN logq'[h] = QueueFields
  BY DEF DirInv
<1>2. \A h \in Generation : writer'[h].pc \notin {"none", "done"} => h = g
  BY DEF Writes
<1>3. \A h \in Generation : Writes(h)' => h = logLive'
  BY <1>2 DEF Writes
<1>4. Rotated(r)'
  BY <1>2 DEF Rotated, Writes
<1>5. Generation' = Generation
  BY DEF Generation
<1> QED BY <1>1, <1>3, <1>4, <1>5 DEF DirInv

\* Nobody may write any more.
LEMMA AllStopped ==
    ASSUME DirInv, DOMAIN writer' = Generation, DOMAIN logq' = Generation, logName' = logName, logLive' \in Generation \cup {0},
           \A h \in Generation : DOMAIN writer'[h] = WriterFields /\ DOMAIN logq'[h] = QueueFields,
           \A h \in Generation : writer'[h].pc \in {"none", "done"}
    PROVE  DirInv'
<1>1. PICK r \in Nat \cup {NoRotation} : Rotated(r)
  BY DEF DirInv
<1>2. \A h \in Generation : ~Writes(h)'
  BY DEF Writes
<1>3. Rotated(r)'
  BY <1>1, <1>2 DEF Rotated
<1> QED BY <1>2, <1>3 DEF DirInv

\* The directory's rotated files, after the current one is opened.
LEMMA OpenAppendKeeps ==
    ASSUME OpenAppend
    PROVE  /\ DOMAIN logName' \ {Current} = DOMAIN logName \ {Current}
           /\ \A f \in DOMAIN logName \ {Current} : logName'[f] = logName[f]
<1>1. CASE Current \in DOMAIN logName
  BY <1>1 DEF OpenAppend
<1>2. CASE Current \notin DOMAIN logName
  <2>1. logName' = [f \in DOMAIN logName \cup {Current} |-> IF f = Current THEN Opened ELSE logName[f]]
    BY <1>2 DEF OpenAppend
  <2> QED BY <2>1
<1> QED BY <1>1, <1>2

\* The highest suffix in the directory.
LEMMA ScanRotationIs ==
    ASSUME NEW r \in Nat \cup {NoRotation}, DOMAIN logName \ {Current} = 0 .. r
    PROVE  ScanRotation = r
<1> DEFINE found == DOMAIN logName \ {Current}
<1>1. CASE r = NoRotation
  <2>1. found = {}
    BY <1>1 DEF NoRotation
  <2> QED BY <1>1, <2>1 DEF ScanRotation
<1>2. CASE r \in Nat
  <2>1. found # {} /\ r \in found /\ \A m \in found : m <= r
    BY <1>2
  <2>2. \A n \in found : (\A m \in found : m <= n) => n = r
    BY <1>2
  <2>3. (CHOOSE n \in found : \A m \in found : m <= n) = r
    <3> HIDE DEF found
    <3> QED BY <2>1, <2>2
  <2> QED BY <2>1, <2>3 DEF ScanRotation
<1> QED BY <1>1, <1>2
-----------------------------------------------------------------------------
(* The log: steps of the node *)

\* What every step does to the names of the rotated files.
Keeps == \A f \in DOMAIN logName \ {Current} : logName'[f] = logName[f]

\* Nothing is running, and the rotated files are those of the directory.
LEMMA DirInitInv == LogInit => DirInv
<1> SUFFICES ASSUME LogInit PROVE DirInv
  OBVIOUS
<1>1. /\ DOMAIN writer = Generation /\ DOMAIN logq = Generation
      /\ \A g \in Generation : writer[g] = NoWriter /\ logq[g] = NoQueue
  BY DEF LogInit
<1>2. DOMAIN NoWriter = WriterFields /\ NoWriter.pc = "none"
  BY DEF NoWriter, WriterFields
<1>3. DOMAIN NoQueue = QueueFields
  BY DEF NoQueue, QueueFields
<1>4. \A g \in Generation : ~Writes(g)
  BY <1>1, <1>2 DEF Writes
<1>5. \E r \in Nat \cup {NoRotation} : DOMAIN logName \ {Current} = 0 .. r
  <2>1. CASE logName = <<>>
    <3>1. DOMAIN logName = {} /\ 0 .. NoRotation = {}
      BY <2>1 DEF NoRotation
    <3> QED BY <3>1
  <2>2. CASE logName = [f \in {0} |-> 1]
    <3>1. DOMAIN logName = {0} /\ 0 .. 0 = {0} /\ Current # 0
      BY <2>2, LogAssumption
    <3> QED BY <3>1
  <2> QED BY <2>1, <2>2 DEF LogInit
<1>6. \E r \in Nat \cup {NoRotation} : Rotated(r)
  BY <1>4, <1>5 DEF Rotated
<1>7. logLive \in Generation \cup {0}
  BY DEF LogInit
<1> QED BY <1>1, <1>2, <1>3, <1>4, <1>6, <1>7 DEF DirInv

\* The generation in the graph is the only one that may write.
LEMMA OnlyLive ==
    ASSUME DirInv
    PROVE  /\ \A g \in Generation : Writes(g) => \A h \in Generation : h # g => ~Writes(h)
           /\ logLive \in Generation => \A h \in Generation : h # logLive => ~Writes(h)
           /\ logLive \notin Generation => \A h \in Generation : ~Writes(h)
BY DEF DirInv

\* CreateLog: the new writer starts from the highest suffix there is.
LEMMA CreateLogDir == ASSUME DirInv, NEW o, CreateLog(o) PROVE DirInv' /\ Keeps
<1> DEFINE g == NextGen
           base == [NoQueue EXCEPT !.overflow = o]
           no == FALSE
           yes == TRUE
           fd == Opened
           q1 == [[base EXCEPT !.rotation = ScanRotation] EXCEPT !.gone = no]
           q2 == [base EXCEPT !.faulted = yes]
           w1 == [[NoWriter EXCEPT !.pc = "top"] EXCEPT !.file = fd]
<1>1. /\ logLive = 0 /\ g \in Generation /\ logLive' = g
      /\ OpenAppend \/ UNCHANGED <<logName, logInode>>
      /\ \/ logq' = [logq EXCEPT ![g] = q1] /\ writer' = [writer EXCEPT ![g] = w1]
         \/ logq' = [logq EXCEPT ![g] = q2] /\ writer' = writer
  BY DEF CreateLog
<1>2. DOMAIN logName' \ {Current} = DOMAIN logName \ {Current} /\ Keeps
  BY <1>1, OpenAppendKeeps DEF Keeps
<1>3. PICK r \in Nat \cup {NoRotation} : DOMAIN logName \ {Current} = 0 .. r
  BY DEF DirInv, Rotated
<1>4. ScanRotation = r
  BY <1>3, ScanRotationIs
<1>5. DOMAIN base = QueueFields
  BY DEF NoQueue, QueueFields
<1> HIDE DEF base
<1>6. DOMAIN q1 = QueueFields /\ q1.rotation = r
  BY <1>4, <1>5 DEF QueueFields
<1>7. DOMAIN q2 = QueueFields
  BY <1>5 DEF QueueFields
<1>8. DOMAIN w1 = WriterFields /\ w1.pc = "top"
  BY DEF NoWriter, WriterFields
<1>9. DOMAIN writer = Generation /\ DOMAIN logq = Generation /\ \A h \in Generation : DOMAIN writer[h] = WriterFields
  BY DEF DirInv
<1>10. \A h \in Generation : ~Writes(h)
  <2>1. logLive \notin Generation
    BY <1>1, LogAssumption DEF Generation
  <2> QED BY <2>1, OnlyLive
<1> HIDE DEF g, q1, q2, w1
<1>11. CASE logq' = [logq EXCEPT ![g] = q1] /\ writer' = [writer EXCEPT ![g] = w1]
  <2>1. /\ DOMAIN writer' = Generation /\ DOMAIN logq' = Generation /\ writer'[g] = w1 /\ logq'[g] = q1
        /\ \A h \in Generation : h # g => writer'[h] = writer[h] /\ logq'[h] = logq[h]
    BY <1>1, <1>9, <1>11
  <2> QED BY <1>1, <1>2, <1>3, <1>6, <1>8, <1>10, <2>1, StepAt
<1>12. CASE logq' = [logq EXCEPT ![g] = q2] /\ writer' = writer
  <2>1. /\ DOMAIN writer' = Generation /\ DOMAIN logq' = Generation /\ writer'[g] = writer[g] /\ logq'[g] = q2
        /\ \A h \in Generation : h # g => writer'[h] = writer[h] /\ logq'[h] = logq[h]
    BY <1>1, <1>9, <1>12
  <2>2. writer'[g].pc \in {"none", "done"}
    BY <1>1, <1>10, <2>1 DEF Writes
  <2> QED BY <1>1, <1>2, <1>3, <1>7, <1>9, <1>10, <2>1, <2>2, StepAt
<1> QED BY <1>1, <1>2, <1>11, <1>12

\* One generation's step that leaves the directory, its counter and its reach alone.
LEMMA QuietStep ==
    ASSUME DirInv, NEW g \in Generation, \A h \in Generation : h # g => ~Writes(h),
           DOMAIN writer' = Generation, DOMAIN logq' = Generation, UNCHANGED <<logLive, logName>>,
           \A h \in Generation : h # g => writer'[h] = writer[h] /\ logq'[h] = logq[h],
           DOMAIN writer'[g] = WriterFields, DOMAIN logq'[g] = QueueFields,
           \/ writer'[g].pc = writer[g].pc /\ logq'[g].rotation = logq[g].rotation
           \/ Writes(g) /\ writer'[g].pc \in {"exiting", "done"}
           \/ /\ Writes(g) /\ writer[g].pc \notin {"renamed", "exiting"} /\ writer'[g].pc # "renamed"
              /\ logq'[g].rotation = logq[g].rotation
    PROVE  DirInv' /\ Keeps
<1>1. PICK r \in Nat \cup {NoRotation} : Rotated(r)
  BY DEF DirInv
<1>2. writer'[g].pc \notin {"none", "done"} => logLive' = g
  BY DEF DirInv, Writes
<1>3. writer'[g].pc \notin {"none", "done", "exiting"} =>
          logq'[g].rotation = IF writer'[g].pc = "renamed" THEN r - 1 ELSE r
  BY <1>1 DEF Rotated, Writes
<1>4. DOMAIN logName' \ {Current} = 0 .. r
  BY <1>1 DEF Rotated
<1>5. DirInv'
  <2>1. logLive' \in Generation \cup {0}
    BY DEF DirInv
  <2> QED BY <1>2, <1>3, <1>4, <2>1, StepAt
<1> QED BY <1>5 DEF Keeps

\* Notify wakes the writer and moves nothing else.
LEMMA NotifyFrame ==
    ASSUME DirInv, NEW g \in Generation, Notify(g) \/ writer' = writer
    PROVE  /\ DOMAIN writer' = Generation /\ DOMAIN writer'[g] = WriterFields /\ writer'[g].pc = writer[g].pc
           /\ \A h \in Generation : h # g => writer'[h] = writer[h]
<1>1. DOMAIN writer = Generation /\ DOMAIN writer[g] = WriterFields
  BY DEF DirInv
<1>2. CASE writer' = writer
  BY <1>1, <1>2
<1>3. CASE Notify(g)
  <2> DEFINE yes == TRUE
             w == [writer[g] EXCEPT !.notified = yes]
  <2>1. writer' = [writer EXCEPT ![g] = w]
    BY <1>3 DEF Notify
  <2>2. DOMAIN w = WriterFields /\ w.pc = writer[g].pc
    BY <1>1 DEF WriterFields
  <2> HIDE DEF w
  <2> QED BY <1>1, <2>1, <2>2
<1> QED BY <1>2, <1>3

\* Ingest, rotate and signal_stop: the queue of the generation in the graph.
LEMMA LiveQueueDir ==
    ASSUME DirInv, NEW q, logLive \in Generation, DOMAIN q = QueueFields, q.rotation = logq[logLive].rotation,
           logq' = [logq EXCEPT ![logLive] = q], Notify(logLive) \/ writer' = writer,
           UNCHANGED <<logLive, logName>>
    PROVE  DirInv' /\ Keeps
<1>1. DOMAIN logq = Generation
  BY DEF DirInv
<1>2. /\ DOMAIN logq' = Generation /\ logq'[logLive] = q
      /\ \A h \in Generation : h # logLive => logq'[h] = logq[h]
  BY <1>1
<1>3. /\ DOMAIN writer' = Generation /\ DOMAIN writer'[logLive] = WriterFields
      /\ writer'[logLive].pc = writer[logLive].pc
      /\ \A h \in Generation : h # logLive => writer'[h] = writer[h]
  BY NotifyFrame
<1>4. \A h \in Generation : h # logLive => ~Writes(h)
  BY OnlyLive
<1> QED BY <1>2, <1>3, <1>4, QuietStep

\* Ingest.
LEMMA IngestDir == ASSUME DirInv, Ingest PROVE DirInv' /\ Keeps
<1> DEFINE q == Enqueue(logq[logLive], ingested + 1)
<1>1. /\ logLive # 0 /\ logq' = [logq EXCEPT ![logLive] = q] /\ UNCHANGED <<logLive, logName>>
      /\ Notify(logLive) \/ writer' = writer
  BY DEF Ingest
<1>2. logLive \in Generation /\ DOMAIN logq[logLive] = QueueFields
  BY <1>1 DEF DirInv
<1>3. DOMAIN q = QueueFields /\ q.rotation = logq[logLive].rotation
  BY <1>2, EnqueueFrame
<1> HIDE DEF q
<1> QED BY <1>1, <1>2, <1>3, LiveQueueDir

\* RequestRotate.
LEMMA RequestRotateDir == ASSUME DirInv, RequestRotate PROVE DirInv' /\ Keeps
<1> DEFINE o == logq[logLive]
           s == Append(o.items, Rotate)
           n == o.pending + 1
           q == [[o EXCEPT !.items = s] EXCEPT !.pending = n]
<1>1. logLive # 0 /\ Notify(logLive) /\ UNCHANGED <<logLive, logName>>
  BY DEF RequestRotate
<1>2. logLive \in Generation /\ DOMAIN o = QueueFields /\ DOMAIN logq = Generation
  BY <1>1 DEF DirInv
<1>3. logq' = [logq EXCEPT ![logLive] = q]
  <2>1. logq' = [logq EXCEPT ![logLive].items = Append(@, Rotate), ![logLive].pending = @ + 1]
    BY DEF RequestRotate
  <2>2. logq' = [logq EXCEPT ![logLive] = [[logq[logLive] EXCEPT !.items = Append(@, Rotate)] EXCEPT !.pending = @ + 1]]
    BY <1>2, <2>1 DEF QueueFields
  <2> QED BY <1>2, <2>2 DEF QueueFields
<1>4. DOMAIN q = QueueFields /\ q.rotation = o.rotation
  BY <1>2 DEF QueueFields
<1> HIDE DEF q
<1> QED BY <1>1, <1>2, <1>3, <1>4, LiveQueueDir

\* SignalLogStop.
LEMMA SignalLogStopDir == ASSUME DirInv, SignalLogStop PROVE DirInv' /\ Keeps
<1> DEFINE o == logq[logLive]
           yes == TRUE
           q == [o EXCEPT !.closed = yes]
<1>1. logLive # 0 /\ Notify(logLive) /\ UNCHANGED <<logLive, logName>> /\ logq' = [logq EXCEPT ![logLive] = q]
  BY DEF SignalLogStop
<1>2. logLive \in Generation /\ DOMAIN o = QueueFields
  BY <1>1 DEF DirInv
<1>3. DOMAIN q = QueueFields /\ q.rotation = o.rotation
  BY <1>2 DEF QueueFields
<1> HIDE DEF q
<1> QED BY <1>1, <1>2, <1>3, LiveQueueDir

\* TeardownLog: the writer was joined, so nobody writes.
LEMMA TeardownLogDir == ASSUME DirInv, ~LogWedges, TeardownLog PROVE DirInv' /\ Keeps
<1>1. writer[logLive].pc \in {"none", "done"} /\ UNCHANGED <<logq, writer, logName>> /\ logLive' = 0
  BY DEF TeardownLog
<1>2. \A h \in Generation : writer[h].pc \in {"none", "done"}
  BY <1>1 DEF DirInv, Writes
<1>3. DirInv'
  <2>1. logName' = logName /\ \A h \in Generation : DOMAIN writer'[h] = WriterFields /\ DOMAIN logq'[h] = QueueFields
    BY <1>1 DEF DirInv
  <2>2. DOMAIN writer' = Generation /\ DOMAIN logq' = Generation
    BY <1>1 DEF DirInv
  <2> QED BY <1>1, <1>2, <2>1, <2>2, AllStopped
<1> QED BY <1>1, <1>3 DEF Keeps

\* LogCrash: every writer dies with the daemon.
LEMMA LogCrashDir == ASSUME DirInv, LogCrash PROVE DirInv' /\ Keeps
<1> DEFINE d == [NoWriter EXCEPT !.pc = "done"]
           yes == TRUE
           Q(x) == [[NoQueue EXCEPT !.faulted = x] EXCEPT !.closed = yes]
<1>1. /\ writer' = [g \in Generation |-> IF writer[g].pc = "none" THEN NoWriter ELSE d]
      /\ logq' = [g \in Generation |-> Q(logq[g].faulted)] /\ logName' = logName /\ logLive' = 0
  BY DEF LogCrash
<1>2. DOMAIN d = WriterFields /\ d.pc = "done" /\ DOMAIN NoWriter = WriterFields /\ NoWriter.pc = "none"
  BY DEF NoWriter, WriterFields
<1>3. \A x : DOMAIN Q(x) = QueueFields
  BY DEF NoQueue, QueueFields
<1> HIDE DEF d, Q
<1>4. \A h \in Generation : DOMAIN writer'[h] = WriterFields /\ writer'[h].pc \in {"none", "done"}
  BY <1>1, <1>2
<1>5. \A h \in Generation : DOMAIN logq'[h] = QueueFields
  BY <1>1, <1>3
<1>6. DOMAIN writer' = Generation /\ DOMAIN logq' = Generation
  BY <1>1
<1>7. DirInv'
  BY <1>1, <1>4, <1>5, <1>6, AllStopped
<1> QED BY <1>1, <1>7 DEF Keeps
-----------------------------------------------------------------------------
(* The log: the writer thread *)

\* A step of the writer thread of g.
LEMMA WriterStep ==
    ASSUME DirInv, NEW g \in Generation, Writes(g), NEW q, NEW w,
           DOMAIN q = QueueFields, DOMAIN w = WriterFields,
           logq' = [logq EXCEPT ![g] = q], writer' = [writer EXCEPT ![g] = w], UNCHANGED <<logLive, logName>>,
           \/ w.pc = writer[g].pc /\ q.rotation = logq[g].rotation
           \/ w.pc \in {"exiting", "done"}
           \/ writer[g].pc \notin {"renamed", "exiting"} /\ w.pc # "renamed" /\ q.rotation = logq[g].rotation
    PROVE  DirInv' /\ Keeps
<1>1. DOMAIN writer = Generation /\ DOMAIN logq = Generation
  BY DEF DirInv
<1>2. /\ DOMAIN writer' = Generation /\ DOMAIN logq' = Generation /\ writer'[g] = w /\ logq'[g] = q
      /\ \A h \in Generation : h # g => writer'[h] = writer[h] /\ logq'[h] = logq[h]
  BY <1>1
<1>3. \A h \in Generation : h # g => ~Writes(h)
  BY OnlyLive
<1> QED BY <1>2, <1>3, QuietStep

\* The state of a generation, ready to be stepped.
LEMMA GenIs ==
    ASSUME DirInv, NEW g \in Generation
    PROVE  /\ DOMAIN writer[g] = WriterFields /\ DOMAIN logq[g] = QueueFields
           /\ DOMAIN writer = Generation /\ DOMAIN logq = Generation
BY DEF DirInv

\* WriterTop.
LEMMA WriterTopDir == ASSUME DirInv, NEW g \in Generation, WriterTop(g) PROVE DirInv' /\ Keeps
<1> DEFINE q == logq[g]
           w == writer[g]
           e == <<>>
           z == 0
           no == FALSE
           n == q.queued
           its == q.items
           cl == q.closed
           q1 == [[[q EXCEPT !.items = e] EXCEPT !.draining = n] EXCEPT !.queued = z]
           w1 == [[[[w EXCEPT !.pc = "writing"] EXCEPT !.batch = its] EXCEPT !.closing = cl] EXCEPT !.notified = no]
           q2 == [q EXCEPT !.draining = z]
           w2 == [[w EXCEPT !.pc = "parked"] EXCEPT !.notified = no]
<1>1. /\ w.pc \in {"top", "parked"} /\ UNCHANGED <<logLive, logName>>
      /\ \/ logq' = [logq EXCEPT ![g] = q1] /\ writer' = [writer EXCEPT ![g] = w1]
         \/ logq' = [logq EXCEPT ![g] = q2] /\ writer' = [writer EXCEPT ![g] = w2]
  BY DEF WriterTop, TakeBatch
<1>2. Writes(g)
  BY <1>1 DEF Writes
<1>3. DOMAIN q = QueueFields /\ DOMAIN w = WriterFields
  BY GenIs
<1>4. DOMAIN q1 = QueueFields /\ q1.rotation = q.rotation /\ DOMAIN q2 = QueueFields /\ q2.rotation = q.rotation
  BY <1>3 DEF QueueFields
<1>5. DOMAIN w1 = WriterFields /\ w1.pc = "writing" /\ DOMAIN w2 = WriterFields /\ w2.pc = "parked"
  BY <1>3 DEF WriterFields
<1> HIDE DEF q1, q2, w1, w2
<1>6. CASE logq' = [logq EXCEPT ![g] = q1] /\ writer' = [writer EXCEPT ![g] = w1]
  BY <1>1, <1>2, <1>4, <1>5, <1>6, WriterStep
<1>7. CASE logq' = [logq EXCEPT ![g] = q2] /\ writer' = [writer EXCEPT ![g] = w2]
  BY <1>1, <1>2, <1>4, <1>5, <1>7, WriterStep
<1> QED BY <1>1, <1>6, <1>7

\* A batch that goes on, and one that is given up.
LEMMA BatchFrame ==
    ASSUME DirInv, NEW g \in Generation, Advance(g) \/ StopWriting(g)
    PROVE  \E w : /\ writer' = [writer EXCEPT ![g] = w] /\ DOMAIN w = WriterFields
                  /\ w.pc = (IF StopWriting(g) THEN "exiting" ELSE writer[g].pc)
<1> DEFINE o == writer[g]
           t == Tail(o.batch)
           e == <<>>
           w1 == [o EXCEPT !.batch = t]
           w2 == [[o EXCEPT !.pc = "exiting"] EXCEPT !.batch = e]
<1>1. DOMAIN o = WriterFields /\ DOMAIN writer = Generation
  BY GenIs
<1>2. DOMAIN w1 = WriterFields /\ w1.pc = o.pc /\ DOMAIN w2 = WriterFields /\ w2.pc = "exiting"
  BY <1>1 DEF WriterFields
<1>3. CASE StopWriting(g)
  <2>1. writer' = [writer EXCEPT ![g].pc = "exiting", ![g].batch = <<>>]
    BY <1>3 DEF StopWriting
  <2>2. writer' = [writer EXCEPT ![g] = w2]
    BY <1>1, <2>1 DEF WriterFields
  <2> HIDE DEF w2
  <2> QED BY <1>2, <1>3, <2>2
<1>4. CASE ~StopWriting(g)
  <2>1. writer' = [writer EXCEPT ![g] = w1]
    BY <1>4 DEF Advance
  <2> HIDE DEF w1
  <2> QED BY <1>2, <1>4, <2>1
<1> QED BY <1>3, <1>4

\* CountAbandoned and a failed rotation leave the counter alone.
LEMMA AbandonedFrame ==
    ASSUME NEW q, DOMAIN q = QueueFields, NEW rest
    PROVE  /\ DOMAIN CountAbandoned(q, rest) = QueueFields
           /\ CountAbandoned(q, rest).rotation = q.rotation
BY DEF CountAbandoned, QueueFields

\* WriteItem: the batch goes on, or the writer stops.
LEMMA WriteItemDir == ASSUME DirInv, NEW g \in Generation, WriteItem(g) PROVE DirInv' /\ Keeps
<1>1. writer[g].pc = "writing" /\ UNCHANGED <<logLive, logName>>
  BY DEF WriteItem, InBatch
<1>2. Writes(g)
  BY <1>1 DEF Writes
<1>3. DOMAIN logq[g] = QueueFields
  BY GenIs
<1>4. PICK n, m : /\ Advance(g) \/ StopWriting(g)
                  /\ \/ logq' = [logq EXCEPT ![g] = CountAbandoned(Lost(logq[g], n), m)]
                     \/ logq' = [logq EXCEPT ![g] = Lost(logq[g], n)]
  BY DEF WriteItem
<1>5. PICK w : /\ writer' = [writer EXCEPT ![g] = w] /\ DOMAIN w = WriterFields
               /\ w.pc \in {"exiting", writer[g].pc}
  BY <1>4, BatchFrame
<1> DEFINE q1 == Lost(logq[g], n)
           q2 == CountAbandoned(q1, m)
<1>6. DOMAIN q1 = QueueFields /\ q1.rotation = logq[g].rotation
  BY <1>3, LostFrame
<1>7. DOMAIN q2 = QueueFields /\ q2.rotation = logq[g].rotation
  <2> HIDE DEF q1
  <2> QED BY <1>6, AbandonedFrame
<1> HIDE DEF q1, q2
<1>8. CASE logq' = [logq EXCEPT ![g] = q1]
  BY <1>1, <1>2, <1>5, <1>6, <1>8, WriterStep
<1>9. CASE logq' = [logq EXCEPT ![g] = q2]
  BY <1>1, <1>2, <1>5, <1>7, <1>9, WriterStep
<1> QED BY <1>4, <1>8, <1>9 DEF q1, q2

\* RotationFails: the writer stops.
LEMMA RotationFailsDir ==
    ASSUME DirInv, NEW g \in Generation, Writes(g), RotationFails(g), UNCHANGED <<logLive, logName>>
    PROVE  DirInv' /\ Keeps
<1> DEFINE a == CountAbandoned(logq[g], Tail(writer[g].batch))
<1>1. PICK n : logq' = [logq EXCEPT ![g] = [a EXCEPT !.pending = n]]
  BY GenIs DEF RotationFails
<1> DEFINE q == [a EXCEPT !.pending = n]
<1>2. DOMAIN a = QueueFields
  BY GenIs, AbandonedFrame
<1> HIDE DEF a
<1>3. DOMAIN q = QueueFields
  BY <1>2 DEF QueueFields
<1>4. PICK w : writer' = [writer EXCEPT ![g] = w] /\ DOMAIN w = WriterFields /\ w.pc = "exiting"
  BY BatchFrame DEF RotationFails
<1> QED BY <1>1, <1>3, <1>4, WriterStep

\* RenameItem: the next suffix is free.
LEMMA RenameItemDir == ASSUME DirInv, NEW g \in Generation, RenameItem(g) PROVE DirInv' /\ Keeps
<1>1. writer[g].pc = "writing" /\ logLive' = logLive
  BY DEF RenameItem, InBatch
<1>2. Writes(g)
  BY <1>1 DEF Writes
<1>3. CASE RotationFails(g) /\ logName' = logName
  BY <1>1, <1>2, <1>3, RotationFailsDir
<1>4. CASE /\ logName' = Renamed(logq[g].rotation + 1)
           /\ writer' = [writer EXCEPT ![g].pc = "renamed"] /\ logq' = logq
  <2>1. PICK r \in Nat \cup {NoRotation} : Rotated(r)
    BY DEF DirInv
  <2> DEFINE n == r + 1
             w == [writer[g] EXCEPT !.pc = "renamed"]
  <2>2. logq[g].rotation = r
    BY <1>1, <1>2, <2>1 DEF Rotated
  <2>3. n \in Nat /\ n \notin 0 .. r /\ 0 .. r \cup {n} = 0 .. n /\ r = n - 1
    BY DEF NoRotation
  <2>4. n # Current
    BY <2>3, LogAssumption
  <2>5. logName' = [f \in (DOMAIN logName \cup {n}) \ {Current} |->
                       IF f = n THEN logName[Current] ELSE logName[f]]
    BY <1>4, <2>2 DEF Renamed
  <2> HIDE DEF n
  <2>6. DOMAIN logName' \ {Current} = 0 .. n
    BY <2>1, <2>3, <2>4, <2>5 DEF Rotated
  <2>7. Keeps
    BY <2>1, <2>3, <2>5 DEF Rotated, Keeps
  <2>8. /\ DOMAIN writer[g] = WriterFields /\ DOMAIN logq[g] = QueueFields
        /\ DOMAIN writer = Generation /\ DOMAIN logq = Generation
    BY GenIs
  <2>9. DOMAIN w = WriterFields /\ w.pc = "renamed"
    BY <2>8 DEF WriterFields
  <2>10. writer' = [writer EXCEPT ![g] = w]
    BY <1>4
  <2> HIDE DEF w
  <2>11. /\ DOMAIN writer' = Generation /\ DOMAIN logq' = Generation /\ writer'[g] = w /\ logq'[g] = logq[g]
         /\ \A h \in Generation : h # g => writer'[h] = writer[h] /\ logq'[h] = logq[h]
    BY <1>4, <2>8, <2>10
  <2>12. (\A h \in Generation : h # g => ~Writes(h)) /\ logLive' = g /\ logLive' \in Generation \cup {0}
    BY <1>1, <1>2, OnlyLive DEF DirInv
  <2>13. logq'[g].rotation = n - 1
    BY <2>2, <2>3, <2>11
  <2>14. DirInv'
    BY <2>3, <2>6, <2>8, <2>9, <2>11, <2>12, <2>13, StepAt
  <2> QED BY <2>7, <2>14
<1> QED BY <1>3, <1>4 DEF RenameItem

\* ReopenItem: the counter catches up with the directory.
LEMMA ReopenItemDir == ASSUME DirInv, NEW g \in Generation, ReopenItem(g) PROVE DirInv' /\ Keeps
<1>1. writer[g].pc = "renamed" /\ logLive' = logLive
  BY DEF ReopenItem
<1>2. Writes(g)
  BY <1>1 DEF Writes
<1>3. CASE RotationFails(g) /\ logName' = logName
  BY <1>1, <1>2, <1>3, RotationFailsDir
<1>4. CASE ~(RotationFails(g) /\ logName' = logName)
  <2>1. PICK r \in Nat \cup {NoRotation} : Rotated(r)
    BY DEF DirInv
  <2>2. logq[g].rotation = r - 1
    BY <1>1, <1>2, <2>1 DEF Rotated
  <2>3. OpenAppend
    BY <1>4 DEF ReopenItem
  <2>4. DOMAIN logName' \ {Current} = 0 .. r /\ Keeps
    BY <2>1, <2>3, OpenAppendKeeps DEF Rotated, Keeps
  <2>5. /\ DOMAIN writer[g] = WriterFields /\ DOMAIN logq[g] = QueueFields
        /\ DOMAIN writer = Generation /\ DOMAIN logq = Generation
    BY GenIs
  <2>6. /\ DOMAIN writer' = Generation /\ DOMAIN writer'[g] = WriterFields /\ writer'[g].pc = "writing"
        /\ \A h \in Generation : h # g => writer'[h] = writer[h]
    BY <1>4, <2>5 DEF ReopenItem, WriterFields
  <2>7. /\ DOMAIN logq' = Generation /\ DOMAIN logq'[g] = QueueFields
        /\ \A h \in Generation : h # g => logq'[h] = logq[h]
    BY <1>4, <2>5 DEF ReopenItem, QueueFields
  <2>8. logq'[g].rotation = r
    <3>1. logq'[g].rotation = logq[g].rotation + 1
      BY <1>4, <2>5 DEF ReopenItem, QueueFields
    <3> QED BY <2>2, <3>1 DEF NoRotation
  <2>9. (\A h \in Generation : h # g => ~Writes(h)) /\ logLive' = g /\ logLive' \in Generation \cup {0}
    BY <1>1, <1>2, OnlyLive DEF DirInv
  <2>10. DirInv'
    BY <2>4, <2>6, <2>7, <2>8, <2>9, StepAt
  <2> QED BY <2>4, <2>10
<1> QED BY <1>3, <1>4

\* BatchDone.
LEMMA BatchDoneDir == ASSUME DirInv, NEW g \in Generation, BatchDone(g) PROVE DirInv' /\ Keeps
<1>1. /\ DOMAIN writer[g] = WriterFields /\ DOMAIN logq[g] = QueueFields
      /\ DOMAIN writer = Generation /\ DOMAIN logq = Generation
  BY GenIs
<1>2. writer[g].pc = "writing" /\ UNCHANGED <<logLive, logName>>
  BY DEF BatchDone
<1>3. /\ DOMAIN writer' = Generation /\ \A h \in Generation : h # g => writer'[h] = writer[h]
      /\ DOMAIN writer'[g] = WriterFields /\ writer'[g].pc \in {"exiting", "top"}
  BY <1>1 DEF BatchDone, WriterFields
<1>4. /\ DOMAIN logq' = Generation /\ \A h \in Generation : h # g => logq'[h] = logq[h]
      /\ DOMAIN logq'[g] = QueueFields /\ logq'[g].rotation = logq[g].rotation
  BY <1>1 DEF BatchDone, QueueFields
<1>5. Writes(g) /\ \A h \in Generation : h # g => ~Writes(h)
  BY <1>2, OnlyLive DEF Writes
<1> QED BY <1>2, <1>3, <1>4, <1>5, QuietStep

\* WriterExit.
LEMMA WriterExitDir == ASSUME DirInv, NEW g \in Generation, WriterExit(g) PROVE DirInv' /\ Keeps
<1>1. /\ DOMAIN writer[g] = WriterFields /\ DOMAIN logq[g] = QueueFields
      /\ DOMAIN writer = Generation /\ DOMAIN logq = Generation
  BY GenIs
<1>2. writer[g].pc = "exiting" /\ UNCHANGED <<logLive, logName>>
  BY DEF WriterExit
<1>3. /\ DOMAIN writer' = Generation /\ \A h \in Generation : h # g => writer'[h] = writer[h]
      /\ DOMAIN writer'[g] = WriterFields /\ writer'[g].pc = "done"
  BY <1>1 DEF WriterExit, WriterFields
<1>4. /\ DOMAIN logq' = Generation /\ \A h \in Generation : h # g => logq'[h] = logq[h]
      /\ DOMAIN logq'[g] = QueueFields
  BY <1>1 DEF WriterExit
<1>5. Writes(g) /\ \A h \in Generation : h # g => ~Writes(h)
  BY <1>2, OnlyLive DEF Writes
<1> QED BY <1>2, <1>3, <1>4, <1>5, QuietStep

\* Every step keeps the invariant and the rotated files.
LEMMA DirStep ==
    ASSUME DirInv, ~LogWedges, [LogNext]_logVars PROVE DirInv' /\ Keeps
<1>1. ASSUME NEW o \in {"drop-oldest", "fault"}, CreateLog(o) PROVE DirInv' /\ Keeps
  BY <1>1, CreateLogDir
<1>2. CASE Ingest \/ RequestRotate \/ SignalLogStop
  BY <1>2, IngestDir, RequestRotateDir, SignalLogStopDir
<1>3. CASE TeardownLog \/ LogCrash
  BY <1>3, TeardownLogDir, LogCrashDir
<1>4. ASSUME NEW g \in Generation, WriterTop(g) \/ WriteItem(g) \/ RenameItem(g)
      PROVE  DirInv' /\ Keeps
  BY <1>4, WriterTopDir, WriteItemDir, RenameItemDir
<1>5. ASSUME NEW g \in Generation, ReopenItem(g) \/ BatchDone(g) \/ WriterExit(g)
      PROVE  DirInv' /\ Keeps
  BY <1>5, ReopenItemDir, BatchDoneDir, WriterExitDir
<1>6. CASE UNCHANGED logVars
  BY <1>6 DEF logVars, DirInv, Rotated, Writes, Keeps
<1> QED BY <1>1, <1>2, <1>3, <1>4, <1>5, <1>6 DEF LogNext

\* Where every writer is joined (~LogWedges), no rotation of a log replaces a rotated
\* file, through failed rotations, crashes of the daemon and any number of nodes over
\* the directory (perform_rotation, scan_rotation).
THEOREM RotationNeverReplaces == ~LogWedges => (LogSpec => RotationNeverReplaced)
<1> SUFFICES ASSUME ~LogWedges PROVE LogSpec => RotationNeverReplaced
  OBVIOUS
<1>1. LogInit => DirInv
  BY DirInitInv
<1>2. DirInv /\ [LogNext]_logVars => DirInv'
  BY DirStep
<1>3. DirInv /\ [LogNext]_logVars => [\A f \in DOMAIN logName \ {Current} : logName'[f] = logName[f]]_logVars
  BY DirStep DEF Keeps
<1> QED BY <1>1, <1>2, <1>3, PTL DEF LogSpec, RotationNeverReplaced
=============================================================================
