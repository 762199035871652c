-------------------------- MODULE SerialNodeProofs --------------------------
(***************************************************************************)
(* Proofs about the serial node: its targetward half accounts for every    *)
(* chunk its queue took; and the claim on the tty, the break and the line  *)
(* lease follow the port, whoever drops it and when.                       *)
(***************************************************************************)
EXTENDS SerialTargetward, SerialPort, TargetwardInboxProofs
-----------------------------------------------------------------------------
(* The targetward half: the inductive invariant *)

Q == ToSet(inbox.queue)
H == HeldChunk(inbox)
Charged == written \cup purged \cup torn \cup failed

\* The senders of the channel and the chunks they still have.
HandsInv ==
    /\ HandsUnique(inbox)
    /\ \A s \in InHands(inbox) : s.chunk \notin accepted

\* The queue holds chunks that have not met any fate, once each.
QueueInv ==
    /\ Unique(inbox.queue)
    /\ Q \cap (Charged \cup H) = {}
    /\ Q \cup H \cup Charged \subseteq accepted

\* The chunk noted as held is being written, or has met its fate.
HeldInv ==
    /\ pc # "writing" => H \subseteq written \cup failed
    /\ pc = "writing" => H \cap Charged = {}
    /\ H \cap purged = {}

\* Teardown charges once, and ends everything.
TornInv ==
    /\ pc # "gone" => torn = {} /\ inbox.open
    /\ pc = "gone" => ~inbox.open /\ inbox.queue = <<>> /\ H = {}

SerInv == SerTypeOK /\ HandsInv /\ QueueInv /\ HeldInv /\ TornInv
          /\ NothingVanishes /\ ChargedOnce

\* What the typed state says of the sets.
LEMMA Typed ==
    ASSUME SerTypeOK
    PROVE  /\ inbox \in InboxState /\ inbox.queue \in Seq(Chunk)
           /\ inbox.open \in BOOLEAN
           /\ Q \subseteq Chunk /\ H \subseteq Chunk
           /\ \A s \in InHands(inbox) : s \in Suspended /\ s.chunk \in Chunk
<1>1. /\ inbox \in InboxState /\ inbox.queue \in Seq(Chunk) /\ inbox.open \in BOOLEAN
      /\ inbox.waiting \in Seq(Suspended) /\ inbox.granted \subseteq Suspended
      /\ inbox.held \in Chunk \cup {NoChunk}
  BY DEF SerTypeOK, InboxState
<1>2. Q \subseteq Chunk /\ ToSet(inbox.waiting) \subseteq Suspended
  BY <1>1, ToSetType DEF Q
<1>3. H \subseteq Chunk
  BY <1>1 DEF H, HeldChunk
<1> QED BY <1>1, <1>2, <1>3 DEF InHands, Suspended

\* A new node with an empty queue.
LEMMA InitInv == SerInit => SerInv
<1> SUFFICES ASSUME SerInit PROVE SerInv
  OBVIOUS
<1>1. inbox \in InboxState /\ inbox.queue = <<>> /\ inbox.held = NoChunk
      /\ inbox.open /\ inbox.waiting = <<>> /\ inbox.granted = {}
  BY DEF SerInit, NewInbox, InboxState
<1>2. Q = {} /\ H = {} /\ InHands(inbox) = {} /\ Charged = {}
  BY <1>1, ToSetEmpty DEF Q, H, HeldChunk, InHands, Charged, SerInit
<1>3. HandsUnique(inbox) /\ Unique(inbox.queue)
  BY <1>1 DEF HandsUnique, Unique
<1>4. SerTypeOK
  <2>1. rounds \in 0 .. PurgeRounds
    BY PurgeAssumption DEF SerInit
  <2>2. lost \in BOOLEAN
    BY Zenon DEF SerInit
  <2>3. pc \in {"waiting", "purging", "active", "writing", "gone"}
    BY DEF SerInit
  <2> QED BY <1>1, <2>1, <2>2, <2>3, Zenon DEF SerInit, SerTypeOK
<1> QED BY <1>1, <1>2, <1>3, <1>4 DEF SerInit, SerInv, HandsInv, QueueInv, HeldInv,
           TornInv, NothingVanishes, ChargedOnce, Located, Q, H
-----------------------------------------------------------------------------
(* One lemma per action *)

\* A writer's chunk goes in or suspends its writer.
LEMMA OfferInv ==
    ASSUME SerInv, NEW w \in Sender, NEW c \in Chunk, Offer(w, c)
    PROVE  SerInv'
<1> USE DEF SerInv
<1>1. /\ inbox \in InboxState /\ inbox.queue \in Seq(Chunk)
      /\ inbox.open \in BOOLEAN
      /\ \A s \in InHands(inbox) : s \in Suspended /\ s.chunk \in Chunk
  BY Typed
<1>2. c \notin accepted /\ \A s \in InHands(inbox) : s.chunk # c
  BY DEF Offer, Unsent, InHand
<1>3. UNCHANGED <<pc, rounds, lost, written, purged, torn, failed, stale>>
  BY DEF Offer, counters
<1>4. CASE /\ inbox.open /\ inbox' = Push(inbox, c)
           /\ accepted' = accepted \cup {c} /\ UNCHANGED refused
  <2>1. /\ inbox' \in InboxState /\ inbox'.queue = Append(inbox.queue, c)
        /\ inbox'.held = inbox.held /\ inbox'.open = inbox.open
        /\ inbox'.waiting = inbox.waiting /\ inbox'.granted = inbox.granted
    <3>1. Append(inbox.queue, c) \in Seq(Chunk)
      BY <1>1
    <3> QED BY <1>1, <1>4, <3>1 DEF Push, InboxState
  <2>2. Q' = Q \cup {c} /\ H' = H /\ InHands(inbox') = InHands(inbox)
    BY <1>1, <2>1, ToSetAppend DEF Q, H, HeldChunk, InHands
  <2>3. Unique(inbox'.queue)
    BY <1>1, <1>2, <2>1, UniqueAppend DEF QueueInv, Q
  <2>4. SerTypeOK'
    BY <1>3, <1>4, <2>1 DEF SerTypeOK
  <2>5. HandsInv'
    BY <1>2, <1>4, <2>1, <2>2 DEF HandsInv, HandsUnique
  <2>6. QueueInv'
    BY <1>2, <1>3, <1>4, <2>2, <2>3 DEF QueueInv, Charged
  <2>7. HeldInv' /\ ChargedOnce'
    BY <1>3, <2>2 DEF HeldInv, ChargedOnce, Charged
  <2>8. TornInv'
    BY <1>3, <1>4, <2>1 DEF TornInv
  <2>9. NothingVanishes'
    BY <1>3, <1>4, <2>2 DEF NothingVanishes, Located, Q, H
  <2> QED BY <2>4, <2>5, <2>6, <2>7, <2>8, <2>9
<1>5. CASE inbox.open /\ inbox' = Suspend(inbox, w, c) /\ UNCHANGED <<accepted, refused>>
  <2> DEFINE e == [who |-> w, chunk |-> c]
  <2>1. e \in Suspended /\ e.chunk = c /\ inbox.waiting \in Seq(Suspended)
    BY <1>1 DEF Suspended, InboxState
  <2>2. inbox' = [inbox EXCEPT !.waiting = Append(@, e)]
    BY <1>5 DEF Suspend
  <2> HIDE DEF e
  <2>3. /\ Append(inbox.waiting, e) \in Seq(Suspended)
        /\ Len(Append(inbox.waiting, e)) = Len(inbox.waiting) + 1
        /\ Len(inbox.waiting) \in Nat
        /\ \A i \in 1 .. Len(inbox.waiting) :
               Append(inbox.waiting, e)[i] = inbox.waiting[i]
        /\ Append(inbox.waiting, e)[Len(inbox.waiting) + 1] = e
    BY <2>1
  <2>4. /\ inbox' \in InboxState /\ inbox'.queue = inbox.queue
        /\ inbox'.held = inbox.held /\ inbox'.open = inbox.open
        /\ inbox'.waiting = Append(inbox.waiting, e) /\ inbox'.granted = inbox.granted
    BY <1>1, <2>2, <2>3 DEF InboxState
  <2>5. Q' = Q /\ H' = H /\ InHands(inbox') = InHands(inbox) \cup {e}
    BY <2>1, <2>4, ToSetAppend DEF Q, H, HeldChunk, InHands
  <2>6. \A i \in 1 .. Len(inbox.waiting) : inbox.waiting[i].chunk # c
    BY <1>2, <2>1 DEF InHands, ToSet
  <2>7. \A s \in inbox.granted : s.chunk # c
    BY <1>2 DEF InHands
  <2>8. HandsUnique(inbox')
    <3>1. /\ \A i, j \in 1 .. Len(inbox.waiting) :
                 inbox.waiting[i].chunk = inbox.waiting[j].chunk => i = j
          /\ \A s, u \in inbox.granted : s.chunk = u.chunk => s = u
          /\ \A i \in 1 .. Len(inbox.waiting), s \in inbox.granted :
                 inbox.waiting[i].chunk # s.chunk
      BY <1>2 DEF HandsUnique, HandsInv
    <3>2. \A i \in 1 .. Len(inbox'.waiting) :
              \/ i \in 1 .. Len(inbox.waiting) /\ inbox'.waiting[i] = inbox.waiting[i]
              \/ i = Len(inbox.waiting) + 1 /\ inbox'.waiting[i].chunk = c
      BY <2>1, <2>3, <2>4
    <3> QED BY <2>4, <2>6, <2>7, <3>1, <3>2 DEF HandsUnique
  <2>9. HandsInv'
    BY <1>2, <1>5, <2>1, <2>5, <2>8 DEF HandsInv
  <2>10. SerTypeOK'
    BY <1>3, <1>5, <2>4 DEF SerTypeOK
  <2>11. QueueInv' /\ HeldInv' /\ TornInv' /\ ChargedOnce' /\ NothingVanishes'
    BY <1>3, <1>5, <2>4, <2>5
       DEF QueueInv, HeldInv, TornInv, ChargedOnce, NothingVanishes, Located, Charged, Q, H
  <2> QED BY <2>9, <2>10, <2>11
<1>6. CASE UNCHANGED <<inbox, accepted>> /\ refused' = refused \cup {c}
  BY <1>3, <1>6 DEF SerTypeOK, HandsInv, QueueInv, HeldInv, TornInv, ChargedOnce,
     NothingVanishes, Located, Charged, Q, H
<1> QED BY <1>4, <1>5, <1>6 DEF Offer

\* A suspended writer's chunk goes in.
LEMMA SendLandsInv ==
    ASSUME SerInv, NEW s \in InHands(inbox), SendLands(s)
    PROVE  SerInv'
<1> USE DEF SerInv
<1> DEFINE c == s.chunk
<1>1. /\ inbox \in InboxState /\ inbox.queue \in Seq(Chunk)
      /\ inbox.open \in BOOLEAN /\ c \in Chunk
  BY Typed
<1>2. /\ UNCHANGED <<pc, rounds, lost, written, purged, torn, refused, failed, stale>>
      /\ inbox.open /\ s \in inbox.granted /\ accepted' = accepted \cup {c}
  BY DEF SendLands, counters
<1>3. c \notin accepted
  BY DEF HandsInv
<1>4. /\ inbox' \in InboxState /\ inbox'.queue = Append(inbox.queue, c)
      /\ inbox'.held = inbox.held /\ inbox'.open = inbox.open
      /\ inbox'.waiting = inbox.waiting /\ inbox'.granted = inbox.granted \ {s}
  <2>1. Append(inbox.queue, c) \in Seq(Chunk)
    BY <1>1
  <2>2. inbox' = [inbox EXCEPT !.queue = Append(@, c), !.granted = @ \ {s}]
    BY DEF SendLands, Land
  <2> HIDE DEF c
  <2> QED BY <1>1, <2>1, <2>2 DEF InboxState
<1>5. Q' = Q \cup {c} /\ H' = H
  BY <1>1, <1>4, ToSetAppend DEF Q, H, HeldChunk
<1>6. Unique(inbox'.queue)
  BY <1>1, <1>3, <1>4, UniqueAppend DEF QueueInv, Q
<1>7. HandsUnique(inbox')
  BY <1>4 DEF HandsUnique, HandsInv
<1>8. \A t \in InHands(inbox') : t \in InHands(inbox) /\ t.chunk # c
  <2>1. \A i \in 1 .. Len(inbox.waiting) : inbox.waiting[i].chunk # c
    BY <1>2 DEF HandsInv, HandsUnique
  <2>2. DOMAIN inbox.waiting = 1 .. Len(inbox.waiting)
    BY <1>1 DEF InboxState
  <2>3. \A t \in ToSet(inbox.waiting) : t.chunk # c
    BY <2>1, <2>2 DEF ToSet
  <2>4. \A t \in inbox.granted \ {s} : t.chunk # c
    BY <1>2 DEF HandsInv, HandsUnique
  <2> QED BY <1>4, <2>3, <2>4 DEF InHands
<1> HIDE DEF c
<1>9. HandsInv'
  BY <1>2, <1>7, <1>8 DEF HandsInv
<1>10. SerTypeOK'
  BY <1>1, <1>2, <1>4 DEF SerTypeOK
<1>11. QueueInv'
  BY <1>2, <1>3, <1>5, <1>6 DEF QueueInv, Charged
<1>12. HeldInv' /\ ChargedOnce'
  BY <1>2, <1>5 DEF HeldInv, ChargedOnce, Charged
<1>13. TornInv'
  BY <1>2, <1>4 DEF TornInv
<1>14. NothingVanishes'
  BY <1>2, <1>5 DEF NothingVanishes, Located, Q, H
<1> QED BY <1>9, <1>10, <1>11, <1>12, <1>13, <1>14

\* A suspended writer gives up, or learns of the teardown.
LEMMA SendEndsInv ==
    ASSUME SerInv, NEW s \in InHands(inbox), SendEnds(s)
    PROVE  SerInv'
<1> USE DEF SerInv
<1>1. inbox \in InboxState /\ s.chunk \in Chunk
  BY Typed
<1>2. /\ UNCHANGED <<pc, rounds, lost, written, purged, torn, accepted, failed, stale>>
      /\ inbox' = Withdraw(inbox, s) /\ refused' = refused \cup {s.chunk}
  BY DEF SendEnds, counters
<1>3. /\ inbox' \in InboxState /\ SameQueue(inbox, inbox')
      /\ InHands(inbox') \subseteq InHands(inbox) /\ HandsUnique(inbox')
  BY <1>1, <1>2, WithdrawProperties DEF HandsInv
<1>4. HandsInv'
  BY <1>2, <1>3 DEF HandsInv
<1>5. SerTypeOK'
  BY <1>1, <1>2, <1>3 DEF SerTypeOK
<1>6. Q' = Q /\ H' = H
  BY <1>3 DEF SameQueue, Q, H, HeldChunk
<1>7. QueueInv' /\ HeldInv' /\ TornInv' /\ ChargedOnce' /\ NothingVanishes'
  BY <1>2, <1>3, <1>6 DEF SameQueue, QueueInv, HeldInv, TornInv, ChargedOnce,
     NothingVanishes, Located, Charged, Q, H
<1> QED BY <1>4, <1>5, <1>7

\* Receive settles the previous chunk, whose fate is known, and takes the next.
LEMMA ReceiveInv ==
    ASSUME SerInv, Receive
    PROVE  SerInv'
<1> USE DEF SerInv
<1> DEFINE b == SettleHeld(inbox)
           h == Head(inbox.queue)
<1>1. inbox \in InboxState /\ inbox.queue \in Seq(Chunk) /\ inbox.queue # <<>>
  BY Typed DEF Receive
<1>2. /\ UNCHANGED <<rounds, lost, written, purged, torn, accepted, refused, failed, stale>>
      /\ pc = "active" /\ pc' = "writing" /\ inbox' = PollRecv(b)
  BY DEF Receive, counters, history
<1>3. /\ b \in InboxState /\ b.queue = inbox.queue /\ b.open = inbox.open
      /\ b.waiting = inbox.waiting /\ b.granted = inbox.granted
  BY <1>1 DEF SettleHeld, InboxState
<1>4. HandsUnique(b) /\ InHands(b) = InHands(inbox)
  BY <1>3 DEF HandsUnique, HandsInv, InHands
<1> HIDE DEF b
<1>5. /\ inbox' \in InboxState /\ HandsUnique(inbox') /\ inbox'.open = inbox.open
      /\ inbox'.queue = Tail(inbox.queue) /\ inbox'.held = h
      /\ InHands(inbox') = InHands(inbox)
  BY <1>1, <1>2, <1>3, <1>4, PollRecvProperties
<1>6. h \in Chunk /\ Q = {h} \cup Q' /\ H' = {h}
  BY <1>1, <1>5, ToSetHead, NoChunkAssumption DEF Q, H, HeldChunk
<1>7. Unique(inbox'.queue) /\ h \notin Q'
  BY <1>1, <1>5, UniqueTail DEF QueueInv, Q
<1> HIDE DEF h
<1>8. SerTypeOK'
  BY <1>2, <1>5 DEF SerTypeOK
<1>9. HandsInv'
  BY <1>2, <1>5 DEF HandsInv
<1>10. QueueInv'
  BY <1>2, <1>6, <1>7 DEF QueueInv, Charged
<1>11. HeldInv' /\ TornInv'
  BY <1>2, <1>5, <1>6 DEF HeldInv, QueueInv, TornInv, Charged
<1>12. ChargedOnce' /\ NothingVanishes'
  BY <1>2, <1>6 DEF ChargedOnce, NothingVanishes, HeldInv, Located, Charged, Q, H
<1> QED BY <1>8, <1>9, <1>10, <1>11, <1>12

\* ReaderLost and LossSeen only move the supervisor.
LEMMA LossInv ==
    ASSUME SerInv, ReaderLost \/ LossSeen
    PROVE  SerInv'
<1>1. /\ UNCHANGED <<inbox, rounds, written, purged, torn, accepted, refused, failed, stale>>
      /\ lost' \in BOOLEAN
      /\ pc' = pc \/ (pc = "active" /\ pc' = "waiting")
  BY Zenon DEF ReaderLost, LossSeen, counters, history
<1> QED BY <1>1 DEF SerInv, SerTypeOK, HandsInv, QueueInv, HeldInv, TornInv,
           ChargedOnce, NothingVanishes, Located, Charged, Q, H

\* The device took the chunk.
LEMMA WriteDoneInv ==
    ASSUME SerInv, WriteDone
    PROVE  SerInv'
<1> USE DEF SerInv
<1>1. /\ UNCHANGED <<inbox, rounds, lost, purged, torn, accepted, refused, failed, stale>>
      /\ pc = "writing" /\ pc' = "active" /\ written' = written \cup H
  BY DEF WriteDone, history, H
<1>2. Q' = Q /\ H' = H /\ H \subseteq Chunk /\ torn = {}
  BY <1>1, Typed DEF Q, H, TornInv
<1>3. SerTypeOK' /\ HandsInv' /\ TornInv'
  BY <1>1, <1>2 DEF SerTypeOK, HandsInv, TornInv
<1>4. QueueInv' /\ HeldInv'
  BY <1>1, <1>2 DEF QueueInv, HeldInv, Charged
<1>5. ChargedOnce' /\ NothingVanishes'
  BY <1>1, <1>2 DEF ChargedOnce, NothingVanishes, HeldInv, Located, Charged, Q, H
<1> QED BY <1>3, <1>4, <1>5

\* The device is lost with the chunk in hand.
LEMMA WriteFailsInv ==
    ASSUME SerInv, WriteFails
    PROVE  SerInv'
<1> USE DEF SerInv
<1>1. /\ UNCHANGED <<inbox, rounds, written, purged, torn, accepted, refused, stale>>
      /\ pc = "writing" /\ pc' = "waiting" /\ failed' = failed \cup H
  BY DEF WriteFails, counters, H
<1>2. lost' \in BOOLEAN
  BY Zenon DEF WriteFails
<1>3. Q' = Q /\ H' = H /\ H \subseteq Chunk /\ torn = {}
  BY <1>1, Typed DEF Q, H, TornInv
<1>4. SerTypeOK' /\ HandsInv' /\ TornInv'
  BY <1>1, <1>2, <1>3 DEF SerTypeOK, HandsInv, TornInv
<1>5. QueueInv' /\ HeldInv'
  BY <1>1, <1>3 DEF QueueInv, HeldInv, Charged
<1>6. ChargedOnce' /\ NothingVanishes'
  BY <1>1, <1>3 DEF ChargedOnce, NothingVanishes, HeldInv, Located, Charged, Q, H
<1> QED BY <1>4, <1>5, <1>6

\* Reopen and PurgeResumes: a round of the purge, or the end of it.
LEMMA PurgeInv ==
    ASSUME SerInv, Reopen \/ PurgeResumes
    PROVE  SerInv'
<1> USE DEF SerInv
<1>1. /\ UNCHANGED <<written, torn, accepted, refused, failed>>
      /\ pc \in {"waiting", "purging"}
  BY DEF Reopen, PurgeResumes, history
<1>2. pc' \in {"active", "waiting", "purging"} /\ torn = {} /\ H \subseteq written \cup failed
  BY DEF Reopen, PurgeResumes, PurgeRound, Arm, TornInv, HeldInv
<1>3. rounds' \in 0 .. PurgeRounds
  BY PurgeAssumption DEF Reopen, PurgeResumes, PurgeRound, Arm, SerTypeOK
<1>4. lost' \in BOOLEAN
  BY Zenon DEF Reopen, PurgeResumes, PurgeRound, Arm, SerTypeOK
<1>5. stale' \subseteq Chunk
  <2>1. Q \subseteq Chunk /\ InHand \subseteq Chunk /\ stale \subseteq Chunk
    BY Typed DEF InHand, SerTypeOK
  <2>2. stale' = stale \/ stale' = stale \cup Q \cup InHand
    BY DEF Reopen, PurgeResumes, Q, history
  <2> QED BY <2>1, <2>2
<1>6. \/ UNCHANGED <<inbox, purged>>
      \/ inbox' = Drain(inbox) /\ purged' = purged \cup Q
  BY DEF Reopen, PurgeResumes, PurgeRound, Q
<1>7. CASE UNCHANGED <<inbox, purged>>
  BY <1>1, <1>2, <1>3, <1>4, <1>5, <1>7 DEF SerTypeOK, HandsInv, QueueInv, HeldInv,
     TornInv, ChargedOnce, NothingVanishes, Located, Charged, Q, H
<1>8. CASE inbox' = Drain(inbox) /\ purged' = purged \cup Q
  <2>1. /\ inbox' \in InboxState /\ HandsUnique(inbox') /\ inbox'.open = inbox.open
        /\ inbox'.queue = <<>> /\ inbox'.held = inbox.held
        /\ InHands(inbox') = InHands(inbox)
    BY <1>8, Typed, DrainProperties DEF HandsInv
  <2>2. Q' = {} /\ H' = H /\ Unique(inbox'.queue) /\ Q \subseteq Chunk
    BY <2>1, Typed, ToSetEmpty DEF Q, H, HeldChunk, Unique
  <2>3. SerTypeOK'
    BY <1>1, <1>2, <1>3, <1>4, <1>5, <1>8, <2>1, <2>2 DEF SerTypeOK
  <2>4. HandsInv'
    BY <1>1, <2>1 DEF HandsInv
  <2>5. QueueInv'
    BY <1>1, <1>8, <2>2 DEF QueueInv, Charged
  <2>6. HeldInv'
    BY <1>1, <1>2, <1>8, <2>2 DEF HeldInv, QueueInv
  <2>6b. TornInv'
    BY <1>1, <1>2, <2>1 DEF TornInv
  <2>7. ChargedOnce' /\ NothingVanishes'
    BY <1>1, <1>2, <1>8, <2>2
       DEF ChargedOnce, NothingVanishes, QueueInv, Located, Charged, Q, H
  <2> QED BY <2>3, <2>4, <2>5, <2>6, <2>6b, <2>7
<1> QED BY <1>6, <1>7, <1>8

\* Teardown charges the queue and the held chunk, and empties both.
LEMMA SignalStopInv ==
    ASSUME SerInv, SignalStop
    PROVE  SerInv'
<1> USE DEF SerInv
<1>1. /\ UNCHANGED <<rounds, lost, written, purged, accepted, refused, failed, stale>>
      /\ pc # "gone" /\ pc' = "gone" /\ torn = {} /\ torn' = Q \cup H
      /\ inbox' = Taken(inbox)
  BY DEF SignalStop, history, DrainAndCount, TornInv, Q, H
<1>2. /\ inbox \in InboxState /\ Q \subseteq Chunk /\ H \subseteq Chunk
  BY Typed
<1> DEFINE z == <<>>
<1>3. inbox' = [inbox EXCEPT !.open = FALSE, !.queue = z, !.held = NoChunk] /\ z \in Seq(Chunk)
  BY <1>1 DEF Taken
<1> HIDE DEF z
<1>4. /\ inbox' \in InboxState /\ inbox'.open = FALSE /\ inbox'.queue = z
      /\ inbox'.held = NoChunk /\ inbox'.waiting = inbox.waiting
      /\ inbox'.granted = inbox.granted
  BY <1>2, <1>3 DEF InboxState
<1>5. Q' = {} /\ H' = {} /\ Unique(inbox'.queue) /\ inbox'.queue = <<>>
  BY <1>4, ToSetEmpty DEF Q, H, HeldChunk, Unique, z
<1>6. SerTypeOK'
  BY <1>1, <1>2, <1>4 DEF SerTypeOK
<1>7. HandsInv'
  BY <1>1, <1>4 DEF HandsInv, HandsUnique, InHands
<1>8. QueueInv' /\ HeldInv' /\ TornInv'
  BY <1>1, <1>4, <1>5 DEF QueueInv, HeldInv, TornInv, Charged
<1>9. \A c, d \in H : c = d
  BY DEF H, HeldChunk
<1>10. ChargedOnce'
  BY <1>1, <1>9 DEF ChargedOnce, QueueInv, HeldInv, Charged
<1>11. NothingVanishes'
  BY <1>1, <1>5 DEF NothingVanishes, Located, Q, H
<1> QED BY <1>6, <1>7, <1>8, <1>10, <1>11
-----------------------------------------------------------------------------
(* Theorems *)

\* The accounting of a serial node's targetward queue: whatever the senders, the
\* reader thread, the device and the teardown do, in any order, for any number
\* of senders and chunks, any capacity and any number of purge rounds.
THEOREM SerialAccounting == SerSpec => []SerInv
<1>1. SerInv /\ [SerNext]_vars => SerInv'
  <2> SUFFICES ASSUME SerInv, [SerNext]_vars PROVE SerInv'
    OBVIOUS
  <2>1. CASE UNCHANGED vars
    BY <2>1 DEF vars, history, SerInv, SerTypeOK, HandsInv, QueueInv, HeldInv, TornInv,
       ChargedOnce, NothingVanishes, Located, Charged, Q, H
  <2>2. CASE \E w \in Sender, c \in Chunk : Offer(w, c)
    BY <2>2, OfferInv
  <2>3. CASE \E s \in InHands(inbox) : SendLands(s) \/ SendEnds(s)
    BY <2>3, SendLandsInv, SendEndsInv
  <2>4. CASE ReaderLost \/ LossSeen
    BY <2>4, LossInv
  <2>5. CASE Receive
    BY <2>5, ReceiveInv
  <2>6. CASE WriteDone \/ WriteFails
    BY <2>6, WriteDoneInv, WriteFailsInv
  <2>7. CASE Reopen \/ PurgeResumes
    BY <2>7, PurgeInv
  <2>8. CASE SignalStop
    BY <2>8, SignalStopInv
  <2> QED BY <2>1, <2>2, <2>3, <2>4, <2>5, <2>6, <2>7, <2>8 DEF SerNext, Supervise
<1> QED BY <1>1, InitInv, PTL DEF SerSpec

\* SerTypeOK for every instance: in particular the purge never runs more than
\* PURGE_ROUNDS rounds.
THEOREM SerTypeCorrect == SerSpec => []SerTypeOK
<1>1. SerInv => SerTypeOK
  BY DEF SerInv
<1> QED BY <1>1, SerialAccounting, PTL

\* A chunk the queue took is queued, in the writer's hands, written or on a
\* counter, unless its own write failed.
THEOREM NothingEverVanishes == SerSpec => []NothingVanishes
<1>1. SerInv => NothingVanishes
  BY DEF SerInv
<1> QED BY <1>1, SerialAccounting, PTL

\* No chunk is charged to two counters; teardown over-reports at most the chunk
\* that was written last.
THEOREM AlwaysChargedOnce == SerSpec => []ChargedOnce
<1>1. SerInv => ChargedOnce
  BY DEF SerInv
<1> QED BY <1>1, SerialAccounting, PTL
-----------------------------------------------------------------------------
(* The refinement *)

\* What the steps below read of the invariant.
LEMMA StationFacts ==
    ASSUME SerInv
    PROVE  /\ inbox \in InboxState /\ inbox.queue \in Seq(Chunk)
           /\ inbox.held \in Chunk \cup {NoChunk}
           /\ Q \cup H \cup Charged \subseteq accepted
           /\ pc # "writing" => InWork = NoChunk /\ H \subseteq written \cup failed
           /\ pc = "writing" => InWork = inbox.held
           /\ H = {inbox.held} \ {NoChunk}
           /\ \A q : AsStation!ToSet(q) = ToSet(q)
BY Typed DEF SerInv, SerTypeOK, InboxState, QueueInv, HeldInv, InWork, H, HeldChunk,
   AsStation!ToSet, ToSet

\* A chunk that enters the queue is one the station never had.
LEMMA TakeStep ==
    ASSUME SerInv, NEW c \in Chunk, c \notin accepted, inbox.open,
           inbox'.queue = Append(inbox.queue, c), inbox'.held = inbox.held,
           inbox'.open = inbox.open,
           UNCHANGED <<pc, written, failed, purged, torn>>
    PROVE  AsStation!Take(c)
<1>1. c \notin Q \cup H \cup Charged /\ c # NoChunk
  BY StationFacts, NoChunkAssumption
<1>2. c # InWork
  BY <1>1, StationFacts DEF InWork
<1>3. c \notin ToSet(inbox.queue) \cup {InWork} \cup written \cup failed \cup (purged \cup torn)
  BY <1>1, <1>2 DEF Q, Charged
<1>4. InWork' = InWork
  BY DEF InWork
<1> QED BY <1>3, <1>4, StationFacts DEF AsStation!Take

\* A step that leaves the queue, the slot and the chunk in work alone.
LEMMA StationStutters ==
    ASSUME inbox'.queue = inbox.queue, inbox'.open = inbox.open, InWork' = InWork,
           UNCHANGED <<written, failed, purged, torn>>
    PROVE  UNCHANGED AsStation!stationVars
BY DEF AsStation!stationVars

\* An offer is a step of the abstract queue.
LEMMA OfferStep ==
    ASSUME SerInv, NEW w \in Sender, NEW c \in Chunk, Offer(w, c)
    PROVE  AsStation!Take(c) \/ UNCHANGED AsStation!stationVars
<1>1. UNCHANGED <<pc, written, failed, purged, torn>> /\ c \notin accepted
  BY DEF Offer, counters, Unsent
<1>2. CASE inbox.open /\ inbox' = Push(inbox, c)
  <2>1. inbox'.queue = Append(inbox.queue, c) /\ inbox'.held = inbox.held
        /\ inbox'.open = inbox.open
    BY <1>2, StationFacts DEF Push, InboxState
  <2> QED BY <1>1, <1>2, <2>1, TakeStep
<1>3. CASE inbox' = Suspend(inbox, w, c) \/ UNCHANGED inbox
  <2>1. inbox'.queue = inbox.queue /\ inbox'.open = inbox.open /\ inbox'.held = inbox.held
    BY <1>3, StationFacts DEF Suspend, InboxState
  <2> QED BY <1>1, <2>1, StationStutters DEF InWork
<1> QED BY <1>2, <1>3 DEF Offer

\* A suspended send that ends is a step of the abstract queue, or a stutter.
LEMMA SendStep ==
    ASSUME SerInv, NEW s \in InHands(inbox), SendLands(s) \/ SendEnds(s)
    PROVE  AsStation!Take(s.chunk) \/ UNCHANGED AsStation!stationVars
<1>1. UNCHANGED <<pc, written, failed, purged, torn>>
  BY DEF SendLands, SendEnds, counters
<1>2. s.chunk \in Chunk /\ s.chunk \notin accepted
  BY Typed DEF SerInv, HandsInv
<1>3. CASE SendLands(s)
  <2>1. /\ inbox.open /\ inbox'.queue = Append(inbox.queue, s.chunk)
        /\ inbox'.held = inbox.held /\ inbox'.open = inbox.open
    BY <1>3, StationFacts DEF SendLands, Land, InboxState
  <2> QED BY <1>1, <1>2, <2>1, TakeStep
<1>4. CASE SendEnds(s)
  <2>1. SameQueue(inbox, inbox')
    BY <1>4, StationFacts, WithdrawProperties DEF SendEnds, SerInv, HandsInv
  <2> QED BY <1>1, <2>1, StationStutters DEF SameQueue, InWork
<1> QED BY <1>3, <1>4

\* Taking the next chunk is a step of the abstract queue.
LEMMA ReceiveStep ==
    ASSUME SerInv, Receive
    PROVE  AsStation!Begin
<1> DEFINE b == SettleHeld(inbox)
<1>1. /\ pc = "active" /\ pc' = "writing" /\ inbox' = PollRecv(b) /\ inbox.queue # <<>>
      /\ UNCHANGED <<written, failed, purged, torn>>
  BY DEF Receive, counters, history
<1>2. /\ b \in InboxState /\ b.queue = inbox.queue /\ b.open = inbox.open
      /\ b.waiting = inbox.waiting /\ b.granted = inbox.granted
  BY StationFacts DEF SettleHeld, InboxState
<1>3. HandsUnique(b)
  BY <1>2 DEF HandsUnique, SerInv, HandsInv
<1> HIDE DEF b
<1>4. inbox'.open = inbox.open /\ inbox'.queue = Tail(inbox.queue)
      /\ inbox'.held = Head(inbox.queue)
  BY <1>1, <1>2, <1>3, PollRecvProperties
<1>5. InWork = NoChunk /\ InWork' = Head(inbox.queue)
  BY <1>1, <1>4 DEF InWork
<1> QED BY <1>1, <1>4, <1>5 DEF AsStation!Begin

\* The write ends, well or not.
LEMMA WriteStep ==
    ASSUME SerInv, WriteDone \/ WriteFails
    PROVE  AsStation!Deliver \/ AsStation!Drop \/ UNCHANGED AsStation!stationVars
<1>1. /\ pc = "writing" /\ pc' # "writing" /\ UNCHANGED <<inbox, purged, torn>>
      /\ InWork = inbox.held /\ InWork' = NoChunk
  BY DEF WriteDone, WriteFails, counters, InWork
<1>2. \/ written' = written \cup H /\ UNCHANGED failed
      \/ failed' = failed \cup H /\ UNCHANGED written
  BY DEF WriteDone, WriteFails, counters, history, H
<1>3. CASE inbox.held = NoChunk
  <2>1. H = {}
    BY <1>3 DEF H, HeldChunk
  <2>2. InWork' = InWork /\ UNCHANGED <<written, failed>>
    BY <1>1, <1>2, <1>3, <2>1
  <2> QED BY <1>1, <2>2, StationStutters
<1>4. CASE inbox.held # NoChunk
  <2>1. H = {InWork} /\ InWork # NoChunk
    BY <1>1, <1>4 DEF H, HeldChunk
  <2> QED BY <1>1, <1>2, <2>1 DEF AsStation!Deliver, AsStation!Drop
<1> QED BY <1>3, <1>4

\* A purge round is a step of the abstract queue.
LEMMA PurgeStep ==
    ASSUME SerInv, Reopen \/ PurgeResumes
    PROVE  AsStation!Purge \/ UNCHANGED AsStation!stationVars
<1>1. /\ UNCHANGED <<written, torn, failed>>
      /\ pc # "writing" /\ pc' # "writing"
  BY DEF Reopen, PurgeResumes, PurgeRound, Arm, history
<1>2. InWork = NoChunk /\ InWork' = NoChunk
  BY <1>1 DEF InWork
<1>3. \/ UNCHANGED <<inbox, purged>>
      \/ inbox' = Drain(inbox) /\ purged' = purged \cup ToSet(inbox.queue)
  BY DEF Reopen, PurgeResumes, PurgeRound
<1>4. CASE UNCHANGED <<inbox, purged>>
  BY <1>1, <1>2, <1>4, StationStutters
<1>5. CASE inbox' = Drain(inbox) /\ purged' = purged \cup ToSet(inbox.queue)
  <2>1. inbox'.open = inbox.open /\ inbox'.queue = <<>>
    BY <1>5, StationFacts, DrainProperties DEF SerInv, HandsInv
  <2>2. (purged \cup torn)' = (purged \cup torn) \cup ToSet(inbox.queue)
    BY <1>1, <1>5
  <2> QED BY <1>1, <1>2, <2>1, <2>2, StationFacts DEF AsStation!Purge
<1> QED BY <1>3, <1>4, <1>5

\* Teardown is a step of the abstract queue.
LEMMA StopStep ==
    ASSUME SerInv, SignalStop
    PROVE  AsStation!Stop
<1>1. /\ pc # "gone" /\ pc' = "gone" /\ UNCHANGED <<written, failed, purged>>
      /\ torn' = torn \cup Q \cup H /\ inbox' = Taken(inbox)
  BY DEF SignalStop, history, DrainAndCount, Q, H
<1> DEFINE z == <<>>
<1>2. inbox' = [inbox EXCEPT !.open = FALSE, !.queue = z, !.held = NoChunk]
  BY <1>1 DEF Taken
<1> HIDE DEF z
<1>3. inbox'.open = FALSE /\ inbox'.queue = z /\ inbox.open /\ InWork' = NoChunk
  BY <1>1, <1>2, StationFacts DEF InboxState, InWork, SerInv, TornInv
<1> DEFINE last == IF pc = "writing" THEN {} ELSE H
<1>4. last \in SUBSET (written \cup failed) /\ \A c, d \in last : c = d
  BY StationFacts
<1>5. H = ({InWork} \ {NoChunk}) \cup last
  BY StationFacts
<1> HIDE DEF last
<1>6. (purged \cup torn)' = (purged \cup torn) \cup ToSet(inbox.queue)
                           \cup ({InWork} \ {NoChunk}) \cup last
  BY <1>1, <1>5 DEF Q
<1> QED BY <1>1, <1>3, <1>4, <1>6, StationFacts DEF AsStation!Stop, z

\* The serial node's targetward half implements the Station: in every behaviour,
\* for any senders, capacity and number of purge rounds, it forwards in the order
\* it took chunks in and charges what it sheds.
THEOREM SerialForwardsInOrder == SerSpec => ForwardsInOrder
<1>1. SerInit => AsStation!StationInit
  <2> SUFFICES ASSUME SerInit PROVE AsStation!StationInit
    OBVIOUS
  <2>1. inbox.open = TRUE /\ inbox.queue = <<>> /\ InWork = NoChunk
    BY DEF SerInit, NewInbox, InWork
  <2>2. written = {} /\ failed = {} /\ purged \cup torn = {}
    BY DEF SerInit
  <2> QED BY <2>1, <2>2 DEF AsStation!StationInit
<1>2. SerInv /\ [SerNext]_vars => [AsStation!StationNext]_AsStation!stationVars
  <2> SUFFICES ASSUME SerInv, [SerNext]_vars
               PROVE  AsStation!StationNext \/ UNCHANGED AsStation!stationVars
    OBVIOUS
  <2>1. CASE UNCHANGED vars
    BY <2>1, StationStutters DEF vars, history, InWork
  <2>2. CASE \E w \in Sender, c \in Chunk : Offer(w, c)
    BY <2>2, OfferStep DEF AsStation!StationNext
  <2>3. CASE \E s \in InHands(inbox) : SendLands(s) \/ SendEnds(s)
    <3>1. PICK s \in InHands(inbox) : SendLands(s) \/ SendEnds(s)
      BY <2>3
    <3>2. s.chunk \in Chunk
      BY Typed DEF SerInv
    <3> QED BY <3>1, <3>2, SendStep DEF AsStation!StationNext
  <2>4. CASE ReaderLost \/ LossSeen
    <3>1. UNCHANGED <<inbox, written, failed, purged, torn>> /\ InWork' = InWork
      BY <2>4 DEF ReaderLost, LossSeen, counters, history, InWork
    <3> QED BY <3>1, StationStutters
  <2>5. CASE Receive
    BY <2>5, ReceiveStep DEF AsStation!StationNext
  <2>6. CASE WriteDone \/ WriteFails
    BY <2>6, WriteStep DEF AsStation!StationNext
  <2>7. CASE Reopen \/ PurgeResumes
    BY <2>7, PurgeStep DEF AsStation!StationNext
  <2>8. CASE SignalStop
    BY <2>8, StopStep DEF AsStation!StationNext
  <2> QED BY <2>1, <2>2, <2>3, <2>4, <2>5, <2>6, <2>7, <2>8 DEF SerNext, Supervise
<1> QED BY <1>1, <1>2, SerialAccounting, PTL DEF SerSpec, ForwardsInOrder, AsStation!StationSpec

-----------------------------------------------------------------------------
(* The purge on reconnect *)

\* The senders are within what the purge can catch.
Reach == PurgeOnReconnect /\ Cardinality(Sender) <= PurgeReach

\* What may still get into the device.
Pending == Q \cup InHand

\* After r rounds a stale chunk is still suspended only if r * Cap senders were
\* ahead of it.
StaleMovedUp(r) ==
    \A i \in 1 .. Len(inbox.waiting) :
        inbox.waiting[i].chunk \in stale => i + r * Cap <= Cardinality(Sender)

\* Past the purge nothing stale is queued or suspended; during it what is
\* suspended moves up by Cap places a round, so that the last round finds nothing.
StaleInv ==
    /\ stale \subseteq accepted \cup refused \cup InHand
    /\ Pressure(inbox)
    /\ Reach =>
           /\ written \cap stale = {}
           /\ pc \in {"waiting", "active", "writing"} => stale \cap Pending = {}
           /\ pc = "writing" => stale \cap H = {}
           /\ pc = "purging" => rounds >= 1 /\ StaleMovedUp(rounds)
           /\ pc = "purging" /\ rounds = PurgeRounds => stale \cap Pending = {}

\* What a sender does: it brings in nothing stale and lets nobody fall back.
LEMMA SendersStale ==
    ASSUME SerInv, StaleInv, UNCHANGED <<pc, rounds, written, stale>>,
           H' = H, Pressure(inbox'),
           stale \subseteq (accepted \cup refused \cup InHand)',
           \A x \in Pending' : x \in Pending \/ x \notin stale,
           \A i \in 1 .. Len(inbox'.waiting) :
               \/ inbox'.waiting[i].chunk \notin stale
               \/ \E j \in 1 .. Len(inbox.waiting) :
                      j >= i /\ inbox'.waiting[i] = inbox.waiting[j]
    PROVE  StaleInv'
<1>1. Reach' = Reach
  BY DEF Reach, PurgeReach
<1>2. stale \cap Pending = {} => (stale \cap Pending = {})'
  OBVIOUS
<1>3. ASSUME StaleMovedUp(rounds) PROVE StaleMovedUp(rounds)'
  <2>1. Cardinality(Sender) \in Nat
    BY SenderAssumption, FS_CardinalityType
  <2> DEFINE K == rounds * Cap
  <2>2. K \in Nat
    BY PurgeAssumption, CapAssumption DEF SerInv, SerTypeOK
  <2> HIDE DEF K
  <2> SUFFICES ASSUME NEW i \in 1 .. Len(inbox'.waiting), inbox'.waiting[i].chunk \in stale
               PROVE  i + K <= Cardinality(Sender)
    BY DEF StaleMovedUp, K
  <2>3. PICK j \in 1 .. Len(inbox.waiting) : j >= i /\ inbox'.waiting[i] = inbox.waiting[j]
    OBVIOUS
  <2>4. j + K <= Cardinality(Sender)
    BY <1>3, <2>3 DEF StaleMovedUp, K
  <2> QED BY <2>1, <2>2, <2>3, <2>4
<1> QED BY <1>1, <1>2, <1>3 DEF StaleInv

\* A new chunk is not stale.
LEMMA OfferStale ==
    ASSUME SerInv, StaleInv, NEW w \in Sender, NEW c \in Chunk, Offer(w, c)
    PROVE  StaleInv'
<1>1. inbox \in InboxState /\ inbox.queue \in Seq(Chunk) /\ inbox.waiting \in Seq(Suspended)
  BY Typed DEF SerInv, InboxState
<1>2. UNCHANGED <<pc, rounds, written, stale>> /\ Idle(inbox, w)
  BY DEF Offer, counters
<1>3. c \notin stale
  BY DEF Offer, Unsent, StaleInv
<1>4. CASE inbox' = Push(inbox, c) /\ accepted' = accepted \cup {c} /\ UNCHANGED refused
  <2> DEFINE r == Append(inbox.queue, c)
  <2>1. r \in Seq(Chunk) /\ Len(r) = Len(inbox.queue) + 1 /\ Len(inbox.queue) \in Nat
        /\ ToSet(r) = Q \cup {c}
    BY <1>1, ToSetAppend DEF Q
  <2>2. inbox' = [inbox EXCEPT !.queue = r]
    BY <1>4 DEF Push
  <2> HIDE DEF r
  <2>3. /\ inbox'.queue = r /\ inbox'.waiting = inbox.waiting
        /\ inbox'.granted = inbox.granted /\ inbox'.open = inbox.open
        /\ inbox'.held = inbox.held
    BY <1>1, <2>2 DEF InboxState
  <2>4. IsFiniteSet(inbox.granted) /\ Cardinality(inbox.granted) \in Nat
    BY FS_CardinalityType DEF StaleInv, Pressure
  <2>5. Len(inbox'.queue) + Cardinality(inbox'.granted)
            >= Len(inbox.queue) + Cardinality(inbox.granted)
    BY <2>1, <2>3, <2>4
  <2>6. Pressure(inbox')
    BY <1>1, <2>1, <2>3, <2>4, <2>5, PressureGrows DEF StaleInv
  <2>7. Q' = Q \cup {c} /\ H' = H /\ InHand' = InHand
    BY <2>1, <2>3 DEF Q, H, HeldChunk, InHand, InHands
  <2>8. stale \subseteq (accepted \cup refused \cup InHand)'
    BY <1>4, <2>7 DEF StaleInv
  <2>9. \A x \in Pending' : x \in Pending \/ x \notin stale
    BY <1>3, <2>7 DEF Pending
  <2>10. \A i \in 1 .. Len(inbox'.waiting) :
             \E j \in 1 .. Len(inbox.waiting) :
                 j >= i /\ inbox'.waiting[i] = inbox.waiting[j]
    BY <2>3
  <2> QED BY <1>2, <2>6, <2>7, <2>8, <2>9, <2>10, SendersStale
<1>5. CASE ~Room(inbox) /\ inbox' = Suspend(inbox, w, c) /\ UNCHANGED <<accepted, refused>>
  <2> DEFINE e == [who |-> w, chunk |-> c]
             r == Append(inbox.waiting, e)
  <2>1. e \in Suspended /\ e.chunk = c
    BY DEF Suspended
  <2>2. inbox' = [inbox EXCEPT !.waiting = r]
    BY <1>5 DEF Suspend
  <2> HIDE DEF e
  <2>3. ToSet(r) = ToSet(inbox.waiting) \cup {e}
    BY <1>1, <2>1, ToSetAppend
  <2> HIDE DEF r
  <2>4. /\ inbox'.queue = inbox.queue /\ inbox'.waiting = r
        /\ inbox'.granted = inbox.granted /\ inbox'.held = inbox.held
    BY <1>1, <2>2 DEF InboxState
  <2>5. /\ Pressure(inbox')
        /\ \A i \in 1 .. Len(inbox'.waiting) :
               \/ inbox'.waiting[i].chunk = c
               \/ i \in 1 .. Len(inbox.waiting) /\ inbox'.waiting[i] = inbox.waiting[i]
    BY <1>1, <1>2, <1>5, SuspendPressure DEF StaleInv
  <2>6. Q' = Q /\ H' = H
    BY <2>4 DEF Q, H, HeldChunk
  <2>7. InHand' = InHand \cup {c}
    BY <2>1, <2>3, <2>4 DEF InHand, InHands
  <2>8. stale \subseteq (accepted \cup refused \cup InHand)'
    BY <1>5, <2>7 DEF StaleInv
  <2>9. \A x \in Pending' : x \in Pending \/ x \notin stale
    BY <1>3, <2>6, <2>7 DEF Pending
  <2>10. \A i \in 1 .. Len(inbox'.waiting) :
             \/ inbox'.waiting[i].chunk \notin stale
             \/ \E j \in 1 .. Len(inbox.waiting) :
                    j >= i /\ inbox'.waiting[i] = inbox.waiting[j]
    BY <1>3, <2>5
  <2> QED BY <1>2, <2>5, <2>6, <2>8, <2>9, <2>10, SendersStale
<1>6. CASE UNCHANGED <<inbox, accepted>> /\ refused' = refused \cup {c}
  <2>1. H' = H /\ Pending' = Pending /\ InHand' = InHand /\ Pressure(inbox')
    BY <1>6 DEF H, Pending, Q, InHand, StaleInv
  <2>2. stale \subseteq (accepted \cup refused \cup InHand)'
    BY <1>6, <2>1 DEF StaleInv
  <2>3. \A i \in 1 .. Len(inbox'.waiting) :
             \E j \in 1 .. Len(inbox.waiting) :
                 j >= i /\ inbox'.waiting[i] = inbox.waiting[j]
    BY <1>6
  <2> QED BY <1>2, <2>1, <2>2, <2>3, SendersStale
<1> QED BY <1>4, <1>5, <1>6 DEF Offer

\* A stale chunk that lands is still within the purge's reach.
LEMMA SendLandsStale ==
    ASSUME SerInv, StaleInv, NEW s \in InHands(inbox), SendLands(s)
    PROVE  StaleInv'
<1>1. inbox \in InboxState /\ inbox.queue \in Seq(Chunk) /\ s.chunk \in Chunk
  BY Typed DEF SerInv
<1>2. /\ UNCHANGED <<pc, rounds, written, refused, stale>> /\ s \in inbox.granted
      /\ inbox' = Land(inbox, s) /\ accepted' = accepted \cup {s.chunk}
  BY DEF SendLands, counters
<1>3. /\ Pressure(inbox') /\ inbox'.waiting = inbox.waiting
      /\ InHands(inbox) = InHands(inbox') \cup {s}
  BY <1>1, <1>2, LandPressure DEF StaleInv
<1>4. InHand = InHand' \cup {s.chunk}
  BY <1>3 DEF InHand
<1>5. Q' = Q \cup {s.chunk} /\ H' = H
  <2>1. inbox'.queue = Append(inbox.queue, s.chunk) /\ inbox'.held = inbox.held
    BY <1>1, <1>2 DEF Land, InboxState
  <2> QED BY <1>1, <2>1, ToSetAppend DEF Q, H, HeldChunk
<1>6. stale \subseteq (accepted \cup refused \cup InHand)'
  BY <1>2, <1>4 DEF StaleInv
<1>7. \A x \in Pending' : x \in Pending \/ x \notin stale
  BY <1>4, <1>5 DEF Pending
<1>8. \A i \in 1 .. Len(inbox'.waiting) :
          \E j \in 1 .. Len(inbox.waiting) :
              j >= i /\ inbox'.waiting[i] = inbox.waiting[j]
  BY <1>3
<1> QED BY <1>2, <1>3, <1>5, <1>6, <1>7, <1>8, SendersStale

\* A withdrawn writer leaves the others where the purge reaches them.
LEMMA SendEndsStale ==
    ASSUME SerInv, StaleInv, NEW s \in InHands(inbox), SendEnds(s)
    PROVE  StaleInv'
<1>1. inbox \in InboxState /\ HandsUnique(inbox)
  BY Typed DEF SerInv, HandsInv
<1>2. /\ UNCHANGED <<pc, rounds, written, accepted, stale>>
      /\ inbox' = Withdraw(inbox, s) /\ refused' = refused \cup {s.chunk}
  BY DEF SendEnds, counters
<1>3. SameQueue(inbox, inbox') /\ InHands(inbox') \subseteq InHands(inbox)
  BY <1>1, <1>2, WithdrawProperties
<1>4. /\ Pressure(inbox') /\ MovesUp(inbox, inbox', 0)
      /\ InHands(inbox) \subseteq InHands(inbox') \cup {s}
  BY <1>1, <1>2, WithdrawMoves DEF StaleInv
<1>5. InHand' \subseteq InHand /\ InHand \subseteq InHand' \cup {s.chunk}
  BY <1>3, <1>4 DEF InHand
<1>6. Q' = Q /\ H' = H
  BY <1>3 DEF SameQueue, Q, H, HeldChunk
<1>7. stale \subseteq (accepted \cup refused \cup InHand)'
  BY <1>2, <1>5 DEF StaleInv
<1>8. \A x \in Pending' : x \in Pending \/ x \notin stale
  BY <1>5, <1>6 DEF Pending
<1>9. \A i \in 1 .. Len(inbox'.waiting) :
          \E j \in 1 .. Len(inbox.waiting) :
              j >= i /\ inbox'.waiting[i] = inbox.waiting[j]
  BY <1>4 DEF MovesUp
<1> QED BY <1>2, <1>4, <1>6, <1>7, <1>8, <1>9, SendersStale

\* The steps of the supervisor that leave the inbox alone.
LEMMA WritesStale ==
    ASSUME SerInv, StaleInv, ReaderLost \/ LossSeen \/ WriteDone \/ WriteFails
    PROVE  StaleInv'
<1>1. UNCHANGED <<inbox, rounds, accepted, refused, stale>>
  BY DEF ReaderLost, LossSeen, WriteDone, WriteFails, history
<1>2. /\ pc \in {"active", "writing"} /\ pc' \in {"waiting", "active", "writing"}
      /\ pc' = "writing" => pc = "writing"
  BY DEF ReaderLost, LossSeen, WriteDone, WriteFails
<1>3. written' = written \/ (pc = "writing" /\ written' = written \cup H)
  BY DEF ReaderLost, LossSeen, WriteDone, WriteFails, counters, H
<1>4. Reach' = Reach /\ Pending' = Pending /\ InHand' = InHand /\ H' = H
  BY <1>1 DEF Reach, PurgeReach, Pending, Q, InHand, H
<1> QED BY <1>1, <1>2, <1>3, <1>4 DEF StaleInv

\* After the purge, what is taken is not stale.
LEMMA ReceiveStale ==
    ASSUME SerInv, StaleInv, Receive
    PROVE  StaleInv'
<1> DEFINE b == SettleHeld(inbox)
           h == Head(inbox.queue)
<1>1. inbox \in InboxState /\ inbox.queue \in Seq(Chunk) /\ inbox.queue # <<>>
  BY Typed DEF SerInv, Receive
<1>2. /\ UNCHANGED <<rounds, written, accepted, refused, stale>>
      /\ pc = "active" /\ pc' = "writing" /\ inbox' = PollRecv(b)
  BY DEF Receive, counters, history
<1>3. /\ b \in InboxState /\ b.queue = inbox.queue /\ b.open = inbox.open
      /\ b.waiting = inbox.waiting /\ b.granted = inbox.granted
  BY <1>1 DEF SettleHeld, InboxState
<1>4. HandsUnique(b) /\ InHands(b) = InHands(inbox)
  BY <1>3 DEF HandsUnique, SerInv, HandsInv, InHands
<1>5. Pressure(b)
  BY <1>3 DEF Pressure, StaleInv
<1> HIDE DEF b
<1>6. /\ inbox'.queue = Tail(inbox.queue) /\ inbox'.held = h
      /\ InHands(inbox') = InHands(inbox)
  BY <1>1, <1>2, <1>3, <1>4, PollRecvProperties
<1>7. Pressure(inbox')
  BY <1>1, <1>2, <1>3, <1>4, <1>5, PollRecvPressure
<1>8. Q = {h} \cup Q' /\ H' \subseteq {h}
  BY <1>1, <1>6, ToSetHead DEF Q, H, HeldChunk
<1> HIDE DEF h
<1>9. Reach' = Reach /\ InHand' = InHand
  BY <1>6 DEF Reach, PurgeReach, InHand
<1>10. Pending' \subseteq Pending /\ H' \subseteq Pending
  BY <1>8, <1>9 DEF Pending
<1> QED BY <1>2, <1>7, <1>9, <1>10 DEF StaleInv

\* Teardown: nothing is written any more.
LEMMA StopStale ==
    ASSUME SerInv, StaleInv, SignalStop
    PROVE  StaleInv'
<1>1. /\ UNCHANGED <<rounds, written, accepted, refused, stale>> /\ pc' = "gone"
      /\ inbox' = Taken(inbox)
  BY DEF SignalStop, history
<1>2. inbox \in InboxState
  BY Typed DEF SerInv
<1> DEFINE z == <<>>
           no == FALSE
<1>3. inbox' = [inbox EXCEPT !.open = no, !.queue = z, !.held = NoChunk]
  BY <1>1 DEF Taken
<1> HIDE DEF z
<1>4. ~inbox'.open /\ inbox'.waiting = inbox.waiting /\ inbox'.granted = inbox.granted
  BY <1>2, <1>3 DEF InboxState
<1>5. Pressure(inbox') /\ InHand' = InHand
  BY <1>4 DEF StaleInv, Pressure, InHand, InHands
<1>6. Reach' = Reach
  BY DEF Reach, PurgeReach
<1> QED BY <1>1, <1>5, <1>6 DEF StaleInv

\* Round r of the purge, with the chunks that are stale when it is over: those
\* still suspended have moved up once more, and the last round leaves none.
LEMMA RoundStale ==
    ASSUME SerInv, Pressure(inbox), inbox.open, inbox.granted = {},
           NEW r \in 1 .. PurgeRounds, PurgeRound(r),
           Cardinality(Sender) <= PurgeReach,
           \A i \in 1 .. Len(inbox.waiting) :
               inbox.waiting[i].chunk \in stale' => i + (r - 1) * Cap <= Cardinality(Sender)
    PROVE  /\ pc' \in {"waiting", "active"} => (stale \cap Pending = {})'
           /\ pc' = "purging" => (rounds >= 1 /\ StaleMovedUp(rounds))'
           /\ pc' = "purging" /\ rounds' = PurgeRounds => (stale \cap Pending = {})'
           /\ pc' \in {"waiting", "active", "purging"}
<1> DEFINE N == Cardinality(Sender)
           K == (r - 1) * Cap
           w == inbox.waiting
           v == inbox'.waiting
<1>1. /\ inbox \in InboxState /\ inbox.queue \in Seq(Chunk) /\ w \in Seq(Suspended)
      /\ HandsUnique(inbox) /\ Len(inbox.queue) \in Nat
  BY Typed DEF SerInv, HandsInv, InboxState
<1>2. inbox' = Drain(inbox)
  BY DEF PurgeRound
<1>3. /\ inbox' \in InboxState /\ inbox'.queue = <<>> /\ InHands(inbox') = InHands(inbox)
  BY <1>1, <1>2, DrainProperties
<1>4. v # <<>> => MovesUp(inbox, inbox', Len(inbox.queue))
  BY <1>1, <1>2, DrainMoves
<1>5. Q' = {} /\ InHand' = InHand /\ Pending' = InHand
  BY <1>3, ToSetEmpty DEF Q, InHand, Pending
<1>6. InHand = {w[i].chunk : i \in 1 .. Len(w)}
  <2>1. InHands(inbox) = {w[i] : i \in 1 .. Len(w)}
    BY <1>1 DEF InHands, ToSet
  <2> QED BY <2>1 DEF InHand
<1>7. N \in Nat /\ K \in Nat /\ r \in Nat /\ Cap \in Nat
  BY SenderAssumption, FS_CardinalityType, CapAssumption, PurgeAssumption
<1>8. Cardinality(inbox.granted) = 0
  BY FS_EmptySet
<1>9. Len(inbox.queue) < Cap => w = <<>>
  BY <1>1, <1>7, <1>8 DEF Pressure
<1>10. r * Cap = K + Cap
  BY <1>7
<1>11. CASE inbox.queue = <<>>
  <2>1. Len(inbox.queue) < Cap
    BY <1>11, CapAssumption
  <2>2. Pending' = {}
    BY <1>5, <1>6, <1>9, <2>1
  <2>3. pc' \in {"active", "waiting"}
    BY <1>11 DEF PurgeRound, Progress, Arm
  <2> QED BY <2>2, <2>3
<1>12. CASE inbox.queue # <<>>
  <2>1. pc' = "purging" /\ rounds' = r
    BY <1>12 DEF PurgeRound, Progress
  <2>2. ASSUME NEW i \in 1 .. Len(v), v[i].chunk \in stale'
        PROVE  i + r * Cap <= N
    <3>1. v \in Seq(Suspended) /\ v # <<>>
      BY <1>3, <2>2 DEF InboxState
    <3>2. PICK j \in 1 .. Len(w) : j >= i + Len(inbox.queue) /\ v[i] = w[j]
      BY <1>4, <3>1 DEF MovesUp
    <3>3. Len(inbox.queue) >= Cap
      BY <1>1, <1>7, <1>9, <3>2
    <3>4. j + K <= N
      BY <2>2, <3>2
    <3> HIDE DEF K, N
    <3>5. i \in Nat /\ j \in Nat
      OBVIOUS
    <3> QED BY <1>1, <1>7, <1>10, <3>2, <3>3, <3>4, <3>5
  <2>3. StaleMovedUp(rounds)'
    BY <2>1, <2>2 DEF StaleMovedUp
  <2>4. ASSUME r = PurgeRounds PROVE (stale \cap Pending = {})'
    <3>1. N <= K
      BY <2>4 DEF PurgeReach
    <3> HIDE DEF K, N
    <3>2. \A i \in 1 .. Len(w) : ~(i + K <= N)
      BY <1>7, <3>1
    <3>3. \A i \in 1 .. Len(w) : w[i].chunk \notin stale'
      BY <3>2 DEF K, N
    <3> QED BY <1>5, <1>6, <3>3
  <2> QED BY <1>7, <2>1, <2>3, <2>4
<1> QED BY <1>11, <1>12

\* A drain or nothing: whose hands the chunks are in does not change.
LEMMA PurgeKeeps ==
    ASSUME SerInv, StaleInv, Reopen \/ PurgeResumes
    PROVE  Pressure(inbox') /\ InHand' = InHand
<1>1. inbox \in InboxState /\ HandsUnique(inbox) /\ Pressure(inbox)
  BY Typed DEF SerInv, HandsInv, StaleInv
<1>2. inbox' = inbox \/ inbox' = Drain(inbox)
  BY DEF Reopen, PurgeResumes, PurgeRound
<1>3. Pressure(inbox') /\ InHands(inbox') = InHands(inbox)
  BY <1>1, <1>2, DrainProperties, DrainMoves
<1> QED BY <1>3 DEF InHand

\* What is queued or suspended at a reconnect becomes stale.
LEMMA ReopenStale ==
    ASSUME SerInv, StaleInv, Reopen
    PROVE  StaleInv'
<1>1. /\ UNCHANGED <<written, accepted, refused>> /\ pc = "waiting"
      /\ inbox.granted = {} /\ stale' = stale \cup Q \cup InHand
  BY DEF Reopen, Q
<1>2. Pressure(inbox') /\ InHand' = InHand /\ Reach' = Reach
  BY PurgeKeeps DEF Reach, PurgeReach
<1>3. Q \subseteq accepted /\ written \cap Q = {} /\ written \cap InHand = {}
  BY DEF SerInv, QueueInv, HandsInv, Charged, InHand
<1>4. stale' \subseteq (accepted \cup refused \cup InHand)'
  BY <1>1, <1>2, <1>3 DEF StaleInv
<1>5. ASSUME Reach
      PROVE  /\ (written \cap stale = {})'
             /\ pc' \in {"waiting", "active"} => (stale \cap Pending = {})'
             /\ pc' = "purging" => (rounds >= 1 /\ StaleMovedUp(rounds))'
             /\ pc' = "purging" /\ rounds' = PurgeRounds => (stale \cap Pending = {})'
             /\ pc' \in {"waiting", "active", "purging"}
  <2>1. PurgeRound(1) /\ Cardinality(Sender) <= PurgeReach /\ 1 \in 1 .. PurgeRounds
    BY <1>5, PurgeAssumption DEF Reopen, Reach
  <2>2. inbox.open /\ inbox \in InboxState /\ Pressure(inbox)
    BY <1>1, Typed DEF SerInv, TornInv, StaleInv
  <2>3. Len(inbox.waiting) <= Cardinality(Sender) /\ Cardinality(Sender) \in Nat
        /\ Len(inbox.waiting) \in Nat
    BY <2>2, WaitingBound DEF InboxState
  <2>4. (1 - 1) * Cap = 0
    BY CapAssumption
  <2>5. \A i \in 1 .. Len(inbox.waiting) :
            inbox.waiting[i].chunk \in stale' => i + (1 - 1) * Cap <= Cardinality(Sender)
    BY <2>3, <2>4
  <2>6. (written \cap stale = {})'
    BY <1>1, <1>3, <1>5 DEF StaleInv
  <2> QED BY <1>1, <2>1, <2>2, <2>5, <2>6, RoundStale
<1> QED BY <1>2, <1>4, <1>5 DEF StaleInv

\* The next round takes what the freed permits let in.
LEMMA PurgeResumesStale ==
    ASSUME SerInv, StaleInv, PurgeResumes
    PROVE  StaleInv'
<1>1. /\ UNCHANGED <<written, accepted, refused, stale>> /\ pc = "purging"
      /\ inbox.granted = {}
  BY DEF PurgeResumes, history
<1>2. Pressure(inbox') /\ InHand' = InHand /\ Reach' = Reach
  BY PurgeKeeps DEF Reach, PurgeReach
<1>3. stale' \subseteq (accepted \cup refused \cup InHand)'
  BY <1>1, <1>2 DEF StaleInv
<1>4. rounds \in 0 .. PurgeRounds
  BY DEF SerInv, SerTypeOK
<1>5. ASSUME Reach
      PROVE  /\ pc' \in {"waiting", "active"} => (stale \cap Pending = {})'
             /\ pc' = "purging" => (rounds >= 1 /\ StaleMovedUp(rounds))'
             /\ pc' = "purging" /\ rounds' = PurgeRounds => (stale \cap Pending = {})'
             /\ pc' \in {"waiting", "active", "purging"}
  <2>1. CASE rounds < PurgeRounds
    <3> DEFINE r == rounds + 1
    <3>1. r \in 1 .. PurgeRounds /\ r - 1 = rounds
      BY <1>4, <2>1, PurgeAssumption
    <3>2. PurgeRound(r) /\ Cardinality(Sender) <= PurgeReach
      BY <1>5, <2>1 DEF PurgeResumes, Reach
    <3> HIDE DEF r
    <3>3. \A i \in 1 .. Len(inbox.waiting) :
              inbox.waiting[i].chunk \in stale' => i + (r - 1) * Cap <= Cardinality(Sender)
      BY <1>1, <1>5, <3>1 DEF StaleInv, StaleMovedUp
    <3>4. inbox.open /\ Pressure(inbox)
      BY <1>1 DEF SerInv, TornInv, StaleInv
    <3> QED BY <1>1, <3>1, <3>2, <3>3, <3>4, RoundStale
  <2>2. CASE rounds = PurgeRounds
    <3>1. UNCHANGED inbox /\ pc' \in {"active", "waiting"}
      BY <2>2, PurgeAssumption DEF PurgeResumes, Arm
    <3>2. stale \cap Pending = {}
      BY <1>1, <1>5, <2>2 DEF StaleInv
    <3> QED BY <1>1, <3>1, <3>2 DEF Pending, Q, InHand
  <2> QED BY <1>4, <2>1, <2>2, PurgeAssumption
<1> QED BY <1>1, <1>2, <1>3, <1>5 DEF StaleInv

\* What was sent before a reopen never reaches the reopened device, for any
\* capacity and any number of purge rounds, as long as no more senders exist than
\* all rounds but the last hand permits to.
THEOREM StaleNeverReachesDevice == SerSpec => []StaleNeverWritten
<1>1. SerInit => StaleInv
  <2> SUFFICES ASSUME SerInit PROVE StaleInv
    OBVIOUS
  <2>1. inbox.queue = <<>> /\ inbox.waiting = <<>> /\ inbox.granted = {}
    BY DEF SerInit, NewInbox
  <2>2. Pressure(inbox)
    BY <2>1, FS_EmptySet DEF Pressure
  <2>3. stale = {} /\ pc # "purging"
    BY DEF SerInit
  <2> QED BY <2>2, <2>3 DEF StaleInv
<1>2. SerInv /\ StaleInv /\ [SerNext]_vars => StaleInv'
  <2> SUFFICES ASSUME SerInv, StaleInv, [SerNext]_vars PROVE StaleInv'
    OBVIOUS
  <2>1. CASE UNCHANGED vars
    BY <2>1 DEF vars, history, StaleInv, Reach, PurgeReach, Pending, Q, H, InHand, StaleMovedUp
  <2>2. CASE \E w \in Sender, c \in Chunk : Offer(w, c)
    BY <2>2, OfferStale
  <2>3. CASE \E s \in InHands(inbox) : SendLands(s) \/ SendEnds(s)
    BY <2>3, SendLandsStale, SendEndsStale
  <2>4. CASE ReaderLost \/ LossSeen \/ WriteDone \/ WriteFails
    BY <2>4, WritesStale
  <2>5. CASE Receive
    BY <2>5, ReceiveStale
  <2>6. CASE Reopen
    BY <2>6, ReopenStale
  <2>7. CASE PurgeResumes
    BY <2>7, PurgeResumesStale
  <2>8. CASE SignalStop
    BY <2>8, StopStale
  <2> QED BY <2>1, <2>2, <2>3, <2>4, <2>5, <2>6, <2>7, <2>8 DEF SerNext, Supervise
<1>3. StaleInv => StaleNeverWritten
  BY DEF StaleInv, StaleNeverWritten, Reach
<1> QED BY <1>1, <1>2, <1>3, SerialAccounting, PTL DEF SerSpec
-----------------------------------------------------------------------------
(* The port: the inductive invariant *)

TtyState == [present : BOOLEAN, epoch : Nat, excl : BOOLEAN, brk : BOOLEAN, dtr : BOOLEAN]
PortState == [epoch : Nat, claimed : BOOLEAN]
NodeStatus == {"none", "waiting", "faulted", "active"}
NodeState == [inst : Nat, port : Nat, gen : Nat, inFlight : Int, status : NodeStatus]
VerbState == [st : {"none", "holding", "failed", "ok", "gone"},
              kind : {"none", "brk", "dtr"}, inst : Nat, gen : Nat, port : Nat,
              level : BOOLEAN]

PortTypes ==
    /\ tty \in TtyState /\ ports \in Seq(PortState) /\ node \in NodeState
    /\ sup \in [pc : {"none", "start", "active", "poll", "purge"}, port : Nat]
    /\ reader \in [port : Nat, lost : BOOLEAN]
    /\ verbs \in [Verb -> VerbState]

\* The bounds of the model.
Bounded ==
    /\ tty.epoch \in 1 .. MaxReplugs + 1
    /\ ~tty.present => tty.epoch <= MaxReplugs
    /\ Len(ports) <= MaxOpens

\* Port p of the tty d is claimed and no other: the flags of d are p's.
Claims(d, ps, p) ==
    /\ p \in 0 .. Len(ps)
    /\ \A q \in 1 .. Len(ps) : ps[q].epoch <= d.epoch /\ (ps[q].claimed <=> q = p)
    /\ d.present => (d.excl <=> OnTty(d, ps, p))
    /\ d.present /\ d.brk => OnTty(d, ps, p)

\* Aborted futures keep ports the node no longer has.
GhostsInv == ghosts \subseteq 1 .. Len(ports) /\ node.port \notin ghosts

\* Where the supervisor is tells which port the node has.
SupInv ==
    /\ ~Live <=> sup.pc = "none"
    /\ sup.pc \in {"none", "poll"} => node.port = 0
    /\ sup.pc = "purge" => node.port # 0 /\ sup.port = node.port
    /\ sup.pc # "purge" => sup.port = 0
    /\ node.status = "active" => node.port # 0
    /\ reader.port # 0 => sup.pc = "active" /\ reader.port = node.port

\* A verb that holds the line is of the node's past or of its present port, where
\* it is the only one and has the lease; the generation tells which, since no port
\* of another generation is the one the verb asserted on.
Current(v) == verbs[v].inst = node.inst /\ verbs[v].gen = node.gen
LineInv ==
    /\ node.inFlight <= node.gen
    /\ \A v \in Verb : Holding(v) =>
           /\ verbs[v].inst < node.inst \/ (verbs[v].inst = node.inst /\ verbs[v].gen <= node.gen)
           /\ Current(v) => LineBusy
           /\ verbs[v].kind = "brk" => verbs[v].level
           /\ verbs[v].port \in 1 .. Len(ports)
           /\ Current(v) <=> verbs[v].port = node.port
    /\ \A u, v \in Verb : Holding(u) /\ Holding(v) /\ Current(u) /\ Current(v) => u = v
    /\ LineBusy => \E v \in Verb : Holding(v) /\ Current(v)

\* The tty is in break exactly while a send-break holds it on the present port.
BreakInv ==
    /\ tty.present /\ tty.brk => \E v \in Verb : Holding(v) /\ verbs[v].kind = "brk" /\ Current(v)
    /\ \A v \in Verb : Holding(v) /\ verbs[v].kind = "brk" /\ Current(v)
                       /\ OnTty(tty, ports, node.port) => tty.brk

PortInv == PortTypes /\ Bounded /\ Claims(tty, ports, node.port) /\ GhostsInv /\ SupInv
           /\ LineInv /\ BreakInv

-----------------------------------------------------------------------------
(* Claims *)

\* Releasing the node's port leaves a tty nobody claims, out of break.
LEMMA ReleasedClaims ==
    ASSUME NEW d \in TtyState, NEW ps \in Seq(PortState), NEW p, Claims(d, ps, p),
           NEW x, x = [tty |-> d, ports |-> ps]
    PROVE  LET y == Released(x, p)
           IN  /\ y.tty \in TtyState /\ y.ports \in Seq(PortState)
               /\ Len(y.ports) = Len(ps)
               /\ y.tty.present = d.present /\ y.tty.epoch = d.epoch
               /\ Claims(y.tty, y.ports, 0)
<1> DEFINE y == Released(x, p)
<1>1. x.tty = d /\ x.ports = ps /\ p \in 0 .. Len(ps) /\ Len(ps) \in Nat
  BY DEF Claims
<1>2. CASE p = 0
  <2>1. y = x
    BY <1>2 DEF Released
  <2> QED BY <1>1, <1>2, <2>1
<1>3. CASE p # 0
  <2> DEFINE no == FALSE
             r == [ps[p] EXCEPT !.claimed = no]
             ps2 == [ps EXCEPT ![p] = r]
             d2 == IF OnTty(d, ps, p) THEN [d EXCEPT !.brk = no, !.excl = no] ELSE d
  <2>1. p \in 1 .. Len(ps) /\ ps[p].claimed /\ ps[p] \in PortState
    BY <1>1, <1>3 DEF Claims
  <2>2. y = [ports |-> ps2, tty |-> d2]
    BY <1>1, <1>3, <2>1 DEF Released
  <2>3. no \in BOOLEAN /\ ~no
    OBVIOUS
  <2> HIDE DEF no
  <2>4. r \in PortState /\ ~r.claimed /\ r.epoch = ps[p].epoch
    BY <2>1, <2>3 DEF PortState
  <2> HIDE DEF r
  <2>5. /\ ps2 \in Seq(PortState) /\ Len(ps2) = Len(ps)
        /\ \A q \in 1 .. Len(ps) : ps2[q] = IF q = p THEN r ELSE ps[q]
    BY <2>1, <2>4, ExceptSeq
  <2> HIDE DEF ps2
  <2>6. /\ d2 \in TtyState /\ d2.present = d.present /\ d2.epoch = d.epoch
        /\ OnTty(d, ps, p) => ~d2.excl /\ ~d2.brk
        /\ ~OnTty(d, ps, p) => d2 = d
    BY <2>3 DEF TtyState
  <2> HIDE DEF d2
  <2>7. \A q \in 1 .. Len(ps2) : ps2[q].epoch <= d2.epoch /\ ~ps2[q].claimed
    BY <2>1, <2>4, <2>5, <2>6 DEF Claims
  <2>8. d2.present => ~d2.excl /\ ~d2.brk
    BY <2>6 DEF Claims
  <2>9. Claims(d2, ps2, 0)
    BY <1>1, <2>5, <2>7, <2>8 DEF Claims, OnTty
  <2>10. y.tty = d2 /\ y.ports = ps2
    BY <2>2
  <2> HIDE DEF y
  <2> QED BY <2>5, <2>6, <2>9, <2>10 DEF y
<1> QED BY <1>1, <1>2, <1>3

\* Dropping a port the node no longer has does nothing.
LEMMA ReleasedOther ==
    ASSUME NEW x, NEW n, Claims(x.tty, x.ports, n), NEW p \in 1 .. Len(x.ports), p # n
    PROVE  Released(x, p) = x
BY DEF Released, Claims

\* open_port on a tty nobody claims.
LEMMA OpenedClaims ==
    ASSUME NEW x, x.tty \in TtyState, x.ports \in Seq(PortState), x.tty.present,
           Claims(x.tty, x.ports, 0), Len(x.ports) <= MaxOpens, NEW y \in Opened(x)
    PROVE  /\ y.tty \in TtyState /\ y.ports \in Seq(PortState)
           /\ Len(y.ports) = Len(x.ports) + 1 /\ Len(x.ports) \in Nat
           /\ Len(y.ports) <= MaxOpens
           /\ y.tty.present /\ y.tty.epoch = x.tty.epoch /\ ~y.tty.brk
           /\ Claims(y.tty, y.ports, Len(y.ports))
<1> DEFINE yes == TRUE
           d == x.tty
           ps == x.ports
           r == [epoch |-> d.epoch, claimed |-> yes]
           d2 == [d EXCEPT !.excl = yes, !.dtr = yes]
           ps2 == Append(ps, r)
<1>1. y = [tty |-> d2, ports |-> ps2] /\ Len(ps) # MaxOpens
  BY DEF Opened
<1>2. yes \in BOOLEAN /\ yes
  OBVIOUS
<1> HIDE DEF yes
<1>3. r \in PortState /\ r.epoch = d.epoch /\ r.claimed = yes
  BY <1>2 DEF PortState, TtyState
<1>4. /\ d2 \in TtyState /\ d2.excl = yes /\ d2.present = d.present /\ d2.epoch = d.epoch
      /\ d2.brk = d.brk
  BY <1>2 DEF TtyState
<1> HIDE DEF r, d2
<1>5. /\ ps2 \in Seq(PortState) /\ Len(ps2) = Len(ps) + 1 /\ Len(ps) \in Nat
      /\ \A q \in 1 .. Len(ps) : ps2[q] = ps[q]
      /\ ps2[Len(ps) + 1] = r
  BY <1>3, AppendProperties
<1> HIDE DEF ps2
<1>6. y.tty = d2 /\ y.ports = ps2
  BY <1>1
<1>7. ~d.brk
  BY DEF Claims, OnTty
<1>8. \A q \in 1 .. Len(ps) : ps[q].epoch <= d.epoch /\ ~ps[q].claimed
  BY DEF Claims
<1>9. d.epoch \in Nat
  BY DEF TtyState
<1>10. \A q \in 1 .. Len(ps2) : ps2[q].epoch <= d2.epoch /\ (ps2[q].claimed <=> q = Len(ps2))
  <2> SUFFICES ASSUME NEW q \in 1 .. Len(ps2)
               PROVE  ps2[q].epoch <= d2.epoch /\ (ps2[q].claimed <=> q = Len(ps2))
    OBVIOUS
  <2>1. CASE q \in 1 .. Len(ps)
    BY <1>4, <1>5, <1>8, <2>1
  <2>2. CASE q = Len(ps) + 1
    <3>1. ps2[q] = r /\ q = Len(ps2)
      BY <1>5, <2>2
    <3>2. ps2[q].epoch <= d2.epoch
      BY <1>3, <1>4, <1>9, <3>1
    <3>3. ps2[q].claimed
      BY <1>2, <1>3, <3>1, Zenon
    <3> QED BY <3>1, <3>2, <3>3
  <2> QED BY <1>5, <2>1, <2>2
<1>11. OnTty(d2, ps2, Len(ps2)) /\ d2.excl
  BY <1>2, <1>3, <1>4, <1>5 DEF OnTty
<1>12. Claims(d2, ps2, Len(ps2))
  BY <1>5, <1>10, <1>11 DEF Claims
<1>13. Len(ps2) <= MaxOpens
  BY <1>1, <1>5, PortAssumption
<1> QED BY <1>4, <1>5, <1>6, <1>7, <1>12, <1>13
-----------------------------------------------------------------------------
(* The line *)

\* A new generation, or a new node: every hold is of the past, no lease is held,
\* and the tty is out of break.
LEMMA PastVerbs ==
    ASSUME PortTypes, LineInv, node' \in NodeState, UNCHANGED verbs,
           \/ node'.inst = node.inst /\ node'.gen = node.gen + 1 /\ node'.inFlight = node.inFlight
           \/ node'.inst = node.inst + 1 /\ node'.inFlight < node'.gen,
           Len(ports) \in Nat, Len(ports') \in Nat, Len(ports) <= Len(ports'),
           node'.port \notin 1 .. Len(ports),
           ~(tty'.present /\ tty'.brk)
    PROVE  LineInv' /\ BreakInv'
<1>1. /\ node.inst \in Nat /\ node.gen \in Nat /\ node.inFlight \in Int
      /\ node'.inst \in Nat /\ node'.gen \in Nat /\ node'.inFlight \in Int
      /\ \A v \in Verb : verbs[v].inst \in Nat /\ verbs[v].gen \in Nat
  BY DEF PortTypes, NodeState, VerbState
<1>2. \A v \in Verb : Holding(v)' => Holding(v) /\ ~Current(v)'
  BY <1>1 DEF LineInv, Holding, Current
<1>3. node'.inFlight < node'.gen
  BY <1>1 DEF LineInv
<1>4. ~LineBusy'
  BY <1>1, <1>3 DEF LineBusy
<1>5. \A v \in Verb : Holding(v) =>
          /\ verbs[v].inst < node'.inst
             \/ (verbs[v].inst = node'.inst /\ verbs[v].gen <= node'.gen)
          /\ verbs[v].kind = "brk" => verbs[v].level
  BY <1>1 DEF LineInv
<1>6. \A v \in Verb : Holding(v) =>
          verbs[v].port \in 1 .. Len(ports') /\ verbs[v].port # node'.port
  BY DEF LineInv
<1>7. LineInv'
  <2>1. node'.inFlight <= node'.gen
    BY <1>1, <1>3
  <2>2. \A v \in Verb : Holding(v)' => Holding(v) /\ verbs'[v] = verbs[v]
    BY DEF Holding
  <2>3. \A v \in Verb : Holding(v)' =>
            /\ verbs'[v].inst < node'.inst
               \/ (verbs'[v].inst = node'.inst /\ verbs'[v].gen <= node'.gen)
            /\ verbs'[v].kind = "brk" => verbs'[v].level
            /\ verbs'[v].port \in 1 .. Len(ports') /\ verbs'[v].port # node'.port
            /\ ~Current(v)'
    BY <1>2, <1>5, <1>6, <2>2
  <2> QED BY <1>4, <2>1, <2>3 DEF LineInv
<1>8. BreakInv'
  BY <1>2 DEF BreakInv
<1> QED BY <1>7, <1>8

\* The node keeps its port and its lease, and the break is as it was.
LEMMA SameLine ==
    ASSUME LineInv, BreakInv, UNCHANGED verbs,
           node'.inst = node.inst, node'.gen = node.gen, node'.inFlight = node.inFlight,
           node'.port = node.port, Len(ports') = Len(ports),
           tty'.present /\ tty'.brk => tty.present /\ tty.brk,
           OnTty(tty, ports, node.port)' => OnTty(tty, ports, node.port) /\ (tty.brk => tty'.brk)
    PROVE  LineInv' /\ BreakInv'
<1>1. LineBusy' = LineBusy /\ \A v \in Verb : Holding(v)' = Holding(v) /\ Current(v)' = Current(v)
  BY DEF LineBusy, Holding, Current
<1> QED BY <1>1 DEF LineInv, BreakInv

-----------------------------------------------------------------------------
(* The node's life *)

\* The types the steps below read of the invariant.
LEMMA StateFacts ==
    ASSUME PortInv
    PROVE  /\ tty \in TtyState /\ tty.epoch \in Nat /\ ports \in Seq(PortState)
           /\ Len(ports) \in Nat /\ node \in NodeState /\ node.inst \in Nat
           /\ node.port \in 0 .. Len(ports) /\ node.gen \in Nat /\ node.inFlight \in Int
           /\ Now.tty = tty /\ Now.ports = ports
BY DEF PortInv, PortTypes, Claims, TtyState, NodeState, Now

\* set_port: a new generation, whatever the port and the status.
LEMMA SetPortFacts ==
    ASSUME NEW n \in NodeState, NEW p \in Nat,
           NEW status \in NodeStatus,
           NEW m, m = SetPort(n, p, status)
    PROVE  /\ m \in NodeState /\ m.port = p /\ m.status = status
           /\ m.inst = n.inst /\ m.gen = n.gen + 1 /\ m.inFlight = n.inFlight
<1> DEFINE g == n.gen + 1
<1>1. g \in Nat
  BY DEF NodeState
<1>2. m = [n EXCEPT !.port = p, !.gen = g, !.status = status]
  BY DEF SetPort
<1> HIDE DEF g
<1>3. /\ m \in NodeState /\ m.port = p /\ m.status = status
      /\ m.inst = n.inst /\ m.gen = g /\ m.inFlight = n.inFlight
  BY <1>1, <1>2 DEF NodeState
<1> QED BY <1>3 DEF g

\* fault and set_waiting leave a node without a port, and a tty nobody claims.
LEMMA DropsInv ==
    ASSUME PortInv, NEW status \in {"waiting", "faulted"}, Drops(status),
           UNCHANGED <<ghosts, verbs>>
    PROVE  /\ tty' \in TtyState /\ ports' \in Seq(PortState) /\ node' \in NodeState
           /\ node'.port = 0 /\ node'.status = status
           /\ Bounded' /\ Claims(tty', ports', node'.port) /\ GhostsInv' /\ LineInv' /\ BreakInv'
<1> DEFINE y == Released(Now, node.port)
<1>1. /\ y.tty \in TtyState /\ y.ports \in Seq(PortState) /\ Len(y.ports) = Len(ports)
      /\ y.tty.present = tty.present /\ y.tty.epoch = tty.epoch /\ Claims(y.tty, y.ports, 0)
  BY StateFacts, ReleasedClaims DEF PortInv, Now
<1>2. tty' = y.tty /\ ports' = y.ports /\ node' = SetPort(node, 0, status)
  BY DEF Drops, Becomes
<1> HIDE DEF y
<1>3. /\ node' \in NodeState /\ node'.port = 0 /\ node'.status = status
      /\ node'.inst = node.inst /\ node'.gen = node.gen + 1 /\ node'.inFlight = node.inFlight
  <2> DEFINE z == 0
             m == SetPort(node, z, status)
  <2>1. z \in Nat /\ status \in NodeStatus /\ node \in NodeState
        /\ m = SetPort(node, z, status)
    BY StateFacts DEF NodeStatus
  <2> HIDE DEF z, m
  <2>2. /\ m \in NodeState /\ m.port = z /\ m.status = status
        /\ m.inst = node.inst /\ m.gen = node.gen + 1 /\ m.inFlight = node.inFlight
    BY <2>1, SetPortFacts
  <2> QED BY <1>2, <2>2 DEF z, m
<1>4. ~(tty'.present /\ tty'.brk)
  BY <1>1, <1>2 DEF Claims, OnTty
<1>5. LineInv' /\ BreakInv'
  BY <1>1, <1>2, <1>3, <1>4, StateFacts, PastVerbs DEF PortInv
<1>6. Bounded'
  BY <1>1, <1>2 DEF Bounded, PortInv
<1>7. GhostsInv'
  BY <1>1, <1>2, <1>3, StateFacts DEF GhostsInv, PortInv
<1> QED BY <1>1, <1>2, <1>3, <1>5, <1>6, <1>7

\* create and start, on a tty nobody claims.
LEMMA CreatedInv ==
    ASSUME PortInv, NEW x, x.tty \in TtyState, x.ports \in Seq(PortState),
           Len(x.ports) = Len(ports), x.tty.present = tty.present, x.tty.epoch = tty.epoch,
           Claims(x.tty, x.ports, 0), Created(x), UNCHANGED verbs,
           reader' \in [port : Nat, lost : BOOLEAN], reader'.port = 0,
           ghosts' \subseteq 1 .. Len(ports)
    PROVE  PortInv'
<1> DEFINE k == node.inst + 1
           neg == -1
           fresh == [NoNode EXCEPT !.inst = k]
           Free(st) == [fresh EXCEPT !.status = st]
           Open(p) == [fresh EXCEPT !.status = "active", !.port = p]
<1>1. k \in Nat /\ k = node.inst + 1 /\ neg \in Int /\ neg < 0
  BY StateFacts
<1>2. sup' = [pc |-> "start", port |-> 0]
  BY DEF Created
<1>3. \/ /\ tty' = x.tty /\ ports' = x.ports
         /\ node' = Free("waiting") \/ node' = Free("faulted")
      \/ \E y \in Opened(x) :
            /\ x.tty.present /\ tty' = y.tty /\ ports' = y.ports
            /\ node' = Open(Len(y.ports))
  BY Zenon DEF Created, Becomes
<1>3a. /\ fresh \in NodeState /\ fresh.inst = k /\ fresh.port = 0
       /\ fresh.gen = 0 /\ fresh.inFlight = neg
  <2>1. NoNode = [inst |-> 0, port |-> 0, gen |-> 0, inFlight |-> neg, status |-> "none"]
    BY DEF NoNode
  <2> HIDE DEF k, neg
  <2> QED BY <1>1, <2>1 DEF NodeState, NodeStatus
<1> HIDE DEF k, neg, fresh
<1>3b. \A st \in {"waiting", "faulted"} :
           /\ Free(st) \in NodeState /\ Free(st).inst = k /\ Free(st).port = 0
           /\ Free(st).gen = 0 /\ Free(st).inFlight = neg /\ Free(st).status = st
  BY <1>3a DEF NodeState, NodeStatus
<1>3c. \A p \in Nat :
           /\ Open(p) \in NodeState /\ Open(p).inst = k /\ Open(p).port = p
           /\ Open(p).gen = 0 /\ Open(p).inFlight = neg /\ Open(p).status = "active"
  BY <1>3a DEF NodeState, NodeStatus
<1> HIDE DEF Free, Open
<1>4. sup' \in [pc : {"none", "start", "active", "poll", "purge"}, port : Nat]
      /\ sup'.pc = "start" /\ sup'.port = 0
  BY <1>2
<1>5. ~(x.tty.present /\ x.tty.brk)
  BY DEF Claims, OnTty
<1>6. CASE /\ tty' = x.tty /\ ports' = x.ports
           /\ node' = Free("waiting") \/ node' = Free("faulted")
  <2>1. /\ node' \in NodeState /\ node'.inst = k /\ node'.port = 0 /\ node'.gen = 0
        /\ node'.inFlight = neg /\ node'.status \in {"waiting", "faulted"}
    BY <1>3b, <1>6
  <2>2. LineInv' /\ BreakInv'
    <3>1. node'.inst = node.inst + 1 /\ node'.inFlight < node'.gen
      BY <1>1, <2>1
    <3>2. Len(ports) \in Nat /\ Len(ports') = Len(ports) /\ node'.port \notin 1 .. Len(ports)
      BY <1>6, <2>1, StateFacts
    <3> QED BY <1>5, <1>6, <2>1, <3>1, <3>2, PastVerbs DEF PortInv
  <2>3. PortTypes'
    BY <1>4, <1>6, <2>1 DEF PortTypes, PortInv
  <2>4. Bounded' /\ GhostsInv'
    BY <1>6, <2>1, StateFacts DEF Bounded, GhostsInv, PortInv
  <2>5. SupInv'
    BY <1>4, <2>1 DEF SupInv, Live
  <2> QED BY <1>6, <2>1, <2>2, <2>3, <2>4, <2>5 DEF PortInv
<1>7. ASSUME NEW y \in Opened(x), x.tty.present, tty' = y.tty, ports' = y.ports,
             node' = Open(Len(y.ports))
      PROVE  PortInv'
  <2>1. /\ y.tty \in TtyState /\ y.ports \in Seq(PortState)
        /\ Len(y.ports) = Len(x.ports) + 1 /\ Len(y.ports) <= MaxOpens /\ Len(x.ports) \in Nat
        /\ y.tty.present /\ y.tty.epoch = x.tty.epoch /\ ~y.tty.brk
        /\ Claims(y.tty, y.ports, Len(y.ports))
    BY <1>7, OpenedClaims DEF PortInv, Bounded
  <2>2. /\ node' \in NodeState /\ node'.inst = k /\ node'.port = Len(y.ports) /\ node'.gen = 0
        /\ node'.inFlight = neg /\ node'.status = "active" /\ node'.port # 0
    <3>1. Len(y.ports) \in Nat /\ Len(y.ports) # 0
      BY <2>1
    <3> QED BY <1>3c, <1>7, <3>1
  <2>3. LineInv' /\ BreakInv'
    <3>1. node'.inst = node.inst + 1 /\ node'.inFlight < node'.gen
      BY <1>1, <2>2
    <3>2. /\ Len(ports) \in Nat /\ Len(ports') = Len(ports) + 1
          /\ node'.port \notin 1 .. Len(ports)
      BY <1>7, <2>1, <2>2, StateFacts
    <3> QED BY <1>7, <2>1, <2>2, <3>1, <3>2, PastVerbs DEF PortInv
  <2>4. PortTypes'
    BY <1>4, <1>7, <2>1, <2>2 DEF PortTypes, PortInv
  <2>5. Bounded' /\ GhostsInv'
    BY <1>7, <2>1, <2>2, StateFacts DEF Bounded, GhostsInv, PortInv
  <2>6. SupInv'
    BY <1>4, <2>2 DEF SupInv, Live
  <2> QED BY <1>7, <2>1, <2>2, <2>3, <2>4, <2>5, <2>6 DEF PortInv
<1> QED BY <1>3, <1>6, <1>7

\* The ports of the futures that teardown aborts.
LEMMA AbortedGhosts ==
    ASSUME PortInv, Aborted
    PROVE  ghosts' \subseteq 1 .. Len(ports)
<1>1. sup.port = 0 \/ sup.port = node.port
  BY DEF PortInv, SupInv
<1>2. ghosts' \subseteq ghosts \cup ({sup.port, node.port, 0} \ {0})
  BY DEF Aborted
<1>3. node.port \in 0 .. Len(ports) /\ Len(ports) \in Nat /\ ghosts \subseteq 1 .. Len(ports)
  BY StateFacts DEF PortInv, GhostsInv
<1>4. node.port # 0 => node.port \in 1 .. Len(ports)
  BY <1>3
<1> QED BY <1>1, <1>2, <1>3, <1>4

\* No reader is armed.
LEMMA NoReaderFacts == NoReader \in [port : Nat, lost : BOOLEAN] /\ NoReader.port = 0
<1> DEFINE no == FALSE
<1>1. NoReader = [port |-> 0, lost |-> no] /\ no \in BOOLEAN
  BY DEF NoReader
<1> HIDE DEF no
<1> QED BY <1>1

\* AddNode, RemoveNode, ReplaceNode
LEMMA LifeInv ==
    ASSUME PortInv, AddNode \/ RemoveNode \/ ReplaceNode
    PROVE  PortInv'
<1> DEFINE y == Released(Now, node.port)
<1>1. /\ y.tty \in TtyState /\ y.ports \in Seq(PortState) /\ Len(y.ports) = Len(ports)
      /\ y.tty.present = tty.present /\ y.tty.epoch = tty.epoch /\ Claims(y.tty, y.ports, 0)
  BY StateFacts, ReleasedClaims DEF PortInv, Now
<1>2. CASE AddNode
  <2>1. ~Live /\ Created(Now) /\ UNCHANGED <<reader, ghosts, verbs>>
    BY <1>2 DEF AddNode
  <2>2. node.port = 0 /\ reader.port = 0 /\ reader \in [port : Nat, lost : BOOLEAN]
    BY <2>1 DEF PortInv, SupInv, PortTypes
  <2>3. Claims(Now.tty, Now.ports, 0)
    BY <2>2, StateFacts DEF PortInv
  <2>4. ghosts' \subseteq 1 .. Len(ports)
    BY <2>1 DEF PortInv, GhostsInv
  <2>5. Now.tty = tty /\ Now.ports = ports /\ tty \in TtyState /\ ports \in Seq(PortState)
    BY StateFacts
  <2> HIDE DEF y
  <2> QED BY <2>1, <2>2, <2>3, <2>4, <2>5, CreatedInv
<1>3. CASE ReplaceNode
  <2>1. Created(y) /\ reader' = NoReader /\ Aborted /\ UNCHANGED verbs
    BY <1>3 DEF ReplaceNode, TornDown
  <2>2. ghosts' \subseteq 1 .. Len(ports)
    BY <2>1, AbortedGhosts
  <2> HIDE DEF y
  <2> QED BY <1>1, <2>1, <2>2, NoReaderFacts, CreatedInv
<1>4. CASE RemoveNode
  <2> DEFINE n == [node EXCEPT !.status = "none"]
  <2>1. /\ tty' = y.tty /\ ports' = y.ports /\ node' = SetPort(n, 0, "none")
        /\ sup' = [pc |-> "none", port |-> 0] /\ reader' = NoReader
        /\ Aborted /\ UNCHANGED verbs
    BY <1>4 DEF RemoveNode, TornDown, Becomes
  <2> HIDE DEF y
  <2>2. n \in NodeState /\ n.inst = node.inst /\ n.gen = node.gen /\ n.inFlight = node.inFlight
    BY StateFacts DEF NodeState, NodeStatus
  <2> HIDE DEF n
  <2>3. /\ node' \in NodeState /\ node'.port = 0 /\ node'.status = "none"
        /\ node'.inst = node.inst /\ node'.gen = node.gen + 1 /\ node'.inFlight = node.inFlight
    <3>1. 0 \in Nat /\ "none" \in NodeStatus
      BY DEF NodeStatus
    <3>2. /\ node' \in NodeState /\ node'.port = 0 /\ node'.status = "none"
          /\ node'.inst = n.inst /\ node'.gen = n.gen + 1 /\ node'.inFlight = n.inFlight
      BY <2>1, <2>2, <3>1, SetPortFacts
    <3> QED BY <2>2, <3>2
  <2>4. ~(tty'.present /\ tty'.brk)
    BY <1>1, <2>1 DEF Claims, OnTty
  <2>5. LineInv' /\ BreakInv'
    BY <1>1, <2>1, <2>3, <2>4, StateFacts, PastVerbs DEF PortInv
  <2>6. /\ sup' \in [pc : {"none", "start", "active", "poll", "purge"}, port : Nat]
        /\ sup'.pc = "none" /\ sup'.port = 0
        /\ reader' \in [port : Nat, lost : BOOLEAN] /\ reader'.port = 0
    BY <2>1, NoReaderFacts
  <2>7. PortTypes'
    BY <1>1, <2>1, <2>3, <2>6 DEF PortTypes, PortInv
  <2>8. Bounded'
    BY <1>1, <2>1 DEF Bounded, PortInv
  <2>9. GhostsInv'
    BY <1>1, <2>1, <2>3, AbortedGhosts, StateFacts DEF GhostsInv
  <2>10. SupInv'
    BY <2>3, <2>6 DEF SupInv, Live
  <2> QED BY <1>1, <2>1, <2>3, <2>5, <2>7, <2>8, <2>9, <2>10 DEF PortInv
<1> QED BY <1>2, <1>3, <1>4

\* A late drop finds its port's claim given back.
LEMMA FutureDroppedInv ==
    ASSUME PortInv, NEW p \in ghosts, FutureDropped(p)
    PROVE  PortInv'
<1>1. ghosts' = ghosts \ {p} /\ Becomes(Released(Now, p)) /\ UNCHANGED <<node, sup, reader, verbs>>
  BY DEF FutureDropped
<1>2. p \in 1 .. Len(ports) /\ p # node.port
  BY DEF PortInv, GhostsInv
<1>3. Released(Now, p) = Now
  BY <1>2, StateFacts, ReleasedOther DEF PortInv
<1>4. tty' = tty /\ ports' = ports
  BY <1>1, <1>3, StateFacts DEF Becomes
<1>5. PortTypes' /\ Bounded' /\ GhostsInv' /\ SupInv'
  BY <1>1, <1>4 DEF PortInv, PortTypes, Bounded, GhostsInv, SupInv, Live
<1>6. LineInv' /\ BreakInv'
  BY <1>1, <1>4, SameLine DEF PortInv
<1> QED BY <1>1, <1>4, <1>5, <1>6 DEF PortInv

-----------------------------------------------------------------------------
(* The supervisor and the reader thread *)

\* A sleeping supervisor keeps no port.
LEMMA PollingFacts ==
    ASSUME Polling
    PROVE  /\ sup' \in [pc : {"none", "start", "active", "poll", "purge"}, port : Nat]
           /\ sup'.pc = "poll" /\ sup'.port = 0
BY DEF Polling

\* The supervisor drops the node's port and goes to sleep; no reader is left.
LEMMA DropsAndPolls ==
    ASSUME PortInv, NEW status \in {"waiting", "faulted"}, Drops(status), Polling,
           UNCHANGED <<ghosts, verbs>>,
           reader' \in [port : Nat, lost : BOOLEAN], reader'.port = 0
    PROVE  PortInv'
<1>1. /\ tty' \in TtyState /\ ports' \in Seq(PortState) /\ node' \in NodeState
      /\ node'.port = 0 /\ node'.status = status
      /\ Bounded' /\ Claims(tty', ports', node'.port) /\ GhostsInv' /\ LineInv' /\ BreakInv'
  BY DropsInv
<1>2. PortTypes'
  BY <1>1, PollingFacts DEF PortTypes, PortInv
<1>3. SupInv'
  BY <1>1, PollingFacts DEF SupInv, Live
<1> QED BY <1>1, <1>2, <1>3 DEF PortInv

\* Steps that leave the tty, the ports and the verbs alone, and the node its port.
LEMMA QuietInv ==
    ASSUME PortInv, UNCHANGED <<tty, ports, ghosts, verbs>>, PortTypes', SupInv',
           node'.port = node.port, node'.inst = node.inst, node'.gen = node.gen,
           node'.inFlight = node.inFlight
    PROVE  PortInv'
<1>1. LineInv' /\ BreakInv'
  BY SameLine DEF PortInv
<1>2. Bounded' /\ GhostsInv' /\ Claims(tty', ports', node'.port)
  BY DEF PortInv, Bounded, GhostsInv
<1> QED BY <1>1, <1>2 DEF PortInv

\* Step::Lost
LEMMA LostInv ==
    ASSUME PortInv, Lost
    PROVE  PortInv'
<1>1. /\ Drops("waiting") /\ Polling /\ reader' = NoReader
      /\ UNCHANGED <<ghosts, verbs>>
  BY DEF Lost
<1> QED BY <1>1, DropsAndPolls, NoReaderFacts

\* The reader is armed on the node's port.
LEMMA ArmedFacts ==
    ASSUME NEW p \in Nat, NEW r, r = [port |-> p, lost |-> FALSE]
    PROVE  r \in [port : Nat, lost : BOOLEAN] /\ r.port = p
<1> DEFINE no == FALSE
<1>1. r = [port |-> p, lost |-> no] /\ no \in BOOLEAN
  OBVIOUS
<1> HIDE DEF no
<1> QED BY <1>1

\* The first poll arms the reader of the port create opened, or faults.
LEMMA SuperviseStartsInv ==
    ASSUME PortInv, SuperviseStarts
    PROVE  PortInv'
<1>1. sup.pc = "start" /\ UNCHANGED <<ghosts, verbs>>
  BY DEF SuperviseStarts
<1>2. reader.port = 0 /\ reader \in [port : Nat, lost : BOOLEAN] /\ sup.port = 0 /\ Live
  BY <1>1 DEF PortInv, SupInv, PortTypes
<1>3. CASE node.port = 0 /\ Polling /\ UNCHANGED <<tty, ports, node, reader>>
  <2>1. PortTypes'
    BY <1>1, <1>3, PollingFacts DEF PortTypes, PortInv
  <2>2. SupInv'
    BY <1>2, <1>3, PollingFacts DEF SupInv, Live, PortInv
  <2> QED BY <1>1, <1>3, <2>1, <2>2, QuietInv
<1>4. CASE /\ node.port # 0
           /\ sup' = [pc |-> "active", port |-> 0]
           /\ reader' = [port |-> node.port, lost |-> FALSE]
           /\ UNCHANGED <<tty, ports, node>>
  <2>1. /\ reader' \in [port : Nat, lost : BOOLEAN] /\ reader'.port = node.port
        /\ sup' \in [pc : {"none", "start", "active", "poll", "purge"}, port : Nat]
        /\ sup'.pc = "active" /\ sup'.port = 0
    <3>1. node.port \in Nat
      BY StateFacts
    <3>2. reader' \in [port : Nat, lost : BOOLEAN] /\ reader'.port = node.port
      BY <1>4, <3>1, ArmedFacts
    <3> QED BY <1>4, <3>2
  <2>2. PortTypes'
    BY <1>1, <1>4, <2>1 DEF PortTypes, PortInv
  <2>3. SupInv'
    BY <1>2, <1>4, <2>1 DEF SupInv, Live, PortInv
  <2> QED BY <1>1, <1>4, <2>2, <2>3, QuietInv
<1>5. CASE Drops("faulted") /\ Polling /\ UNCHANGED reader
  BY <1>1, <1>2, <1>5, DropsAndPolls
<1> QED BY <1>3, <1>4, <1>5 DEF SuperviseStarts

\* The reader learns that the device is gone.
LEMMA ReaderLosesInv ==
    ASSUME PortInv, ReaderLoses
    PROVE  PortInv'
<1> DEFINE yes == TRUE
<1>1. reader' = [reader EXCEPT !.lost = yes] /\ UNCHANGED <<tty, ports, node, sup, ghosts, verbs>>
  BY DEF ReaderLoses
<1>2. yes \in BOOLEAN /\ reader \in [port : Nat, lost : BOOLEAN]
  BY DEF PortInv, PortTypes
<1> HIDE DEF yes
<1>3. reader' \in [port : Nat, lost : BOOLEAN] /\ reader'.port = reader.port
  BY <1>1, <1>2
<1>4. PortTypes'
  BY <1>1, <1>3 DEF PortTypes, PortInv
<1>5. SupInv'
  BY <1>1, <1>3 DEF SupInv, Live, PortInv
<1> QED BY <1>1, <1>4, <1>5, QuietInv

\* reopen: refused, or a port of a new generation on a tty out of break.
LEMMA ReopenPortInv ==
    ASSUME PortInv, ReopenPort
    PROVE  PortInv'
<1>1. sup.pc = "poll" /\ tty.present /\ UNCHANGED <<reader, ghosts, verbs>>
  BY DEF ReopenPort
<1>2. /\ reader.port = 0 /\ reader \in [port : Nat, lost : BOOLEAN] /\ node.port = 0 /\ Live
      /\ node.status # "active"
  BY <1>1 DEF PortInv, SupInv, PortTypes
<1>3. CASE Drops("faulted") /\ Polling
  BY <1>1, <1>2, <1>3, DropsAndPolls
<1>4. ASSUME NEW x \in Opened(Now), Becomes(x), node' = SetPort(node, Len(x.ports), node.status),
             sup' = [pc |-> "purge", port |-> Len(x.ports)]
      PROVE  PortInv'
  <2>1. /\ x.tty \in TtyState /\ x.ports \in Seq(PortState)
        /\ Len(x.ports) = Len(ports) + 1 /\ Len(x.ports) <= MaxOpens /\ Len(ports) \in Nat
        /\ x.tty.present /\ x.tty.epoch = tty.epoch /\ ~x.tty.brk
        /\ Claims(x.tty, x.ports, Len(x.ports))
    BY <1>1, <1>2, StateFacts, OpenedClaims DEF PortInv, Bounded
  <2>2. tty' = x.tty /\ ports' = x.ports
    BY <1>4 DEF Becomes
  <2> DEFINE p == Len(x.ports)
  <2>3. p \in Nat /\ p # 0 /\ p \notin ghosts
    BY <2>1 DEF PortInv, GhostsInv
  <2>4. /\ node \in NodeState
        /\ node.status \in NodeStatus
    BY StateFacts DEF NodeState
  <2> HIDE DEF p
  <2>5. /\ node' \in NodeState /\ node'.port = p /\ node'.status = node.status
        /\ node'.inst = node.inst /\ node'.gen = node.gen + 1 /\ node'.inFlight = node.inFlight
    <3> DEFINE m == SetPort(node, p, node.status)
    <3>1. node' = m /\ m = SetPort(node, p, node.status)
      BY <1>4 DEF p
    <3> HIDE DEF m
    <3>2. /\ m \in NodeState /\ m.port = p /\ m.status = node.status
          /\ m.inst = node.inst /\ m.gen = node.gen + 1 /\ m.inFlight = node.inFlight
      BY <2>3, <2>4, <3>1, SetPortFacts
    <3> QED BY <3>1, <3>2
  <2>6. LineInv' /\ BreakInv'
    <3>1. /\ Len(ports) \in Nat /\ Len(ports') = Len(ports) + 1
          /\ node'.port \notin 1 .. Len(ports)
      BY <2>1, <2>2, <2>5 DEF p
    <3> QED BY <1>1, <2>1, <2>2, <2>5, <3>1, PastVerbs DEF PortInv
  <2>7. /\ sup' \in [pc : {"none", "start", "active", "poll", "purge"}, port : Nat]
        /\ sup'.pc = "purge" /\ sup'.port = p
    BY <1>4, <2>3 DEF p
  <2>8. PortTypes'
    BY <1>1, <2>1, <2>2, <2>5, <2>7 DEF PortTypes, PortInv
  <2>9. Bounded' /\ GhostsInv'
    BY <1>1, <2>1, <2>2, <2>3, <2>5 DEF Bounded, GhostsInv, PortInv
  <2>10. SupInv'
    BY <1>1, <1>2, <2>3, <2>5, <2>7 DEF SupInv, Live
  <2> QED BY <2>1, <2>2, <2>5, <2>6, <2>8, <2>9, <2>10 DEF PortInv, p
<1> QED BY <1>3, <1>4 DEF ReopenPort

\* After the purge of a reopen the reader is armed, or the port is dropped.
LEMMA RearmInv ==
    ASSUME PortInv, Rearm
    PROVE  PortInv'
<1>1. sup.pc = "purge" /\ UNCHANGED <<ghosts, verbs>>
  BY DEF Rearm
<1>2. /\ reader.port = 0 /\ reader \in [port : Nat, lost : BOOLEAN]
      /\ sup.port = node.port /\ node.port # 0 /\ node.port \in Nat
  BY <1>1, StateFacts DEF PortInv, SupInv, PortTypes
<1>3. CASE Drops("faulted") /\ Polling /\ UNCHANGED reader
  BY <1>1, <1>2, <1>3, DropsAndPolls
<1>4. CASE /\ reader' = [port |-> sup.port, lost |-> FALSE]
           /\ node' = [node EXCEPT !.status = "active"]
           /\ sup' = [pc |-> "active", port |-> 0]
           /\ UNCHANGED <<tty, ports>>
  <2>1. /\ node' \in NodeState /\ node'.status = "active" /\ node'.port = node.port
        /\ node'.inst = node.inst /\ node'.gen = node.gen /\ node'.inFlight = node.inFlight
    BY <1>4, StateFacts DEF NodeState, NodeStatus
  <2>2. reader' \in [port : Nat, lost : BOOLEAN] /\ reader'.port = node.port
    BY <1>2, <1>4, ArmedFacts
  <2>3. /\ sup' \in [pc : {"none", "start", "active", "poll", "purge"}, port : Nat]
        /\ sup'.pc = "active" /\ sup'.port = 0
    BY <1>4
  <2>4. PortTypes'
    BY <1>1, <1>4, <2>1, <2>2, <2>3 DEF PortTypes, PortInv
  <2>5. SupInv'
    BY <1>2, <2>1, <2>2, <2>3 DEF SupInv, Live
  <2> QED BY <1>1, <1>4, <2>1, <2>4, <2>5, QuietInv
<1> QED BY <1>3, <1>4 DEF Rearm
-----------------------------------------------------------------------------
(* Line signals *)

\* What driving a line changes.
LEMMA DrivenFacts ==
    ASSUME NEW d \in TtyState, NEW kind, NEW level \in BOOLEAN
    PROVE  LET e == Driven(d, kind, level)
           IN  /\ e \in TtyState /\ e.present = d.present /\ e.epoch = d.epoch
               /\ e.excl = d.excl
               /\ kind = "brk" => e.brk = level
               /\ kind # "brk" => e.brk = d.brk
BY DEF Driven, TtyState

\* A tty that keeps its attachment and its claim, and is in break only on a port.
LEMMA DrivenClaims ==
    ASSUME PortInv, tty' \in TtyState, tty'.present = tty.present, tty'.epoch = tty.epoch,
           tty'.excl = tty.excl, UNCHANGED ports, node'.port = node.port,
           tty'.brk => tty.brk \/ OnTty(tty, ports, node.port)
    PROVE  Bounded' /\ Claims(tty', ports', node'.port)
<1>1. OnTty(tty', ports', node'.port) = OnTty(tty, ports, node.port)
  BY DEF OnTty
<1> QED BY <1>1 DEF PortInv, Bounded, Claims

\* The verb is refused: nobody's hold changes.
LEMMA RefusedInv ==
    ASSUME PortInv, NEW v \in Verb, verbs[v].st = "none",
           verbs' = [verbs EXCEPT ![v].st = "failed"],
           UNCHANGED <<tty, node, ports, sup, reader, ghosts>>
    PROVE  PortInv'
<1>1. verbs' \in [Verb -> VerbState]
  <2>1. verbs \in [Verb -> VerbState]
    BY DEF PortInv, PortTypes
  <2>2. [verbs[v] EXCEPT !.st = "failed"] \in VerbState
    BY <2>1 DEF VerbState
  <2> QED BY <2>1, <2>2
<1>2. \A u \in Verb : Holding(u)' => u # v
  BY <1>1 DEF Holding, VerbState, PortInv, PortTypes
<1>3. \A u \in Verb : u # v => verbs'[u] = verbs[u]
  BY DEF PortInv, PortTypes
<1>4. \A u \in Verb : /\ Holding(u)' = Holding(u) /\ LineBusy' = LineBusy
                      /\ Holding(u) => verbs'[u] = verbs[u] /\ Current(u)' = Current(u)
  BY <1>2, <1>3 DEF Holding, LineBusy, Current
<1>5. LineInv' /\ BreakInv'
  BY <1>4 DEF PortInv, LineInv, BreakInv, LineBusy
<1>6. PortTypes' /\ Bounded' /\ GhostsInv' /\ SupInv' /\ Claims(tty', ports', node'.port)
  BY <1>1 DEF PortInv, PortTypes, Bounded, GhostsInv, SupInv, Live
<1> QED BY <1>5, <1>6 DEF PortInv

\* send_break and pulse_dtr: who gets the line is alone on it.
LEMMA SignalInv ==
    ASSUME PortInv, NEW v \in Verb, NEW kind \in {"brk", "dtr"}, NEW level \in BOOLEAN,
           kind = "brk" => level, Signal(v, kind, level)
    PROVE  PortInv'
<1> DEFINE e == [st |-> "holding", kind |-> kind, level |-> level,
                 inst |-> node.inst, gen |-> node.gen, port |-> node.port]
<1>1. verbs[v].st = "none" /\ UNCHANGED <<ports, sup, reader, ghosts>>
  BY DEF Signal
<1>2. CASE verbs' = [verbs EXCEPT ![v].st = "failed"] /\ UNCHANGED <<tty, node>>
  BY <1>1, <1>2, RefusedInv
<1>3. CASE /\ ~LineBusy /\ OnTty(tty, ports, node.port)
           /\ tty' = Driven(tty, kind, level)
           /\ node' = [node EXCEPT !.inFlight = node.gen]
           /\ verbs' = [verbs EXCEPT ![v] = e]
  <2>1. /\ node' \in NodeState /\ node'.inFlight = node.gen /\ node'.port = node.port
        /\ node'.inst = node.inst /\ node'.gen = node.gen /\ node'.status = node.status
    BY <1>3, StateFacts DEF NodeState
  <2>2. e \in VerbState /\ e.st = "holding" /\ e.kind = kind /\ e.level = level
        /\ e.inst = node.inst /\ e.gen = node.gen /\ e.port = node.port
    BY StateFacts DEF VerbState
  <2> HIDE DEF e
  <2>3. verbs' \in [Verb -> VerbState] /\ verbs'[v] = e /\ \A u \in Verb : u # v => verbs'[u] = verbs[u]
    BY <1>3, <2>2 DEF PortInv, PortTypes
  <2>4. /\ tty' \in TtyState /\ tty'.present = tty.present /\ tty'.epoch = tty.epoch
        /\ tty'.excl = tty.excl
        /\ kind = "brk" => tty'.brk = level
        /\ kind # "brk" => tty'.brk = tty.brk
    BY <1>3, StateFacts, DrivenFacts
  <2>5. Bounded' /\ Claims(tty', ports', node'.port)
    BY <1>1, <1>3, <2>1, <2>4, DrivenClaims
  <2>6. \A u \in Verb : ~(Holding(u) /\ Current(u))
    BY <1>3 DEF PortInv, LineInv
  <2>7. \A u \in Verb : u # v => Holding(u)' = Holding(u) /\ Current(u)' = Current(u)
    BY <2>1, <2>3 DEF Holding, Current
  <2>8. Holding(v)' /\ Current(v)' /\ LineBusy'
    BY <2>1, <2>2, <2>3 DEF Holding, Current, LineBusy
  <2>9. LineInv'
    <3>1. node'.inFlight <= node'.gen
      BY <2>1, StateFacts
    <3>2. \A u \in Verb : Holding(u)' =>
              /\ verbs'[u].inst < node'.inst
                 \/ (verbs'[u].inst = node'.inst /\ verbs'[u].gen <= node'.gen)
              /\ verbs'[u].kind = "brk" => verbs'[u].level
              /\ verbs'[u].port \in 1 .. Len(ports')
              /\ Current(u)' <=> verbs'[u].port = node'.port
      <4> SUFFICES ASSUME NEW u \in Verb, Holding(u)'
                   PROVE  /\ verbs'[u].inst < node'.inst
                             \/ (verbs'[u].inst = node'.inst /\ verbs'[u].gen <= node'.gen)
                          /\ verbs'[u].kind = "brk" => verbs'[u].level
                          /\ verbs'[u].port \in 1 .. Len(ports')
                          /\ Current(u)' <=> verbs'[u].port = node'.port
        OBVIOUS
      <4>1. CASE u = v
        <5>1. verbs'[u].inst = node'.inst /\ verbs'[u].gen = node'.gen /\ node'.gen \in Nat
          BY <2>1, <2>2, <2>3, <4>1, StateFacts
        <5>2. verbs'[u].kind = "brk" => verbs'[u].level
          BY <2>2, <2>3, <4>1, Zenon
        <5>3. verbs'[u].port = node'.port /\ node'.port \in 1 .. Len(ports')
          BY <1>1, <1>3, <2>1, <2>2, <2>3, <4>1, StateFacts DEF OnTty
        <5> QED BY <2>8, <4>1, <5>1, <5>2, <5>3
      <4>2. CASE u # v
        BY <1>1, <2>1, <2>3, <2>7, <4>2 DEF PortInv, LineInv
      <4> QED BY <4>1, <4>2
    <3>3. \A u \in Verb : Holding(u)' /\ Current(u)' => u = v
      BY <2>6, <2>7
    <3> QED BY <2>8, <3>1, <3>2, <3>3 DEF LineInv
  <2>10. BreakInv'
    <3>1. tty'.present /\ tty'.brk => kind = "brk"
      BY <2>4, <2>6 DEF PortInv, BreakInv
    <3>2. verbs'[v].kind = kind
      BY <2>2, <2>3
    <3>3. kind = "brk" => tty'.brk
      BY <2>4, Zenon
    <3> QED BY <2>6, <2>7, <2>8, <3>1, <3>2, <3>3 DEF BreakInv
  <2>11. PortTypes' /\ GhostsInv' /\ SupInv'
    BY <1>1, <2>1, <2>3, <2>4 DEF PortInv, PortTypes, GhostsInv, SupInv, Live
  <2> QED BY <2>5, <2>9, <2>10, <2>11 DEF PortInv
<1> QED BY <1>2, <1>3 DEF Signal, AssertLine

\* The hold ends: on the present port the line is driven back and the lease
\* dropped, on any other nothing is touched.
LEMMA HoldEndsInv ==
    ASSUME PortInv, NEW v \in Verb, HoldEnds(v)
    PROVE  PortInv'
<1> DEFINE back == ~verbs[v].level
           neg == -1
           e == [NoVerb EXCEPT !.st = IF InScope(v) THEN "ok" ELSE "gone"]
<1>1. /\ Holding(v) /\ UNCHANGED <<ports, sup, reader, ghosts>>
      /\ tty' = IF InScope(v) /\ OnTty(tty, ports, node.port)
                THEN Driven(tty, verbs[v].kind, back) ELSE tty
      /\ node' = IF verbs[v].inst = node.inst /\ node.inFlight = verbs[v].gen
                 THEN [node EXCEPT !.inFlight = neg] ELSE node
      /\ verbs' = [verbs EXCEPT ![v] = e]
  BY DEF HoldEnds
<1>2. neg \in Int /\ neg < 0 /\ back \in BOOLEAN
  OBVIOUS
<1>3. e \in VerbState /\ e.st # "holding"
  <2> DEFINE no == FALSE
             st == IF InScope(v) THEN "ok" ELSE "gone"
  <2>1. NoVerb = [st |-> "none", kind |-> "none", inst |-> 0, gen |-> 0, port |-> 0,
                   level |-> no]
        /\ no \in BOOLEAN /\ st \in {"ok", "gone"}
    BY DEF NoVerb
  <2> HIDE DEF no, st
  <2>2. [NoVerb EXCEPT !.st = st]
            = [st |-> st, kind |-> "none", inst |-> 0, gen |-> 0, port |-> 0,
                   level |-> no]
    BY <2>1
  <2>3. e = [st |-> st, kind |-> "none", inst |-> 0, gen |-> 0, port |-> 0,
                   level |-> no]
    BY <2>2 DEF st
  <2> HIDE DEF e
  <2> QED BY <2>1, <2>3 DEF VerbState
<1> HIDE DEF e, neg
<1>4. /\ verbs' \in [Verb -> VerbState] /\ verbs'[v] = e
      /\ \A u \in Verb : u # v => verbs'[u] = verbs[u]
  BY <1>1, <1>3 DEF PortInv, PortTypes
<1>5. /\ node' \in NodeState /\ node'.port = node.port /\ node'.inst = node.inst
      /\ node'.gen = node.gen /\ node'.status = node.status
      /\ node'.inFlight = node.inFlight \/ node'.inFlight = neg
  BY <1>1, <1>2, StateFacts DEF NodeState
<1>6. \A u \in Verb : /\ Holding(u)' <=> Holding(u) /\ u # v
                      /\ u # v => Current(u)' = Current(u)
  BY <1>3, <1>4, <1>5 DEF Holding, Current
<1>7. LineBusy' => LineBusy /\ ~Current(v)
  <2>1. node.gen \in Nat /\ node.inFlight \in Int
    BY StateFacts
  <2>2. Current(v) => node'.inFlight = neg
    <3> SUFFICES ASSUME Current(v) PROVE node'.inFlight = neg
      OBVIOUS
    <3>1. node.inFlight = node.gen
      BY <1>1 DEF PortInv, LineInv, LineBusy
    <3>2. node' = [node EXCEPT !.inFlight = neg]
      BY <1>1, <3>1 DEF Current
    <3> QED BY <3>2, StateFacts DEF NodeState
  <2> QED BY <1>2, <1>5, <2>1, <2>2 DEF LineBusy
<1>8. ~Current(v) => LineBusy' = LineBusy
  <2> SUFFICES ASSUME ~Current(v), LineBusy PROVE LineBusy'
    BY <1>7 DEF LineBusy
  <2>1. ~(verbs[v].inst = node.inst /\ node.inFlight = verbs[v].gen)
    BY DEF Current, LineBusy
  <2> QED BY <1>1, <2>1 DEF LineBusy
<1>9. \A u \in Verb : Holding(u) /\ Current(u) /\ Current(v) => u = v
  BY <1>1 DEF PortInv, LineInv
<1>10. LineInv'
  <2>1. node'.inFlight <= node'.gen
    BY <1>2, <1>5, StateFacts DEF PortInv, LineInv
  <2>2. \A u \in Verb : Holding(u)' =>
            /\ verbs'[u].inst < node'.inst
               \/ (verbs'[u].inst = node'.inst /\ verbs'[u].gen <= node'.gen)
            /\ verbs'[u].kind = "brk" => verbs'[u].level
            /\ verbs'[u].port \in 1 .. Len(ports')
            /\ Current(u)' <=> verbs'[u].port = node'.port
    BY <1>1, <1>4, <1>5, <1>6 DEF PortInv, LineInv
  <2>3. \A u \in Verb : Holding(u)' /\ Current(u)' => LineBusy'
    BY <1>6, <1>8, <1>9 DEF PortInv, LineInv
  <2>4. \A u, w \in Verb : Holding(u)' /\ Holding(w)' /\ Current(u)' /\ Current(w)' => u = w
    BY <1>6 DEF PortInv, LineInv
  <2>5. LineBusy' => \E u \in Verb : Holding(u)' /\ Current(u)'
    BY <1>6, <1>7 DEF PortInv, LineInv
  <2> QED BY <2>1, <2>2, <2>3, <2>4, <2>5 DEF LineInv
<1>11. /\ tty' \in TtyState /\ tty'.present = tty.present /\ tty'.epoch = tty.epoch
       /\ tty'.excl = tty.excl
       /\ InScope(v) /\ OnTty(tty, ports, node.port) /\ verbs[v].kind = "brk" => tty'.brk = back
       /\ ~InScope(v) \/ ~OnTty(tty, ports, node.port) \/ verbs[v].kind # "brk"
              => tty'.brk = tty.brk
  <2> HIDE DEF back
  <2>1. CASE InScope(v) /\ OnTty(tty, ports, node.port)
    <3>1. tty' = Driven(tty, verbs[v].kind, back)
      BY <1>1, <2>1
    <3> QED BY <1>2, <2>1, <3>1, StateFacts, DrivenFacts
  <2>2. CASE ~(InScope(v) /\ OnTty(tty, ports, node.port))
    <3>1. tty' = tty
      BY <1>1, <2>2
    <3> QED BY <2>2, <3>1, StateFacts
  <2> QED BY <2>1, <2>2
<1>12. OnTty(tty, ports, node.port) => Live /\ node.port # 0
  BY DEF OnTty, PortInv, SupInv
<1>13. InScope(v) <=> Live /\ node.port # 0 /\ Current(v)
  BY DEF InScope, Current
<1>14. verbs[v].kind = "brk" => verbs[v].level
  BY <1>1 DEF PortInv, LineInv
<1>15. CASE Current(v)
  <2>1. \A u \in Verb : ~(Holding(u)' /\ Current(u)')
    BY <1>6, <1>9, <1>15
  <2>2. tty.present /\ tty.brk => verbs[v].kind = "brk" /\ OnTty(tty, ports, node.port)
    BY <1>9, <1>15 DEF PortInv, BreakInv, Claims
  <2>3. ~(tty'.present /\ tty'.brk)
    <3> SUFFICES ASSUME tty.present, tty'.brk PROVE FALSE
      BY <1>11
    <3>1. CASE tty.brk
      <4>1. tty'.brk = back
        BY <1>11, <1>12, <1>13, <1>15, <2>2, <3>1
      <4>2. verbs[v].level
        BY <1>14, <2>2, <3>1
      <4> QED BY <4>1, <4>2
    <3>2. CASE ~tty.brk
      <4>1. InScope(v) /\ OnTty(tty, ports, node.port) /\ verbs[v].kind = "brk"
        BY <1>11, <3>2
      <4>2. tty'.brk = back /\ verbs[v].level
        BY <1>11, <1>14, <4>1
      <4> QED BY <4>2
    <3> QED BY <3>1, <3>2
  <2>4. BreakInv'
    BY <2>1, <2>3 DEF BreakInv
  <2>5. tty'.brk => tty.brk \/ OnTty(tty, ports, node.port)
    BY <1>11
  <2>6. Bounded' /\ Claims(tty', ports', node'.port)
    BY <1>1, <1>5, <1>11, <2>5, DrivenClaims
  <2>7. PortTypes' /\ GhostsInv' /\ SupInv'
    BY <1>1, <1>4, <1>5, <1>11 DEF PortInv, PortTypes, GhostsInv, SupInv, Live
  <2> QED BY <1>10, <2>4, <2>6, <2>7 DEF PortInv
<1>16. CASE ~Current(v)
  <2>1. tty' = tty
    BY <1>1, <1>13, <1>16
  <2>2. \A u \in Verb : Holding(u)' /\ Current(u)' <=> Holding(u) /\ Current(u)
    BY <1>6, <1>16, Zenon
  <2>3. \A u \in Verb : Holding(u)' => verbs'[u] = verbs[u]
    BY <1>4, <1>6
  <2>4. \A u \in Verb : Holding(u) /\ Current(u) => verbs'[u] = verbs[u]
    BY <1>4, <1>16
  <2>5. BreakInv'
    BY <1>1, <1>5, <2>1, <2>2, <2>3, <2>4 DEF PortInv, BreakInv
  <2>6. Bounded' /\ Claims(tty', ports', node'.port)
    BY <1>1, <1>5, <1>11, <2>1, DrivenClaims
  <2>7. PortTypes' /\ GhostsInv' /\ SupInv'
    BY <1>1, <1>4, <1>5, <1>11 DEF PortInv, PortTypes, GhostsInv, SupInv, Live
  <2> QED BY <1>10, <2>5, <2>6, <2>7 DEF PortInv
<1> QED BY <1>15, <1>16
-----------------------------------------------------------------------------
(* The modem lines and the device *)

\* The modem verb acts on the port that is there now.
LEMMA SetModemInv ==
    ASSUME PortInv, NEW level \in BOOLEAN, SetModem(level)
    PROVE  PortInv'
<1>1. tty' = Driven(tty, "dtr", level) /\ UNCHANGED <<ports, node, sup, reader, ghosts, verbs>>
  BY DEF SetModem
<1>2. /\ tty' \in TtyState /\ tty'.present = tty.present /\ tty'.epoch = tty.epoch
      /\ tty'.excl = tty.excl /\ tty'.brk = tty.brk
  BY <1>1, StateFacts, DrivenFacts
<1>3. Bounded' /\ Claims(tty', ports', node'.port)
  BY <1>1, <1>2, DrivenClaims
<1>4. OnTty(tty, ports, node.port)' = OnTty(tty, ports, node.port)
  BY <1>1, <1>2 DEF OnTty
<1>5. LineInv' /\ BreakInv'
  BY <1>1, <1>2, <1>4, SameLine DEF PortInv
<1>6. PortTypes' /\ GhostsInv' /\ SupInv'
  BY <1>1, <1>2 DEF PortInv, PortTypes, GhostsInv, SupInv, Live
<1> QED BY <1>3, <1>5, <1>6 DEF PortInv

\* An unplugged tty has no flags; the one that comes back has none set, and no
\* port of the daemon is on it.
LEMMA DeviceInv ==
    ASSUME PortInv, Unplug \/ Replug
    PROVE  PortInv'
<1>1. UNCHANGED <<ports, node, sup, reader, ghosts, verbs>>
  BY DEF Unplug, Replug
<1>2. MaxReplugs \in Nat /\ tty.epoch \in Nat
  BY PortAssumption, StateFacts
<1> DEFINE no == FALSE
           yes == TRUE
           n == tty.epoch + 1
<1>3. no \in BOOLEAN /\ ~no /\ yes \in BOOLEAN /\ yes /\ n \in Nat
  BY <1>2
<1>4. CASE Unplug
  <2>1. tty' = [tty EXCEPT !.present = no] /\ tty.epoch <= MaxReplugs
    BY <1>4 DEF Unplug
  <2> HIDE DEF no
  <2>2. tty' \in TtyState /\ ~tty'.present /\ tty'.epoch = tty.epoch
    BY <1>3, <2>1, StateFacts DEF TtyState
  <2>3. ~OnTty(tty', ports', node'.port)
    BY <2>2 DEF OnTty
  <2>4. Bounded' /\ Claims(tty', ports', node'.port)
    BY <1>1, <2>1, <2>2 DEF PortInv, Bounded, Claims
  <2>5. LineInv' /\ BreakInv'
    BY <1>1, <2>2, <2>3, SameLine DEF PortInv
  <2>6. PortTypes' /\ GhostsInv' /\ SupInv'
    BY <1>1, <2>2 DEF PortInv, PortTypes, GhostsInv, SupInv, Live
  <2> QED BY <2>4, <2>5, <2>6 DEF PortInv
<1>5. CASE Replug
  <2>1. /\ ~tty.present
        /\ tty' = [present |-> yes, epoch |-> n, excl |-> no, brk |-> no, dtr |-> no]
    BY <1>5 DEF Replug
  <2> HIDE DEF no, yes, n
  <2>2. tty' \in TtyState /\ tty'.present = yes /\ tty'.epoch = n /\ tty'.excl = no /\ tty'.brk = no
    BY <1>3, <2>1 DEF TtyState
  <2>3. ~tty'.excl /\ ~tty'.brk
    BY <1>3, <2>2, Zenon
  <2>4. n = tty.epoch + 1 /\ n \in 1 .. MaxReplugs + 1
    BY <1>2, <2>1 DEF PortInv, Bounded, n
  <2>5. \A q \in 1 .. Len(ports) : ports[q].epoch < n /\ ports[q].epoch <= tty'.epoch
    <3>1. \A q \in 1 .. Len(ports) : ports[q].epoch \in Nat /\ ports[q].epoch <= tty.epoch
      <4>1. \A q \in 1 .. Len(ports) : ports[q] \in PortState
        BY StateFacts
      <4>2. \A q \in 1 .. Len(ports) : ports[q].epoch <= tty.epoch
        BY DEF PortInv, Claims
      <4> QED BY <4>1, <4>2 DEF PortState
    <3> QED BY <1>2, <2>2, <2>4, <3>1
  <2>6. ~OnTty(tty', ports', node'.port)
    <3>1. node.port # 0 => node.port \in 1 .. Len(ports)
      BY StateFacts
    <3> QED BY <1>1, <1>2, <2>2, <2>4, <2>5, <3>1 DEF OnTty
  <2>7. Bounded'
    BY <1>1, <1>3, <2>2, <2>4 DEF PortInv, Bounded
  <2>8. Claims(tty', ports', node'.port)
    BY <1>1, <2>3, <2>5, <2>6 DEF PortInv, Claims
  <2>9. LineInv' /\ BreakInv'
    BY <1>1, <2>3, <2>6, SameLine DEF PortInv
  <2>10. PortTypes' /\ GhostsInv' /\ SupInv'
    BY <1>1, <2>2 DEF PortInv, PortTypes, GhostsInv, SupInv, Live
  <2> QED BY <2>7, <2>8, <2>9, <2>10 DEF PortInv
<1> QED BY <1>4, <1>5
-----------------------------------------------------------------------------
(* Theorems *)

\* No node, no port, no claim.
LEMMA PortInitInv == PortInit => PortInv
<1> SUFFICES ASSUME PortInit PROVE PortInv
  OBVIOUS
<1> DEFINE no == FALSE
           yes == TRUE
           neg == -1
<1>1. no \in BOOLEAN /\ ~no /\ yes \in BOOLEAN /\ neg \in Int /\ neg < 0 /\ MaxReplugs \in Nat
      /\ MaxOpens \in Nat
  BY PortAssumption
<1>2. /\ tty = [present |-> yes, epoch |-> 1, excl |-> no, brk |-> no, dtr |-> no]
      /\ ports = <<>> /\ ghosts = {}
      /\ node = [inst |-> 0, port |-> 0, gen |-> 0, inFlight |-> neg, status |-> "none"]
      /\ sup = [pc |-> "none", port |-> 0] /\ reader = NoReader
  BY DEF PortInit, NoNode
<1>3. /\ verbs \in [Verb -> VerbState] /\ \A v \in Verb : verbs[v].st = "none"
  <2>1. NoVerb \in VerbState /\ NoVerb.st = "none"
    <3>1. NoVerb = [st |-> "none", kind |-> "none", inst |-> 0, gen |-> 0, port |-> 0,
                   level |-> no]
      BY DEF NoVerb
    <3> HIDE DEF no
    <3> QED BY <1>1, <3>1 DEF VerbState
  <2> QED BY <2>1 DEF PortInit
<1> HIDE DEF neg
<1>4. tty \in TtyState /\ tty.present /\ ~tty.excl /\ ~tty.brk /\ tty.epoch = 1
  <2>1. tty.present = yes /\ tty.excl = no /\ tty.brk = no
    BY <1>2
  <2>2. tty.present /\ ~tty.excl /\ ~tty.brk
    BY <2>1, Zenon
  <2> HIDE DEF no, yes
  <2>3. tty \in TtyState /\ tty.epoch = 1
    BY <1>1, <1>2 DEF TtyState
  <2> QED BY <2>2, <2>3
<1> HIDE DEF no, yes
<1>5. /\ node \in NodeState /\ node.port = 0 /\ node.status = "none" /\ node.inFlight = neg
      /\ node.gen = 0 /\ sup.pc = "none" /\ sup.port = 0 /\ reader.port = 0
      /\ sup \in [pc : {"none", "start", "active", "poll", "purge"}, port : Nat]
      /\ reader \in [port : Nat, lost : BOOLEAN]
  BY <1>1, <1>2, NoReaderFacts DEF NodeState, NodeStatus
<1>6. ports \in Seq(PortState) /\ Len(ports) = 0
  BY <1>2
<1>7. PortTypes
  BY <1>3, <1>4, <1>5, <1>6 DEF PortTypes
<1>8. Bounded
  BY <1>1, <1>4, <1>6 DEF Bounded
<1>9. Claims(tty, ports, node.port)
  BY <1>4, <1>5, <1>6 DEF Claims, OnTty
<1>10. GhostsInv /\ SupInv
  BY <1>2, <1>5 DEF GhostsInv, SupInv, Live
<1>11. LineInv
  BY <1>1, <1>3, <1>5 DEF LineInv, Holding, LineBusy
<1>12. BreakInv
  BY <1>3, <1>4 DEF BreakInv, Holding
<1> QED BY <1>7, <1>8, <1>9, <1>10, <1>11, <1>12 DEF PortInv

\* The claim, the break and the line lease follow the node's port in every
\* interleaving of verbs, losses, replugs, teardowns and late drops, for any
\* number of verbs, ports, nodes and replugs.
THEOREM PortInvariance == PortSpec => []PortInv
<1>1. PortInv /\ [PortNext]_portVars => PortInv'
  <2> SUFFICES ASSUME PortInv, [PortNext]_portVars PROVE PortInv'
    OBVIOUS
  <2>1. CASE UNCHANGED portVars
    <3>1. PortTypes' /\ SupInv'
      BY <2>1 DEF portVars, PortInv, PortTypes, SupInv, Live
    <3> QED BY <2>1, <3>1, QuietInv DEF portVars
  <2>2. CASE AddNode \/ RemoveNode \/ ReplaceNode
    BY <2>2, LifeInv
  <2>3. CASE \E p \in ghosts : FutureDropped(p)
    BY <2>3, FutureDroppedInv
  <2>4. CASE SuperviseStarts \/ ReaderLoses \/ Lost \/ ReopenPort \/ Rearm
    BY <2>4, SuperviseStartsInv, ReaderLosesInv, LostInv, ReopenPortInv, RearmInv
  <2>5. CASE \E v \in Verb : Signal(v, "brk", TRUE)
    BY <2>5, SignalInv
  <2>6. CASE \E v \in Verb : \E l \in BOOLEAN : Signal(v, "dtr", l)
    BY <2>6, SignalInv
  <2>7. CASE \E v \in Verb : HoldEnds(v)
    BY <2>7, HoldEndsInv
  <2>8. CASE \E l \in BOOLEAN : SetModem(l)
    BY <2>8, SetModemInv
  <2>9. CASE Unplug \/ Replug
    BY <2>9, DeviceInv
  <2> QED BY <2>1, <2>2, <2>3, <2>4, <2>5, <2>6, <2>7, <2>8, <2>9 DEF PortNext
<1> QED BY <1>1, PortInitInv, PTL DEF PortSpec

\* The port's resources are held by who may hold them and given back by everyone
\* who leaves: release_claims, the restore guard and the line lease agree.
THEOREM PortAlwaysSound == PortSpec => []PortSound
<1>1. PortInv => PortSound
  <2> SUFFICES ASSUME PortInv PROVE PortSound
    OBVIOUS
  <2>1. PortTypeOK
    BY StateFacts DEF PortTypeOK, PortInv, PortTypes, Bounded, GhostsInv, SupInv, TtyState,
                         NodeState, NodeStatus
  <2>2. ClaimIsNodes
    BY DEF ClaimIsNodes, PortInv, Claims
  <2>3. OnTty(tty, ports, node.port) => Live /\ node.port # 0
    BY DEF OnTty, PortInv, SupInv
  <2>4. NoStandingBreak
    BY <2>3 DEF NoStandingBreak, PortInv, BreakInv, Claims, InScope, Current
  <2>5. LeaseHasHolder
    BY DEF LeaseHasHolder, PortInv, LineInv, InScope, Current
  <2>6. FdOutlivesReader
    BY DEF FdOutlivesReader, PortInv, SupInv
  <2> QED BY <2>1, <2>2, <2>4, <2>5, <2>6 DEF PortSound
<1> QED BY <1>1, PortInvariance, PTL

\* A send-break that is holding has its break on the line while the node keeps the
\* port: neither another verb's restore guard nor the late drop of an old port takes
\* it away.
THEOREM BreakAlwaysHolds == PortSpec => []BreakHolds
<1>1. PortInv => BreakHolds
  BY DEF BreakHolds, PortInv, LineInv, BreakInv
<1> QED BY <1>1, PortInvariance, PTL

\* A line verb drives a line, or reports success, only on the port it asserted on:
\* every change of the port, in every order of losses, reopens, removals and
\* replacements, makes a generation no earlier hold is of.
THEOREM LineVerbsKeepToPort == PortSpec => LineVerbKeepsToPort
<1> DEFINE Keeps == \A v \in Verb :
                        /\ Holding(v) /\ ~Holding(v)'
                        /\ tty' # tty \/ verbs'[v].st = "ok"
                        => verbs[v].port = node.port
<1>1. PortInv /\ [PortNext]_portVars => [Keeps]_portVars
  <2> SUFFICES ASSUME PortInv, [PortNext]_portVars, NEW v \in Verb, Holding(v), ~Holding(v)',
                      tty' # tty \/ verbs'[v].st = "ok"
               PROVE  verbs[v].port = node.port
    OBVIOUS
  <2>1. verbs \in [Verb -> VerbState] /\ verbs' # verbs
    BY DEF PortInv, PortTypes, Holding
  <2>2. \E u \in Verb : \/ HoldEnds(u) \/ Signal(u, "brk", TRUE)
                        \/ \E l \in BOOLEAN : Signal(u, "dtr", l)
    BY <2>1 DEF PortNext, portVars, AddNode, RemoveNode, ReplaceNode, FutureDropped,
       SuperviseStarts, ReaderLoses, Lost, ReopenPort, Rearm, SetModem, Unplug, Replug
  <2>3. ASSUME NEW u \in Verb, NEW kind, NEW l, Signal(u, kind, l) PROVE FALSE
    <3>1. verbs[u].st = "none" /\ u # v
      BY <2>3 DEF Signal, Holding
    <3>2. verbs'[v] = verbs[v]
      BY <2>1, <2>3, <3>1 DEF Signal, AssertLine
    <3> QED BY <3>2 DEF Holding
  <2>4. PICK u \in Verb : HoldEnds(u)
    BY <2>2, <2>3
  <2>5. u = v
    <3> SUFFICES ASSUME u # v PROVE FALSE
      OBVIOUS
    <3>1. verbs'[v] = verbs[v]
      BY <2>1, <2>4 DEF HoldEnds
    <3> QED BY <3>1 DEF Holding
  <2>6. InScope(v)
    <3> SUFFICES ASSUME ~InScope(v) PROVE FALSE
      OBVIOUS
    <3>1. tty' = tty
      BY <2>4, <2>5 DEF HoldEnds
    <3>2. verbs' = [verbs EXCEPT ![v] = [NoVerb EXCEPT !.st = "gone"]]
      BY <2>4, <2>5 DEF HoldEnds
    <3>3. verbs'[v].st = "gone"
      BY <2>1, <3>2 DEF NoVerb
    <3> QED BY <3>1, <3>3
  <2>7. Current(v)
    BY <2>6 DEF InScope, Current
  <2> QED BY <2>7 DEF PortInv, LineInv
<1> QED BY <1>1, PortInvariance, PTL DEF PortSpec, LineVerbKeepsToPort
=============================================================================
