--------------------------- MODULE TargetwardInbox ---------------------------
(***************************************************************************)
(* A targetward queue of the data plane (daemon/src/runtime.rs): the       *)
(* bounded channel every writer of a host-facing endpoint sends into, and  *)
(* the TargetwardInbox through which both the pump and its node reach the  *)
(* receiving end.  Operators from inbox states to inbox states; the pumps  *)
(* that use them are modules of their own.                                 *)
(*                                                                         *)
(* A chunk is an identity: a byte counter of the code is the set of the    *)
(* chunks charged to it, so that a byte charged twice, or nowhere, shows.  *)
(*                                                                         *)
(* The channel is tokio's bounded mpsc: a sender that finds no room is     *)
(* suspended in a first-in first-out queue, a chunk taken out hands its    *)
(* permit to the longest suspended sender, and that sender puts its chunk  *)
(* in when it is next polled.                                              *)
(***************************************************************************)
EXTENDS Naturals, Sequences, FiniteSets, SequencesExt

CONSTANTS
    Chunk,    \* the chunks that may be sent
    NoChunk,  \* "nothing in hand"
    Sender,   \* tasks with a sender of the channel: pumps, ptys, send verbs
    Cap       \* capacity: CHANNEL_CAP in the code

ASSUME NoChunkAssumption == NoChunk \notin Chunk
ASSUME CapAssumption == Cap \in Nat \ {0}
ASSUME SenderAssumption == IsFiniteSet(Sender)

\* A suspended sender and the chunk in its hands.
Suspended == [who : Sender, chunk : Chunk]

\* open: the slot still has the receiver; held: the chunk the pump last took;
\* waiting: senders without a permit; granted: senders with one, not yet polled.
InboxState ==
    [open    : BOOLEAN,
     queue   : Seq(Chunk),
     held    : Chunk \cup {NoChunk},
     waiting : Seq(Suspended),
     granted : SUBSET Suspended]

NewInbox ==
    [open |-> TRUE, queue |-> <<>>, held |-> NoChunk,
     waiting |-> <<>>, granted |-> {}]

HeldChunk(b) == {b.held} \ {NoChunk}
InHands(b) == ToSet(b.waiting) \cup b.granted
Idle(b, w) == \A s \in InHands(b) : s.who # w
-----------------------------------------------------------------------------
(* The sending end *)

Room(b) == Len(b.queue) + Cardinality(b.granted) < Cap

\* A chunk goes in.
Push(b, c) == [b EXCEPT !.queue = Append(@, c)]

\* Sender::send finds no room.
Suspend(b, w, c) ==
    [b EXCEPT !.waiting = Append(@, [who |-> w, chunk |-> c])]

\* A suspended sender with a permit is polled.
Land(b, s) == [b EXCEPT !.queue = Append(@, s.chunk), !.granted = @ \ {s}]

\* Hand n permits to the longest suspended senders.
Permits(b, n) ==
    LET k == IF n < Len(b.waiting) THEN n ELSE Len(b.waiting)
    IN  [b EXCEPT !.granted = @ \cup {b.waiting[i] : i \in 1 .. k},
                  !.waiting = SubSeq(@, k + 1, Len(@))]

\* A suspended sender is dropped, or learns that the receiver is gone.
Withdraw(b, s) ==
    IF s \in b.granted
    THEN Permits([b EXCEPT !.granted = @ \ {s}], 1)
    ELSE [b EXCEPT !.waiting =
              RemoveAt(@, CHOOSE i \in 1 .. Len(b.waiting) : b.waiting[i] = s)]
-----------------------------------------------------------------------------
(* The receiving end *)

\* settle_held: whatever was handed out last has reached its fate.
SettleHeld(b) == [b EXCEPT !.held = NoChunk]

\* Mutant of PollRecv: the chunk is handed out without being noted as held.
PollRecvUnheld(b) == Permits([b EXCEPT !.queue = Tail(@)], 1)

\* Mutant of PollRecv: the newest chunk is handed out.
PollRecvNewest(b) ==
    Permits([b EXCEPT !.queue = Front(@), !.held = Last(b.queue)], 1)

\* poll_recv on a queue that is not empty.
PollRecv(b) ==
    Permits([b EXCEPT !.queue = Tail(@), !.held = Head(b.queue)], 1)

\* One round of purge_to_quiescence: everything in the queue goes.
Drain(b) == Permits([b EXCEPT !.queue = <<>>], Len(b.queue))

\* drain_and_count: what teardown charges ...
DrainAndCount(b) == ToSet(b.queue) \cup HeldChunk(b)

\* ... and leaves: the slot is empty, a second call counts nothing.
Taken(b) == [b EXCEPT !.open = FALSE, !.queue = <<>>, !.held = NoChunk]
=============================================================================
