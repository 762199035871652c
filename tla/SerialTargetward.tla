-------------------------- MODULE SerialTargetward --------------------------
(***************************************************************************)
(* The targetward half of a serial node (daemon/src/nodes/serial.rs): the  *)
(* writers that send into its queue, the reconnect supervisor that writes  *)
(* the queue to the device, loses the device, purges the backlog when the  *)
(* device comes back, and is torn down at any moment.                      *)
(*                                                                         *)
(* An action is what one task does between two awaits.  The reader thread  *)
(* is a real thread: it pulses `lost` at any time.  Open, write and read   *)
(* errors are the environment's.                                           *)
(***************************************************************************)
EXTENDS TargetwardInbox

CONSTANTS
    Empty,            \* the chunks of length zero
    PurgeRounds,      \* PURGE_ROUNDS
    PurgeOnReconnect  \* the node's purge_on_reconnect setting

ASSUME EmptyAssumption == Empty \subseteq Chunk
ASSUME PurgeAssumption == PurgeRounds \in Nat \ {0} /\ PurgeOnReconnect \in BOOLEAN

VARIABLES
    inbox,     \* the node's TargetwardInbox and the senders of its channel
    pc,        \* where the supervisor is
    rounds,    \* purge rounds done
    lost,      \* the reader's loss Notify has been pulsed
    written,   \* chunks written to the device
    purged,    \* counter purged_on_reconnect
    torn,      \* counter discarded_at_teardown
    accepted,  \* history: chunks the channel took
    refused,   \* history: chunks their sender kept (error, or withdrawn)
    failed,    \* history: chunks whose write failed
    stale      \* history: chunks sent before a reopen and not written by then

counters == <<written, purged, torn>>
history == <<accepted, refused, failed, stale>>
vars == <<inbox, pc, rounds, lost, written, purged, torn, history>>

\* waiting: no port; purging: at a yield of the purge; active: waiting for a
\* chunk or the loss; writing: inside write_all; gone: torn down.
SerTypeOK ==
    /\ inbox \in InboxState
    /\ pc \in {"waiting", "purging", "active", "writing", "gone"}
    /\ rounds \in 0 .. PurgeRounds
    /\ lost \in BOOLEAN
    /\ written \subseteq Chunk /\ purged \subseteq Chunk /\ torn \subseteq Chunk
    /\ accepted \subseteq Chunk /\ refused \subseteq Chunk
    /\ failed \subseteq Chunk /\ stale \subseteq Chunk

SerInit ==
    /\ inbox = NewInbox
    /\ pc \in {"active", "waiting"}   \* create opened the port, or not
    /\ rounds = 0
    /\ lost = FALSE
    /\ written = {} /\ purged = {} /\ torn = {}
    /\ accepted = {} /\ refused = {} /\ failed = {} /\ stale = {}
-----------------------------------------------------------------------------
(* Writers *)

InHand == {s.chunk : s \in InHands(inbox)}
Unsent == Chunk \ (accepted \cup refused \cup InHand)

\* Sender::send: in at once, suspended, or refused by a closed channel.  A
\* pty's try_send is the same without the suspension.
Offer(w, c) ==
    /\ Idle(inbox, w)
    /\ c \in Unsent
    /\ \/ /\ inbox.open /\ Room(inbox)
          /\ inbox' = Push(inbox, c)
          /\ accepted' = accepted \cup {c}
          /\ UNCHANGED refused
       \/ /\ inbox.open /\ ~Room(inbox)
          /\ inbox' = Suspend(inbox, w, c)
          /\ UNCHANGED <<accepted, refused>>
       \/ /\ ~inbox.open
          /\ refused' = refused \cup {c}
          /\ UNCHANGED <<inbox, accepted>>
    /\ UNCHANGED <<pc, rounds, lost, counters, failed, stale>>

\* A sender that was handed a permit runs.
SendLands(s) ==
    /\ inbox.open
    /\ s \in inbox.granted
    /\ inbox' = Land(inbox, s)
    /\ accepted' = accepted \cup {s.chunk}
    /\ UNCHANGED <<pc, rounds, lost, counters, refused, failed, stale>>

\* A suspended sender is dropped (deadline, connection, its own node's
\* teardown), or learns that the channel closed.
SendEnds(s) ==
    /\ s \in InHands(inbox)
    /\ inbox' = Withdraw(inbox, s)
    /\ refused' = refused \cup {s.chunk}
    /\ UNCHANGED <<pc, rounds, lost, counters, accepted, failed, stale>>
-----------------------------------------------------------------------------
(* The supervisor *)

\* The reader thread saw EOF, a hangup or an error.
ReaderLost ==
    /\ pc \in {"active", "writing"}
    /\ ~lost
    /\ lost' = TRUE
    /\ UNCHANGED <<inbox, pc, rounds, counters, history>>

\* active_step: recv settles the previous chunk and takes the next.  The loss
\* is looked at first.
Receive ==
    /\ pc = "active"
    /\ ~lost
    /\ inbox.queue # <<>>
    /\ inbox' = PollRecv(SettleHeld(inbox))
    /\ pc' = "writing"
    /\ UNCHANGED <<rounds, lost, counters, history>>

WriteDone ==
    /\ pc = "writing"
    /\ written' = written \cup HeldChunk(inbox)
    /\ pc' = "active"
    /\ UNCHANGED <<inbox, rounds, lost, purged, torn, history>>

\* write_all fails: the reader is joined and the node waits.
WriteFails ==
    /\ pc = "writing"
    /\ failed' = failed \cup HeldChunk(inbox)
    /\ pc' = "waiting"
    /\ lost' = FALSE
    /\ UNCHANGED <<inbox, rounds, counters, accepted, refused, stale>>

LossSeen ==
    /\ pc = "active"
    /\ lost
    /\ pc' = "waiting"
    /\ lost' = FALSE
    /\ UNCHANGED <<inbox, rounds, counters, history>>

\* The end of reopen: the reader is armed, or cannot be.
Arm ==
    /\ pc' \in {"active", "waiting"}
    /\ rounds' = 0
    /\ lost' = FALSE

\* Mutant of Progress: a round counts as progress by its bytes.
ProgressByBytes(b) == ToSet(b.queue) \ Empty # {}

\* drained_any
Progress(b) == b.queue # <<>>

\* Mutant of PurgeRound: the round forgets to take the chunks out.
PurgeRoundPeeks(r) ==
    /\ purged' = purged \cup ToSet(inbox.queue)
    /\ UNCHANGED inbox
    /\ IF Progress(inbox)
       THEN pc' = "purging" /\ rounds' = r /\ UNCHANGED lost
       ELSE Arm

\* Round r of purge_to_quiescence: drain, charge, then yield or finish.
PurgeRound(r) ==
    /\ inbox' = Drain(inbox)
    /\ purged' = purged \cup ToSet(inbox.queue)
    /\ IF Progress(inbox)
       THEN pc' = "purging" /\ rounds' = r /\ UNCHANGED lost
       ELSE Arm

\* The device is back and opens.  The supervisor slept RECONNECT_POLL first,
\* during which every sender that was handed a permit has run.
Reopen ==
    /\ pc = "waiting"
    /\ inbox.granted = {}
    /\ stale' = stale \cup ToSet(inbox.queue) \cup InHand
    /\ IF PurgeOnReconnect
       THEN PurgeRound(1)
       ELSE Arm /\ UNCHANGED <<inbox, purged>>
    /\ UNCHANGED <<written, torn, accepted, refused, failed>>

\* yield_now returns once every sender that was handed a permit has run.
PurgeResumes ==
    /\ pc = "purging"
    /\ inbox.granted = {}
    /\ IF rounds < PurgeRounds
       THEN PurgeRound(rounds + 1)
       ELSE Arm /\ UNCHANGED <<inbox, purged>>
    /\ UNCHANGED <<written, torn, history>>

\* Mutant of SignalStop: the queue is counted and left in its slot.
SignalStopLeavesSlot ==
    /\ pc # "gone"
    /\ torn' = torn \cup DrainAndCount(inbox)
    /\ pc' = "gone"
    /\ UNCHANGED <<inbox, rounds, lost, written, purged, history>>

\* signal_stop: drain and count, then abort the supervisor wherever it is.
SignalStop ==
    /\ pc # "gone"
    /\ torn' = torn \cup DrainAndCount(inbox)
    /\ inbox' = Taken(inbox)
    /\ pc' = "gone"
    /\ UNCHANGED <<rounds, lost, written, purged, history>>

Supervise == Receive \/ LossSeen \/ PurgeResumes

SerNext ==
    \/ \E w \in Sender, c \in Chunk : Offer(w, c)
    \/ \E s \in InHands(inbox) : SendLands(s) \/ SendEnds(s)
    \/ ReaderLost \/ Supervise \/ WriteDone \/ WriteFails \/ Reopen \/ SignalStop

SerSpec == SerInit /\ [][SerNext]_vars
-----------------------------------------------------------------------------
(* Properties *)

\* Where a chunk the channel took may be: queued, in the writer's hands, or on
\* a counter.
Located ==
    ToSet(inbox.queue) \cup HeldChunk(inbox) \cup written \cup purged \cup torn

\* No chunk the channel took vanishes, whatever step a loss, a purge or a
\* teardown lands on, unless the write of that very chunk failed.
NothingVanishes == accepted \subseteq Located \cup failed

\* The comment on TargetwardInbox: no byte that has left the queue crosses an
\* await uncharged.  A chunk whose write failed is on no counter once the next
\* chunk is received.
NoSilentLoss == accepted \subseteq Located

\* No chunk is charged twice: purged and written exclude each other, a torn
\* chunk was not purged, and teardown over-reports by at most one chunk, the
\* one that was written last.
ChargedOnce ==
    /\ purged \cap (written \cup torn \cup failed) = {}
    /\ written \cap failed = {}
    /\ \A c, d \in torn \cap written : c = d

\* The senders whose chunks the purge can still catch: a round hands out at most
\* Cap permits, and the last round's chunks are not drained again.
PurgeReach == (PurgeRounds - 1) * Cap

\* Nothing sent before a reopen reaches the reopened device: the purge's rounds
\* also catch the chunks of suspended senders, and empty chunks do not stop it.
\* PURGE_ROUNDS is enough for the finite set of senders within PurgeReach.
StaleNeverWritten ==
    PurgeOnReconnect /\ Cardinality(Sender) <= PurgeReach => written \cap stale = {}

\* The serial node as a Station: the chunk in work is the one inside write_all.
InWork == IF pc = "writing" THEN inbox.held ELSE NoChunk

AsStation == INSTANCE Station WITH
    open <- inbox.open, pending <- inbox.queue, hand <- InWork,
    delivered <- written, dropped <- failed, charged <- purged \cup torn

\* The targetward half of a serial node implements a Station: losses, purges and
\* a teardown at any await leave it a first-in first-out forwarder that charges
\* what it sheds, once, and is silent only about the chunk whose write failed.
ForwardsInOrder == AsStation!StationSpec

\* Backpressure ends: a suspended sender gets its chunk in or learns why not,
\* as long as writes end and lost devices come back.
BackpressureEnds ==
    (pc = "writing" ~> pc # "writing") /\ (pc = "waiting" ~> pc # "waiting") =>
        \A w \in Sender : ~Idle(inbox, w) ~> Idle(inbox, w)

\* Runnable tasks run: the supervisor, and senders that can make progress.
SerFairness ==
    /\ WF_vars(Supervise)
    /\ \A w \in Sender : WF_vars(\E s \in InHands(inbox) :
           s.who = w /\ (SendLands(s) \/ (~inbox.open /\ SendEnds(s))))

SerFairSpec == SerSpec /\ SerFairness
=============================================================================
