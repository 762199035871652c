------------------------------ MODULE LegLink ------------------------------
(***************************************************************************)
(* One channel of a link between two daemons (daemon/src/nodes/leg.rs):    *)
(* commands written on computer B, where the leg faces host, travel over   *)
(* the socket to computer A, where the leg faces target and hands them to  *)
(* the local graph under its on-demand write lock.                         *)
(*                                                                         *)
(*   writers -> outbox -> flight -> wire -> reading -> inbound -> endpoint *)
(*              `------ B ------'          `--------- A ---------'         *)
(*                                                                         *)
(* The two ends learn of a broken connection independently.  An action is  *)
(* what one task does in one turn of its loop.  The lock itself is module  *)
(* WriteArbitration's; only who has A's floor is kept here.                *)
(***************************************************************************)
EXTENDS TargetwardInbox

CONSTANTS
    Commands,     \* bound: commands written
    Purge,        \* purge_on_reconnect, of both legs
    PurgeRounds,  \* PURGE_ROUNDS
    Edge,         \* origin ids of the attachments A's channel goes through
    NoEdge,
    MaxEpoch      \* bound: connections that end

\* A command is known by its place in the order B's queue took them.
ASSUME CommandsAssumption == Commands \in Nat /\ Chunk = 1 .. Commands
ASSUME PurgeAssumption == Purge \in BOOLEAN /\ PurgeRounds \in Nat \ {0}
ASSUME EdgeAssumption == NoEdge \notin Edge
ASSUME MaxEpochAssumption == MaxEpoch \in Nat

VARIABLES
    send,       \* B's supervisor and pump
    outbox,     \* B's queue of local commands
    wire, cut,  \* what is on its way, and whether the connection is broken
    recv,       \* A's supervisor and pump
    inbound,    \* A's queue of tagged commands
    task,       \* A's channel task
    edge,       \* A's edge slot
    dead,       \* edges whose endpoint is gone
    floor,      \* the lock of A's endpoint: "free", "ours" or "other"
    ledger,     \* the counters of both legs
    accepted,   \* history: how many commands B's queue took
    delivered,  \* history: the commands A's endpoint took, in order
    history     \* history: sets of commands, see History

B == <<send, outbox>>
A == <<recv, inbound, task>>
graph == <<edge, dead, floor>>
past == <<accepted, delivered, history>>
vars == <<send, outbox, wire, cut, recv, inbound, task, graph, ledger, past>>

\* Inbound: a command tagged with the disconnect epoch it arrived under.
Item == [chunk : Chunk, epoch : 0 .. MaxEpoch]
ASSUME NoItemAssumption == NoChunk \notin Item

SendState ==
    [pc     : {"down", "purging", "up", "gone"},
     bound  : BOOLEAN,                  \* A announced the channel
     flight : Chunk \cup {NoChunk},     \* pump's custody slot
     before : BOOLEAN,                  \* connected_before
     rounds : 0 .. PurgeRounds]
RecvState ==
    [pc      : {"down", "up", "gone"},
     epoch   : 0 .. MaxEpoch,           \* disconnect_epoch
     reading : Item \cup {NoChunk}]     \* the read half, suspended in its send

\* drain: waiting for a command without a binding; free: with one; held: also
\* holding the floor; acquire: queued for the floor; sending: in the
\* endpoint's send.  pulse: the disconnect has been notified to this wait.
TaskState ==
    [pc      : {"drain", "free", "held", "acquire", "sending", "gone"},
     binding : Edge \cup {NoEdge},
     holding : Edge \cup {NoEdge},
     pulse   : BOOLEAN]

Counter == {"wrote", "peerGone", "purgedB", "tornB", "purgedA", "discardedA", "tornA"}

\* onWire: lost with a connection; reader: lost in the read half's hands;
\* stale: in B's queue at a reconnect; late: delivered after its connection
\* ended; missed: discarded although an edge was attached.
History == {"onWire", "reader", "stale", "late", "missed"}

LinkTypeOK ==
    /\ send \in SendState /\ recv \in RecvState /\ task \in TaskState
    /\ outbox \in InboxState
    /\ inbound \in [open : BOOLEAN, queue : Seq(Item), held : Item \cup {NoChunk},
                    waiting : {<<>>}, granted : {{}}]
    /\ wire \in Seq(Chunk) /\ cut \in BOOLEAN
    /\ edge \in Edge \cup {NoEdge} /\ dead \subseteq Edge
    /\ floor \in {"free", "ours", "other"}
    /\ ledger \in [Counter -> SUBSET Chunk]
    /\ accepted \in 0 .. Commands /\ delivered \in Seq(Chunk)
    /\ DOMAIN history = History
    /\ \A k \in History : history[k] \subseteq IF k = "late" THEN Item ELSE Chunk

LinkInit ==
    /\ send = [pc |-> "down", bound |-> FALSE, flight |-> NoChunk,
               before |-> FALSE, rounds |-> 0]
    /\ recv = [pc |-> "down", epoch |-> 0, reading |-> NoChunk]
    /\ task = [pc |-> "drain", binding |-> NoEdge, holding |-> NoEdge, pulse |-> FALSE]
    /\ outbox = NewInbox /\ inbound = NewInbox
    /\ wire = <<>> /\ cut = TRUE
    /\ edge = NoEdge /\ dead = {} /\ floor = "free"
    /\ ledger = [k \in Counter |-> {}]
    /\ accepted = 0 /\ delivered = <<>>
    /\ history = [k \in History |-> {}]

Charge(k, S) == ledger' = [ledger EXCEPT ![k] = @ \cup S]
Note(k, S) == history' = [history EXCEPT ![k] = @ \cup S]
Hand(x) == {x} \ {NoChunk}
-----------------------------------------------------------------------------
(* Computer B: the sending leg *)

\* A local writer's command goes into the channel's queue.
Write ==
    /\ accepted < Commands
    /\ outbox.open /\ Room(outbox)
    /\ outbox' = Push(outbox, accepted + 1)
    /\ accepted' = accepted + 1
    /\ UNCHANGED <<send, wire, cut, A, graph, ledger, delivered, history>>

\* Round r of the purge, then the pump starts or the purge yields.
PurgeRound(s, r) ==
    /\ outbox' = Drain(outbox)
    /\ Charge("purgedB", ToSet(outbox.queue))
    /\ send' = IF outbox.queue # <<>>
               THEN [s EXCEPT !.pc = "purging", !.rounds = r]
               ELSE [s EXCEPT !.pc = "up", !.rounds = 0]

\* Mutant of Connected: a reconnect does not purge.
ConnectedUnpurged(announced) ==
    /\ send' = [send EXCEPT !.pc = "up", !.bound = announced, !.before = TRUE]
    /\ Note("stale", IF send.before THEN ToSet(outbox.queue) ELSE {})
    /\ UNCHANGED <<outbox, ledger>>

\* B's handshake succeeded: bind, and on a reconnect purge.
Connected(announced) ==
    LET s == [send EXCEPT !.bound = announced, !.before = TRUE] IN
    /\ IF send.before /\ Purge
       THEN PurgeRound(s, 1)
       ELSE send' = [s EXCEPT !.pc = "up"] /\ UNCHANGED <<outbox, ledger>>
    /\ Note("stale", IF send.before THEN ToSet(outbox.queue) ELSE {})

PurgeResumes ==
    /\ send.pc = "purging"
    /\ IF send.rounds < PurgeRounds
       THEN PurgeRound(send, send.rounds + 1)
       ELSE /\ send' = [send EXCEPT !.pc = "up", !.rounds = 0]
            /\ UNCHANGED <<outbox, ledger>>
    /\ UNCHANGED <<wire, cut, A, graph, past>>

\* next_send: settle the previous command, take the next of a bound channel.
NextSend ==
    /\ send.pc = "up" /\ send.bound
    /\ send.flight = NoChunk
    /\ outbox.queue # <<>>
    /\ outbox' = PollRecv(SettleHeld(outbox))
    /\ send' = [send EXCEPT !.flight = Head(outbox.queue)]
    /\ UNCHANGED <<wire, cut, A, graph, ledger, past>>

\* write_all returns and the loop is back in next_send.  On a broken connection
\* the bytes got no further than the socket's buffer.
WireWrite ==
    /\ send.pc = "up"
    /\ send.flight # NoChunk
    /\ Charge("wrote", {send.flight})
    /\ send' = [send EXCEPT !.flight = NoChunk]
    /\ outbox' = SettleHeld(outbox)
    /\ IF cut THEN Note("onWire", {send.flight}) /\ UNCHANGED wire
              ELSE wire' = Append(wire, send.flight) /\ UNCHANGED history
    /\ UNCHANGED <<cut, A, graph, accepted, delivered>>

\* Mutant of SendDrops: the custody slot is dropped with the write half.
SendDropsUncharged ==
    /\ send.pc = "up" /\ cut
    /\ send' = [send EXCEPT !.pc = "down", !.bound = FALSE, !.flight = NoChunk]
    /\ UNCHANGED <<outbox, wire, cut, A, graph, ledger, past>>

\* Either half saw the peer gone: what the write half had in custody is charged.
SendDrops ==
    /\ send.pc = "up" /\ cut
    /\ Charge("peerGone", Hand(send.flight))
    /\ send' = [send EXCEPT !.pc = "down", !.bound = FALSE, !.flight = NoChunk]
    /\ UNCHANGED <<outbox, wire, cut, A, graph, past>>

SendStops ==
    /\ send.pc # "gone"
    /\ Charge("tornB", DrainAndCount(outbox))
    /\ outbox' = Taken(outbox)
    /\ send' = [send EXCEPT !.pc = "gone", !.flight = NoChunk]
    /\ cut' = TRUE
    /\ UNCHANGED <<wire, A, graph, past>>
-----------------------------------------------------------------------------
(* The connection *)

\* A peer is accepted only once the previous one is known to be gone, so both
\* ends are down.  One end may finish its handshake and the other not.
Establish(announced) ==
    /\ send.pc = "down" /\ recv.pc = "down"
    /\ recv.epoch < MaxEpoch
    /\ \/ Connected(announced) /\ cut' = FALSE /\ recv' = [recv EXCEPT !.pc = "up"]
       \/ Connected(announced) /\ cut' = TRUE /\ UNCHANGED recv
       \/ cut' = TRUE /\ recv' = [recv EXCEPT !.pc = "up"] /\ UNCHANGED <<B, ledger, history>>
    /\ UNCHANGED <<wire, inbound, task, graph, accepted, delivered>>

\* The connection breaks; some of what was on its way may still arrive.
Break(n) ==
    /\ ~cut
    /\ cut' = TRUE
    /\ wire' = SubSeq(wire, 1, n)
    /\ Note("onWire", ToSet(SubSeq(wire, n + 1, Len(wire))))
    /\ UNCHANGED <<B, A, graph, ledger, accepted, delivered>>
-----------------------------------------------------------------------------
(* Computer A: the pump of the receiving leg *)

\* Mutant of Read: the read half does not wait for its suspended send.
ReadAhead ==
    /\ recv.pc = "up"
    /\ recv.reading = NoChunk \/ Room(inbound)
    /\ wire # <<>>
    /\ LET x == [chunk |-> Head(wire), epoch |-> recv.epoch] IN
       IF Room(inbound)
       THEN inbound' = Push(inbound, x) /\ UNCHANGED recv
       ELSE recv' = [recv EXCEPT !.reading = x] /\ UNCHANGED inbound
    /\ wire' = Tail(wire)
    /\ UNCHANGED <<B, cut, task, graph, ledger, past>>

\* route_recv: tag the command and send it to the channel task, in at once or
\* suspended; a suspended read half reads nothing more.
Read ==
    /\ recv.pc = "up"
    /\ recv.reading = NoChunk
    /\ wire # <<>>
    /\ LET x == [chunk |-> Head(wire), epoch |-> recv.epoch] IN
       IF Room(inbound)
       THEN inbound' = Push(inbound, x) /\ UNCHANGED recv
       ELSE recv' = [recv EXCEPT !.reading = x] /\ UNCHANGED inbound
    /\ wire' = Tail(wire)
    /\ UNCHANGED <<B, cut, task, graph, ledger, past>>

ReadLands ==
    /\ recv.pc = "up"
    /\ recv.reading # NoChunk
    /\ Room(inbound)
    /\ inbound' = Push(inbound, recv.reading)
    /\ recv' = [recv EXCEPT !.reading = NoChunk]
    /\ UNCHANGED <<B, wire, cut, task, graph, ledger, past>>

\* The read half is dropped with what it holds, and with what it has not read.
ReadHalfLost ==
    history' = [history EXCEPT !.onWire = @ \cup ToSet(wire),
                               !.reader = @ \cup {x.chunk : x \in Hand(recv.reading)}]

\* The waits that the disconnect pulse reaches.
Listening == task.pc = "held" \/ (task.pc = "sending" /\ Purge)

\* Mutant of RecvDrops: nobody is notified.
RecvDropsSilently ==
    /\ recv.pc = "up" /\ cut
    /\ recv' = [recv EXCEPT !.pc = "down", !.epoch = @ + 1, !.reading = NoChunk]
    /\ ReadHalfLost
    /\ wire' = <<>>
    /\ UNCHANGED <<B, cut, inbound, task, graph, ledger, accepted, delivered>>

\* The read half saw the end of the stream, or the write half failed, which
\* drops the read half with what it holds and what it has not read.
\* clear_connection_state: bump the epoch, then pulse.
RecvDrops ==
    /\ recv.pc = "up" /\ cut
    /\ recv' = [recv EXCEPT !.pc = "down", !.epoch = @ + 1, !.reading = NoChunk]
    /\ ReadHalfLost
    /\ wire' = <<>>
    /\ task' = [task EXCEPT !.pulse = Listening]
    /\ UNCHANGED <<B, cut, inbound, graph, ledger, accepted, delivered>>

RecvStops ==
    /\ recv.pc # "gone"
    /\ Charge("tornA", {x.chunk : x \in DrainAndCount(inbound)})
    /\ inbound' = Taken(inbound)
    /\ ReadHalfLost
    /\ wire' = <<>> /\ cut' = TRUE
    /\ recv' = [recv EXCEPT !.pc = "gone", !.reading = NoChunk]
    /\ task' = [task EXCEPT !.pc = "gone", !.pulse = FALSE]
    /\ edge' = NoEdge /\ floor' = "free"
    /\ UNCHANGED <<B, dead, accepted, delivered>>
-----------------------------------------------------------------------------
(* Computer A: channel_targetward *)

x0 == inbound.held
Registered == task.binding = edge /\ edge # NoEdge
Released == IF task.holding = edge /\ floor = "ours" THEN "free" ELSE floor

\* The connection a command belongs to.
Tag(x) == x.epoch

\* The connection that delivered x is gone and purging is on.
Stale(x) == Purge /\ Tag(x) # recv.epoch

\* The top of the loop: re-read the edge, yield the floor of another one.
LoopTop(holding) ==
    LET h == IF holding = edge THEN holding ELSE NoEdge IN
    task' = [pc |-> IF edge = NoEdge THEN "drain" ELSE IF h = NoEdge THEN "free" ELSE "held",
             binding |-> edge, holding |-> h, pulse |-> FALSE]

\* The end of a turn: the command's chunk goes to counter k and, except after a
\* refused acquire, the floor is released.
Finish(k, x, b) ==
    /\ Charge(k, {x.chunk})
    /\ inbound' = SettleHeld(b)
    /\ LoopTop(NoEdge)

Refuse(x, b) ==
    /\ Finish("discardedA", x, b)
    /\ IF edge # NoEdge THEN Note("missed", {x.chunk}) ELSE UNCHANGED history
    /\ UNCHANGED floor

\* The floor is ours: the epoch is looked at once more, then the command is sent.
Granted(x, b) ==
    IF Stale(x)
    THEN /\ Finish("purgedA", x, b)
         /\ floor' = "free"
         /\ UNCHANGED history
    ELSE /\ floor' = "ours"
         /\ inbound' = b
         /\ task' = [task EXCEPT !.pc = "sending", !.holding = task.binding,
                                 !.pulse = FALSE]
         /\ UNCHANGED <<ledger, history>>

\* ensure_acquired with the binding read at the top of the loop.
Acquire(x, b) ==
    \/ ~Registered /\ Refuse(x, b)
    \/ Registered /\ floor # "other" /\ Granted(x, b)
    \/ /\ Registered /\ floor = "other"
       /\ inbound' = b
       /\ task' = [task EXCEPT !.pc = "acquire", !.pulse = FALSE]
       /\ UNCHANGED <<floor, ledger, history>>

\* A command is received.
Turn ==
    /\ task.pc \in {"drain", "free", "held"}
    /\ inbound.queue # <<>>
    /\ LET b == PollRecv(inbound)
           x == Head(inbound.queue)
       IN  \/ task.pc = "drain" /\ Refuse(x, b)
           \/ /\ task.pc # "drain" /\ Stale(x)
              /\ Finish("purgedA", x, b)
              /\ floor' = Released
              /\ UNCHANGED history
           \/ task.pc # "drain" /\ ~Stale(x) /\ Acquire(x, b)
    /\ UNCHANGED <<B, wire, cut, recv, edge, dead, accepted, delivered>>

AcquireWakes ==
    /\ task.pc = "acquire"
    /\ ~Registered \/ floor # "other"
    /\ Acquire(x0, inbound)
    /\ UNCHANGED <<B, wire, cut, recv, edge, dead, accepted, delivered>>

\* The endpoint takes the command; a floor kept for a departed peer is yielded.
SendDone ==
    LET gone == x0.epoch # recv.epoch IN
    /\ task.pc = "sending"
    /\ task.binding \notin dead
    /\ delivered' = Append(delivered, x0.chunk)
    /\ IF gone THEN Note("late", {x0}) ELSE UNCHANGED history
    /\ floor' = IF gone THEN Released ELSE floor
    /\ inbound' = SettleHeld(inbound)
    /\ LoopTop(IF gone THEN NoEdge ELSE task.holding)
    /\ UNCHANGED <<B, wire, cut, recv, edge, dead, ledger, accepted>>

SendFails ==
    /\ task.pc = "sending"
    /\ task.binding \in dead
    /\ Finish("discardedA", x0, inbound)
    /\ floor' = Released
    /\ UNCHANGED <<B, wire, cut, recv, edge, dead, past>>

\* The disconnect wins over the suspended send.
SendCancelled ==
    /\ task.pc = "sending" /\ task.pulse
    /\ Finish("purgedA", x0, inbound)
    /\ floor' = Released
    /\ UNCHANGED <<B, wire, cut, recv, edge, dead, past>>

\* The idle interval elapsed, or the disconnect was notified.
Yield ==
    /\ task.pc = "held"
    /\ floor' = Released
    /\ LoopTop(NoEdge)
    /\ UNCHANGED <<B, wire, cut, recv, inbound, edge, dead, ledger, past>>

PulseSeen == task.pulse /\ Yield
-----------------------------------------------------------------------------
(* Computer A: the graph around the channel *)

\* connect.  Ids never repeat; the model uses one again once the task no longer
\* refers to it.
Attach(e) ==
    /\ recv.pc # "gone"
    /\ edge = NoEdge
    /\ e \notin {task.binding, task.holding}
    /\ edge' = e
    /\ dead' = dead \ {e}
    /\ floor' \in {"free", "other"}
    /\ UNCHANGED <<B, wire, cut, A, ledger, past>>

\* disconnect, or remove-node of the endpoint.
Detach(removed) ==
    /\ edge # NoEdge
    /\ dead' = IF removed THEN dead \cup {edge} ELSE dead
    /\ edge' = NoEdge /\ floor' = "free"
    /\ UNCHANGED <<B, wire, cut, A, ledger, past>>

Rival ==
    /\ edge # NoEdge
    /\ \/ floor # "other" /\ floor' = "other"    \* acquires, or steals
       \/ floor = "other" /\ floor' = "free"     \* leaves
    /\ UNCHANGED <<B, wire, cut, A, edge, dead, ledger, past>>
-----------------------------------------------------------------------------
TaskStep == Turn \/ AcquireWakes \/ SendCancelled \/ PulseSeen

LinkNext ==
    \/ Write \/ PurgeResumes \/ NextSend \/ WireWrite \/ SendDrops \/ SendStops
    \/ \E announced \in BOOLEAN : Establish(announced)
    \/ \E n \in 0 .. Len(wire) : Break(n)
    \/ Read \/ ReadLands \/ RecvDrops \/ RecvStops
    \/ TaskStep \/ SendDone \/ SendFails \/ Yield
    \/ \E e \in Edge : Attach(e)
    \/ \E removed \in BOOLEAN : Detach(removed)
    \/ Rival

LinkSpec == LinkInit /\ [][LinkNext]_vars
-----------------------------------------------------------------------------
(* Properties *)

Items(S) == {x.chunk : x \in S}
Received == ToSet(delivered)

\* Every command B's queue took is somewhere on the link, in A's endpoint, on a
\* counter, was lost with a connection, or was in the hands of a read half that
\* was dropped: nothing else may lose one, whatever breaks or stops when.
NoCommandVanishes ==
    1 .. accepted \subseteq
        ToSet(outbox.queue) \cup Hand(send.flight) \cup ToSet(wire)
        \cup Items(Hand(recv.reading) \cup ToSet(inbound.queue) \cup HeldChunk(inbound))
        \cup Received \cup history.onWire \cup history.reader
        \cup UNION {ledger[k] : k \in Counter \ {"wrote"}}

\* No command has two fates.  Only B's teardown may charge again the one command
\* that the lost peer was already charged for.
OneFate ==
    LET atB == ledger.purgedB \cup ledger.peerGone \cup ledger.tornB
        atA == ledger.purgedA \cup ledger.discardedA \cup ledger.tornA
    IN  /\ Received \cap (atA \cup atB) = {} /\ atA \cap atB = {}
        /\ ledger.wrote \cap atB = {}
        /\ ledger.purgedB \cap (ledger.peerGone \cup ledger.tornB) = {}
        /\ \A c, d \in ledger.peerGone \cap ledger.tornB : c = d

\* Commands reach the endpoint in the order they were written, and once, across
\* every reconnect.
DeliveredInOrder ==
    \A i, j \in DOMAIN delivered : i < j => delivered[i] < delivered[j]

\* The sending side's purge: what waited in B's queue through an outage never
\* reaches A's endpoint.
OutageBacklogPurged == Purge => history.stale \cap Received = {}

\* The receiving side's purge: of the commands a dead connection left at A, at
\* most the one whose send raced the disconnect still reaches the endpoint.
LateAtMostOnce ==
    Purge => \A x, y \in history.late : x.epoch = y.epoch => x = y

\* The comment in LegNode::start: the channel task re-reads the live binding per
\* chunk, so that nothing is discarded while an edge is attached.
BindingIsLive == history.missed = {}

\* The channel task runs when it can.
LinkFairness == WF_vars(TaskStep)

LinkFairSpec == LinkSpec /\ LinkFairness

\* The floor is not kept for a vanished peer: it is released, or the peer is
\* back.  Neither the idle interval nor a draining endpoint is needed for it.
FloorYielded ==
    Purge => (floor = "ours" /\ recv.pc = "down" ~> floor # "ours" \/ recv.pc # "down")

\* The ledger of the link: every command is somewhere or has one fate, and of a
\* dead connection's commands at most one is late.
CommandLedger == LinkTypeOK /\ NoCommandVanishes /\ OneFate /\ LateAtMostOnce
=============================================================================
