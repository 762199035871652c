------------------------------ MODULE ExecCodec ------------------------------
(***************************************************************************)
(* The exec codec node (nodes/exec.rs): a child process that translates    *)
(* between a multiplexed device and one channel.  Channel writes and the   *)
(* raw device stream are merged into one queue; supervise spawns the       *)
(* child, pump_child races a half that feeds its stdin from that queue     *)
(* with a half that reads its stdout and routes what it says, and a death  *)
(* faults the node, waits and spawns again.  Edge verbs and teardown come  *)
(* at any time.                                                            *)
(*                                                                         *)
(* A chunk is a number; those of the channel (targetward) are 1, 2, ...,   *)
(* those of the device (hostward) are -1, -2, ....  The child answers each *)
(* chunk it reads with one frame.                                          *)
(***************************************************************************)
EXTENDS Integers, Sequences, SequencesExt, FiniteSets

CONSTANTS
    ExecWrites,   \* bound: chunks written to the channel
    ExecReads,    \* bound: chunks from the device
    MergeCap,     \* CHANNEL_CAP, of the channel's queue and of the merge queue
    PipeCap,      \* depth of the child's pipes
    MaxSpawns,    \* bound: attempts to spawn
    MaxSurgery    \* bound: connects and disconnects

ASSUME ExecAssumption ==
    {ExecWrites, ExecReads, MergeCap, PipeCap, MaxSpawns, MaxSurgery} \subseteq Nat

VARIABLES
    arrived,  \* targetward and hostward chunks that have arrived
    chan,     \* the channel's TargetwardInbox: queue, and the forwarder's chunk
    merge,    \* the merge queue's TargetwardInbox: queue, held chunk and whether
              \* the feed half is writing it; and the mux task's chunk
    kid,      \* the child: alive, its pipes, the chunk it works on
    super,    \* supervise: where it is; child_live
    execNode, \* status, the edge slot, and the bounded verbs so far
    routing,  \* the frame in route_event's hands, 0 for none
    fate      \* counters and history: sets of chunks

execVars == <<arrived, chan, merge, kid, super, execNode, routing, fate>>

NoKid == [alive |-> FALSE, stdin |-> <<>>, stdout |-> <<>>, hand |-> 0]

ExecInit ==
    /\ arrived = [t |-> 0, h |-> 0]
    /\ chan = [queue |-> <<>>, held |-> 0]
    /\ merge = [queue |-> <<>>, held |-> 0, writing |-> FALSE, mux |-> 0]
    /\ kid = NoKid
    /\ super = [at |-> "spawn", live |-> FALSE, spawns |-> 0]
    /\ \E a \in BOOLEAN :
           execNode = [status |-> IF a THEN "active" ELSE "waiting",
                       attached |-> a, surgery |-> 0]
    /\ routing = 0
    \* fed: given to a child; torn: discarded_at_teardown; shed: discarded_targetward;
    \* sent: taken by the device's endpoint; heard: fanned out on the channel;
    \* orphaned: taken up for a child that died, and on no counter.
    /\ fate = [fed |-> {}, torn |-> {}, shed |-> {}, sent |-> {}, heard |-> {},
               orphaned |-> {}]

ExecGone == super.at = "gone"
-----------------------------------------------------------------------------
(* The merge.                                                              *)

\* A writer's chunk enters the channel's queue.
ChannelWrite ==
    /\ ~ExecGone /\ arrived.t < ExecWrites /\ Len(chan.queue) < MergeCap
    /\ arrived' = [arrived EXCEPT !.t = @ + 1]
    /\ chan' = [chan EXCEPT !.queue = Append(@, arrived'.t)]
    /\ UNCHANGED <<merge, kid, super, execNode, routing, fate>>

\* The mux task receives a chunk of the device.
MuxRecv ==
    /\ ~ExecGone /\ arrived.h < ExecReads /\ merge.mux = 0 /\ execNode.attached
    /\ arrived' = [arrived EXCEPT !.h = @ + 1]
    /\ merge' = [merge EXCEPT !.mux = -arrived'.h]
    /\ UNCHANGED <<chan, kid, super, execNode, routing, fate>>

\* The channel's forwarder takes a chunk; it is held until the next recv.
ForwarderRecv ==
    /\ ~ExecGone /\ chan.held = 0 /\ chan.queue # <<>>
    /\ chan' = [queue |-> Tail(chan.queue), held |-> Head(chan.queue)]
    /\ UNCHANGED <<arrived, merge, kid, super, execNode, routing, fate>>

\* A forwarder's send completes, and its loop's next recv settles what it held.
ForwarderSent ==
    /\ ~ExecGone /\ chan.held # 0 /\ Len(merge.queue) < MergeCap
    /\ merge' = [merge EXCEPT !.queue = Append(@, chan.held)]
    /\ chan' = [chan EXCEPT !.held = 0]
    /\ UNCHANGED <<arrived, kid, super, execNode, routing, fate>>

MuxSent ==
    /\ ~ExecGone /\ merge.mux # 0 /\ Len(merge.queue) < MergeCap
    /\ merge' = [merge EXCEPT !.queue = Append(@, merge.mux), !.mux = 0]
    /\ UNCHANGED <<arrived, chan, kid, super, execNode, routing, fate>>
-----------------------------------------------------------------------------
(* supervise.                                                              *)

StatusOf(attached) == IF attached THEN "active" ELSE "waiting"

\* The child is spawned: liveness is published, then the status the edge asks for.
Spawn ==
    /\ super.at = "spawn" /\ super.spawns < MaxSpawns
    /\ super' = [at |-> "pump", live |-> TRUE, spawns |-> super.spawns + 1]
    /\ kid' = [NoKid EXCEPT !.alive = TRUE]
    /\ execNode' = [execNode EXCEPT !.status = StatusOf(execNode.attached)]
    /\ UNCHANGED <<arrived, chan, merge, routing, fate>>

\* The spawn fails.
SpawnFails ==
    /\ super.at = "spawn" /\ super.spawns < MaxSpawns
    /\ super' = [at |-> "backoff", live |-> FALSE, spawns |-> super.spawns + 1]
    /\ execNode' = [execNode EXCEPT !.status = "faulted"]
    /\ UNCHANGED <<arrived, chan, merge, kid, routing, fate>>

\* pump_child's race ends: both halves are dropped, with what route_event was
\* sending; the chunk of the feed stays held in its inbox.
PumpEnds ==
    /\ super' = [super EXCEPT !.at = "kill"]
    /\ merge' = [merge EXCEPT !.writing = FALSE]
    /\ routing' = 0
    /\ fate' = [fate EXCEPT !.orphaned = @ \cup ({routing} \ {0})]

\* The read half finds stdout at its end.
ReadEnds ==
    /\ super.at = "pump" /\ routing = 0 /\ ~kid.alive /\ kid.stdout = <<>>
    /\ PumpEnds
    /\ UNCHANGED <<arrived, chan, kid, execNode>>

\* A child that writes a malformed frame is given up, with the rest of its output.
MalformedFrame ==
    /\ super.at = "pump" /\ routing = 0 /\ kid.stdout # <<>>
    /\ PumpEnds
    /\ UNCHANGED <<arrived, chan, kid, execNode>>

\* The feed half's write meets a broken pipe.
FeedEnds ==
    /\ super.at = "pump" /\ merge.writing /\ ~kid.alive
    /\ PumpEnds
    /\ UNCHANGED <<arrived, chan, kid, execNode>>

\* The child is reaped: only now is it not live, and the node faulted.
Reaped ==
    /\ super.at = "kill"
    /\ kid' = NoKid
    /\ super' = [super EXCEPT !.at = "backoff", !.live = FALSE]
    /\ execNode' = [execNode EXCEPT !.status = "faulted"]
    /\ UNCHANGED <<arrived, chan, merge, routing, fate>>

BackoffEnds ==
    /\ super.at = "backoff"
    /\ super' = [super EXCEPT !.at = "spawn"]
    /\ UNCHANGED <<arrived, chan, merge, kid, execNode, routing, fate>>
-----------------------------------------------------------------------------
(* pump_child: the two halves, each polled on its own.                     *)

\* The feed half begins: its first recv settles what the child before it died on.
FeedBegins ==
    /\ super.at = "pump" /\ merge.held # 0 /\ ~merge.writing
    /\ merge' = [merge EXCEPT !.held = 0]
    /\ fate' = [fate EXCEPT !.orphaned = @ \cup {merge.held}]
    /\ UNCHANGED <<arrived, chan, kid, super, execNode, routing>>

FeedRecv ==
    /\ super.at = "pump" /\ merge.held = 0 /\ merge.queue # <<>>
    /\ merge' = [merge EXCEPT !.queue = Tail(@), !.held = Head(merge.queue),
                              !.writing = TRUE]
    /\ UNCHANGED <<arrived, chan, kid, super, execNode, routing, fate>>

\* The chunk in hand is written to stdin, and the loop's next recv settles it.
FeedWrites ==
    /\ super.at = "pump" /\ merge.writing
    /\ kid.alive /\ Len(kid.stdin) < PipeCap
    /\ kid' = [kid EXCEPT !.stdin = Append(@, merge.held)]
    /\ fate' = [fate EXCEPT !.fed = @ \cup {merge.held}]
    /\ merge' = [merge EXCEPT !.held = 0, !.writing = FALSE]
    /\ UNCHANGED <<arrived, chan, super, execNode, routing>>

\* One select! loop over both: nothing is read while a chunk is being written.
ReadsWhenIdle == super.at = "pump" /\ routing = 0 /\ ~merge.writing

\* The read half is polled whatever the feed half is doing.
Reads == super.at = "pump" /\ routing = 0

\* The read half takes a frame: a channel's is fanned out; a mux one is sent to
\* the device, or charged when no edge takes it.
RouteEvent ==
    /\ Reads /\ kid.stdout # <<>>
    /\ kid' = [kid EXCEPT !.stdout = Tail(@)]
    /\ LET f == Head(kid.stdout) IN
       CASE f < 0 -> /\ fate' = [fate EXCEPT !.heard = @ \cup {f}]
                     /\ UNCHANGED routing
         [] f > 0 /\ execNode.attached -> routing' = f /\ UNCHANGED fate
         [] OTHER -> /\ fate' = [fate EXCEPT !.shed = @ \cup {f}]
                     /\ UNCHANGED routing
    /\ UNCHANGED <<arrived, chan, merge, super, execNode>>

\* forward_targetward ends: the device's endpoint took the chunk, or is gone.
Forwarded(taken) ==
    /\ super.at = "pump" /\ routing # 0
    /\ routing' = 0
    /\ fate' = IF taken THEN [fate EXCEPT !.sent = @ \cup {routing}]
               ELSE [fate EXCEPT !.shed = @ \cup {routing}]
    /\ UNCHANGED <<arrived, chan, merge, kid, super, execNode>>
-----------------------------------------------------------------------------
(* The child, which reads, translates and writes in one loop.              *)

KidReads ==
    /\ kid.alive /\ kid.hand = 0 /\ kid.stdin # <<>>
    /\ kid' = [kid EXCEPT !.hand = Head(kid.stdin), !.stdin = Tail(@)]
    /\ UNCHANGED <<arrived, chan, merge, super, execNode, routing, fate>>

KidWrites ==
    /\ kid.alive /\ kid.hand # 0 /\ Len(kid.stdout) < PipeCap
    /\ kid' = [kid EXCEPT !.stdout = Append(@, kid.hand), !.hand = 0]
    /\ UNCHANGED <<arrived, chan, merge, super, execNode, routing, fate>>

\* It dies; what it wrote can still be read.
KidDies ==
    /\ kid.alive
    /\ kid' = [kid EXCEPT !.alive = FALSE, !.stdin = <<>>, !.hand = 0]
    /\ UNCHANGED <<arrived, chan, merge, super, execNode, routing, fate>>
-----------------------------------------------------------------------------
(* Verbs.                                                                  *)

\* The stamp put on a node whose child is dead, too.
RestampedAlways(node, live) == [node EXCEPT !.status = StatusOf(node.attached)]

\* set_upstream_attached: only a live child's status is the edge's to decide.
Restamped(node, live) ==
    IF live THEN [node EXCEPT !.status = StatusOf(node.attached)] ELSE node

EdgeVerb ==
    /\ ~ExecGone /\ execNode.surgery < MaxSurgery
    /\ execNode' = Restamped([execNode EXCEPT !.attached = ~@, !.surgery = @ + 1],
                             super.live)
    /\ UNCHANGED <<arrived, chan, merge, kid, super, routing, fate>>

\* FeedItem::teardown_bytes: the raw device stream is not targetward loss.
TeardownBytes(items) == {c \in items : c > 0}

\* signal_stop: charge what the watched queues hold, and abort every task; the
\* child is killed as its handle drops.
ExecTeardown ==
    /\ ~ExecGone
    /\ fate' = [fate EXCEPT
           !.torn = TeardownBytes(ToSet(chan.queue) \cup {chan.held}
                                  \cup ToSet(merge.queue) \cup {merge.held}),
           !.orphaned = @ \cup ({routing} \ {0})]
    /\ chan' = [queue |-> <<>>, held |-> 0]
    /\ merge' = [queue |-> <<>>, held |-> 0, writing |-> FALSE, mux |-> 0]
    /\ kid' = NoKid
    /\ super' = [super EXCEPT !.at = "gone", !.live = FALSE]
    /\ routing' = 0
    /\ UNCHANGED <<arrived, execNode>>

ExecNext ==
    \/ ChannelWrite \/ MuxRecv \/ ForwarderRecv \/ ForwarderSent \/ MuxSent
    \/ Spawn \/ SpawnFails \/ ReadEnds \/ MalformedFrame \/ FeedEnds \/ Reaped \/ BackoffEnds
    \/ FeedBegins \/ FeedRecv \/ FeedWrites \/ RouteEvent
    \/ \E b \in BOOLEAN : Forwarded(b)
    \/ KidReads \/ KidWrites \/ KidDies
    \/ EdgeVerb \/ ExecTeardown

ExecSpec == ExecInit /\ [][ExecNext]_execVars

\* The tasks and the two halves are polled, the child runs its loop, its spawn
\* succeeds at last, and the device's endpoint takes what it is sent or goes away.
\* Nobody is assumed to write, to kill the child or to use a verb.
ExecFairness ==
    /\ WF_execVars(ForwarderRecv) /\ WF_execVars(ForwarderSent) /\ WF_execVars(MuxSent)
    /\ WF_execVars(Spawn) /\ WF_execVars(ReadEnds) /\ WF_execVars(FeedEnds)
    /\ WF_execVars(Reaped) /\ WF_execVars(BackoffEnds)
    /\ WF_execVars(FeedBegins) /\ WF_execVars(FeedRecv) /\ WF_execVars(FeedWrites)
    /\ WF_execVars(RouteEvent) /\ WF_execVars(\E b \in BOOLEAN : Forwarded(b))
    /\ WF_execVars(KidReads) /\ WF_execVars(KidWrites)
-----------------------------------------------------------------------------
(* Properties.                                                             *)

ExecTypeOK ==
    /\ super.at \in {"spawn", "pump", "kill", "backoff", "gone"}
    /\ Len(chan.queue) <= MergeCap /\ Len(merge.queue) <= MergeCap
    /\ Len(kid.stdin) <= PipeCap /\ Len(kid.stdout) <= PipeCap

\* The places a targetward chunk can be on its way to the child.
Upstream == <<ToSet(chan.queue), {chan.held} \ {0}, ToSet(merge.queue),
              {merge.held} \ {0}, fate.fed, fate.torn,
              fate.orphaned \ fate.fed>>

\* Every chunk written to the channel is in exactly one place on its way to the
\* child: queued, in hand, given to a child, charged by teardown, or in the hands
\* of a child that died; and no hostward chunk is charged as targetward loss.
ExecCustody ==
    /\ \A c \in 1..arrived.t :
           Cardinality({i \in DOMAIN Upstream : c \in Upstream[i]}) = 1
    /\ \A c \in fate.torn \cup fate.shed \cup fate.sent : c > 0
    /\ fate.shed \cap fate.sent = {}

\* While a child runs the status is the edge's, and until there is one again it
\* is a fault, whichever of connect, disconnect and the supervisor came last.
ExecStatusHonest ==
    /\ super.at = "pump" => execNode.status = StatusOf(execNode.attached)
    /\ super.at = "backoff" => execNode.status = "faulted"

\* A chunk is in one place or has one fate, wherever the child's death or the
\* teardown lands, and the status tells the truth about child and edge.
ExecSound == ExecTypeOK /\ ExecCustody /\ ExecStatusHonest

\* Neither pipe can wedge the node: a chunk the feed half has in hand reaches the
\* child, though the child reads no more until its own output is read, unless
\* the child dies, breaks the protocol or the node is torn down.
PipesNeverWedge ==
    merge.writing ~> ~merge.writing
=============================================================================
