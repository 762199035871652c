# Serial Nexus in TLA+

Serial Nexus is a daemon that multiplexes serial ports. Its configuration is a
graph: serial ports on one side, pseudo-terminals, logs, taps and links to other
computers on the other, codecs and maps in between. Bytes flow *hostward* (from
the device, fanned out to everybody, droppable) and *targetward* (towards the
device, arbitrated by a write lock, backpressured and accounted for). This
project models both planes and the state the control plane keeps: who may write,
what becomes of every chunk in either direction, who owns the port, and what the
daemon remembers after it dies. That is where the code promises the most and
where a test reaches the least, because the interesting cases are a disconnect, a
teardown, a loss, a steal or a death that lands on one particular `await` or
system call.

Paths below are relative to the repository's root.

## 1. The system

### 1.1 Components, their state and operations

| Component | Source | State | Operations | Module |
|---|---|---|---|---|
| Endpoint write lock | `core/src/lock.rs` | origins and their modes, holder, FIFO queue, grant generation, purge counts | register, unregister, acquire, enqueue, dequeue, steal, reclaim_held, release, renew, record_purge | EndpointLock |
| Write arbitration | `daemon/src/runtime.rs` (LockCell, await_grant, wait_for_grant, reacquire_held), `daemon/src/daemon.rs` | the lock behind a `Notify`, a closed flag, lease timers, in-flight verbs | lock, lock --wait, --steal, --lease, unlock, send, connect, disconnect, remove-node, teardown | WriteArbitration |
| Targetward inbox | `daemon/src/runtime.rs` (TargetwardInbox) | a bounded channel in a slot, the length of the chunk in the pump's hands | recv, settle_held, purge_to_quiescence, drain_and_count | TargetwardInbox |
| Serial node | `daemon/src/nodes/serial.rs`, `boundary.rs` | device open or lost, reader thread, the port and its claim, line signals | active_step, wait_for_port, reopen, arm, signal_stop, join, send-break, pulse-dtr, set-modem | SerialTargetward, SerialPort |
| Interior pumps | `daemon/src/nodes/map.rs`, `nodes/codec.rs`, EdgeSlot and forward_targetward of `runtime.rs` | one pump per host-facing endpoint, one edge slot | receive, wait for an edge, wait for the floor, frame and send | InteriorPump |
| Leg node | `daemon/src/nodes/leg.rs` | socket, handshake, per-channel queues, disconnect epoch | establish, pump (read and write half), channel_targetward, idle release, purge | LegLink |
| Hostward fan-out | `daemon/src/runtime.rs` (SharedFanOut, EdgeInbox) | sinks and their drop counters | fan_out, attach_edge, drain | Hostward |
| Tap hub | `daemon/src/tap.rs`, `pattern.rs` | feed, replay ring, taps, waits | mirror, ingest, attach, wait, detach, orphan | TapHub |
| Log node | `daemon/src/nodes/log.rs` | bounded queue, writer thread, directory | enqueue, write, rotate, stop, join | LogNode |
| Pty node | `daemon/src/nodes/pty.rs` | presence, pending chunk, reader and writer | read_and_poll, last close, write | PtyNode |
| Exec codec | `daemon/src/nodes/exec.rs` | child process, backoff, merge queue | spawn, feed, read, route, restart | ExecCodec |
| Graph verbs and validation | `daemon/src/daemon.rs`, `core/src/graph.rs`, `config.rs` | nodes, edges, five wiring maps | load, add-node, remove-node, connect, disconnect, teardown | GraphVerbs |
| Snapshot, control server | `daemon/src/daemon.rs`, `control.rs`, `lib.rs` | the state file, requests in flight | dispatch, snapshot_config, atomic_write, cancel on EOF, startup load | ConfigStore |
| Map rules, framing, resolver | `core/src/*.rs`, `codec-api`, `codecs/` | none | rewrite, encode, match devices | (section 6) |
| Clients and tools | `rpc`, `ctl`, `web`, `doctor`, `devprep`, `sim`, `itest`, `sys` | their own | I/O around the verbs | (section 6) |

### 1.2 How they interact

A writer (a pty, an interior pump, a leg channel, the `send` verb) is an *origin*
registered on the lock of one host-facing endpoint. It takes the lock, then sends
its chunk into that endpoint's `TargetwardInbox`; a full inbox suspends it. The
node that owns the endpoint drains the inbox: a serial node writes to the device,
an interior node frames or rewrites and forwards through its own upstream edge
(where it is itself an origin, usually in `held` mode), an exec codec feeds its
child, a leg writes frames to its peer.

In the other direction the node that produces bytes broadcasts each chunk over
the sinks of its endpoint with `try_send`, counting what does not fit, and
mirrors it into the endpoint's tap hub. Each consumer (interior node, pty, log,
leg) has a pump that takes the edges connected to it from an edge inbox and
drains them one after the other.

Control verbs fill and clear edges, steal and release locks, and build and remove
nodes under the running tasks; a removed node drains and counts its inbox and
aborts its pumps. After a verb that changed the configuration, dispatch writes a
snapshot, from which the next daemon starts.

The data plane runs on one thread. A task runs undisturbed from one `await` to
the next, and everything else may happen at the `await`. Real threads exist only
at the boundary (a serial port's reader, a pty's and a log's writers), and other
processes beyond it: the exec child, a pty's clients, the peer of a leg. A parked
task waits on a `Notify` whose `notify_waiters` stores no permit.

### 1.3 What is hard, and what makes each part correct

* **Lost wake-ups and mutual denial.** Two rules (held origins first, then
  FIFO) decide who takes a free lock, and a parked waiter depends on every
  release, cancel, detach, steal and close to notify. Correct: whoever could
  settle is never asleep; on a free lock somebody is grantable; the queue has no
  ghosts.
* **Stale authority.** Lease timers outlive grants, pumps keep the sender of an
  edge that was disconnected, a leg task keeps a binding over an `await`, a line
  signal outlives the port it was raised on, an aborted supervisor still owns a
  descriptor. Correct: a lease releases only its own grant; at most the one piece
  already in a send reaches a departed edge; a stale verb or a late drop leaves
  the successor's port alone.
* **Custody.** A chunk leaves its queue before it is written, and a teardown, a
  death or a full queue may come in between. Correct: every chunk is somewhere or
  on a counter, and on one.
* **Purge on reconnect and on last close.** What was sent during an outage, or
  typed by a session that ended, must not fire afterwards, although senders may
  be suspended with an old chunk in hand.
* **Holes in a lossy stream.** A tap joins the replay ring to the live stream, and
  a pattern wait scans a window. Correct: offsets and gaps add up, a timeout is
  never wrong, the counters of a fan-out are exact per consumer.
* **Two ends of a link** learn of a break at different times. Correct: commands
  arrive in order, at most once, and nothing disappears without a name for it.
* **Death between two steps.** The daemon or the machine may die between two
  system calls of a snapshot, or of a log rotation. Correct: what was answered
  survives; no rotated file is overwritten.
* **Liveness.** Robbed pumps get the lock back, queued waiters are served, a
  closed endpoint ends every wait, a full queue does not suspend a sender
  forever, a floor is not kept for a vanished peer, a lost device is reopened, two
  full pipes do not wedge an exec codec, a parked writer wakes, a session that
  ends gives up its lock.

`PROJECT.json` lists these as hazards at the line where each bites, with the
properties that cover it.

## 2. Modules

```
EndpointLock ----> WriteArbitration ----> WaitOrder (with a history of who waits)
TargetwardInbox -+--> SerialTargetward, which implements Station (INSTANCE ... WITH)
                 +--> InteriorPump
                 +--> LegLink
Hostward   TapHub   SerialPort   PtyNode   LogNode   ExecCodec   GraphVerbs   ConfigStore

WriteArbitrationProofs   EndpointLock, WriteArbitration, WaitOrder
TargetwardInboxProofs -+--> SerialNodeProofs   SerialTargetward and Station, SerialPort
                       +--> InnerNodesProofs   InteriorPump, ExecCodec, LogNode
                       +--> LegLinkProofs      LegLink
HostwardPathProofs       Hostward, TapHub
PtyNodeProofs, ConfigStoreProofs

MCWriteArbitration   WriteArbitration
MCWaitOrder          MCWriteArbitration, WaitOrder
MCSerialNode         SerialTargetward, SerialPort
MCInnerNodes         InteriorPump, ExecCodec, LogNode
MCHostwardPath       Hostward, TapHub
MCDaemon             EndpointLock, GraphVerbs, ConfigStore
MCPtyNode, MCLegLink
```

An MC module of several components is their *sum*: a variable (`half`, `nodeIs`,
`path`, `keeps`) says which of them a behaviour is about, and the others stand
still. The components put together this way share no state, so each one's full
state space is explored and their product is not.

In every specification an action is what one task or thread does between two
points where another may run: two awaits, two critical sections, or two system
calls. `Mutant of X` definitions are plausible bugs, used to see that a property
notices them; no specification uses them. A history variable, or a field said to
be one, is never read by a guard of the code's own actions.

### EndpointLock: the pure state machine

`lock` is the Rust struct: modes and purge counts per origin, holder, queue,
wrapping generation, last steal. The operations are operators from lock states to
lock states (`Register`, `Unregister`, `Acquire`, `Enqueue`, `Dequeue`, `Steal`,
`ReclaimHeld`, `Release`, `Renew`, `RecordPurge`), because a handler makes
several of them in one critical section. `Spec` lets anybody call anything in any
order, except that `enqueue` follows a denied `acquire` and a registered id is not
registered again, which is all that the callers guarantee.

### WriteArbitration: the lock in the running daemon

Adds the cell's `closed` flag, the edge each target is registered under, what
each control connection and each pump is doing, and the armed lease timers. Three
kinds of waiting are told apart, because they settle differently (`Settles`):
`wait_for_grant` (lock --wait, send), `reacquire_held` (a robbed held pump) and
the leg's `ensure_acquired`. `Wake` is `notify_waiters`: it wakes whoever is
parked and leaves nothing for later; a woken task re-attempts in `Resume`, in any
order with other tasks. `Abandon` is a deadline, a cancelled request or a client
that went away: the guards' `drop` code runs. `LeaseFires` compares the
generation it was armed with. `Connect`, `Disconnect`, `RemoveHost` and `Teardown`
are the graph verbs as they act on one endpoint (`remove-node --cascade` is
disconnects followed by `RemoveHost`).

Ids are minted from counters that never repeat. The model reuses an id once
nothing refers to it, which no task can tell from a new one. The generation is 64
bits wide: the model does not let it wrap while a lease timer is armed
(`SetLock`), and lets it wrap otherwise.

`WaitOrder` adds the history variable `ahead`: for each waiting verb, the origins
that were queued when it queued and have stayed queued since. It constrains
nothing. `NoOvertaking` is stated with it: what it compares with is who was there
first, not what the lock's own rule says of the queue at the moment of the grant.

### TargetwardInbox: the bounded queue and its ledger

An inbox is the queue, the chunk the pump holds, and the senders: suspended
without a permit, or granted one and not yet polled. This is tokio's channel as
the code uses it (marked external): a permit freed by `recv` goes to the sender
that waited longest; a closed channel refuses even a sender with a permit.
`PollRecv`, `SettleHeld`, `Drain` (one purge round) and `DrainAndCount` are the
code's own.

### Station: what a forwarder promises

The abstract specification: a store that takes chunks in while it is open, works
on one at a time in the order it took them, and for each delivers it, drops it in
its own delivery, or charges it. Charging takes everything that has not been
begun, by a purge or by the final stop, which takes the chunk in work too. It has
no supervisor, no permits, no rounds.

### SerialTargetward: queue, supervisor, device

The supervisor is `active` (in `select!` between loss and recv), `writing`,
`waiting` for the device, `purging`, or `gone`. `ReaderLost` is the reader
thread's pulse at any moment; write errors, losses and reopens are the
environment's. `Reopen` runs the first purge round; `PurgeResumes` continues
after `yield_now`, which returns only after the granted senders were polled.
`Reopen` also requires that no granted sender is unpolled: the supervisor slept
`RECONNECT_POLL` (a second) before. `SignalStop` is enabled everywhere, as the
abort is. Two branches of the code have no action: `Step::WriterClosed` (the
daemon itself keeps a sender) and the generation check in `reopen` (the teardown
that changes it aborts the task first; SerialPort has it).

It implements `Station` with `open <- inbox.open`, `pending <- inbox.queue`,
`hand <-` the chunk being written, `delivered <- written`, `dropped <- failed` and
`charged <- purged \cup torn`. A purge round is one `Purge`, the teardown is `Stop`; a write that lost
its device and one that ended in an error are both `Drop`; supervisor moves that
touch no chunk, and everything suspended senders do before they land, stutter.

### SerialPort: the port, its claim and its lines

The tty outlives the descriptors on it: an attachment number (`epoch`), the
exclusive flag, break and DTR. `ports` are the ExclusivePorts ever opened, each
with the epoch it is open on and its `claimed` flag. A port is referred to by the
node, by the supervisor's frame and by `ghosts`: futures of aborted supervisors,
whose drop code runs only when the LocalSet runs again, in particular after a
successor claimed the same tty. `Lost`, `ReopenPort` with its generation check,
`Rearm`, `RemoveNode`, `ReplaceNode` and the late `FutureDropped` are separate
actions, and every open and arm may fail. A line verb takes a lease on the port's generation, raises
the line, awaits, and restores it in a guard; the history field `port` of its hold
is the port it raised the line on, which the code does not keep: the generation
stands for it. `set-modem` is atomic. Unplug and
replug come at any time. The arm, signal and join of the boundary toolkit
(`boundary.rs`) appear here as the reader thread's life.

### InteriorPump: map and codec pumps behind one edge

The pumps of one node: each takes a chunk from its inbox, waits for an edge
(`edge`), for the floor (`gate`), and sends each piece upstream (`sending`, always
modelled as suspended, which contains the immediate case). A map's rewrite may
delete a chunk (`Deleted`), a codec fragments (`Pieces`) and may refuse to frame
(`Refused`); the run is the union of both nodes' behaviours. `slot` and `floor`
abstract the upstream lock of WriteArbitration to what a held origin sees.

### ExecCodec: a child process between two queues

Channel writes (positive numbers) and the device's raw stream (negative) pass
the channel's queue and the merge queue to the feed half, the child's stdin, the
child (one answer per chunk), its stdout, the read half and `route_event`. The
halves are raced in `pump_child`: whichever ends first ends both, and the node
goes through kill, reap, fault, backoff and spawn. `KidDies` and `MalformedFrame`
come at any time, a spawn may fail, edges come and go (and with them the status),
`ExecTeardown` lands anywhere.

### LegLink: one channel between two computers

Commands written on computer B (numbered in the order they are accepted) go
through B's outbox, the pump's custody slot, the wire, A's read half, A's queue
of commands tagged with the disconnect epoch, and A's channel task, which takes
the on-demand lock. `Break(n)` cuts the connection and loses an arbitrary suffix
of the wire; a write on a broken connection may still succeed into the socket
buffer. Each end notices on its own (`SendDrops`, `RecvDrops`); a handshake may
succeed at one end only; A accepts a new peer only after it knows that the old one
is gone. Unbiased `select!` is nondeterminism.

### Hostward: fan-out over a list that changes

The producer is a thread. It looks whether anybody wants the chunk, takes the
list's mutex later, and sends to one sink per step, so that pumps drain and
consumers leave between two sends, while `connect` and `disconnect` wait for the
mutex (`MutexFree`). `connect` hands the receiver to the consumer's edge inbox
*before* it adds the sink, and refuses if the inbox is full of edges not yet
drained. A pump finishes an old edge's tail before it takes the next. Losses go
to the endpoint's `full` counter, or to `unattached` when nobody was there.

### TapHub: the lossy observer

The producer mirrors a byte into the feed, whose `active` and `dropped`
atomics it reads and writes one by one; the hub ingests on the runtime thread.
The bytes of the stream are numbered, so a joined window or a wrong offset shows;
the pattern (an odd byte directly followed by the next one) occurs at every odd
place. Taps have a bounded queue and a lane for the terminal message; a wait has
its window, its gap, the credit for losses that preceded it, its deadline, its
connection and its registration, all of which may end it.

### PtyNode: sessions around a polling reader

One pass of `read_and_poll` is broken into the steps at which clients and the
writer thread can intervene: `Pass`, `Drain`, `Presence`, `LastClose`, `Residual`,
`Reserve`. The kernel keeps typed and unread data across a last close and reports
line changes as control packets, the node's own included. Verbs on the edge and
the lock run between passes, because a pass holds the runtime thread. Bound: a
behaviour has traffic one way (the two directions share only the client's
presence).

### LogNode: the queue, the thread, the directory

Generations of one node over one directory: each has its queue, its writer
thread and its counters. The directory maps names to inodes, so that a rename
over an existing name is visible. `Ingest` and `RequestRotate` are the pump's and
the verb's critical sections, `WriterTop` takes a batch, `WriteItem`, `RenameItem`
and `ReopenItem` write and rotate (each may fail), `SignalLogStop` and
`TeardownLog` are the two phases of teardown, and `LogCrash` kills everything but
the directory. `LogWedges` lets a
writer outlive its node's wait.

### GraphVerbs: five maps and one configuration

Each verb validates (`Validates`: endpoints that exist and face each other, one
edge per target endpoint, a codec's modes, one held edge per host endpoint, and
the depth-first cycle search of `graph.rs`) and
then changes the configuration and the maps as the code does, in its order. A
`connect` refused for a full edge inbox has spent its origin id
(`ConnectInboxFull`), and a `load --replace` that cannot make a node has torn the
old graph down (`LoadAborts`). What
a map holds is a handle on an object of one *build* of a node, so that a stale
handle is one whose build is not the running one. The cycle search is the code's
recursive one; the invariant compares its verdicts with `Acyclic`, which says
what a cycle is without a search.

### ConfigStore: what survives

`atomic_write` is five system calls, with death (`Killed`: the page cache
survives; `PowerLoss`: unsynced bytes and unsynced renames may not) and one
failing call between any two. A verb that creates listeners waits at the barrier,
where its client may hang up; others run to their snapshot. A failing call is
logged and forgotten, and one of the directory's sync is not even logged
(`daemon/src/daemon.rs:2974-2976`): either way the verb is answered, and `behind`
records that what was answered may not survive. A daemon that starts
loads the state file or, if it is unreadable, comes up without.

## 3. Runs

| Run | Instance | States, time | Properties |
|---|---|---|---|
| `arbitration` | 2 connections, two edges at a time among a held codec, an on-demand pty and a leg channel, 2 sends, 2 lease timers, generations mod 4; symmetry, `VIEW` | 278 000, 65 s | ArbSound, NoLostWakeup, QueueIsServed, LeaseReleasesOwnGrant |
| `arbitration_liveness` | the same, one connection, 1 send, no timers, with the history `ahead` | 22 000, 28 s | NoOvertaking, WaiterServed, HeldReclaims, CloseEndsWaits |
| `serial_node` | 2 senders, 2 chunks and 2 empty ones, capacity 2, 3 purge rounds; 2 line verbs, 2 opens, 2 nodes, 3 generations, 1 replug | 401 000, 110 s | NothingVanishes, ChargedOnce, StaleNeverWritten, ForwardsInOrder, BackpressureEnds; PortSound, BreakHolds, LineVerbKeepsToPort, Reconnects |
| `inner_nodes` | 2 pumps, 3 chunks of 2 pieces, 3 edges to 2 nodes; exec: 2 writes, 2 reads, queues and pipes of 1, 3 spawns, 2 edge verbs; log: queue of 2 bytes, chunks of 1 and 2 bytes, 2 generations, 2 rotations | 711 000, 125 s | PumpLedger, NoLostEdgeWakeup; ExecSound, PipesNeverWedge; LogSound, RotationNeverReplaced, WriterWakes |
| `leg_link` | 3 commands, 2 broken connections, 2 purge rounds, 2 edges | 269 000, 21 s | CommandLedger, DeliveredInOrder, OutageBacklogPurged, FloorYielded |
| `hostward_path` | 2 consumers, 3 edges, 2 chunks, depth 1, edge inbox 2; 1 tap, 2 waits, 4 bytes, feed 1, ring 2, tap queue 1, 1 armed wait at most, lookback 2 | 2 200 000, 42 s | HostwardSound, ConfiguredEdgeHeard; TapSound, WaitSound |
| `pty_node` | 2 sessions, 2 chunks, 1 verb, capacities 1 | 2 770 000, 130 s | PtySound, StaleInputNeverFires, DetachReleases |
| `daemon_state` | lock: 3 origins, any modes, generations mod 3; graph: a serial, a map, a codec, a pty, 4 builds, 3 edge ids, a legal and a cyclic file to load; store: 2 connections, 3 mutations, 2 deaths, 1 I/O failure | 149 000, 90 s | LockSound, QueueOrderKept, GenerationMarksGrants; GraphSound; StoreSound |
| `config_dropped_snapshot`, `tap_wait_hole`, `leg_stale_binding`, `detach_sheds` | the same modules | | the disagreements of section 5 |

The `...Sound` and `...Ledger` properties are conjunctions of named parts, each
with its own comment in the module:

* `LockSound`: TypeOK, HolderSound, QueueSound, NoMutualDenial. `ArbSound`:
  ArbTypeOK, NoPhantomOrigin (every registered origin has an edge or a verb that
  will unregister it), SendKeepsItsPlace.
* `PumpLedger`: every piece is pending, delivered or charged, once; a
  disconnected edge gets at most the piece that was in its send. `CommandLedger`:
  the same for commands across the link, at most one late.
* `HostwardSound`: per consumer, what was broadcast to its live sinks is
  received, buffered or on its counter, exactly, and received in order across
  reconnects. `ConfiguredEdgeHeard`: no configured edge is hostward-dead.
* `TapSound`: the feed's loss counter and the hub's offset agree with the stream,
  the producer mirrors while somebody observes, replay joins the live stream
  without repetition or hole, a tap's gaps add up, the end is told. `WaitSound`:
  no timeout when the pattern was observed, a gap is the loss of the wait's own
  time, an armed wait has a verb that will disarm it.
* `PortSound`: the tty is claimed exactly while the node has a port on it, no
  break is left standing, a lease has a holder, the reader's descriptor outlives
  the reader.
* `PtySound`: typed input and device output are each in the kernel, in a hand,
  delivered or counted once; the last-close handler does not wake itself.
* `LogSound`: bytes in files, dropped, queued and in the batch add up; files are
  in order; a rotation cuts where it was asked for and none promised is
  forgotten.
* `ExecSound`: a chunk is in one place or has one fate; the status agrees with
  the child and the edge, whichever of connect, disconnect and the supervisor
  came last.
* `GraphSound`: the running graph is acyclic, and locks, fan-outs, slots and
  origin ids are exactly those of the configured edges on the running builds.
* `StoreSound`: wherever the daemon dies, the next one loads a whole file with
  what was answered (power loss and failed snapshots included as far as the code
  can help).

Why the bounds are enough. The lock's rules relate at most a holder, a queue head
and one more origin, so three origins meet every case; its invariants are also
proved for any number. `arbitration` has up to four origins at once (two edges of
every pair of kinds, two sends), one more than the rules relate. Two timers are the
least that can disagree about one grant, and 4 generations let it be renewed or
taken again while both are armed. The generation may not wrap while a timer is
armed, which would look like a wait that never ends, so `arbitration_liveness`
has no timers. It has one connection, because two that wait for one origin share
its place (`ParkedIsQueued`, section 5), and then `WaiterServed` fails; the send's
rivals there are the codec, the leg's channel, which queues, leaves and comes back,
and grants to the pty. In
`serial_node` two senders make a permit change hands during a purge, and three
rounds with capacity 2 put both within the purge's reach: `StaleNeverWritten` says
what the code's constants provide, for `Sender <= (PURGE_ROUNDS - 1) * capacity`.
The empty chunks are there for purge rounds that measure progress in bytes. Two
opens, two nodes and three generations let a verb, a ghost and a successor be on
three different ports. Two edges to one node and one to another tell a reconnect
from a re-homing. Pipes and queues of 1 make both directions of the exec codec
full at once; three spawns let a chunk meet two deaths. A log queue of 2 bytes
refuses a chunk, admits another, and holds a rotation between them. In `leg_link`
two breaks let a command survive one connection and meet the second, and three
commands let one be behind and one ahead of it. An edge inbox of 2 is full when a
third edge of one consumer comes. A ring of 2, a feed of 1 and 4 bytes let replay,
feed loss and queue loss fall in one tap's time. Two sessions are the least for
which one can inherit the other's input. Two deaths let a power loss follow a
kill. `stolen` and `purged` are only reported, never read, so `arbitration`
ignores them (`VIEW`); `daemon_state` does not.

Deadlock is not checked: a closed endpoint, a removed node, a dead daemon and
spent bounds are ends. That nobody waits for good is what the liveness properties
say.

### Fairness

* `ArbFairness`: the executor polls every woken task (`WF` of `Resume`), and a
  `send` has a deadline (`WF` of its `Abandon`). Nobody is assumed to unlock,
  disconnect or drain; where a property needs steals to cease or the lock to
  become free again and again, it says so itself.
* `SerFairness`: the supervisor runs when it can, and so do senders with a permit
  or on a closed channel. That writes end and that a lost device comes back are
  premises of `BackpressureEnds`, not fairness.
* `PortFairness`: the supervisor runs, and the reader thread notices a loss. That
  an open succeeds is not assumed: `Reconnects` ends with the bound on opens.
* `ExecFairness`: the tasks and both halves are polled, the child runs its loop, a
  spawn that is tried again and again succeeds, a send upstream ends. Nobody is assumed to die, to connect or to break the
  protocol.
* `LogFairness`: a writer thread that was notified runs. `PtyFairness`: the reader
  task goes on polling; no client and no verb is assumed to do anything.
* `LinkFairness`: the channel task runs when it can. Its idle timer and a draining
  endpoint are not assumed: `FloorYielded` must follow from the disconnect alone.

The other specifications state no fairness, and nothing live is claimed of them.

## 4. Proofs

Eight modules hold proofs about every component module except GraphVerbs. They hold for every value of the constants that meets the `ASSUME`s of the
modules, where a run has two or three of everything. What the assumptions say, and
why the code justifies it:

* A sentinel (`NoOrigin`, `NoChunk`, `NoEdge`, `NoFile`, `Torn`, and `NoChunk`
  among the leg's tagged items) is none of the values it stands beside: the code
  has `Option` or an error there. `Current`, the name of a log being written, is
  no rotation number: a rotated file has a suffix. Bounds of the model are numbers.
* `GenModulus > 1`: of width 1 every grant would look like the last. The code has
  2^64.
* The capacities of channels (`Cap`, `EdgeDepth`, `EdgeInboxCap`, `FeedCap`,
  `TapQueueCap`, `EndpointCap`, `BridgeCap`), `Lookback` and `PurgeRounds` are at
  least 1: tokio refuses a channel of capacity 0, and the others are constants of
  the code. Of the exec codec's queues and pipes not even that is needed.
* `SenderAssumption`: the tasks that send into one queue are finitely many. Each
  is a task of the process.
* `IdAssumption`: edge ids and send ids are disjoint. Sends count from
  `SEND_ORIGIN_BASE`, far above any edge (`daemon/src/daemon.rs`).
* `HeldPumpAssumption`: a codec's pump, which reclaims and never queues, is behind
  a `held` or a `never` edge wherever the lock arbitrates. `validate` refuses any
  other graph (`core/src/config.rs:518-541`). `NoLostWakeup` needs it: an
  on-demand pump would park for a grant that nobody gives.

**The lock** (`WriteArbitrationProofs`). The inductive invariant `LockInv` is TypeOK,
HolderSoundIn and QueueSoundIn together. None of the three is inductive alone: a
grant takes its id out of the queue, which removes every copy only because there is
one; a release leaves no waiter behind because the holder was not among them; a
held origin that registers on a free lock cannot already be queued because queued
origins are registered. One lemma per operation shows that it preserves LockInv;
`Without`, the queue's `retain`, has a lemma of its own. `NeverMutualDenial` follows
from LockInv: on a free lock either a held origin is registered, and is granted, or
the head of the queue is, because the queue holds only writers. `LockAlwaysSound`
puts the four together, as the run checks them. `GenerationAlwaysMarks` goes over
the operations and needs that the wrapped successor differs.
`QueueNeverReordered` shows that each operation leaves the queue alone, appends to
it or takes one id out of it, and that taking out keeps the order of the rest.

**The lock in the daemon** (`WriteArbitrationProofs`). `ArbInv` proves `ArbSound`,
`QueueIsServed`, `NoLostWakeup`, and the action property `LeaseReleasesOwnGrant`.
Its parts hold each other up. A task waits under an id of its
own kind (`TaskInv`); an id is one edge's, one send's and one pump's (`IdInv`), so
that the guard of a cancelled request takes out nobody else; a connected edge is
registered with its own mode (`ModeInv`), so that what a pump waits for is what the
lock would give it. `ServedInv` is `QueueIsServed` strengthened: the one who waits
for a queued id is not a reclaiming pump, because such a pump never enqueues and
would not take the id out when it gives up. `LeaseInv` says that the generation
has moved on from every timer whose grant is over. Lemmas first say what each
operation of the lock does to one origin and leaves to the others; then there is
one lemma per action, and under it one step per part it can disturb.

`NeverOvertaken` proves `NoOvertaking` of `OrderSpec`. To `ArbInv` it adds
`AheadInv`: whoever stands before a waiting send in the queue has been there since
the send queued. That it lasts needs three things: a waiting send is queued all the
time (`SendKeepsItsPlace`, from `ArbInv`); no action lets one queued origin pass
another, and who comes, or comes back, comes behind (`QueueStep`, over all actions);
and the lock passes in turn (`InTurn`): to a held origin, by theft, or to someone
who then had nobody before him.

**The queue** (`TargetwardInboxProofs`). Facts about sequences, permits and
backpressure that the next three share: what a landing send, a receive and a drain
do to the queue, the suspended and the granted, and that senders are suspended only
while the queue and the permits handed out fill the capacity.

**The serial node** (`SerialNodeProofs`). `NothingVanishes` and `ChargedOnce`
are not inductive: they do not say that a queued chunk has not met a fate yet.
`SerInv` adds that senders' hands are distinct and their chunks not yet accepted
(`HandsInv`), that the queue has no repetition and is disjoint from everything
charged (`QueueInv`), that the held chunk is being written or has met its fate
(`HeldInv`: the reason teardown over-reports one chunk at most), and that nothing
follows a teardown and the inbox is open before one (`TornInv`).

`StaleNeverReachesDevice` proves `StaleNeverWritten`, and with it why a fixed number
of purge rounds is enough. Each round empties the queue and so hands out permits to
the `Cap` senders suspended the longest. By induction on the rounds, a stale chunk
that is still suspended after `r` of them had `r * Cap` senders ahead of it
(`StaleMovedUp`); who comes later comes behind. With at most
`(PURGE_ROUNDS - 1) * Cap` senders nothing stale is left for after the last round.
For more senders nothing is claimed, and nothing is true.

**The refinement.** `SerialForwardsInOrder` proves that the serial node implements
`Station`: its initial states map to the station's, and, given `SerInv` before and
after, each action maps to one named station step or to a stutter. `SerInv` is
what makes a landed send a `Take`: the station only takes a chunk it has never
had.

**The interior pumps** (`InnerNodesProofs`). `PumpInv` proves `PumpLedger` and
`NoLostEdgeWakeup`. The ledger is per piece and not per chunk, since a codec makes
several sends of one chunk. So the invariant says of the chunk in a pump's hands
which pieces are delivered and that the rest are untouched (`HandInv`), and of every
queued chunk that all of it is (`QueueInv`). `EdgeInv` is what the last part, at
most one late piece per pump and edge, rests on: a pump is bound only to an edge that was
attached, an attached edge it is bound to may be written to, and a piece that
landed late is of an edge its pump has since let go.

**The exec codec** (`InnerNodesProofs`). `ExecInv` proves `ExecSound`. A chunk is
given to a child once it leaves the merge queue's writer and is then still
somewhere in the child, so the way there and the way back are two ledgers:
`CustodyInv` says that up to the child the queues, the hands and the fates are
disjoint and that together they are all that arrived, `AnswersInv` that pipes, the
child's hand, the routed chunk, shed and sent are disjoint parts of what was fed.
Both are stated over sets that stand for the places, so that a step is one lemma on
sets and the queues enter only by what a push or a pop does to them (`QueuesInv`).
`SuperInv` ties the status to where the supervisor is: the fault of a backoff is
not overwritten by a connect.

**The log's directory** (`InnerNodesProofs`). `DirInv` proves
`RotationNeverReplaced` for the log node whose writers end before they are
replaced (`~LogWedges`); section 5 shows that it fails without. Under that
hypothesis only the generation in the graph may write, the rotated files are
exactly those with suffix 0 to some `r`, and the writer's counter is `r`, or `r - 1`
between its rename and its reopen. So the next rename is to `r + 1`, which is free,
and a new node that scans the directory resumes at the same `r`. The delicate case
is a rename that succeeded before a reopen that failed: the counter stays one
behind, which is harmless only because that writer stops and never rotates again.

**The fan-out** (`HostwardPathProofs`). `HostInv` proves `HostwardSound` and
`ConfiguredEdgeHeard`. A consumer reads its edges one after the other, so order
rests on the line of edges and not on one queue: a pump has its own edges, once
each, the configured one last, and an edge behind another in the line holds later
chunks only (`LineInv`, `OrderInv`). That a chunk is broadcast to a consumer once
while sinks come and go under the loop over them is `ReaderInv`: sinks at or after
the loop's index have not seen the chunk. `FateInv` and `CountInv` are the counters.

**The tap hub** (`HostwardPathProofs`). `TapInv` proves `TapSound` and `WaitSound`.
What the producer emitted is in the hub, in the feed or counted, in order
(`StreamInv`); the ring is the newest part of what was ingested (`RingInv`). Then
each tap and each wait is judged by itself against the ingested stream: for a tap
the offsets rise and what it read, has queued and dropped adds up from its splice
point (`TapOk`); for a wait that was told of no gap, the window is the newest part
of the stream and the pattern does not occur from where it was armed up to the live edge
(`WaitOk`). `credit` is the loss a wait was armed with that the hub has not seen
yet; without its equation the gap of a later loss could not be told from an
earlier one.

**The pty** (`PtyNodeProofs`). `PtyInv` proves `PtySound` and
`StaleInputNeverFires`. `TypedInv` and `OutputInv` are the two ledgers, with the
order of what was taken, is held over and is unread. `StaleInv` says that what is
held over or unread was typed in a session later than any settled one; the
exception is the residue of a close handled with the right to write, which the
reader reads dry before it goes on. That the handler does not wake itself is not
inductive: `ReaderInv` adds what the reader knows at each point of a pass, so that
the packet of its own flush is gone whichever way it came there.

**The port** (`SerialNodeProofs`). `PortInv` proves `PortSound`, `BreakHolds` and
`LineVerbKeepsToPort`. The claim on a tty is a flag of the device that any holder of
the port clears when it lets go, so everything turns on who refers to which port:
exactly the node's port is claimed (`Claims`), the futures of aborted supervisors
keep only ports that the node no longer has (`GhostsInv`), where the supervisor is
tells which port the node has (`SupInv`). For the lines, a verb of the present
generation is the only one and has the lease, and it is of the present generation
exactly if the port it raised the line on is the node's port (`LineInv`): every
change of the node's port moves the generation. The tty is in break exactly while
such a verb holds it (`BreakInv`).

**The link** (`LegLinkProofs`). `LinkInv` proves `CommandLedger`,
`DeliveredInOrder` and `OutageBacklogPurged`. Order is the key to all three. At the
sender, what left is before what is in flight, and that before the queue (`BInv`);
at the receiver, what is done with is before what is held, then queued, then in the
reader's hands, then on the wire, and all of it was written (`AInv`). From this it
follows that nothing is in two places, so that a step that moves a command need
only keep the order at its two ends. `FatesB` has the one exception: the slot
of a lost peer's command is charged again by a teardown, at most once. `EpochInv`
ties a command's tag to its connection: tags are no later than the present epoch,
and who is in the endpoint's send entered it under the epoch of its tag, hence at
most one late delivery of a dead connection. `StaleInv`: what waited through an
outage is on the purge's counter, and what is on it was never written.

**The snapshot** (`ConfigStoreProofs`). `StoreInv` proves `StoreSound` for any
number of connections, mutations, deaths and failing system calls. While a verb is
in flight nobody has loaded a file, so the graph is the newest there has been
(`LaneInv`); the bytes being written are the graph, and what the temporary file
holds follows from the system call the snapshot is at (`SnapInv`); the file and the
name it had before the rename are both whole and, unless a snapshot failed, no older
than an answer (`DiskInv`), which is why a power loss may bring back either.

`PROJECT.json` lists the theorems. Only model-checked:

* Liveness: the prover has neither fairness nor ENABLED.
* `LogSound`, which sums lengths over queues and files with a fold, so that a proof
  needs an induction over a sequence; and `RotationNeverReplaced` is proved by
  itself for that reason.
* `GraphSound`: GraphVerbs declares a RECURSIVE operator (the code's cycle search),
  which the prover cannot take.

## 5. Where code and documents disagree

Four have a run that states the document as a property and a behaviour that
violates it; `PROJECT.json` quotes them.

* `config_dropped_snapshot`: `load` and `add-node` of a listening node await the
  first bind after the graph changed and before the snapshot. A client that hangs
  up there leaves a running graph that no snapshot has, and a restart loses it.
* `tap_wait_hole`: a byte lost at the feed while earlier ones are still queued is
  seen by the hub as a gap *before* those; the window is cut too early and later
  joins the bytes around the hole, so a wait may match what the stream never had.
* `detach_sheds`: a disconnect that reaches a pump waiting for a stolen floor makes
  it discard the chunk, where the comment says that writers stall.
* `leg_stale_binding`: the leg's channel task reads its edge before it waits for a
  command, so the first command after a connect may be discarded.

The modules state further promises that the code does not keep. No run checks
them; adding the definition to the run's `.cfg` shows each.

* `ParkedIsQueued` (WriteArbitration): two `lock --wait` calls for one origin share
  its queue slot (`daemon/src/daemon.rs:2633-2649`), so cancelling one takes the
  other, still parked, out of the queue; newcomers may then be served before it
  again and again. A `send` is not affected.
* `NoSilentLoss` (SerialTargetward): a chunk whose write fails is in no counter
  once the next one is received (`daemon/src/runtime.rs:922-923`). NothingVanishes
  shows that this is the only such case.
* `RotationNeverReplaced` with `LogWedges = TRUE` (LogNode): a writer that outlived
  its node's flush wait and the writer of the node that was added again number
  their rotations apart, and one may rename over the other's file.
* `FreshSession` (PtyNode): output buffered for a session that ended may reach the
  next one, if it opens before the reader's next poll
  (`docs/43-design-claude-fable-v17.md:1293-1303`).
* `CollapsedSessionReleases` (PtyNode): a session that came and went between two
  polls, and whose traces a purge of the line discarded before the reader saw
  them, keeps its lock (`daemon/src/nodes/pty.rs:1100-1112` means the latch to
  catch every session that collapsed into one poll). DetachReleases says what does hold.
* In ExecCodec a chunk that is in the child's hands, its pipes or the feed half
  when the child dies is on no counter (`fate.orphaned`); `ExecSound` admits
  exactly these.

## 6. Not modelled

* **Data.** Chunks are opaque. What bytes a codec, a map rule or the wire framing
  makes of them, the parsing of configuration files and of RPC, the matching of
  USB devices (`core/src/resolver.rs`), patterns longer than two bytes: functions
  without state, whose errors unit and fuzz tests reach.
* **Tools.** `doctor` (its probes alone are a fifth of the repository's lines),
  `devprep`, `sim`, `itest`, the fuzz targets, `ctl`: they run or test the daemon
  and keep no state that another part relies on. `sys` and `rpc` are thin layers
  over system calls and JSON. The web bridge (`web`) is a client of the control
  socket with state of its own, and could be modelled. These, with the tests
  inside each source file, are most of the repository's lines, so the lines that
  the modules stand for are a small share of all.
* **In the modules above.** Labels, statuses (but the exec codec's and the port's)
  and error texts; in the leg, the hostward direction (its consumer side is a pump
  of Hostward), the residual that cannot be framed, several channels sharing the
  pump, the listen socket's file and the set of unbound identities; in
  WriteArbitration, the suspension of a `send` in the endpoint's queue is the one
  state `sending`, and one endpoint is modelled at a time; in GraphVerbs, legs,
  exec codecs and free-for-all endpoints; in PtyNode, platforms other than Linux;
  in TapHub, chunks longer than a byte and several lookbacks, and what a closed
  tap's queue still delivers; in ExecCodec, a read-only edge of the multiplexed
  side; in LegLink, partial writes of a frame. Three steps are coarser than the
  code's: a failed rotation's two critical sections (LogNode), a last close's
  flush, release and purge (PtyNode), and a held chunk settled by the next receive
  that yields one, not by the next poll (SerialTargetward), which leaves it in the
  writer's hands longer.

A read half dropped while it is suspended in its send to a full queue loses the
command it had decoded, and the frames behind it, without a counter. LegLink
records that (`history.reader`), and `CommandLedger` admits exactly it.

## 7. Plan

The order so far: the lock, its use, the inbox and its consumers; then the
hostward plane, the boundary nodes, and the daemon's own state; then the proofs of
section 4. What is left, in this order:

1. Proofs: the wiring maps of GraphVerbs, with the cycle search stated by a
   reachability relation in place of the recursion.
2. `Station` as the abstraction of the interior pump and of each end of the leg.
3. The web bridge's sessions over the control socket.
4. Map rules and framing as operators against reference definitions.
