---------------------------- MODULE InteriorPump ----------------------------
(***************************************************************************)
(* The targetward pumps of an interior node: a map (daemon/src/nodes/      *)
(* map.rs, one pump, no fragmenting) or a codec (nodes/codec.rs, one pump  *)
(* per channel, chunks framed in pieces).  Each pump drains the inbox of   *)
(* its own host-facing endpoint; all of them write through the node's one  *)
(* target-facing edge, which connect and disconnect fill and clear under   *)
(* the running pumps (EdgeSlot of daemon/src/runtime.rs).                  *)
(*                                                                         *)
(* The edge's origin is held, so a pump waits for the floor in             *)
(* reacquire_held and never queues; module WriteArbitration has the lock   *)
(* itself, of which only who has the floor is kept here.                   *)
(***************************************************************************)
EXTENDS TargetwardInbox

CONSTANTS
    Pump,     \* the node's pumps: one per host-facing endpoint
    PumpOf,   \* PumpOf[c]: the endpoint a chunk is written to
    Pieces,   \* frames per chunk: frame_ranges
    Edge,     \* origin ids of the attachments the edge goes through
    NoEdge,
    HostOf,   \* HostOf[e]: the upstream node e attaches to
    Deleted,  \* chunks a map's rules delete altogether
    Refused   \* chunks a codec's mux may refuse

ASSUME PumpOfAssumption == PumpOf \in [Chunk -> Pump]
ASSUME PiecesAssumption == Pieces \in Nat \ {0}
ASSUME EdgeAssumption == NoEdge \notin Edge
ASSUME FateAssumption == Deleted \subseteq Chunk /\ Refused \subseteq Chunk

VARIABLES
    inbox,      \* inbox[p]: the endpoint's queue
    pump,       \* pump[p]: what the pump is doing with the chunk in its hands
    slot,       \* the edge slot: the attached edge, and whether it may write
    floor,      \* who may write upstream: this origin, nobody, or a stealer
    removed,    \* upstream nodes that are gone
    used,       \* history: edges that have been attached
    delivered,  \* pieces the upstream channel took
    discarded,  \* counters discarded_targetward / discarded_no_raw_edge
    torn,       \* counter discarded_at_teardown
    accepted,   \* history: chunks the inboxes took
    late,       \* history: pieces that landed on an edge already detached
    shed        \* history: pieces discarded because of a mere disconnect

ledgers == <<delivered, discarded, torn>>
vars == <<inbox, pump, slot, floor, removed, used, ledgers, accepted, late, shed>>

Piece == Chunk \X (1 .. Pieces)
Rest(c, i) == {c} \X (i .. Pieces)

\* edge, edgeWoken: parked in await_origin; gate, gateWoken: parked in
\* reacquire_held; sending: suspended in the upstream channel's send.
PumpState ==
    [pc    : {"recv", "edge", "edgeWoken", "gate", "gateWoken", "sending", "gone"},
     bound : Edge \cup {NoEdge},
     piece : 1 .. Pieces]
AtRecv == [pc |-> "recv", bound |-> NoEdge, piece |-> 1]

\* TargetEdge
Unattached == [edge |-> NoEdge, writable |-> FALSE]
Attached == slot.edge # NoEdge
Origin == IF slot.writable THEN slot.edge ELSE NoEdge

PumpTypeOK ==
    /\ inbox \in [Pump -> InboxState]
    /\ pump \in [Pump -> PumpState]
    /\ slot \in [edge : Edge \cup {NoEdge}, writable : BOOLEAN]
    /\ floor \in {"ours", "free", "stolen"}
    /\ removed \subseteq {HostOf[e] : e \in Edge}
    /\ used \subseteq Edge
    /\ delivered \subseteq Piece /\ discarded \subseteq Piece /\ shed \subseteq Piece
    /\ torn \subseteq Chunk /\ accepted \subseteq Chunk
    /\ late \subseteq Edge \X Piece

PumpInit ==
    /\ inbox = [p \in Pump |-> NewInbox]
    /\ pump = [p \in Pump |-> AtRecv]
    /\ slot = Unattached
    /\ floor = "free"
    /\ removed = {} /\ used = {}
    /\ delivered = {} /\ discarded = {} /\ torn = {}
    /\ accepted = {} /\ late = {} /\ shed = {}

Gone == \A p \in Pump : pump[p].pc = "gone"
-----------------------------------------------------------------------------
(* Writers of the node's endpoints.  A suspended writer is module           *)
(* SerialTargetward's subject; here a chunk goes in when there is room.     *)

Accept(c) ==
    LET p == PumpOf[c] IN
    /\ c \notin accepted
    /\ inbox[p].open /\ Room(inbox[p])
    /\ inbox' = [inbox EXCEPT ![p] = Push(@, c)]
    /\ accepted' = accepted \cup {c}
    /\ UNCHANGED <<pump, slot, floor, removed, used, ledgers, late, shed>>
-----------------------------------------------------------------------------
(* One turn of a pump, up to its next await, with the chunk in hand in      *)
(* inbox b and the binding e it read from the slot.                         *)

\* The pump is done with its chunk: the next recv settles it.
Done(p, b) ==
    /\ inbox' = [inbox EXCEPT ![p] = SettleHeld(b)]
    /\ pump' = [pump EXCEPT ![p] = AtRecv]

Discard(p, b, i) ==
    /\ Done(p, b)
    /\ discarded' = discarded \cup Rest(b.held, i)

Park(p, b, pc, e, i) ==
    /\ inbox' = [inbox EXCEPT ![p] = b]
    /\ pump' = [pump EXCEPT ![p] = [pc |-> pc, bound |-> e, piece |-> i]]

\* forward_targetward from piece i on, through binding e: write_mode is gone
\* with the registration; may_write or reclaim_held and send, unless a map's
\* rules left nothing to send; or wait for the floor.
Forward(p, b, e, i) ==
    \/ /\ Origin # e
       /\ Discard(p, b, i)
       /\ shed' = IF HostOf[e] \in removed THEN shed ELSE shed \cup Rest(b.held, i)
       /\ UNCHANGED floor
    \/ /\ Origin = e
       /\ floor # "stolen"
       /\ IF b.held \in Deleted THEN Done(p, b) ELSE Park(p, b, "sending", e, i)
       /\ floor' = "ours"
       /\ UNCHANGED <<discarded, shed>>
    \/ /\ Origin = e
       /\ floor = "stolen"
       /\ Park(p, b, "gate", e, i)
       /\ UNCHANGED <<floor, discarded, shed>>

\* Frame piece i and forward it, or the codec's mux refuses and the rest of the
\* chunk is charged.
Frame(p, b, e, i) ==
    \/ Forward(p, b, e, i)
    \/ b.held \in Refused /\ Discard(p, b, i) /\ UNCHANGED <<floor, shed>>

\* await_origin: a writable edge, a read-only one (drain and count), or none.
Bind(p, b) ==
    \/ Origin # NoEdge /\ Frame(p, b, Origin, 1)
    \/ /\ Origin = NoEdge /\ Attached
       /\ Discard(p, b, 1)
       /\ UNCHANGED <<floor, shed>>
    \/ /\ Origin = NoEdge /\ ~Attached
       /\ Park(p, b, "edge", NoEdge, 1)
       /\ UNCHANGED <<floor, discarded, shed>>

Recv(p) ==
    /\ pump[p].pc = "recv"
    /\ inbox[p].queue # <<>>
    /\ Bind(p, PollRecv(inbox[p]))
    /\ UNCHANGED <<slot, removed, used, delivered, torn, accepted, late>>

EdgeWakes(p) ==
    /\ pump[p].pc = "edgeWoken"
    /\ Bind(p, inbox[p])
    /\ UNCHANGED <<slot, removed, used, delivered, torn, accepted, late>>

\* Mutant of GateWakes: a refused pump drops its piece without charging it.
GateWakesUncharged(p) ==
    /\ pump[p].pc = "gateWoken"
    /\ \/ /\ Origin # pump[p].bound
          /\ Done(p, inbox[p])
          /\ UNCHANGED <<floor, discarded, shed>>
       \/ /\ Origin = pump[p].bound
          /\ Forward(p, inbox[p], pump[p].bound, pump[p].piece)
    /\ UNCHANGED <<slot, removed, used, delivered, torn, accepted, late>>

GateWakes(p) ==
    /\ pump[p].pc = "gateWoken"
    /\ Forward(p, inbox[p], pump[p].bound, pump[p].piece)
    /\ UNCHANGED <<slot, removed, used, delivered, torn, accepted, late>>

\* The upstream channel takes the piece; the next one goes through the gate
\* again.
SendDone(p) ==
    LET e == pump[p].bound
        i == pump[p].piece
        x == <<inbox[p].held, i>>
    IN  /\ pump[p].pc = "sending"
        /\ HostOf[e] \notin removed
        /\ delivered' = delivered \cup {x}
        /\ late' = IF Origin = e THEN late ELSE late \cup {<<e, x>>}
        /\ \/ i = Pieces /\ Done(p, inbox[p]) /\ UNCHANGED <<floor, discarded, shed>>
           \/ i < Pieces /\ Frame(p, inbox[p], e, i + 1)
        /\ UNCHANGED <<slot, removed, used, torn, accepted>>

\* The upstream channel closed under the suspended send.
SendFails(p) ==
    /\ pump[p].pc = "sending"
    /\ HostOf[pump[p].bound] \in removed
    /\ Discard(p, inbox[p], pump[p].piece)
    /\ UNCHANGED <<slot, floor, removed, used, delivered, torn, accepted, late, shed>>
-----------------------------------------------------------------------------
(* The control plane *)

\* EdgeSlot::changed and LockCell::wake_waiters.
Woken == [edge |-> "edgeWoken", gate |-> "gateWoken"]
Wake(pcs) ==
    [p \in Pump |-> IF pump[p].pc \in pcs
                    THEN [pump[p] EXCEPT !.pc = Woken[@]] ELSE pump[p]]

\* connect, with a writable or a read-only edge.  A held origin takes a free
\* floor as it registers.
Connect(e) ==
    /\ ~Gone
    /\ ~Attached
    /\ e \notin used /\ HostOf[e] \notin removed
    /\ used' = used \cup {e}
    /\ \/ slot' = [edge |-> e, writable |-> TRUE] /\ floor' \in {"ours", "stolen"}
       \/ slot' = [edge |-> e, writable |-> FALSE] /\ UNCHANGED floor
    /\ pump' = Wake({"edge", "gate"})
    /\ UNCHANGED <<inbox, removed, ledgers, accepted, late, shed>>

\* Mutant of Detach: the lock's waiters are not woken.
DetachSilently ==
    /\ slot' = Unattached
    /\ floor' = "free"
    /\ pump' = Wake({"edge"})

\* detach_edge_runtime: clear the slot, unregister, wake.
Detach ==
    /\ slot' = Unattached
    /\ floor' = "free"
    /\ pump' = Wake({"edge", "gate"})

Disconnect ==
    /\ ~Gone
    /\ Attached
    /\ Detach
    /\ UNCHANGED <<inbox, removed, used, ledgers, accepted, late, shed>>

\* remove-node of an upstream node, its edges cascaded.
RemoveUpstream(h) ==
    /\ h \notin removed
    /\ removed' = removed \cup {h}
    /\ IF Attached /\ HostOf[slot.edge] = h
       THEN Detach ELSE UNCHANGED <<slot, floor, pump>>
    /\ UNCHANGED <<inbox, used, ledgers, accepted, late, shed>>

\* remove-node of this node: cascade, drain and count, abort the pumps.
RemoveNode ==
    /\ ~Gone
    /\ slot' = Unattached
    /\ floor' = "free"
    /\ torn' = torn \cup UNION {DrainAndCount(inbox[p]) : p \in Pump}
    /\ inbox' = [p \in Pump |-> Taken(inbox[p])]
    /\ pump' = [p \in Pump |-> [AtRecv EXCEPT !.pc = "gone"]]
    /\ UNCHANGED <<removed, used, delivered, discarded, accepted, late, shed>>

\* A steal ousts this origin; the stealer leaves.
Steal ==
    /\ Origin # NoEdge /\ floor # "stolen"
    /\ floor' = "stolen"
    /\ pump' = Wake({"gate"})
    /\ UNCHANGED <<inbox, slot, removed, used, ledgers, accepted, late, shed>>

StealerLeaves ==
    /\ floor = "stolen"
    /\ floor' = "free"
    /\ pump' = Wake({"gate"})
    /\ UNCHANGED <<inbox, slot, removed, used, ledgers, accepted, late, shed>>

PumpNext ==
    \/ \E c \in Chunk : Accept(c)
    \/ \E p \in Pump : Recv(p) \/ EdgeWakes(p) \/ GateWakes(p) \/ SendDone(p) \/ SendFails(p)
    \/ \E e \in Edge : Connect(e) \/ RemoveUpstream(HostOf[e])
    \/ Disconnect \/ RemoveNode \/ Steal \/ StealerLeaves

PumpSpec == PumpInit /\ [][PumpNext]_vars
-----------------------------------------------------------------------------
(* Properties *)

\* Where a piece of an accepted chunk is while nobody has taken or charged it.
Pending(c, i) ==
    LET p == PumpOf[c] IN
    \/ c \in ToSet(inbox[p].queue)
    \/ inbox[p].held = c /\ pump[p].pc # "recv" /\ i >= pump[p].piece

\* Every piece of every accepted chunk is pending, delivered upstream, or on a
\* counter: no exit of a pump, and no teardown, drops a byte uncounted.
NoPieceVanishes ==
    \A c \in accepted, i \in 1 .. Pieces :
        \/ Pending(c, i)
        \/ <<c, i>> \in delivered \cup discarded
        \/ c \in torn \cup Deleted

\* No piece is both delivered and charged, except that teardown charges the
\* chunk in a pump's hands as a whole: one chunk per pump at most.
PieceChargedOnce ==
    /\ delivered \cap discarded = {}
    /\ \A x \in discarded : x[1] \notin torn
    /\ \A x, y \in delivered :
           x[1] \in torn /\ y[1] \in torn /\ PumpOf[x[1]] = PumpOf[y[1]] => x[1] = y[1]

\* A parked pump has nothing it could do: the slot is empty while it waits for
\* an edge, and its own origin is registered without the floor while it waits
\* for the lock.
NoLostEdgeWakeup ==
    \A p \in Pump :
        /\ pump[p].pc = "edge" => ~Attached
        /\ pump[p].pc = "gate" => Origin = pump[p].bound /\ floor = "stolen"

\* What still lands on an edge after its disconnect is the one piece that each
\* pump had in the upstream channel's send.
LatePerPump ==
    \A y, z \in late :
        y[1] = z[1] /\ PumpOf[y[2][1]] = PumpOf[z[2][1]] => y = z

\* The comment on EdgeSlot: detaching an edge must stall the writers, not shed
\* their bytes.
DetachStallsWriters == shed = {}

\* The ledger of the pumps: every piece is pending, delivered or charged, once,
\* and a disconnected edge gets at most the piece that was in its send.
PumpLedger == PumpTypeOK /\ NoPieceVanishes /\ PieceChargedOnce /\ LatePerPump
=============================================================================
