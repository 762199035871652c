------------------------------ MODULE PtyNode ------------------------------
(***************************************************************************)
(* The pty node (daemon/src/nodes/pty.rs): a reader task that polls the    *)
(* master, a writer thread that writes to it, and clients that open, use   *)
(* and close the slave whenever they like.                                 *)
(*                                                                         *)
(* The kernel keeps what a client typed (kin) and what it has not read     *)
(* (kout) across the slave's last close, and reports a change of the       *)
(* line's settings as one control packet ahead of the data (Linux).  A     *)
(* pass of the reader holds the runtime thread, so the lock, the edge and  *)
(* the endpoint change only between passes; clients and the writer thread  *)
(* run at every step of it.                                                *)
(***************************************************************************)
EXTENDS Integers, Sequences, SequencesExt, FiniteSets

CONSTANTS
    MaxSessions,  \* bound: client sessions
    MaxVerbs,     \* bound: verbs on the edge and the lock
    MaxTraffic,   \* bound: chunks, typed or sent by the device; one way per behaviour,
                  \* as the two share nothing but the client's presence
    EndpointCap,  \* depth of the endpoint's targetward channel
    BridgeCap     \* hostward_buffer: depth of the bridge to the writer

ASSUME PtyAssumption ==
    /\ {MaxSessions, MaxVerbs, MaxTraffic} \subseteq Nat
    /\ {EndpointCap, BridgeCap} \subseteq Nat \ {0}

VARIABLES
    client,   \* the slave: session number, open; used at all, and since the last purge
    pair,     \* the kernel's queues: kin, kout, and the control packet
    edge,     \* the edge and the endpoint's lock (and the verbs so far)
    chan,     \* the endpoint's targetward channel
    rd,       \* the reader task
    wr,       \* the writer thread and its bridge
    ptyCount, \* loss counters
    past      \* history

ptyVars == <<client, pair, edge, chan, rd, wr, ptyCount, past>>

None == 0
Baseline == "own"   \* the packet that the node's own tcsetattr leaves

PtyInit ==
    /\ client = [session |-> 0, open |-> FALSE, touched |-> FALSE, marked |-> FALSE]
    /\ pair = [kin |-> <<>>, kout |-> <<>>, ctl |-> "none"]
    /\ edge \in [kind : {"none", "spy", "writer"}, arb : {"exclusive", "free"},
                 mode : {"ondemand", "held"}, holder : {"none", "self", "other"}, verbs : {0}]
    /\ edge.holder = "self" => edge.kind = "writer"
    /\ edge.arb = "free" => edge.mode = "ondemand" /\ edge.holder = "none"
    /\ chan = [q |-> <<None>>, open |-> TRUE]   \* another origin's chunk
    /\ rd = [pc |-> "wait", now |-> FALSE, origin |-> "none", may |-> FALSE, pending |-> None,
             saw |-> FALSE, closed |-> FALSE, present |-> FALSE, held |-> 0]
    /\ wr = [bridge |-> <<>>, chunk |-> None]
    /\ ptyCount = [targetward |-> 0, purged |-> 0, lastClose |-> 0, absent |-> 0, full |-> 0]
    /\ past = [typed |-> <<>>, taken |-> <<>>, fed |-> <<>>, read |-> 0, lockedIn |-> 0,
               settled |-> 0, takenAt |-> 0, closed |-> 0, stale |-> FALSE]

Between == rd.pc = "wait"
AVerb == Between /\ edge.verbs < MaxVerbs
ByVerb(e) == [e EXCEPT !.verbs = @ + 1]
Typed == Len(past.typed)    \* typed[i] is the session that typed chunk i
Sent == Len(past.fed)       \* fed[i] is the session the device sent chunk i to

PtyTypeOK ==
    /\ client.session \in 0 .. MaxSessions
    /\ rd.pc \in {"wait", "drain", "close", "last", "residual"}
    /\ pair.ctl \in {"none", "client", Baseline}
    /\ edge.kind \in {"none", "spy", "writer"} /\ edge.holder \in {"none", "self", "other"}
    /\ Len(chan.q) <= EndpointCap /\ Len(wr.bridge) <= BridgeCap
    /\ edge.kind # "writer" => edge.holder # "self"
-----------------------------------------------------------------------------
(* Clients *)

Open ==
    /\ ~client.open /\ client.session < MaxSessions
    /\ client' = [session |-> client.session + 1, open |-> TRUE, touched |-> FALSE, marked |-> FALSE]
    /\ UNCHANGED <<pair, edge, chan, rd, wr, ptyCount, past>>

Type ==
    /\ client.open /\ Typed < MaxTraffic /\ Sent = 0
    /\ pair' = [pair EXCEPT !.kin = Append(@, Typed + 1)]
    /\ past' = [past EXCEPT !.typed = Append(@, client.session)]
    /\ client' = [client EXCEPT !.touched = TRUE, !.marked = TRUE]
    /\ UNCHANGED <<edge, chan, rd, wr, ptyCount>>

SetAttr ==
    /\ client.open /\ pair.ctl = "none"
    /\ pair' = [pair EXCEPT !.ctl = "client"]
    /\ client' = [client EXCEPT !.touched = TRUE, !.marked = TRUE]
    /\ UNCHANGED <<edge, chan, rd, wr, ptyCount, past>>

ReadOut ==
    /\ client.open /\ pair.kout # <<>>
    /\ pair' = [pair EXCEPT !.kout = Tail(@)]
    /\ past' = [past EXCEPT !.read = @ + 1,
                            !.stale = @ \/ past.fed[Head(pair.kout)] \in 1 .. past.closed]
    /\ UNCHANGED <<client, edge, chan, rd, wr, ptyCount>>

Close ==
    /\ client.open
    /\ client' = [client EXCEPT !.open = FALSE]
    /\ UNCHANGED <<pair, edge, chan, rd, wr, ptyCount, past>>
-----------------------------------------------------------------------------
(* The reader task: one pass of read_and_poll *)

MayWrite(e) == e.arb = "free" \/ e.holder = "self"

\* may_write_reclaiming: a held origin takes a free endpoint.
Reclaimed(e) ==
    IF e.kind = "writer" /\ e.arb = "exclusive" /\ e.mode = "held" /\ e.holder = "none"
    THEN [e EXCEPT !.holder = "self"] ELSE e

\* try_forward_targetward, without asking the lock.
Handoff == IF ~chan.open THEN "lost" ELSE IF Len(chan.q) < EndpointCap THEN "taken" ELSE "full"

\* The chunk c is offered: where it goes, given the outcome h.
Took(h, c) ==
    /\ chan' = IF h = "taken" THEN [chan EXCEPT !.q = Append(@, c)] ELSE chan
    /\ past' = IF h = "taken" THEN [past EXCEPT !.taken = Append(@, c)] ELSE past

\* The master is read if the origin may write, has no payload in hand and the
\* poll found something.
Reads(kept, may) == kept = None /\ may /\ (pair.kin # <<>> \/ pair.ctl # "none")

\* The top of the pass: poll, the edge, the lock, and the held payload.
Pass ==
    /\ Between
    /\ LET e == Reclaimed(edge)
           may == IF e.kind = "writer" THEN MayWrite(e) ELSE e.kind = "spy"
           h == IF e.kind = "writer" THEN Handoff ELSE "lost"
           kept == IF rd.pending # None /\ h = "full" THEN rd.pending ELSE None
       IN  /\ edge' = e
           /\ rd' = [rd EXCEPT !.pc = IF Reads(kept, may) THEN "drain" ELSE "close",
                               !.now = client.open, !.origin = e.kind, !.may = may,
                               !.pending = kept, !.closed = FALSE]
           /\ IF rd.pending = None THEN UNCHANGED <<chan, ptyCount, past>>
              ELSE /\ Took(h, rd.pending)
                   /\ ptyCount' = IF h = "lost" THEN [ptyCount EXCEPT !.targetward = @ + 1] ELSE ptyCount
    /\ UNCHANGED <<client, pair, wr>>

\* One read of the drain: a control packet, a chunk, nothing, or the hangup.
Drain ==
    /\ rd.pc = "drain"
    /\ \/ /\ pair.ctl # "none"
          /\ pair' = [pair EXCEPT !.ctl = "none"]
          /\ rd' = [rd EXCEPT !.saw = TRUE]
          /\ UNCHANGED <<chan, ptyCount, past>>
       \/ /\ pair.ctl = "none" /\ pair.kin # <<>>
          /\ LET h == IF rd.origin = "writer" THEN Handoff ELSE "spied"
                 c == Head(pair.kin)
             IN  /\ Took(h, c)
                 /\ rd' = [rd EXCEPT !.saw = TRUE, !.pending = IF h = "full" THEN c ELSE None,
                                     !.pc = IF h \in {"full", "lost"} THEN "close" ELSE "drain"]
                 /\ ptyCount' = IF h \in {"lost", "spied"}
                                THEN [ptyCount EXCEPT !.targetward = @ + 1] ELSE ptyCount
          /\ pair' = [pair EXCEPT !.kin = Tail(@)]
       \/ /\ pair.ctl = "none" /\ pair.kin = <<>>
          /\ rd' = [rd EXCEPT !.pc = "close", !.closed = ~client.open]
          /\ UNCHANGED <<pair, chan, ptyCount, past>>
    /\ UNCHANGED <<client, edge, wr>>

\* Mutant of Ended: only a close the drain ran into ends a collapsed session.
EndedAtEof(here) == ~here /\ (rd.present \/ (rd.saw /\ rd.closed))

\* The close block runs at the presence edge, and for a session that came and
\* went unseen but left something to read.
Ended(here) == ~here /\ (rd.present \/ rd.saw)

\* Mutant of Carried: a payload the endpoint cannot take is kept for later.
CarriedIfFull(h) == IF h = "full" THEN rd.pending ELSE None

\* Of a held payload nothing crosses the end of its session.
Carried(h) == None

\* The presence edge: the held payload is offered once more and settled.
Presence ==
    /\ rd.pc = "close"
    /\ LET here == rd.now /\ ~rd.closed
           h == IF rd.origin = "writer" THEN Handoff ELSE "lost"
       IN  IF ~Ended(here)
           THEN /\ rd' = [rd EXCEPT !.pc = "wait", !.present = here, !.now = FALSE, !.closed = FALSE,
                                    !.origin = IF rd.pending = None THEN "none" ELSE @]
                /\ UNCHANGED <<chan, ptyCount, past>>
           ELSE /\ rd' = [rd EXCEPT !.pc = "last", !.present = FALSE, !.pending = Carried(h),
                                    !.held = IF rd.pending # Carried(h) /\ h = "full" THEN 1 ELSE 0]
                /\ IF rd.pending = None THEN UNCHANGED <<chan, ptyCount, past>>
                   ELSE /\ Took(h, rd.pending)
                        /\ ptyCount' = IF h = "lost" THEN [ptyCount EXCEPT !.targetward = @ + 1] ELSE ptyCount
    /\ UNCHANGED <<client, pair, edge, wr>>

\* Detach-release: an on-demand holder gives the lock back.
Releases == rd.origin = "writer" /\ edge.holder = "self" /\ edge.mode # "held"

\* Purge-on-detach: what a locked-out client typed must not fire later.
Purges == rd.origin = "writer" /\ edge.holder # "self" /\ edge.arb = "exclusive"

SessionsOver == IF client.open THEN client.session - 1 ELSE client.session

\* handle_last_close
LastClose ==
    /\ rd.pc = "last"
    /\ pair' = [kout |-> <<>>, kin |-> IF Purges THEN <<>> ELSE pair.kin,
                ctl |-> IF Purges THEN "none" ELSE Baseline]
    /\ ptyCount' = [ptyCount EXCEPT !.lastClose = @ + Len(pair.kout),
                                    !.purged = @ + IF Purges THEN Len(pair.kin) ELSE 0]
    /\ edge' = IF Releases THEN [edge EXCEPT !.holder = "none"] ELSE edge
    /\ rd' = [rd EXCEPT !.pc = "residual", !.saw = FALSE]
    /\ past' = [past EXCEPT !.closed = SessionsOver,
                            !.settled = IF rd.origin = "writer" THEN SessionsOver ELSE @,
                            !.takenAt = Len(past.taken)]
    /\ UNCHANGED <<client, chan, wr>>

\* An endpoint that may be read from is read dry after the handler.
ReadsResidual == rd.may

\* The rest of the close block.
Residual ==
    /\ rd.pc = "residual"
    /\ LET n == rd.held + IF ReadsResidual THEN Len(pair.kin) ELSE 0
       IN  ptyCount' = IF rd.origin = "writer" THEN [ptyCount EXCEPT !.purged = @ + n]
                       ELSE [ptyCount EXCEPT !.targetward = @ + n]
    /\ pair' = IF ReadsResidual THEN [pair EXCEPT !.kin = <<>>, !.ctl = "none"] ELSE pair
    /\ rd' = [rd EXCEPT !.pc = "wait", !.held = 0, !.now = FALSE, !.closed = FALSE,
                        !.origin = IF rd.pending = None THEN "none" ELSE @]
    /\ UNCHANGED <<client, edge, chan, wr, past>>

\* The wait at the end of a pass with a payload in hand: its reservation resolves,
\* on the channel the pass began with.
Reserve ==
    /\ Between /\ rd.pending # None
    /\ LET h == IF rd.origin = "dead" THEN "lost" ELSE Handoff
       IN  /\ h # "full"
           /\ Took(h, rd.pending)
           /\ ptyCount' = IF h = "lost" THEN [ptyCount EXCEPT !.targetward = @ + 1] ELSE ptyCount
    /\ rd' = [rd EXCEPT !.pending = None, !.origin = "none"]
    /\ UNCHANGED <<client, pair, edge, wr>>

-----------------------------------------------------------------------------
(* The daemon, between passes *)

\* purge_origin
PurgeOrigin ==
    /\ pair' = [pair EXCEPT !.kin = <<>>, !.ctl = "none"]
    /\ ptyCount' = [ptyCount EXCEPT !.purged = @ + Len(pair.kin)]
    /\ client' = [client EXCEPT !.marked = FALSE]

\* connect: a held origin that is granted at once is purged first.
Connect(kind) ==
    /\ AVerb /\ edge.kind = "none"
    /\ LET e == Reclaimed([edge EXCEPT !.kind = kind])
       IN  /\ edge' = ByVerb(e)
           /\ IF e.holder = "self" THEN PurgeOrigin ELSE UNCHANGED <<client, pair, ptyCount>>
    /\ chan' = [chan EXCEPT !.open = TRUE]
    /\ UNCHANGED <<rd, wr, past>>

Unregistered(e) == [e EXCEPT !.kind = "none", !.holder = IF @ = "self" THEN "none" ELSE @]

\* disconnect, alone or because the endpoint's node goes.
Disconnect(gone) ==
    /\ AVerb /\ edge.kind # "none"
    /\ edge' = ByVerb(IF gone THEN [Unregistered(edge) EXCEPT !.holder = "none"] ELSE Unregistered(edge))
    /\ PurgeOrigin
    /\ chan' = IF gone THEN [q |-> <<>>, open |-> FALSE] ELSE chan
    /\ rd' = IF gone /\ rd.pending # None THEN [rd EXCEPT !.origin = "dead"] ELSE rd
    /\ UNCHANGED <<wr, past>>

\* lock for this origin: purge-on-acquire.
LockSelf ==
    /\ AVerb /\ edge.kind = "writer" /\ edge.arb = "exclusive" /\ edge.holder # "self"
    /\ edge' = ByVerb([edge EXCEPT !.holder = "self"])
    /\ PurgeOrigin
    /\ past' = [past EXCEPT !.lockedIn = IF client.open THEN client.session ELSE 0]
    /\ UNCHANGED <<chan, rd, wr>>

LockOther ==
    /\ AVerb /\ edge.arb = "exclusive" /\ edge.holder # "other"
    /\ edge' = ByVerb([edge EXCEPT !.holder = "other"])
    /\ UNCHANGED <<client, pair, chan, rd, wr, ptyCount, past>>

Unlock ==
    /\ AVerb /\ edge.holder # "none"
    /\ edge' = ByVerb([edge EXCEPT !.holder = "none"])
    /\ UNCHANGED <<client, pair, chan, rd, wr, ptyCount, past>>

Consume ==
    /\ Between /\ chan.q # <<>>
    /\ chan' = [chan EXCEPT !.q = Tail(@)]
    /\ UNCHANGED <<client, pair, edge, rd, wr, ptyCount, past>>
-----------------------------------------------------------------------------
(* Hostward: the bridge and the writer thread *)

Feed ==
    /\ Between /\ Sent < MaxTraffic /\ Typed = 0
    /\ past' = [past EXCEPT !.fed = Append(@, IF client.open THEN client.session ELSE 0)]
    /\ IF Len(wr.bridge) < BridgeCap
       THEN wr' = [wr EXCEPT !.bridge = Append(@, Sent + 1)] /\ UNCHANGED ptyCount
       ELSE ptyCount' = [ptyCount EXCEPT !.full = @ + 1] /\ UNCHANGED wr
    /\ UNCHANGED <<client, pair, edge, chan, rd>>

\* The writer looks at `present` once, before it writes.
WriterTakes ==
    /\ wr.chunk = None /\ wr.bridge # <<>>
    /\ wr' = [bridge |-> Tail(wr.bridge), chunk |-> IF rd.present THEN Head(wr.bridge) ELSE None]
    /\ ptyCount' = IF rd.present THEN ptyCount ELSE [ptyCount EXCEPT !.absent = @ + 1]
    /\ UNCHANGED <<client, pair, edge, chan, rd, past>>

\* Mutant of WriterWrites: a write that ends early loses its rest.
WriterWritesSilently ==
    /\ wr.chunk # None
    /\ wr' = [wr EXCEPT !.chunk = None]
    /\ \/ pair' = [pair EXCEPT !.kout = Append(@, wr.chunk)]
       \/ ~client.open /\ UNCHANGED pair
    /\ UNCHANGED <<client, edge, chan, rd, ptyCount, past>>

\* blocking_write_all: the kernel takes it, or it is short because of a hangup.
WriterWrites ==
    /\ wr.chunk # None
    /\ wr' = [wr EXCEPT !.chunk = None]
    /\ \/ pair' = [pair EXCEPT !.kout = Append(@, wr.chunk)] /\ UNCHANGED ptyCount
       \/ /\ ~client.open
          /\ ptyCount' = [ptyCount EXCEPT !.absent = @ + 1]
          /\ UNCHANGED pair
    /\ UNCHANGED <<client, edge, chan, rd, past>>

ReaderStep == Pass \/ Drain \/ Presence \/ LastClose \/ Residual

PtyNext ==
    \/ Open \/ Type \/ SetAttr \/ ReadOut \/ Close
    \/ Pass \/ Drain \/ Presence \/ LastClose \/ Residual \/ Reserve
    \/ (\E k \in {"spy", "writer"} : Connect(k)) \/ (\E g \in BOOLEAN : Disconnect(g))
    \/ LockSelf \/ LockOther \/ Unlock \/ Consume
    \/ Feed \/ WriterTakes \/ WriterWrites

\* The task is polled when its wait ends, which its timeout bounds.
PtyFairness == WF_ptyVars(ReaderStep)

PtySpec == PtyInit /\ [][PtyNext]_ptyVars /\ PtyFairness
-----------------------------------------------------------------------------
(* Properties *)

\* Everything typed is in the kernel, in the reader's hand, taken by the endpoint
\* in the order of typing, or counted once, as lost or as purged.
TypedExact ==
    LET hand == IF rd.pending = None THEN <<>> ELSE <<rd.pending>>
        s == past.taken \o hand \o pair.kin
    IN  /\ Typed = Len(s) + rd.held + ptyCount.targetward + ptyCount.purged
        /\ \A i, j \in DOMAIN s : i < j => s[i] < s[j]

\* Input of a session whose last close was handled on a writing edge is never
\* handed to the endpoint afterwards: neither the payload held over from a full
\* endpoint nor the backlog of a locked-out client fires under a later holder.
StaleInputNeverFires ==
    \A i \in past.takenAt + 1 .. Len(past.taken) : past.typed[past.taken[i]] > past.settled

\* The last-close handler does not wake itself: its own control packet is gone
\* when the pass is over, wherever the reader is going to look for one.
QuietAfterClose == Between /\ rd.may /\ ~rd.present => pair.ctl # Baseline

\* Device output is accounted for: in flight, unread, read, or counted once.
OutputExact ==
    Sent = Len(wr.bridge) + (IF wr.chunk = None THEN 0 ELSE 1) + Len(pair.kout) + past.read
           + ptyCount.lastClose + ptyCount.absent + ptyCount.full

LeftWithLock == edge.holder = "self" /\ edge.mode = "ondemand" /\ ~client.open
                /\ past.lockedIn = client.session /\ client.session > 0

\* An on-demand lock taken during a session is given up when the session ends,
\* with a saturated endpoint too, and by a session that no poll saw if it left
\* something to read after the last purge.
DetachReleases ==
    LeftWithLock /\ (client.marked \/ rd.present) ~> edge.holder # "self" \/ client.open

\* The same for every session that touched the line at all: only a bare open and
\* close is said to be missed.
CollapsedSessionReleases == LeftWithLock /\ client.touched ~> edge.holder # "self" \/ client.open

\* On last close the output a session was sent and did not read is discarded: no
\* later session reads it.
FreshSession == ~past.stale

\* Traffic of a pty is accounted for in both directions, and the handler of the
\* last close leaves nothing behind that wakes it again.
PtySound == PtyTypeOK /\ TypedExact /\ OutputExact /\ QuietAfterClose
=============================================================================
