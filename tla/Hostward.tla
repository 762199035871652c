------------------------------ MODULE Hostward ------------------------------
(***************************************************************************)
(* The hostward path of one host-facing endpoint (daemon/src/runtime.rs):  *)
(* the producer that broadcasts chunks over its live fan-out list, the     *)
(* edges that connect and disconnect hang on it, and the consumer pumps    *)
(* that drain one edge after the other from their edge inbox.              *)
(*                                                                         *)
(* The producer is a serial node's reader: a thread of its own, so pumps   *)
(* run between two of its sends, while attach and detach wait for the      *)
(* list's mutex.  A task that broadcasts (codec, map, leg) takes the same  *)
(* steps without interruption.                                             *)
(***************************************************************************)
EXTENDS Naturals, Sequences, SequencesExt, FiniteSets

CONSTANTS
    Endpoint,     \* the target endpoints that may be connected
    EdgeMax,      \* bound: edges alive at a time
    HostChunks,   \* bound: chunks read
    EdgeDepth,    \* the producing node's channel depth
    EdgeInboxCap  \* EDGE_INBOX_CAP

ASSUME HostwardAssumption ==
    /\ EdgeMax \in Nat /\ HostChunks \in Nat
    /\ EdgeDepth \in Nat \ {0} /\ EdgeInboxCap \in Nat \ {0}

Edge == 1 .. EdgeMax
NoEdge == 0

VARIABLES
    sinks,      \* the fan-out list, a sequence of edges
    edge,       \* edge -> its channel and the target it reaches
    edgeInbox,  \* endpoint -> receivers its pump has not taken yet
    serving,    \* endpoint -> the edge its pump drains
    pumping,    \* the endpoints that have a pump
    wired,      \* endpoint -> its configured edge
    reader,     \* the producer
    full,       \* endpoint -> chunks on its DropCounters (dropped_full)
    unattached, \* chunks on discarded_unattached
    delivered,  \* chunks credited as delivered
    got,        \* history: endpoint -> chunks its pump received
    due         \* history: endpoint -> chunks broadcast to a live sink of it

hostVars == <<sinks, edge, edgeInbox, serving, pumping, wired, reader, full, unattached,
              delivered, got, due>>
edges == <<sinks, edge, edgeInbox, serving, pumping, wired>>
charges == <<full, unattached, delivered>>

NewEdge == [target |-> CHOOSE t \in Endpoint : TRUE, buf |-> <<>>, tx |-> FALSE, rx |-> FALSE]
Idle == [pc |-> "idle", chunk |-> 0, at |-> 1, live |-> FALSE]

HostTypeOK ==
    /\ sinks \in Seq(Edge) /\ IsInjective(sinks)
    /\ \A e \in Edge : Len(edge[e].buf) <= EdgeDepth
    /\ \A t \in Endpoint :
          /\ Len(edgeInbox[t]) <= EdgeInboxCap
          /\ serving[t] \in Edge \cup {NoEdge}
          /\ wired[t] \in Edge \cup {NoEdge}
          /\ full[t] \subseteq 1 .. HostChunks
    /\ reader.pc \in {"idle", "checked", "sending"} /\ reader.chunk \in 0 .. HostChunks

HostInit ==
    /\ sinks = <<>>
    /\ edge = [e \in Edge |-> NewEdge]
    /\ edgeInbox = [t \in Endpoint |-> <<>>]
    /\ serving = [t \in Endpoint |-> NoEdge]
    /\ pumping \in SUBSET Endpoint   \* a pty whose setup faulted has no pump
    /\ wired = [t \in Endpoint |-> NoEdge]
    /\ reader = Idle
    /\ full = [t \in Endpoint |-> {}]
    /\ unattached = {} /\ delivered = {}
    /\ got = [t \in Endpoint |-> <<>>]
    /\ due = [t \in Endpoint |-> {}]
-----------------------------------------------------------------------------
(* The producer *)

\* reader_thread reads a chunk and looks whether anyone wants it; the tap only
\* decides whether the chunk is worth allocating.
ReadChunk(tapWanted) ==
    /\ reader.pc = "idle"
    /\ reader.chunk < HostChunks
    /\ LET c == reader.chunk + 1
       IN  IF sinks = <<>> /\ ~tapWanted
           THEN /\ unattached' = unattached \cup {c}
                /\ reader' = [Idle EXCEPT !.chunk = c]
           ELSE /\ reader' = [Idle EXCEPT !.pc = "checked", !.chunk = c]
                /\ UNCHANGED unattached
    /\ UNCHANGED <<edges, full, delivered, got, due>>

\* broadcast takes the list's mutex.
BeginBroadcast ==
    /\ reader.pc = "checked"
    /\ reader' = [reader EXCEPT !.pc = "sending"]
    /\ UNCHANGED <<edges, charges, got, due>>

\* try_send finds the receiver and room.
Accepts(e) == edge[e].rx /\ Len(edge[e].buf) < EdgeDepth

\* Mutant of TrySend: a slow consumer does not count as a live one.
TrySendFullIsDead(e) ==
    LET t == edge[e].target
        c == reader.chunk
    IN  /\ edge' = IF Accepts(e) THEN [edge EXCEPT ![e].buf = Append(@, c)] ELSE edge
        /\ full' = IF edge[e].rx /\ ~Accepts(e) THEN [full EXCEPT ![t] = @ \cup {c}] ELSE full
        /\ delivered' = IF Accepts(e) THEN delivered \cup {c} ELSE delivered
        /\ due' = IF edge[e].rx THEN [due EXCEPT ![t] = @ \cup {c}] ELSE due
        /\ reader' = [reader EXCEPT !.at = @ + 1, !.live = @ \/ Accepts(e)]

\* One try_send of fan_out: taken, charged to the slow consumer, or closed.
TrySend(e) ==
    LET t == edge[e].target
        c == reader.chunk
    IN  /\ edge' = IF Accepts(e) THEN [edge EXCEPT ![e].buf = Append(@, c)] ELSE edge
        /\ full' = IF edge[e].rx /\ ~Accepts(e) THEN [full EXCEPT ![t] = @ \cup {c}] ELSE full
        /\ delivered' = IF Accepts(e) THEN delivered \cup {c} ELSE delivered
        /\ due' = IF edge[e].rx THEN [due EXCEPT ![t] = @ \cup {c}] ELSE due
        /\ reader' = [reader EXCEPT !.at = @ + 1, !.live = @ \/ edge[e].rx]

SendNext ==
    /\ reader.pc = "sending" /\ reader.at <= Len(sinks)
    /\ TrySend(sinks[reader.at])
    /\ UNCHANGED <<sinks, edgeInbox, serving, pumping, wired, unattached, got>>

\* The end of fan_out: a chunk no live sink saw is charged to the producer.
EndBroadcast ==
    /\ reader.pc = "sending" /\ reader.at > Len(sinks)
    /\ unattached' = IF reader.live THEN unattached ELSE unattached \cup {reader.chunk}
    /\ reader' = [Idle EXCEPT !.chunk = reader.chunk]
    /\ UNCHANGED <<edges, full, delivered, got, due>>

MutexFree == reader.pc # "sending"
-----------------------------------------------------------------------------
(* Edges *)

InUse == ToSet(sinks) \cup UNION {ToSet(edgeInbox[t]) \cup {serving[t]} : t \in Endpoint}
Free == Edge \ InUse

\* Mutant of Attach: a full inbox is reported like a consumer without a pump.
AttachAnyway(t, e) ==
    LET heard == t \in pumping /\ Len(edgeInbox[t]) < EdgeInboxCap
    IN  /\ edgeInbox' = IF heard THEN [edgeInbox EXCEPT ![t] = Append(@, e)] ELSE edgeInbox
        /\ edge' = [edge EXCEPT ![e] = [target |-> t, buf |-> <<>>, tx |-> TRUE, rx |-> heard]]
        /\ sinks' = Append(sinks, e)
        /\ wired' = [wired EXCEPT ![t] = e]

\* attach_edge.  The receiver is handed over first: a full inbox refuses the
\* edge before anything changed; without a pump the edge is attached and dead.
Attach(t, e) ==
    IF t \in pumping /\ Len(edgeInbox[t]) = EdgeInboxCap
    THEN UNCHANGED <<edgeInbox, edge, sinks, wired>>
    ELSE /\ edgeInbox' = IF t \in pumping THEN [edgeInbox EXCEPT ![t] = Append(@, e)] ELSE edgeInbox
         /\ edge' = [edge EXCEPT ![e] = [target |-> t, buf |-> <<>>, tx |-> TRUE, rx |-> t \in pumping]]
         /\ sinks' = Append(sinks, e)
         /\ wired' = [wired EXCEPT ![t] = e]

ConnectEdge(t) ==
    /\ wired[t] = NoEdge
    /\ MutexFree /\ Free # {}
    /\ Attach(t, CHOOSE e \in Free : TRUE)
    /\ UNCHANGED <<serving, pumping, reader, charges, got, due>>

\* FanOutList::detach: the target's one sink goes, and with it the channel's only
\* sender.
Detach(t) ==
    /\ sinks' = RemoveAt(sinks, CHOOSE i \in 1 .. Len(sinks) : sinks[i] = wired[t])
    /\ edge' = [edge EXCEPT ![wired[t]] = IF @.rx THEN [@ EXCEPT !.tx = FALSE] ELSE NewEdge]

DisconnectEdge(t) ==
    /\ wired[t] # NoEdge
    /\ MutexFree
    /\ Detach(t)
    /\ wired' = [wired EXCEPT ![t] = NoEdge]
    /\ UNCHANGED <<edgeInbox, serving, pumping, reader, charges, got, due>>

\* remove-node of a consumer: its edge is detached, then its pump aborted with
\* every receiver it still had.
RemoveConsumer(t) ==
    /\ t \in pumping /\ wired[t] = NoEdge
    /\ LET dead == ToSet(edgeInbox[t]) \cup {serving[t]}
       IN  edge' = [e \in Edge |-> IF e \in dead THEN NewEdge ELSE edge[e]]
    /\ edgeInbox' = [edgeInbox EXCEPT ![t] = <<>>]
    /\ serving' = [serving EXCEPT ![t] = NoEdge]
    /\ pumping' = pumping \ {t}
    /\ UNCHANGED <<sinks, wired, reader, charges, got, due>>
-----------------------------------------------------------------------------
(* Consumer pumps *)

NextEdge(t) ==
    /\ serving' = [serving EXCEPT ![t] = Head(edgeInbox[t])]
    /\ edgeInbox' = [edgeInbox EXCEPT ![t] = Tail(@)]

TakeEdge(t) ==
    /\ t \in pumping /\ serving[t] = NoEdge /\ edgeInbox[t] # <<>>
    /\ NextEdge(t)
    /\ UNCHANGED <<sinks, edge, pumping, wired, reader, charges, got, due>>

Recv(t) ==
    /\ serving[t] # NoEdge /\ edge[serving[t]].buf # <<>>
    /\ got' = [got EXCEPT ![t] = Append(@, Head(edge[serving[t]].buf))]
    /\ edge' = [edge EXCEPT ![serving[t]].buf = Tail(@)]
    /\ UNCHANGED <<sinks, edgeInbox, serving, pumping, wired, reader, charges, due>>

\* The channel is drained and its sender gone: back to the inbox.
EdgeEnds(t) ==
    /\ serving[t] # NoEdge /\ edge[serving[t]].buf = <<>> /\ ~edge[serving[t]].tx
    /\ serving' = [serving EXCEPT ![t] = NoEdge]
    /\ edge' = [edge EXCEPT ![serving[t]] = NewEdge]
    /\ UNCHANGED <<sinks, edgeInbox, pumping, wired, reader, charges, got, due>>

PumpStep(t) == TakeEdge(t) \/ Recv(t) \/ EdgeEnds(t)

HostNext ==
    \/ \E w \in BOOLEAN : ReadChunk(w)
    \/ BeginBroadcast \/ SendNext \/ EndBroadcast
    \/ \E t \in Endpoint : ConnectEdge(t) \/ DisconnectEdge(t) \/ RemoveConsumer(t) \/ PumpStep(t)

HostSpec == HostInit /\ [][HostNext]_hostVars
-----------------------------------------------------------------------------
(* Properties *)

Waiting(t) == UNION {ToSet(edge[e].buf) : e \in {e \in Edge : edge[e].target = t}}

\* Loss is counted where it happens, and once: a chunk broadcast to a live sink
\* was received, waits in the edge, or is on that consumer's counter; a chunk
\* is the producer's own loss exactly when no live sink saw it.
HostwardExact ==
    /\ \A t \in Endpoint : t \in pumping =>
          /\ due[t] = ToSet(got[t]) \cup Waiting(t) \cup full[t]
          /\ full[t] \cap (ToSet(got[t]) \cup Waiting(t)) = {}
          /\ unattached \cap due[t] = {}
    /\ unattached \cap delivered = {}
    /\ \A c \in 1 .. reader.chunk :
          c \in unattached \cup delivered \cup UNION {full[t] : t \in Endpoint}
          \/ (c = reader.chunk /\ reader.pc # "idle")

\* A consumer sees the stream in order and no chunk twice, across disconnects
\* and reconnects: an old edge's tail is drained before the next edge is read.
HostwardInOrder ==
    \A t \in Endpoint : \A i, j \in DOMAIN got[t] : i < j => got[t][i] < got[t][j]

\* A configured edge of a consumer that has a pump is never hostward-dead: its
\* receiver waits in the inbox or is being drained, and its sink is attached.
ConfiguredEdgeHeard ==
    \A t \in Endpoint : wired[t] # NoEdge =>
        /\ wired[t] \in ToSet(sinks)
        /\ t \in pumping => wired[t] \in ToSet(edgeInbox[t]) \cup {serving[t]}

\* What a consumer hears is a faithful account of the stream: in order, complete
\* up to what is counted, and every loss counted once and at the right place.
HostwardSound == HostTypeOK /\ HostwardExact /\ HostwardInOrder
=============================================================================
