----------------------------- MODULE GraphVerbs ------------------------------
(***************************************************************************)
(* The daemon's graph verbs over its configuration and its wiring maps:    *)
(* load and load --replace, add-node, remove-node --cascade, connect,      *)
(* disconnect and teardown (daemon.rs), the validation each runs first     *)
(* (core config.rs and graph.rs), and the wiring they share (runtime.rs).  *)
(* Every verb is one critical section.                                     *)
(*                                                                         *)
(* What a map holds is a handle on an object of one build of a node: a     *)
(* name removed and added again has new objects, which `build` tells apart *)
(* from the old.  Every host endpoint arbitrates (none is free-for-all).   *)
(***************************************************************************)
EXTENDS Integers, Sequences, SequencesExt, FiniteSets, FiniteSetsExt, TLC

CONSTANTS
    Name,       \* node names
    GraphKind,  \* name -> "serial", "map", "codec", "pty" or "log"
    LoadFile,   \* the configurations `load` is given
    MaxBuilds,  \* bound: verbs that build nodes
    MaxEdgeIds  \* bound: origin ids given out

VARIABLES
    config,     \* GraphConfig: the node names and the sequence of edges
    built,      \* name -> the build of the running node, for the nodes there are
    locks,      \* endpoint_locks: host endpoint -> its lock
    fanouts,    \* host_fanout: host endpoint -> its sinks
    slots,      \* target_edges: target endpoint -> its edge slot
    originLocks,\* origin_locks: target endpoint -> the lock and origin id of its edge
    nextOrigin, \* next_edge_origin
    builds

graphVars == <<config, built, locks, fanouts, slots, originLocks, nextOrigin, builds>>

None == [host |-> "none"]

Modes == {"held", "on-demand", "never"}
-----------------------------------------------------------------------------
(* Shapes.  An endpoint is a node and a local name; "" is the default one.  *)

HostEnds(n) == CASE GraphKind[n] \in {"serial", "map"} -> {<<n, "">>}
                 [] GraphKind[n] = "codec" -> {<<n, "channel">>}
                 [] OTHER -> {}

TargetEnds(n) == CASE GraphKind[n] = "map" -> {<<n, "raw">>}
                   [] GraphKind[n] \in {"codec", "pty", "log"} -> {<<n, "">>}
                   [] OTHER -> {}

EndsOf(n) == HostEnds(n) \cup TargetEnds(n)
HostEnd == UNION {HostEnds(n) : n \in Name}
TargetEnd == UNION {TargetEnds(n) : n \in Name}

\* An edge of a configuration joins two endpoints, in either order.
Edge == [ends : {{x, y} : x, y \in HostEnd \cup TargetEnd}, mode : Modes]

Ends(e, side) == e.ends \cap side
HostOf(e) == CHOOSE x \in Ends(e, HostEnd) : TRUE
TargetOf(e) == CHOOSE x \in Ends(e, TargetEnd) : TRUE
Joins(e) == Cardinality(Ends(e, HostEnd)) = 1 /\ Cardinality(Ends(e, TargetEnd)) = 1

\* effective_write_mode: a log never writes, and a map's raw side is promoted.
EffectiveMode(e) ==
    LET k == GraphKind[TargetOf(e)[1]] IN
    CASE k = "log" -> "never"
      [] k = "map" /\ e.mode = "on-demand" -> "held"
      [] OTHER -> e.mode
-----------------------------------------------------------------------------
(* Validation.                                                             *)

Arcs(edges) == {<<HostOf(e)[1], TargetOf(e)[1]>> : e \in ToSet(edges)}

\* find_cycle: a depth-first search that meets a node on its own gray path.
RECURSIVE Visit(_, _, _, _)
Visit(node, arcs, gray, black) ==
    LET Next(seen, m) ==
            IF seen.cycle \/ m \in seen.black THEN seen
            ELSE IF m \in gray \cup {node} THEN [seen EXCEPT !.cycle = TRUE]
            ELSE Visit(m, arcs, gray \cup {node}, seen.black)
        after == FoldSet(LAMBDA m, seen : Next(seen, m),
                         [cycle |-> FALSE, black |-> black],
                         {m \in Name : <<node, m>> \in arcs})
    IN  [after EXCEPT !.black = @ \cup {node}]

FindCycle(nodes, arcs) ==
    FoldSet(LAMBDA n, seen : IF seen.cycle \/ n \in seen.black THEN seen
                             ELSE Visit(n, arcs, {}, seen.black),
            [cycle |-> FALSE, black |-> {}], nodes).cycle

HeldEdges(cfg, h) ==
    {i \in DOMAIN cfg.edges :
        HostOf(cfg.edges[i]) = h /\ EffectiveMode(cfg.edges[i]) = "held"}

\* GraphConfig::validate and GraphModel::validate find nothing wrong.
Validates(cfg) ==
    /\ \A e \in ToSet(cfg.edges) :
           e.ends \subseteq UNION {EndsOf(n) : n \in cfg.nodes} /\ Joins(e)
    /\ \A i, j \in DOMAIN cfg.edges :
           i # j => TargetOf(cfg.edges[i]) # TargetOf(cfg.edges[j])
    /\ \A e \in ToSet(cfg.edges) :
           GraphKind[TargetOf(e)[1]] = "codec" => e.mode \in {"held", "never"}
    /\ \A h \in HostEnd : Cardinality(HeldEdges(cfg, h)) <= 1
    /\ ~FindCycle(cfg.nodes, Arcs(cfg.edges))
-----------------------------------------------------------------------------
(* Wiring.  w is the record of the five maps and the allocator.            *)

Wired == [locks |-> locks, fanouts |-> fanouts, slots |-> slots,
          originLocks |-> originLocks]

Adopt(w) == /\ locks' = w.locks /\ fanouts' = w.fanouts
            /\ slots' = w.slots /\ originLocks' = w.originLocks

NoWiring == [locks |-> <<>>, fanouts |-> <<>>, slots |-> <<>>, originLocks |-> <<>>]

\* Wiring::build for the endpoints of new nodes, absorbed into the maps.
Absorb(w, nodes, build) ==
    LET hosts == UNION {HostEnds(n) : n \in nodes}
        targets == UNION {TargetEnds(n) : n \in nodes}
    IN  [locks |-> [h \in hosts |-> [build |-> build, origins |-> <<>>, holder |-> -1]]
                       @@ w.locks,
         fanouts |-> [h \in hosts |-> [build |-> build, sinks |-> <<>>]] @@ w.fanouts,
         slots |-> [t \in targets |-> [build |-> build, attached |-> FALSE,
                                       registered |-> None]] @@ w.slots,
         originLocks |-> w.originLocks]

\* attach_edge: register the origin (a held one takes a free lock), fill the slot,
\* join the fan-out; an origin that may write can be named.
AttachEdge(w, e, id) ==
    LET h == HostOf(e)  t == TargetOf(e)  mode == EffectiveMode(e)
        ref == [host |-> h, build |-> w.locks[h].build, id |-> id]
    IN  [locks |-> [w.locks EXCEPT
                       ![h].origins = (id :> t) @@ @,
                       ![h].holder = IF mode = "held" /\ @ = -1 THEN id ELSE @],
         fanouts |-> [w.fanouts EXCEPT
                         ![h].sinks = Append(@, <<t, w.slots[t].build>>)],
         slots |-> [w.slots EXCEPT ![t].attached = TRUE, ![t].registered = ref],
         originLocks |-> IF mode = "never" THEN w.originLocks
                         ELSE (t :> ref) @@ w.originLocks]

Dropping(f, keys) == [k \in DOMAIN f \ keys |-> f[k]]

\* EndpointLock::unregister, on the lock a handle refers to, if it is in the maps.
UnregisterAt(ls, ref) ==
    IF ref = None \/ ref.host \notin DOMAIN ls \/ ls[ref.host].build # ref.build THEN ls
    ELSE [ls EXCEPT ![ref.host].origins = Dropping(@, {ref.id}),
                    ![ref.host].holder = IF @ = ref.id THEN -1 ELSE @]

\* The origin looked up by name, so that one that may not write stays registered.
DetachEdgeByName(w, e) ==
    LET h == HostOf(e)  t == TargetOf(e) IN
    [locks |-> IF t \in DOMAIN w.originLocks
                 THEN UnregisterAt(w.locks, w.originLocks[t]) ELSE w.locks,
     fanouts |-> [w.fanouts EXCEPT
                     ![h].sinks = SelectSeq(@, LAMBDA s : s[1] # t)],
     slots |-> [w.slots EXCEPT ![t].attached = FALSE, ![t].registered = None],
     originLocks |-> Dropping(w.originLocks, {t})]

\* detach_edge_runtime: leave the fan-out, clear the slot, and unregister what the
\* slot says was registered.
DetachEdge(w, e) ==
    LET h == HostOf(e)  t == TargetOf(e) IN
    [locks |-> UnregisterAt(w.locks, w.slots[t].registered),
     fanouts |-> [w.fanouts EXCEPT
                     ![h].sinks = SelectSeq(@, LAMBDA s : s[1] # t)],
     slots |-> [w.slots EXCEPT ![t].attached = FALSE, ![t].registered = None],
     originLocks |-> Dropping(w.originLocks, {t})]
-----------------------------------------------------------------------------
(* Verbs.  A refused verb changes nothing and is not a step.               *)

GraphInit ==
    /\ config = [nodes |-> {}, edges |-> <<>>]
    /\ built = <<>>
    /\ locks = <<>> /\ fanouts = <<>> /\ slots = <<>> /\ originLocks = <<>>
    /\ nextOrigin = 0 /\ builds = 0

\* load: onto an empty graph, or after a teardown with --replace.  The edges of
\* the file are numbered from 0, and the allocator kept clear of them.
Load(file, replace) ==
    /\ Validates(file)
    /\ replace \/ config.nodes = {}
    /\ builds < MaxBuilds /\ Len(file.edges) <= MaxEdgeIds
    /\ builds' = builds + 1
    /\ LET nodesOnly == Absorb(NoWiring, file.nodes, builds')
           numbered == [i \in DOMAIN file.edges |-> [edge |-> file.edges[i], id |-> i - 1]]
       IN  Adopt(FoldLeft(LAMBDA w, x : AttachEdge(w, x.edge, x.id), nodesOnly, numbered))
    /\ nextOrigin' = Max({nextOrigin, Len(file.edges)})
    /\ built' = [n \in file.nodes |-> builds']
    /\ config' = file

\* add-node: the node arrives with no edges.
AddNode(n) ==
    LET candidate == [config EXCEPT !.nodes = @ \cup {n}] IN
    /\ n \notin config.nodes
    /\ Validates(candidate)
    /\ builds < MaxBuilds
    /\ builds' = builds + 1
    /\ Adopt(Absorb(Wired, {n}, builds'))
    /\ built' = (n :> builds') @@ built
    /\ config' = candidate
    /\ UNCHANGED nextOrigin

Touching(n) == {e \in ToSet(config.edges) : \E x \in e.ends : x[1] = n}

\* What remove-node does to the maps: detach the node's edges, unregister it where
\* it is an origin, close and forget its endpoints, and evict the origins that
\* were registered on them.
Forgotten(w, n) ==
    LET d == FoldSet(LAMBDA e, v : DetachEdge(v, e), w, Touching(n))
        gone == EndsOf(n)
        dead == {[host |-> h, build |-> d.locks[h].build] : h \in gone \cap DOMAIN d.locks}
        alive == {t \in DOMAIN d.originLocks \ gone :
                      [host |-> d.originLocks[t].host,
                       build |-> d.originLocks[t].build] \notin dead}
    IN  [locks |-> FoldSet(LAMBDA t, ls : UnregisterAt(ls, d.originLocks[t]),
                           Dropping(d.locks, gone), DOMAIN d.originLocks \cap gone),
         fanouts |-> Dropping(d.fanouts, gone),
         slots |-> Dropping(d.slots, gone),
         originLocks |-> [t \in alive |-> d.originLocks[t]]]

\* remove-node: refused while edges are attached, unless it cascades.
RemoveNode(n, cascade) ==
    /\ n \in config.nodes
    /\ cascade \/ Touching(n) = {}
    /\ Adopt(Forgotten(Wired, n))
    /\ built' = Dropping(built, {n})
    /\ config' = [nodes |-> config.nodes \ {n},
                  edges |-> SelectSeq(config.edges,
                                      LAMBDA e : \A x \in e.ends : x[1] # n)]
    /\ UNCHANGED <<nextOrigin, builds>>

\* connect: the candidate graph passes load's own validation.
Connect(e) ==
    LET candidate == [config EXCEPT !.edges = Append(@, e)] IN
    /\ Validates(candidate)
    /\ nextOrigin < MaxEdgeIds
    /\ Adopt(AttachEdge(Wired, e, nextOrigin))
    /\ nextOrigin' = nextOrigin + 1
    /\ config' = candidate
    /\ UNCHANGED <<built, builds>>

\* connect refused because the pump has not drained its edge inbox: attach_edge did
\* nothing, but the id is spent.
ConnectInboxFull(e) ==
    /\ Validates([config EXCEPT !.edges = Append(@, e)])
    /\ nextOrigin < MaxEdgeIds
    /\ nextOrigin' = nextOrigin + 1
    /\ UNCHANGED <<config, built, locks, fanouts, slots, originLocks, builds>>

\* disconnect: the edge is found in whichever order its ends are given.
Disconnect(ends) ==
    \E i \in DOMAIN config.edges :
        /\ config.edges[i].ends = ends
        /\ Adopt(DetachEdge(Wired, config.edges[i]))
        /\ config' = [config EXCEPT !.edges = RemoveAt(@, i)]
        /\ UNCHANGED <<built, nextOrigin, builds>>

\* teardown: every map is cleared; the allocator is not.
Teardown ==
    /\ Adopt(NoWiring)
    /\ built' = <<>>
    /\ config' = [nodes |-> {}, edges |-> <<>>]
    /\ UNCHANGED <<nextOrigin, builds>>

\* load --replace aborted by a node that cannot be made: the old graph has been
\* torn down, and the nodes made so far are stopped before anything is committed.
LoadAborts(file) == Validates(file) /\ Teardown

GraphNext ==
    \/ \E f \in LoadFile : LoadAborts(f) \/ \E b \in BOOLEAN : Load(f, b)
    \/ \E n \in Name : AddNode(n) \/ \E b \in BOOLEAN : RemoveNode(n, b)
    \/ \E e \in Edge : Connect(e) \/ ConnectInboxFull(e) \/ Disconnect(e.ends)
    \/ Teardown

GraphSpec == GraphInit /\ [][GraphNext]_graphVars
-----------------------------------------------------------------------------
(* Properties.                                                             *)

GraphTypeOK ==
    /\ config.nodes \subseteq Name /\ config.edges \in Seq(Edge)
    /\ DOMAIN built = config.nodes
    /\ nextOrigin \in 0..MaxEdgeIds /\ builds \in 0..MaxBuilds

\* The running graph has no cycle, however it was put together: every set of
\* nodes has one that no node of the set feeds.
Acyclic ==
    \A S \in SUBSET config.nodes \ {{}} :
        \E n \in S : \A m \in S : <<m, n>> \notin Arcs(config.edges)

\* The edge of a configured target endpoint, by the maps' own account.
WiredAs(e) ==
    LET h == HostOf(e)  t == TargetOf(e)  ref == slots[t].registered IN
    /\ slots[t].attached
    /\ ref.host = h /\ ref.build = built[h[1]]
    /\ ref.id \in DOMAIN locks[h].origins /\ locks[h].origins[ref.id] = t
    /\ Len(SelectSeq(fanouts[h].sinks, LAMBDA s : s = <<t, built[t[1]]>>)) = 1
    /\ (t \in DOMAIN originLocks) <=> (EffectiveMode(e) # "never")
    /\ t \in DOMAIN originLocks => originLocks[t] = ref

\* The wiring is the configuration's and nothing more: every map has exactly the
\* endpoints of the graph, each with the objects of the running node; every edge
\* is in its fan-out, its slot and its lock; no lock, fan-out, slot or name is
\* left from an edge or a node that is gone; a lock's holder is one of its
\* origins, and its held origin is not kept out.
WiringMatchesConfig ==
    /\ DOMAIN locks = UNION {HostEnds(n) : n \in config.nodes}
    /\ DOMAIN fanouts = DOMAIN locks
    /\ DOMAIN slots = UNION {TargetEnds(n) : n \in config.nodes}
    /\ \A h \in DOMAIN locks : /\ locks[h].build = built[h[1]]
                               /\ fanouts[h].build = built[h[1]]
    /\ \A t \in DOMAIN slots : slots[t].build = built[t[1]]
    /\ \A e \in ToSet(config.edges) : WiredAs(e)
    /\ \A h \in DOMAIN locks :
           LET mine == {e \in ToSet(config.edges) : HostOf(e) = h} IN
           /\ Cardinality(DOMAIN locks[h].origins) = Cardinality(mine)
           /\ Len(fanouts[h].sinks) = Cardinality(mine)
           /\ locks[h].holder \in DOMAIN locks[h].origins \cup {-1}
           /\ HeldEdges(config, h) # {} => locks[h].holder # -1
    /\ \A t \in DOMAIN slots :
           slots[t].attached => \E e \in ToSet(config.edges) : TargetOf(e) = t
    /\ DOMAIN originLocks \subseteq {TargetOf(e) : e \in ToSet(config.edges)}

\* The graph that runs is legal, and wired as it is configured.
GraphSound == GraphTypeOK /\ Acyclic /\ WiringMatchesConfig
=============================================================================
