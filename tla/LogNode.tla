------------------------------ MODULE LogNode ------------------------------
(***************************************************************************)
(* A log node (daemon/src/nodes/log.rs): the pump that queues hostward     *)
(* chunks, the writer thread that drains the queue into the file and does  *)
(* the queued rotations, `rotate`, and the two phases of teardown.         *)
(*                                                                         *)
(* A node that is removed and added again, or reloaded after the daemon    *)
(* died, is a new generation over the same directory.  A writer that       *)
(* outlived its node's flush wait stays, detached, with its own queue.     *)
(* An action is a critical section of the queue's mutex together with the  *)
(* file operations the writer makes before it.                             *)
(***************************************************************************)
EXTENDS Integers, Sequences, SequencesExt, FiniteSets

CONSTANTS
    LogCap,          \* QUEUE_CAP_BYTES
    LogLen,          \* the lengths of the chunks, in the order they arrive
    LogGenerations,  \* bound: nodes created over the directory
    LogRotates,      \* bound: calls of rotate
    LogWedges,       \* whether a writer may outlive its node's flush wait
    Rotate,          \* QueueItem::Rotate
    Current          \* the name of the file being written

ASSUME LogAssumption ==
    /\ LogCap \in Nat /\ LogGenerations \in Nat /\ LogRotates \in Nat
    /\ LogWedges \in BOOLEAN
    /\ LogLen \in Seq(Nat \ {0})
    /\ Current \notin Nat   \* a rotated file's name has a suffix

LogChunk == DOMAIN LogLen
Generation == 1 .. LogGenerations
Item == LogChunk \cup {Rotate}
Suffix == 0 .. LogRotates + LogGenerations

VARIABLES
    logq,      \* generation -> its Queue
    writer,    \* generation -> its writer thread
    logLive,   \* the generation in the graph, 0 for none
    logName,   \* the directory: file name -> inode
    logInode,  \* inode -> the pieces <<chunk, bytes>> written to it
    ingested,  \* history: chunks that reached a pump
    homeOf,    \* history: chunk -> generation that ingested it
    landed,    \* history: generation -> bytes written
    promised   \* history: the answers of rotate

logVars == <<logq, writer, logLive, logName, logInode, ingested, homeOf, landed, promised>>
logHistory == <<ingested, homeOf, landed, promised>>

NoRotation == -1   \* rotation: None

ItemLen(it) == IF it = Rotate THEN 0 ELSE LogLen[it]
Bytes(items) == FoldSeq(LAMBDA it, n : ItemLen(it) + n, 0, items)
Marks(items) == Cardinality({i \in DOMAIN items : items[i] = Rotate})

LogTypeOK ==
    /\ \A g \in Generation :
          /\ logq[g].items \in Seq(Item) /\ logq[g].queued \in Nat
          /\ logq[g].draining \in Nat /\ logq[g].dropped \in Nat
          /\ logq[g].pending \in Nat /\ logq[g].rotation \in Suffix \cup {NoRotation}
          /\ writer[g].pc \in {"none", "parked", "top", "writing", "renamed", "exiting", "done"}
          /\ writer[g].batch \in Seq(Item)
    /\ logLive \in Generation \cup {0}
    /\ \A f \in DOMAIN logName : logName[f] \in DOMAIN logInode

NoQueue == [items |-> <<>>, queued |-> 0, draining |-> 0, dropped |-> 0, pending |-> 0,
            rotation |-> NoRotation, closed |-> FALSE, gone |-> TRUE, faulted |-> FALSE,
            overflow |-> "drop-oldest"]
NoWriter == [pc |-> "none", batch |-> <<>>, closing |-> FALSE, notified |-> FALSE, file |-> 0]

LogInit ==
    /\ logq = [g \in Generation |-> NoQueue]
    /\ writer = [g \in Generation |-> NoWriter]
    /\ logLive = 0
    /\ logName \in {<<>>, [f \in {0} |-> 1]} /\ logInode = <<<<>>>>
    /\ ingested = 0 /\ homeOf = [c \in LogChunk |-> 0]
    /\ landed = [g \in Generation |-> 0]
    /\ promised = {}
-----------------------------------------------------------------------------
(* The directory *)

\* Mutant of ScanRotation: a failed or skipped scan is "no rotations yet".
ScanRotationNone == NoRotation

\* scan_rotation: the highest suffix in the directory.
ScanRotation ==
    LET found == DOMAIN logName \ {Current}
    IN  IF found = {} THEN NoRotation ELSE CHOOSE n \in found : \A m \in found : m <= n

\* open_append: the current file, created when it is missing.
Opened == IF Current \in DOMAIN logName THEN logName[Current] ELSE Len(logInode) + 1
OpenAppend ==
    IF Current \in DOMAIN logName
    THEN UNCHANGED <<logName, logInode>>
    ELSE /\ logName' = [f \in DOMAIN logName \cup {Current} |->
                        IF f = Current THEN Opened ELSE logName[f]]
         /\ logInode' = Append(logInode, <<>>)

\* rename(2): the target name is replaced without a word.
Renamed(n) ==
    [f \in (DOMAIN logName \cup {n}) \ {Current} |->
        IF f = n THEN logName[Current] ELSE logName[f]]
-----------------------------------------------------------------------------
(* The node *)

NextGen == Cardinality({g \in Generation : writer[g].pc # "none" \/ logq[g].faulted}) + 1

\* LogNode::create: scan, open, spawn the writer.  Without a writer (no file,
\* no scan, no thread) the node is faulted and counts everything as lost.
CreateLog(overflow) ==
    /\ logLive = 0 /\ NextGen \in Generation
    /\ LET g == NextGen
           base == [NoQueue EXCEPT !.overflow = overflow]
       IN  /\ logLive' = g
           /\ \/ /\ OpenAppend
                 /\ logq' = [logq EXCEPT ![g] = [base EXCEPT !.rotation = ScanRotation, !.gone = FALSE]]
                 /\ writer' = [writer EXCEPT ![g] = [NoWriter EXCEPT !.pc = "top", !.file = Opened]]
              \/ /\ OpenAppend    \* the scan or the spawn failed
                 /\ logq' = [logq EXCEPT ![g] = [base EXCEPT !.faulted = TRUE]]
                 /\ UNCHANGED writer
              \/ /\ UNCHANGED <<logName, logInode, writer>>   \* the open failed
                 /\ logq' = [logq EXCEPT ![g] = [base EXCEPT !.faulted = TRUE]]
    /\ UNCHANGED logHistory

\* The `k` oldest chunks of the queue; rotation markers are stepped over.
Oldest(items, k) ==
    LET chunks == SelectSeq(items, LAMBDA it : it # Rotate)
    IN  ToSet(SubSeq(chunks, 1, k))

\* The chunks drop-oldest evicts: the fewest that let `c` in, or all of them.
Evicted(q, c) ==
    LET n == Len(q.items) - Marks(q.items)
        Enough(k) ==
            LET kept == SelectSeq(q.items, LAMBDA it : it \notin Oldest(q.items, k))
            IN  k = n \/ Bytes(kept) + LogLen[c] <= LogCap
    IN  Oldest(q.items, CHOOSE k \in 0 .. n : Enough(k) /\ \A j \in 0 .. k - 1 : ~Enough(j))

\* Mutant of Evict: a queue at its bound forgets the rotations too.
EvictMarkers(q, c) ==
    LET dead == Evicted(q, c)
    IN  [q EXCEPT !.items = SelectSeq(@, LAMBDA it : it \in LogChunk \ dead),
                  !.queued = Bytes(SelectSeq(q.items, LAMBDA it : it \notin dead)),
                  !.dropped = @ + Bytes(SetToSeq(dead))]

Evict(q, c) ==
    LET dead == Evicted(q, c)
    IN  [q EXCEPT !.items = SelectSeq(@, LAMBDA it : it \notin dead),
                  !.queued = @ - Bytes(SetToSeq(dead)),
                  !.dropped = @ + Bytes(SetToSeq(dead))]

Queued(q, c) == [q EXCEPT !.items = Append(@, c), !.queued = @ + LogLen[c]]
Lost(q, n) == [q EXCEPT !.dropped = @ + n]

\* enqueue
Enqueue(q, c) ==
    IF q.gone THEN Lost(q, LogLen[c])
    ELSE IF q.queued + LogLen[c] <= LogCap THEN Queued(q, c)
    ELSE IF q.overflow = "drop-oldest" THEN Queued(Evict(q, c), c)
    ELSE [Lost(q, LogLen[c]) EXCEPT !.faulted = TRUE]

Notify(g) == writer' = [writer EXCEPT ![g].notified = TRUE]

\* pump: the next hostward chunk reaches the live node.
Ingest ==
    /\ logLive # 0 /\ ~logq[logLive].closed
    /\ ingested < Len(LogLen)
    /\ LET g == logLive
           c == ingested + 1
           q == Enqueue(logq[g], c)
       IN  /\ logq' = [logq EXCEPT ![g] = q]
           /\ IF q.items # logq[g].items THEN Notify(g) ELSE UNCHANGED writer
           /\ ingested' = c
           /\ homeOf' = [homeOf EXCEPT ![c] = g]
    /\ UNCHANGED <<logLive, logName, logInode, landed, promised>>

\* Mutant of RequestRotate: the writer is not woken.
RequestRotateSilently ==
    /\ logLive # 0 /\ Cardinality(promised) < LogRotates
    /\ LET g == logLive
           q == logq[g]
       IN  /\ ~q.faulted /\ ~q.closed
           /\ logq' = [logq EXCEPT ![g].items = Append(@, Rotate), ![g].pending = @ + 1]
           /\ promised' = promised \cup {[gen |-> g, number |-> q.rotation + 1 + q.pending, cut |-> ingested]}
    /\ UNCHANGED <<writer, logLive, logName, logInode, ingested, homeOf, landed>>

\* rotate: refused by a faulted node; answers the number the rotation will get.
RequestRotate ==
    /\ logLive # 0 /\ Cardinality(promised) < LogRotates
    /\ LET g == logLive
           q == logq[g]
       IN  /\ ~q.faulted /\ ~q.closed
           /\ logq' = [logq EXCEPT ![g].items = Append(@, Rotate), ![g].pending = @ + 1]
           /\ promised' = promised \cup {[gen |-> g, number |-> q.rotation + 1 + q.pending, cut |-> ingested]}
           /\ Notify(g)
    /\ UNCHANGED <<logLive, logName, logInode, ingested, homeOf, landed>>

\* signal_stop: the pump is aborted and the writer told to close.
SignalLogStop ==
    /\ logLive # 0 /\ ~logq[logLive].closed
    /\ logq' = [logq EXCEPT ![logLive].closed = TRUE]
    /\ Notify(logLive)
    /\ UNCHANGED <<logLive, logName, logInode, logHistory>>

\* teardown: the writer is joined, or detached when the flush wait is over.
TeardownLog ==
    /\ logLive # 0 /\ logq[logLive].closed
    /\ LogWedges \/ writer[logLive].pc \in {"none", "done"}
    /\ logLive' = 0
    /\ UNCHANGED <<logq, writer, logName, logInode, ingested, homeOf, landed, promised>>

\* The daemon dies: every writer and every queue with it.
LogCrash ==
    /\ \E g \in Generation : writer[g].pc \notin {"none", "done"}
    /\ writer' = [g \in Generation |->
                     IF writer[g].pc = "none" THEN NoWriter
                     ELSE [NoWriter EXCEPT !.pc = "done"]]
    /\ logq' = [g \in Generation |->
                  [NoQueue EXCEPT !.faulted = logq[g].faulted, !.closed = TRUE]]
    /\ logLive' = 0
    /\ homeOf' = [c \in LogChunk |-> 0]   \* what the daemon held is forgotten
    /\ landed' = [g \in Generation |-> 0]
    /\ UNCHANGED <<logName, logInode, ingested, promised>>
-----------------------------------------------------------------------------
(* The writer thread *)

\* The top of writer_drain's loop: everything queued becomes the batch.
TakeBatch(q) == [q EXCEPT !.items = <<>>, !.draining = q.queued, !.queued = 0]

WriterTop(g) ==
    /\ writer[g].pc = "top" \/ (writer[g].pc = "parked" /\ writer[g].notified)
    /\ LET q == logq[g]
       IN  IF q.items # <<>> \/ q.closed
           THEN /\ logq' = [logq EXCEPT ![g] = TakeBatch(q)]
                /\ writer' = [writer EXCEPT ![g] = [@ EXCEPT !.pc = "writing", !.batch = q.items,
                                                             !.closing = q.closed, !.notified = FALSE]]
           ELSE /\ logq' = [logq EXCEPT ![g].draining = 0]
                /\ writer' = [writer EXCEPT ![g] = [@ EXCEPT !.pc = "parked", !.notified = FALSE]]
    /\ UNCHANGED <<logLive, logName, logInode, logHistory>>

InBatch(g) == writer[g].pc = "writing" /\ writer[g].batch # <<>>
Advance(g) == writer' = [writer EXCEPT ![g].batch = Tail(@)]
StopWriting(g) == writer' = [writer EXCEPT ![g].pc = "exiting", ![g].batch = <<>>]

\* count_abandoned, on the exits that fault the node.
CountAbandoned(q, rest) ==
    [q EXCEPT !.dropped = @ + Bytes(rest), !.draining = 0, !.faulted = TRUE]

\* write_chunk: the file takes the first n bytes of the chunk.
WriteItem(g) ==
    /\ InBatch(g) /\ Head(writer[g].batch) # Rotate
    /\ LET c == Head(writer[g].batch)
       IN  \E n \in 0 .. LogLen[c] :
              /\ logInode' = IF n = 0 THEN logInode
                             ELSE [logInode EXCEPT ![writer[g].file] = Append(@, <<c, n>>)]
              /\ landed' = [landed EXCEPT ![g] = @ + n]
              /\ LET q == Lost(logq[g], LogLen[c] - n)
                 IN  IF n < LogLen[c] /\ q.overflow = "fault"
                     THEN /\ logq' = [logq EXCEPT ![g] = CountAbandoned(q, Tail(writer[g].batch))]
                          /\ StopWriting(g)
                     ELSE logq' = [logq EXCEPT ![g] = q] /\ Advance(g)
    /\ UNCHANGED <<logLive, logName, ingested, homeOf, promised>>

\* Either half of a rotation failed: the node faults and the writer stops.
RotationFails(g) ==
    /\ LET q == CountAbandoned(logq[g], Tail(writer[g].batch))
       IN  logq' = [logq EXCEPT ![g] = [q EXCEPT !.pending = @ - 1]]
    /\ StopWriting(g)

\* perform_rotation up to the rename.
RenameItem(g) ==
    /\ InBatch(g) /\ Head(writer[g].batch) = Rotate
    /\ \/ /\ Current \in DOMAIN logName
          /\ logName' = Renamed(logq[g].rotation + 1)
          /\ writer' = [writer EXCEPT ![g].pc = "renamed"]
          /\ UNCHANGED logq
       \/ RotationFails(g) /\ UNCHANGED logName
    /\ UNCHANGED <<logLive, logInode, logHistory>>

\* perform_rotation from the rename on.
ReopenItem(g) ==
    /\ writer[g].pc = "renamed"
    /\ \/ /\ OpenAppend
          /\ logq' = [logq EXCEPT ![g].rotation = @ + 1, ![g].pending = @ - 1]
          /\ writer' = [writer EXCEPT ![g].pc = "writing", ![g].batch = Tail(@), ![g].file = Opened]
       \/ RotationFails(g) /\ UNCHANGED <<logName, logInode>>
    /\ UNCHANGED <<logLive, logHistory>>

BatchDone(g) ==
    /\ writer[g].pc = "writing" /\ writer[g].batch = <<>>
    /\ writer' = [writer EXCEPT ![g].pc = IF writer[g].closing THEN "exiting" ELSE "top"]
    /\ logq' = IF writer[g].closing THEN [logq EXCEPT ![g].draining = 0] ELSE logq
    /\ UNCHANGED <<logLive, logName, logInode, logHistory>>

\* abandon_queue, and the done signal.
WriterExit(g) ==
    /\ writer[g].pc = "exiting"
    /\ logq' = [logq EXCEPT ![g].gone = TRUE, ![g].items = <<>>, ![g].queued = 0,
                            ![g].draining = 0, ![g].dropped = @ + Bytes(logq[g].items)]
    /\ writer' = [writer EXCEPT ![g].pc = "done"]
    /\ UNCHANGED <<logLive, logName, logInode, logHistory>>

LogNext ==
    \/ \E o \in {"drop-oldest", "fault"} : CreateLog(o)
    \/ Ingest \/ RequestRotate \/ SignalLogStop \/ TeardownLog \/ LogCrash
    \/ \E g \in Generation : WriterTop(g) \/ WriteItem(g) \/ RenameItem(g) \/ ReopenItem(g)
                             \/ BatchDone(g) \/ WriterExit(g)

\* A writer that may take the mutex does; a file operation may never return.
LogFairness == \A g \in Generation : WF_logVars(WriterTop(g))

LogSpec == LogInit /\ [][LogNext]_logVars /\ LogFairness
-----------------------------------------------------------------------------
(* Properties *)

\* Every byte that reached a pump is in a file, on dropped_bytes, or resident,
\* and `state` never understates what is resident, nor calls pending what nobody
\* will write; the queue keeps its bound.
LogExact ==
    \A g \in Generation :
        LET q == logq[g]
            mine == SelectSeq([c \in LogChunk |-> c], LAMBDA c : homeOf[c] = g)
        IN  /\ Bytes(mine) = landed[g] + q.dropped + Bytes(q.items) + Bytes(writer[g].batch)
            /\ q.queued = Bytes(q.items) /\ (q.gone => q.items = <<>>)
            /\ q.draining >= Bytes(writer[g].batch)
            /\ q.queued > LogCap => Len(SelectSeq(q.items, LAMBDA it : it # Rotate)) = 1

Holds(f) == {piece[1] : piece \in ToSet(logInode[logName[f]])}
Before(a, b) == b = Current \/ (a # Current /\ a < b)

\* The files, in the order of their suffixes and the current one last, hold the
\* stream in order, no chunk twice.
LogInOrder ==
    /\ \A i \in DOMAIN logInode : \A j, k \in DOMAIN logInode[i] :
          j < k => logInode[i][j][1] < logInode[i][k][1]
    /\ \A a, b \in DOMAIN logName : a # b /\ Before(a, b) =>
          \A c \in Holds(a), d \in Holds(b) : c < d

Performed(p) == p.number <= logq[p.gen].rotation

\* A rotation splits the stream where it was asked for: what was ingested
\* before the call is in the files up to its number, the rest in later ones.
RotationCut ==
    \A p \in promised : Performed(p) =>
        \A f \in DOMAIN logName, c \in LogChunk :
            c \in Holds(f) => (Before(p.number, f) <=> c > p.cut)

\* A writer that lives owes exactly the rotations it promised: overflow never
\* evicts one, and their numbers follow each other.
RotationsOwed ==
    \A g \in Generation : writer[g].pc \notin {"none", "exiting", "done"} =>
        /\ logq[g].pending = Marks(logq[g].items) + Marks(writer[g].batch)
        /\ {p.number : p \in {p \in promised : p.gen = g /\ ~Performed(p)}}
             = logq[g].rotation + 1 .. logq[g].rotation + logq[g].pending

\* No rotation replaces a rotated file: the rename never lands on a name that
\* is taken, across failed rotations, crashes and new nodes.  A writer that
\* outlives its node's flush wait breaks it (LogWedges): it and the next node's
\* writer count the rotations of one directory apart.
RotationNeverReplaced ==
    [][\A f \in DOMAIN logName \ {Current} : logName'[f] = logName[f]]_logVars

\* A parked writer that has something to do wakes: no push, rotation or close
\* forgets the condition variable.
WriterWakes ==
    \A g \in Generation :
        (writer[g].pc = "parked" /\ (logq[g].items # <<>> \/ logq[g].closed)) ~> writer[g].pc # "parked"

\* The files and the counters account for the stream: nothing is lost uncounted,
\* repeated or reordered, every rotation cuts where it was asked for and none that
\* was promised is forgotten.
LogSound == LogTypeOK /\ LogExact /\ LogInOrder /\ RotationCut /\ RotationsOwed
=============================================================================
