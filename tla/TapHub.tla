------------------------------- MODULE TapHub -------------------------------
(***************************************************************************)
(* One endpoint's tap hub (daemon/src/tap.rs): the lossy feed the producer *)
(* mirrors its stream into, the replay ring, the taps of control           *)
(* connections, and the pattern waits parked on it (tap.wait).             *)
(*                                                                         *)
(* A chunk is one byte, so an offset counts chunks; byte i of the stream   *)
(* is the number i.  The pattern is an odd byte directly followed by an    *)
(* even one: it occurs in the stream at every odd i, and a window that     *)
(* closed over a hole shows it where the stream never had it.              *)
(*                                                                         *)
(* The producer is a thread and takes its steps one by one; hub            *)
(* operations are critical sections on the runtime thread.                 *)
(***************************************************************************)
EXTENDS Integers, Sequences, SequencesExt, FiniteSets

CONSTANTS
    Tap, Wait,     \* the taps and the waits that clients open
    StreamLen,     \* bound: bytes the producer emits
    FeedCap,       \* TAP_FEED_CAP
    RingCap,       \* the ring's depth, on an endpoint that has one
    TapQueueCap,   \* TAP_QUEUE_CAP
    MaxArmedWaits, \* MAX_ARMED_WAITS
    Lookback       \* the lookback of every wait

ASSUME TapAssumption ==
    /\ {StreamLen, RingCap, MaxArmedWaits} \subseteq Nat
    /\ {FeedCap, TapQueueCap, Lookback} \subseteq Nat \ {0}

VARIABLES
    emitted,  \* bytes the producer has emitted, and where it is in mirror
    feed,     \* the feed channel and its two atomics
    hub,      \* the TapHub
    taps,     \* tap -> its registration, its connection's queue, its client
    waits,    \* wait -> its registration, its verb and its client
    inHub     \* history: the bytes the hub ingested, in order

tapVars == <<emitted, feed, hub, taps, waits, inHub>>

NoHole == <<0, 0>>
Closed == [offset |-> -1, byte |-> 0, gap |-> 0]   \* TapMsg::Closed

NewHub(ring) == [ring |-> <<>>, hasRing |-> ring, gapAt |-> NoHole, seen |-> 0, orphaned |-> FALSE]
NewTap == [st |-> "none", out |-> <<>>, lane |-> FALSE, told |-> FALSE, read |-> <<>>,
           dropped |-> 0, from |-> 0, base |-> 0, gaps |-> 0]   \* gaps: history, the loss told
NewWait == [st |-> "none", win |-> <<>>, gap |-> 0, credit |-> 0, from |-> 0, end |-> "none",
            parked |-> FALSE, answer |-> "none",
            hit |-> <<>>, upto |-> 0, cut |-> 0, lossAt |-> 0]   \* history

TapInit ==
    /\ emitted = [n |-> 0, pc |-> "idle"]
    /\ \E ring \in BOOLEAN :
          hub = NewHub(ring) /\ feed = [q |-> <<>>, active |-> ring, dropped |-> 0]
    /\ taps = [k \in Tap |-> NewTap]
    /\ waits = [w \in Wait |-> NewWait]
    /\ inHub = <<>>

ingested == Len(inHub)
Armed(ws) == {w \in Wait : ws[w].st = "armed"}
OpenTaps(ts) == {k \in Tap : ts[k].st = "open"}

TapTypeOK ==
    /\ emitted.n \in 0 .. StreamLen /\ emitted.pc \in {"idle", "send", "count"}
    /\ Len(feed.q) <= FeedCap /\ feed.dropped \in Nat
    /\ Len(hub.ring) <= RingCap /\ hub.seen <= feed.dropped
    /\ \A k \in Tap : /\ taps[k].st \in {"none", "open", "closed", "orphaned"}
                      /\ Len(taps[k].out) <= TapQueueCap
    /\ \A w \in Wait : /\ waits[w].st \in {"none", "armed", "settled", "over"}
                       /\ Len(waits[w].win) <= Lookback
    /\ Cardinality(Armed(waits)) <= MaxArmedWaits
-----------------------------------------------------------------------------
(* The producer's side: TapFeed *)

\* The next byte: mirror looks at `active` first (as does a reader that skips
\* the chunk).
Emit ==
    /\ emitted.pc = "idle" /\ emitted.n < StreamLen
    /\ emitted' = [n |-> emitted.n + 1, pc |-> IF feed.active THEN "send" ELSE "count"]
    /\ UNCHANGED <<feed, hub, taps, waits, inHub>>

FeedSend ==
    /\ emitted.pc = "send"
    /\ IF Len(feed.q) < FeedCap
       THEN /\ feed' = [feed EXCEPT !.q = Append(@, emitted.n)]
            /\ emitted' = [emitted EXCEPT !.pc = "idle"]
       ELSE /\ emitted' = [emitted EXCEPT !.pc = "count"]
            /\ UNCHANGED feed
    /\ UNCHANGED <<hub, taps, waits, inHub>>

\* feed_dropped, in mirror and in skipped
FeedCount ==
    /\ emitted.pc = "count"
    /\ feed' = [feed EXCEPT !.dropped = @ + 1]
    /\ emitted' = [emitted EXCEPT !.pc = "idle"]
    /\ UNCHANGED <<hub, taps, waits, inHub>>
-----------------------------------------------------------------------------
(* The hub *)

\* refresh_active
Wanted(h, ts, ws) == ~h.orphaned /\ (h.hasRing \/ OpenTaps(ts) # {} \/ Armed(ws) # {})

Newest(s, n) == SubSeq(s, Len(s) - n + 1, Len(s))
Trimmed(s, n) == IF Len(s) > n THEN Newest(s, n) ELSE s

Odd(b) == b % 2 = 1
Pairs(win) == {i \in 1 .. Len(win) - 1 : Odd(win[i]) /\ ~Odd(win[i + 1])}

\* ScanWindow::feed and seed: a gap empties the window, the whole window is
\* scanned, the earliest hit settles the wait, and the rest is trimmed.
Scan(wt, bytes, gap) ==
    LET win == (IF gap > 0 THEN <<>> ELSE wt.win) \o bytes
        hits == Pairs(win)
        at == CHOOSE i \in hits : \A j \in hits : i <= j
    IN  IF hits = {} THEN [wt EXCEPT !.win = Trimmed(win, Lookback), !.gap = @ + gap]
        ELSE [wt EXCEPT !.win = <<>>, !.gap = @ + gap, !.st = "settled", !.end = "matched",
                        !.hit = <<win[at], win[at + 1]>>]

\* One tap's try_send in ingest.
Offered(tp, msg) ==
    IF tp.st # "open" THEN tp
    ELSE IF Len(tp.out) < TapQueueCap THEN [tp EXCEPT !.out = Append(@, msg), !.gaps = @ + msg.gap]
    ELSE [tp EXCEPT !.dropped = @ + 1]

\* The loss this wait answers for: what happened before it was armed is not its.
Charge(wt, gap) == IF gap > wt.credit THEN gap - wt.credit ELSE 0

\* ingest: ring, taps and waits see the byte in one critical section.
Ingest ==
    /\ feed.q # <<>>
    /\ LET b == Head(feed.q)
           gap == feed.dropped - hub.seen
           msg == [offset |-> ingested, byte |-> b, gap |-> gap]
       IN  /\ hub' = [hub EXCEPT
                        !.seen = feed.dropped,
                        !.gapAt = IF hub.hasRing /\ gap > 0 THEN <<ingested, gap>> ELSE @,
                        !.ring = IF hub.hasRing THEN Trimmed(Append(@, b), RingCap) ELSE @]
           /\ taps' = [k \in Tap |-> Offered(taps[k], msg)]
           /\ waits' = [w \in Wait |->
                 IF waits[w].st = "armed"
                 THEN [Scan(waits[w], <<b>>, Charge(waits[w], gap)) EXCEPT !.credit = 0]
                 ELSE waits[w]]
           /\ inHub' = Append(inHub, b)
    /\ feed' = [feed EXCEPT !.q = Tail(@), !.active = Wanted(hub', taps', waits')]
    /\ UNCHANGED emitted

\* A tap's part of detach_all: the terminal event, past a full queue if need be.
TellClosed(tp) ==
    IF tp.st # "open" THEN tp
    ELSE IF Len(tp.out) < TapQueueCap
    THEN [tp EXCEPT !.st = "orphaned", !.out = Append(@, Closed)]
    ELSE [tp EXCEPT !.st = "orphaned", !.lane = TRUE]

\* detach_all: the graph dropped the endpoint.
DetachAll ==
    /\ ~hub.orphaned
    /\ hub' = [hub EXCEPT !.orphaned = TRUE, !.hasRing = FALSE, !.ring = <<>>]
    /\ taps' = [k \in Tap |-> TellClosed(taps[k])]
    /\ waits' = [w \in Wait |-> IF waits[w].st = "armed"
                                THEN [waits[w] EXCEPT !.st = "settled", !.end = "closed"]
                                ELSE waits[w]]
    /\ feed' = [feed EXCEPT !.active = FALSE]
    /\ UNCHANGED <<emitted, inHub>>
-----------------------------------------------------------------------------
(* Taps *)

Refresh(ts, ws) == feed' = [feed EXCEPT !.active = Wanted(hub, ts, ws)]

Piece(o) == [offset |-> o, byte |-> hub.ring[o - (ingested - Len(hub.ring)) + 1], gap |-> 0]

\* Mutant of Register: the replay keeps the oldest bytes of the ring.
RegisterOldest(n) ==
    LET first == ingested - Len(hub.ring)
    IN  [NewTap EXCEPT !.st = "open", !.from = first, !.base = hub.seen,
                       !.out = [i \in 1 .. n |-> Piece(first + i - 1)]]

\* register, with n bytes of replay: the newest, up to the live edge.  The
\* baseline is the loss the hub has already reported.
Register(n) ==
    LET first == ingested - n
    IN  [NewTap EXCEPT !.st = "open", !.from = first, !.base = hub.seen,
                       !.out = [i \in 1 .. n |-> Piece(first + i - 1)]]

\* tap.open on a connection of its own: the replay is what its queue takes.
TapOpen(k, replay) ==
    /\ taps[k].st = "none" /\ ~hub.orphaned
    /\ LET n == IF replay THEN Len(Trimmed(hub.ring, TapQueueCap)) ELSE 0
       IN  taps' = [taps EXCEPT ![k] = Register(n)]
    /\ Refresh(taps', waits)
    /\ UNCHANGED <<emitted, hub, waits, inHub>>

\* tap.close, or the connection's end.
TapClose(k) ==
    /\ taps[k].st = "open"
    /\ taps' = [taps EXCEPT ![k].st = "closed", ![k].out = <<>>]
    /\ Refresh(taps', waits)
    /\ UNCHANGED <<emitted, hub, waits, inHub>>

\* The connection writes the next event; terminal events overtake data.
AfterRead(tp) ==
    IF tp.lane THEN [tp EXCEPT !.lane = FALSE, !.told = TRUE]
    ELSE IF Head(tp.out) = Closed THEN [tp EXCEPT !.out = Tail(@), !.told = TRUE]
    ELSE [tp EXCEPT !.out = Tail(@), !.read = Append(@, Head(tp.out))]

TapRead(k) ==
    /\ taps[k].lane \/ taps[k].out # <<>>
    /\ taps' = [taps EXCEPT ![k] = AfterRead(taps[k])]
    /\ UNCHANGED <<emitted, feed, hub, waits, inHub>>
-----------------------------------------------------------------------------
(* Pattern waits *)

\* The ring after its newest hole, and the hole cut out.
Seed(replay) ==
    LET first == ingested - Len(hub.ring)
        hole == hub.gapAt[1] > first
    IN  IF ~(replay /\ hub.hasRing) THEN [snap |-> <<>>, from |-> ingested, cut |-> 0]
        ELSE IF hole THEN [snap |-> Newest(hub.ring, ingested - hub.gapAt[1]),
                           from |-> hub.gapAt[1], cut |-> hub.gapAt[2]]
        ELSE [snap |-> hub.ring, from |-> first, cut |-> 0]

\* Refused before anything is scanned.
AtMaximum == Cardinality(Armed(waits)) >= MaxArmedWaits

\* tap.wait up to its await: refused at the maximum, answered by the ring, or
\* armed, in one critical section.
ArmWait(w, replay) ==
    /\ waits[w].st = "none" /\ ~hub.orphaned
    /\ LET s == Seed(replay)
           fresh == [NewWait EXCEPT !.st = "armed", !.from = s.from, !.parked = TRUE,
                                    !.credit = feed.dropped - hub.seen,
                                    !.cut = s.cut, !.lossAt = feed.dropped]
           seeded == Scan(fresh, s.snap, s.cut)
       IN  waits' = [waits EXCEPT ![w] =
              IF AtMaximum
              THEN [NewWait EXCEPT !.st = "over", !.answer = "refused"]
              ELSE IF seeded.st = "settled"
              THEN [seeded EXCEPT !.st = "over", !.answer = "matched", !.parked = FALSE]
              ELSE seeded]
    /\ Refresh(taps, waits')
    /\ UNCHANGED <<emitted, hub, taps, inHub>>

\* The verb is polled and finds its outcome in the channel.
WaitAnswered(w) ==
    /\ waits[w].st = "settled" /\ waits[w].parked
    /\ waits' = [waits EXCEPT ![w] = [@ EXCEPT !.st = "over", !.parked = FALSE, !.answer = waits[w].end]]
    /\ UNCHANGED <<emitted, feed, hub, taps, inHub>>

TimedOut(wt) == [wt EXCEPT !.st = "over", !.parked = FALSE, !.answer = "timed out", !.upto = ingested]

\* Mutant of WaitDeadline: the deadline may win over an outcome that is there.
WaitDeadlineUnbiased(w) ==
    /\ waits[w].st \in {"armed", "settled"} /\ waits[w].parked
    /\ waits' = [waits EXCEPT ![w] = TimedOut(@)]
    /\ Refresh(taps, waits')
    /\ UNCHANGED <<emitted, hub, taps, inHub>>

\* The deadline's arm comes second: it runs only while nothing has settled.
WaitDeadline(w) ==
    /\ waits[w].st = "armed" /\ waits[w].parked
    /\ waits' = [waits EXCEPT ![w] = TimedOut(@)]
    /\ Refresh(taps, waits')
    /\ UNCHANGED <<emitted, hub, taps, inHub>>

\* The connection ends: the verb is dropped and its guard disarms.
WaitDropped(w) ==
    /\ waits[w].parked
    /\ waits' = [waits EXCEPT ![w] = [@ EXCEPT !.st = "over", !.parked = FALSE]]
    /\ Refresh(taps, waits')
    /\ UNCHANGED <<emitted, hub, taps, inHub>>

TapNext ==
    \/ Emit \/ FeedSend \/ FeedCount \/ Ingest \/ DetachAll
    \/ \E k \in Tap : (\E r \in BOOLEAN : TapOpen(k, r)) \/ TapClose(k) \/ TapRead(k)
    \/ \E w \in Wait : (\E r \in BOOLEAN : ArmWait(w, r)) \/ WaitAnswered(w) \/ WaitDeadline(w)
                       \/ WaitDropped(w)

TapSpec == TapInit /\ [][TapNext]_tapVars
-----------------------------------------------------------------------------
(* Properties *)

Increasing(s) == \A i, j \in DOMAIN s : i < j => s[i] < s[j]

\* Every byte of the stream reaches the hub, waits in the feed or is counted as
\* feed loss, whether the feed was full, inactive, or changing meanwhile.
FeedExact ==
    /\ emitted.n = ingested + Len(feed.q) + feed.dropped + (IF emitted.pc = "idle" THEN 0 ELSE 1)
    /\ Increasing(inHub \o feed.q)

\* The producer mirrors while anyone observes: a wait on an endpoint without
\* ring or tap too, and nobody's leaving stops the feed of another.
ObserversAreFed == hub.hasRing \/ OpenTaps(taps) # {} \/ Armed(waits) # {} => feed.active

\* The terminal event is the last a queue gets.
Data(k) ==
    LET out == taps[k].out
    IN  taps[k].read \o (IF out # <<>> /\ Last(out) = Closed THEN Front(out) ELSE out)

\* The splice is exact: from from_offset on, replay and then live, a tap gets
\* every byte the hub ingested at its true offset, once, or counts it dropped.
SpliceExact ==
    \A k \in Tap :
        /\ \A i \in DOMAIN Data(k) : /\ Data(k)[i].byte = inHub[Data(k)[i].offset + 1]
                                     /\ Data(k)[i].offset >= taps[k].from
        /\ Increasing([i \in DOMAIN Data(k) |-> Data(k)[i].offset])
        /\ taps[k].st = "open" => ingested - taps[k].from = Len(Data(k)) + taps[k].dropped

\* A tap that lost nothing of its own can account for all loss at the feed: its
\* baseline and the gaps it was told add up to it.
GapsAddUp ==
    \A k \in Tap : taps[k].st = "open" /\ taps[k].dropped = 0 =>
        taps[k].base + taps[k].gaps = hub.seen

\* The terminal event is not droppable: a tap whose endpoint went is told, or
\* will be by its connection's next writes.
ClosedIsTold ==
    \A k \in Tap : taps[k].st = "orphaned" =>
        taps[k].told \/ taps[k].lane \/ Closed \in ToSet(taps[k].out)

Occurs(o) == Odd(inHub[o]) /\ inHub[o + 1] = inHub[o] + 1

\* A wait that reports no gap missed nothing: while it is armed, and when it
\* answers timed out, the pattern is nowhere in what the hub ingested since its
\* from_offset, the ring's part and the seam included.
NoFalseTimeout ==
    \A w \in Wait :
        LET wt == waits[w]
            upto == IF wt.st = "armed" THEN ingested ELSE wt.upto
        IN  (wt.st = "armed" \/ wt.answer = "timed out") /\ wt.gap = 0 =>
                \A o \in wt.from + 1 .. upto - 1 : ~Occurs(o)

\* A wait answers for exactly the loss of its own time, and for the hole that
\* was cut out of its replay.
WaitGapExact ==
    \A w \in Armed(waits) :
        LET since == hub.seen - waits[w].lossAt
        IN  waits[w].gap = waits[w].cut + (IF since > 0 THEN since ELSE 0)

\* An armed wait has a verb that will disarm it: no deadline, end of connection
\* or removal leaves one behind.
ArmedIsParked == \A w \in Armed(waits) : waits[w].parked

\* The pattern wait's promise: a match never spans bytes that were not observed.
NoMatchAcrossHole == \A w \in Wait : waits[w].hit # <<>> => waits[w].hit[2] = waits[w].hit[1] + 1

\* A tap can trust its offsets and its gaps: every byte between the producer and
\* the tap is delivered at its place or counted once, the producer mirrors as long
\* as somebody observes, and the end of the endpoint is told.
TapSound ==
    /\ TapTypeOK
    /\ FeedExact /\ ObserversAreFed
    /\ SpliceExact /\ GapsAddUp /\ ClosedIsTold

\* A wait can trust its answer: it timed out only if the pattern did not come in
\* what it observed, its gap is the loss of its own time, and none is left armed.
WaitSound == NoFalseTimeout /\ WaitGapExact /\ ArmedIsParked
=============================================================================
