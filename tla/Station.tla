------------------------------ MODULE Station ------------------------------
(***************************************************************************)
(* What a node that forwards chunks promises its writers, whatever it is   *)
(* made of: it works on one chunk at a time, in the order it took them in, *)
(* and a chunk it took in is delivered, dropped in its own delivery, or    *)
(* charged to the node's counters as lost.  Charging takes all that has    *)
(* not been begun: by a purge, after which the station goes on, or by its  *)
(* stop, which is final and takes the chunk in work too.                   *)
(***************************************************************************)
EXTENDS Sequences, SequencesExt

CONSTANTS Chunk, NoChunk

VARIABLES
    open,       \* chunks are taken in
    pending,    \* taken in, not begun
    hand,       \* in work
    delivered,
    dropped,    \* whose delivery failed
    charged     \* counted as lost

stationVars == <<open, pending, hand, delivered, dropped, charged>>

StationInit ==
    /\ open = TRUE
    /\ pending = <<>>
    /\ hand = NoChunk
    /\ delivered = {} /\ dropped = {} /\ charged = {}

\* A chunk that the station has never had.
Take(c) ==
    /\ open
    /\ c \notin ToSet(pending) \cup {hand} \cup delivered \cup dropped \cup charged
    /\ pending' = Append(pending, c)
    /\ UNCHANGED <<open, hand, delivered, dropped, charged>>

Begin ==
    /\ hand = NoChunk /\ pending # <<>>
    /\ hand' = Head(pending)
    /\ pending' = Tail(pending)
    /\ UNCHANGED <<open, delivered, dropped, charged>>

Deliver ==
    /\ hand # NoChunk
    /\ delivered' = delivered \cup {hand}
    /\ hand' = NoChunk
    /\ UNCHANGED <<open, pending, dropped, charged>>

Drop ==
    /\ hand # NoChunk
    /\ dropped' = dropped \cup {hand}
    /\ hand' = NoChunk
    /\ UNCHANGED <<open, pending, delivered, charged>>

Purge ==
    /\ hand = NoChunk
    /\ charged' = charged \cup ToSet(pending)
    /\ pending' = <<>>
    /\ UNCHANGED <<open, hand, delivered, dropped>>

\* The stop may count one chunk that is already delivered or dropped, the last.
Stop ==
    /\ open
    /\ open' = FALSE
    /\ \E last \in SUBSET (delivered \cup dropped) :
          /\ \A c, d \in last : c = d
          /\ charged' = charged \cup ToSet(pending) \cup ({hand} \ {NoChunk}) \cup last
    /\ pending' = <<>>
    /\ hand' = NoChunk
    /\ UNCHANGED <<delivered, dropped>>

StationNext == (\E c \in Chunk : Take(c)) \/ Begin \/ Deliver \/ Drop \/ Purge \/ Stop

StationSpec == StationInit /\ [][StationNext]_stationVars
=============================================================================
