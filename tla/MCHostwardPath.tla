--------------------------- MODULE MCHostwardPath ---------------------------
(***************************************************************************)
(* Models of what an endpoint does with the bytes of its device: the       *)
(* fan-out to its edges, or the mirror into its tap hub.  A behaviour is   *)
(* about one of the two; the producer gives each its own copy.             *)
(***************************************************************************)
EXTENDS Hostward, TapHub, TLC

VARIABLE path

pathVars == <<path, hostVars, tapVars>>

PathInit ==
    /\ HostInit /\ TapInit
    /\ \/ path = "edges" /\ ~hub.hasRing
       \/ path = "taps" /\ pumping = {}

PathNext ==
    /\ UNCHANGED path
    /\ \/ path = "edges" /\ HostNext /\ UNCHANGED tapVars
       \/ path = "taps" /\ TapNext /\ UNCHANGED hostVars

PathSpec == PathInit /\ [][PathNext]_pathVars

WaitSymmetry == Permutations(Wait)
=============================================================================
