----------------------------- MODULE MCLegLink -----------------------------
(* Models of LegLink. *)
EXTENDS LegLink

MCChunk == 1 .. Commands
============================================================================
