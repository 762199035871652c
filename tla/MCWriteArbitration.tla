------------------------- MODULE MCWriteArbitration -------------------------
(***************************************************************************)
(* Models of WriteArbitration.  h is a held codec, p an on-demand pty, g a *)
(* leg channel, q a held pty.                                              *)
(***************************************************************************)
EXTENDS WriteArbitration, TLC

CONSTANTS h, p, g, q

Kinds == h :> "codec" @@ p :> "pty" @@ g :> "leg" @@ q :> "pty"
Modes == h :> "held" @@ p :> "on-demand" @@ g :> "on-demand" @@ q :> "held"
MCKindOf == [t \in Target |-> Kinds[t]]
MCModeOf == [t \in Target |-> Modes[t]]

IdSymmetry ==
    Permutations(Client) \cup Permutations(EdgeId) \cup Permutations(SendId)

\* The stolen and purged fields are reported, never read.
Control ==
    <<lock.mode, lock.holder, lock.waiters, lock.generation,
      closed, edge, task, leases>>
=============================================================================
