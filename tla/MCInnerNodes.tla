---------------------------- MODULE MCInnerNodes ----------------------------
(***************************************************************************)
(* Models of the nodes behind the boundary ones: the channel pumps of a    *)
(* map or codec, an exec codec, or a log.  A behaviour is about one of     *)
(* them.  Chunks a1, a2 go to pump pa, b1 to pump pb; edges e1 and e2      *)
(* attach to upstream node u, e3 to node v.                                *)
(***************************************************************************)
EXTENDS InteriorPump, ExecCodec, LogNode

CONSTANTS pa, pb, u, v, a1, a2, b1, e1, e2, e3

MCPumpOf == [c \in Chunk |-> IF c \in {a1, a2} THEN pa ELSE pb]
MCHostOf == [e \in Edge |-> IF e = e3 THEN v ELSE u]
MCLogLen == <<1, 2>>

VARIABLE nodeIs

innerVars == <<nodeIs, vars, execVars, logVars>>

\* An exec codec that is not there.
NoExec ==
    /\ arrived = [t |-> 0, h |-> 0]
    /\ chan = [queue |-> <<>>, held |-> 0]
    /\ merge = [queue |-> <<>>, held |-> 0, writing |-> FALSE, mux |-> 0]
    /\ kid = NoKid
    /\ super = [at |-> "gone", live |-> FALSE, spawns |-> 0]
    /\ execNode = [status |-> "waiting", attached |-> FALSE, surgery |-> 0]
    /\ routing = 0
    /\ fate = [k \in {"fed", "torn", "shed", "sent", "heard", "orphaned"} |-> {}]

InnerInit ==
    /\ PumpInit /\ LogInit
    /\ \/ nodeIs = "exec" /\ ExecInit
       \/ nodeIs \in {"pumps", "log"} /\ NoExec
    /\ nodeIs # "log" => logName = <<>>

InnerNext ==
    /\ UNCHANGED nodeIs
    /\ \/ nodeIs = "pumps" /\ PumpNext /\ UNCHANGED <<execVars, logVars>>
       \/ nodeIs = "exec" /\ ExecNext /\ UNCHANGED <<vars, logVars>>
       \/ nodeIs = "log" /\ LogNext /\ UNCHANGED <<vars, execVars>>

InnerSpec == InnerInit /\ [][InnerNext]_innerVars /\ ExecFairness /\ LogFairness
=============================================================================
