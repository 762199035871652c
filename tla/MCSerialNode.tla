---------------------------- MODULE MCSerialNode ----------------------------
(***************************************************************************)
(* Models of a serial node: its targetward half, or its port and line      *)
(* verbs.  A behaviour is about one of the two, which share no state but   *)
(* the device's comings and goings.  e1 and e2 are empty chunks.           *)
(***************************************************************************)
EXTENDS SerialTargetward, SerialPort

CONSTANTS c1, c2, e1, e2

VARIABLE half

nodeVars == <<half, vars, portVars>>

NodeInit ==
    /\ SerInit /\ PortInit
    /\ half \in {"targetward", "port"}
    /\ half = "port" => pc = "waiting"

NodeNext ==
    /\ UNCHANGED half
    /\ \/ half = "targetward" /\ SerNext /\ UNCHANGED portVars
       \/ half = "port" /\ PortNext /\ UNCHANGED vars

NodeSpec == NodeInit /\ [][NodeNext]_nodeVars /\ SerFairness /\ PortFairness
=============================================================================
