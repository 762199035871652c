------------------------------ MODULE MCDaemon ------------------------------
(***************************************************************************)
(* Models of what the control plane keeps: the lock of an endpoint, the    *)
(* graph and its wiring under the verbs, or the state file.  A behaviour   *)
(* is about one of the three.                                              *)
(***************************************************************************)
EXTENDS EndpointLock, GraphVerbs, ConfigStore

MCGraphKind == [s |-> "serial", m |-> "map", c |-> "codec", p |-> "pty"]

\* One file that can be loaded, and one with a cycle.
At(n) == <<n, "">>
MCLoadFile ==
    { [nodes |-> {"s", "m", "p"},
       edges |-> << [ends |-> {At("s"), <<"m", "raw">>}, mode |-> "on-demand"],
                    [ends |-> {At("s"), At("p")}, mode |-> "on-demand"] >>],
      [nodes |-> {"m", "c"},
       edges |-> << [ends |-> {At("m"), At("c")}, mode |-> "held"],
                    [ends |-> {<<"c", "channel">>, <<"m", "raw">>}, mode |-> "never"] >>] }

VARIABLE keeps

daemonVars == <<keeps, lock, graphVars, storeVars>>

DaemonInit ==
    /\ Init /\ GraphInit /\ StoreInit
    /\ keeps \in {"lock", "graph", "store"}

DaemonNext ==
    /\ UNCHANGED keeps
    /\ \/ keeps = "lock" /\ Next /\ UNCHANGED <<graphVars, storeVars>>
       \/ keeps = "graph" /\ GraphNext /\ UNCHANGED <<lock, storeVars>>
       \/ keeps = "store" /\ StoreNext /\ UNCHANGED <<lock, graphVars>>

DaemonSpec == DaemonInit /\ [][DaemonNext]_daemonVars
=============================================================================
