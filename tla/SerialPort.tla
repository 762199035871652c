----------------------------- MODULE SerialPort -----------------------------
(***************************************************************************)
(* Port ownership of the serial node (daemon/src/nodes/serial.rs): opening *)
(* and losing the device, the claims a node makes on the tty, its reader   *)
(* thread, and the line signals send-break, pulse-dtr and set-modem.       *)
(*                                                                         *)
(* The tty's flags outlive every file descriptor on it, as they do for a   *)
(* pty-backed device or one another process holds open: whoever asserted   *)
(* them must take them back.  An ExclusivePort is a position in `ports`;   *)
(* it is referred to by the node's SerialShared, by the frame of the       *)
(* supervisor, and, until the LocalSet runs again, by the futures of       *)
(* aborted supervisors.                                                    *)
(***************************************************************************)
EXTENDS Integers, Sequences, FiniteSets

CONSTANTS
    Verb,       \* calls of send-break and pulse-dtr
    MaxOpens,   \* bound: ports opened
    MaxNodes,   \* bound: nodes created on the device
    MaxGen,     \* bound: the generation from which a reopen is not refused
    MaxReplugs  \* bound: times the device comes back

ASSUME PortAssumption == {MaxOpens, MaxNodes, MaxGen, MaxReplugs} \subseteq Nat

VARIABLES
    tty,      \* the device: plugged in, which attachment, and its tty's flags
    ports,    \* the ExclusivePorts: the attachment each is open on, and `claimed`
    node,     \* the node's SerialShared
    sup,      \* its supervisor: where it is, and the port its frame holds
    reader,   \* the reader thread: its port, 0 for none, and its loss Notify
    ghosts,   \* ports held by aborted futures that are not dropped yet
    verbs     \* verb -> its hold; its port is history, the code keeps the generation

portVars == <<tty, ports, node, sup, reader, ghosts, verbs>>

NoReader == [port |-> 0, lost |-> FALSE]
NoNode == [inst |-> 0, port |-> 0, gen |-> 0, inFlight |-> -1, status |-> "none"]
NoVerb == [st |-> "none", kind |-> "none", inst |-> 0, gen |-> 0, port |-> 0,
           level |-> FALSE]

PortInit ==
    /\ tty = [present |-> TRUE, epoch |-> 1, excl |-> FALSE, brk |-> FALSE, dtr |-> FALSE]
    /\ ports = <<>>
    /\ node = NoNode
    /\ sup = [pc |-> "none", port |-> 0]
    /\ reader = NoReader
    /\ ghosts = {}
    /\ verbs = [v \in Verb |-> NoVerb]

Live == node.status # "none"
OnTty(d, ps, p) == p # 0 /\ d.present /\ ps[p].epoch = d.epoch
Holding(v) == verbs[v].st = "holding"

\* The handle's port is still the node's: with_scoped_port lets the ioctl through.
InScope(v) == Live /\ node.port # 0 /\ verbs[v].inst = node.inst /\ verbs[v].gen = node.gen

PortTypeOK ==
    /\ tty.present \in BOOLEAN /\ tty.epoch \in 1 .. MaxReplugs + 1
    /\ Len(ports) <= MaxOpens
    /\ node.status \in {"none", "waiting", "faulted", "active"}
    /\ node.port \in 0 .. Len(ports)
    /\ node.status = "active" => node.port # 0
    /\ sup.pc \in {"none", "start", "active", "poll", "purge"}
    /\ ghosts \subseteq 1 .. Len(ports)
-----------------------------------------------------------------------------
(* Claims *)

\* Mutant of Released: the break is left to the verb's own guard.
ReleasedExclOnly(x, p) ==
    IF p = 0 \/ ~x.ports[p].claimed THEN x
    ELSE [ports |-> [x.ports EXCEPT ![p].claimed = FALSE],
          tty |-> IF OnTty(x.tty, x.ports, p) THEN [x.tty EXCEPT !.excl = FALSE] ELSE x.tty]

\* release_claims, of release_port and of Drop: at most once per port.
Released(x, p) ==
    IF p = 0 \/ ~x.ports[p].claimed THEN x
    ELSE [ports |-> [x.ports EXCEPT ![p].claimed = FALSE],
          tty |-> IF OnTty(x.tty, x.ports, p) THEN [x.tty EXCEPT !.brk = FALSE, !.excl = FALSE]
                  ELSE x.tty]

Now == [tty |-> tty, ports |-> ports]
Becomes(x) == tty' = x.tty /\ ports' = x.ports

\* open_port: fails on a claimed tty, may fail with one of its modem lines (then
\* its Drop gives the claim back), or claims the tty and raises DTR.
Opened(x) ==
    IF x.tty.excl \/ Len(x.ports) = MaxOpens THEN {}
    ELSE {[tty |-> [x.tty EXCEPT !.excl = TRUE, !.dtr = TRUE],
           ports |-> Append(x.ports, [epoch |-> x.tty.epoch, claimed |-> TRUE])]}

\* Mutant of SetPort: the port changes under the same generation.
SetPortSameGeneration(n, p, status) == [n EXCEPT !.port = p, !.status = status]

\* set_port: every change of the port is a new generation, and its waiters wake.
SetPort(n, p, status) == [n EXCEPT !.port = p, !.gen = @ + 1, !.status = status]
-----------------------------------------------------------------------------
(* The node's life *)

\* create and start, on the state x: the port is opened at once, the reader is
\* armed by the supervisor's first poll.
Created(x) ==
    LET fresh == [NoNode EXCEPT !.inst = node.inst + 1]
    IN  /\ sup' = [pc |-> "start", port |-> 0]
        /\ \/ /\ ~x.tty.present
              /\ Becomes(x)
              /\ node' = [fresh EXCEPT !.status = "waiting"]
           \/ /\ x.tty.present
              /\ \/ Becomes(x) /\ node' = [fresh EXCEPT !.status = "faulted"]
                 \/ \E y \in Opened(x) :
                       /\ Becomes(y)
                       /\ node' = [fresh EXCEPT !.status = "active", !.port = Len(y.ports)]

AddNode ==
    /\ ~Live /\ node.inst < MaxNodes
    /\ Created(Now)
    /\ UNCHANGED <<reader, ghosts, verbs>>

\* teardown: the supervisor is aborted, its reader joined, the port released.
TornDown == Released(Now, node.port)

Aborted == ghosts' = ghosts \cup ({sup.port, IF sup.pc = "active" THEN node.port ELSE 0} \ {0})

RemoveNode ==
    /\ Live
    /\ Becomes(TornDown)
    /\ node' = SetPort([node EXCEPT !.status = "none"], 0, "none")
    /\ sup' = [pc |-> "none", port |-> 0]
    /\ reader' = NoReader
    /\ Aborted
    /\ UNCHANGED verbs

\* load --replace: teardown and create in one critical section.
ReplaceNode ==
    /\ Live /\ node.inst < MaxNodes
    /\ Created(TornDown)
    /\ reader' = NoReader
    /\ Aborted
    /\ UNCHANGED verbs

\* The LocalSet drops an aborted future; the last reference releases the port.
FutureDropped(p) ==
    /\ p \in ghosts
    /\ ghosts' = ghosts \ {p}
    /\ Becomes(Released(Now, p))
    /\ UNCHANGED <<node, sup, reader, verbs>>
-----------------------------------------------------------------------------
(* The supervisor and the reader thread *)

\* Its frame keeps no port across the sleep.
Polling == sup' = [pc |-> "poll", port |-> 0]

\* fault and set_waiting
Drops(status) ==
    /\ Becomes(Released(Now, node.port))
    /\ node' = SetPort(node, 0, status)

\* The first poll arms the reader of the port create opened, or faults.
SuperviseStarts ==
    /\ sup.pc = "start"
    /\ \/ node.port = 0 /\ Polling /\ UNCHANGED <<tty, ports, node, reader>>
       \/ /\ node.port # 0
          /\ sup' = [pc |-> "active", port |-> 0]
          /\ reader' = [port |-> node.port, lost |-> FALSE]
          /\ UNCHANGED <<tty, ports, node>>
       \/ node.port # 0 /\ Drops("faulted") /\ Polling /\ UNCHANGED reader
    /\ UNCHANGED <<ghosts, verbs>>

\* The reader sees its device gone, pulses the loss Notify and returns.
ReaderLoses ==
    /\ reader.port # 0 /\ ~reader.lost /\ ~OnTty(tty, ports, reader.port)
    /\ reader' = [reader EXCEPT !.lost = TRUE]
    /\ UNCHANGED <<tty, ports, node, sup, ghosts, verbs>>

\* Step::Lost, after the reader's pulse or a failed write: the reader is joined
\* before the port goes.
Lost ==
    /\ sup.pc = "active"
    /\ Drops("waiting")
    /\ Polling
    /\ reader' = NoReader
    /\ UNCHANGED <<ghosts, verbs>>

\* reopen up to its purge: not found, refused, or open and adopted.
ReopenPort ==
    /\ sup.pc = "poll" /\ tty.present
    /\ \/ node.gen < MaxGen /\ Drops("faulted") /\ Polling
       \/ \E x \in Opened(Now) :
             /\ Becomes(x)
             /\ node' = SetPort(node, Len(x.ports), node.status)
             /\ sup' = [pc |-> "purge", port |-> Len(x.ports)]
    /\ UNCHANGED <<reader, ghosts, verbs>>

\* Mutant of Rearm: a reader that cannot be spawned ends the supervision.
RearmGivesUp ==
    /\ sup.pc = "purge"
    /\ \/ /\ reader' = [port |-> sup.port, lost |-> FALSE]
          /\ node' = [node EXCEPT !.status = "active"]
          /\ sup' = [pc |-> "active", port |-> 0]
          /\ UNCHANGED <<tty, ports>>
       \/ Drops("faulted") /\ sup' = [pc |-> "none", port |-> 0] /\ UNCHANGED reader
    /\ UNCHANGED <<ghosts, verbs>>

\* reopen after its purge: the reader is armed, or cannot be spawned.
Rearm ==
    /\ sup.pc = "purge"
    /\ \/ /\ reader' = [port |-> sup.port, lost |-> FALSE]
          /\ node' = [node EXCEPT !.status = "active"]
          /\ sup' = [pc |-> "active", port |-> 0]
          /\ UNCHANGED <<tty, ports>>
       \/ Drops("faulted") /\ Polling /\ UNCHANGED reader
    /\ UNCHANGED <<ghosts, verbs>>
-----------------------------------------------------------------------------
(* Line signals *)

\* Mutant of LineBusy: any two overlap.
LineNeverBusy == FALSE

\* claim_line refuses: a verb of this generation holds the line.
LineBusy == node.inFlight = node.gen

Driven(d, kind, level) == IF kind = "brk" THEN [d EXCEPT !.brk = level] ELSE [d EXCEPT !.dtr = level]

\* The line is driven and held, or the ioctl fails and the lease is dropped.
AssertLine(v, kind, level) ==
    \/ /\ OnTty(tty, ports, node.port)
       /\ tty' = Driven(tty, kind, level)
       /\ node' = [node EXCEPT !.inFlight = node.gen]
       /\ verbs' = [verbs EXCEPT ![v] = [st |-> "holding", kind |-> kind, level |-> level,
                                         inst |-> node.inst, gen |-> node.gen,
                                         port |-> node.port]]
    \/ /\ verbs' = [verbs EXCEPT ![v].st = "failed"]
       /\ UNCHANGED <<tty, node>>

\* send_break and pulse_dtr up to their sleep.
Signal(v, kind, level) ==
    /\ verbs[v].st = "none" /\ Live /\ node.port # 0
    /\ IF LineBusy
       THEN verbs' = [verbs EXCEPT ![v].st = "failed"] /\ UNCHANGED <<tty, node>>
       ELSE AssertLine(v, kind, level)
    /\ UNCHANGED <<ports, sup, reader, ghosts>>

\* The hold ends (slept, told the port is gone, or its connection closed):
\* RestoreGuard drives the line back if its handle still has a port, and then the
\* lease is dropped.
HoldEnds(v) ==
    /\ Holding(v)
    /\ tty' = IF InScope(v) /\ OnTty(tty, ports, node.port)
              THEN Driven(tty, verbs[v].kind, ~verbs[v].level) ELSE tty
    /\ node' = IF verbs[v].inst = node.inst /\ node.inFlight = verbs[v].gen
               THEN [node EXCEPT !.inFlight = -1] ELSE node
    /\ verbs' = [verbs EXCEPT ![v] = [NoVerb EXCEPT !.st = IF InScope(v) THEN "ok" ELSE "gone"]]
    /\ UNCHANGED <<ports, sup, reader, ghosts>>

\* set_modem: one ioctl, no lease.
SetModem(level) ==
    /\ Live /\ OnTty(tty, ports, node.port)
    /\ tty' = Driven(tty, "dtr", level)
    /\ UNCHANGED <<ports, node, sup, reader, ghosts, verbs>>
-----------------------------------------------------------------------------
(* The device *)

Unplug ==
    /\ tty.present /\ tty.epoch <= MaxReplugs
    /\ tty' = [tty EXCEPT !.present = FALSE]
    /\ UNCHANGED <<ports, node, sup, reader, ghosts, verbs>>

Replug ==
    /\ ~tty.present
    /\ tty' = [present |-> TRUE, epoch |-> tty.epoch + 1, excl |-> FALSE, brk |-> FALSE, dtr |-> FALSE]
    /\ UNCHANGED <<ports, node, sup, reader, ghosts, verbs>>

Supervises == SuperviseStarts \/ (Lost /\ reader.lost) \/ ReopenPort \/ Rearm

PortNext ==
    \/ AddNode \/ RemoveNode \/ ReplaceNode \/ (\E p \in ghosts : FutureDropped(p))
    \/ SuperviseStarts \/ ReaderLoses \/ Lost \/ ReopenPort \/ Rearm
    \/ \E v \in Verb : Signal(v, "brk", TRUE) \/ (\E l \in BOOLEAN : Signal(v, "dtr", l)) \/ HoldEnds(v)
    \/ \E l \in BOOLEAN : SetModem(l)
    \/ Unplug \/ Replug

\* The runtime polls a ready supervisor, its timers fire, a thread is scheduled.
PortFairness == WF_portVars(Supervises) /\ WF_portVars(ReaderLoses)

PortSpec == PortInit /\ [][PortNext]_portVars /\ PortFairness
-----------------------------------------------------------------------------
(* Properties *)

\* The tty is claimed exactly while the node has a port on it: no teardown, loss,
\* failed arm or late drop leaves a claim that locks the daemon out of its own
\* device, and none strips the claim of a successor.
ClaimIsNodes == tty.present => (tty.excl <=> OnTty(tty, ports, node.port))

\* A break is never left standing: the tty is in break only while a send-break is
\* holding it on the node's present port.
NoStandingBreak ==
    tty.present /\ tty.brk => \E v \in Verb : Holding(v) /\ verbs[v].kind = "brk" /\ InScope(v)

\* A send-break that is holding has the line for as long as the node keeps the
\* port it asserted on: no other verb's end, no late drop of an old port took it
\* away.
BreakHolds ==
    \A v \in Verb : /\ Holding(v) /\ verbs[v].kind = "brk"
                    /\ verbs[v].port = node.port /\ OnTty(tty, ports, node.port)
                    => tty.brk

\* A lease is held by a verb that will drop it: the line is never busy for good.
LeaseHasHolder ==
    Live /\ node.port # 0 /\ LineBusy => \E v \in Verb : Holding(v) /\ InScope(v)

\* A line verb ends on the very port it began on, or without touching a line: it
\* drives one, and reports success, only if the node still has that port, however
\* many losses, reopens and replacements lay in its hold, and never on the port of
\* another generation, which may be the same device.
LineVerbKeepsToPort ==
    [][\A v \in Verb :
           /\ Holding(v) /\ ~Holding(v)'
           /\ tty' # tty \/ verbs'[v].st = "ok"
           => verbs[v].port = node.port]_portVars

\* The reader's descriptor outlives the reader: while the thread runs, its port is
\* the node's or in a frame that joins it first.
FdOutlivesReader == reader.port # 0 => reader.port \in {node.port, sup.port} \cup ghosts

\* A node whose device is there comes back: whatever failed, the supervisor
\* opens the port again and again until it is active.
Reconnects ==
    (Live /\ node.status # "active" /\ tty.present) ~>
        (~Live \/ node.status = "active" \/ ~tty.present \/ Len(ports) = MaxOpens)

\* The port's resources follow the node: the claim, the break and the line lease
\* are held by who may hold them and given back by everyone who leaves, and no
\* reader reads a descriptor that was closed under it.
PortSound == PortTypeOK /\ ClaimIsNodes /\ NoStandingBreak /\ LeaseHasHolder /\ FdOutlivesReader
=============================================================================
