----------------------------- MODULE ConfigStore -----------------------------
(***************************************************************************)
(* How the daemon's configuration outlives the daemon: dispatch's mutating *)
(* verbs and the snapshot that follows them (daemon.rs), its atomic_write, *)
(* the connection that may drop a verb in flight (control.rs), and what a  *)
(* daemon loads when it starts (lib.rs), with process death and power loss *)
(* at every step.                                                          *)
(*                                                                         *)
(* A configuration is the number of the mutation that made it, 0 for the   *)
(* empty graph.  The daemon has one thread: a verb that creates no         *)
(* listener runs to its reply without another verb, only death between.    *)
(***************************************************************************)
EXTENDS Naturals

CONSTANTS
    Conn,          \* control connections
    MaxMutations,  \* bound: mutations
    MaxDeaths,     \* bound: process deaths, power losses and shutdowns
    MaxIoFailures, \* bound: failing system calls in atomic_write
    Torn,          \* a state file whose bytes did not reach the disk
    NoFile

ASSUME StoreAssumption ==
    /\ {MaxMutations, MaxDeaths, MaxIoFailures} \subseteq Nat
    /\ Torn \notin Nat
    /\ NoFile \notin Conn \cup [ver : Nat \cup {Torn}, synced : BOOLEAN]

VARIABLES
    graph,     \* GraphState::config
    lane,      \* connection -> its in-flight dispatch
    snap,      \* the atomic_write being run, and for whom
    disk,      \* the state file and its temporary sibling
    up,        \* the daemon runs
    mutations, deaths, ioFailures,
    answered,  \* history: the newest mutation whose verb was answered with success
    behind     \* history: a system call of the last snapshot failed

storeVars == <<graph, lane, snap, disk, up, mutations, deaths, ioFailures,
               answered, behind>>

Version == 0..MaxMutations

\* A file: its configuration and whether its bytes are on the disk.
File == [ver : Version \cup {Torn}, synced : BOOLEAN] \cup {NoFile}

\* The phases of a dispatch: dispatch's await of the listeners' first bind, and
\* the snapshot that precedes the reply.
Lane == [phase : {"idle", "barrier", "snapshot"}, ver : Version]

\* The system calls of atomic_write, in order; "none" when none runs.
Steps == <<"create", "write", "sync", "rename", "dirsync">>

Quiet == [at |-> "none", by |-> NoFile, bytes |-> 0]

Idle == [phase |-> "idle", ver |-> 0]

StoreInit ==
    /\ graph = 0
    /\ lane = [c \in Conn |-> Idle]
    /\ snap = Quiet
    \* `old` is what the name still means on the disk until the directory is synced.
    /\ disk = [file |-> NoFile, old |-> NoFile, tmp |-> NoFile]
    /\ up = TRUE
    /\ mutations = 0 /\ deaths = 0 /\ ioFailures = 0
    /\ answered = 0 /\ behind = FALSE
-----------------------------------------------------------------------------
(* dispatch.                                                               *)

Running == up /\ snap = Quiet

\* snapshot_config: serialize the configuration as it is now, and write it.
Snapshots(by, config) == snap' = [at |-> "create", by |-> by, bytes |-> config]

\* A verb changes the graph; one that made listeners then waits for their first
\* bind attempt, with no borrow held, before dispatch takes the snapshot.
Mutate(c, listens) ==
    /\ Running /\ lane[c] = Idle
    /\ mutations < MaxMutations
    /\ mutations' = mutations + 1
    /\ graph' = mutations'
    /\ IF listens
         THEN /\ lane' = [lane EXCEPT ![c] = [phase |-> "barrier", ver |-> mutations']]
              /\ UNCHANGED snap
         ELSE /\ lane' = [lane EXCEPT ![c] = [phase |-> "snapshot", ver |-> mutations']]
              /\ Snapshots(c, graph')
    /\ UNCHANGED <<disk, up, deaths, ioFailures, answered, behind>>

\* The listeners have tried to bind, or LISTEN_BARRIER_TIMEOUT passed.
BarrierPasses(c) ==
    /\ Running /\ lane[c].phase = "barrier"
    /\ lane' = [lane EXCEPT ![c].phase = "snapshot"]
    /\ Snapshots(c, graph)
    /\ UNCHANGED <<graph, disk, up, mutations, deaths, ioFailures,
                   answered, behind>>

\* serve_connection reads EOF while a dispatch is in flight: the future is dropped.
Hangup(c) ==
    /\ Running /\ lane[c].phase = "barrier"
    /\ lane' = [lane EXCEPT ![c] = Idle]
    /\ UNCHANGED <<graph, snap, disk, up, mutations, deaths, ioFailures,
                   answered, behind>>
-----------------------------------------------------------------------------
(* atomic_write, one system call at a time.                                *)

NextStep(at) == CHOOSE s \in {"write", "sync", "rename", "dirsync", "none"} :
                    \/ at = "dirsync" /\ s = "none"
                    \/ \E i \in 1..4 : Steps[i] = at /\ Steps[i + 1] = s

\* The sync of the temporary file left out.
PerformedUnsynced(d, at, bytes) ==
    CASE at = "create" -> [d EXCEPT !.tmp = [ver |-> Torn, synced |-> FALSE]]
      [] at = "write"  -> [d EXCEPT !.tmp = [ver |-> bytes, synced |-> FALSE]]
      [] at = "sync"   -> d
      [] at = "rename" -> [file |-> d.tmp, old |-> d.file, tmp |-> NoFile]
      [] OTHER         -> [d EXCEPT !.old = d.file]

\* open(truncate), write_all, sync_all, rename, and the sync of the directory.
Performed(d, at, bytes) ==
    CASE at = "create" -> [d EXCEPT !.tmp = [ver |-> Torn, synced |-> FALSE]]
      [] at = "write"  -> [d EXCEPT !.tmp = [ver |-> bytes, synced |-> FALSE]]
      [] at = "sync"   -> [d EXCEPT !.tmp.synced = TRUE]
      [] at = "rename" -> [file |-> d.tmp, old |-> d.file, tmp |-> NoFile]
      [] OTHER         -> [d EXCEPT !.old = d.file]

\* The verb whose snapshot ended is answered; the startup load has no connection.
Answers(by) ==
    /\ snap' = Quiet
    /\ lane' = [c \in Conn |-> IF c = by THEN Idle ELSE lane[c]]

\* The newest mutation owed to a client: a failed snapshot forfeits what came before it.
Owed(by) == IF behind THEN snap.bytes
            ELSE IF by \in Conn /\ lane[by].ver > answered THEN lane[by].ver
            ELSE answered

SnapStep ==
    /\ up /\ snap # Quiet
    /\ disk' = Performed(disk, snap.at, snap.bytes)
    /\ IF NextStep(snap.at) = "none"
         THEN /\ Answers(snap.by)
              /\ answered' = Owed(snap.by)
              /\ behind' = FALSE
         ELSE /\ snap' = [snap EXCEPT !.at = NextStep(snap.at)]
              /\ UNCHANGED <<lane, answered, behind>>
    /\ UNCHANGED <<graph, up, mutations, deaths, ioFailures>>

\* A call fails, and the verb is answered with success all the same: the error is
\* logged, or, for the directory's sync, ignored, and then the new name is there
\* but an outage may still lose it.  A partial write leaves a torn temporary file.
SnapFails ==
    /\ up /\ snap # Quiet /\ ioFailures < MaxIoFailures
    /\ ioFailures' = ioFailures + 1
    /\ Answers(snap.by)
    /\ behind' = TRUE
    /\ UNCHANGED <<graph, disk, up, mutations, deaths, answered>>
-----------------------------------------------------------------------------
(* Death and start.                                                        *)

Dies(d) ==
    /\ up /\ deaths < MaxDeaths
    /\ deaths' = deaths + 1
    /\ up' = FALSE
    /\ graph' = 0
    /\ lane' = [c \in Conn |-> Idle]
    /\ snap' = Quiet
    /\ disk' = d
    /\ UNCHANGED <<mutations, ioFailures, answered>>

\* The process is killed: the kernel keeps what it was told.
Killed == Dies(disk) /\ UNCHANGED behind

\* A signal, `shutdown` or the leash ends serve between two steps of the thread;
\* teardown_all bypasses dispatch, so nothing is persisted.
Shutdown == snap = Quiet /\ Dies(disk) /\ UNCHANGED behind

\* What a disk may hold of a file after an outage.
Survivors(f) ==
    IF f = NoFile \/ f.synced THEN {f}
    ELSE {f, [ver |-> Torn, synced |-> TRUE]}

\* The power fails: a rename that was not synced may be lost, and so may the
\* bytes of a file that was not synced.
PowerLoss ==
    \E f \in Survivors(disk.file) \cup Survivors(disk.old), t \in Survivors(disk.tmp) :
        Dies([file |-> f, old |-> f, tmp |-> t]) /\ UNCHANGED behind

\* startup_load of the state file, which dispatches `load` and so a snapshot; a
\* file that is torn, or that a pre-check refuses, is left alone and the graph is
\* empty.
Start(refused) ==
    /\ ~up
    /\ up' = TRUE
    /\ IF disk.file = NoFile \/ refused \/ disk.file.ver = Torn
         THEN UNCHANGED <<graph, snap>>
         ELSE graph' = disk.file.ver /\ Snapshots(NoFile, disk.file.ver)
    /\ UNCHANGED <<lane, disk, mutations, deaths, ioFailures,
                   answered, behind>>

StoreNext ==
    \/ \E c \in Conn : \/ \E b \in BOOLEAN : Mutate(c, b)
                       \/ BarrierPasses(c) \/ Hangup(c)
    \/ SnapStep \/ SnapFails
    \/ Killed \/ Shutdown \/ PowerLoss
    \/ \E b \in BOOLEAN : Start(b)

StoreSpec == StoreInit /\ [][StoreNext]_storeVars
-----------------------------------------------------------------------------
(* Properties.                                                             *)

StoreTypeOK ==
    /\ graph \in Version /\ answered \in Version
    /\ lane \in [Conn -> Lane]
    /\ snap \in [at : {"none", "create", "write", "sync", "rename", "dirsync"},
                 by : Conn \cup {NoFile}, bytes : Version]
    /\ disk \in [file : File, old : File, tmp : File]
    /\ up \in BOOLEAN /\ behind \in BOOLEAN

\* What the next start may read, whatever dies now.
Readable == Survivors(disk.file) \cup Survivors(disk.old)

\* Whatever dies and whenever, the next start reads a whole configuration, and
\* one no older than the newest mutation whose verb was answered, unless a
\* system call of the last snapshot failed.
AnsweredSurvives ==
    \A f \in Readable :
        /\ f # NoFile => f.ver # Torn
        /\ answered > 0 /\ ~behind => f # NoFile /\ f.ver >= answered

\* When no verb is in flight and no snapshot failed, the state file holds the
\* configuration of the running graph, as dispatch promises ("after a successful
\* config mutation").
SnapshotCurrent ==
    Running /\ ~behind /\ mutations > 0 /\ deaths = 0 /\ (\A c \in Conn : lane[c] = Idle)
    => disk.file # NoFile /\ disk.file.ver = graph

\* Wherever the daemon or the machine dies, between two verbs or two system calls
\* of a snapshot, the state file is whole and has what was answered.
StoreSound == StoreTypeOK /\ AnsweredSurvives
=============================================================================
