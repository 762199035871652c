-------------------------- MODULE WriteArbitration --------------------------
(***************************************************************************)
(* Write arbitration on one host-facing endpoint of the running daemon:    *)
(* the LockCell of daemon/src/runtime.rs around the pure lock, the control *)
(* verbs of daemon/src/daemon.rs (lock, unlock, send, connect, disconnect, *)
(* remove-node, teardown), the lease timers, and the data-plane tasks that *)
(* take the lock on their own (a held codec pump, a leg channel, a pty).   *)
(*                                                                         *)
(* The daemon is single-threaded: a task runs from one await to the next   *)
(* without interruption, so an action is everything a task does between    *)
(* two awaits.  A task that has to wait parks on the cell's Notify; a      *)
(* notify_waiters call makes every parked task "woken" and leaves nothing  *)
(* behind for tasks that park later.  A woken task re-attempts when it is  *)
(* polled, in any order relative to the other tasks.                       *)
(*                                                                         *)
(* OriginIds are minted from two counters that never repeat a value; the   *)
(* model reuses an id only when nothing refers to it any more, which no    *)
(* task can tell from a new id.                                            *)
(***************************************************************************)
EXTENDS EndpointLock, FiniteSets

CONSTANTS
    Client,    \* control connections that may run a waiting verb
    Target,    \* target-facing endpoints that may be connected here
    KindOf,    \* KindOf[t]: "pty", "codec" or "leg", the node behind t
    ModeOf,    \* ModeOf[t]: the write mode of t's edge
    EdgeId,    \* ids for edges
    SendId,    \* ids for the transient origins of send
    MaxLeases  \* bound: lease timers requested at one time

ASSUME IdAssumption == EdgeId \cap SendId = {} /\ EdgeId \cup SendId = Origin
ASSUME TargetAssumption ==
    /\ KindOf \in [Target -> {"pty", "codec", "leg"}]
    /\ ModeOf \in [Target -> WriteMode]
    /\ Client \cap Target = {}
\* What validate makes sure of: a pump that reclaims, and never queues, is behind
\* a held edge, or a read-only one, wherever there is a lock to reclaim.
ASSUME HeldPumpAssumption ==
    \A t \in Target :
        Exclusive /\ KindOf[t] = "codec" => ModeOf[t] \in {"held", "never"}
ASSUME MaxLeasesAssumption == MaxLeases \in Nat

VARIABLES
    closed,  \* LockCell::closed
    edge,    \* edge[t]: the id t is registered under (TargetEdge::registered)
    task,    \* task[a]: what the connection or pump a is doing
    leases   \* the armed lease timers

vars == <<lock, closed, edge, task, leases>>

Pump == {t \in Target : KindOf[t] \in {"codec", "leg"}}
Actor == Client \cup Pump

\* verb: what a waits for; pc: where it is.  A "sending" send has the lock and
\* waits for room in the targetward channel; a "holding" leg believes it owns
\* the lock until its idle timer or its peer's disconnect.
Task ==
    [verb  : {"none", "lock", "send", "reclaim", "leg"},
     pc    : {"idle", "parked", "woken", "sending", "holding"},
     id    : Origin \cup {NoOrigin},
     lease : BOOLEAN]
Idle == [verb |-> "none", pc |-> "idle", id |-> NoOrigin, lease |-> FALSE]

\* A timer knows the grant it was armed for by its generation.  stale is a
\* history flag: the grant ended, or was re-leased, since the timer was armed.
Lease == [id : Origin, generation : 0 .. GenModulus - 1, stale : BOOLEAN]

ArbTypeOK ==
    /\ lock \in LockState
    /\ closed \in BOOLEAN
    /\ edge \in [Target -> EdgeId \cup {NoOrigin}]
    /\ task \in [Actor -> Task]
    /\ leases \subseteq Lease

ArbInit ==
    /\ lock = NewLock
    /\ closed = FALSE
    /\ edge = [t \in Target |-> NoOrigin]
    /\ task = [a \in Actor |-> Idle]
    /\ leases = {}
-----------------------------------------------------------------------------
(* Helpers *)

\* Notify::notify_waiters: wakes whoever is parked, stores no permit.
Wake(tasks) ==
    [a \in Actor |-> IF tasks[a].pc = "parked"
                     THEN [tasks[a] EXCEPT !.pc = "woken"] ELSE tasks[a]]

WakeIf(cond, tasks) == IF cond THEN Wake(tasks) ELSE tasks

Referenced == {edge[t] : t \in Target} \cup {task[a].id : a \in Actor}
              \cup {z.id : z \in leases} \cup {o \in Origin : Registered(lock, o)}

\* Timers whose grant the step to lock state l ends, or re-leases, go stale.
Aged(timers, l, armed) ==
    {[z EXCEPT !.stale = @ \/ l.holder # z.id \/ (\E n \in armed : n.id = z.id)]
        : z \in timers} \cup armed

\* The step's new lock state.  2^64 grants do not happen within one lease: the
\* generation does not wrap while a timer is armed.
SetLock(l, armed) ==
    /\ leases # {} => l.generation >= lock.generation
    /\ lock' = l
    /\ leases' = Aged(leases, l, armed)

Timer(l, id) == [id |-> id, generation |-> l.generation, stale |-> FALSE]
-----------------------------------------------------------------------------
(* Attempts to take the lock *)

\* Whether an attempt settles instead of parking: wait_for_grant and the leg's
\* ensure_acquired park on Denied only, a held pump as long as it is
\* registered, may not write and cannot reclaim.
Settles(l, verb, id) ==
    IF verb = "reclaim"
    THEN \/ ~Registered(l, id)
         \/ MayWrite(l, id)
         \/ l.mode[id] = "held" /\ (Exclusive => Free(l))
    ELSE ~Denies(l, id)

\* The lock state an attempt leaves: a refused waiter is queued, a refused
\* held pump is not.
Attempt(l, verb, id) ==
    CASE verb = "reclaim" -> IF MayWrite(l, id) THEN l ELSE ReclaimHeld(l, id)
      [] verb # "reclaim" /\ Denies(l, id) -> Enqueue(l, id)
      [] OTHER -> Acquire(l, id)

Fresh(l, id) == Grants(l, id) \/ (~Exclusive /\ Writer(l, id))

\* Mutant of LockSettled: a re-lock arms its timer without renewing.
LockSettledUnrenewed(l, id, lease, n) ==
    LET after == RecordPurge(Acquire(l, id), id, n)
    IN  SetLock(after, IF lease /\ (Fresh(l, id) \/ l.holder = id)
                       THEN {Timer(after, id)} ELSE {})

\* The end of the lock verb: a fresh grant purges the origin's backlog of n
\* bytes and arms the lease; a re-lock by the holder only renews its lease.
LockSettled(l, id, lease, n) ==
    LET granted == RecordPurge(Acquire(l, id), id, IF Exclusive THEN n ELSE 0)
        renewed == IF lease THEN Renew(l, id) ELSE l
        after == IF Fresh(l, id) THEN granted ELSE renewed
    IN  SetLock(after, IF lease /\ (Fresh(l, id) \/ l.holder = id)
                       THEN {Timer(after, id)} ELSE {})

\* What an actor does after an attempt that settled: a granted send goes on
\* to deliver, a granted leg keeps the floor, everybody else is done.
Settled(l, verb, id) ==
    IF verb \in {"send", "leg"} /\ (Fresh(l, id) \/ MayWrite(l, id))
    THEN [Idle EXCEPT !.verb = verb, !.id = id,
                      !.pc = IF verb = "send" THEN "sending" ELSE "holding"]
    ELSE Idle

\* One turn of await_grant from lock state l: settle, or park with the wake
\* enabled since before the attempt.
Try(a, verb, id, lease, l) ==
    \/ /\ Settles(l, verb, id)
       /\ IF verb = "lock"
          THEN \E n \in 0 .. PurgeMax : LockSettled(l, id, lease, n)
          ELSE SetLock(Attempt(l, verb, id), {})
       /\ task' = [task EXCEPT ![a] = Settled(l, verb, id)]
    \/ /\ ~Settles(l, verb, id)
       /\ SetLock(Attempt(l, verb, id), {})
       /\ task' = [task EXCEPT ![a] = [verb |-> verb, pc |-> "parked",
                                       id |-> id, lease |-> lease]]
-----------------------------------------------------------------------------
(* The lock and unlock verbs.  resolve_origin finds the connected, writable *)
(* origins of an endpoint that is not closed.                              *)

\* The bound MaxLeases counts the timers armed and those still waited for.
LeaseRoom ==
    Cardinality(leases) + Cardinality({a \in Actor : task[a].lease}) < MaxLeases

Addressable(t) == ~closed /\ edge[t] # NoOrigin /\ ModeOf[t] # "never"

\* lock: fails fast when denied.
LockNow(t, lease) ==
    /\ lease => LeaseRoom
    /\ Addressable(t)
    /\ ~Denies(lock, edge[t])
    /\ \E n \in 0 .. PurgeMax : LockSettled(lock, edge[t], lease, n)
    /\ UNCHANGED <<closed, edge, task>>

\* lock --wait
LockWait(c, t, lease) ==
    /\ lease => LeaseRoom
    /\ task[c].pc = "idle"
    /\ Addressable(t)
    /\ Try(c, "lock", edge[t], lease, lock)
    /\ UNCHANGED <<closed, edge>>

\* lock --steal (grant_by_steal)
LockSteal(t, lease) ==
    /\ lease => LeaseRoom
    /\ Addressable(t)
    /\ LET id == edge[t] IN
       \/ /\ Exclusive => lock.holder # id
          /\ \E n \in 0 .. PurgeMax :
                 LET l == RecordPurge(Steal(lock, id), id, IF Exclusive THEN n ELSE 0)
                 IN  SetLock(l, IF lease THEN {Timer(l, id)} ELSE {})
          /\ task' = Wake(task)
       \/ /\ lock.holder = id
          /\ LET l == IF lease THEN Renew(lock, id) ELSE lock
             IN  SetLock(l, IF lease THEN {Timer(l, id)} ELSE {})
          /\ UNCHANGED task
    /\ UNCHANGED <<closed, edge>>

Unlock(t) ==
    /\ Addressable(t)
    /\ lock.holder = edge[t]
    /\ SetLock(Release(lock, edge[t]), {})
    /\ task' = Wake(task)
    /\ UNCHANGED <<closed, edge>>

\* A woken task is polled: await_grant sees a closed cell first.  A closed
\* lock verb or send leaves through its guards, a closed pump just gives up.
Resume(a) ==
    /\ task[a].pc = "woken"
    /\ IF closed
       THEN LET l == CASE task[a].verb = "lock" -> Dequeue(lock, task[a].id)
                       [] task[a].verb = "send" -> Unregister(lock, task[a].id)
                       [] OTHER -> lock
            IN  /\ SetLock(l, {})
                /\ task' = WakeIf(a \in Client /\ Free(l), [task EXCEPT ![a] = Idle])
       ELSE Try(a, task[a].verb, task[a].id, task[a].lease, lock)
    /\ UNCHANGED <<closed, edge>>

\* Mutant of Abandon: the guards clean up but wake nobody.
AbandonSilently(c) ==
    /\ task[c].pc # "idle"
    /\ SetLock(IF task[c].verb = "send" THEN Unregister(lock, task[c].id)
                                        ELSE Dequeue(lock, task[c].id), {})
    /\ task' = [task EXCEPT ![c] = Idle]
    /\ UNCHANGED <<closed, edge>>

\* Mutant of Abandon: the waiter leaves without its WaiterGuard.
AbandonStaysQueued(c) ==
    /\ task[c].pc # "idle"
    /\ SetLock(IF task[c].verb = "send" THEN Unregister(lock, task[c].id)
                                        ELSE lock, {})
    /\ task' = Wake([task EXCEPT ![c] = Idle])
    /\ UNCHANGED <<closed, edge>>

\* Mutant of Abandon: a send leaves without its TransientOrigin guard.
AbandonStaysRegistered(c) ==
    /\ task[c].pc # "idle"
    /\ SetLock(Dequeue(lock, task[c].id), {})
    /\ task' = Wake([task EXCEPT ![c] = Idle])
    /\ UNCHANGED <<closed, edge>>

\* A waiting verb is dropped: its connection went away, or a send reached its
\* deadline while waiting or while delivering.  WaiterGuard dequeues,
\* TransientOrigin unregisters, and both wake the queue if the lock is free.
Abandon(c) ==
    /\ task[c].pc # "idle"
    /\ LET l == IF task[c].verb = "send" THEN Unregister(lock, task[c].id)
                                         ELSE Dequeue(lock, task[c].id)
       IN  /\ SetLock(l, {})
           /\ task' = WakeIf(Free(l), [task EXCEPT ![c] = Idle])
    /\ UNCHANGED <<closed, edge>>
-----------------------------------------------------------------------------
(* The send verb *)

Send(c) ==
    /\ task[c].pc = "idle"
    /\ ~closed
    /\ \E id \in SendId \ Referenced :
           Try(c, "send", id, FALSE, Register(lock, id, "on-demand"))
    /\ UNCHANGED <<closed, edge>>

SendSteal(c) ==
    /\ task[c].pc = "idle"
    /\ ~closed
    /\ \E id \in SendId \ Referenced :
           /\ SetLock(Steal(Register(lock, id, "on-demand"), id), {})
           /\ task' = Wake([task EXCEPT ![c] = [Idle EXCEPT !.verb = "send",
                                                 !.pc = "sending", !.id = id]])
    /\ UNCHANGED <<closed, edge>>

\* Mutant of Delivered: the transient origin leaves without waking anyone.
DeliveredSilently(c) ==
    /\ task[c].pc = "sending"
    /\ SetLock(Unregister(lock, task[c].id), {})
    /\ task' = [task EXCEPT ![c] = Idle]
    /\ UNCHANGED <<closed, edge>>

\* The channel took the line, or is closed: either way the transient origin
\* leaves and the waiters are woken.
Delivered(c) ==
    /\ task[c].pc = "sending"
    /\ SetLock(Unregister(lock, task[c].id), {})
    /\ task' = Wake([task EXCEPT ![c] = Idle])
    /\ UNCHANGED <<closed, edge>>
-----------------------------------------------------------------------------
(* Lease timers *)

LeaseFires(z) ==
    /\ z \in leases
    /\ LET fired == ~closed /\ lock.holder = z.id /\ lock.generation = z.generation
       IN  /\ lock' = IF fired THEN Release(lock, z.id) ELSE lock
           /\ leases' = Aged(leases \ {z}, lock', {})
           /\ task' = WakeIf(fired, task)
    /\ UNCHANGED <<closed, edge>>
-----------------------------------------------------------------------------
(* Data-plane tasks that take the lock *)

\* A chunk reaches a held pump (reacquire_held) or a leg channel
\* (ensure_acquired), which may write at once, take the lock, or park.
Chunk(t) ==
    /\ t \in Pump
    /\ task[t].pc \in {"idle", "holding"}
    /\ ~closed /\ edge[t] # NoOrigin /\ ModeOf[t] # "never"
    /\ Try(t, IF KindOf[t] = "leg" THEN "leg" ELSE "reclaim", edge[t], FALSE, lock)
    /\ UNCHANGED <<closed, edge>>

\* The leg yields the floor: idle interval, peer disconnect, failed write,
\* edge replaced or gone.
LegYield(t) ==
    /\ t \in Pump
    /\ task[t].pc = "holding"
    /\ SetLock(Release(lock, task[t].id), {})
    /\ task' = WakeIf(lock.holder = task[t].id, [task EXCEPT ![t] = Idle])
    /\ UNCHANGED <<closed, edge>>

\* The pty's read gate (may_write_reclaiming), consulted on every pass.
GatePoll(t) ==
    /\ KindOf[t] = "pty"
    /\ Addressable(t)
    /\ SetLock(IF MayWrite(lock, edge[t]) THEN lock ELSE ReclaimHeld(lock, edge[t]), {})
    /\ UNCHANGED <<closed, edge, task>>

\* The pty's last client closed: an on-demand holder releases; a locked-out
\* origin's n unread bytes are purged.
LastClose(t) ==
    /\ KindOf[t] = "pty"
    /\ Addressable(t)
    /\ LET id == edge[t]
           released == lock.holder = id /\ ModeOf[t] # "held"
       IN  /\ \E n \in 0 .. PurgeMax :
                  SetLock(IF released THEN Release(lock, id)
                          ELSE IF lock.holder # id /\ Exclusive
                               THEN RecordPurge(lock, id, n) ELSE lock, {})
           /\ task' = WakeIf(released, task)
    /\ UNCHANGED <<closed, edge>>
-----------------------------------------------------------------------------
(* Edge surgery *)

\* connect: register under a new id (a held origin may be granted the free
\* lock, which purges), then wake.
Connect(t) ==
    /\ ~closed
    /\ edge[t] = NoOrigin
    /\ \E id \in EdgeId \ Referenced, n \in 0 .. PurgeMax :
           LET l == Register(lock, id, ModeOf[t])
           IN  /\ SetLock(IF l.holder = id THEN RecordPurge(l, id, n) ELSE l, {})
               /\ edge' = [edge EXCEPT ![t] = id]
    /\ task' = Wake(task)
    /\ UNCHANGED closed

\* disconnect, or remove-node of the origin's node: detach_edge_runtime.
Disconnect(t) ==
    /\ ~closed
    /\ edge[t] # NoOrigin
    /\ SetLock(Unregister(lock, edge[t]), {})
    /\ edge' = [edge EXCEPT ![t] = NoOrigin]
    /\ task' = Wake(task)
    /\ UNCHANGED closed

\* remove-node of the endpoint's own node, its edges detached: close and wake.
RemoveHost ==
    /\ ~closed
    /\ \A t \in Target : edge[t] = NoOrigin
    /\ closed' = TRUE
    /\ task' = Wake(task)
    /\ UNCHANGED <<lock, edge, leases>>

\* Mutant of Teardown: the cell is closed without waking its waiters.
TeardownSilently ==
    /\ ~closed
    /\ closed' = TRUE
    /\ task' = [a \in Actor |-> IF a \in Pump THEN Idle ELSE task[a]]
    /\ edge' = [t \in Target |-> NoOrigin]
    /\ UNCHANGED <<lock, leases>>

\* teardown: close and wake, abort the nodes' tasks, forget every handle; the
\* origins stay registered in the orphaned cell.
Teardown ==
    /\ ~closed
    /\ closed' = TRUE
    /\ task' = [a \in Actor |-> IF a \in Pump THEN Idle ELSE Wake(task)[a]]
    /\ edge' = [t \in Target |-> NoOrigin]
    /\ UNCHANGED <<lock, leases>>

ArbNext ==
    \/ \E t \in Target, b \in BOOLEAN : LockNow(t, b) \/ LockSteal(t, b)
    \/ \E c \in Client, t \in Target, b \in BOOLEAN : LockWait(c, t, b)
    \/ \E t \in Target : \/ Unlock(t) \/ Chunk(t) \/ LegYield(t) \/ GatePoll(t)
                         \/ LastClose(t) \/ Connect(t) \/ Disconnect(t)
    \/ \E c \in Client : Abandon(c) \/ Send(c) \/ SendSteal(c) \/ Delivered(c)
    \/ \E a \in Actor : Resume(a)
    \/ \E z \in leases : LeaseFires(z)
    \/ RemoveHost \/ Teardown

ArbSpec == ArbInit /\ [][ArbNext]_vars

Waiting(a) == task[a].pc \in {"parked", "woken"}

\* No lost wake-up: a parked task (nobody has woken it since its last attempt)
\* would not settle if it tried again, and never sleeps on a closed endpoint.
\* Every release, cancellation, detach, steal and close must have notified.
NoLostWakeup ==
    \A a \in Actor :
        task[a].pc = "parked" =>
            ~closed /\ ~Settles(lock, task[a].verb, task[a].id)

\* No ghost in the queue: every queued origin has a task that still waits for
\* it, so the head of the queue is always somebody who will come and take it.
QueueIsServed ==
    ~closed =>
        \A o \in Origin : Queued(lock, o) => \E a \in Actor : Waiting(a) /\ task[a].id = o

\* No phantom origin: whatever is registered on the lock of an open endpoint is
\* a connected edge or the transient origin of a send in flight.
NoPhantomOrigin ==
    ~closed =>
        \A o \in Origin : Registered(lock, o) =>
            \/ \E t \in Target : edge[t] = o
            \/ \E c \in Client : task[c].verb = "send" /\ task[c].id = o

\* A lease timer releases only the very grant it was armed for: never a later
\* grant, also not of the same origin, nor one whose lease was renewed since.
LeaseReleasesOwnGrant ==
    [][\A z \in leases :
           LeaseFires(z) /\ lock.holder # lock'.holder => ~z.stale]_vars

\* A waiting send keeps its place in the queue: nothing another task does takes
\* its slot away, not even between a wake and the poll that follows it.
SendKeepsItsPlace ==
    \A c \in Client :
        task[c].verb = "send" /\ Waiting(c) => Queued(lock, task[c].id)

\* The cell is sound: well-formed, no phantom origin on it, and a send's place in
\* its queue is nobody else's to take.
ArbSound == ArbTypeOK /\ NoPhantomOrigin /\ SendKeepsItsPlace

\* The same for every task that queued: cancelling one waiter costs nothing but
\* that waiter's own slot (the comment on WaiterGuard).
ParkedIsQueued ==
    \A a \in Actor :
        task[a].verb \in {"lock", "send", "leg"} /\ task[a].pc = "parked" =>
            Queued(lock, task[a].id)
-----------------------------------------------------------------------------
(* Liveness.  Runnable tasks run: the executor polls every woken task.  A   *)
(* send is bounded by its deadline.  Nothing else is assumed: clients need  *)
(* not unlock, disconnect or go away, and the device need not drain.        *)

ArbFairness ==
    /\ \A a \in Actor : WF_vars(Resume(a))
    /\ \A c \in Client : WF_vars(task[c].verb = "send" /\ Abandon(c))

ArbFairSpec == ArbSpec /\ ArbFairness

HeldRegistered == \E o \in Origin : lock.mode[o] = "held"

StealStep == \/ \E c \in Client : SendSteal(c)
             \/ \E t \in Target, b \in BOOLEAN : LockSteal(t, b)
StealsEnd == <>[][~StealStep]_vars

\* Closing the endpoint ends every wait: no verb stays parked on an endpoint
\* that is gone.
CloseEndsWaits == \A a \in Actor : closed ~> ~Waiting(a)

\* A held pump that was robbed of the lock gets it back once steals cease, if
\* the lock becomes free again and again; the queue cannot keep it out.
HeldReclaims ==
    StealsEnd /\ []<>Free(lock) =>
        \A t \in Pump : Waiting(t) /\ task[t].verb = "reclaim" ~> ~Waiting(t)

\* The origin of a waiting verb gets the lock, or the verb ends, if steals
\* cease, no held origin stays registered and the lock becomes free again and
\* again: newcomers cannot starve a queued origin.
WaiterServed ==
    StealsEnd /\ []<>Free(lock) /\ <>[]~HeldRegistered =>
        \A c \in Client, o \in Origin :
            Waiting(c) /\ task[c].id = o ~>
                ~(Waiting(c) /\ task[c].id = o) \/ lock.holder = o
=============================================================================
