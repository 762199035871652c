---------------------------- MODULE EndpointLock ----------------------------
(***************************************************************************)
(* The write lock of one host-facing endpoint: the pure state machine      *)
(* `EndpointLock` of core/src/lock.rs.  Its operations are operators from  *)
(* lock states to lock states, so that the daemon's handlers (module       *)
(* WriteArbitration), which make several lock calls in one critical        *)
(* section, can compose them.  Spec lets every operation be called in      *)
(* every order, which is all the pure state machine may rely on.           *)
(*                                                                         *)
(* Labels and notifications carry no control: an origin's label is its     *)
(* identity here.                                                          *)
(***************************************************************************)
EXTENDS Integers, Sequences, SequencesExt

CONSTANTS
    Origin,       \* the OriginIds that may attach to the endpoint
    NoOrigin,     \* "no holder": the None of the Rust Option
    Arbitration,  \* "exclusive" or "free-for-all", fixed when the lock is built
    GenModulus,   \* generations wrap: 2^64 in the code, a u64 wrapping_add
    PurgeMax      \* purge counters saturate: u64::MAX in the code

ASSUME NoOriginAssumption == NoOrigin \notin Origin
ASSUME ArbitrationAssumption == Arbitration \in {"exclusive", "free-for-all"}
ASSUME GenModulusAssumption == GenModulus \in Nat /\ GenModulus > 1
ASSUME PurgeMaxAssumption == PurgeMax \in Nat

WriteMode == {"on-demand", "held", "never"}
Exclusive == Arbitration = "exclusive"

\* mode[o] = "absent" when o is not registered; stolen is the last steal, the
\* ousted holder first, or <<>> before the first one.
LockState ==
    [mode       : [Origin -> WriteMode \cup {"absent"}],
     purged     : [Origin -> 0 .. PurgeMax],
     holder     : Origin \cup {NoOrigin},
     waiters    : Seq(Origin),
     generation : 0 .. GenModulus - 1,
     stolen     : (Origin \X Origin) \cup {<<>>}]

NewLock ==
    [mode       |-> [o \in Origin |-> "absent"],
     purged     |-> [o \in Origin |-> 0],
     holder     |-> NoOrigin,
     waiters    |-> <<>>,
     generation |-> 0,
     stolen     |-> <<>>]
-----------------------------------------------------------------------------
(* Queries *)

Registered(l, id) == l.mode[id] # "absent"
Writer(l, id) == l.mode[id] \in {"on-demand", "held"}
Free(l) == l.holder = NoOrigin
Queued(l, id) == \E i \in 1 .. Len(l.waiters) : l.waiters[i] = id

MayWrite(l, id) == Writer(l, id) /\ (Exclusive => l.holder = id)

HeldOriginOtherThan(l, id) == \E o \in Origin \ {id} : l.mode[o] = "held"

\* Mutant of Grants: the queue is consulted before the caller's own mode.
GrantsQueueFirst(l, id) ==
    /\ Exclusive /\ Writer(l, id) /\ Free(l)
    /\ ~HeldOriginOtherThan(l, id)
    /\ l.waiters = <<>> \/ Head(l.waiters) = id

\* Mutant of Grants: a free lock goes to whoever asks first.
GrantsBarging(l, id) == Exclusive /\ Writer(l, id) /\ Free(l)

\* The case of acquire that is a fresh grant of an exclusive lock.
Grants(l, id) ==
    /\ Exclusive
    /\ Writer(l, id)
    /\ Free(l)
    /\ \/ l.mode[id] = "held"
       \/ /\ ~HeldOriginOtherThan(l, id)
          /\ l.waiters = <<>> \/ Head(l.waiters) = id

\* The Denied outcome of acquire: the one a waiter queues and parks on.
Denies(l, id) ==
    Exclusive /\ Writer(l, id) /\ l.holder # id /\ ~Grants(l, id)
-----------------------------------------------------------------------------
(* Operations *)

NextGeneration(l) == (l.generation + 1) % GenModulus

\* waiters.retain(|w| *w != id), for a queue in which id occurs at most once.
Without(s, id) ==
    LET at == CHOOSE i \in 1 .. Len(s) : s[i] = id
    IN  IF \E i \in 1 .. Len(s) : s[i] = id
        THEN [i \in 1 .. Len(s) - 1 |-> IF i < at THEN s[i] ELSE s[i + 1]]
        ELSE s

\* Mutant of GrantTo: the grant keeps the generation.
GrantToSameGeneration(l, id) ==
    [l EXCEPT !.holder = id, !.waiters = Without(l.waiters, id)]

GrantTo(l, id) ==
    [l EXCEPT !.holder = id,
              !.waiters = Without(l.waiters, id),
              !.generation = NextGeneration(l)]

Register(l, id, m) ==
    LET added == [l EXCEPT !.mode[id] = m, !.purged[id] = 0]
    IN  IF m = "held" /\ Exclusive /\ Free(l)
        THEN [added EXCEPT !.holder = id, !.generation = NextGeneration(l)]
        ELSE added

Unregister(l, id) ==
    [l EXCEPT !.mode[id] = "absent",
              !.purged[id] = 0,
              !.waiters = Without(l.waiters, id),
              !.holder = IF l.holder = id THEN NoOrigin ELSE l.holder]

Acquire(l, id) == IF Grants(l, id) THEN GrantTo(l, id) ELSE l

\* Mutant of Enqueue: a newcomer goes to the front.
EnqueueAtFront(l, id) ==
    IF Writer(l, id) /\ l.holder # id /\ ~Queued(l, id)
    THEN [l EXCEPT !.waiters = <<id>> \o l.waiters] ELSE l

Enqueue(l, id) ==
    IF Writer(l, id) /\ l.holder # id /\ ~Queued(l, id)
    THEN [l EXCEPT !.waiters = Append(l.waiters, id)]
    ELSE l

Dequeue(l, id) == [l EXCEPT !.waiters = Without(l.waiters, id)]

\* The case of steal that takes the lock (neither read-only nor a self-steal).
Steals(l, id) == Exclusive /\ Writer(l, id) /\ l.holder # id

Steal(l, id) ==
    IF Steals(l, id)
    THEN [GrantTo(l, id) EXCEPT !.stolen = IF Free(l) THEN l.stolen
                                           ELSE <<l.holder, id>>]
    ELSE l

ReclaimHeld(l, id) ==
    IF l.mode[id] = "held" /\ Exclusive /\ Free(l) THEN GrantTo(l, id) ELSE l

Release(l, id) == IF l.holder = id THEN [l EXCEPT !.holder = NoOrigin] ELSE l

Renew(l, id) ==
    IF l.holder = id THEN [l EXCEPT !.generation = NextGeneration(l)] ELSE l

RecordPurge(l, id, n) ==
    IF Registered(l, id)
    THEN [l EXCEPT !.purged[id] =
                       IF l.purged[id] + n > PurgeMax THEN PurgeMax
                                                      ELSE l.purged[id] + n]
    ELSE l
-----------------------------------------------------------------------------
(* The state machine: any operation, in any order, except that enqueue is  *)
(* only called after a Denied acquire and that the daemon never            *)
(* registers an id that is registered already: it mints a new one.         *)

VARIABLE lock

Init == lock = NewLock

Attach(id)  == /\ ~Registered(lock, id)
               /\ \E m \in WriteMode : lock' = Register(lock, id, m)
Detach(id)  == Registered(lock, id) /\ lock' = Unregister(lock, id)
Take(id)    == lock' = Acquire(lock, id)
Wait(id)    == Denies(lock, id) /\ lock' = Enqueue(lock, id)
Cancel(id)  == lock' = Dequeue(lock, id)
Seize(id)   == lock' = Steal(lock, id)
Reclaim(id) == lock' = ReclaimHeld(lock, id)
Yield(id)   == lock' = Release(lock, id)
Extend(id)  == lock' = Renew(lock, id)
Purge(id)   == \E n \in 1 .. PurgeMax : lock' = RecordPurge(lock, id, n)

Next == \E id \in Origin :
    \/ Attach(id) \/ Detach(id) \/ Take(id) \/ Wait(id) \/ Cancel(id)
    \/ Seize(id) \/ Reclaim(id) \/ Yield(id) \/ Extend(id) \/ Purge(id)

Spec == Init /\ [][Next]_lock
-----------------------------------------------------------------------------
(* Properties *)

\* Type correctness of the EndpointLock struct, for every sequence of calls.
TypeOK == lock \in LockState

\* No phantom holder: whatever order detaches, steals, releases and grants
\* come in, the holder is a registered writer, and a free-for-all endpoint
\* (which has no lock) never has one.
HolderSoundIn(l) == ~Free(l) => Exclusive /\ Writer(l, l.holder)
HolderSound == HolderSoundIn(lock)

\* The FIFO queue never holds a ghost: every waiter is a registered writer, at
\* one place of the queue only, and is not the holder.  A detach, steal or
\* reclaim that left one behind would stop the queue at an entry nobody serves.
QueueSoundIn(l) ==
    /\ \A i \in 1 .. Len(l.waiters) :
           /\ Writer(l, l.waiters[i])
           /\ l.waiters[i] # l.holder
    /\ \A i, j \in 1 .. Len(l.waiters) : l.waiters[i] = l.waiters[j] => i = j
QueueSound == QueueSoundIn(lock)

\* No mutual denial: while the lock is free and somebody waits, acquire grants
\* it to at least one of the waiters and the registered held origins.  (The
\* held-priority rule and the FIFO rule of acquire must not refuse everyone.)
NoMutualDenial ==
    Exclusive /\ Free(lock) /\ lock.waiters # <<>> =>
        \E o \in Origin : /\ Queued(lock, o) \/ lock.mode[o] = "held"
                          /\ Grants(lock, o)

\* The queue is never reordered: origins that stay queued keep their relative
\* order and newcomers go behind all of them, also across a steal, which
\* "bypasses the queue without destroying it".
Before(s, a, b) ==
    \E i, j \in 1 .. Len(s) : i < j /\ s[i] = a /\ s[j] = b
OrderKept ==
    \A a, b \in Origin :
        Before(lock'.waiters, a, b) /\ Queued(lock, b) =>
            Before(lock.waiters, a, b)
QueueOrderKept == [][OrderKept]_lock

\* Whenever the lock passes to an origin the generation moves, so no lease
\* timer armed for an earlier grant can match the new one.
GenerationMarksGrants ==
    [][lock'.holder \notin {NoOrigin, lock.holder} =>
           lock'.generation # lock.generation]_lock

\* The lock's state is sound after every sequence of calls: well-formed, no
\* phantom holder, no ghost or repetition in the queue, and never a free lock
\* that refuses everybody who may have it.
LockSound == TypeOK /\ HolderSound /\ QueueSound /\ NoMutualDenial
=============================================================================
