----------------------- MODULE WriteArbitrationProofs -----------------------
(***************************************************************************)
(* Proofs about EndpointLock, and about WriteArbitration over it: no     *)
(* wake-up is lost, no ghost stands in the queue, no phantom origin is     *)
(* left on the lock, and no lease ends a grant that is not its own,        *)
(* whatever verbs, timers, pumps and edge surgery do in whatever order.    *)
(***************************************************************************)
EXTENDS WaitOrder, TLAPS
-----------------------------------------------------------------------------
(* The endpoint lock.  LockInv(l) is its inductive invariant; each operation *)
(* preserves it by a lemma of its own, so that the handlers which compose    *)
(* several operations can cite the lemmas.                                   *)

LockInv(l) == l \in LockState /\ HolderSoundIn(l) /\ QueueSoundIn(l)

\* Removing an origin from a queue without repetitions leaves a queue without
\* repetitions, over the same origins, that the removed one is not in.
LEMMA WithoutProperties ==
    ASSUME NEW s \in Seq(Origin), NEW id \in Origin,
           \A i, j \in 1 .. Len(s) : s[i] = s[j] => i = j
    PROVE  /\ Without(s, id) \in Seq(Origin)
           /\ \A i \in 1 .. Len(Without(s, id)) :
                  /\ Without(s, id)[i] # id
                  /\ \E k \in 1 .. Len(s) : Without(s, id)[i] = s[k]
           /\ \A i, j \in 1 .. Len(Without(s, id)) :
                  Without(s, id)[i] = Without(s, id)[j] => i = j
<1> DEFINE at == CHOOSE i \in 1 .. Len(s) : s[i] = id
           t == [i \in 1 .. Len(s) - 1 |-> IF i < at THEN s[i] ELSE s[i + 1]]
<1>1. CASE ~ \E i \in 1 .. Len(s) : s[i] = id
  <2>1. Without(s, id) = s
    BY <1>1 DEF Without
  <2> QED BY <2>1, <1>1
<1>2. CASE \E i \in 1 .. Len(s) : s[i] = id
  <2>1. Without(s, id) = t
    BY <1>2 DEF Without
  <2>2. at \in 1 .. Len(s) /\ s[at] = id
    BY <1>2
  <2> HIDE DEF at
  <2>3. Len(s) \in Nat /\ Len(s) - 1 \in Nat
    BY <2>2
  <2>4. t \in Seq(Origin) /\ Len(t) = Len(s) - 1
    BY <2>2, <2>3
  <2>5. \A i \in 1 .. Len(t) : t[i] # id /\ \E k \in 1 .. Len(s) : t[i] = s[k]
    BY <2>2, <2>3, <2>4
  <2>6. \A i, j \in 1 .. Len(t) : t[i] = t[j] => i = j
    BY <2>2, <2>3, <2>4
  <2> HIDE DEF t
  <2> QED BY <2>1, <2>4, <2>5, <2>6
<1> QED BY <1>1, <1>2

\* Queues of a sound lock satisfy the hypotheses of WithoutProperties.
LEMMA SoundQueue ==
    ASSUME NEW l, LockInv(l), NEW id \in Origin
    PROVE  LET w == Without(l.waiters, id)
           IN  /\ w \in Seq(Origin)
               /\ \A i \in 1 .. Len(w) :
                      /\ w[i] # id
                      /\ Writer(l, w[i])
                      /\ w[i] # l.holder
               /\ \A i, j \in 1 .. Len(w) : w[i] = w[j] => i = j
<1>1. l.waiters \in Seq(Origin)
  BY DEF LockInv, LockState
<1>2. \A i, j \in 1 .. Len(l.waiters) : l.waiters[i] = l.waiters[j] => i = j
  BY DEF LockInv, QueueSoundIn
<1>3. \A i \in 1 .. Len(l.waiters) :
          Writer(l, l.waiters[i]) /\ l.waiters[i] # l.holder
  BY DEF LockInv, QueueSoundIn
<1> DEFINE w == Without(l.waiters, id)
<1>4. /\ w \in Seq(Origin)
      /\ \A i \in 1 .. Len(w) :
             w[i] # id /\ \E k \in 1 .. Len(l.waiters) : w[i] = l.waiters[k]
      /\ \A i, j \in 1 .. Len(w) : w[i] = w[j] => i = j
  BY <1>1, <1>2, WithoutProperties
<1> HIDE DEF w
<1>5. \A i \in 1 .. Len(w) :
          w[i] # id /\ Writer(l, w[i]) /\ w[i] # l.holder
  BY <1>3, <1>4
<1> QED BY <1>4, <1>5 DEF w

\* A bumped generation stays in its type.
LEMMA NextGenerationType ==
    ASSUME NEW l \in LockState
    PROVE  NextGeneration(l) \in 0 .. GenModulus - 1
BY GenModulusAssumption DEF NextGeneration, LockState

\* A grant to a registered writer of an exclusive lock keeps the lock sound.
LEMMA GrantToInv ==
    ASSUME NEW l, LockInv(l), NEW id \in Origin, Exclusive, Writer(l, id)
    PROVE  LockInv(GrantTo(l, id))
<1> DEFINE w == Without(l.waiters, id)
           g == NextGeneration(l)
           n == GrantTo(l, id)
<1>1. l \in LockState
  BY DEF LockInv
<1>2. /\ w \in Seq(Origin)
      /\ \A i \in 1 .. Len(w) : w[i] # id /\ Writer(l, w[i])
      /\ \A i, j \in 1 .. Len(w) : w[i] = w[j] => i = j
  BY SoundQueue
<1>3. g \in 0 .. GenModulus - 1
  BY <1>1, NextGenerationType
<1>4. n = [l EXCEPT !.holder = id, !.waiters = w, !.generation = g]
  BY DEF GrantTo
<1> HIDE DEF w, g, n
<1>5. /\ n \in LockState
      /\ n.mode = l.mode /\ n.holder = id /\ n.waiters = w
  BY <1>1, <1>2, <1>3, <1>4 DEF LockState
<1>6. HolderSoundIn(n)
  BY <1>5 DEF HolderSoundIn, Writer
<1>7. QueueSoundIn(n)
  BY <1>2, <1>5 DEF QueueSoundIn, Writer
<1> QED BY <1>5, <1>6, <1>7 DEF LockInv, n

\* A registration; a held one takes a free floor at once.
LEMMA RegisterInv ==
    ASSUME NEW l, LockInv(l), NEW id \in Origin, NEW m \in WriteMode,
           ~Registered(l, id)
    PROVE  LockInv(Register(l, id, m))
<1> DEFINE added == [l EXCEPT !.mode[id] = m, !.purged[id] = 0]
           n == Register(l, id, m)
           g == NextGeneration(l)
<1>1. l \in LockState /\ HolderSoundIn(l) /\ QueueSoundIn(l)
  BY DEF LockInv
<1>2. 0 \in 0 .. PurgeMax /\ g \in 0 .. GenModulus - 1
  BY <1>1, PurgeMaxAssumption, NextGenerationType
<1>3. m \in WriteMode \cup {"absent"}
  OBVIOUS
<1>4. /\ added \in LockState
      /\ added.mode = [l.mode EXCEPT ![id] = m]
      /\ added.holder = l.holder /\ added.waiters = l.waiters
  BY <1>1, <1>2, <1>3 DEF LockState
<1>5. \A o \in Origin : Writer(l, o) => o # id /\ added.mode[o] = l.mode[o]
  BY <1>1, <1>4 DEF LockState, Writer, Registered
<1>6. l.holder \in Origin \cup {NoOrigin} /\ l.waiters \in Seq(Origin)
  BY <1>1 DEF LockState
<1> DEFINE granted == [added EXCEPT !.holder = id, !.generation = g]
<1>7. n = IF m = "held" /\ Exclusive /\ Free(l) THEN granted ELSE added
  BY DEF Register
<1>8. \A i \in 1 .. Len(l.waiters) :
          l.waiters[i] \in Origin /\ Writer(l, l.waiters[i])
                                 /\ l.waiters[i] # l.holder
  BY <1>1, <1>6 DEF QueueSoundIn
<1>9. \A i, j \in 1 .. Len(l.waiters) : l.waiters[i] = l.waiters[j] => i = j
  BY <1>1 DEF QueueSoundIn
<1> HIDE DEF added, n, g
<1>10. \A i \in 1 .. Len(l.waiters) :
           l.waiters[i] # id /\ Writer(added, l.waiters[i])
  BY <1>5, <1>8 DEF Writer
<1>11. CASE m = "held" /\ Exclusive /\ Free(l)
  <2>1. n = granted
    BY <1>7, <1>11
  <2>2. /\ n \in LockState
        /\ n.mode = added.mode /\ n.holder = id /\ n.waiters = l.waiters
    BY <1>2, <1>4, <2>1 DEF LockState
  <2> HIDE DEF granted
  <2>3. n.mode[id] = "held"
    BY <1>1, <1>4, <1>11, <2>2 DEF LockState
  <2>4. HolderSoundIn(n)
    BY <1>11, <2>2, <2>3 DEF HolderSoundIn, Writer
  <2>5. \A o : Writer(n, o) <=> Writer(added, o)
    BY <2>2 DEF Writer
  <2>6. QueueSoundIn(n)
    BY <1>9, <1>10, <2>2, <2>5 DEF QueueSoundIn
  <2> QED BY <2>2, <2>4, <2>6 DEF LockInv, n
<1>12. CASE ~(m = "held" /\ Exclusive /\ Free(l))
  <2>1. n = added
    BY <1>7, <1>12
  <2>2. HolderSoundIn(n)
    BY <1>1, <1>4, <1>5, <1>6, <2>1 DEF HolderSoundIn, Writer, Free
  <2>3. QueueSoundIn(n)
    BY <1>4, <1>8, <1>9, <1>10, <2>1 DEF QueueSoundIn
  <2> QED BY <1>4, <2>1, <2>2, <2>3 DEF LockInv, n
<1> QED BY <1>11, <1>12

\* A registration ends with its grant and its place in the queue.
LEMMA UnregisterInv ==
    ASSUME NEW l, LockInv(l), NEW id \in Origin
    PROVE  LockInv(Unregister(l, id))
<1> DEFINE w == Without(l.waiters, id)
           h == IF l.holder = id THEN NoOrigin ELSE l.holder
           n == Unregister(l, id)
<1>1. l \in LockState /\ HolderSoundIn(l)
  BY DEF LockInv
<1>2. /\ w \in Seq(Origin)
      /\ \A i \in 1 .. Len(w) :
             w[i] # id /\ Writer(l, w[i]) /\ w[i] # l.holder
      /\ \A i, j \in 1 .. Len(w) : w[i] = w[j] => i = j
  BY SoundQueue
<1>3. n = [l EXCEPT !.mode[id] = "absent", !.purged[id] = 0,
                    !.waiters = w, !.holder = h]
  BY DEF Unregister
<1>4. h \in Origin \cup {NoOrigin} /\ h # id /\ (h # NoOrigin => h = l.holder)
  BY <1>1, NoOriginAssumption DEF LockState
<1> HIDE DEF w, h, n
<1>5. /\ n \in LockState
      /\ n.mode = [l.mode EXCEPT ![id] = "absent"]
      /\ n.holder = h /\ n.waiters = w
  <2> DEFINE m == [l.mode EXCEPT ![id] = "absent"]
             p == [l.purged EXCEPT ![id] = 0]
  <2>1. m \in [Origin -> WriteMode \cup {"absent"}]
    BY <1>1 DEF LockState
  <2>2. p \in [Origin -> 0 .. PurgeMax]
    BY <1>1, PurgeMaxAssumption DEF LockState
  <2>3. n = [l EXCEPT !.mode = m, !.purged = p, !.waiters = w, !.holder = h]
    BY <1>1, <1>3 DEF LockState
  <2>4. n.mode = m /\ n.holder = h /\ n.waiters = w
    BY <1>1, <1>3 DEF LockState
  <2> HIDE DEF m, p
  <2>5. n \in LockState
    BY <1>1, <1>2, <1>4, <2>1, <2>2, <2>3 DEF LockState
  <2> QED BY <2>4, <2>5 DEF m
<1>6. \A o \in Origin : o # id => n.mode[o] = l.mode[o]
  BY <1>1, <1>5 DEF LockState
<1>7. HolderSoundIn(n)
  BY <1>1, <1>4, <1>5, <1>6 DEF HolderSoundIn, Writer, Free
<1>8. \A i \in 1 .. Len(w) : w[i] \in Origin /\ w[i] # NoOrigin
  BY <1>2, NoOriginAssumption
<1>9. QueueSoundIn(n)
  BY <1>2, <1>4, <1>5, <1>6, <1>8 DEF QueueSoundIn, Writer
<1> QED BY <1>5, <1>7, <1>9 DEF LockInv, n
\* What acquire grants is a grant.
LEMMA AcquireInv ==
    ASSUME NEW l, LockInv(l), NEW id \in Origin
    PROVE  LockInv(Acquire(l, id))
BY GrantToInv DEF Acquire, Grants

\* A held origin takes a free floor back.
LEMMA ReclaimHeldInv ==
    ASSUME NEW l, LockInv(l), NEW id \in Origin
    PROVE  LockInv(ReclaimHeld(l, id))
<1>1. l.mode[id] = "held" => Writer(l, id)
  BY DEF Writer
<1> QED BY <1>1, GrantToInv DEF ReclaimHeld

\* A lock that differs only in fields the soundness of holder and queue does
\* not read is as sound as the other.
LEMMA SameSoundness ==
    ASSUME NEW l, LockInv(l), NEW n \in LockState,
           n.mode = l.mode, n.holder = l.holder, n.waiters = l.waiters
    PROVE  LockInv(n)
BY DEF LockInv, HolderSoundIn, QueueSoundIn, Writer, Free

\* A steal is a grant that names its victim.
LEMMA StealInv ==
    ASSUME NEW l, LockInv(l), NEW id \in Origin
    PROVE  LockInv(Steal(l, id))
<1>1. CASE Steals(l, id)
  <2> DEFINE g == GrantTo(l, id)
             r == IF Free(l) THEN l.stolen ELSE <<l.holder, id>>
             n == Steal(l, id)
  <2>1. LockInv(g)
    BY <1>1, GrantToInv DEF Steals
  <2>2. r \in (Origin \X Origin) \cup {<<>>}
    BY DEF LockInv, LockState, Free
  <2>3. n = [g EXCEPT !.stolen = r]
    BY <1>1 DEF Steal
  <2> HIDE DEF g, r, n
  <2>4. /\ n \in LockState
        /\ n.mode = g.mode /\ n.holder = g.holder /\ n.waiters = g.waiters
    BY <2>1, <2>2, <2>3 DEF LockInv, LockState
  <2>5. LockInv(n)
    BY <2>1, <2>4, SameSoundness
  <2> QED BY <2>5 DEF n
<1>2. CASE ~Steals(l, id)
  BY <1>2 DEF Steal
<1> QED BY <1>1, <1>2

\* A wait joins the end of the queue.
LEMMA EnqueueInv ==
    ASSUME NEW l, LockInv(l), NEW id \in Origin
    PROVE  LockInv(Enqueue(l, id))
<1>1. CASE Writer(l, id) /\ l.holder # id /\ ~Queued(l, id)
  <2> DEFINE w == Append(l.waiters, id)
             n == Enqueue(l, id)
  <2>1. l \in LockState /\ HolderSoundIn(l) /\ QueueSoundIn(l)
    BY DEF LockInv
  <2>2. l.waiters \in Seq(Origin)
    BY <2>1 DEF LockState
  <2>3. /\ w \in Seq(Origin) /\ Len(w) = Len(l.waiters) + 1
        /\ \A i \in 1 .. Len(l.waiters) : w[i] = l.waiters[i] /\ w[i] # id
        /\ w[Len(l.waiters) + 1] = id
    BY <1>1, <2>2 DEF Queued
  <2>4. Len(l.waiters) \in Nat
    BY <2>2
  <2>5. n = [l EXCEPT !.waiters = w]
    BY <1>1 DEF Enqueue
  <2> HIDE DEF w, n
  <2>6. /\ n \in LockState
        /\ n.mode = l.mode /\ n.holder = l.holder /\ n.waiters = w
    BY <2>1, <2>3, <2>5 DEF LockState
  <2>7. HolderSoundIn(n)
    BY <2>1, <2>6 DEF HolderSoundIn, Writer, Free
  <2>8. \A i \in 1 .. Len(w) : i = Len(l.waiters) + 1 \/ i \in 1 .. Len(l.waiters)
    BY <2>3, <2>4
  <2>9. \A i \in 1 .. Len(w) : Writer(l, w[i]) /\ w[i] # l.holder
    BY <1>1, <2>1, <2>3, <2>8 DEF QueueSoundIn
  <2>10. \A i, j \in 1 .. Len(w) : w[i] = w[j] => i = j
    BY <2>1, <2>3, <2>8 DEF QueueSoundIn
  <2>11. QueueSoundIn(n)
    BY <2>6, <2>9, <2>10 DEF QueueSoundIn, Writer
  <2> QED BY <2>6, <2>7, <2>11 DEF LockInv, n
<1>2. CASE ~(Writer(l, id) /\ l.holder # id /\ ~Queued(l, id))
  BY <1>2 DEF Enqueue
<1> QED BY <1>1, <1>2

\* A wait leaves the queue wherever it stood.
LEMMA DequeueInv ==
    ASSUME NEW l, LockInv(l), NEW id \in Origin
    PROVE  LockInv(Dequeue(l, id))
<1> DEFINE w == Without(l.waiters, id)
           n == Dequeue(l, id)
<1>1. l \in LockState /\ HolderSoundIn(l)
  BY DEF LockInv
<1>2. /\ w \in Seq(Origin)
      /\ \A i \in 1 .. Len(w) : Writer(l, w[i]) /\ w[i] # l.holder
      /\ \A i, j \in 1 .. Len(w) : w[i] = w[j] => i = j
  BY SoundQueue
<1>3. n = [l EXCEPT !.waiters = w]
  BY DEF Dequeue
<1> HIDE DEF w, n
<1>4. /\ n \in LockState
      /\ n.mode = l.mode /\ n.holder = l.holder /\ n.waiters = w
  BY <1>1, <1>2, <1>3 DEF LockState
<1>5. HolderSoundIn(n)
  BY <1>1, <1>4 DEF HolderSoundIn, Writer, Free
<1>6. QueueSoundIn(n)
  BY <1>2, <1>4 DEF QueueSoundIn, Writer
<1> QED BY <1>4, <1>5, <1>6 DEF LockInv, n

\* The owner of the grant gives it back.
LEMMA ReleaseInv ==
    ASSUME NEW l, LockInv(l), NEW id \in Origin
    PROVE  LockInv(Release(l, id))
<1>1. CASE l.holder = id
  <2> DEFINE n == Release(l, id)
  <2>1. l \in LockState /\ QueueSoundIn(l)
    BY DEF LockInv
  <2>2. n = [l EXCEPT !.holder = NoOrigin]
    BY <1>1 DEF Release
  <2> HIDE DEF n
  <2>3. /\ n \in LockState
        /\ n.mode = l.mode /\ n.holder = NoOrigin /\ n.waiters = l.waiters
    BY <2>1, <2>2 DEF LockState
  <2>4. \A i \in 1 .. Len(l.waiters) : l.waiters[i] # NoOrigin
    BY <2>1, NoOriginAssumption DEF LockState
  <2>5. QueueSoundIn(n)
    BY <2>1, <2>3, <2>4 DEF QueueSoundIn, Writer
  <2>6. HolderSoundIn(n)
    BY <2>3 DEF HolderSoundIn, Free
  <2> QED BY <2>3, <2>5, <2>6 DEF LockInv, n
<1>2. CASE l.holder # id
  BY <1>2 DEF Release
<1> QED BY <1>1, <1>2

\* A renewal by the holder takes a new generation.
LEMMA RenewInv ==
    ASSUME NEW l, LockInv(l), NEW id \in Origin
    PROVE  LockInv(Renew(l, id))
<1> DEFINE g == NextGeneration(l)
           n == Renew(l, id)
<1>1. l \in LockState
  BY DEF LockInv
<1>2. g \in 0 .. GenModulus - 1
  BY <1>1, NextGenerationType
<1>3. n = IF l.holder = id THEN [l EXCEPT !.generation = g] ELSE l
  BY DEF Renew
<1> HIDE DEF g, n
<1>4. /\ n \in LockState
      /\ n.mode = l.mode /\ n.holder = l.holder /\ n.waiters = l.waiters
  BY <1>1, <1>2, <1>3 DEF LockState
<1>5. LockInv(n)
  BY <1>4, SameSoundness
<1> QED BY <1>5 DEF n

\* A purge is counted and changes nothing else.
LEMMA RecordPurgeInv ==
    ASSUME NEW l, LockInv(l), NEW id \in Origin, NEW k \in Nat
    PROVE  LockInv(RecordPurge(l, id, k))
<1> DEFINE v == IF l.purged[id] + k > PurgeMax THEN PurgeMax
                                               ELSE l.purged[id] + k
           n == RecordPurge(l, id, k)
<1>1. l \in LockState
  BY DEF LockInv
<1>2. v \in 0 .. PurgeMax
  BY <1>1, PurgeMaxAssumption DEF LockState
<1>3. n = IF Registered(l, id) THEN [l EXCEPT !.purged[id] = v] ELSE l
  BY DEF RecordPurge
<1> HIDE DEF v, n
<1>4. /\ n \in LockState
      /\ n.mode = l.mode /\ n.holder = l.holder /\ n.waiters = l.waiters
  BY <1>1, <1>2, <1>3 DEF LockState
<1>5. LockInv(n)
  BY <1>4, SameSoundness
<1> QED BY <1>5 DEF n
-----------------------------------------------------------------------------
\* A new lock is sound.
LEMMA NewLockInv == LockInv(NewLock)
<1>1. NewLock \in LockState
  BY GenModulusAssumption, PurgeMaxAssumption DEF NewLock, LockState
<1>2. NewLock.holder = NoOrigin /\ NewLock.waiters = <<>>
  BY DEF NewLock
<1> QED
  BY <1>1, <1>2 DEF LockInv, HolderSoundIn, QueueSoundIn, Free

\* Every call on the lock keeps it sound.
LEMMA NextInv == ASSUME LockInv(lock), Next PROVE LockInv(lock')
<1> PICK id \in Origin :
      \/ Attach(id) \/ Detach(id) \/ Take(id) \/ Wait(id) \/ Cancel(id)
      \/ Seize(id) \/ Reclaim(id) \/ Yield(id) \/ Extend(id) \/ Purge(id)
  BY DEF Next
<1>1. CASE Attach(id)   BY <1>1, RegisterInv DEF Attach
<1>2. CASE Detach(id)   BY <1>2, UnregisterInv DEF Detach
<1>3. CASE Take(id)     BY <1>3, AcquireInv DEF Take
<1>4. CASE Wait(id)     BY <1>4, EnqueueInv DEF Wait
<1>5. CASE Cancel(id)   BY <1>5, DequeueInv DEF Cancel
<1>6. CASE Seize(id)    BY <1>6, StealInv DEF Seize
<1>7. CASE Reclaim(id)  BY <1>7, ReclaimHeldInv DEF Reclaim
<1>8. CASE Yield(id)    BY <1>8, ReleaseInv DEF Yield
<1>9. CASE Extend(id)   BY <1>9, RenewInv DEF Extend
<1>10. CASE Purge(id)
  <2> PICK k \in 1 .. PurgeMax : lock' = RecordPurge(lock, id, k)
    BY <1>10 DEF Purge
  <2> QED BY PurgeMaxAssumption, RecordPurgeInv
<1> QED
  BY <1>1, <1>2, <1>3, <1>4, <1>5, <1>6, <1>7, <1>8, <1>9, <1>10

\* Type correctness of the lock, its holder and its queue, for any number of
\* origins and every sequence of calls: Spec keeps LockInv.
THEOREM LockInvariance == Spec => []LockInv(lock)
<1>1. Init => LockInv(lock)
  BY NewLockInv DEF Init
<1>2. LockInv(lock) /\ [Next]_lock => LockInv(lock)'
  BY NextInv DEF LockInv
<1> QED BY <1>1, <1>2, PTL DEF Spec

\* The lock's type invariant, for every set of origins.
THEOREM TypeCorrect == Spec => []TypeOK
<1>1. LockInv(lock) => TypeOK
  BY DEF LockInv, TypeOK
<1> QED BY <1>1, LockInvariance, PTL

\* No phantom holder, for every set of origins.
THEOREM HolderAlwaysSound == Spec => []HolderSound
<1>1. LockInv(lock) => HolderSound
  BY DEF LockInv, HolderSound
<1> QED BY <1>1, LockInvariance, PTL

\* No ghost in the FIFO queue, for every set of origins.
THEOREM QueueAlwaysSound == Spec => []QueueSound
<1>1. LockInv(lock) => QueueSound
  BY DEF LockInv, QueueSound
<1> QED BY <1>1, LockInvariance, PTL
\* While the lock is free and somebody waits, acquire grants it to one of the
\* waiters or held origins: held priority and FIFO order never refuse everyone.
THEOREM NeverMutualDenial == Spec => []NoMutualDenial
<1>1. LockInv(lock) => NoMutualDenial
  <2> SUFFICES ASSUME LockInv(lock), Exclusive, Free(lock), lock.waiters # <<>>
               PROVE  \E o \in Origin :
                          /\ Queued(lock, o) \/ lock.mode[o] = "held"
                          /\ Grants(lock, o)
    BY DEF NoMutualDenial
  <2>1. CASE \E o \in Origin : lock.mode[o] = "held"
    BY <2>1 DEF Grants, Writer
  <2>2. CASE ~ \E o \in Origin : lock.mode[o] = "held"
    <3> DEFINE h == Head(lock.waiters)
    <3>1. lock.waiters \in Seq(Origin)
      BY DEF LockInv, LockState
    <3>2. h \in Origin /\ 1 \in 1 .. Len(lock.waiters) /\ lock.waiters[1] = h
      BY <3>1
    <3>3. Writer(lock, h)
      BY <3>2 DEF LockInv, QueueSoundIn
    <3>4. Queued(lock, h) /\ Grants(lock, h)
      BY <2>2, <3>2, <3>3 DEF Queued, Grants, HeldOriginOtherThan
    <3> QED BY <3>2, <3>4
  <2> QED BY <2>1, <2>2
<1> QED BY <1>1, LockInvariance, PTL

\* What every caller of the lock relies on, at once: the pure lock never reaches
\* a state whose holder or queue names a departed or read-only origin, or in
\* which two origins deny each other.
THEOREM LockAlwaysSound == Spec => []LockSound
BY TypeCorrect, HolderAlwaysSound, QueueAlwaysSound, NeverMutualDenial, PTL
   DEF LockSound

\* A bumped generation is another one.
LEMMA NextGenerationDiffers ==
    ASSUME NEW l \in LockState
    PROVE  NextGeneration(l) # l.generation
<1> DEFINE g == l.generation
<1>1. g \in 0 .. GenModulus - 1
  BY DEF LockState
<1>2. CASE g + 1 = GenModulus
  <2>1. (g + 1) % GenModulus = 0
    BY <1>2, GenModulusAssumption
  <2> QED BY <1>2, <2>1, GenModulusAssumption DEF NextGeneration
<1>3. CASE g + 1 < GenModulus
  <2>1. (g + 1) % GenModulus = g + 1
    BY <1>1, <1>3, GenModulusAssumption
  <2> QED BY <1>1, <2>1 DEF NextGeneration
<1> QED BY <1>1, <1>2, <1>3, GenModulusAssumption

\* What a grant changes of the lock.
LEMMA GrantToFields ==
    ASSUME NEW l \in LockState, NEW id \in Origin
    PROVE  /\ GrantTo(l, id).generation = NextGeneration(l)
           /\ GrantTo(l, id).holder = id
           /\ GrantTo(l, id).mode = l.mode
BY DEF GrantTo, LockState

\* Whenever the lock passes to an origin the generation changes, whatever the
\* operation that passed it: the fact every lease timer relies on.
THEOREM GenerationAlwaysMarks == Spec => GenerationMarksGrants
<1> DEFINE Passes == lock'.holder \notin {NoOrigin, lock.holder}
           Moves == lock'.generation # lock.generation
<1>1. ASSUME LockInv(lock), Next PROVE Passes => Moves
  <2>1. lock \in LockState /\ NextGeneration(lock) # lock.generation
    BY <1>1, NextGenerationDiffers DEF LockInv
  <2> PICK id \in Origin :
        \/ Attach(id) \/ Detach(id) \/ Take(id) \/ Wait(id) \/ Cancel(id)
        \/ Seize(id) \/ Reclaim(id) \/ Yield(id) \/ Extend(id) \/ Purge(id)
    BY <1>1 DEF Next
  <2>2. CASE Attach(id)
    <3> PICK m \in WriteMode : lock' = Register(lock, id, m)
      BY <2>2 DEF Attach
    <3> QED BY <2>1 DEF Register, LockState
  <2>3. CASE Detach(id)
    BY <2>1, <2>3 DEF Detach, Unregister, LockState
  <2>4. CASE Take(id)
    BY <2>1, <2>4, GrantToFields DEF Take, Acquire
  <2>5. CASE Wait(id)
    BY <2>1, <2>5 DEF Wait, Enqueue, LockState
  <2>6. CASE Cancel(id)
    BY <2>1, <2>6 DEF Cancel, Dequeue, LockState
  <2>7. CASE Seize(id)
    BY <2>1, <2>7 DEF Seize, Steal, GrantTo, LockState
  <2>8. CASE Reclaim(id)
    BY <2>1, <2>8, GrantToFields DEF Reclaim, ReclaimHeld
  <2>9. CASE Yield(id)
    BY <2>1, <2>9 DEF Yield, Release, LockState
  <2>10. CASE Extend(id)
    BY <2>1, <2>10 DEF Extend, Renew, LockState
  <2>11. CASE Purge(id)
    BY <2>1, <2>11 DEF Purge, RecordPurge, LockState
  <2> QED BY <2>2, <2>3, <2>4, <2>5, <2>6, <2>7, <2>8, <2>9, <2>10, <2>11
<1>2. LockInv(lock) /\ [Next]_lock => [Passes => Moves]_lock
  BY <1>1
<1> QED BY <1>2, LockInvariance, PTL DEF Spec, GenerationMarksGrants

-----------------------------------------------------------------------------
(* The order of the queue *)

\* Removing an origin brings no two others into a new order.
LEMMA BeforeWithout ==
    ASSUME NEW s \in Seq(Origin), NEW id \in Origin, NEW a, NEW b,
           Before(Without(s, id), a, b)
    PROVE  Before(s, a, b)
<1> DEFINE at == CHOOSE i \in 1 .. Len(s) : s[i] = id
           t == [i \in 1 .. Len(s) - 1 |-> IF i < at THEN s[i] ELSE s[i + 1]]
<1>1. CASE ~ \E i \in 1 .. Len(s) : s[i] = id
  BY <1>1 DEF Without
<1>2. CASE \E i \in 1 .. Len(s) : s[i] = id
  <2>1. Without(s, id) = t
    BY <1>2 DEF Without
  <2>2. at \in 1 .. Len(s) /\ Len(s) \in Nat
    BY <1>2
  <2> HIDE DEF at
  <2>3. Len(s) - 1 \in Nat
    BY <2>2
  <2>4. Len(t) = Len(s) - 1 /\ \A i \in 1 .. Len(t) : t[i] = IF i < at THEN s[i] ELSE s[i + 1]
    BY <2>2, <2>3
  <2> HIDE DEF t
  <2>5. PICK i, j \in 1 .. Len(t) : i < j /\ t[i] = a /\ t[j] = b
    BY <2>1 DEF Before
  <2> DEFINE k == IF i < at THEN i ELSE i + 1
             m == IF j < at THEN j ELSE j + 1
  <2>6. k \in 1 .. Len(s) /\ m \in 1 .. Len(s) /\ k < m
    BY <2>2, <2>4, <2>5
  <2>7. s[k] = a /\ s[m] = b
    BY <2>4, <2>5
  <2> HIDE DEF k, m
  <2> QED BY <2>6, <2>7 DEF Before
<1> QED BY <1>1, <1>2

\* What a step does to the queue: nothing, a removal, or an addition at its end.
QueueStep(l, m) ==
    \/ m.waiters = l.waiters
    \/ \E id \in Origin :
           \/ m.waiters = Without(l.waiters, id)
           \/ ~Queued(l, id) /\ m.waiters = Append(l.waiters, id)

\* A step that only removes from the queue, or adds at its end, keeps its order.
LEMMA QueueStepOrder ==
    ASSUME NEW l \in LockState, NEW m, QueueStep(l, m), NEW a, NEW b,
           Before(m.waiters, a, b), Queued(l, b)
    PROVE  Before(l.waiters, a, b)
<1>1. l.waiters \in Seq(Origin)
  BY DEF LockState
<1>2. CASE m.waiters = l.waiters
  BY <1>2
<1>3. ASSUME NEW id \in Origin, m.waiters = Without(l.waiters, id)
      PROVE  Before(l.waiters, a, b)
  BY <1>1, <1>3, BeforeWithout
<1>4. ASSUME NEW id \in Origin, ~Queued(l, id), m.waiters = Append(l.waiters, id)
      PROVE  Before(l.waiters, a, b)
  <2> DEFINE s == l.waiters
             t == Append(s, id)
  <2>1. PICK i, j \in 1 .. Len(t) : i < j /\ t[i] = a /\ t[j] = b
    BY <1>4 DEF Before
  <2>2. Len(t) = Len(s) + 1 /\ Len(s) \in Nat /\ t[Len(s) + 1] = id
        /\ \A k \in 1 .. Len(s) : t[k] = s[k]
    BY <1>1, <1>4
  <2>3. b # id
    BY <1>4
  <2> HIDE DEF s, t
  <2>4. j \in 1 .. Len(s) /\ i \in 1 .. Len(s)
    BY <2>1, <2>2, <2>3
  <2>5. s[i] = a /\ s[j] = b
    BY <2>1, <2>2, <2>4
  <2> QED BY <2>1, <2>4, <2>5 DEF Before, s
<1> QED BY <1>2, <1>3, <1>4 DEF QueueStep

\* Every operation on the lock makes such a step.
LEMMA QueueSteps ==
    ASSUME LockInv(lock), Next
    PROVE  QueueStep(lock, lock')
<1>1. lock \in LockState
  BY DEF LockInv
<1>2. PICK id \in Origin :
        \/ Attach(id) \/ Detach(id) \/ Take(id) \/ Wait(id) \/ Cancel(id)
        \/ Seize(id) \/ Reclaim(id) \/ Yield(id) \/ Extend(id) \/ Purge(id)
  BY DEF Next
<1> DEFINE g == GrantTo(lock, id)
<1>3. g.waiters = Without(lock.waiters, id)
  BY <1>1 DEF GrantTo, LockState
<1>4. CASE Attach(id)
  <2>1. PICK m \in WriteMode : lock' = Register(lock, id, m)
    BY <1>4 DEF Attach
  <2> DEFINE d == [lock.mode EXCEPT ![id] = m]
             p == [lock.purged EXCEPT ![id] = 0]
             x == NextGeneration(lock)
  <2>2. [lock EXCEPT !.mode[id] = m, !.purged[id] = 0] = [lock EXCEPT !.mode = d, !.purged = p]
    BY <1>1 DEF LockState
  <2> HIDE DEF d, p, x
  <2>3. \/ lock' = [[lock EXCEPT !.mode = d, !.purged = p] EXCEPT !.holder = id, !.generation = x]
        \/ lock' = [lock EXCEPT !.mode = d, !.purged = p]
    BY <2>1, <2>2 DEF Register, x
  <2>4. lock'.waiters = lock.waiters
    BY <1>1, <2>3 DEF LockState
  <2> QED BY <2>4 DEF QueueStep
<1>5. CASE Detach(id) \/ Cancel(id)
  <2>1. lock'.waiters = Without(lock.waiters, id)
    BY <1>1, <1>5 DEF Detach, Cancel, Unregister, Dequeue, LockState
  <2> QED BY <2>1 DEF QueueStep
<1>6. CASE Take(id) \/ Reclaim(id)
  <2>1. lock' = g \/ lock' = lock
    BY <1>6 DEF Take, Reclaim, Acquire, ReclaimHeld
  <2> QED BY <1>3, <2>1 DEF QueueStep
<1>7. CASE Wait(id)
  <2>1. lock'.waiters = lock.waiters
        \/ (~Queued(lock, id) /\ lock'.waiters = Append(lock.waiters, id))
    BY <1>1, <1>7 DEF Wait, Enqueue, LockState
  <2> QED BY <2>1 DEF QueueStep
<1>8. CASE Seize(id)
  <2>1. lock' = Steal(lock, id)
    BY <1>8 DEF Seize
  <2>2. CASE Steals(lock, id)
    <3> DEFINE r == IF Free(lock) THEN lock.stolen ELSE <<lock.holder, id>>
    <3>1. lock' = [g EXCEPT !.stolen = r] /\ LockInv(g)
      BY <2>1, <2>2, GrantToInv DEF Steal, Steals
    <3> HIDE DEF g, r
    <3>2. lock'.waiters = g.waiters
      BY <3>1 DEF LockInv, LockState
    <3> QED BY <1>3, <3>2 DEF QueueStep
  <2>3. CASE ~Steals(lock, id)
    BY <2>1, <2>3 DEF Steal, QueueStep
  <2> QED BY <2>2, <2>3
<1>9. CASE Yield(id) \/ Extend(id) \/ Purge(id)
  <2>1. lock'.waiters = lock.waiters
    BY <1>1, <1>9 DEF Yield, Extend, Purge, Release, Renew, RecordPurge, LockState
  <2> QED BY <2>1 DEF QueueStep
<1> QED BY <1>2, <1>4, <1>5, <1>6, <1>7, <1>8, <1>9

\* The queue is first in, first out: no operation, a steal included, reorders those
\* who stay in it or lets a newcomer in before them.
THEOREM QueueNeverReordered == Spec => QueueOrderKept
<1>1. ASSUME LockInv(lock), Next PROVE OrderKept
  <2>1. lock \in LockState /\ QueueStep(lock, lock')
    BY <1>1, QueueSteps DEF LockInv
  <2> QED BY <2>1, QueueStepOrder DEF OrderKept
<1>2. LockInv(lock) /\ [Next]_lock => [OrderKept]_lock
  BY <1>1
<1> QED BY <1>2, LockInvariance, PTL DEF Spec, QueueOrderKept
-----------------------------------------------------------------------------
(* The inductive invariant *)

\* A sound lock, in whose queue somebody stands only if there is a lock to wait for.
LockOK(l) == LockInv(l) /\ \A x \in Origin : Queued(l, x) => Exclusive

\* What an actor may be doing, and under whose identity.
TaskOK(a, s) ==
    \/ s = Idle
    \/ /\ a \in Client /\ s.verb = "lock"
       /\ s.pc \in {"parked", "woken"} /\ s.id \in EdgeId
    \/ /\ a \in Client /\ s.verb = "send"
       /\ s.pc \in {"parked", "woken", "sending"} /\ s.id \in SendId
    \/ /\ a \in Pump /\ s.verb = "reclaim" /\ KindOf[a] = "codec" /\ ModeOf[a] # "never"
       /\ s.pc \in {"parked", "woken"} /\ s.id \in EdgeId
    \/ /\ a \in Pump /\ s.verb = "leg"
       /\ s.pc \in {"parked", "woken", "holding"} /\ s.id \in EdgeId

TaskInv == \A a \in Actor : TaskOK(a, task[a])

\* Ids are nobody else's: two edges, two sends, or the edge of a pump and another.
IdInv ==
    /\ \A s, t \in Target : edge[s] = edge[t] /\ edge[s] # NoOrigin => s = t
    /\ \A a \in Pump, t \in Target : edge[t] = task[a].id /\ edge[t] # NoOrigin => t = a
    /\ \A c, d \in Client :
           task[c].verb = "send" /\ task[d].verb = "send" /\ task[c].id = task[d].id => c = d

\* A connected edge is registered with its own mode.
ModeInv ==
    ~closed => \A t \in Target : edge[t] # NoOrigin => lock.mode[edge[t]] = ModeOf[t]

\* QueueIsServed, by somebody who is in the queue for it: a held pump is not.
ServedInv ==
    ~closed =>
        \A o \in Origin : Queued(lock, o) =>
            \E a \in Actor : Waiting(a) /\ task[a].verb # "reclaim" /\ task[a].id = o

\* The generation has moved on from every timer whose grant is over.
LeaseInv ==
    \A z \in leases :
        /\ z.generation <= lock.generation
        /\ z.stale /\ lock.holder = z.id => z.generation # lock.generation

ArbInv ==
    /\ ArbTypeOK /\ LockOK(lock) /\ TaskInv /\ IdInv /\ ModeInv /\ ServedInv /\ LeaseInv
    /\ NoPhantomOrigin /\ SendKeepsItsPlace /\ NoLostWakeup
-----------------------------------------------------------------------------
(* What the lock's operations do to one origin, and to the others *)

\* Others keep their registration and their place in the queue.
Only(l, m, id) ==
    \A x \in Origin : x # id => m.mode[x] = l.mode[x] /\ (Queued(m, x) <=> Queued(l, x))

\* The lock passes to an origin only with a new generation.
Moves(l, m) == m.holder \in {l.holder, NoOrigin} \/ m.generation # l.generation

\* A held origin that is kept out by a holder.
Barred(l, x) == l.mode[x] = "held" /\ ~Free(l) /\ l.holder # x

\* Whoever had to wait before still has to.
Quiet(l, m) ==
    \A x \in Origin : (Denies(l, x) => Denies(m, x)) /\ (Barred(l, x) => Barred(m, x))

\* The same registrations, holder and queue.
Kept(l, m) == m.mode = l.mode /\ m.holder = l.holder /\ m.waiters = l.waiters

\* Such a lock answers every query alike.
LEMMA KeptFacts ==
    ASSUME NEW l, NEW m, Kept(l, m)
    PROVE  /\ \A x : Only(l, m, x)
           /\ Moves(l, m) /\ Quiet(l, m)
           /\ \A x : /\ Queued(m, x) <=> Queued(l, x)
                     /\ Denies(m, x) <=> Denies(l, x)
                     /\ Registered(m, x) <=> Registered(l, x)
BY DEF Kept, Only, Moves, Quiet, Queued, Denies, Barred, Free, Writer, Grants,
       HeldOriginOtherThan, Registered

\* Removing an origin from the queue removes nobody else.
LEMMA QueuedWithout ==
    ASSUME NEW l, LockInv(l), NEW id \in Origin, NEW m, m.waiters = Without(l.waiters, id)
    PROVE  \A x \in Origin : Queued(m, x) <=> Queued(l, x) /\ x # id
<1> DEFINE s == l.waiters
           at == CHOOSE i \in 1 .. Len(s) : s[i] = id
           t == [i \in 1 .. Len(s) - 1 |-> IF i < at THEN s[i] ELSE s[i + 1]]
<1>1. s \in Seq(Origin) /\ Len(s) \in Nat
  BY DEF LockInv, LockState
<1>2. \A i, j \in 1 .. Len(s) : s[i] = s[j] => i = j
  BY DEF LockInv, QueueSoundIn
<1>3. CASE ~ \E i \in 1 .. Len(s) : s[i] = id
  <2>1. Without(s, id) = s
    BY <1>3 DEF Without
  <2> QED BY <2>1, <1>3 DEF Queued
<1>4. CASE \E i \in 1 .. Len(s) : s[i] = id
  <2>1. m.waiters = t
    BY <1>4 DEF Without
  <2>2. at \in 1 .. Len(s) /\ s[at] = id
    BY <1>4
  <2> HIDE DEF at
  <2>3. Len(s) - 1 \in Nat
    BY <1>1, <2>2
  <2>4. t \in Seq(Origin) /\ Len(t) = Len(s) - 1
    BY <1>1, <2>2, <2>3
  <2>5. \A i \in 1 .. Len(t) : t[i] = IF i < at THEN s[i] ELSE s[i + 1]
    BY <2>3, <2>4
  <2> HIDE DEF t
  <2>6. ASSUME NEW i \in 1 .. Len(s), s[i] # id PROVE \E j \in 1 .. Len(t) : t[j] = s[i]
    <3>1. CASE i < at
      <4>1. i \in 1 .. Len(t) /\ t[i] = s[i]
        BY <3>1, <1>1, <2>2, <2>4, <2>5
      <4> QED BY <4>1
    <3>2. CASE i > at
      <4>1. i - 1 \in 1 .. Len(t) /\ t[i - 1] = s[i]
        BY <3>2, <1>1, <2>2, <2>4, <2>5
      <4> QED BY <4>1
    <3> QED BY <2>2, <2>6, <3>1, <3>2, <1>1
  <2>7. ASSUME NEW i \in 1 .. Len(t) PROVE t[i] # id /\ \E j \in 1 .. Len(s) : t[i] = s[j]
    <3>1. CASE i < at
      <4>1. i \in 1 .. Len(s) /\ t[i] = s[i] /\ i # at
        BY <3>1, <1>1, <2>2, <2>4, <2>5
      <4> QED BY <4>1, <1>2, <2>2
    <3>2. CASE i >= at
      <4>1. i + 1 \in 1 .. Len(s) /\ t[i] = s[i + 1] /\ i + 1 # at
        BY <3>2, <1>1, <2>2, <2>4, <2>5
      <4> QED BY <4>1, <1>2, <2>2
    <3> QED BY <3>1, <3>2, <2>2, <2>4
  <2> QED BY <2>1, <2>6, <2>7 DEF Queued
<1> QED BY <1>3, <1>4

\* A grant: of a free lock, or by a steal.
LEMMA GrantFacts ==
    ASSUME NEW l, LockOK(l), NEW id \in Origin, Exclusive, Writer(l, id)
    PROVE  LET m == GrantTo(l, id)
           IN  /\ LockOK(m) /\ Only(l, m, id) /\ Moves(l, m)
               /\ m.mode = l.mode /\ m.holder = id /\ m.generation # l.generation
               /\ ~Queued(m, id)
<1> DEFINE m == GrantTo(l, id)
<1>1. LockInv(l) /\ l \in LockState
  BY DEF LockOK, LockInv
<1>2. LockInv(m)
  BY <1>1, GrantToInv
<1>3. m.mode = l.mode /\ m.holder = id /\ m.generation # l.generation
  BY <1>1, GrantToFields, NextGenerationDiffers
<1>4. m.waiters = Without(l.waiters, id)
  BY <1>1 DEF GrantTo, LockState
<1> HIDE DEF m
<1>5. \A x \in Origin : Queued(m, x) <=> Queued(l, x) /\ x # id
  BY <1>1, <1>4, QueuedWithout
<1> QED BY <1>2, <1>3, <1>5 DEF LockOK, Only, Moves, m

\* acquire.
LEMMA AcquireFacts ==
    ASSUME NEW l, LockOK(l), NEW id \in Origin
    PROVE  LET m == Acquire(l, id)
           IN  /\ LockOK(m) /\ Only(l, m, id) /\ Moves(l, m) /\ Quiet(l, m)
               /\ m.mode = l.mode
               /\ Grants(l, id) => m.holder = id /\ m.generation # l.generation
               /\ ~Grants(l, id) => m = l
               /\ ~Denies(l, id) => ~Queued(m, id)
<1> DEFINE m == Acquire(l, id)
<1>1. CASE Grants(l, id)
  <2>1. m = GrantTo(l, id) /\ Exclusive /\ Writer(l, id) /\ Free(l)
    BY <1>1 DEF Acquire, Grants
  <2>2. /\ LockOK(m) /\ Only(l, m, id) /\ Moves(l, m)
        /\ m.mode = l.mode /\ m.holder = id /\ m.generation # l.generation
        /\ ~Queued(m, id)
    BY <2>1, GrantFacts
  <2> HIDE DEF m
  <2>3. Quiet(l, m)
    <3>1. id # NoOrigin
      BY NoOriginAssumption
    <3>2. \A x \in Origin : ~Barred(l, x)
      BY <2>1 DEF Barred
    <3>3. \A x \in Origin : Denies(l, x) => x # id
      BY <1>1 DEF Denies
    <3>4. \A x \in Origin : Denies(l, x) => Denies(m, x)
      BY <2>2, <3>1, <3>3 DEF Denies, Grants, Writer, Free
    <3> QED BY <3>2, <3>4 DEF Quiet
  <2> QED BY <2>2, <2>3, <1>1 DEF m
<1>2. CASE ~Grants(l, id)
  <2>1. m = l
    BY <1>2 DEF Acquire
  <2>2. ~Denies(l, id) => ~Queued(l, id)
    <3> SUFFICES ASSUME Queued(l, id), ~Denies(l, id) PROVE FALSE
      OBVIOUS
    <3>1. Exclusive /\ QueueSoundIn(l)
      BY DEF LockOK, LockInv
    <3>2. Writer(l, id) /\ l.holder # id
      BY <3>1 DEF Queued, QueueSoundIn
    <3> QED BY <3>1, <3>2, <1>2 DEF Denies
  <2>3. Kept(l, l)
    BY DEF Kept
  <2> QED BY <1>2, <2>1, <2>2, <2>3, KeptFacts
<1> QED BY <1>1, <1>2

\* reclaim_held.
LEMMA ReclaimFacts ==
    ASSUME NEW l, LockOK(l), NEW id \in Origin
    PROVE  LET m == ReclaimHeld(l, id)
           IN  /\ LockOK(m) /\ Only(l, m, id) /\ Moves(l, m) /\ Quiet(l, m)
               /\ m.mode = l.mode /\ (Queued(m, id) => Queued(l, id))
<1> DEFINE m == ReclaimHeld(l, id)
<1>1. CASE l.mode[id] = "held" /\ Exclusive /\ Free(l)
  <2>1. m = GrantTo(l, id) /\ Writer(l, id) /\ Grants(l, id)
    BY <1>1 DEF ReclaimHeld, Writer, Grants
  <2>2. m = Acquire(l, id) /\ ~Denies(l, id)
    BY <2>1 DEF Acquire, Denies
  <2> QED BY <2>2, AcquireFacts
<1>2. CASE ~(l.mode[id] = "held" /\ Exclusive /\ Free(l))
  <2>1. m = l /\ Kept(l, l)
    BY <1>2 DEF ReclaimHeld, Kept
  <2> QED BY <2>1, KeptFacts
<1> QED BY <1>1, <1>2

\* enqueue after a denial.
LEMMA EnqueueFacts ==
    ASSUME NEW l, LockOK(l), NEW id \in Origin, Denies(l, id)
    PROVE  LET m == Enqueue(l, id)
           IN  /\ LockOK(m) /\ Only(l, m, id) /\ Moves(l, m) /\ Quiet(l, m)
               /\ m.mode = l.mode /\ Queued(m, id)
<1> DEFINE m == Enqueue(l, id)
<1>1. LockInv(l) /\ l \in LockState /\ l.waiters \in Seq(Origin) /\ Exclusive
      /\ Writer(l, id) /\ l.holder # id
  BY DEF LockOK, LockInv, LockState, Denies
<1>2. LockInv(m)
  BY <1>1, EnqueueInv
<1>3. CASE Queued(l, id)
  <2>1. m = l /\ Kept(l, l)
    BY <1>3 DEF Enqueue, Kept
  <2> QED BY <1>3, <2>1, KeptFacts
<1>4. CASE ~Queued(l, id)
  <2> DEFINE w == Append(l.waiters, id)
  <2>1. m = [l EXCEPT !.waiters = w]
    BY <1>1, <1>4 DEF Enqueue
  <2>2. /\ w \in Seq(Origin) /\ Len(w) = Len(l.waiters) + 1 /\ Len(l.waiters) \in Nat
        /\ \A i \in 1 .. Len(l.waiters) : w[i] = l.waiters[i]
        /\ w[Len(l.waiters) + 1] = id
    BY <1>1
  <2> HIDE DEF w
  <2>3. m.mode = l.mode /\ m.holder = l.holder /\ m.waiters = w
    BY <1>1, <2>1 DEF LockState
  <2> HIDE DEF m
  <2>4. \A x \in Origin : Queued(m, x) <=> Queued(l, x) \/ x = id
    BY <2>2, <2>3, SMTT(40) DEF Queued
  <2>5. w # <<>> /\ (l.waiters # <<>> => Head(w) = Head(l.waiters))
    BY <1>1, <2>2
  <2>6. \A x \in Origin : Grants(m, x) => Grants(l, x)
    BY <2>3, <2>5, <1>1 DEF Grants, Writer, Free, HeldOriginOtherThan, Denies
  <2>7. Quiet(l, m)
    BY <2>3, <2>6 DEF Quiet, Denies, Barred, Writer, Free
  <2> QED BY <1>1, <1>2, <2>3, <2>4, <2>7 DEF LockOK, Only, Moves, m
<1> QED BY <1>3, <1>4

\* dequeue.
LEMMA DequeueFacts ==
    ASSUME NEW l, LockOK(l), NEW id \in Origin
    PROVE  LET m == Dequeue(l, id)
           IN  /\ LockOK(m) /\ Only(l, m, id) /\ Moves(l, m)
               /\ m.mode = l.mode /\ m.holder = l.holder /\ ~Queued(m, id)
<1> DEFINE m == Dequeue(l, id)
<1>1. LockInv(l) /\ l \in LockState
  BY DEF LockOK, LockInv
<1>2. LockInv(m)
  BY <1>1, DequeueInv
<1>3. m.mode = l.mode /\ m.holder = l.holder /\ m.waiters = Without(l.waiters, id)
  BY <1>1 DEF Dequeue, LockState
<1> HIDE DEF m
<1>4. \A x \in Origin : Queued(m, x) <=> Queued(l, x) /\ x # id
  BY <1>1, <1>3, QueuedWithout
<1> QED BY <1>2, <1>3, <1>4 DEF LockOK, Only, Moves, m

\* unregister.
LEMMA UnregisterFacts ==
    ASSUME NEW l, LockOK(l), NEW id \in Origin
    PROVE  LET m == Unregister(l, id)
           IN  /\ LockOK(m) /\ Only(l, m, id) /\ Moves(l, m)
               /\ m.mode = [l.mode EXCEPT ![id] = "absent"]
               /\ m.holder = (IF l.holder = id THEN NoOrigin ELSE l.holder)
               /\ ~Queued(m, id) /\ ~Registered(m, id)
<1> DEFINE m == Unregister(l, id)
<1>1. LockInv(l) /\ l \in LockState /\ l.mode \in [Origin -> WriteMode \cup {"absent"}]
  BY DEF LockOK, LockInv, LockState
<1>2. LockInv(m)
  BY <1>1, UnregisterInv
<1>3. /\ m.mode = [l.mode EXCEPT ![id] = "absent"]
      /\ m.holder = (IF l.holder = id THEN NoOrigin ELSE l.holder)
      /\ m.waiters = Without(l.waiters, id)
  BY <1>1 DEF Unregister, LockState
<1> HIDE DEF m
<1>4. \A x \in Origin : Queued(m, x) <=> Queued(l, x) /\ x # id
  BY <1>1, <1>3, QueuedWithout
<1>5. ~Registered(m, id) /\ \A x \in Origin : x # id => m.mode[x] = l.mode[x]
  BY <1>1, <1>3 DEF Registered
<1> QED BY <1>2, <1>3, <1>4, <1>5 DEF LockOK, Only, Moves, m

\* release.
LEMMA ReleaseFacts ==
    ASSUME NEW l, LockOK(l), NEW id \in Origin
    PROVE  LET m == Release(l, id)
           IN  /\ LockOK(m) /\ Only(l, m, id) /\ Moves(l, m)
               /\ m.mode = l.mode /\ m.generation = l.generation
               /\ m.holder \in {l.holder, NoOrigin}
               /\ Queued(m, id) <=> Queued(l, id)
               /\ l.holder # id => m = l
<1> DEFINE m == Release(l, id)
<1>1. LockInv(l) /\ l \in LockState
  BY DEF LockOK, LockInv
<1>2. LockInv(m)
  BY <1>1, ReleaseInv
<1>3. /\ m.mode = l.mode /\ m.generation = l.generation /\ m.waiters = l.waiters
      /\ m.holder \in {l.holder, NoOrigin} /\ (l.holder # id => m = l)
  BY <1>1 DEF Release, LockState
<1> HIDE DEF m
<1> QED BY <1>2, <1>3 DEF LockOK, Only, Moves, Queued, m

\* renew and record_purge leave registrations, holder and queue alone.
LEMMA RenewFacts ==
    ASSUME NEW l, LockOK(l), NEW id \in Origin
    PROVE  LET m == Renew(l, id)
           IN  LockOK(m) /\ Kept(l, m) /\ (l.holder = id => m.generation # l.generation)
<1> DEFINE m == Renew(l, id)
<1>1. LockInv(l) /\ l \in LockState /\ NextGeneration(l) # l.generation
  BY NextGenerationDiffers DEF LockOK, LockInv
<1>2. LockInv(m)
  BY <1>1, RenewInv
<1>3. Kept(l, m) /\ (l.holder = id => m.generation = NextGeneration(l))
  BY <1>1 DEF Renew, LockState, Kept
<1> HIDE DEF m
<1> QED BY <1>1, <1>2, <1>3 DEF LockOK, Kept, Queued, m

\* A recorded purge moves nobody.
LEMMA PurgeFacts ==
    ASSUME NEW l, LockOK(l), NEW id \in Origin, NEW k \in Nat
    PROVE  LET m == RecordPurge(l, id, k)
           IN  LockOK(m) /\ Kept(l, m) /\ m.generation = l.generation
<1> DEFINE m == RecordPurge(l, id, k)
<1>1. LockInv(l) /\ l \in LockState
  BY DEF LockOK, LockInv
<1>2. LockInv(m)
  BY <1>1, RecordPurgeInv
<1>3. Kept(l, m) /\ m.generation = l.generation
  BY <1>1 DEF RecordPurge, LockState, Kept
<1> HIDE DEF m
<1> QED BY <1>2, <1>3 DEF LockOK, Kept, Queued, m

\* register under an id that is not registered.
LEMMA RegisterFacts ==
    ASSUME NEW l, LockOK(l), NEW id \in Origin, NEW w \in WriteMode, ~Registered(l, id)
    PROVE  LET m == Register(l, id, w)
           IN  /\ LockOK(m) /\ Only(l, m, id) /\ Moves(l, m)
               /\ m.mode = [l.mode EXCEPT ![id] = w] /\ ~Queued(m, id)
               /\ w # "held" => /\ m.holder = l.holder /\ m.generation = l.generation
                                /\ Quiet(l, m)
<1> DEFINE m == Register(l, id, w)
           g == NextGeneration(l)
           d == [l.mode EXCEPT ![id] = w]
           p == [l.purged EXCEPT ![id] = 0]
<1>1. LockInv(l) /\ l \in LockState /\ l.mode \in [Origin -> WriteMode \cup {"absent"}]
      /\ g # l.generation
  BY NextGenerationDiffers DEF LockOK, LockInv, LockState
<1>2. LockInv(m)
  BY <1>1, RegisterInv
<1>3. /\ m.mode = d /\ m.waiters = l.waiters
      /\ (m.holder = l.holder /\ m.generation = l.generation)
         \/ (w = "held" /\ m.generation = g)
  <2>1. [l EXCEPT !.mode[id] = w, !.purged[id] = 0] = [l EXCEPT !.mode = d, !.purged = p]
    BY <1>1 DEF LockState
  <2> HIDE DEF d, p, g
  <2>2. m = IF w = "held" /\ Exclusive /\ Free(l)
            THEN [[l EXCEPT !.mode = d, !.purged = p] EXCEPT !.holder = id, !.generation = g]
            ELSE [l EXCEPT !.mode = d, !.purged = p]
    BY <2>1 DEF Register, g
  <2> QED BY <1>1, <2>2 DEF LockState
<1>4. ~Queued(l, id)
  <2>1. ~Writer(l, id)
    BY DEF Registered, Writer
  <2> QED BY <1>1, <2>1 DEF Queued, LockInv, QueueSoundIn
<1> HIDE DEF m
<1>5. \A x \in Origin : x # id => m.mode[x] = l.mode[x]
  BY <1>1, <1>3
<1>6. \A x \in Origin : Queued(m, x) <=> Queued(l, x)
  BY <1>3 DEF Queued
<1>7. ASSUME w # "held"
      PROVE  m.holder = l.holder /\ m.generation = l.generation /\ Quiet(l, m)
  <2>1. m.holder = l.holder /\ m.generation = l.generation
    BY <1>3, <1>7
  <2>2. \A x \in Origin : m.mode[x] = "held" <=> l.mode[x] = "held"
    BY <1>1, <1>3, <1>5, <1>7 DEF Registered
  <2>3. \A x \in Origin : Grants(m, x) /\ Writer(l, x) => Grants(l, x)
    BY <1>3, <2>1, <2>2 DEF Grants, Free, HeldOriginOtherThan
  <2>4. \A x \in Origin : Writer(l, x) => Writer(m, x)
    BY <1>1, <1>3, <1>5 DEF Writer, Registered
  <2>5. \A x \in Origin : Denies(l, x) => Denies(m, x)
    BY <2>1, <2>3, <2>4 DEF Denies
  <2>6. \A x \in Origin : Barred(l, x) => Barred(m, x)
    BY <2>1, <2>2 DEF Barred, Free
  <2> QED BY <2>1, <2>5, <2>6 DEF Quiet
<1>8. Moves(l, m)
  BY <1>1, <1>3 DEF Moves
<1>9. LockOK(m) /\ Only(l, m, id) /\ ~Queued(m, id)
  BY <1>2, <1>4, <1>5, <1>6 DEF LockOK, Only
<1> QED BY <1>3, <1>7, <1>8, <1>9 DEF m

\* steal.
LEMMA StealFacts ==
    ASSUME NEW l, LockOK(l), NEW id \in Origin
    PROVE  LET m == Steal(l, id)
           IN  /\ LockOK(m) /\ Only(l, m, id) /\ Moves(l, m)
               /\ m.mode = l.mode /\ (Queued(m, id) => Queued(l, id))
               /\ Steals(l, id) => ~Queued(m, id) /\ m.generation # l.generation
               /\ ~Steals(l, id) => m = l
<1> DEFINE m == Steal(l, id)
<1>1. CASE Steals(l, id)
  <2> DEFINE g == GrantTo(l, id)
             r == IF Free(l) THEN l.stolen ELSE <<l.holder, id>>
  <2>1. Exclusive /\ Writer(l, id) /\ LockInv(l)
    BY <1>1 DEF Steals, LockOK
  <2>2. /\ LockOK(g) /\ Only(l, g, id) /\ Moves(l, g) /\ ~Queued(g, id)
        /\ g.mode = l.mode /\ g.generation # l.generation
    BY <2>1, GrantFacts
  <2>3. m = [g EXCEPT !.stolen = r]
    BY <1>1 DEF Steal
  <2> HIDE DEF g, r
  <2>4. /\ m.mode = g.mode /\ m.holder = g.holder /\ m.waiters = g.waiters
        /\ m.generation = g.generation
    BY <2>2, <2>3 DEF LockOK, LockInv, LockState
  <2>5. LockInv(m)
    BY <2>1, StealInv
  <2> HIDE DEF m
  <2>6. LockOK(m) /\ Only(l, m, id) /\ Moves(l, m) /\ ~Queued(m, id)
    BY <2>2, <2>4, <2>5 DEF LockOK, Only, Moves, Queued
  <2> QED BY <1>1, <2>2, <2>4, <2>6 DEF m
<1>2. CASE ~Steals(l, id)
  <2>1. m = l /\ Kept(l, l)
    BY <1>2 DEF Steal, Kept
  <2> QED BY <1>2, <2>1, KeptFacts
<1> QED BY <1>1, <1>2
-----------------------------------------------------------------------------
(* Timers and wakes *)

\* Aging marks timers, and changes nothing else about them.
LEMMA AgedFacts ==
    ASSUME NEW T, T \subseteq Lease, NEW m, NEW armed, NEW y \in Aged(T, m, armed)
    PROVE  \/ y \in armed
           \/ \E z \in T : /\ y \in Lease /\ y.id = z.id /\ y.generation = z.generation
                           /\ y.stale => \/ z.stale \/ m.holder # z.id
                                         \/ \E n \in armed : n.id = z.id
<1>1. CASE y \in armed
  BY <1>1
<1>2. SUFFICES ASSUME NEW z \in T,
                      y = [z EXCEPT !.stale = @ \/ m.holder # z.id
                                                \/ (\E n \in armed : n.id = z.id)]
               PROVE  /\ y \in Lease /\ y.id = z.id /\ y.generation = z.generation
                      /\ y.stale => \/ z.stale \/ m.holder # z.id
                                    \/ \E n \in armed : n.id = z.id
  BY <1>1, Zenon DEF Aged
<1> DEFINE v == z.stale \/ m.holder # z.id \/ (\E n \in armed : n.id = z.id)
<1>3. y = [z EXCEPT !.stale = v]
  BY <1>2
<1>4. v \in BOOLEAN
  OBVIOUS
<1>5. z \in Lease
  OBVIOUS
<1> HIDE DEF v
<1>6. y \in Lease /\ y.id = z.id /\ y.generation = z.generation
  BY <1>3, <1>4, <1>5 DEF Lease
<1>7. y.stale = v
  BY <1>3, <1>5 DEF Lease
<1> QED BY <1>6, <1>7 DEF v

\* A step that arms no timer: whatever timers stay armed, they are aged.
LEMMA LeaseAged ==
    ASSUME lock \in LockState, leases \subseteq Lease, LeaseInv,
           NEW m \in LockState, Moves(lock, m), NEW T, T \subseteq leases,
           lock' = m, leases' = Aged(T, m, {}), leases # {} => m.generation >= lock.generation
    PROVE  LeaseInv' /\ leases' \subseteq Lease
<1>1. T \subseteq Lease
  OBVIOUS
<1>2. lock.generation \in Nat /\ m.generation \in Nat
  BY DEF LockState
<1>3. ASSUME NEW y \in leases'
      PROVE  /\ y \in Lease /\ y.generation <= m.generation
             /\ y.stale /\ m.holder = y.id => y.generation # m.generation
  <2>1. PICK z \in T : /\ y \in Lease /\ y.id = z.id /\ y.generation = z.generation
                       /\ y.stale => z.stale \/ m.holder # z.id
    BY <1>1, AgedFacts
  <2>2. z.generation \in Nat /\ z.id \in Origin
    BY <1>1, GenModulusAssumption DEF Lease
  <2>3. z.generation <= lock.generation /\ m.generation >= lock.generation
    BY DEF LeaseInv
  <2>4. y.generation <= m.generation
    BY <1>2, <2>1, <2>2, <2>3
  <2>5. ASSUME y.stale, m.holder = y.id PROVE y.generation # m.generation
    <3>1. z.stale
      BY <2>1, <2>5
    <3>2. CASE lock.holder = z.id
      <4>1. z.generation # lock.generation
        BY <3>1, <3>2 DEF LeaseInv
      <4> QED BY <4>1, <1>2, <2>1, <2>2, <2>3
    <3>3. CASE lock.holder # z.id
      <4>1. z.id # NoOrigin
        BY <2>2, NoOriginAssumption
      <4>2. m.generation # lock.generation
        BY <3>3, <4>1, <2>1, <2>5 DEF Moves
      <4> QED BY <4>2, <1>2, <2>1, <2>2, <2>3
    <3> QED BY <3>2, <3>3
  <2> QED BY <2>1, <2>4, <2>5
<1> QED BY <1>3 DEF LeaseInv

\* A step that sets the lock and arms no timer.
LEMMA LeaseKept ==
    ASSUME lock \in LockState, leases \subseteq Lease, LeaseInv,
           NEW m \in LockState, Moves(lock, m), SetLock(m, {})
    PROVE  LeaseInv' /\ leases' \subseteq Lease
<1>1. lock' = m /\ leases' = Aged(leases, m, {}) /\ (leases # {} => m.generation >= lock.generation)
  BY DEF SetLock
<1> QED BY <1>1, LeaseAged

\* A step that also arms a timer, for a grant or a lease that begins with it.
LEMMA LeaseArmed ==
    ASSUME lock \in LockState, leases \subseteq Lease, LeaseInv,
           NEW m \in LockState, Moves(lock, m), NEW id \in Origin, SetLock(m, {Timer(m, id)}),
           m.holder = id => m.generation # lock.generation
    PROVE  LeaseInv' /\ leases' \subseteq Lease
<1> DEFINE new == Timer(m, id)
<1>1. /\ lock' = m /\ leases' = Aged(leases, m, {new})
      /\ leases # {} => m.generation >= lock.generation
  BY DEF SetLock
<1>2. lock.generation \in Nat /\ m.generation \in Nat /\ m.generation \in 0 .. GenModulus - 1
  BY DEF LockState
<1>3. new \in Lease /\ new.id = id /\ new.generation = m.generation /\ ~new.stale
  <2> DEFINE no == FALSE
  <2>1. no \in BOOLEAN /\ ~no /\ new = [id |-> id, generation |-> m.generation, stale |-> no]
    BY DEF Timer
  <2> HIDE DEF no, new
  <2>2. new \in Lease /\ new.id = id /\ new.generation = m.generation /\ new.stale = no
    BY <1>2, <2>1 DEF Lease
  <2> QED BY <2>1, <2>2
<1> HIDE DEF new
<1>4. ASSUME NEW y \in leases'
      PROVE  /\ y \in Lease /\ y.generation <= m.generation
             /\ y.stale /\ m.holder = y.id => y.generation # m.generation
  <2>1. CASE y = new
    BY <2>1, <1>2, <1>3
  <2>2. CASE y # new
    <3>1. PICK z \in leases : /\ y \in Lease /\ y.id = z.id /\ y.generation = z.generation
                              /\ y.stale => z.stale \/ m.holder # z.id \/ z.id = id
      BY <1>1, <1>3, <2>2, AgedFacts
    <3>2. z.generation \in Nat /\ z.id \in Origin
      BY GenModulusAssumption DEF Lease
    <3>3. z.generation <= lock.generation /\ m.generation >= lock.generation
      BY <1>1 DEF LeaseInv
    <3>4. y.generation <= m.generation
      BY <1>2, <3>1, <3>2, <3>3
    <3>5. ASSUME y.stale, m.holder = y.id PROVE y.generation # m.generation
      <4>1. CASE m.generation # lock.generation
        BY <4>1, <1>2, <3>1, <3>2, <3>3
      <4>2. CASE m.generation = lock.generation
        <5>1. z.id # NoOrigin /\ z.id # id
          BY <4>2, <3>1, <3>2, <3>5, NoOriginAssumption
        <5>2. lock.holder = z.id
          BY <4>2, <5>1, <3>1, <3>5 DEF Moves
        <5>3. z.stale
          BY <5>1, <3>1, <3>5
        <5>4. z.generation # lock.generation
          BY <5>2, <5>3 DEF LeaseInv
        <5> QED BY <5>4, <4>2, <3>1
      <4> QED BY <4>1, <4>2
    <3> QED BY <3>1, <3>4, <3>5
  <2> QED BY <2>1, <2>2
<1> QED BY <1>1, <1>4 DEF LeaseInv

\* The same task, woken or not.
SameTask(s, u) ==
    /\ u.verb = s.verb /\ u.id = s.id /\ u.lease = s.lease
    /\ u.pc = s.pc \/ (s.pc = "parked" /\ u.pc = "woken")

\* notify_waiters leaves nobody parked.
LEMMA WakeFacts ==
    ASSUME NEW T \in [Actor -> Task]
    PROVE  /\ Wake(T) \in [Actor -> Task]
           /\ \A a \in Actor : SameTask(T[a], Wake(T)[a]) /\ Wake(T)[a].pc # "parked"
<1>1. ASSUME NEW a \in Actor
      PROVE  LET u == IF T[a].pc = "parked" THEN [T[a] EXCEPT !.pc = "woken"] ELSE T[a]
             IN  u \in Task /\ SameTask(T[a], u) /\ u.pc # "parked"
  <2>1. T[a] \in Task
    OBVIOUS
  <2> QED BY <2>1 DEF Task, SameTask
<1> QED BY <1>1, Zenon DEF Wake

\* A conditional wake changes tasks only when it happens, and then wakes all.
LEMMA WakeIfFacts ==
    ASSUME NEW T \in [Actor -> Task], NEW cond
    PROVE  /\ WakeIf(cond, T) \in [Actor -> Task]
           /\ \A a \in Actor : /\ SameTask(T[a], WakeIf(cond, T)[a])
                               /\ cond => WakeIf(cond, T)[a].pc # "parked"
                               /\ ~cond => WakeIf(cond, T)[a] = T[a]
<1>1. \A a \in Actor : SameTask(T[a], T[a])
  BY DEF SameTask
<1> QED BY <1>1, WakeFacts DEF WakeIf

\* Idle tasks are tasks.
LEMMA IdleFacts ==
    /\ Idle \in Task /\ Idle.verb = "none" /\ Idle.pc = "idle" /\ Idle.id = NoOrigin
    /\ \A a : TaskOK(a, Idle)
<1> DEFINE no == FALSE
<1>1. no \in BOOLEAN /\ Idle = [verb |-> "none", pc |-> "idle", id |-> NoOrigin, lease |-> no]
  BY DEF Idle
<1> HIDE DEF no
<1>2. Idle \in Task /\ Idle.verb = "none" /\ Idle.pc = "idle" /\ Idle.id = NoOrigin
  BY <1>1 DEF Task
<1> QED BY <1>2 DEF TaskOK
-----------------------------------------------------------------------------
(* Steps *)

\* Sets of actors and ids.
LEMMA Sets ==
    /\ EdgeId \subseteq Origin /\ SendId \subseteq Origin
    /\ \A x \in EdgeId : x \notin SendId
    /\ NoOrigin \notin Origin /\ NoOrigin \notin EdgeId /\ NoOrigin \notin SendId
    /\ Pump \subseteq Target /\ Client \subseteq Actor /\ Pump \subseteq Actor
    /\ \A c \in Client : c \notin Pump
BY IdAssumption, NoOriginAssumption, TargetAssumption DEF Pump, Actor

\* What a parked task's sleep rests on, and what keeps it sound.
LEMMA ParkedFacts ==
    ASSUME ArbInv, NEW a \in Actor, task[a].pc = "parked"
    PROVE  /\ ~closed /\ task[a].id \in Origin /\ Exclusive
           /\ task[a].verb # "reclaim" => Denies(lock, task[a].id)
           /\ task[a].verb = "reclaim" => Barred(lock, task[a].id)
<1>1. ~closed /\ ~Settles(lock, task[a].verb, task[a].id) /\ TaskOK(a, task[a])
  BY DEF ArbInv, NoLostWakeup, TaskInv
<1>2. task[a].id \in Origin
  BY <1>1, Sets, IdleFacts DEF TaskOK
<1>3. CASE task[a].verb # "reclaim"
  BY <1>1, <1>2, <1>3 DEF Settles, Denies
<1>4. CASE task[a].verb = "reclaim"
  <2>1. /\ a \in Pump /\ KindOf[a] = "codec" /\ ModeOf[a] # "never" /\ task[a].id \in EdgeId
    BY <1>1, <1>4, IdleFacts DEF TaskOK
  <2>2. /\ Registered(lock, task[a].id) /\ ~MayWrite(lock, task[a].id)
        /\ ~(lock.mode[task[a].id] = "held" /\ (Exclusive => Free(lock)))
    BY <1>1, <1>4 DEF Settles
  <2>3. PICK t \in Target : edge[t] = task[a].id
    <3>1. \A c \in Client : ~(task[c].verb = "send" /\ task[c].id = task[a].id)
      <4> SUFFICES ASSUME NEW c \in Client, task[c].verb = "send" PROVE task[c].id \in SendId
        BY <2>1, Sets
      <4>1. TaskOK(c, task[c])
        BY Sets DEF ArbInv, TaskInv
      <4> QED BY <4>1, IdleFacts DEF TaskOK
    <3> QED BY <1>1, <1>2, <2>2, <3>1 DEF ArbInv, NoPhantomOrigin
  <2>4. edge[t] # NoOrigin
    BY <2>1, <2>3, Sets
  <2>5. t = a
    BY <2>1, <2>3, <2>4 DEF ArbInv, IdInv
  <2>6. lock.mode[task[a].id] = ModeOf[a] /\ a \in Target
    BY <1>1, <2>3, <2>4, <2>5 DEF ArbInv, ModeInv
  <2>7. ModeOf[a] \in WriteMode
    BY <2>6, TargetAssumption
  <2>8. Exclusive /\ lock.holder # task[a].id
    BY <2>1, <2>2, <2>6, <2>7 DEF MayWrite, Writer, WriteMode
  <2>9. ModeOf[a] = "held"
    BY <2>1, <2>6, <2>8, HeldPumpAssumption
  <2> QED BY <1>1, <1>2, <1>4, <2>2, <2>6, <2>8, <2>9 DEF Barred
<1> QED BY <1>3, <1>4

\* Who was parked and is not woken stays rightly parked over a quiet step.
LEMMA QuietKeepsParked ==
    ASSUME ArbInv, NEW m, Quiet(lock, m), NEW a \in Actor, task[a].pc = "parked"
    PROVE  ~Settles(m, task[a].verb, task[a].id)
<1>1. /\ task[a].id \in Origin /\ Exclusive
      /\ task[a].verb # "reclaim" => Denies(lock, task[a].id)
      /\ task[a].verb = "reclaim" => Barred(lock, task[a].id)
  BY ParkedFacts
<1>2. CASE task[a].verb # "reclaim"
  BY <1>1, <1>2 DEF Quiet, Settles
<1>3. CASE task[a].verb = "reclaim"
  <2>1. Barred(m, task[a].id)
    BY <1>1, <1>3 DEF Quiet
  <2> QED BY <1>1, <1>3, <2>1 DEF Settles, Barred, Registered, MayWrite, Free
<1> QED BY <1>2, <1>3

\* Being woken is no change of what an actor may be doing.
LEMMA SameTaskOK ==
    ASSUME NEW a, NEW s \in Task, NEW u \in Task, SameTask(s, u), TaskOK(a, s)
    PROVE  TaskOK(a, u)
<1>1. CASE s = Idle
  <2>1. /\ u.verb = "none" /\ u.pc = "idle" /\ u.id = NoOrigin /\ u.lease = Idle.lease
    BY <1>1, IdleFacts DEF SameTask
  <2>2. u = Idle
    BY <2>1, IdleFacts DEF Task
  <2> QED BY <2>2 DEF TaskOK
<1>2. CASE s # Idle
  BY <1>2 DEF TaskOK, SameTask
<1> QED BY <1>1, <1>2

\* Actor b changes its task, under the identity id.
Changes(b, id, u) ==
    /\ task[b].id \in {id, NoOrigin} \/ task[b].pc = "holding"
    /\ u.id \in {id, NoOrigin}
    /\ u \in Task /\ TaskOK(b, u)
    /\ b \in Pump /\ u.id = id => \A t \in Target : edge[t] = id => t = b
    /\ b \in Client /\ u.verb = "send" =>
           \A d \in Client : d # b /\ task[d].verb = "send" => task[d].id # id

\* A step of the lock and the tasks that concerns one identity and no surgery.
LEMMA StepInv ==
    ASSUME ArbInv, NEW id \in Origin, NEW b, LockOK(lock'), Only(lock, lock', id),
           UNCHANGED <<closed, edge>>,
           id \in EdgeId => lock'.mode = lock.mode,
           task' \in [Actor -> Task],
           \A a \in Actor : SameTask(task[a], task'[a]) \/ (a = b /\ Changes(b, id, task'[a])),
           ~closed /\ Queued(lock', id) =>
               \E a \in Actor : /\ task'[a].pc \in {"parked", "woken"}
                                /\ task'[a].verb # "reclaim" /\ task'[a].id = id,
           \A c \in Client : task'[c].verb = "send" /\ task'[c].id = id
                             /\ task'[c].pc \in {"parked", "woken"} => Queued(lock', id),
           id \in SendId /\ ~closed /\ Registered(lock', id) =>
               \E c \in Client : task'[c].verb = "send" /\ task'[c].id = id,
           NoLostWakeup', LeaseInv', leases' \subseteq Lease
    PROVE  ArbInv'
<1>1. /\ ArbTypeOK /\ LockOK(lock) /\ TaskInv /\ IdInv /\ ModeInv /\ ServedInv
      /\ NoPhantomOrigin /\ SendKeepsItsPlace
      /\ edge \in [Target -> EdgeId \cup {NoOrigin}] /\ task \in [Actor -> Task]
  BY DEF ArbInv, ArbTypeOK
<1>2. ASSUME NEW a \in Actor PROVE TaskOK(a, task'[a])
  <2>1. CASE SameTask(task[a], task'[a])
    <3>1. task[a] \in Task /\ task'[a] \in Task /\ TaskOK(a, task[a])
      BY <1>1 DEF TaskInv
    <3> QED BY <2>1, <3>1, SameTaskOK
  <2>2. CASE a = b /\ Changes(b, id, task'[a])
    BY <2>2 DEF Changes
  <2> QED BY <2>1, <2>2
<1>3. TaskInv'
  BY <1>2 DEF TaskInv
<1>4. ArbTypeOK'
  <2>1. lock' \in LockState
    BY DEF LockOK, LockInv
  <2> QED BY <1>1, <2>1, Zenon DEF ArbTypeOK
\* Unless it changes, an actor keeps its identity.
<1>5. \A a \in Actor : (task'[a].id = task[a].id /\ task'[a].verb = task[a].verb)
                       \/ (a = b /\ Changes(b, id, task'[a]))
  BY DEF SameTask
<1>6. IdInv'
  <2>1. ASSUME NEW a \in Pump, NEW t \in Target, edge[t] = task'[a].id, edge[t] # NoOrigin
        PROVE  t = a
    <3>1. a \in Actor
      BY Sets
    <3>2. CASE task'[a].id = task[a].id
      BY <1>1, <2>1, <3>2 DEF IdInv
    <3>3. CASE a = b /\ Changes(b, id, task'[a])
      BY <2>1, <3>3 DEF Changes
    <3> QED BY <1>5, <3>1, <3>2, <3>3
  <2>2. ASSUME NEW c \in Client, NEW d \in Client, task'[c].verb = "send",
               task'[d].verb = "send", task'[c].id = task'[d].id
        PROVE  c = d
    <3>1. c \in Actor /\ d \in Actor
      BY Sets
    <3>2. ASSUME NEW e \in Client, task'[e].verb = "send" PROVE task'[e].id # NoOrigin
      <4>1. TaskOK(e, task'[e])
        BY <1>2, Sets
      <4> QED BY <3>2, <4>1, IdleFacts, Sets DEF TaskOK
    <3>3. CASE /\ task'[c].id = task[c].id /\ task'[c].verb = task[c].verb
               /\ task'[d].id = task[d].id /\ task'[d].verb = task[d].verb
      BY <1>1, <2>2, <3>3 DEF IdInv
    <3>4. CASE c = b /\ Changes(b, id, task'[c])
      BY <1>5, <2>2, <3>1, <3>2, <3>4 DEF Changes
    <3>5. CASE d = b /\ Changes(b, id, task'[d])
      BY <1>5, <2>2, <3>1, <3>2, <3>5 DEF Changes
    <3> QED BY <1>5, <3>1, <3>3, <3>4, <3>5
  <2> QED BY <1>1, <2>1, <2>2 DEF IdInv
<1>7. ModeInv'
  <2> SUFFICES ASSUME ~closed, NEW t \in Target, edge[t] # NoOrigin
               PROVE  lock'.mode[edge[t]] = lock.mode[edge[t]]
    BY <1>1 DEF ModeInv
  <2>1. edge[t] \in EdgeId /\ edge[t] \in Origin
    BY <1>1, Sets
  <2> QED BY <2>1 DEF Only
<1>8. ServedInv'
  <2> SUFFICES ASSUME ~closed, NEW o \in Origin, Queued(lock', o)
               PROVE  \E a \in Actor : /\ task'[a].pc \in {"parked", "woken"}
                                       /\ task'[a].verb # "reclaim" /\ task'[a].id = o
    BY DEF ServedInv, Waiting
  <2>1. CASE o = id
    BY <2>1
  <2>2. CASE o # id
    <3>1. PICK a \in Actor : /\ task[a].pc \in {"parked", "woken"}
                             /\ task[a].verb # "reclaim" /\ task[a].id = o
      BY <1>1, <2>2 DEF Only, ServedInv, Waiting
    <3>2. o # NoOrigin
      BY Sets
    <3>3. SameTask(task[a], task'[a])
      BY <2>2, <3>1, <3>2 DEF Changes
    <3> QED BY <3>1, <3>3 DEF SameTask
  <2> QED BY <2>1, <2>2
<1>9. NoPhantomOrigin'
  <2> SUFFICES ASSUME ~closed, NEW o \in Origin, Registered(lock', o)
               PROVE  \/ \E t \in Target : edge[t] = o
                      \/ \E c \in Client : task'[c].verb = "send" /\ task'[c].id = o
    BY DEF NoPhantomOrigin
  <2>1. CASE o = id /\ id \in SendId
    BY <2>1
  <2>2. CASE o = id /\ id \notin SendId
    <3>1. id \in EdgeId
      BY IdAssumption, <2>2
    <3>2. Registered(lock, o)
      BY <2>2, <3>1 DEF Registered
    <3>3. \A c \in Client : ~(task[c].verb = "send" /\ task[c].id = o)
      <4> SUFFICES ASSUME NEW c \in Client, task[c].verb = "send" PROVE task[c].id \in SendId
        BY <2>2
      <4>1. TaskOK(c, task[c])
        BY <1>1, Sets DEF TaskInv
      <4> QED BY <4>1, IdleFacts DEF TaskOK
    <3> QED BY <1>1, <3>2, <3>3 DEF NoPhantomOrigin
  <2>3. CASE o # id
    <3>1. Registered(lock, o) /\ o # NoOrigin
      BY <2>3, Sets DEF Only, Registered
    <3>2. ASSUME NEW c \in Client, task[c].verb = "send", task[c].id = o
          PROVE  task'[c].verb = "send" /\ task'[c].id = o
      <4>1. c \in Actor
        BY Sets
      <4>2. task[c].pc # "holding"
        BY <1>1, <3>2, <4>1, IdleFacts, Sets DEF TaskInv, TaskOK
      <4>3. SameTask(task[c], task'[c])
        BY <2>3, <3>1, <3>2, <4>1, <4>2 DEF Changes
      <4> QED BY <3>2, <4>3 DEF SameTask
    <3> QED BY <1>1, <3>1, <3>2 DEF NoPhantomOrigin
  <2> QED BY <2>1, <2>2, <2>3
<1>10. SendKeepsItsPlace'
  <2> SUFFICES ASSUME NEW c \in Client, task'[c].verb = "send",
                      task'[c].pc \in {"parked", "woken"}
               PROVE  Queued(lock', task'[c].id)
    BY DEF SendKeepsItsPlace, Waiting
  <2>1. CASE task'[c].id = id
    BY <2>1
  <2>2. CASE task'[c].id # id
    <3>1. c \in Actor /\ TaskOK(c, task'[c])
      BY <1>2, Sets
    <3>2. task'[c].id \in Origin /\ task'[c].id # NoOrigin
      BY <3>1, IdleFacts, Sets DEF TaskOK
    <3>3. SameTask(task[c], task'[c])
      BY <2>2, <3>1, <3>2 DEF Changes
    <3>4. Queued(lock, task[c].id)
      BY <1>1, <3>3 DEF SendKeepsItsPlace, SameTask, Waiting
    <3> QED BY <2>2, <3>2, <3>3, <3>4 DEF Only, SameTask
  <2> QED BY <2>1, <2>2
<1> QED BY <1>3, <1>4, <1>6, <1>7, <1>8, <1>9, <1>10 DEF ArbInv

-----------------------------------------------------------------------------
(* Attempts *)

\* A step that leaves registrations, holder and queue alone adds nothing to another.
LEMMA KeptAfter ==
    ASSUME NEW l, NEW m, NEW k, NEW id, Only(l, m, id), Quiet(l, m), Moves(l, m),
           Kept(m, k), k.generation = m.generation
    PROVE  Only(l, k, id) /\ Quiet(l, k) /\ Moves(l, k)
<1>1. \A x : (Queued(k, x) <=> Queued(m, x)) /\ (Denies(k, x) <=> Denies(m, x))
  BY KeptFacts
<1>2. \A x : Barred(k, x) <=> Barred(m, x)
  BY DEF Barred, Kept, Free
<1> QED BY <1>1, <1>2 DEF Only, Quiet, Moves, Kept

\* An attempt disturbs nobody else; who settles is in the queue no longer, who does
\* not has its place in it, and would not settle by trying again.
LEMMA AttemptFacts ==
    ASSUME NEW l, LockOK(l), NEW verb, NEW id \in Origin
    PROVE  LET m == Attempt(l, verb, id)
           IN  /\ LockOK(m) /\ Only(l, m, id) /\ Moves(l, m) /\ Quiet(l, m)
               /\ m.mode = l.mode
               /\ verb = "reclaim" => /\ Queued(m, id) => Queued(l, id)
                                      /\ ~Settles(l, verb, id) => m = l
               /\ verb # "reclaim" /\ Settles(l, verb, id) => ~Queued(m, id)
               /\ verb # "reclaim" /\ ~Settles(l, verb, id) => Queued(m, id)
               /\ ~Settles(l, verb, id) => ~Settles(m, verb, id)
<1> DEFINE m == Attempt(l, verb, id)
<1>1. CASE verb = "reclaim"
  <2>1. m = IF MayWrite(l, id) THEN l ELSE ReclaimHeld(l, id)
    BY <1>1 DEF Attempt
  <2>2. ~Settles(l, verb, id) => m = l
    BY <1>1, <2>1 DEF Settles, ReclaimHeld
  <2>3. Kept(l, l)
    BY DEF Kept
  <2>4. /\ LockOK(m) /\ Only(l, m, id) /\ Moves(l, m) /\ Quiet(l, m) /\ m.mode = l.mode
        /\ Queued(m, id) => Queued(l, id)
    BY <2>1, <2>3, KeptFacts, ReclaimFacts
  <2> HIDE DEF m
  <2> QED BY <1>1, <2>2, <2>4 DEF m
<1>2. CASE verb # "reclaim" /\ Denies(l, id)
  <2>1. m = Enqueue(l, id) /\ ~Settles(l, verb, id)
    BY <1>2 DEF Attempt, Settles
  <2>2. /\ LockOK(m) /\ Only(l, m, id) /\ Moves(l, m) /\ Quiet(l, m) /\ m.mode = l.mode
        /\ Queued(m, id)
    BY <1>2, <2>1, EnqueueFacts
  <2> HIDE DEF m
  <2>3. ~Settles(m, verb, id)
    BY <1>2, <2>2 DEF Quiet, Settles
  <2> QED BY <1>2, <2>1, <2>2, <2>3 DEF m
<1>3. CASE verb # "reclaim" /\ ~Denies(l, id)
  <2>1. m = Acquire(l, id) /\ Settles(l, verb, id)
    BY <1>3 DEF Attempt, Settles
  <2> QED BY <1>3, <2>1, AcquireFacts
<1> QED BY <1>1, <1>2, <1>3

\* The end of the lock verb: the lease armed, if one was, is of this very grant.
LEMMA LockSettledFacts ==
    ASSUME ArbInv, NEW id \in Origin, NEW lease, NEW n \in 0 .. PurgeMax, ~Denies(lock, id),
           LockSettled(lock, id, lease, n)
    PROVE  /\ LockOK(lock') /\ Only(lock, lock', id) /\ Quiet(lock, lock')
           /\ lock'.mode = lock.mode /\ ~Queued(lock', id)
           /\ LeaseInv' /\ leases' \subseteq Lease
<1> DEFINE k == IF Exclusive THEN n ELSE 0
           taken == Acquire(lock, id)
           granted == RecordPurge(taken, id, k)
           renewed == IF lease THEN Renew(lock, id) ELSE lock
           after == IF Fresh(lock, id) THEN granted ELSE renewed
<1>1. /\ LockOK(lock) /\ lock \in LockState /\ leases \subseteq Lease /\ LeaseInv
      /\ HolderSoundIn(lock)
  BY DEF ArbInv, LockOK, LockInv, ArbTypeOK
<1>2. k \in Nat /\ id # NoOrigin
  BY PurgeMaxAssumption, NoOriginAssumption
<1>3. SetLock(after, IF lease /\ (Fresh(lock, id) \/ lock.holder = id)
                     THEN {Timer(after, id)} ELSE {})
  BY DEF LockSettled
<1>4. /\ LockOK(taken) /\ Only(lock, taken, id) /\ Moves(lock, taken) /\ Quiet(lock, taken)
      /\ taken.mode = lock.mode /\ ~Queued(taken, id)
      /\ Grants(lock, id) => taken.generation # lock.generation
      /\ ~Grants(lock, id) => taken = lock
  BY <1>1, AcquireFacts
<1>5. LockOK(granted) /\ Kept(taken, granted) /\ granted.generation = taken.generation
  <2> HIDE DEF k, taken
  <2> QED BY <1>2, <1>4, PurgeFacts
<1>6. LockOK(renewed) /\ Kept(lock, renewed)
      /\ (lease /\ lock.holder = id => renewed.generation # lock.generation)
  <2>1. Kept(lock, lock)
    BY DEF Kept
  <2> QED BY <1>1, <2>1, RenewFacts
<1> HIDE DEF taken, granted, renewed, k
<1>7. CASE Fresh(lock, id)
  <2>1. Only(lock, granted, id) /\ Quiet(lock, granted) /\ Moves(lock, granted)
    BY <1>4, <1>5, KeptAfter
  <2>2. granted.mode = lock.mode /\ ~Queued(granted, id)
    BY <1>4, <1>5, KeptFacts DEF Kept
  <2>3. granted.holder = id => granted.generation # lock.generation
    <3>1. CASE Grants(lock, id)
      BY <3>1, <1>4, <1>5
    <3>2. CASE ~Exclusive /\ ~Grants(lock, id)
      BY <3>2, <1>1, <1>2, <1>4, <1>5 DEF Kept, HolderSoundIn, Free
    <3> QED BY <1>7, <3>1, <3>2 DEF Fresh
  <2>4. after = granted /\ granted \in LockState
    BY <1>5, <1>7 DEF LockOK, LockInv
  <2>5. SetLock(granted, {Timer(granted, id)}) \/ SetLock(granted, {})
    BY <1>3, <2>4
  <2>6. LeaseInv' /\ leases' \subseteq Lease
    BY <1>1, <2>1, <2>3, <2>4, <2>5, LeaseArmed, LeaseKept
  <2>7. lock' = granted
    BY <2>5 DEF SetLock
  <2> QED BY <1>5, <2>1, <2>2, <2>6, <2>7
<1>8. CASE ~Fresh(lock, id)
  <2>1. ~Queued(lock, id)
    BY <1>4, <1>8 DEF Fresh
  <2>2. /\ Only(lock, renewed, id) /\ Quiet(lock, renewed) /\ Moves(lock, renewed)
        /\ renewed.mode = lock.mode /\ ~Queued(renewed, id)
    BY <1>6, <2>1, KeptFacts DEF Kept
  <2>3. after = renewed /\ renewed \in LockState
    BY <1>6, <1>8 DEF LockOK, LockInv
  <2>4. \/ lease /\ lock.holder = id /\ SetLock(renewed, {Timer(renewed, id)})
        \/ SetLock(renewed, {})
    BY <1>3, <1>8, <2>3
  <2>5. LeaseInv' /\ leases' \subseteq Lease
    BY <1>1, <1>6, <2>2, <2>3, <2>4, LeaseArmed, LeaseKept
  <2>6. lock' = renewed
    BY <2>4 DEF SetLock
  <2> QED BY <1>6, <2>2, <2>5, <2>6
<1> QED BY <1>7, <1>8

\* Over a quiet step who was parked stays rightly so.
LEMMA ParkedStays ==
    ASSUME ArbInv, Quiet(lock, lock'), UNCHANGED closed, NEW b,
           \A a \in Actor : a # b => task'[a] = task[a],
           b \in Actor /\ task'[b].pc = "parked" =>
               ~closed /\ ~Settles(lock', task'[b].verb, task'[b].id)
    PROVE  NoLostWakeup'
<1> SUFFICES ASSUME NEW a \in Actor, task'[a].pc = "parked", a # b
             PROVE  ~closed /\ ~Settles(lock', task'[a].verb, task'[a].id)
  BY DEF NoLostWakeup
<1>1. task'[a] = task[a]
  OBVIOUS
<1> QED BY <1>1, ParkedFacts, QuietKeepsParked

\* What an actor that settled does next.
LEMMA SettledFacts ==
    ASSUME NEW l, NEW verb, NEW id \in Origin
    PROVE  LET u == Settled(l, verb, id)
           IN  /\ u \in Task /\ u.pc \notin {"parked", "woken"} /\ u.id \in {id, NoOrigin}
               /\ \/ u = Idle /\ ~(verb = "send" /\ (Fresh(l, id) \/ MayWrite(l, id)))
                  \/ verb = "send" /\ u.verb = "send" /\ u.pc = "sending" /\ u.id = id
                  \/ verb = "leg" /\ u.verb = "leg" /\ u.pc = "holding" /\ u.id = id
<1> DEFINE on == verb \in {"send", "leg"} /\ (Fresh(l, id) \/ MayWrite(l, id))
           p == IF verb = "send" THEN "sending" ELSE "holding"
           u == Settled(l, verb, id)
<1>1. u = IF on THEN [Idle EXCEPT !.verb = verb, !.id = id, !.pc = p] ELSE Idle
  BY DEF Settled
<1> HIDE DEF u
<1>2. CASE on
  <2>1. u = [Idle EXCEPT !.verb = verb, !.id = id, !.pc = p]
    BY <1>1, <1>2
  <2>2. verb \in {"send", "leg"}
    BY <1>2
  <2> HIDE DEF on
  <2> QED BY <2>1, <2>2, IdleFacts DEF Task, u
<1>3. CASE ~on
  <2>1. u = Idle
    BY <1>1, <1>3
  <2> QED BY <1>3, <2>1, IdleFacts DEF u
<1> QED BY <1>2, <1>3

\* Who attempts what, under which identity.
Attempts(b, verb, id) ==
    /\ id \in Origin
    /\ task[b].id \in {id, NoOrigin} \/ task[b].pc = "holding"
    /\ \/ b \in Client /\ verb = "lock" /\ id \in EdgeId
       \/ /\ b \in Client /\ verb = "send" /\ id \in SendId
          /\ \A d \in Client : d # b /\ task[d].verb = "send" => task[d].id # id
       \/ /\ b \in Pump /\ verb = "reclaim" /\ KindOf[b] = "codec" /\ ModeOf[b] # "never"
          /\ id \in EdgeId /\ (Waiting(b) => task[b].verb = "reclaim")
          /\ \A t \in Target : edge[t] = id => t = b
       \/ /\ b \in Pump /\ verb = "leg" /\ id \in EdgeId
          /\ \A t \in Target : edge[t] = id => t = b

\* From which lock state: the present one, or the one a send has just joined.
From(verb, id, l) ==
    /\ LockOK(l) /\ Only(lock, l, id) /\ Quiet(lock, l)
    /\ l.holder = lock.holder /\ l.generation = lock.generation
    /\ verb # "send" => l = lock
    /\ verb = "send" => Writer(l, id)

\* One turn of await_grant keeps the invariant.
LEMMA TryInv ==
    ASSUME ArbInv, NEW b \in Actor, NEW verb, NEW id, Attempts(b, verb, id),
           NEW lease \in BOOLEAN, NEW l, From(verb, id, l), ~closed,
           UNCHANGED <<closed, edge>>, Try(b, verb, id, lease, l)
    PROVE  ArbInv'
<1>1. /\ LockOK(lock) /\ lock \in LockState /\ leases \subseteq Lease /\ LeaseInv
      /\ task \in [Actor -> Task] /\ TaskInv /\ ServedInv
  BY DEF ArbInv, LockOK, LockInv, ArbTypeOK
<1>2. id \in Origin /\ id # NoOrigin /\ verb \in {"lock", "send", "reclaim", "leg"}
  BY Sets DEF Attempts
<1>3. LockOK(l) /\ Only(lock, l, id) /\ Quiet(lock, l)
  BY DEF From
<1> DEFINE m == Attempt(l, verb, id)
<1>4. /\ LockOK(m) /\ Only(l, m, id) /\ Moves(l, m) /\ Quiet(l, m)
      /\ m.mode = l.mode
      /\ verb = "reclaim" => /\ Queued(m, id) => Queued(l, id)
                             /\ ~Settles(l, verb, id) => m = l
      /\ verb # "reclaim" /\ Settles(l, verb, id) => ~Queued(m, id)
      /\ verb # "reclaim" /\ ~Settles(l, verb, id) => Queued(m, id)
      /\ ~Settles(l, verb, id) => ~Settles(m, verb, id)
  BY <1>2, <1>3, AttemptFacts
<1> HIDE DEF m
\* The lock after the attempt.
<1>5. ASSUME SetLock(m, {})
      PROVE  /\ LockOK(lock') /\ Only(lock, lock', id) /\ Quiet(lock, lock')
             /\ id \in EdgeId => lock'.mode = lock.mode
             /\ LeaseInv' /\ leases' \subseteq Lease
             /\ lock' = m
  <2>1. lock' = m /\ m \in LockState
    BY <1>4, <1>5 DEF SetLock, LockOK, LockInv
  <2>2. Moves(lock, m)
    BY <1>4 DEF From, Moves
  <2>3. LeaseInv' /\ leases' \subseteq Lease
    BY <1>1, <1>5, <2>1, <2>2, LeaseKept
  <2>4. Only(lock, m, id) /\ Quiet(lock, m)
    BY <1>3, <1>4 DEF Only, Quiet
  <2>5. id \in EdgeId => m.mode = lock.mode
    BY <1>4, Sets DEF From, Attempts
  <2> QED BY <1>4, <2>1, <2>3, <2>4, <2>5
\* A held pump leaves the queue as it found it, and the queue's own waiters serve it.
<1>6. ASSUME verb = "reclaim", Queued(l, id)
      PROVE  \E a \in Actor : /\ a # b /\ task[a].pc \in {"parked", "woken"}
                              /\ task[a].verb # "reclaim" /\ task[a].id = id
  <2>1. PICK a \in Actor : Waiting(a) /\ task[a].verb # "reclaim" /\ task[a].id = id
    BY <1>1, <1>2, <1>6 DEF ServedInv, From
  <2>2. a # b
    BY <1>6, <2>1, Sets DEF Attempts
  <2> QED BY <2>1, <2>2 DEF Waiting
\* Nobody else sends under this identity.
<1>7. ASSUME NEW c \in Client, c # b, task[c].verb = "send" PROVE task[c].id # id
  <2>1. TaskOK(c, task[c])
    BY <1>1, Sets DEF TaskInv
  <2>2. task[c].id \in SendId
    BY <1>7, <2>1, IdleFacts DEF TaskOK
  <2> QED BY <1>7, <2>2, Sets DEF Attempts
<1>8. CASE Settles(l, verb, id)
  <2> DEFINE u == Settled(l, verb, id)
  <2>1. /\ u \in Task /\ u.pc \notin {"parked", "woken"} /\ u.id \in {id, NoOrigin}
        /\ \/ u = Idle /\ ~(verb = "send" /\ (Fresh(l, id) \/ MayWrite(l, id)))
           \/ verb = "send" /\ u.verb = "send" /\ u.pc = "sending" /\ u.id = id
           \/ verb = "leg" /\ u.verb = "leg" /\ u.pc = "holding" /\ u.id = id
    BY <1>2, SettledFacts
  <2>2. /\ task' = [task EXCEPT ![b] = u]
        /\ IF verb = "lock"
           THEN \E n \in 0 .. PurgeMax : LockSettled(l, id, lease, n)
           ELSE SetLock(m, {})
    BY <1>8 DEF Try, m
  <2> HIDE DEF u
  <2>3. task' \in [Actor -> Task] /\ task'[b] = u /\ \A a \in Actor : a # b => task'[a] = task[a]
    BY <1>1, <2>1, <2>2
  <2>4. /\ LockOK(lock') /\ Only(lock, lock', id) /\ Quiet(lock, lock')
        /\ id \in EdgeId => lock'.mode = lock.mode
        /\ LeaseInv' /\ leases' \subseteq Lease
        /\ verb # "reclaim" => ~Queued(lock', id)
        /\ verb = "reclaim" => (Queued(lock', id) => Queued(l, id))
    <3>1. CASE verb = "lock"
      <4>1. PICK n \in 0 .. PurgeMax : LockSettled(lock, id, lease, n)
        BY <2>2, <3>1 DEF From
      <4>2. ~Denies(lock, id)
        BY <1>8, <3>1 DEF Settles, From
      <4> QED BY <1>2, <3>1, <4>1, <4>2, LockSettledFacts
    <3>2. CASE verb # "lock"
      BY <1>4, <1>5, <1>8, <2>2, <3>2
    <3> QED BY <3>1, <3>2
  <2>5. NoLostWakeup'
    BY <2>1, <2>3, <2>4, ParkedStays
  <2>6. TaskOK(b, u)
    BY <2>1, IdleFacts DEF TaskOK, Attempts
  <2>7. Changes(b, id, task'[b])
    <3>1. u.id = id /\ b \in Pump => \A t \in Target : edge[t] = id => t = b
      BY Sets DEF Attempts
    <3>2. b \in Client /\ u.verb = "send" =>
            \A d \in Client : d # b /\ task[d].verb = "send" => task[d].id # id
      BY <1>7
    <3> QED BY <2>1, <2>3, <2>6, <3>1, <3>2 DEF Changes, Attempts
  <2>8. \A a \in Actor : SameTask(task[a], task'[a]) \/ (a = b /\ Changes(b, id, task'[a]))
    BY <2>3, <2>7 DEF SameTask
  <2>9. ~closed /\ Queued(lock', id) =>
          \E a \in Actor : /\ task'[a].pc \in {"parked", "woken"}
                           /\ task'[a].verb # "reclaim" /\ task'[a].id = id
    BY <1>6, <2>3, <2>4
  <2>10. \A c \in Client : task'[c].verb = "send" /\ task'[c].id = id
                          /\ task'[c].pc \in {"parked", "woken"} => Queued(lock', id)
    BY <1>7, <2>1, <2>3, Sets
  <2>11. id \in SendId => \E c \in Client : task'[c].verb = "send" /\ task'[c].id = id
    <3> SUFFICES ASSUME id \in SendId PROVE b \in Client /\ u.verb = "send" /\ u.id = id
      BY <2>3
    <3>1. b \in Client /\ verb = "send" /\ Writer(l, id)
      BY Sets DEF Attempts, From
    <3>2. Fresh(l, id) \/ MayWrite(l, id)
      BY <1>8, <3>1 DEF Settles, Denies, Fresh, MayWrite
    <3> QED BY <2>1, <3>1, <3>2
  <2> QED BY <1>2, <2>3, <2>4, <2>5, <2>8, <2>9, <2>10, <2>11, StepInv
<1>9. CASE ~Settles(l, verb, id)
  <2> DEFINE u == [verb |-> verb, pc |-> "parked", id |-> id, lease |-> lease]
  <2>1. u \in Task /\ u.pc = "parked" /\ u.verb = verb /\ u.id = id
    BY <1>2 DEF Task
  <2>2. task' = [task EXCEPT ![b] = u] /\ SetLock(m, {})
    BY <1>9 DEF Try, m
  <2> HIDE DEF u
  <2>3. task' \in [Actor -> Task] /\ task'[b] = u /\ \A a \in Actor : a # b => task'[a] = task[a]
    BY <1>1, <2>1, <2>2
  <2>4. /\ LockOK(lock') /\ Only(lock, lock', id) /\ Quiet(lock, lock')
        /\ id \in EdgeId => lock'.mode = lock.mode
        /\ LeaseInv' /\ leases' \subseteq Lease /\ lock' = m
    BY <1>5, <2>2
  <2>5. NoLostWakeup'
    BY <1>4, <1>9, <2>1, <2>3, <2>4, ParkedStays
  <2>6. TaskOK(b, u)
    BY <2>1 DEF TaskOK, Attempts
  <2>7. Changes(b, id, task'[b])
    <3>1. b \in Pump => \A t \in Target : edge[t] = id => t = b
      BY Sets DEF Attempts
    <3>2. b \in Client /\ u.verb = "send" =>
            \A d \in Client : d # b /\ task[d].verb = "send" => task[d].id # id
      BY <1>7
    <3> QED BY <2>1, <2>3, <2>6, <3>1, <3>2 DEF Changes, Attempts
  <2>8. \A a \in Actor : SameTask(task[a], task'[a]) \/ (a = b /\ Changes(b, id, task'[a]))
    BY <2>3, <2>7 DEF SameTask
  <2>9. Queued(lock', id) =>
          \E a \in Actor : /\ task'[a].pc \in {"parked", "woken"}
                           /\ task'[a].verb # "reclaim" /\ task'[a].id = id
    <3>1. CASE verb = "reclaim"
      BY <1>4, <1>6, <1>9, <2>3, <2>4, <3>1
    <3>2. CASE verb # "reclaim"
      BY <2>1, <2>3, <3>2
    <3> QED BY <3>1, <3>2
  <2>10. \A c \in Client : task'[c].verb = "send" /\ task'[c].id = id
                          /\ task'[c].pc \in {"parked", "woken"} => Queued(lock', id)
    BY <1>4, <1>7, <1>9, <2>1, <2>3, <2>4, Sets
  <2>11. id \in SendId => \E c \in Client : task'[c].verb = "send" /\ task'[c].id = id
    <3> SUFFICES ASSUME id \in SendId PROVE b \in Client /\ verb = "send"
      BY <2>1, <2>3
    <3> QED BY Sets DEF Attempts
  <2> QED BY <1>2, <2>3, <2>4, <2>5, <2>8, <2>9, <2>10, <2>11, StepInv
<1> QED BY <1>8, <1>9

-----------------------------------------------------------------------------
(* The actions *)

\* Whoever is sending does so under a transient id.
LEMMA SendsUnder ==
    ASSUME ArbInv, NEW c \in Client, task[c].verb = "send"
    PROVE  task[c].id \in SendId
<1>1. TaskOK(c, task[c])
  BY Sets DEF ArbInv, TaskInv
<1> QED BY <1>1, IdleFacts DEF TaskOK

\* An id that nothing refers to.
LEMMA NotReferenced ==
    ASSUME NEW id \in Origin, id \notin Referenced
    PROVE  /\ \A t \in Target : edge[t] # id
           /\ \A a \in Actor : task[a].id # id
           /\ ~Registered(lock, id)
BY DEF Referenced

\* A step under a connected identity, or of its lease, that is nobody's task: it is
\* quiet, or it wakes everybody.
LEMMA VerbInv ==
    ASSUME ArbInv, NEW id \in Origin, LockOK(lock'), Only(lock, lock', id),
           lock'.mode = lock.mode, Queued(lock', id) => Queued(lock, id),
           id \in EdgeId \/ (Queued(lock, id) => Queued(lock', id)),
           UNCHANGED <<closed, edge>>, NEW cond, task' = WakeIf(cond, task),
           cond \/ Quiet(lock, lock'), LeaseInv', leases' \subseteq Lease
    PROVE  ArbInv'
<1>1. /\ task \in [Actor -> Task] /\ ServedInv /\ SendKeepsItsPlace /\ NoPhantomOrigin
      /\ edge \in [Target -> EdgeId \cup {NoOrigin}]
  BY DEF ArbInv, ArbTypeOK
<1>2. /\ task' \in [Actor -> Task]
      /\ \A a \in Actor : /\ SameTask(task[a], task'[a])
                          /\ cond => task'[a].pc # "parked"
                          /\ ~cond => task'[a] = task[a]
  BY <1>1, WakeIfFacts
<1>3. NoLostWakeup'
  <2> SUFFICES ASSUME NEW a \in Actor, task'[a].pc = "parked"
               PROVE  ~closed /\ ~Settles(lock', task'[a].verb, task'[a].id)
    BY DEF NoLostWakeup
  <2>1. task'[a] = task[a] /\ Quiet(lock, lock')
    BY <1>2
  <2> QED BY <2>1, ParkedFacts, QuietKeepsParked
<1>4. ~closed /\ Queued(lock', id) =>
        \E a \in Actor : /\ task'[a].pc \in {"parked", "woken"}
                         /\ task'[a].verb # "reclaim" /\ task'[a].id = id
  BY <1>1, <1>2 DEF ServedInv, Waiting, SameTask
<1>5. \A c \in Client : task'[c].verb = "send" /\ task'[c].id = id
                        /\ task'[c].pc \in {"parked", "woken"} => Queued(lock', id)
  <2> SUFFICES ASSUME NEW c \in Client, task'[c].verb = "send", task'[c].id = id,
                      task'[c].pc \in {"parked", "woken"}
               PROVE  Queued(lock', id)
    OBVIOUS
  <2>1. task[c].verb = "send" /\ task[c].id = id /\ Waiting(c)
    BY <1>2, Sets DEF SameTask, Waiting
  <2> QED BY <1>1, <2>1, SendsUnder, Sets DEF SendKeepsItsPlace
<1>6. id \in SendId /\ ~closed /\ Registered(lock', id) =>
        \E c \in Client : task'[c].verb = "send" /\ task'[c].id = id
  <2> SUFFICES ASSUME id \in SendId, ~closed, Registered(lock, id)
               PROVE  \E c \in Client : task'[c].verb = "send" /\ task'[c].id = id
    BY DEF Registered
  <2>1. \A t \in Target : edge[t] # id
    BY <1>1, Sets
  <2>2. PICK c \in Client : task[c].verb = "send" /\ task[c].id = id
    BY <1>1, <2>1 DEF NoPhantomOrigin
  <2> QED BY <1>2, <2>2, Sets DEF SameTask
<1>7. \A a \in Actor : SameTask(task[a], task'[a]) \/ (a = id /\ Changes(id, id, task'[a]))
  BY <1>2
<1> QED BY <1>2, <1>3, <1>4, <1>5, <1>6, <1>7, StepInv

\* Actor b ends what it did under the identity id.
LEMMA LeavesInv ==
    ASSUME ArbInv, NEW b \in Actor, NEW id \in Origin, task[b].id = id,
           LockOK(lock'), Only(lock, lock', id), id \in EdgeId => lock'.mode = lock.mode,
           UNCHANGED <<closed, edge>>,
           NEW cond, task' = WakeIf(cond, [task EXCEPT ![b] = Idle]),
           ~closed /\ Queued(lock', id) => Queued(lock, id) /\ ~Waiting(b),
           id \in SendId /\ ~closed => ~Registered(lock', id),
           \/ cond \/ closed
           \/ \A a \in Actor : a # b /\ task[a].pc = "parked" =>
                                   ~Settles(lock', task[a].verb, task[a].id),
           LeaseInv', leases' \subseteq Lease
    PROVE  ArbInv'
<1>1. task \in [Actor -> Task] /\ ServedInv /\ SendKeepsItsPlace /\ TaskInv /\ IdInv
  BY DEF ArbInv, ArbTypeOK
<1> DEFINE T == [task EXCEPT ![b] = Idle]
<1>2. T \in [Actor -> Task] /\ T[b] = Idle /\ \A a \in Actor : a # b => T[a] = task[a]
  BY <1>1, IdleFacts
<1> HIDE DEF T
<1>3. /\ task' \in [Actor -> Task]
      /\ \A a \in Actor : /\ SameTask(T[a], task'[a])
                          /\ cond => task'[a].pc # "parked"
                          /\ ~cond => task'[a] = T[a]
  BY <1>2, WakeIfFacts DEF T
<1>4. \A a \in Actor : a # b => SameTask(task[a], task'[a])
  BY <1>2, <1>3
<1>5. task'[b].verb = "none" /\ task'[b].pc = "idle" /\ task'[b].id = NoOrigin
      /\ TaskOK(b, task'[b])
  <2>1. T[b] \in Task /\ task'[b] \in Task /\ TaskOK(b, T[b])
    BY <1>2, <1>3, IdleFacts
  <2>2. SameTask(Idle, task'[b]) /\ SameTask(T[b], task'[b])
    BY <1>2, <1>3
  <2>3. TaskOK(b, task'[b])
    BY <2>1, <2>2, SameTaskOK
  <2> QED BY <2>2, <2>3, IdleFacts DEF SameTask
<1>6. \A a \in Actor : SameTask(task[a], task'[a]) \/ (a = b /\ Changes(b, id, task'[a]))
  <2>1. Changes(b, id, task'[b])
    BY <1>3, <1>5, Sets DEF Changes
  <2> QED BY <1>4, <2>1
<1>7. NoLostWakeup'
  <2> SUFFICES ASSUME NEW a \in Actor, task'[a].pc = "parked"
               PROVE  ~closed /\ ~Settles(lock', task'[a].verb, task'[a].id)
    BY DEF NoLostWakeup
  <2>1. ~cond /\ a # b
    BY <1>3, <1>5
  <2>2. task'[a] = task[a]
    BY <1>2, <1>3, <2>1
  <2>3. ~closed
    BY <2>2, ParkedFacts
  <2> QED BY <2>1, <2>2, <2>3
<1>8. ~closed /\ Queued(lock', id) =>
        \E a \in Actor : /\ task'[a].pc \in {"parked", "woken"}
                         /\ task'[a].verb # "reclaim" /\ task'[a].id = id
  <2> SUFFICES ASSUME ~closed, Queued(lock', id)
               PROVE  \E a \in Actor : /\ task'[a].pc \in {"parked", "woken"}
                                       /\ task'[a].verb # "reclaim" /\ task'[a].id = id
    OBVIOUS
  <2>1. PICK a \in Actor : Waiting(a) /\ task[a].verb # "reclaim" /\ task[a].id = id
    BY <1>1 DEF ServedInv
  <2>2. a # b
    BY <2>1
  <2> QED BY <1>4, <2>1, <2>2 DEF Waiting, SameTask
<1>9. \A c \in Client : task'[c].verb = "send" /\ task'[c].id = id
                        /\ task'[c].pc \in {"parked", "woken"} => Queued(lock', id)
  <2> SUFFICES ASSUME NEW c \in Client, task'[c].verb = "send", task'[c].id = id
               PROVE  FALSE
    OBVIOUS
  <2>1. c # b /\ task[c].verb = "send" /\ task[c].id = id
    BY <1>4, <1>5, Sets DEF SameTask
  <2>2. id \in SendId
    BY <2>1, SendsUnder
  <2>3. TaskOK(b, task[b])
    BY <1>1 DEF TaskInv
  <2>4. b \in Client /\ task[b].verb = "send"
    BY <2>2, <2>3, Sets, IdleFacts DEF TaskOK
  <2> QED BY <1>1, <2>1, <2>4 DEF IdInv
<1> QED BY <1>3, <1>6, <1>7, <1>8, <1>9, StepInv, ZenonT(60)

\* The identity of a connected, writable edge.
LEMMA EdgeFacts ==
    ASSUME ArbInv, NEW t \in Target, edge[t] # NoOrigin
    PROVE  /\ edge[t] \in EdgeId /\ edge[t] \in Origin
           /\ \A s \in Target : edge[s] = edge[t] => s = t
BY Sets DEF ArbInv, ArbTypeOK, IdInv

\* The parts of the invariant that steps start from.
LEMMA ArbFacts ==
    ASSUME ArbInv
    PROVE  /\ LockOK(lock) /\ lock \in LockState /\ leases \subseteq Lease /\ LeaseInv
           /\ task \in [Actor -> Task] /\ Kept(lock, lock)
BY DEF ArbInv, LockOK, LockInv, ArbTypeOK, Kept

\* No wake is a wake that is not due.
LEMMA NoWake == \A T : WakeIf(FALSE, T) = T /\ WakeIf(TRUE, T) = Wake(T)
BY DEF WakeIf

\* lock, without waiting.
LEMMA LockNowInv ==
    ASSUME ArbInv, NEW t \in Target, NEW lease \in BOOLEAN, LockNow(t, lease)
    PROVE  ArbInv'
<1>1. PICK n \in 0 .. PurgeMax : LockSettled(lock, edge[t], lease, n)
  BY DEF LockNow
<1>2. edge[t] \in EdgeId /\ edge[t] \in Origin
  BY EdgeFacts DEF LockNow, Addressable
<1>3. /\ LockOK(lock') /\ Only(lock, lock', edge[t]) /\ Quiet(lock, lock')
      /\ lock'.mode = lock.mode /\ ~Queued(lock', edge[t])
      /\ LeaseInv' /\ leases' \subseteq Lease
  BY <1>1, <1>2, LockSettledFacts DEF LockNow
<1>4. UNCHANGED <<closed, edge>> /\ task' = WakeIf(FALSE, task)
  BY NoWake DEF LockNow
<1> QED BY <1>2, <1>3, <1>4, VerbInv

\* lock --wait.
LEMMA LockWaitInv ==
    ASSUME ArbInv, NEW c \in Client, NEW t \in Target, NEW lease \in BOOLEAN,
           LockWait(c, t, lease)
    PROVE  ArbInv'
<1>1. edge[t] \in EdgeId /\ edge[t] \in Origin /\ ~closed
  BY EdgeFacts DEF LockWait, Addressable
<1>2. c \in Actor /\ task[c].id = NoOrigin
  <2>1. c \in Actor /\ TaskOK(c, task[c]) /\ task[c].pc = "idle"
    BY Sets DEF ArbInv, TaskInv, LockWait
  <2> QED BY <2>1, IdleFacts DEF TaskOK
<1>3. Attempts(c, "lock", edge[t])
  BY <1>1, <1>2 DEF Attempts
<1>4. From("lock", edge[t], lock)
  BY ArbFacts, KeptFacts DEF From
<1> QED BY <1>1, <1>2, <1>3, <1>4, TryInv DEF LockWait

\* lock --steal.
LEMMA LockStealInv ==
    ASSUME ArbInv, NEW t \in Target, NEW lease \in BOOLEAN, LockSteal(t, lease)
    PROVE  ArbInv'
<1> DEFINE id == edge[t]
<1>1. id \in EdgeId /\ id \in Origin /\ id # NoOrigin
  BY EdgeFacts DEF LockSteal, Addressable
<1>2. /\ LockOK(lock) /\ lock \in LockState /\ leases \subseteq Lease /\ LeaseInv
      /\ Kept(lock, lock) /\ HolderSoundIn(lock)
  BY ArbFacts DEF LockOK, LockInv
<1>3. UNCHANGED <<closed, edge>>
  BY DEF LockSteal
<1>4. CASE /\ Exclusive => lock.holder # id
           /\ \E n \in 0 .. PurgeMax :
                  LET l == RecordPurge(Steal(lock, id), id, IF Exclusive THEN n ELSE 0)
                  IN  SetLock(l, IF lease THEN {Timer(l, id)} ELSE {})
           /\ task' = Wake(task)
  <2>1. PICK n \in 0 .. PurgeMax :
          LET l == RecordPurge(Steal(lock, id), id, IF Exclusive THEN n ELSE 0)
          IN  SetLock(l, IF lease THEN {Timer(l, id)} ELSE {})
    BY <1>4
  <2> DEFINE k == IF Exclusive THEN n ELSE 0
             s == Steal(lock, id)
             m == RecordPurge(s, id, k)
  <2>2. SetLock(m, {Timer(m, id)}) \/ SetLock(m, {})
    BY <2>1
  <2>3. /\ LockOK(s) /\ Only(lock, s, id) /\ Moves(lock, s) /\ s.mode = lock.mode
        /\ Queued(s, id) => Queued(lock, id)
        /\ Steals(lock, id) => s.generation # lock.generation
        /\ ~Steals(lock, id) => s = lock
    BY <1>1, <1>2, StealFacts
  <2>4. k \in Nat
    BY PurgeMaxAssumption
  <2> HIDE DEF k, s
  <2>5. LockOK(m) /\ Kept(s, m) /\ m.generation = s.generation
    BY <1>1, <2>3, <2>4, PurgeFacts
  <2> HIDE DEF m, id
  <2>6. /\ Only(lock, m, id) /\ Moves(lock, m) /\ m.mode = lock.mode
        /\ Queued(m, id) => Queued(lock, id)
    BY <2>3, <2>5, KeptFacts DEF Only, Moves, Kept
  <2>7. m.holder = id => m.generation # lock.generation
    <3>1. CASE Steals(lock, id)
      BY <3>1, <2>3, <2>5
    <3>2. CASE ~Steals(lock, id)
      <4>1. m.holder = lock.holder
        BY <3>2, <2>3, <2>5 DEF Kept
      <4>2. lock.holder # id
        BY <1>1, <1>2, <1>4 DEF HolderSoundIn, Free
      <4> QED BY <4>1, <4>2
    <3> QED BY <3>1, <3>2
  <2>8. m \in LockState /\ lock' = m
    BY <2>2, <2>5 DEF LockOK, LockInv, SetLock
  <2>9. LeaseInv' /\ leases' \subseteq Lease
    BY <1>1, <1>2, <2>2, <2>6, <2>7, <2>8, LeaseArmed, LeaseKept
  <2> DEFINE yes == TRUE
  <2>10. task' = WakeIf(yes, task)
    BY <1>4, NoWake
  <2> QED BY <1>1, <1>3, <2>5, <2>6, <2>8, <2>9, <2>10, VerbInv
<1>5. CASE /\ lock.holder = id
           /\ LET l == IF lease THEN Renew(lock, id) ELSE lock
              IN  SetLock(l, IF lease THEN {Timer(l, id)} ELSE {})
           /\ UNCHANGED task
  <2> DEFINE m == IF lease THEN Renew(lock, id) ELSE lock
  <2>1. (lease /\ SetLock(m, {Timer(m, id)})) \/ SetLock(m, {})
    BY <1>5
  <2>2. LockOK(m) /\ Kept(lock, m) /\ (lease => m.generation # lock.generation)
    BY <1>1, <1>2, <1>5, RenewFacts
  <2> HIDE DEF m, id
  <2>3. /\ Only(lock, m, id) /\ Moves(lock, m) /\ Quiet(lock, m) /\ m.mode = lock.mode
        /\ Queued(m, id) => Queued(lock, id)
    BY <2>2, KeptFacts DEF Kept
  <2>4. m \in LockState /\ lock' = m
    BY <2>1, <2>2 DEF LockOK, LockInv, SetLock
  <2>5. LeaseInv' /\ leases' \subseteq Lease
    BY <1>1, <1>2, <2>1, <2>2, <2>3, <2>4, LeaseArmed, LeaseKept
  <2>6. task' = WakeIf(FALSE, task)
    BY <1>5, NoWake
  <2> QED BY <1>1, <1>3, <2>2, <2>3, <2>4, <2>5, <2>6, VerbInv
<1> QED BY <1>4, <1>5 DEF LockSteal

\* unlock.
LEMMA UnlockInv ==
    ASSUME ArbInv, NEW t \in Target, Unlock(t)
    PROVE  ArbInv'
<1> DEFINE m == Release(lock, edge[t])
<1>1. edge[t] \in EdgeId /\ edge[t] \in Origin
  BY EdgeFacts DEF Unlock, Addressable
<1>2. /\ LockOK(m) /\ Only(lock, m, edge[t]) /\ Moves(lock, m) /\ m.mode = lock.mode
      /\ Queued(m, edge[t]) <=> Queued(lock, edge[t])
  BY <1>1, ArbFacts, ReleaseFacts
<1>3. SetLock(m, {}) /\ UNCHANGED <<closed, edge>> /\ task' = WakeIf(TRUE, task)
  BY NoWake DEF Unlock
<1> HIDE DEF m
<1>4. lock' = m /\ m \in LockState
  BY <1>2, <1>3 DEF SetLock, LockOK, LockInv
<1>5. LeaseInv' /\ leases' \subseteq Lease
  BY <1>2, <1>3, <1>4, ArbFacts, LeaseKept
<1> QED BY <1>1, <1>2, <1>3, <1>4, <1>5, VerbInv

\* A woken task is polled.
LEMMA ResumeInv ==
    ASSUME ArbInv, NEW a \in Actor, Resume(a)
    PROVE  ArbInv'
<1> DEFINE id == task[a].id
           verb == task[a].verb
<1>1. TaskOK(a, task[a]) /\ task[a].pc = "woken" /\ task[a].lease \in BOOLEAN
  BY DEF ArbInv, ArbTypeOK, TaskInv, Resume, Task
<1>2. id \in Origin /\ verb \in {"lock", "send", "reclaim", "leg"} /\ UNCHANGED <<closed, edge>>
  BY <1>1, IdleFacts, Sets DEF TaskOK, Resume
<1>3. CASE closed
  <2> DEFINE m == CASE verb = "lock" -> Dequeue(lock, id)
                    [] verb = "send" -> Unregister(lock, id)
                    [] OTHER -> lock
  <2>1. SetLock(m, {}) /\ task' = WakeIf(a \in Client /\ Free(m), [task EXCEPT ![a] = Idle])
    BY <1>3 DEF Resume
  <2>2. LockOK(m) /\ Only(lock, m, id) /\ Moves(lock, m)
        /\ (verb # "send" => m.mode = lock.mode)
    <3>1. CASE verb = "lock"
      <4>1. m = Dequeue(lock, id)
        BY <3>1
      <4> QED BY <1>2, <3>1, <4>1, ArbFacts, DequeueFacts
    <3>2. CASE verb = "send"
      <4>1. m = Unregister(lock, id)
        BY <3>2
      <4> QED BY <1>2, <3>2, <4>1, ArbFacts, UnregisterFacts
    <3>3. CASE verb \notin {"lock", "send"}
      <4>1. m = lock
        BY <3>3
      <4> QED BY <4>1, ArbFacts, KeptFacts
    <3> QED BY <3>1, <3>2, <3>3
  <2> HIDE DEF m
  <2>3. m \in LockState /\ lock' = m
    BY <2>1, <2>2 DEF LockOK, LockInv, SetLock
  <2>4. LeaseInv' /\ leases' \subseteq Lease
    BY <2>1, <2>2, <2>3, ArbFacts, LeaseKept
  <2>5. id \in EdgeId => verb # "send"
    BY <1>1, Sets, IdleFacts DEF TaskOK
  <2> QED BY <1>2, <1>3, <2>1, <2>2, <2>3, <2>4, <2>5, LeavesInv
<1>4. CASE ~closed
  <2>1. Try(a, verb, id, task[a].lease, lock)
    BY <1>4 DEF Resume
  <2>2. Attempts(a, verb, id)
    <3>1. a \in Pump => \A t \in Target : edge[t] = id => t = a
      BY <1>2, Sets DEF ArbInv, IdInv
    <3>2. a \in Client /\ verb = "send" =>
            \A d \in Client : d # a /\ task[d].verb = "send" => task[d].id # id
      BY DEF ArbInv, IdInv
    <3>3. task[a] # Idle
      BY <1>1, IdleFacts
    <3> QED BY <1>1, <1>2, <3>1, <3>2, <3>3 DEF Attempts, TaskOK
  <2>3. From(verb, id, lock)
    <3>1. ASSUME verb = "send" PROVE Writer(lock, id)
      <4>1. a \in Client
        BY <1>1, <3>1, IdleFacts DEF TaskOK
      <4>2. Queued(lock, id)
        BY <1>1, <3>1, <4>1 DEF ArbInv, SendKeepsItsPlace, Waiting
      <4> QED BY <4>2, ArbFacts DEF LockOK, LockInv, QueueSoundIn, Queued
    <3> QED BY <3>1, ArbFacts, KeptFacts DEF From
  <2> QED BY <1>1, <1>2, <1>4, <2>1, <2>2, <2>3, TryInv
<1> QED BY <1>3, <1>4

\* A waiting verb is dropped, or a send is given up.
LEMMA AbandonInv ==
    ASSUME ArbInv, NEW c \in Client, Abandon(c)
    PROVE  ArbInv'
<1> DEFINE id == task[c].id
           verb == task[c].verb
           m == IF verb = "send" THEN Unregister(lock, id) ELSE Dequeue(lock, id)
<1>1. /\ c \in Actor /\ TaskOK(c, task[c]) /\ task[c] # Idle /\ c \notin Pump
      /\ UNCHANGED <<closed, edge>>
  BY Sets, IdleFacts DEF ArbInv, TaskInv, Abandon
<1>2. \/ verb = "lock" /\ id \in EdgeId /\ id \in Origin
      \/ verb = "send" /\ id \in SendId /\ id \in Origin
  BY <1>1, Sets DEF TaskOK
<1>3. SetLock(m, {}) /\ task' = WakeIf(Free(m), [task EXCEPT ![c] = Idle])
  BY DEF Abandon
<1>4. /\ LockOK(m) /\ Only(lock, m, id) /\ Moves(lock, m) /\ ~Queued(m, id)
      /\ verb # "send" => m.mode = lock.mode
      /\ verb = "send" => ~Registered(m, id)
      /\ Free(m) \/ m.holder = lock.holder
  <2>1. CASE verb = "send"
    <3>1. m = Unregister(lock, id)
      BY <2>1
    <3> QED BY <1>2, <2>1, <3>1, ArbFacts, UnregisterFacts DEF Free
  <2>2. CASE verb # "send"
    <3>1. m = Dequeue(lock, id)
      BY <2>2
    <3> QED BY <1>2, <2>2, <3>1, ArbFacts, DequeueFacts
  <2> QED BY <2>1, <2>2
<1> HIDE DEF m
<1>5. m \in LockState /\ lock' = m
  BY <1>3, <1>4 DEF LockOK, LockInv, SetLock
<1>6. LeaseInv' /\ leases' \subseteq Lease
  BY <1>3, <1>4, <1>5, ArbFacts, LeaseKept
\* As long as the same origin holds the lock, the others wait as before.
<1>7. ASSUME ~Free(m), NEW a \in Actor, a # c, task[a].pc = "parked"
      PROVE  ~Settles(m, task[a].verb, task[a].id)
  <2> DEFINE x == task[a].id
  <2>1. /\ x \in Origin /\ Exclusive
        /\ task[a].verb # "reclaim" => Denies(lock, x)
        /\ task[a].verb = "reclaim" => Barred(lock, x)
    BY <1>7, ParkedFacts
  <2>2. m.mode[x] = lock.mode[x]
    <3>1. CASE x # id
      BY <2>1, <3>1, <1>4 DEF Only
    <3>2. CASE verb # "send"
      BY <3>2, <1>4
    <3>3. CASE x = id /\ verb = "send"
      <4>1. TaskOK(a, task[a]) /\ id \in SendId
        BY <1>2, <3>3 DEF ArbInv, TaskInv
      <4>2. a \in Client /\ task[a].verb = "send"
        BY <4>1, <3>3, Sets, IdleFacts DEF TaskOK
      <4> QED BY <1>7, <3>3, <4>2 DEF ArbInv, IdInv
    <3> QED BY <3>1, <3>2, <3>3
  <2>3. m.holder = lock.holder
    BY <1>4, <1>7
  <2> HIDE DEF x
  <2>4. CASE task[a].verb # "reclaim"
    <3>1. Denies(m, x)
      BY <1>7, <2>1, <2>2, <2>3, <2>4 DEF Denies, Grants, Writer
    <3> QED BY <2>4, <3>1 DEF Settles, x
  <2>5. CASE task[a].verb = "reclaim"
    BY <1>7, <2>1, <2>2, <2>3, <2>5 DEF Settles, Barred, Registered, MayWrite, x
  <2> QED BY <2>4, <2>5
<1>8. id \in EdgeId => verb # "send"
  BY <1>2, Sets
<1>9. id \in SendId => verb = "send"
  BY <1>2, Sets
<1> QED BY <1>1, <1>2, <1>3, <1>4, <1>5, <1>6, <1>7, <1>8, <1>9, LeavesInv

\* send joins the endpoint under a new transient id.
LEMMA JoinFacts ==
    ASSUME ArbInv, NEW c \in Client, task[c].pc = "idle", NEW id \in SendId, id \notin Referenced
    PROVE  /\ Attempts(c, "send", id) /\ From("send", id, Register(lock, id, "on-demand"))
           /\ ~Queued(Register(lock, id, "on-demand"), id)
<1> DEFINE m == Register(lock, id, "on-demand")
<1>1. id \in Origin /\ c \in Actor /\ TaskOK(c, task[c])
  BY Sets DEF ArbInv, TaskInv
<1>2. task[c].id = NoOrigin
  BY <1>1, IdleFacts DEF TaskOK
<1>3. ~Registered(lock, id) /\ \A a \in Actor : task[a].id # id
  BY <1>1, NotReferenced
<1>4. Attempts(c, "send", id)
  BY <1>1, <1>2, <1>3, Sets DEF Attempts
<1>5. "on-demand" \in WriteMode /\ "on-demand" # "held"
  BY DEF WriteMode
<1>6. /\ LockOK(m) /\ Only(lock, m, id) /\ m.mode = [lock.mode EXCEPT ![id] = "on-demand"]
      /\ m.holder = lock.holder /\ m.generation = lock.generation /\ Quiet(lock, m)
      /\ ~Queued(m, id)
  BY <1>1, <1>3, <1>5, ArbFacts, RegisterFacts
<1> HIDE DEF m
<1>7. m.mode[id] = "on-demand"
  BY <1>1, <1>6, ArbFacts DEF LockState
<1> QED BY <1>4, <1>6, <1>7 DEF From, Writer, m

\* send.
LEMMA SendInv ==
    ASSUME ArbInv, NEW c \in Client, Send(c)
    PROVE  ArbInv'
<1>1. PICK id \in SendId \ Referenced :
        Try(c, "send", id, FALSE, Register(lock, id, "on-demand"))
  BY DEF Send
<1>2. ~closed /\ UNCHANGED <<closed, edge>> /\ task[c].pc = "idle" /\ c \in Actor
  BY Sets DEF Send
<1>3. Attempts(c, "send", id) /\ From("send", id, Register(lock, id, "on-demand"))
  BY <1>2, JoinFacts
<1> QED BY <1>1, <1>2, <1>3, TryInv

\* send --steal.
LEMMA SendStealInv ==
    ASSUME ArbInv, NEW c \in Client, SendSteal(c)
    PROVE  ArbInv'
<1> DEFINE u(i) == [Idle EXCEPT !.verb = "send", !.pc = "sending", !.id = i]
<1>1. PICK id \in SendId \ Referenced :
        /\ SetLock(Steal(Register(lock, id, "on-demand"), id), {})
        /\ task' = Wake([task EXCEPT ![c] = u(id)])
  BY DEF SendSteal
<1>2. ~closed /\ UNCHANGED <<closed, edge>> /\ task[c].pc = "idle" /\ c \in Actor
  BY Sets DEF SendSteal
<1> DEFINE l == Register(lock, id, "on-demand")
           m == Steal(l, id)
           T == [task EXCEPT ![c] = u(id)]
<1>3. Attempts(c, "send", id) /\ From("send", id, l) /\ ~Queued(l, id)
  BY <1>2, JoinFacts
<1>4. id \in Origin /\ id \in SendId /\ id \notin EdgeId
  BY Sets
<1>5. SetLock(m, {}) /\ task' = Wake(T)
  BY <1>1
<1> HIDE DEF l
<1>6. LockOK(m) /\ Only(l, m, id) /\ Moves(l, m) /\ ~Queued(m, id)
  BY <1>3, <1>4, StealFacts DEF From
<1> HIDE DEF m
<1>7. Only(lock, m, id) /\ Moves(lock, m) /\ m \in LockState /\ lock' = m
  BY <1>3, <1>5, <1>6 DEF From, Only, Moves, LockOK, LockInv, SetLock
<1>8. LeaseInv' /\ leases' \subseteq Lease
  BY <1>5, <1>7, ArbFacts, LeaseKept
<1>9. u(id) \in Task /\ u(id).verb = "send" /\ u(id).pc = "sending" /\ u(id).id = id
  BY <1>4, IdleFacts DEF Task
<1> HIDE DEF u
<1>10. T \in [Actor -> Task] /\ T[c] = u(id) /\ \A a \in Actor : a # c => T[a] = task[a]
  BY <1>2, <1>9, ArbFacts
<1> HIDE DEF T
<1>11. task' \in [Actor -> Task]
       /\ \A a \in Actor : SameTask(T[a], task'[a]) /\ task'[a].pc # "parked"
  BY <1>5, <1>10, WakeFacts
<1>12. task'[c].verb = "send" /\ task'[c].id = id /\ task'[c].pc = "sending"
  BY <1>2, <1>9, <1>10, <1>11 DEF SameTask
<1>13. Changes(c, id, task'[c])
  <2>1. TaskOK(c, task'[c])
    BY <1>4, <1>12 DEF TaskOK
  <2> QED BY <1>2, <1>3, <1>4, <1>11, <1>12, <2>1, Sets DEF Changes, Attempts
<1>14. \A a \in Actor : SameTask(task[a], task'[a]) \/ (a = c /\ Changes(c, id, task'[a]))
  BY <1>10, <1>11, <1>13
<1>15. \A d \in Client : task'[d].verb = "send" /\ task'[d].id = id
                         /\ task'[d].pc \in {"parked", "woken"} => Queued(lock', id)
  <2> SUFFICES ASSUME NEW d \in Client, d # c, task'[d].verb = "send", task'[d].id = id
               PROVE  FALSE
    BY <1>12
  <2>1. task[d].id = id /\ d \in Actor
    BY <1>10, <1>11, Sets DEF SameTask
  <2> QED BY <1>4, <2>1, NotReferenced
<1>16. NoLostWakeup'
  BY <1>11 DEF NoLostWakeup
<1> QED BY <1>2, <1>4, <1>6, <1>7, <1>8, <1>11, <1>12, <1>14, <1>15, <1>16, StepInv

\* The line of a send is delivered, or the channel is gone.
LEMMA DeliveredInv ==
    ASSUME ArbInv, NEW c \in Client, Delivered(c)
    PROVE  ArbInv'
<1> DEFINE id == task[c].id
           m == Unregister(lock, id)
<1>1. /\ c \in Actor /\ TaskOK(c, task[c]) /\ task[c].pc = "sending" /\ c \notin Pump
      /\ UNCHANGED <<closed, edge>>
  BY Sets DEF ArbInv, TaskInv, Delivered
<1>2. id \in SendId /\ id \in Origin /\ id \notin EdgeId
  BY <1>1, Sets, IdleFacts DEF TaskOK
<1>3. SetLock(m, {}) /\ task' = WakeIf(TRUE, [task EXCEPT ![c] = Idle])
  BY NoWake DEF Delivered
<1>4. LockOK(m) /\ Only(lock, m, id) /\ Moves(lock, m) /\ ~Queued(m, id) /\ ~Registered(m, id)
  BY <1>2, ArbFacts, UnregisterFacts
<1> HIDE DEF m
<1>5. m \in LockState /\ lock' = m
  BY <1>3, <1>4 DEF LockOK, LockInv, SetLock
<1>6. LeaseInv' /\ leases' \subseteq Lease
  BY <1>3, <1>4, <1>5, ArbFacts, LeaseKept
<1> QED BY <1>1, <1>2, <1>3, <1>4, <1>5, <1>6, LeavesInv

\* A lease timer fires: on its own grant, or for nothing.
LEMMA LeaseFiresInv ==
    ASSUME ArbInv, NEW z \in leases, LeaseFires(z)
    PROVE  ArbInv'
<1> DEFINE fired == ~closed /\ lock.holder = z.id /\ lock.generation = z.generation
           m == IF fired THEN Release(lock, z.id) ELSE lock
<1>1. z.id \in Origin
  BY ArbFacts DEF Lease
<1>2. /\ lock' = m /\ leases' = Aged(leases \ {z}, m, {}) /\ task' = WakeIf(fired, task)
      /\ UNCHANGED <<closed, edge>>
  BY DEF LeaseFires
<1>3. /\ LockOK(m) /\ Only(lock, m, z.id) /\ Moves(lock, m) /\ m.mode = lock.mode
      /\ Queued(m, z.id) <=> Queued(lock, z.id)
      /\ m.generation = lock.generation
      /\ fired \/ Quiet(lock, m)
  <2>1. CASE fired
    BY <1>1, <2>1, ArbFacts, ReleaseFacts
  <2>2. CASE ~fired
    BY <1>1, <2>2, ArbFacts, KeptFacts
  <2> QED BY <2>1, <2>2
<1> HIDE DEF fired, m
<1>4. m \in LockState /\ m.generation >= lock.generation
  BY <1>3, ArbFacts DEF LockOK, LockInv, LockState
<1>5. LeaseInv' /\ leases' \subseteq Lease
  <2>1. leases \ {z} \subseteq leases
    OBVIOUS
  <2> QED BY <1>2, <1>3, <1>4, <2>1, ArbFacts, LeaseAged
<1> QED BY <1>1, <1>2, <1>3, <1>5, VerbInv

\* A chunk reaches a held pump or a leg.
LEMMA ChunkInv ==
    ASSUME ArbInv, NEW t \in Target, Chunk(t)
    PROVE  ArbInv'
<1> DEFINE verb == IF KindOf[t] = "leg" THEN "leg" ELSE "reclaim"
<1>1. /\ t \in Pump /\ t \in Actor /\ t \notin Client /\ ~closed /\ edge[t] # NoOrigin
      /\ ModeOf[t] # "never" /\ UNCHANGED <<closed, edge>> /\ task[t].pc \in {"idle", "holding"}
      /\ Try(t, verb, edge[t], FALSE, lock)
  BY Sets DEF Chunk
<1>2. /\ edge[t] \in EdgeId /\ edge[t] \in Origin
      /\ \A s \in Target : edge[s] = edge[t] => s = t
  BY <1>1, EdgeFacts
<1>3. task[t].id = NoOrigin \/ task[t].pc = "holding"
  BY <1>1, IdleFacts DEF ArbInv, TaskInv, TaskOK
<1>4. Attempts(t, verb, edge[t])
  <2>1. ~Waiting(t)
    BY <1>1 DEF Waiting
  <2>2. KindOf[t] = "codec" \/ KindOf[t] = "leg"
    BY <1>1 DEF Pump
  <2> QED BY <1>1, <1>2, <1>3, <2>1, <2>2 DEF Attempts
<1>5. From(verb, edge[t], lock)
  BY ArbFacts, KeptFacts DEF From
<1> DEFINE no == FALSE
<1>6. no \in BOOLEAN
  OBVIOUS
<1>7. Try(t, verb, edge[t], no, lock)
  BY <1>1
<1> HIDE DEF verb, no
<1> QED BY <1>1, <1>4, <1>5, <1>6, <1>7, TryInv

\* A leg yields the floor.
LEMMA LegYieldInv ==
    ASSUME ArbInv, NEW t \in Target, LegYield(t)
    PROVE  ArbInv'
<1> DEFINE id == task[t].id
           m == Release(lock, id)
<1>1. /\ t \in Pump /\ t \in Actor /\ t \notin Client /\ task[t].pc = "holding"
      /\ UNCHANGED <<closed, edge>>
      /\ SetLock(m, {}) /\ task' = WakeIf(lock.holder = id, [task EXCEPT ![t] = Idle])
  BY Sets DEF LegYield
<1>2. id \in EdgeId /\ id \in Origin /\ id \notin SendId
  BY <1>1, Sets, IdleFacts DEF ArbInv, TaskInv, TaskOK
<1>3. /\ LockOK(m) /\ Only(lock, m, id) /\ Moves(lock, m) /\ m.mode = lock.mode
      /\ Queued(m, id) <=> Queued(lock, id)
      /\ lock.holder = id \/ Quiet(lock, m)
  BY <1>2, ArbFacts, ReleaseFacts, KeptFacts
<1> HIDE DEF m
<1>4. m \in LockState /\ lock' = m
  BY <1>1, <1>3 DEF LockOK, LockInv, SetLock
<1>5. LeaseInv' /\ leases' \subseteq Lease
  BY <1>1, <1>3, <1>4, ArbFacts, LeaseKept
<1>6. ~Waiting(t)
  BY <1>1 DEF Waiting
<1>7. \/ lock.holder = id
      \/ \A a \in Actor : a # t /\ task[a].pc = "parked" => ~Settles(m, task[a].verb, task[a].id)
  BY <1>3, QuietKeepsParked
<1> QED BY <1>1, <1>2, <1>3, <1>4, <1>5, <1>6, <1>7, LeavesInv

\* A pty consults its read gate.
LEMMA GatePollInv ==
    ASSUME ArbInv, NEW t \in Target, GatePoll(t)
    PROVE  ArbInv'
<1> DEFINE id == edge[t]
           m == IF MayWrite(lock, id) THEN lock ELSE ReclaimHeld(lock, id)
<1>1. id \in EdgeId /\ id \in Origin
  BY EdgeFacts DEF GatePoll, Addressable
<1>2. SetLock(m, {}) /\ UNCHANGED <<closed, edge>> /\ task' = WakeIf(FALSE, task)
  BY NoWake DEF GatePoll
<1>3. /\ LockOK(m) /\ Only(lock, m, id) /\ Moves(lock, m) /\ Quiet(lock, m)
      /\ m.mode = lock.mode /\ (Queued(m, id) => Queued(lock, id))
  BY <1>1, ArbFacts, ReclaimFacts, KeptFacts
<1> HIDE DEF m
<1>4. m \in LockState /\ lock' = m
  BY <1>2, <1>3 DEF LockOK, LockInv, SetLock
<1>5. LeaseInv' /\ leases' \subseteq Lease
  BY <1>2, <1>3, <1>4, ArbFacts, LeaseKept
<1> QED BY <1>1, <1>2, <1>3, <1>4, <1>5, VerbInv

\* The last client of a pty closes it.
LEMMA LastCloseInv ==
    ASSUME ArbInv, NEW t \in Target, LastClose(t)
    PROVE  ArbInv'
<1> DEFINE id == edge[t]
           released == lock.holder = id /\ ModeOf[t] # "held"
           m(n) == IF released THEN Release(lock, id)
                   ELSE IF lock.holder # id /\ Exclusive
                        THEN RecordPurge(lock, id, n) ELSE lock
<1>1. id \in EdgeId /\ id \in Origin
  BY EdgeFacts DEF LastClose, Addressable
<1>2. PICK n \in 0 .. PurgeMax : SetLock(m(n), {})
  BY DEF LastClose
<1>3. UNCHANGED <<closed, edge>> /\ task' = WakeIf(released, task)
  BY DEF LastClose
<1>4. /\ LockOK(m(n)) /\ Only(lock, m(n), id) /\ Moves(lock, m(n)) /\ m(n).mode = lock.mode
      /\ Queued(m(n), id) => Queued(lock, id)
      /\ released \/ Quiet(lock, m(n))
  <2>1. CASE released
    <3>1. m(n) = Release(lock, id)
      BY <2>1
    <3> QED BY <1>1, <2>1, <3>1, ArbFacts, ReleaseFacts
  <2>2. CASE ~released
    <3>1. n \in Nat
      BY PurgeMaxAssumption
    <3>2. m(n) = RecordPurge(lock, id, n) \/ m(n) = lock
      BY <2>2
    <3>3. LockOK(m(n)) /\ Kept(lock, m(n))
      BY <1>1, <3>1, <3>2, ArbFacts, PurgeFacts
    <3> HIDE DEF m
    <3> QED BY <3>3, KeptFacts DEF Kept
  <2> QED BY <2>1, <2>2
<1> HIDE DEF m, released
<1>5. m(n) \in LockState /\ lock' = m(n)
  BY <1>2, <1>4 DEF LockOK, LockInv, SetLock
<1>6. LeaseInv' /\ leases' \subseteq Lease
  BY <1>2, <1>4, <1>5, ArbFacts, LeaseKept
<1> QED BY <1>1, <1>3, <1>4, <1>5, <1>6, VerbInv

\* connect: a new edge under a new id, with a wake.
LEMMA ConnectInv ==
    ASSUME ArbInv, NEW t \in Target, Connect(t)
    PROVE  ArbInv'
<1>1. PICK id \in EdgeId \ Referenced, n \in 0 .. PurgeMax :
        LET l == Register(lock, id, ModeOf[t])
        IN  /\ SetLock(IF l.holder = id THEN RecordPurge(l, id, n) ELSE l, {})
            /\ edge' = [edge EXCEPT ![t] = id]
  BY DEF Connect
<1> DEFINE l == Register(lock, id, ModeOf[t])
           m == IF l.holder = id THEN RecordPurge(l, id, n) ELSE l
<1>2. /\ ArbTypeOK /\ TaskInv /\ IdInv /\ ModeInv /\ ServedInv /\ NoPhantomOrigin
      /\ SendKeepsItsPlace /\ LockOK(lock) /\ lock \in LockState
      /\ edge \in [Target -> EdgeId \cup {NoOrigin}] /\ task \in [Actor -> Task]
      /\ ~closed /\ closed' = closed /\ task' = Wake(task) /\ edge[t] = NoOrigin
  BY ArbFacts DEF ArbInv, ArbTypeOK, Connect
<1>3. id \in EdgeId /\ id \in Origin /\ id \notin SendId /\ id # NoOrigin
  BY Sets
<1>4. /\ \A s \in Target : edge[s] # id
      /\ \A a \in Actor : task[a].id # id
      /\ ~Registered(lock, id)
  BY <1>3, NotReferenced
<1>5. ModeOf[t] \in WriteMode /\ n \in Nat
  BY TargetAssumption, PurgeMaxAssumption
<1>6. /\ LockOK(l) /\ Only(lock, l, id) /\ Moves(lock, l) /\ ~Queued(l, id)
      /\ l.mode = [lock.mode EXCEPT ![id] = ModeOf[t]]
  BY <1>2, <1>3, <1>4, <1>5, RegisterFacts
<1>7. SetLock(m, {}) /\ edge' = [edge EXCEPT ![t] = id]
  BY <1>1
<1> HIDE DEF l
<1>8. LockOK(m) /\ Kept(l, m) /\ m.generation = l.generation
  <2>1. Kept(l, l)
    BY DEF Kept
  <2> QED BY <1>3, <1>5, <1>6, <2>1, PurgeFacts
<1> HIDE DEF m
<1>9. /\ Only(lock, m, id) /\ Moves(lock, m) /\ ~Queued(m, id) /\ m.mode = l.mode
      /\ m \in LockState /\ lock' = m
  BY <1>6, <1>7, <1>8, KeptFacts DEF Only, Moves, Kept, LockOK, LockInv, SetLock
<1>10. LeaseInv' /\ leases' \subseteq Lease
  BY <1>7, <1>9, ArbFacts, LeaseKept
<1>11. /\ task' \in [Actor -> Task]
       /\ \A a \in Actor : /\ SameTask(task[a], task'[a]) /\ task'[a].pc # "parked"
                           /\ task'[a].id = task[a].id /\ task'[a].verb = task[a].verb
  BY <1>2, WakeFacts DEF SameTask
<1>12. \A s \in Target : edge'[s] = IF s = t THEN id ELSE edge[s]
  BY <1>2, <1>7
<1>13. ArbTypeOK'
  <2>1. edge' \in [Target -> EdgeId \cup {NoOrigin}]
    BY <1>2, <1>3, <1>7
  <2> QED BY <1>2, <1>9, <1>10, <1>11, <2>1 DEF ArbTypeOK
<1>14. TaskInv'
  BY <1>2, <1>11, SameTaskOK DEF TaskInv
<1>15. IdInv'
  <2>1. \A r, s \in Target : edge'[r] = edge'[s] /\ edge'[r] # NoOrigin => r = s
    BY <1>2, <1>4, <1>12 DEF IdInv
  <2>2. \A a \in Pump, s \in Target : edge'[s] = task'[a].id /\ edge'[s] # NoOrigin => s = a
    BY <1>2, <1>4, <1>11, <1>12, Sets DEF IdInv
  <2>3. \A c, d \in Client :
          task'[c].verb = "send" /\ task'[d].verb = "send" /\ task'[c].id = task'[d].id => c = d
    BY <1>2, <1>11, Sets DEF IdInv
  <2> QED BY <2>1, <2>2, <2>3 DEF IdInv
<1>16. ModeInv'
  <2> SUFFICES ASSUME NEW s \in Target, edge'[s] # NoOrigin PROVE m.mode[edge'[s]] = ModeOf[s]
    BY <1>9 DEF ModeInv
  <2>1. CASE s = t
    BY <1>2, <1>3, <1>6, <1>9, <1>12, <2>1 DEF LockState
  <2>2. CASE s # t
    <3>1. edge'[s] = edge[s] /\ edge[s] \in EdgeId /\ edge[s] # id
      BY <1>2, <1>4, <1>12, <2>2
    <3>2. edge[s] \in Origin /\ lock.mode[edge[s]] = ModeOf[s]
      BY <1>2, <3>1, Sets DEF ModeInv
    <3> QED BY <1>9, <3>1, <3>2 DEF Only
  <2> QED BY <2>1, <2>2
<1>17. ServedInv'
  <2> SUFFICES ASSUME NEW o \in Origin, Queued(m, o)
               PROVE  \E a \in Actor : /\ task'[a].pc \in {"parked", "woken"}
                                       /\ task'[a].verb # "reclaim" /\ task'[a].id = o
    BY <1>9 DEF ServedInv, Waiting
  <2>1. Queued(lock, o)
    BY <1>9 DEF Only
  <2> QED BY <1>2, <1>11, <2>1 DEF ServedInv, Waiting, SameTask
<1>18. NoPhantomOrigin'
  <2> SUFFICES ASSUME NEW o \in Origin, Registered(m, o)
               PROVE  \/ \E s \in Target : edge'[s] = o
                      \/ \E c \in Client : task'[c].verb = "send" /\ task'[c].id = o
    BY <1>9 DEF NoPhantomOrigin
  <2>1. CASE o = id
    BY <1>12, <2>1
  <2>2. CASE o # id
    <3>1. Registered(lock, o) /\ o # NoOrigin
      BY <1>9, <2>2, Sets DEF Only, Registered
    <3>2. CASE \E s \in Target : edge[s] = o
      BY <1>2, <1>12, <3>1, <3>2
    <3>3. CASE \E c \in Client : task[c].verb = "send" /\ task[c].id = o
      BY <1>11, <3>3, Sets
    <3> QED BY <1>2, <3>1, <3>2, <3>3 DEF NoPhantomOrigin
  <2> QED BY <2>1, <2>2
<1>19. SendKeepsItsPlace'
  <2> SUFFICES ASSUME NEW c \in Client, task'[c].verb = "send",
                      task'[c].pc \in {"parked", "woken"}
               PROVE  Queued(m, task'[c].id)
    BY <1>9 DEF SendKeepsItsPlace, Waiting
  <2>1. task[c].verb = "send" /\ task'[c].id = task[c].id /\ Waiting(c)
    BY <1>11, Sets DEF SameTask, Waiting
  <2>2. Queued(lock, task[c].id) /\ task[c].id \in SendId /\ task[c].id \in Origin
    BY <1>2, <2>1, SendsUnder, Sets DEF SendKeepsItsPlace
  <2> QED BY <1>3, <1>9, <2>1, <2>2 DEF Only
<1>20. NoLostWakeup'
  BY <1>11 DEF NoLostWakeup
<1> QED BY <1>8, <1>9, <1>10, <1>13, <1>14, <1>15, <1>16, <1>17, <1>18, <1>19, <1>20 DEF ArbInv

\* disconnect, or remove-node of the origin's node.
LEMMA DisconnectInv ==
    ASSUME ArbInv, NEW t \in Target, Disconnect(t)
    PROVE  ArbInv'
<1> DEFINE id == edge[t]
           m == Unregister(lock, id)
<1>1. /\ ArbTypeOK /\ TaskInv /\ IdInv /\ ModeInv /\ ServedInv /\ NoPhantomOrigin
      /\ SendKeepsItsPlace
      /\ edge \in [Target -> EdgeId \cup {NoOrigin}] /\ task \in [Actor -> Task]
      /\ ~closed /\ closed' = closed /\ task' = Wake(task) /\ edge[t] # NoOrigin
      /\ edge' = [edge EXCEPT ![t] = NoOrigin] /\ SetLock(m, {})
  BY DEF ArbInv, ArbTypeOK, Disconnect
<1>2. /\ id \in EdgeId /\ id \in Origin /\ id \notin SendId
      /\ \A s \in Target : edge[s] = id => s = t
  BY <1>1, EdgeFacts, Sets
<1>3. LockOK(m) /\ Only(lock, m, id) /\ Moves(lock, m) /\ ~Queued(m, id) /\ ~Registered(m, id)
  BY <1>2, ArbFacts, UnregisterFacts
<1> HIDE DEF m
<1>4. m \in LockState /\ lock' = m
  BY <1>1, <1>3 DEF LockOK, LockInv, SetLock
<1>5. LeaseInv' /\ leases' \subseteq Lease
  BY <1>1, <1>3, <1>4, ArbFacts, LeaseKept
<1>6. /\ task' \in [Actor -> Task]
      /\ \A a \in Actor : /\ SameTask(task[a], task'[a]) /\ task'[a].pc # "parked"
                          /\ task'[a].id = task[a].id /\ task'[a].verb = task[a].verb
  BY <1>1, WakeFacts DEF SameTask
<1>7. \A s \in Target : edge'[s] = IF s = t THEN NoOrigin ELSE edge[s]
  BY <1>1
<1> HIDE DEF id
<1>8. ArbTypeOK'
  <2>1. edge' \in [Target -> EdgeId \cup {NoOrigin}]
    BY <1>1
  <2> QED BY <1>1, <1>4, <1>5, <1>6, <2>1 DEF ArbTypeOK
<1>9. TaskInv'
  BY <1>1, <1>6, SameTaskOK DEF TaskInv
<1>10. IdInv'
  <2>1. \A r, s \in Target : edge'[r] = edge'[s] /\ edge'[r] # NoOrigin => r = s
    BY <1>1, <1>7 DEF IdInv
  <2>2. \A a \in Pump, s \in Target : edge'[s] = task'[a].id /\ edge'[s] # NoOrigin => s = a
    BY <1>1, <1>6, <1>7, Sets DEF IdInv
  <2>3. \A c, d \in Client :
          task'[c].verb = "send" /\ task'[d].verb = "send" /\ task'[c].id = task'[d].id => c = d
    BY <1>1, <1>6, Sets DEF IdInv
  <2> QED BY <2>1, <2>2, <2>3 DEF IdInv
<1>11. ModeInv'
  <2> SUFFICES ASSUME NEW s \in Target, edge'[s] # NoOrigin PROVE m.mode[edge'[s]] = ModeOf[s]
    BY <1>4 DEF ModeInv
  <2>1. edge'[s] = edge[s] /\ edge[s] \in EdgeId /\ edge[s] # id
    BY <1>1, <1>2, <1>7
  <2>2. edge[s] \in Origin /\ lock.mode[edge[s]] = ModeOf[s]
    BY <1>1, <2>1, Sets DEF ModeInv
  <2> QED BY <1>3, <2>1, <2>2 DEF Only
<1>12. ServedInv'
  <2> SUFFICES ASSUME NEW o \in Origin, Queued(m, o)
               PROVE  \E a \in Actor : /\ task'[a].pc \in {"parked", "woken"}
                                       /\ task'[a].verb # "reclaim" /\ task'[a].id = o
    BY <1>4 DEF ServedInv, Waiting
  <2>1. Queued(lock, o)
    BY <1>3 DEF Only
  <2> QED BY <1>1, <1>6, <2>1 DEF ServedInv, Waiting, SameTask
<1>13. NoPhantomOrigin'
  <2> SUFFICES ASSUME NEW o \in Origin, Registered(m, o)
               PROVE  \/ \E s \in Target : edge'[s] = o
                      \/ \E c \in Client : task'[c].verb = "send" /\ task'[c].id = o
    BY <1>4 DEF NoPhantomOrigin
  <2>1. Registered(lock, o) /\ o # id
    BY <1>3 DEF Only, Registered
  <2>2. CASE \E s \in Target : edge[s] = o
    BY <1>7, <2>1, <2>2 DEF id
  <2>3. CASE \E c \in Client : task[c].verb = "send" /\ task[c].id = o
    BY <1>6, <2>3, Sets
  <2> QED BY <1>1, <2>1, <2>2, <2>3 DEF NoPhantomOrigin
<1>14. SendKeepsItsPlace'
  <2> SUFFICES ASSUME NEW c \in Client, task'[c].verb = "send",
                      task'[c].pc \in {"parked", "woken"}
               PROVE  Queued(m, task'[c].id)
    BY <1>4 DEF SendKeepsItsPlace, Waiting
  <2>1. task[c].verb = "send" /\ task'[c].id = task[c].id /\ Waiting(c)
    BY <1>6, Sets DEF SameTask, Waiting
  <2>2. Queued(lock, task[c].id) /\ task[c].id \in SendId /\ task[c].id \in Origin
    BY <1>1, <2>1, SendsUnder, Sets DEF SendKeepsItsPlace
  <2> QED BY <1>2, <1>3, <2>1, <2>2 DEF Only
<1>15. NoLostWakeup'
  BY <1>6 DEF NoLostWakeup
<1> QED BY <1>3, <1>4, <1>5, <1>8, <1>9, <1>10, <1>11, <1>12, <1>13, <1>14, <1>15 DEF ArbInv

\* The endpoint goes: remove-node of its node, or teardown, which also ends the pumps.
LEMMA CloseInv ==
    ASSUME ArbInv, RemoveHost \/ Teardown
    PROVE  ArbInv'
<1>1. /\ ArbTypeOK /\ TaskInv /\ IdInv /\ SendKeepsItsPlace /\ LeaseInv /\ LockOK(lock)
      /\ edge \in [Target -> EdgeId \cup {NoOrigin}] /\ task \in [Actor -> Task]
  BY DEF ArbInv, ArbTypeOK
<1>2. closed' = TRUE /\ lock' = lock /\ leases' = leases
  BY DEF RemoveHost, Teardown
<1>3. edge' \in [Target -> EdgeId \cup {NoOrigin}] /\ \A s \in Target : edge'[s] = NoOrigin
  BY <1>1 DEF RemoveHost, Teardown
<1>4. /\ task' \in [Actor -> Task]
      /\ \A a \in Actor : SameTask(task[a], task'[a]) \/ (a \in Pump /\ task'[a] = Idle)
      /\ \A a \in Actor : task'[a].pc # "parked"
  <2> DEFINE W == Wake(task)
  <2>1. W \in [Actor -> Task] /\ \A a \in Actor : SameTask(task[a], W[a]) /\ W[a].pc # "parked"
    BY <1>1, WakeFacts
  <2>2. task' = W \/ task' = [a \in Actor |-> IF a \in Pump THEN Idle ELSE W[a]]
    BY DEF RemoveHost, Teardown
  <2> HIDE DEF W
  <2> QED BY <2>1, <2>2, IdleFacts
<1>5. ArbTypeOK'
  BY <1>1, <1>2, <1>3, <1>4 DEF ArbTypeOK
<1>6. TaskInv'
  BY <1>1, <1>4, SameTaskOK, IdleFacts DEF TaskInv
<1>7. \A c \in Client : SameTask(task[c], task'[c])
  BY <1>4, Sets
<1>8. IdInv'
  BY <1>1, <1>3, <1>7 DEF IdInv, SameTask
<1>9. SendKeepsItsPlace'
  BY <1>1, <1>2, <1>7 DEF SendKeepsItsPlace, SameTask, Waiting
<1>10. LeaseInv' /\ LockOK(lock')
  BY <1>1, <1>2 DEF LeaseInv
<1>11. ModeInv' /\ ServedInv' /\ NoPhantomOrigin' /\ NoLostWakeup'
  BY <1>2, <1>4 DEF ModeInv, ServedInv, NoPhantomOrigin, NoLostWakeup
<1> QED BY <1>5, <1>6, <1>8, <1>9, <1>10, <1>11 DEF ArbInv

-----------------------------------------------------------------------------
(* Theorems *)

\* The new cell satisfies the invariant.
LEMMA ArbInitInv == ArbInit => ArbInv
<1> SUFFICES ASSUME ArbInit PROVE ArbInv
  OBVIOUS
<1>1. /\ lock = NewLock /\ closed = FALSE /\ edge = [t \in Target |-> NoOrigin]
      /\ task = [a \in Actor |-> Idle] /\ leases = {}
  BY DEF ArbInit
<1>2. LockInv(lock)
  BY <1>1, NewLockInv
<1>3. /\ \A x \in Origin : ~Queued(lock, x) /\ ~Registered(lock, x)
  BY <1>1 DEF NewLock, Queued, Registered
<1>4. \A a \in Actor : task[a] = Idle
  BY <1>1
<1>5. ArbTypeOK
  BY <1>1, <1>2, IdleFacts DEF ArbTypeOK, LockInv
<1>6. TaskInv
  BY <1>4, IdleFacts DEF TaskInv
<1>7. \A t \in Target : edge[t] = NoOrigin
  BY <1>1
<1>8. \A c \in Client : task[c].verb = "none"
  BY <1>4, IdleFacts, Sets
<1>9. IdInv /\ ModeInv /\ SendKeepsItsPlace
  BY <1>7, <1>8 DEF IdInv, ModeInv, SendKeepsItsPlace
<1>10. LockOK(lock) /\ ServedInv /\ NoPhantomOrigin
  BY <1>2, <1>3 DEF LockOK, ServedInv, NoPhantomOrigin
<1>11. LeaseInv /\ NoLostWakeup
  BY <1>1, <1>4, IdleFacts DEF LeaseInv, NoLostWakeup
<1> QED BY <1>5, <1>6, <1>9, <1>10, <1>11 DEF ArbInv

\* Every step preserves it.
LEMMA ArbNextInv == ASSUME ArbInv, [ArbNext]_vars PROVE ArbInv'
<1>1. CASE UNCHANGED vars
  <2>1. /\ UNCHANGED lock /\ UNCHANGED closed /\ UNCHANGED edge /\ UNCHANGED task
        /\ UNCHANGED leases
    BY <1>1 DEF vars
  <2> QED BY <2>1 DEF ArbInv, ArbTypeOK, TaskInv, IdInv, ModeInv, ServedInv, LeaseInv,
                  NoPhantomOrigin, SendKeepsItsPlace, NoLostWakeup, Waiting
<1>2. CASE \E t \in Target, b \in BOOLEAN : LockNow(t, b) \/ LockSteal(t, b)
  BY <1>2, LockNowInv, LockStealInv
<1>3. CASE \E c \in Client, t \in Target, b \in BOOLEAN : LockWait(c, t, b)
  BY <1>3, LockWaitInv
<1>4. CASE \E t \in Target : \/ Unlock(t) \/ Chunk(t) \/ LegYield(t) \/ GatePoll(t)
                             \/ LastClose(t) \/ Connect(t) \/ Disconnect(t)
  BY <1>4, UnlockInv, ChunkInv, LegYieldInv, GatePollInv, LastCloseInv, ConnectInv,
     DisconnectInv
<1>5. CASE \E c \in Client : Abandon(c) \/ Send(c) \/ SendSteal(c) \/ Delivered(c)
  BY <1>5, AbandonInv, SendInv, SendStealInv, DeliveredInv
<1>6. CASE \E a \in Actor : Resume(a)
  BY <1>6, ResumeInv
<1>7. CASE \E z \in leases : LeaseFires(z)
  BY <1>7, LeaseFiresInv
<1>8. CASE RemoveHost \/ Teardown
  BY <1>8, CloseInv
<1> QED BY <1>1, <1>2, <1>3, <1>4, <1>5, <1>6, <1>7, <1>8 DEF ArbNext

\* The invariant holds in every reachable state of the arbitration, for any number of
\* clients, targets, ids and timers.
THEOREM ArbInvariance == ArbSpec => []ArbInv
BY ArbInitInv, ArbNextInv, PTL DEF ArbSpec

\* The cell is sound: no phantom origin, and a send's place in the queue is its own,
\* through every order of verbs, cancellations, leases, edge surgery and close.
THEOREM ArbAlwaysSound == ArbSpec => []ArbSound
<1>1. ArbInv => ArbSound
  BY DEF ArbInv, ArbSound
<1> QED BY <1>1, ArbInvariance, PTL

\* No wake-up is lost: a task nobody has woken since its last attempt would still be
\* refused, and never sleeps on a closed endpoint.
THEOREM WakeupNeverLost == ArbSpec => []NoLostWakeup
<1>1. ArbInv => NoLostWakeup
  BY DEF ArbInv
<1> QED BY <1>1, ArbInvariance, PTL

\* No ghost in the queue: whoever is queued has a task that will come and take the lock.
THEOREM QueueAlwaysServed == ArbSpec => []QueueIsServed
<1>1. ArbInv => QueueIsServed
  BY DEF ArbInv, ServedInv, QueueIsServed
<1> QED BY <1>1, ArbInvariance, PTL

\* A lease timer ends only the grant it was armed for.
THEOREM LeaseEndsOwnGrant == ArbSpec => LeaseReleasesOwnGrant
<1> DEFINE Own == \A z \in leases : LeaseFires(z) /\ lock.holder # lock'.holder => ~z.stale
<1>1. ASSUME ArbInv, NEW z \in leases, LeaseFires(z), lock.holder # lock'.holder
      PROVE  ~z.stale
  <2>1. lock.holder = z.id /\ lock.generation = z.generation
    BY <1>1 DEF LeaseFires
  <2> QED BY <1>1, <2>1 DEF ArbInv, LeaseInv
<1>2. ArbInv => [Own]_vars
  BY <1>1
<1> QED BY <1>2, ArbInvariance, PTL DEF LeaseReleasesOwnGrant

-----------------------------------------------------------------------------
(* First come, first served *)

\* The lock passes in turn: to a held origin or to the head of the queue.
InTurn(l, m) ==
    m.holder \notin {l.holder, NoOrigin} =>
        \/ m.mode[m.holder] = "held"
        \/ l.waiters = <<>>
        \/ Head(l.waiters) = m.holder

\* The fields a grant sets.
LEMMA GrantInTurn ==
    ASSUME NEW l \in LockState, NEW id \in Origin,
           \/ l.mode[id] = "held" \/ l.waiters = <<>> \/ Head(l.waiters) = id
    PROVE  QueueStep(l, GrantTo(l, id)) /\ InTurn(l, GrantTo(l, id))
<1> DEFINE m == GrantTo(l, id)
<1>1. m.waiters = Without(l.waiters, id) /\ m.holder = id /\ m.mode = l.mode
  BY DEF GrantTo, LockState
<1> HIDE DEF m
<1> QED BY <1>1 DEF QueueStep, InTurn, m

\* Every operation but a steal keeps the queue in order and passes the lock in turn.
LEMMA OperationInTurn ==
    ASSUME NEW l \in LockState, NEW id \in Origin, NEW m,
           \/ m = l \/ m = Acquire(l, id) \/ m = ReclaimHeld(l, id)
           \/ m = Enqueue(l, id) \/ m = Dequeue(l, id) \/ m = Unregister(l, id)
           \/ m = Release(l, id) \/ m = Renew(l, id)
           \/ \E n \in Nat : m = RecordPurge(l, id, n)
    PROVE  QueueStep(l, m) /\ InTurn(l, m)
<1>1. CASE m = l
  BY <1>1 DEF QueueStep, InTurn
<1>2. CASE m = Acquire(l, id) \/ m = ReclaimHeld(l, id)
  BY <1>1, <1>2, GrantInTurn DEF Acquire, ReclaimHeld, Grants
<1>3. CASE m = Enqueue(l, id)
  <2>1. /\ m.waiters = l.waiters \/ (~Queued(l, id) /\ m.waiters = Append(l.waiters, id))
        /\ m.holder = l.holder
    BY <1>3 DEF Enqueue, LockState
  <2> QED BY <2>1 DEF QueueStep, InTurn
<1>4. CASE m = Dequeue(l, id) \/ m = Unregister(l, id)
  <2>1. m.waiters = Without(l.waiters, id) /\ m.holder \in {l.holder, NoOrigin}
    BY <1>4 DEF Dequeue, Unregister, LockState
  <2> QED BY <2>1 DEF QueueStep, InTurn
<1>5. CASE m = Release(l, id) \/ m = Renew(l, id) \/ \E n \in Nat : m = RecordPurge(l, id, n)
  <2>1. m.waiters = l.waiters /\ m.holder \in {l.holder, NoOrigin}
    BY <1>5 DEF Release, Renew, RecordPurge, LockState
  <2> QED BY <2>1 DEF QueueStep, InTurn
<1> QED BY <1>1, <1>2, <1>3, <1>4, <1>5

\* A purge or a registration next to an operation changes neither its queue nor who
\* it grants to.
LEMMA AsideInTurn ==
    ASSUME NEW l, NEW m, NEW k, NEW n, QueueStep(l, m), InTurn(l, m),
           k.waiters = l.waiters, k.holder = l.holder,
           n.waiters = m.waiters, n.holder = m.holder, n.mode = m.mode
    PROVE  QueueStep(k, n) /\ InTurn(k, n)
<1>1. \A x : Queued(k, x) <=> Queued(l, x)
  BY DEF Queued
<1> QED BY <1>1 DEF QueueStep, InTurn

\* A client that waits before and after a step waits in the same verb.
SameWaits ==
    \A c \in Client :
        Waiting(c) /\ Waiting(c)' => task'[c].verb = task[c].verb /\ task'[c].id = task[c].id

\* A wake changes neither what a client waits for nor under whose identity.
LEMMA WakeSameWaits ==
    ASSUME ArbInv, NEW cond, task' = WakeIf(cond, task)
    PROVE  SameWaits
<1>1. task \in [Actor -> Task]
  BY DEF ArbInv, ArbTypeOK
<1>2. \A a \in Actor : SameTask(task[a], task'[a])
  BY <1>1, WakeIfFacts
<1> QED BY <1>2, Sets DEF SameTask, SameWaits

\* Nor does the end of one task, with or without a wake.
LEMMA EndSameWaits ==
    ASSUME ArbInv, NEW b \in Actor, NEW cond, NEW u \in Task, u.pc \notin {"parked", "woken"},
           task' = WakeIf(cond, [task EXCEPT ![b] = u])
    PROVE  SameWaits
<1> DEFINE T == [task EXCEPT ![b] = u]
<1>1. task \in [Actor -> Task] /\ T \in [Actor -> Task]
  BY DEF ArbInv, ArbTypeOK
<1>2. T[b] = u /\ \A a \in Actor : a # b => T[a] = task[a]
  BY <1>1
<1> HIDE DEF T
<1>3. \A a \in Actor : SameTask(T[a], task'[a])
  BY <1>1, WakeIfFacts DEF T
<1> SUFFICES ASSUME NEW c \in Client, Waiting(c)'
             PROVE  task'[c].verb = task[c].verb /\ task'[c].id = task[c].id
  BY DEF SameWaits
<1>4. c \in Actor /\ SameTask(T[c], task'[c])
  BY <1>3, Sets
<1>5. c # b
  BY <1>2, <1>4 DEF SameTask, Waiting
<1> QED BY <1>2, <1>4, <1>5 DEF SameTask

\* The end of the lock verb.
LEMMA LockSettledInTurn ==
    ASSUME NEW l, LockOK(l), NEW id \in Origin, NEW lease, NEW n \in 0 .. PurgeMax,
           LockSettled(l, id, lease, n)
    PROVE  QueueStep(l, lock') /\ InTurn(l, lock')
<1> DEFINE k == IF Exclusive THEN n ELSE 0
           taken == Acquire(l, id)
<1>1. l \in LockState /\ k \in Nat
  BY PurgeMaxAssumption DEF LockOK, LockInv
<1>2. lock' = RecordPurge(taken, id, k) \/ lock' = Renew(l, id) \/ lock' = l
  BY DEF LockSettled, SetLock
<1>3. LockOK(taken)
  BY AcquireInv, AcquireFacts DEF LockOK
<1>4. QueueStep(l, taken) /\ InTurn(l, taken)
  BY <1>1, OperationInTurn
<1> HIDE DEF k, taken
<1>5. CASE lock' = RecordPurge(taken, id, k)
  <2>1. Kept(taken, lock')
    BY <1>1, <1>3, <1>5, PurgeFacts
  <2> QED BY <1>4, <2>1, AsideInTurn DEF Kept
<1>6. CASE lock' = Renew(l, id) \/ lock' = l
  BY <1>1, <1>6, OperationInTurn
<1> QED BY <1>2, <1>5, <1>6

\* One turn of await_grant, from the present queue and holder.
LEMMA TryInTurn ==
    ASSUME ArbInv, NEW b \in Actor, NEW verb, NEW id \in Origin, NEW lease, NEW l, LockOK(l),
           l.waiters = lock.waiters, l.holder = lock.holder,
           Waiting(b) => task[b].verb = verb /\ task[b].id = id,
           Try(b, verb, id, lease, l)
    PROVE  QueueStep(lock, lock') /\ InTurn(lock, lock') /\ SameWaits
<1> DEFINE u == [verb |-> verb, pc |-> "parked", id |-> id, lease |-> lease]
<1>1. l \in LockState /\ task \in [Actor -> Task]
  BY DEF LockOK, LockInv, ArbInv, ArbTypeOK
<1>2. QueueStep(lock, lock') /\ InTurn(lock, lock')
  <2>1. CASE \E n \in 0 .. PurgeMax : LockSettled(l, id, lease, n)
    <3>1. PICK n \in 0 .. PurgeMax : LockSettled(l, id, lease, n)
      BY <2>1
    <3>2. QueueStep(l, lock') /\ InTurn(l, lock')
      BY <3>1, LockSettledInTurn
    <3> QED BY <3>2, AsideInTurn
  <2>2. CASE SetLock(Attempt(l, verb, id), {})
    <3>1. \/ lock' = l \/ lock' = ReclaimHeld(l, id) \/ lock' = Enqueue(l, id)
          \/ lock' = Acquire(l, id)
      BY <2>2 DEF SetLock, Attempt
    <3>2. QueueStep(l, lock') /\ InTurn(l, lock')
      BY <1>1, <3>1, OperationInTurn
    <3> QED BY <3>2, AsideInTurn
  <2> QED BY <2>1, <2>2 DEF Try
<1>3. SameWaits
  <2>1. CASE task' = [task EXCEPT ![b] = Settled(l, verb, id)]
    <3>1. task' = WakeIf(FALSE, [task EXCEPT ![b] = Settled(l, verb, id)])
      BY <2>1, NoWake
    <3> QED BY <3>1, SettledFacts, EndSameWaits
  <2>2. CASE task' = [task EXCEPT ![b] = u]
    <3>1. u.verb = verb /\ u.id = id
      OBVIOUS
    <3> HIDE DEF u
    <3>2. task'[b] = u /\ \A a \in Actor : a # b => task'[a] = task[a]
      BY <1>1, <2>2
    <3> QED BY <3>1, <3>2, Sets DEF SameWaits
  <2> QED BY <2>1, <2>2 DEF Try
<1> QED BY <1>2, <1>3

\* What the history rests on, of one step of the arbitration.
OrderStep ==
    QueueStep(lock, lock') /\ (StealStep \/ InTurn(lock, lock')) /\ SameWaits

\* The verbs and gates whose step is one operation on the lock.
LEMMA VerbsInTurn ==
    ASSUME ArbInv, NEW t \in Target, NEW b \in BOOLEAN,
           LockNow(t, b) \/ Unlock(t) \/ LegYield(t) \/ GatePoll(t) \/ LastClose(t)
    PROVE  OrderStep
<1>1. lock \in LockState /\ LockOK(lock)
  BY DEF ArbInv, ArbTypeOK
<1>2. Addressable(t) => edge[t] \in Origin
  BY IdAssumption DEF ArbInv, ArbTypeOK, Addressable
<1>3. CASE LockNow(t, b)
  <2>1. edge[t] \in Origin
    BY <1>2, <1>3 DEF LockNow
  <2>2. PICK n \in 0 .. PurgeMax : LockSettled(lock, edge[t], b, n)
    BY <1>3 DEF LockNow
  <2>3. QueueStep(lock, lock') /\ InTurn(lock, lock')
    BY <1>1, <2>1, <2>2, LockSettledInTurn
  <2>4. task' = WakeIf(FALSE, task)
    BY <1>3, NoWake DEF LockNow
  <2> QED BY <2>3, <2>4, WakeSameWaits DEF OrderStep
<1>4. CASE Unlock(t)
  <2>1. lock' = Release(lock, edge[t]) /\ edge[t] \in Origin /\ task' = WakeIf(TRUE, task)
    BY <1>2, <1>4, NoWake DEF Unlock, SetLock
  <2> QED BY <1>1, <2>1, OperationInTurn, WakeSameWaits DEF OrderStep
<1>5. CASE LegYield(t)
  <2>1. t \in Actor /\ TaskOK(t, task[t]) /\ task[t].pc = "holding"
    BY <1>5, Sets DEF LegYield, ArbInv, TaskInv
  <2>2. task[t].id \in Origin
    BY <2>1, IdleFacts, Sets DEF TaskOK
  <2>3. /\ lock' = Release(lock, task[t].id)
        /\ task' = WakeIf(lock.holder = task[t].id, [task EXCEPT ![t] = Idle])
    BY <1>5 DEF LegYield, SetLock
  <2> QED BY <1>1, <2>1, <2>2, <2>3, IdleFacts, OperationInTurn, EndSameWaits DEF OrderStep
<1>6. CASE GatePoll(t)
  <2>1. lock' = lock \/ lock' = ReclaimHeld(lock, edge[t])
    BY <1>6 DEF GatePoll, SetLock
  <2>2. edge[t] \in Origin /\ task' = WakeIf(FALSE, task)
    BY <1>2, <1>6, NoWake DEF GatePoll
  <2> QED BY <1>1, <2>1, <2>2, OperationInTurn, WakeSameWaits DEF OrderStep
<1>7. CASE LastClose(t)
  <2> DEFINE released == lock.holder = edge[t] /\ ModeOf[t] # "held"
  <2>1. \E n \in 0 .. PurgeMax :
          lock' = Release(lock, edge[t]) \/ lock' = RecordPurge(lock, edge[t], n) \/ lock' = lock
    BY <1>7 DEF LastClose, SetLock
  <2>2. \A n \in 0 .. PurgeMax : n \in Nat
    BY PurgeMaxAssumption
  <2>3. edge[t] \in Origin /\ task' = WakeIf(released, task)
    BY <1>2, <1>7 DEF LastClose
  <2> HIDE DEF released
  <2>4. QueueStep(lock, lock') /\ InTurn(lock, lock')
    BY <1>1, <2>1, <2>2, <2>3, OperationInTurn
  <2> QED BY <2>3, <2>4, WakeSameWaits DEF OrderStep
<1> QED BY <1>3, <1>4, <1>5, <1>6, <1>7

\* A lease timer: a release, or nothing.
LEMMA LeaseInTurn ==
    ASSUME ArbInv, NEW z \in leases, LeaseFires(z)
    PROVE  OrderStep
<1> DEFINE fired == ~closed /\ lock.holder = z.id /\ lock.generation = z.generation
<1>1. lock \in LockState /\ leases \subseteq Lease
  BY DEF ArbInv, ArbTypeOK
<1>2. (lock' = Release(lock, z.id) \/ lock' = lock) /\ task' = WakeIf(fired, task)
  BY DEF LeaseFires
<1>3. z.id \in Origin
  BY <1>1 DEF Lease
<1> HIDE DEF fired
<1> QED BY <1>1, <1>2, <1>3, OperationInTurn, WakeSameWaits DEF OrderStep

\* The attempts: lock --wait, send, a chunk, a woken task.
LEMMA AttemptsInTurn ==
    ASSUME ArbInv,
           \/ \E c \in Client, t \in Target, b \in BOOLEAN : LockWait(c, t, b)
           \/ \E c \in Client : Send(c)
           \/ \E t \in Target : Chunk(t)
           \/ \E a \in Actor : Resume(a)
    PROVE  OrderStep
<1>1. lock \in LockState /\ LockOK(lock)
  BY DEF ArbInv, ArbTypeOK
<1>2. ASSUME NEW c \in Client, NEW t \in Target, NEW b \in BOOLEAN, LockWait(c, t, b)
      PROVE  OrderStep
  <2>1. c \in Actor /\ edge[t] \in Origin /\ ~Waiting(c) /\ Try(c, "lock", edge[t], b, lock)
    BY <1>2, IdAssumption, Sets DEF LockWait, Addressable, Waiting, ArbInv, ArbTypeOK
  <2> QED BY <1>1, <2>1, TryInTurn DEF OrderStep
<1>3. ASSUME NEW c \in Client, Send(c)
      PROVE  OrderStep
  <2>1. PICK id \in SendId \ Referenced :
          Try(c, "send", id, FALSE, Register(lock, id, "on-demand"))
    BY <1>3 DEF Send
  <2> DEFINE l == Register(lock, id, "on-demand")
  <2>2. c \in Actor /\ id \in Origin /\ ~Waiting(c) /\ task[c].pc = "idle"
    BY <1>3, Sets DEF Send, Waiting
  <2>3. LockOK(l) /\ l.holder = lock.holder
    BY <2>2, JoinFacts DEF From
  <2>4. l.waiters = lock.waiters
    BY <1>1, <2>2 DEF Register, LockState
  <2> HIDE DEF l
  <2> QED BY <2>1, <2>2, <2>3, <2>4, TryInTurn DEF OrderStep, l
<1>4. ASSUME NEW t \in Target, Chunk(t)
      PROVE  OrderStep
  <2> DEFINE verb == IF KindOf[t] = "leg" THEN "leg" ELSE "reclaim"
  <2>1. t \in Actor /\ edge[t] \in Origin /\ ~Waiting(t) /\ Try(t, verb, edge[t], FALSE, lock)
    BY <1>4, IdAssumption, Sets DEF Chunk, Waiting, ArbInv, ArbTypeOK
  <2> HIDE DEF verb
  <2> QED BY <1>1, <2>1, TryInTurn DEF OrderStep
<1>5. ASSUME NEW a \in Actor, Resume(a)
      PROVE  OrderStep
  <2>1. TaskOK(a, task[a]) /\ task[a].pc = "woken"
    BY <1>5 DEF ArbInv, TaskInv, Resume
  <2>2. task[a].id \in Origin
    BY <2>1, IdleFacts, Sets DEF TaskOK
  <2>3. CASE closed
    <3>1. \/ lock' = Dequeue(lock, task[a].id) \/ lock' = Unregister(lock, task[a].id)
          \/ lock' = lock
      BY <1>5, <2>3 DEF Resume, SetLock
    <3>2. \E w : task' = WakeIf(w, [task EXCEPT ![a] = Idle])
      BY <1>5, <2>3 DEF Resume
    <3>3. SameWaits
      BY <3>2, IdleFacts, EndSameWaits
    <3> QED BY <1>1, <2>2, <3>1, <3>3, OperationInTurn DEF OrderStep
  <2>4. CASE ~closed
    <3>1. Try(a, task[a].verb, task[a].id, task[a].lease, lock)
      BY <1>5, <2>4 DEF Resume
    <3> QED BY <1>1, <2>2, <3>1, TryInTurn DEF OrderStep
  <2> QED BY <2>3, <2>4
<1> QED BY <1>2, <1>3, <1>4, <1>5

\* The steals: out of turn, but without touching the order of the queue.
LEMMA StealsInOrder ==
    ASSUME ArbInv,
           \/ \E t \in Target, b \in BOOLEAN : LockSteal(t, b)
           \/ \E c \in Client : SendSteal(c)
    PROVE  OrderStep
<1>1. lock \in LockState /\ LockOK(lock) /\ StealStep
  BY DEF ArbInv, ArbTypeOK, StealStep
<1>2. ASSUME NEW l \in LockState, NEW id \in Origin, LockOK(l)
      PROVE  QueueStep(l, Steal(l, id)) /\ LockOK(Steal(l, id))
  <2> DEFINE m == Steal(l, id)
             g == GrantTo(l, id)
  <2>1. m.waiters = g.waiters \/ m = l
    <3> DEFINE r == IF Free(l) THEN l.stolen ELSE <<l.holder, id>>
    <3>1. CASE Steals(l, id)
      <4>1. m = [g EXCEPT !.stolen = r] /\ LockInv(g)
        BY <1>2, <3>1, GrantToInv DEF Steal, Steals, LockOK
      <4> HIDE DEF g, r, m
      <4> QED BY <4>1 DEF LockInv, LockState
    <3> QED BY <3>1 DEF Steal
  <2>2. g.waiters = Without(l.waiters, id)
    BY <1>2 DEF GrantTo, LockState
  <2> HIDE DEF m, g
  <2>3. QueueStep(l, m)
    BY <1>2, <2>1, <2>2 DEF QueueStep
  <2> QED BY <1>2, <2>3, StealFacts DEF m
<1>3. ASSUME NEW t \in Target, NEW b \in BOOLEAN, LockSteal(t, b)
      PROVE  OrderStep
  <2> DEFINE id == edge[t]
  <2>1. id \in Origin
    BY <1>3, IdAssumption DEF LockSteal, Addressable, ArbInv, ArbTypeOK
  <2>2. CASE /\ \E n \in 0 .. PurgeMax :
                    lock' = RecordPurge(Steal(lock, id), id, IF Exclusive THEN n ELSE 0)
             /\ task' = Wake(task)
    <3>1. PICK n \in 0 .. PurgeMax :
            lock' = RecordPurge(Steal(lock, id), id, IF Exclusive THEN n ELSE 0)
      BY <2>2
    <3> DEFINE k == IF Exclusive THEN n ELSE 0
               m == Steal(lock, id)
    <3>2. k \in Nat
      BY PurgeMaxAssumption
    <3>3. QueueStep(lock, m) /\ LockOK(m)
      BY <1>1, <1>2, <2>1
    <3> HIDE DEF k, m
    <3>4. lock'.waiters = m.waiters
      BY <2>1, <3>1, <3>2, <3>3, PurgeFacts DEF Kept, k, m
    <3>5. QueueStep(lock, lock')
      BY <3>3, <3>4 DEF QueueStep
    <3>6. SameWaits
      BY <2>2, NoWake, WakeSameWaits
    <3> QED BY <1>1, <3>5, <3>6 DEF OrderStep
  <2>3. CASE (lock' = Renew(lock, id) \/ lock' = lock) /\ UNCHANGED task
    <3>1. QueueStep(lock, lock')
      BY <1>1, <2>1, <2>3, OperationInTurn
    <3>2. SameWaits
      BY <2>3 DEF SameWaits
    <3> QED BY <1>1, <3>1, <3>2 DEF OrderStep
  <2> QED BY <1>3, <2>2, <2>3 DEF LockSteal, SetLock
<1>4. ASSUME NEW c \in Client, SendSteal(c)
      PROVE  OrderStep
  <2>1. PICK id \in SendId \ Referenced :
          /\ lock' = Steal(Register(lock, id, "on-demand"), id)
          /\ task' = Wake([task EXCEPT ![c] = [Idle EXCEPT !.verb = "send",
                                                !.pc = "sending", !.id = id]])
    BY <1>4, Zenon DEF SendSteal, SetLock
  <2> DEFINE l == Register(lock, id, "on-demand")
             u == [Idle EXCEPT !.verb = "send", !.pc = "sending", !.id = id]
  <2>2. c \in Actor /\ id \in Origin /\ task[c].pc = "idle"
    BY <1>4, Sets, Zenon DEF SendSteal
  <2>3. LockOK(l) /\ l.holder = lock.holder
    BY <2>2, JoinFacts DEF From
  <2>4. l.waiters = lock.waiters
    BY <1>1, <2>2 DEF Register, LockState
  <2>5. u \in Task /\ u.pc \notin {"parked", "woken"}
    BY <2>2, IdleFacts DEF Task
  <2>6. task' = WakeIf(TRUE, [task EXCEPT ![c] = u])
    BY <2>1, NoWake
  <2> HIDE DEF l, u
  <2>7. SameWaits
    BY <2>2, <2>5, <2>6, EndSameWaits
  <2>8. QueueStep(l, lock')
    BY <1>2, <2>1, <2>2, <2>3 DEF LockOK, LockInv, l
  <2>9. \A x : Queued(l, x) <=> Queued(lock, x)
    BY <2>4 DEF Queued
  <2>10. QueueStep(lock, lock')
    BY <2>4, <2>8, <2>9 DEF QueueStep
  <2> QED BY <1>1, <2>7, <2>10 DEF OrderStep
<1> QED BY <1>3, <1>4

\* Who leaves and who joins, and the close.
LEMMA SurgeryInTurn ==
    ASSUME ArbInv,
           \/ \E c \in Client : Abandon(c) \/ Delivered(c)
           \/ \E t \in Target : Connect(t) \/ Disconnect(t)
           \/ RemoveHost \/ Teardown
    PROVE  OrderStep
<1>1. lock \in LockState /\ LockOK(lock)
  BY DEF ArbInv, ArbTypeOK
<1>2. ASSUME NEW c \in Client, Abandon(c) \/ Delivered(c)
      PROVE  OrderStep
  <2>1. c \in Actor /\ TaskOK(c, task[c]) /\ task[c].pc # "idle"
    BY <1>2, Sets DEF ArbInv, TaskInv, Abandon, Delivered
  <2>2. task[c].id \in Origin
    BY <2>1, IdleFacts, Sets DEF TaskOK
  <2>3. lock' = Dequeue(lock, task[c].id) \/ lock' = Unregister(lock, task[c].id)
    BY <1>2 DEF Abandon, Delivered, SetLock
  <2>4. \E w : task' = WakeIf(w, [task EXCEPT ![c] = Idle])
    <3>1. CASE Abandon(c)
      BY <3>1 DEF Abandon
    <3>2. CASE Delivered(c)
      <4>1. task' = WakeIf(TRUE, [task EXCEPT ![c] = Idle])
        BY <3>2, NoWake DEF Delivered
      <4> QED BY <4>1
    <3> QED BY <1>2, <3>1, <3>2
  <2>5. SameWaits
    BY <2>1, <2>4, IdleFacts, EndSameWaits
  <2> QED BY <1>1, <2>2, <2>3, <2>5, OperationInTurn DEF OrderStep
<1>3. ASSUME NEW t \in Target, Connect(t)
      PROVE  OrderStep
  <2>1. PICK id \in EdgeId \ Referenced, n \in 0 .. PurgeMax :
          LET l == Register(lock, id, ModeOf[t])
          IN  lock' = IF l.holder = id THEN RecordPurge(l, id, n) ELSE l
    BY <1>3 DEF Connect, SetLock
  <2> DEFINE l == Register(lock, id, ModeOf[t])
  <2>2. id \in Origin /\ n \in Nat /\ ModeOf[t] \in WriteMode /\ ~Registered(lock, id)
    BY IdAssumption, TargetAssumption, PurgeMaxAssumption DEF Referenced
  <2>3. LockOK(l) /\ l.mode = [lock.mode EXCEPT ![id] = ModeOf[t]]
        /\ (ModeOf[t] # "held" => l.holder = lock.holder)
    BY <1>1, <2>2, RegisterFacts
  <2>4. l.waiters = lock.waiters /\ (l.holder = lock.holder \/ l.holder = id)
    BY <1>1, <2>2 DEF Register, LockState
  <2> HIDE DEF l
  <2>5. lock'.waiters = l.waiters /\ lock'.holder = l.holder /\ lock'.mode = l.mode
    <3>1. CASE lock' = l
      BY <3>1
    <3>2. CASE lock' = RecordPurge(l, id, n)
      BY <2>2, <2>3, <3>2, PurgeFacts DEF Kept
    <3> QED BY <2>1, <3>1, <3>2 DEF l
  <2>6. QueueStep(lock, lock')
    BY <2>2, <2>4, <2>5 DEF QueueStep
  <2>7. l.mode[id] = ModeOf[t]
    BY <1>1, <2>2, <2>3 DEF LockState
  <2>8. InTurn(lock, lock')
    BY <2>3, <2>4, <2>5, <2>7 DEF InTurn
  <2>9. SameWaits
    BY <1>3, NoWake, WakeSameWaits DEF Connect
  <2> QED BY <2>6, <2>8, <2>9 DEF OrderStep
<1>4. ASSUME NEW t \in Target, Disconnect(t)
      PROVE  OrderStep
  <2>1. lock' = Unregister(lock, edge[t]) /\ task' = WakeIf(TRUE, task)
    BY <1>4, NoWake DEF Disconnect, SetLock
  <2>2. edge[t] \in Origin
    BY <1>4, EdgeFacts DEF Disconnect
  <2> QED BY <1>1, <2>1, <2>2, OperationInTurn, WakeSameWaits DEF OrderStep
<1>5. ASSUME RemoveHost \/ Teardown
      PROVE  OrderStep
  <2>1. lock' = lock
    BY <1>5 DEF RemoveHost, Teardown
  <2>2. QueueStep(lock, lock') /\ InTurn(lock, lock')
    <3>1. lock'.holder \in {lock.holder, NoOrigin} /\ lock'.waiters = lock.waiters
      BY <2>1
    <3> QED BY <3>1 DEF InTurn, QueueStep
  <2>3. \A c \in Client : task'[c] = Wake(task)[c]
    BY <1>5, Sets DEF RemoveHost, Teardown
  <2>4. \A c \in Client : SameTask(task[c], task'[c])
    BY <2>3, WakeFacts, Sets DEF ArbInv, ArbTypeOK
  <2> QED BY <2>2, <2>4 DEF OrderStep, SameWaits, SameTask
<1> QED BY <1>2, <1>3, <1>4, <1>5

\* Every step of the arbitration.
LEMMA ArbNextInTurn == ASSUME ArbInv, [ArbNext]_vars PROVE OrderStep
<1>1. CASE UNCHANGED vars
  <2>1. UNCHANGED lock /\ UNCHANGED task
    BY <1>1 DEF vars
  <2> QED BY <2>1 DEF OrderStep, QueueStep, InTurn, SameWaits
<1>2. CASE \E t \in Target, b \in BOOLEAN : LockNow(t, b) \/ LockSteal(t, b)
  BY <1>2, VerbsInTurn, StealsInOrder
<1>3. CASE \E c \in Client, t \in Target, b \in BOOLEAN : LockWait(c, t, b)
  BY <1>3, AttemptsInTurn
<1>4. CASE \E t \in Target : \/ Unlock(t) \/ Chunk(t) \/ LegYield(t) \/ GatePoll(t)
                             \/ LastClose(t) \/ Connect(t) \/ Disconnect(t)
  <2>1. TRUE \in BOOLEAN
    OBVIOUS
  <2> QED BY <1>4, <2>1, VerbsInTurn, AttemptsInTurn, SurgeryInTurn
<1>5. CASE \E c \in Client : Abandon(c) \/ Send(c) \/ SendSteal(c) \/ Delivered(c)
  BY <1>5, AttemptsInTurn, StealsInOrder, SurgeryInTurn
<1>6. CASE \E a \in Actor : Resume(a)
  BY <1>6, AttemptsInTurn
<1>7. CASE \E z \in leases : LeaseFires(z)
  BY <1>7, LeaseInTurn
<1>8. CASE RemoveHost \/ Teardown
  BY <1>8, SurgeryInTurn
<1> QED BY <1>1, <1>2, <1>3, <1>4, <1>5, <1>6, <1>7, <1>8 DEF ArbNext

\* Whoever stands before a waiting send in the queue has been there since the send
\* queued: the history loses only those who left.
AheadInv ==
    \A c \in Client :
        task[c].verb = "send" /\ Waiting(c) =>
            \A x \in Origin : Before(lock.waiters, x, task[c].id) => x \in ahead[c]

OrderInv == ArbInv /\ AheadInv

\* A queue has no two places for one origin.
LEMMA BeforeFacts ==
    ASSUME NEW l, LockOK(l), NEW a, NEW b, Before(l.waiters, a, b)
    PROVE  a # b /\ Queued(l, a)
BY DEF LockOK, LockInv, QueueSoundIn, Before, Queued

\* A step keeps the history right.
LEMMA OrderNextInv == ASSUME OrderInv, [OrderNext]_<<vars, ahead>> PROVE OrderInv'
<1>1. ArbInv /\ AheadInv /\ [ArbNext]_vars
  BY DEF OrderInv, OrderNext
<1>2. ArbInv' /\ OrderStep
  BY <1>1, ArbNextInv, ArbNextInTurn
<1>3. LockOK(lock') /\ lock \in LockState
  BY <1>1, <1>2 DEF ArbInv, ArbTypeOK
<1>4. CASE UNCHANGED <<vars, ahead>>
  <2>1. UNCHANGED lock /\ UNCHANGED task /\ UNCHANGED ahead
    BY <1>4 DEF vars
  <2> QED BY <1>1, <1>2, <2>1 DEF OrderInv, AheadInv, Waiting
<1>5. CASE OrderNext
  <2> SUFFICES ASSUME NEW c \in Client, task'[c].verb = "send", Waiting(c)',
                      NEW x \in Origin, Before(lock'.waiters, x, task'[c].id)
               PROVE  x \in ahead'[c]
    BY <1>2 DEF OrderInv, AheadInv
  <2>1. ahead'[c] = AheadAfter(c)
    BY <1>5 DEF OrderNext
  <2>2. x # task'[c].id /\ Queued(lock', x)
    BY <1>3, BeforeFacts
  <2>3. CASE ~Waiting(c)
    BY <2>1, <2>2, <2>3 DEF AheadAfter
  <2>4. CASE Waiting(c)
    <3>1. task[c].verb = "send" /\ task[c].id = task'[c].id
      BY <1>2, <2>4 DEF OrderStep, SameWaits
    <3>2. Queued(lock, task[c].id)
      BY <1>1, <2>4, <3>1 DEF ArbInv, SendKeepsItsPlace
    <3>3. Before(lock.waiters, x, task[c].id)
      BY <1>2, <1>3, <3>1, <3>2, QueueStepOrder DEF OrderStep
    <3>4. x \in ahead[c]
      BY <1>1, <2>4, <3>1, <3>3 DEF AheadInv
    <3> QED BY <2>1, <2>2, <2>4, <3>4 DEF AheadAfter
  <2> QED BY <2>3, <2>4
<1> QED BY <1>4, <1>5

\* The history is right in every reachable state.
LEMMA OrderInvariance == OrderSpec => []OrderInv
<1>1. OrderInit => OrderInv
  <2>1. OrderInit => ArbInv
    BY ArbInitInv DEF OrderInit
  <2>2. OrderInit => AheadInv
    BY Sets DEF OrderInit, ArbInit, AheadInv, Waiting, Idle
  <2> QED BY <2>1, <2>2 DEF OrderInv
<1> QED BY <1>1, OrderNextInv, PTL DEF OrderSpec

\* First come, first served, for any number of clients, targets and ids: while a send
\* waits the lock passes in turn, to the head of a queue nobody is let into before
\* those who stand there, so to one who stood there before the send; a held origin or
\* a thief aside.
THEOREM NeverOvertaken == OrderSpec => NoOvertaking
<1> DEFINE Turn ==
      \A c \in Client :
          LET new == lock'.holder IN
          /\ task[c].verb = "send" /\ Waiting(c)
          /\ new \notin {lock.holder, NoOrigin, task[c].id}
          /\ lock'.mode[new] # "held"
          /\ ~StealStep
          => new \in ahead[c]
<1>1. ASSUME OrderInv, [ArbNext]_vars PROVE Turn
  <2> SUFFICES ASSUME NEW c \in Client, task[c].verb = "send", Waiting(c),
                      lock'.holder \notin {lock.holder, NoOrigin, task[c].id},
                      lock'.mode[lock'.holder] # "held", ~StealStep
               PROVE  lock'.holder \in ahead[c]
    OBVIOUS
  <2> DEFINE new == lock'.holder
             id == task[c].id
  <2>1. ArbInv /\ AheadInv /\ ArbInv' /\ OrderStep
    BY <1>1, ArbNextInv, ArbNextInTurn DEF OrderInv
  <2>2. new \in Origin /\ lock.waiters \in Seq(Origin)
    BY <2>1 DEF ArbInv, ArbTypeOK, LockState
  <2>3. Queued(lock, id)
    BY <2>1 DEF ArbInv, SendKeepsItsPlace
  <2>4. PICK j \in 1 .. Len(lock.waiters) : lock.waiters[j] = id
    BY <2>3 DEF Queued
  <2>5. lock.waiters # <<>>
    BY <2>2, <2>4
  <2>6. Head(lock.waiters) = new
    BY <2>1, <2>5 DEF OrderStep, InTurn
  <2>7. lock.waiters[1] = new /\ 1 \in 1 .. Len(lock.waiters) /\ j # 1 /\ 1 < j
    BY <2>2, <2>4, <2>5, <2>6
  <2>8. Before(lock.waiters, new, id)
    BY <2>4, <2>7 DEF Before
  <2> QED BY <2>1, <2>2, <2>8 DEF AheadInv
<1>2. OrderInv /\ [OrderNext]_<<vars, ahead>> => [Turn]_<<vars, ahead>>
  BY <1>1 DEF OrderNext
<1> QED BY <1>2, OrderInvariance, PTL DEF OrderSpec, NoOvertaking
=============================================================================
