----------------------------- MODULE WaitOrder -----------------------------
(***************************************************************************)
(* WriteArbitration with a history of who was there first: for every       *)
(* waiting send, the origins that were in the queue when it queued and     *)
(* have not left it since.  The history only watches; every step of        *)
(* WriteArbitration is a step here.                                        *)
(***************************************************************************)
EXTENDS WriteArbitration

VARIABLE ahead  \* history: ahead[c], the origins queued before c's verb ever since

OrderInit == ArbInit /\ ahead = [c \in Client |-> {}]

\* What the step makes of ahead[c]: set when c starts to wait, and only losing
\* origins from then on, so that one who leaves the queue and comes back is not
\* ahead of c any more.
AheadAfter(c) ==
    {o \in Origin :
        /\ Waiting(c)' /\ Queued(lock', o)
        /\ IF Waiting(c) THEN o \in ahead[c] ELSE o # task'[c].id}

OrderNext == ArbNext /\ ahead' = [c \in Client |-> AheadAfter(c)]

OrderSpec == OrderInit /\ [][OrderNext]_<<vars, ahead>>

OrderFairSpec == OrderSpec /\ ArbFairness

\* First come, first served: while a send waits, the lock passes to nobody but
\* the send itself, those who were queued when it queued and have stayed
\* queued, a held origin, or a thief: to no newcomer, to nobody who left the
\* queue and came back, in whatever order verbs, pumps, leases and cancelled
\* waiters run in between.
NoOvertaking ==
    [][\A c \in Client :
           LET new == lock'.holder IN
           /\ task[c].verb = "send" /\ Waiting(c)
           /\ new \notin {lock.holder, NoOrigin, task[c].id}
           /\ lock'.mode[new] # "held"
           /\ ~StealStep
           => new \in ahead[c]]_<<vars, ahead>>
=============================================================================
