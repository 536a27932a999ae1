---------------------------- MODULE NewSemaphore ----------------------------
(***************************************************************************)
(* new_semaphore_t and new_semaphore_acq_t                                 *)
(* (src/src/concurrency/new_semaphore.cc): the semaphore that the cache's  *)
(* throttler and the backfill_throttler_t use.  Acquirers are served in    *)
(* the order in which they came; one that wants more than there can ever   *)
(* be is served when it is alone; what an acquirer holds, or wants, and    *)
(* the capacity may change at any time.                                    *)
(*                                                                         *)
(* The first part is operators on a semaphore, a record, for other modules *)
(* to use; the second is a semaphore with all that may happen to it.       *)
(***************************************************************************)
EXTENDS Integers, Sequences, FiniteSets, SequencesExt, FiniteSetsExt

\* capacity_, waiters_, and of the acquirers that were let in (held) or wait,
\* count_; current_ is kept, as it is in the code
NewSem(capacity) == [capacity |-> capacity, current |-> 0, waiters |-> <<>>,
                     held |-> {}, count |-> <<>>]

\* pulse_waiters()
PulseWaiters(sem) ==
    FoldLeft(LAMBDA s, a :
                 IF s.waiters # <<>> /\ Head(s.waiters) = a
                    /\ (s.count[a] <= s.capacity - s.current \/ s.current = 0)
                 THEN [s EXCEPT !.current = @ + s.count[a], !.waiters = Tail(@),
                                !.held = @ \cup {a}]
                 ELSE s,
             sem, sem.waiters)

\* init(), add_acquirer()
SemAdd(sem, a, n) ==
    PulseWaiters([sem EXCEPT !.waiters = Append(@, a),
                             !.count = [b \in DOMAIN @ \cup {a} |-> IF b = a THEN n ELSE @[b]]])

\* reset(), remove_acquirer()
SemRemove(sem, a) ==
    PulseWaiters([sem EXCEPT !.current = IF a \in sem.held THEN @ - sem.count[a] ELSE @,
                             !.waiters = SelectSeq(@, LAMBDA b : b # a),
                             !.held = @ \ {a},
                             !.count = [b \in DOMAIN @ \ {a} |-> @[b]]])

SemChangeCount(sem, a, n) ==
    PulseWaiters([sem EXCEPT !.current = IF a \in sem.held THEN @ + (n - sem.count[a]) ELSE @,
                             !.count[a] = n])

(* Mutant: nobody is pulsed.                                               *)
SemSetCapacityMutant(sem, n) == [sem EXCEPT !.capacity = n]

SemSetCapacity(sem, n) == PulseWaiters([sem EXCEPT !.capacity = n])

-----------------------------------------------------------------------------
CONSTANTS SemAcqs,        \* the acquirers
          SemCounts,      \* what they may ask for
          SemCapacities   \* what the capacity may be set to

ASSUME NewSemaphoreConstants ==
    SemCounts \subseteq Nat /\ SemCapacities \subseteq Nat \ {0}

VARIABLES
    semS,      \* the semaphore
    semCame    \* history: the acquirers, in the order in which they came

semVars == <<semS, semCame>>

SemInit == semS \in {NewSem(c) : c \in SemCapacities} /\ semCame = <<>>

SemAcquire(a, n) ==
    /\ a \notin DOMAIN semS.count
    /\ semS' = SemAdd(semS, a, n) /\ semCame' = Append(semCame, a)

SemRelease(a) ==
    /\ a \in DOMAIN semS.count
    /\ semS' = SemRemove(semS, a) /\ semCame' = SelectSeq(semCame, LAMBDA b : b # a)

SemChange(a, n) ==
    /\ a \in DOMAIN semS.count
    /\ semS' = SemChangeCount(semS, a, n) /\ UNCHANGED semCame

SemResize(n) == semS' = SemSetCapacity(semS, n) /\ UNCHANGED semCame

SemNext ==
    \/ \E a \in SemAcqs : SemRelease(a) \/ \E n \in SemCounts : SemAcquire(a, n) \/ SemChange(a, n)
    \/ \E n \in SemCapacities : SemResize(n)

SemSpec == SemInit /\ [][SemNext]_semVars

-----------------------------------------------------------------------------
\* The type invariant of the semaphore.
SemTypeOK ==
    /\ semS.capacity \in SemCapacities /\ semS.current \in Nat
    /\ semS.held \subseteq SemAcqs /\ IsInjective(semS.waiters)
    /\ DOMAIN semS.count = semS.held \cup {semS.waiters[i] : i \in DOMAIN semS.waiters}
    /\ \A a \in DOMAIN semS.count : semS.count[a] \in SemCounts

\* current_ is what the acquirers that were let in hold, whatever was changed
\* before or after they were (change_count() changes one or both).
SemCountIsExact ==
    semS.current = FoldSet(LAMBDA a, n : semS.count[a] + n, 0, semS.held)

\* Whoever waits has to: the first in line does not fit, and the semaphore is
\* not empty.  Nobody is overtaken: the ones that were let in came first.
SemNobodyForgotten ==
    /\ semS.waiters # <<>> =>
        /\ semS.count[Head(semS.waiters)] > semS.capacity - semS.current
        /\ semS.current > 0
    /\ \E n \in 0 .. Len(semCame) :
        semS.held = {semCame[i] : i \in 1 .. n} /\ semS.waiters = SubSeq(semCame, n + 1, Len(semCame))

\* The semaphore is right at all times: its books are exact however counts and
\* capacity are changed, and nobody waits who need not or is overtaken.
SemInv == SemTypeOK /\ SemCountIsExact /\ SemNobodyForgotten
=============================================================================
