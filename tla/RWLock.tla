------------------------------- MODULE RWLock -------------------------------
(***************************************************************************)
(* rwlock_t and rwlock_in_line_t (src/src/concurrency/rwlock.cc), the lock *)
(* around a table's metainfo and its index operations: acquirers stand in  *)
(* line, readers at its front share the lock, the writer behind them may   *)
(* read, and may write when it is the first.                               *)
(***************************************************************************)
EXTENDS Integers, Functions, Queues

CONSTANT RwAcqs    \* the rwlock_in_line_ts

VARIABLES
    rwQueue,    \* acqs_
    rwAccess,   \* access_ of each acquirer
    rwRead,     \* whose read_cond_ is pulsed
    rwWrite     \* whose write_cond_ is pulsed

rwVars == <<rwQueue, rwAccess, rwRead, rwWrite>>

RwInit == rwQueue = <<>> /\ rwAccess = [a \in RwAcqs |-> "none"] /\ rwRead = {} /\ rwWrite = {}

\* pulse_pulsables(p), p being the i-th of the line q: whom it pulses for read
\* and for write, when the ones in rd are already pulsed for read
RwPulsed(q, rd, i) ==
    LET reader(j) == rwAccess'[q[j]] = "read"
        reached == {j \in i .. Len(q) :
                      /\ i = 1 \/ (reader(i - 1) /\ q[i - 1] \in rd)
                      /\ \A k \in i .. j - 1 : reader(k)}
        first_writes == IF i = 1 /\ ~reader(1) THEN {q[1]} ELSE {}
    IN IF i > Len(q) THEN [rd |-> {}, wr |-> {}]
       ELSE IF q[i] \in rd THEN [rd |-> {}, wr |-> first_writes]
       ELSE [rd |-> {q[j] : j \in reached}, wr |-> first_writes]

\* rwlock_in_line_t(), add_acq()
RwAdd(a, access) ==
    /\ rwAccess[a] = "none"
    /\ rwAccess' = [rwAccess EXCEPT ![a] = access]
    /\ rwQueue' = Append(rwQueue, a)
    /\ LET p == RwPulsed(rwQueue', rwRead, Len(rwQueue')) IN
       rwRead' = rwRead \cup p.rd /\ rwWrite' = rwWrite \cup p.wr

(* Mutant: only the head is looked at when one leaves.                     *)
RwRemoveMutant(i) ==
    LET a == rwQueue[i] IN
    /\ rwQueue' = DropAt(rwQueue, i)
    /\ rwAccess' = [rwAccess EXCEPT ![a] = "none"]
    /\ LET p == RwPulsed(rwQueue', rwRead, 1) IN
       rwRead' = (rwRead \ {a}) \cup p.rd /\ rwWrite' = (rwWrite \ {a}) \cup p.wr

\* reset(), remove_acq(): whether or not it has been let in
RwRemove(i) ==
    LET a == rwQueue[i] IN
    /\ rwQueue' = DropAt(rwQueue, i)
    /\ rwAccess' = [rwAccess EXCEPT ![a] = "none"]
    /\ LET p == RwPulsed(rwQueue', rwRead, i) IN
       rwRead' = (rwRead \ {a}) \cup p.rd /\ rwWrite' = (rwWrite \ {a}) \cup p.wr

RwNext ==
    \/ \E a \in RwAcqs, access \in {"read", "write"} : RwAdd(a, access)
    \/ \E i \in DOMAIN rwQueue : RwRemove(i)

RwSpec == RwInit /\ [][RwNext]_rwVars

-----------------------------------------------------------------------------
\* The type invariant of the lock.
RwTypeOK ==
    /\ rwQueue \in Seq(RwAcqs) /\ IsInjective(rwQueue)
    /\ rwAccess \in [RwAcqs -> {"none", "read", "write"}]
    /\ \A a \in RwAcqs : rwAccess[a] # "none" <=> InSeq(rwQueue, a)
    /\ \A a \in rwRead : InSeq(rwQueue, a)
    /\ rwWrite \subseteq rwRead

\* Who stands in line has been let in exactly when it is its turn: to read,
\* when there are only readers before it; to write, when it is the first.  A
\* wakeup is neither lost when somebody leaves the middle of the line nor
\* given too early.  (pulse_pulsables looks at one neighbour only.)
RwLetInExactly ==
    \A i \in DOMAIN rwQueue :
        /\ rwQueue[i] \in rwRead <=> \A j \in 1 .. i - 1 : rwAccess[rwQueue[j]] = "read"
        /\ rwQueue[i] \in rwWrite <=> i = 1 /\ rwAccess[rwQueue[i]] = "write"

\* The lock is right at all times: its line is well-formed, and exactly those
\* whose turn it is have been let in.
RwInv == RwTypeOK /\ RwLetInExactly
=============================================================================
