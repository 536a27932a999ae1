----------------------------- MODULE MCPrimitives -----------------------------
(***************************************************************************)
(* The concurrency primitives, each with a few users, and the secondary    *)
(* indexes.  They share no state: a behaviour is of the one that           *)
(* `scenario' names.                                                       *)
(***************************************************************************)
EXTENDS FifoEnforcer, RWLock, BackfillThrottler, MinTimestampEnforcer,
        DiskBackedQueue, SecondaryIndex

VARIABLE scenario

Scenarios == {"fifo", "rwlock", "semaphore", "throttler", "min_timestamp",
              "queue", "sindexes"}

primVars == <<scenario, vars, rwVars, semVars, btVars, mtVars, dqVars, siVars>>

PrimStarts == {SiStart({1, 2}, 1, 1, 1), SiStart({1}, 2, 0, 1)}

PrimInit ==
    /\ scenario \in Scenarios
    /\ Init /\ RwInit /\ SemInit /\ BtInit /\ MtInit /\ DqInit /\ SiInit
    /\ scenario # "sindexes" =>
          /\ siWrites = SiMaxWrites
          /\ \A k \in DOMAIN siTable : siTable[k] = NoDoc
    /\ scenario # "semaphore" => \A c \in SemCapacities : semS.capacity <= c

In(name, step, others) == scenario = name /\ step /\ UNCHANGED <<scenario, others>>

PrimNext ==
    \/ In("fifo", Next, <<rwVars, semVars, btVars, mtVars, dqVars, siVars>>)
    \/ In("rwlock", RwNext, <<vars, semVars, btVars, mtVars, dqVars, siVars>>)
    \/ In("semaphore", SemNext, <<vars, rwVars, btVars, mtVars, dqVars, siVars>>)
    \/ In("throttler", BtNext, <<vars, rwVars, semVars, mtVars, dqVars, siVars>>)
    \/ In("min_timestamp", MtNext, <<vars, rwVars, semVars, btVars, dqVars, siVars>>)
    \/ In("queue", DqNext, <<vars, rwVars, semVars, btVars, mtVars, siVars>>)
    \/ In("sindexes", SiNext, <<vars, rwVars, semVars, btVars, mtVars, dqVars>>)

PrimSpec == PrimInit /\ [][PrimNext]_primVars /\ Fairness /\ DqFairness /\ SiFairness
===============================================================================
