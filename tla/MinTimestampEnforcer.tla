------------------------- MODULE MinTimestampEnforcer -------------------------
(***************************************************************************)
(* min_timestamp_enforcer_t                                                *)
(* (src/src/concurrency/min_timestamp_enforcer.cc): a read that a primary  *)
(* sends to a replica carries the timestamp of the last write it must see, *)
(* and waits until the replica has got there or the read is interrupted.   *)
(* The replica's timestamps come from write coroutines that finish in any  *)
(* order, so an older one may be reported after a newer one.               *)
(***************************************************************************)
EXTENDS Integers, FiniteSets

CONSTANTS MtWaiters,   \* the reads
          MtTimes      \* bound: the timestamps are 0 .. MtTimes

ASSUME MinTimestampConstants == MtTimes \in Nat

VARIABLES
    mtNow,      \* current_timestamp
    mtWait,     \* each read: its token, and where it is
    mtQueue,    \* waiter_queue, a priority queue
    mtBumped    \* history: the timestamps that have been reported

mtVars == <<mtNow, mtWait, mtQueue, mtBumped>>

MtInit ==
    /\ mtNow = 0 /\ mtQueue = {} /\ mtBumped = {0}
    /\ mtWait = [w \in MtWaiters |-> [token |-> 0, state |-> "none"]]

\* internal_pump(): peek at the waiter with the lowest token, pop it, and so on
Pumped(now) == {w \in mtQueue : mtWait[w].token <= now}

BumpTimestamp(ts) ==
    /\ mtBumped' = mtBumped \cup {ts}
    /\ IF ts > mtNow
       THEN /\ mtNow' = ts
            /\ mtQueue' = mtQueue \ Pumped(ts)
            /\ mtWait' = [w \in MtWaiters |->
                 IF w \in Pumped(ts) THEN [mtWait[w] EXCEPT !.state = "pulsed"] ELSE mtWait[w]]
       ELSE UNCHANGED <<mtNow, mtQueue, mtWait>>

\* wait_interruptible() up to the wait
MtStart(w, token) ==
    /\ mtWait[w].state = "none"
    /\ IF token <= mtNow
       THEN mtWait' = [mtWait EXCEPT ![w] = [token |-> token, state |-> "passed"]] /\ UNCHANGED mtQueue
       ELSE /\ mtWait' = [mtWait EXCEPT ![w] = [token |-> token, state |-> "waits"]]
            /\ mtQueue' = mtQueue \cup {w}
    /\ UNCHANGED <<mtNow, mtBumped>>

\* on_runnable was pulsed and the coroutine runs
MtPass(w) ==
    /\ mtWait[w].state = "pulsed"
    /\ mtWait' = [mtWait EXCEPT ![w].state = "passed"]
    /\ UNCHANGED <<mtNow, mtQueue, mtBumped>>

(* Mutant: an interrupted waiter stays in the queue.                       *)
MtInterruptMutant(w) ==
    /\ mtWait[w].state \in {"waits", "pulsed"}
    /\ mtQueue' = mtQueue
    /\ mtWait' = [mtWait EXCEPT ![w].state = "none"]
    /\ UNCHANGED <<mtNow, mtBumped>>

\* interrupted_exc_t, which may come when on_runnable has been pulsed already;
\* the internal_waiter_t is destroyed
MtInterrupt(w) ==
    /\ mtWait[w].state \in {"waits", "pulsed"}
    /\ mtQueue' = IF mtWait[w].state = "waits" THEN mtQueue \ {w} ELSE mtQueue
    /\ mtWait' = [mtWait EXCEPT ![w].state = "none"]
    /\ UNCHANGED <<mtNow, mtBumped>>

\* the read is over
MtFinish(w) ==
    /\ mtWait[w].state = "passed"
    /\ mtWait' = [mtWait EXCEPT ![w].state = "none"]
    /\ UNCHANGED <<mtNow, mtQueue, mtBumped>>

MtNext ==
    \/ \E ts \in 0 .. MtTimes : BumpTimestamp(ts)
    \/ \E w \in MtWaiters :
        \/ \E token \in 0 .. MtTimes : MtStart(w, token)
        \/ MtPass(w) \/ MtInterrupt(w) \/ MtFinish(w)

MtSpec == MtInit /\ [][MtNext]_mtVars

-----------------------------------------------------------------------------
\* The queue holds exactly the reads that still have to wait: nobody whose
\* timestamp has been reported is left there, nobody was let go before it was,
\* and no read that is gone is still in it (it would be a dangling pointer).
MtQueueIsRight ==
    /\ mtNow \in mtBumped /\ \A t \in mtBumped : t <= mtNow
    /\ mtQueue = {w \in MtWaiters : mtWait[w].state = "waits"}
    /\ \A w \in MtWaiters :
        CASE mtWait[w].state = "waits" -> \A t \in mtBumped : t < mtWait[w].token
          [] mtWait[w].state \in {"pulsed", "passed"} -> \E t \in mtBumped : t >= mtWait[w].token
          [] OTHER -> TRUE
===============================================================================
