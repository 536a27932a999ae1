---------------------------- MODULE FifoEnforcer ----------------------------
(***************************************************************************)
(* The FIFO enforcer of src/src/concurrency/fifo_enforcer.{hpp,cc}: one    *)
(* fifo_enforcer_source_t hands out tokens, the operations that carry them *)
(* travel and may overtake each other, and one fifo_enforcer_sink_t lets   *)
(* them proceed in the order in which they entered.  Reads may be          *)
(* reordered among themselves but never with respect to a write.           *)
(*                                                                         *)
(* Everything that runs under the sink's internal_lock is one piece of     *)
(* non-blocking code on one thread.  The loop of internal_pump() is        *)
(* modelled one iteration per step; while it runs (pump # "idle") no other *)
(* handler of the sink can start, as in the code.                          *)
(***************************************************************************)
EXTENDS Integers, FiniteSets

CONSTANTS Reads,    \* the operations that enter with enter_read()
          Writes,   \* the operations that enter with enter_write()
          MaxInt    \* largest value of the `int' that carries a token's read count

ASSUME OpsAssumption == /\ IsFiniteSet(Reads)
                        /\ Reads \cap Writes = {}

(* No more reads are outstanding than an `int' can count (see ToInt).      *)
ASSUME IntAssumption == /\ MaxInt \in Nat
                        /\ Cardinality(Reads) <= MaxInt

VARIABLES source,           \* fifo_enforcer_source_t::state
          popped_state,     \* operations that have left the sink's queues
          finished_state,   \* operations that are over
          pump,             \* in_pump and pump_should_keep_going, see PumpStates
          phase,            \* where each operation is
          timestamp,        \* the timestamp of each operation's token
          num_preceding_reads,  \* the read count of each write's token
          predecessors      \* history: the operations that entered before this one

source_vars == <<source, timestamp, num_preceding_reads, predecessors>>
sink_vars == <<popped_state, finished_state, pump>>
vars == <<source, popped_state, finished_state, pump, phase, timestamp,
          num_preceding_reads, predecessors>>

Ops == Reads \cup Writes

(***************************************************************************)
(* "new": no token yet.  "travelling": has a token, no exit object.        *)
(* "queued": the exit object waits in the sink.  "dummy": the exit object  *)
(* ended before it was pulsed and a dummy waits in its place.  "running":  *)
(* pulsed.  "done": ended after it was pulsed.  "forfeited": the dummy has *)
(* reached the head of the queue.                                          *)
(***************************************************************************)
Phases == {"new", "travelling", "queued", "dummy", "running", "done", "forfeited"}

(***************************************************************************)
(* "idle": in_pump is false.  "once" and "again": in_pump is true and      *)
(* pump_should_keep_going is false, or true.                               *)
(***************************************************************************)
PumpStates == {"idle", "once", "again"}

State == [last_timestamp : Nat, num_reads : Nat]
StateZero == [last_timestamp |-> 0, num_reads |-> 0]

HasEntered(o) == phase[o] # "new"
InQueue(o) == phase[o] \in {"queued", "dummy"}
Over(o) == phase[o] \in {"done", "forfeited"}
EnteredOps == {o \in Ops : HasEntered(o)}

-----------------------------------------------------------------------------
(* fifo_enforcer_state_t::advance_by_read() and advance_by_write()         *)
AdvanceByRead(s) == [s EXCEPT !.num_reads = @ + 1]
AdvanceByWrite(t) == [last_timestamp |-> t, num_reads |-> 0]

(* The constructor of fifo_enforcer_write_token_t takes the 64 bit read    *)
(* count as an `int': the value is narrowed.                               *)
ToInt(n) == IF n <= MaxInt THEN n ELSE n - 2 * (MaxInt + 1)

Init == /\ source = StateZero
        /\ popped_state = StateZero
        /\ finished_state = StateZero
        /\ pump = "idle"
        /\ phase = [o \in Ops |-> "new"]
        /\ timestamp = [o \in Ops |-> 0]
        /\ num_preceding_reads = [w \in Writes |-> 0]
        /\ predecessors = [o \in Ops |-> {}]

(* fifo_enforcer_source_t::enter_read()                                    *)
EnterRead(r) ==
    /\ phase[r] = "new"
    /\ source' = AdvanceByRead(source)
    /\ timestamp' = [timestamp EXCEPT ![r] = source.last_timestamp]
    /\ predecessors' = [predecessors EXCEPT ![r] = EnteredOps]
    /\ phase' = [phase EXCEPT ![r] = "travelling"]
    /\ UNCHANGED <<sink_vars, num_preceding_reads>>

(* fifo_enforcer_source_t::enter_write()                                   *)
EnterWrite(w) ==
    /\ phase[w] = "new"
    /\ source' = AdvanceByWrite(source.last_timestamp + 1)
    /\ timestamp' = [timestamp EXCEPT ![w] = source.last_timestamp + 1]
    /\ num_preceding_reads' = [num_preceding_reads EXCEPT ![w] = ToInt(source.num_reads)]
    /\ predecessors' = [predecessors EXCEPT ![w] = EnteredOps]
    /\ phase' = [phase EXCEPT ![w] = "travelling"]
    /\ UNCHANGED sink_vars

(* A call of internal_pump() while the pump is idle starts the loop.       *)
CallPump == /\ pump = "idle"
            /\ pump' = "once"

(* exit_read_t::begin() and exit_write_t::begin(): the operation has       *)
(* arrived, in any order, and joins its queue.                             *)
Begin(o) ==
    /\ phase[o] = "travelling"
    /\ phase' = [phase EXCEPT ![o] = "queued"]
    /\ CallPump
    /\ UNCHANGED <<source_vars, popped_state, finished_state>>

(* internal_finish_a_reader() and internal_finish_a_writer()               *)
FinishAReader == finished_state' = AdvanceByRead(finished_state)
FinishAWriter(w) == finished_state' = AdvanceByWrite(timestamp[w])

(* end() of an exit object that was pulsed                                 *)
End(o) ==
    /\ phase[o] = "running"
    /\ phase' = [phase EXCEPT ![o] = "done"]
    /\ IF o \in Reads THEN FinishAReader ELSE FinishAWriter(o)
    /\ CallPump
    /\ UNCHANGED <<source_vars, popped_state>>

(* end() of an exit object that was not pulsed: swap_in_place() of a dummy *)
EndEarly(o) ==
    /\ pump = "idle"
    /\ phase[o] = "queued"
    /\ phase' = [phase EXCEPT ![o] = "dummy"]
    /\ UNCHANGED <<source_vars, sink_vars>>

(* o is what peek() may return: nothing of its kind has an earlier timestamp *)
AtHead(o, queue) == /\ o \in queue
                    /\ InQueue(o)
                    /\ \A p \in queue : InQueue(p) => timestamp[o] <= timestamp[p]

(* Mutated forms of the tests below *)
ReadMayGoMutant(r) == /\ AtHead(r, Reads)
                      /\ timestamp[r] <= finished_state.last_timestamp + 1
WriteMayGoMutant(w) == /\ AtHead(w, Writes)
                       /\ timestamp[w] = finished_state.last_timestamp + 1
(* The tests of the loop of internal_pump() on the heads of the two queues *)
ReadMayGo(r) == /\ AtHead(r, Reads)
                /\ timestamp[r] = finished_state.last_timestamp
WriteMayGo(w) == /\ AtHead(w, Writes)
                 /\ timestamp[w] = finished_state.last_timestamp + 1
                 /\ num_preceding_reads[w] = finished_state.num_reads

(* Mutated form of ReachHead: a dummy leaves the queue without finishing *)
ReachHeadMutant(o) ==
    \/ /\ phase[o] = "queued"
       /\ phase' = [phase EXCEPT ![o] = "running"]
       /\ UNCHANGED finished_state
    \/ /\ phase[o] = "dummy"
       /\ phase' = [phase EXCEPT ![o] = "forfeited"]
       /\ UNCHANGED finished_state

(* on_reached_head_of_queue() of an exit object and of a dummy: the first  *)
(* is pulsed; the second finishes at once and calls internal_pump() again. *)
ReachHead(o) ==
    \/ /\ phase[o] = "queued"
       /\ phase' = [phase EXCEPT ![o] = "running"]
       /\ UNCHANGED finished_state
    \/ /\ phase[o] = "dummy"
       /\ phase' = [phase EXCEPT ![o] = "forfeited"]
       /\ IF o \in Reads THEN FinishAReader ELSE FinishAWriter(o)

(* An iteration of the inner loop, over the reads *)
PumpRead(r) ==
    /\ pump # "idle"
    /\ ReadMayGo(r)
    /\ popped_state' = AdvanceByRead(popped_state)
    /\ ReachHead(r)
    /\ pump' = IF phase[r] = "dummy" THEN "again" ELSE pump
    /\ UNCHANGED source_vars

(* The end of the loop body, once no read may go: a write goes *)
PumpWrite(w) ==
    /\ pump # "idle"
    /\ ~ \E r \in Reads : ReadMayGo(r)
    /\ WriteMayGo(w)
    /\ popped_state' = AdvanceByWrite(timestamp[w])
    /\ ReachHead(w)
    /\ pump' = IF pump = "again" \/ phase[w] = "dummy" THEN "once" ELSE "idle"
    /\ UNCHANGED source_vars

(* ... or no write may go *)
PumpNoWrite ==
    /\ pump # "idle"
    /\ ~ \E r \in Reads : ReadMayGo(r)
    /\ ~ \E w \in Writes : WriteMayGo(w)
    /\ pump' = IF pump = "again" THEN "once" ELSE "idle"
    /\ UNCHANGED <<source_vars, popped_state, finished_state, phase>>

PumpStep == \/ \E r \in Reads : PumpRead(r)
            \/ \E w \in Writes : PumpWrite(w)
            \/ PumpNoWrite

Terminating == /\ \A o \in Ops : Over(o)
               /\ pump = "idle"
               /\ UNCHANGED vars

Next == \/ \E r \in Reads : EnterRead(r)
        \/ \E w \in Writes : EnterWrite(w)
        \/ \E o \in Ops : Begin(o) \/ End(o) \/ EndEarly(o)
        \/ PumpStep
        \/ Terminating

(***************************************************************************)
(* The pump runs to its end; every token that was handed out arrives at    *)
(* the sink and a pulsed operation ends (the duty fifo_enforcer.hpp puts   *)
(* on the users).  Nobody has to enter, or to leave the queue early.       *)
(***************************************************************************)
Fairness == /\ WF_vars(PumpStep)
            /\ \A o \in Ops : WF_vars(Begin(o) \/ End(o))

Spec == Init /\ [][Next]_vars
FairSpec == Spec /\ Fairness

-----------------------------------------------------------------------------
(* The types of the variables. *)
TypeOK == /\ source \in State /\ popped_state \in State /\ finished_state \in State
          /\ pump \in PumpStates
          /\ phase \in [Ops -> Phases]
          /\ timestamp \in [Ops -> Nat]
          /\ num_preceding_reads \in [Writes -> Int]
          /\ predecessors \in [Ops -> SUBSET Ops]

(***************************************************************************)
(* "objects pass through a checkpoint in the same order that they passed   *)
(* through a previous checkpoint" (fifo_enforcer.hpp:21): when an          *)
(* operation has been let through, every operation that entered before it  *)
(* is over, unless both are reads.  In particular a running write runs     *)
(* alone.                                                                  *)
(***************************************************************************)
OrderedExit ==
    \A o \in Ops : \A p \in predecessors[o] :
        /\ phase[o] \in {"running", "done"}
        /\ o \in Writes \/ p \in Writes
        => Over(p)

(***************************************************************************)
(* The rassert()s of advance_by_read(), advance_by_write() and of the two  *)
(* internal_finish functions hold whenever they are reached: what the pump *)
(* is about to pop continues popped_state, and what is running continues   *)
(* finished_state.                                                         *)
(***************************************************************************)
AssertionsHold ==
    /\ pump # "idle" =>
         /\ \A r \in Reads : ReadMayGo(r) => popped_state.last_timestamp = timestamp[r]
         /\ \A w \in Writes :
              WriteMayGo(w) /\ (~ \E r \in Reads : ReadMayGo(r)) =>
                /\ popped_state.last_timestamp + 1 = timestamp[w]
                /\ popped_state.num_reads = num_preceding_reads[w]
    /\ \A r \in Reads : phase[r] = "running" =>
         /\ popped_state.last_timestamp = timestamp[r]
         /\ finished_state.last_timestamp = timestamp[r]
         /\ finished_state.num_reads < popped_state.num_reads
    /\ \A w \in Writes : phase[w] = "running" =>
         /\ popped_state = [last_timestamp |-> timestamp[w], num_reads |-> 0]
         /\ finished_state.last_timestamp + 1 = timestamp[w]
         /\ finished_state.num_reads = num_preceding_reads[w]

(***************************************************************************)
(* Every operation that has a token gets through or forfeits its place: no *)
(* arrival order and no early destruction of exit objects (dummies) stalls *)
(* the operations behind (fifo_enforcer.hpp:154-160).                      *)
(***************************************************************************)
NobodyStalls == \A o \in Ops : (phase[o] = "travelling") ~> Over(o)

-----------------------------------------------------------------------------
(***************************************************************************)
(* The inductive invariant behind the properties above.                    *)
(***************************************************************************)
ReadsAt == [t \in Nat |-> {r \in Reads : HasEntered(r) /\ timestamp[r] = t}]
OverAt == [t \in Nat |-> {r \in Reads : Over(r) /\ timestamp[r] = t}]
RunningReads == {r \in Reads : phase[r] = "running"}

(* The tokens that enter_read() and enter_write() have handed out number   *)
(* the writes, count the reads between them, and respect the entry order.  *)
TokensInv ==
    /\ \A o \in Ops : HasEntered(o) => timestamp[o] <= source.last_timestamp
    /\ source.num_reads = Cardinality(ReadsAt[source.last_timestamp])
    /\ \A w \in Writes : HasEntered(w) =>
         /\ timestamp[w] > 0
         /\ num_preceding_reads[w] = Cardinality(ReadsAt[timestamp[w] - 1])
    /\ \A w, v \in Writes :
         HasEntered(w) /\ HasEntered(v) /\ timestamp[w] = timestamp[v] => w = v
    /\ \A o \in Ops : ~HasEntered(o) => predecessors[o] = {}
    /\ \A o \in Ops : \A p \in predecessors[o] :
         /\ HasEntered(p)
         /\ timestamp[p] <= timestamp[o]
         /\ o \in Writes => timestamp[p] < timestamp[o]

(* popped_state and finished_state split the operations by timestamp, and  *)
(* count the reads of the newest timestamp they have reached.              *)
SinkInv ==
    LET f == finished_state.last_timestamp
        q == popped_state.last_timestamp
    IN  /\ q <= source.last_timestamp
        /\ \A w \in Writes : Over(w) <=> HasEntered(w) /\ timestamp[w] <= f
        /\ \A w \in Writes :
             phase[w] = "running" <=> HasEntered(w) /\ f < timestamp[w] /\ timestamp[w] <= q
        /\ \A r \in Reads : HasEntered(r) /\ timestamp[r] < f => Over(r)
        /\ \A r \in Reads : Over(r) => timestamp[r] <= f
        /\ \A r \in Reads : phase[r] = "running" => timestamp[r] = f /\ q = f
        /\ finished_state.num_reads = Cardinality(OverAt[f])
        /\ \/ /\ q = f
              /\ popped_state.num_reads = finished_state.num_reads + Cardinality(RunningReads)
           \/ /\ q = f + 1
              /\ popped_state.num_reads = 0
              /\ ReadsAt[f] = OverAt[f]
              /\ \E w \in Writes : phase[w] = "running"

(* The conjunction the proofs are about: tokens, queues and counters agree. *)
Inv == TypeOK /\ TokensInv /\ SinkInv

=============================================================================
