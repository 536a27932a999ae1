------------------------------- MODULE Branch -------------------------------
(***************************************************************************)
(* One branch of a shard: the broadcaster_t on the primary replica, the    *)
(* listener_t of every replica, and the replier_t through which an         *)
(* up-to-date replica serves synchronize requests, backfills and reads     *)
(* (src/src/clustering/immediate_consistency/branch/).                     *)
(*                                                                         *)
(* A write is identified by the state_timestamp_t the broadcaster gives    *)
(* it, and a store by the set of timestamps whose writes it holds.  The    *)
(* branch starts at timestamp 0.  Messages between broadcaster and         *)
(* listener may be delayed and reordered; a connection may break, and a    *)
(* replica other than the primary may stop, or crash and lose what its     *)
(* store had not flushed.                                                  *)
(*                                                                         *)
(* The FIFO enforcers between dispatchee and listener are used through     *)
(* what FifoEnforcer establishes: operation i of a dispatchee passes a     *)
(* sink when every operation before i has passed it or given up its place. *)
(***************************************************************************)
EXTENDS Integers, Sequences, FiniteSets

CONSTANTS Servers,         \* the servers that may hold a replica
          Primary,         \* the server of the broadcaster and its local listener
          AckSets,         \* the sets S with ack_checker_t::is_acceptable_ack_set(S)
          MaxTimestamp,    \* bound: the number of writes
          MaxChanges,      \* bound: how often a listener starts, stops or is cut off
          MaxReads,        \* bound: how many reads are performed at a time, 0 or 1
          MaxDrops,        \* bound: how many writes lose their callback
          DrainedSize,     \* WRITE_QUEUE_SEMAPHORE_LONG_TERM_CAPACITY
          Build,           \* "debug": rassert() is compiled in; or "release"
          None             \* no server, no read

(* is_acceptable_ack_set() counts: it asks for an ack at least, and more   *)
(* acks never make a set unacceptable (write_ack_config_checker_t).        *)
ASSUME AckSetsAssumption ==
    /\ AckSets \subseteq (SUBSET Servers) \ {{}}
    /\ \A acks \in AckSets, more \in SUBSET Servers : acks \cup more \in AckSets

ASSUME BranchAssumption ==
    /\ Primary \in Servers /\ None \notin Servers
    /\ None \notin [from : SUBSET Servers, must_see : SUBSET (1 .. MaxTimestamp)]
    /\ None \notin [from : SUBSET Servers, token : 0 .. MaxTimestamp,
                    must_see : SUBSET (1 .. MaxTimestamp)]
    /\ Build \in {"debug", "release"}
    /\ MaxTimestamp \in Nat /\ MaxChanges \in Nat /\ MaxReads \in 0 .. 1
    /\ MaxDrops \in Nat /\ DrainedSize \in Nat

VARIABLES
    \* broadcaster_t
    current_timestamp,
    newest_complete_timestamp,
    incomplete_writes,       \* the timestamps in the list of the same name
    most_recent_acked_write_timestamp,
    callback,                \* what happened to the write_callback_t of each write
    ack_set,                 \* incomplete_write_t::ack_set of each write
    dispatchee,              \* per server: its dispatchee_t
    latest_acked_write,      \* per server: dispatchee_t::latest_acked_write
    ops,                     \* per server: what its dispatchee sent, in token order
    upgrades,                \* the servers whose upgrade message is on its way
    read,                    \* the read being performed, or None
    \* listener_t, replier_t and the store of each server
    listener,
    store,
    changes                  \* how often a listener started, stopped or was cut off

broadcaster_vars == <<current_timestamp, newest_complete_timestamp, incomplete_writes,
                      most_recent_acked_write_timestamp, callback, ack_set>>
vars == <<broadcaster_vars, dispatchee, latest_acked_write, ops, upgrades, read, listener, store, changes>>

Timestamps == 1 .. MaxTimestamp
Versions == 0 .. MaxTimestamp
Larger(a, b) == IF a > b THEN a ELSE b

(***************************************************************************)
(* An operation in a dispatchee's FIFO.  kind: sent by background_write()  *)
(* or by background_writeread().  st: where it is at the listener.         *)
(*   "sent"       not there, or waiting in write_queue_entrance_sink_      *)
(*   "queued"     in write_queue_ (kind "write" only)                      *)
(*   "skipped"    was in the backfill, gave up its place at the store      *)
(*   "executing"  has its write token, not yet applied to the store        *)
(*   "applied"    holds the root of the store's btree                      *)
(*   "done"       svs_->write() has returned                               *)
(* running: the broadcaster's coroutine still holds its                    *)
(* incomplete_write_ref_t.                                                 *)
(***************************************************************************)
OpStates == {"sent", "queued", "skipped", "executing", "applied", "done"}
Op == [ts : Timestamps, kind : {"write", "writeread"}, st : OpStates, running : BOOLEAN]

(***************************************************************************)
(* The life of a listener_t.  begin: streaming_begin_point.  from: the     *)
(* server whose replier it synchronizes with and backfills from.           *)
(* snapshot: what that backfiller sends.  current: current_timestamp_.     *)
(* min: the timestamp of read_min_timestamp_enforcer_.                     *)
(***************************************************************************)
Stages == {"off", "registering", "registered", "introduced", "backfilling",
           "streaming", "drained", "replying"}
NoListener == [stage |-> "off", begin |-> 0, from |-> None, snapshot |-> {},
               backfill_end |-> 0, current |-> 0, min |-> 0]

(* The metainfo (a version range on this branch) and the contents of a store. *)
EmptyStore == [earliest |-> 0, latest |-> 0, data |-> {}]
Coherent(s) == store[s].earliest = store[s].latest

Readable == {s \in Servers : dispatchee[s] = "readable"}
Dispatchees == {s \in Servers : dispatchee[s] \in {"writes", "readable"}}
Streaming(s) == listener[s].stage \in {"streaming", "drained", "replying"}

(* The broadcaster, and the listener and replier the primary starts with it. *)
Init ==
    /\ current_timestamp = 0
    /\ newest_complete_timestamp = 0
    /\ incomplete_writes = <<>>
    /\ most_recent_acked_write_timestamp = 0
    /\ callback = [t \in Timestamps |-> "unused"]
    /\ ack_set = [t \in Timestamps |-> {}]
    /\ dispatchee = [s \in Servers |-> IF s = Primary THEN "readable" ELSE "none"]
    /\ latest_acked_write = [s \in Servers |-> 0]
    /\ ops = [s \in Servers |-> <<>>]
    /\ upgrades = {}
    /\ read = None
    /\ listener = [s \in Servers |-> IF s = Primary
                                     THEN [NoListener EXCEPT !.stage = "replying"]
                                     ELSE NoListener]
    /\ store = [s \in Servers |-> EmptyStore]
    /\ changes = 0

-----------------------------------------------------------------------------
(* The broadcaster: writes                                                 *)

NewOp(t, kind) == [ts |-> t, kind |-> kind, st |-> "sent", running |-> TRUE]

(***************************************************************************)
(* spawn_write(), once its FIFO lock lets it go.  When the readable        *)
(* dispatchees cannot satisfy the ack checker it calls on_failure(false)   *)
(* and returns with nothing changed.                                       *)
(***************************************************************************)
SpawnWrite ==
    LET t == current_timestamp + 1
    IN  /\ t \in Timestamps
        /\ Readable \in AckSets
        /\ current_timestamp' = t
        /\ incomplete_writes' = Append(incomplete_writes, t)
        /\ callback' = [callback EXCEPT ![t] = "pending"]
        /\ ops' = [s \in Servers |->
                     IF s \in Dispatchees
                     THEN Append(ops[s], NewOp(t, IF s \in Readable THEN "writeread" ELSE "write"))
                     ELSE ops[s]]
        /\ UNCHANGED <<newest_complete_timestamp, most_recent_acked_write_timestamp, ack_set,
                       dispatchee, latest_acked_write, upgrades, read, listener, store, changes>>

(* write_callback_t::~write_callback_t(): whoever waited has gone away.    *)
DropCallback(t) ==
    /\ callback[t] = "pending"
    /\ Cardinality({u \in Timestamps : callback[u] = "dropped"}) < MaxDrops
    /\ callback' = [callback EXCEPT ![t] = "dropped"]
    /\ UNCHANGED <<current_timestamp, newest_complete_timestamp, incomplete_writes,
                   most_recent_acked_write_timestamp, ack_set, dispatchee,
                   latest_acked_write, ops, upgrades, read, listener, store, changes>>

(***************************************************************************)
(* end_write(): the write and every write before it leave                  *)
(* incomplete_writes; a callback that was not called yet gets              *)
(* on_failure(true).  cb is the state of the callbacks at the call.        *)
(***************************************************************************)
EndWrite(t, cb) ==
    /\ newest_complete_timestamp' = Larger(newest_complete_timestamp, t)
    /\ incomplete_writes' =
         IF newest_complete_timestamp < t
         THEN SubSeq(incomplete_writes, t - newest_complete_timestamp + 1, Len(incomplete_writes))
         ELSE incomplete_writes
    /\ callback' = IF cb[t] = "pending" THEN [cb EXCEPT ![t] = "failure"] ELSE cb

(* ~incomplete_write_ref_t() of the coroutine of operation i of server s:  *)
(* the last one to go calls end_write().                                   *)
ReleaseRef(s, i, cb) ==
    LET t == ops[s][i].ts
        others == \E r \in Servers : \E j \in 1 .. Len(ops[r]) :
                     <<r, j>> # <<s, i>> /\ ops[r][j].ts = t /\ ops[r][j].running
    IN  /\ ops' = [ops EXCEPT ![s][i].running = FALSE]
        /\ IF others
           THEN callback' = cb /\ UNCHANGED <<newest_complete_timestamp, incomplete_writes>>
           ELSE EndWrite(t, cb)

(* dispatchee_t::bump_latest_acked_write()                                 *)
BumpLatestAckedWrite(s, t) ==
    latest_acked_write' = [latest_acked_write EXCEPT ![s] = Larger(@, t)]

(* background_write(): listener_write() returns when the listener has put  *)
(* the write in its queue.                                                 *)
BackgroundWrite(s, i) ==
    /\ ops[s][i].kind = "write" /\ ops[s][i].running /\ ops[s][i].st # "sent"
    /\ BumpLatestAckedWrite(s, ops[s][i].ts)
    /\ ReleaseRef(s, i, callback)
    /\ UNCHANGED <<current_timestamp, most_recent_acked_write_timestamp, ack_set, dispatchee,
                   upgrades, read, listener, store, changes>>

(* background_writeread(), from the response of the listener on            *)
BackgroundWriteread(s, i) ==
    LET t == ops[s][i].ts
        acks == ack_set[t] \cup {s}
        called == acks \in AckSets /\ callback[t] = "pending"
    IN  /\ ops[s][i].kind = "writeread" /\ ops[s][i].running /\ ops[s][i].st = "done"
        /\ BumpLatestAckedWrite(s, t)
        /\ most_recent_acked_write_timestamp' = Larger(most_recent_acked_write_timestamp, t)
        /\ ack_set' = [ack_set EXCEPT ![t] = acks]
        /\ ReleaseRef(s, i, IF called THEN [callback EXCEPT ![t] = "success"] ELSE callback)
        /\ UNCHANGED <<current_timestamp, dispatchee, upgrades, read, listener, store, changes>>

(* Mutant: an interrupted coroutine forgets that it may be the last one.   *)
BackgroundInterruptedMutant(s, i) ==
    /\ dispatchee[s] = "draining" /\ ops[s][i].running
    /\ ops' = [ops EXCEPT ![s][i].running = FALSE]
    /\ UNCHANGED <<broadcaster_vars, dispatchee, latest_acked_write, upgrades, read, listener,
                   store, changes>>

(* background_write() or background_writeread() is interrupted by the      *)
(* drain signal of a dispatchee that is being destroyed.                   *)
BackgroundInterrupted(s, i) ==
    /\ dispatchee[s] = "draining" /\ ops[s][i].running
    /\ ReleaseRef(s, i, callback)
    /\ UNCHANGED <<current_timestamp, most_recent_acked_write_timestamp, ack_set, dispatchee,
                   latest_acked_write, upgrades, read, listener, store, changes>>

-----------------------------------------------------------------------------
(* The broadcaster: dispatchees                                            *)

(* Mutant: the stream is said to begin at current_timestamp.               *)
OnCreateMutant(s) ==
    /\ listener[s].stage = "registering"
    /\ \A r \in Servers : dispatchee[r] # "draining"
    /\ dispatchee' = [dispatchee EXCEPT ![s] = "writes"]
    /\ latest_acked_write' = [latest_acked_write EXCEPT ![s] = 0]
    /\ ops' = [ops EXCEPT ![s] = [i \in 1 .. Len(incomplete_writes) |->
                                    NewOp(incomplete_writes[i], "write")]]
    /\ listener' = [listener EXCEPT ![s].stage = "registered", ![s].begin = current_timestamp]
    /\ UNCHANGED <<broadcaster_vars, upgrades, read, store, changes>>

(***************************************************************************)
(* registrar_t::on_create() and the constructor of dispatchee_t: the new   *)
(* mirror gets every incomplete write, and the broadcaster's               *)
(* newest_complete_timestamp as the point its stream begins at.  The       *)
(* registrar's mutex is held while a dispatchee is destroyed, so none is   *)
(* draining.                                                               *)
(***************************************************************************)
OnCreate(s) ==
    /\ listener[s].stage = "registering"
    /\ \A r \in Servers : dispatchee[r] # "draining"
    /\ dispatchee' = [dispatchee EXCEPT ![s] = "writes"]
    /\ latest_acked_write' = [latest_acked_write EXCEPT ![s] = 0]
    /\ ops' = [ops EXCEPT ![s] = [i \in 1 .. Len(incomplete_writes) |->
                                    NewOp(incomplete_writes[i], "write")]]
    /\ listener' = [listener EXCEPT ![s].stage = "registered",
                                    ![s].begin = newest_complete_timestamp]
    /\ UNCHANGED <<broadcaster_vars, upgrades, read, store, changes>>

(* dispatchee_t::upgrade()                                                 *)
Upgrade(s) ==
    /\ s \in upgrades /\ dispatchee[s] = "writes"
    /\ dispatchee' = [dispatchee EXCEPT ![s] = "readable"]
    /\ upgrades' = upgrades \ {s}
    /\ UNCHANGED <<broadcaster_vars, latest_acked_write, ops, read, listener, store, changes>>

(***************************************************************************)
(* ~dispatchee_t().  A read that waits for this mirror fails, and the      *)
(* upgrade mailbox goes away.  Registrations are destroyed one at a time.  *)
(***************************************************************************)
DestroyDispatchee(s) ==
    /\ s \in Dispatchees
    /\ \A r \in Servers : dispatchee[r] # "draining"
    /\ dispatchee' = [dispatchee EXCEPT ![s] = "draining"]
    /\ upgrades' = upgrades \ {s}
    /\ read' = IF read # None /\ s \in read.from THEN None ELSE read
    /\ UNCHANGED <<broadcaster_vars, latest_acked_write, ops, listener, store>>

(* The environment starts, stops or cuts off a listener.                   *)
Change == changes < MaxChanges /\ changes' = changes + 1

(* registrar_t::on_delete(), or the disconnect watcher, after the listener *)
(* is gone; and a connection that breaks while it is alive.                *)
Deregister(s) == listener[s].stage = "off" /\ DestroyDispatchee(s) /\ UNCHANGED changes
Disconnect(s) == s # Primary /\ listener[s].stage # "off" /\ DestroyDispatchee(s) /\ Change

(* The drainer of the dispatchee lets the destructor finish.  With both    *)
(* ends gone nothing is left of what was sent.                             *)
DispatcheeDrained(s) ==
    /\ dispatchee[s] = "draining"
    /\ \A i \in 1 .. Len(ops[s]) : ~ops[s][i].running
    /\ dispatchee' = [dispatchee EXCEPT ![s] = "none"]
    /\ ops' = IF listener[s].stage = "off" THEN [ops EXCEPT ![s] = <<>>] ELSE ops
    /\ UNCHANGED <<broadcaster_vars, latest_acked_write, upgrades, read, listener, store, changes>>

-----------------------------------------------------------------------------
(* The broadcaster: reads                                                  *)

(* pick_a_readable_dispatchee(): the mirror that acked the newest write,   *)
(* the primary's own among equals.                                         *)
MostUpToDate ==
    LET best == {s \in Readable : \A r \in Readable : latest_acked_write[s] >= latest_acked_write[r]}
    IN  IF Primary \in best THEN {Primary} ELSE best

(* The writes whose success has been reported.                             *)
Acknowledged == {t \in Timestamps : callback[t] = "success"}

(* single_read() on the primary or on the most up-to-date mirror, and      *)
(* all_read() on every readable mirror, up to the sending of the requests. *)
StartRead(mirrors) ==
    /\ read = None /\ MaxReads = 1
    /\ read' = [from |-> mirrors, token |-> most_recent_acked_write_timestamp,
                must_see |-> Acknowledged]
    /\ UNCHANGED <<broadcaster_vars, dispatchee, latest_acked_write, ops, upgrades, listener, store, changes>>

(* listener_t::local_read(): waits for read_min_timestamp_enforcer_, then  *)
(* reads the store.                                                        *)
ReadMayGo(s) ==
    /\ read # None /\ s \in read.from
    /\ Streaming(s) /\ listener[s].min >= read.token

PerformRead(s) ==
    /\ ReadMayGo(s)
    /\ read' = IF read.from = {s} THEN None ELSE [read EXCEPT !.from = @ \ {s}]
    /\ UNCHANGED <<broadcaster_vars, dispatchee, latest_acked_write, ops, upgrades, listener, store, changes>>

-----------------------------------------------------------------------------
(* The listener: joining the branch                                        *)

(***************************************************************************)
(* What a store that stops looks like the next time it is opened.  A       *)
(* backfill that is cut short has applied some of its items, with the      *)
(* metainfo still the range set when it began.  A crash may also lose the  *)
(* latest transactions, which were not flushed.                            *)
(***************************************************************************)
CutShort(s) ==
    {[store[s] EXCEPT !.data = @ \cup items] :
        items \in IF listener[s].stage = "backfilling" THEN SUBSET listener[s].snapshot ELSE {{}}}
Unflushed(s) ==
    {[earliest |-> v, latest |-> v, data |-> store[s].data \cap (1 .. v)] : v \in 0 .. store[s].earliest}

(* The responses an operation has sent survive its listener; nothing else  *)
(* about it does.                                                          *)
Orphan(o) ==
    [o EXCEPT !.st = IF o.st = "done" \/ (o.kind = "write" /\ o.st # "sent") THEN "done" ELSE "sent"]

(* The listener_t of s, with its replier_t if there is one, is destroyed.  *)
(* A listener that backfills from s finds its replier lost.                *)
ListenerGone(s, stores) ==
    /\ listener' = [r \in Servers |-> IF r = s THEN NoListener
                                      ELSE IF listener[r].from = s
                                      THEN [listener[r] EXCEPT !.from = None]
                                      ELSE listener[r]]
    /\ \E st \in stores : store' = [store EXCEPT ![s] = st]
    /\ ops' = [ops EXCEPT ![s] = IF dispatchee[s] = "none" THEN <<>>
                                 ELSE [i \in 1 .. Len(@) |-> Orphan(@[i])]]
    /\ UNCHANGED <<broadcaster_vars, dispatchee, latest_acked_write, upgrades, read>>

(* The reactor starts a listener_t, which sends its registration.  A       *)
(* server has one dispatchee at a time.                                    *)
StartListener(s) ==
    /\ s # Primary /\ listener[s].stage = "off" /\ dispatchee[s] = "none"
    /\ Change
    /\ listener' = [listener EXCEPT ![s].stage = "registering"]
    /\ UNCHANGED <<broadcaster_vars, dispatchee, latest_acked_write, ops, upgrades, read, store>>

(* send_intro(), and the request to synchronize, sent to the replier r.    *)
Introduce(s, r) ==
    /\ listener[s].stage = "registered" /\ dispatchee[s] = "writes"
    /\ listener[r].stage = "replying"
    /\ BumpLatestAckedWrite(s, listener[s].begin)
    /\ listener' = [listener EXCEPT ![s].stage = "introduced", ![s].from = r]
    /\ UNCHANGED <<broadcaster_vars, dispatchee, ops, upgrades, read, store, changes>>

(* Mutant: on_synchronize() answers at once.                               *)
SynchronizedMutant(s, r) == TRUE

(* replier_t::on_synchronize() of r answers once wait_for_version() lets it. *)
Synchronized(s, r) == listener[r].current >= listener[s].begin

MayBackfill(s) ==
    /\ listener[s].stage = "introduced" /\ listener[s].from # None
    /\ Synchronized(s, listener[s].from)

(* Mutant: the backfill reads the store without a token.                   *)
StartBackfillMutant(s) ==
    LET r == listener[s].from
    IN  /\ MayBackfill(s)
        /\ Build = "debug" => store[s].latest <= listener[r].current
        /\ listener' = [listener EXCEPT
                          ![s].stage = "backfilling",
                          ![s].snapshot = {t \in store[r].data : t > store[s].earliest}]
        /\ store' = [store EXCEPT ![s].latest = listener[r].current]
        /\ UNCHANGED <<broadcaster_vars, dispatchee, latest_acked_write, ops, upgrades, read, changes>>

(***************************************************************************)
(* backfillee() asks for what changed since start_point.earliest.          *)
(* backfiller_t::on_backfill() on r reads under a token of its store, so   *)
(* after every write that already has one, and names the version it sends. *)
(* backfillee() sets the metainfo to the range from one to the other.  The *)
(* debug build's confirm_and_send_metainfo() aborts r when the start point *)
(* is ahead of it; a behaviour of that build ends there.                   *)
(***************************************************************************)
StartBackfill(s) ==
    LET r == listener[s].from
        tokens == {ops[r][i].ts : i \in {j \in 1 .. Len(ops[r]) : ops[r][j].st = "executing"}}
    IN  /\ MayBackfill(s)
        /\ Build = "debug" => store[s].latest <= listener[r].current
        /\ listener' = [listener EXCEPT
                          ![s].stage = "backfilling",
                          ![s].snapshot = {t \in store[r].data \cup tokens : t > store[s].earliest}]
        /\ store' = [store EXCEPT ![s].latest = listener[r].current]
        /\ UNCHANGED <<broadcaster_vars, dispatchee, latest_acked_write, ops, upgrades, read, changes>>

Queued(s) == {i \in 1 .. Len(ops[s]) : ops[s][i].st = "queued"}

(* The size test after which write_queue_has_drained_ is pulsed, with n    *)
(* writes left in the queue.                                               *)
StageWithQueue(n) == IF n <= DrainedSize THEN "drained" ELSE "streaming"

(* The last items arrive, backfillee() sets the final metainfo, and the    *)
(* constructor of listener_t starts on the queued writes.                  *)
FinishBackfill(s) ==
    LET end == store[s].latest
    IN  /\ listener[s].stage = "backfilling" /\ listener[s].from # None
        /\ store' = [store EXCEPT ![s].earliest = end,
                                  ![s].data = @ \cup listener[s].snapshot]
        /\ listener' = [listener EXCEPT ![s].stage = StageWithQueue(Cardinality(Queued(s))),
                                        ![s].from = None, ![s].snapshot = {},
                                        ![s].backfill_end = end, ![s].current = end, ![s].min = end]
        /\ UNCHANGED <<broadcaster_vars, dispatchee, latest_acked_write, ops, upgrades, read, changes>>

(* The constructor of listener_t returns and replier_t is constructed.     *)
StartReplier(s) ==
    /\ listener[s].stage = "drained"
    /\ listener' = [listener EXCEPT ![s].stage = "replying"]
    /\ upgrades' = IF dispatchee[s] = "writes" THEN upgrades \cup {s} ELSE upgrades
    /\ UNCHANGED <<broadcaster_vars, dispatchee, latest_acked_write, ops, read, store, changes>>

(* replier_access's failed signal: backfiller_lost_exc_t                   *)
BackfillerLost(s) ==
    /\ listener[s].stage \in {"introduced", "backfilling"} /\ listener[s].from = None
    /\ ListenerGone(s, CutShort(s))
    /\ UNCHANGED changes

(* get_broadcaster_lost_signal(), or broadcaster_lost_exc_t                *)
BroadcasterLost(s) ==
    /\ listener[s].stage \notin {"off", "registering"} /\ s \notin Dispatchees
    /\ ListenerGone(s, CutShort(s))
    /\ UNCHANGED changes

(* The reactor drops the replica, or its server crashes.                   *)
StopListener(s) ==
    /\ s # Primary /\ listener[s].stage # "off"
    /\ ListenerGone(s, CutShort(s) \cup Unflushed(s))
    /\ Change

-----------------------------------------------------------------------------
(* The listener: writes                                                    *)

(* local_write(): the write passes write_queue_entrance_sink_ and is put   *)
(* in write_queue_, which acknowledges it.                                 *)
EnqueueWrite(s, i) ==
    /\ listener[s].stage \notin {"off", "registering"}
    /\ ops[s][i].kind = "write" /\ ops[s][i].st = "sent"
    /\ \A j \in 1 .. i - 1 : ops[s][j].kind = "write" => ops[s][j].st # "sent"
    /\ ops' = [ops EXCEPT ![s][i].st = "queued"]
    /\ UNCHANGED <<broadcaster_vars, dispatchee, latest_acked_write, upgrades, read,
                   listener, store, changes>>

(* perform_enqueued_write() takes the head of the queue ...                *)
AtHeadOfQueue(s, i) ==
    /\ Streaming(s)
    /\ i \in Queued(s) /\ \A j \in Queued(s) : i <= j

StageAfterPop(s) ==
    IF listener[s].stage = "streaming" THEN StageWithQueue(Cardinality(Queued(s)) - 1)
    ELSE listener[s].stage

InBackfill(s, t) == t <= listener[s].backfill_end

(* ... and drops a write that was in the backfill, without waiting for its *)
(* turn at store_entrance_sink_.                                           *)
SkipWrite(s, i) ==
    /\ AtHeadOfQueue(s, i) /\ InBackfill(s, ops[s][i].ts)
    /\ ops' = [ops EXCEPT ![s][i].st = "skipped"]
    /\ listener' = [listener EXCEPT ![s].stage = StageAfterPop(s)]
    /\ UNCHANGED <<broadcaster_vars, dispatchee, latest_acked_write, upgrades, read, store, changes>>

(* The turn of operation i at store_entrance_sink_                         *)
StoreEntrance(s, i) ==
    \A j \in 1 .. i - 1 : ops[s][j].st \in {"skipped", "executing", "applied", "done"}

QueuedWriteMayGo(s, i) ==
    AtHeadOfQueue(s, i) /\ ~InBackfill(s, ops[s][i].ts) /\ StoreEntrance(s, i)

WritereadMayGo(s, i) ==
    /\ Streaming(s)
    /\ ops[s][i].kind = "writeread" /\ ops[s][i].st = "sent"
    /\ StoreEntrance(s, i)

(* advance_current_timestamp_and_pulse_waiters() and new_write_token()     *)
TakeWriteToken(s, i, stage) ==
    /\ listener' = [listener EXCEPT ![s].current = ops[s][i].ts, ![s].stage = stage]
    /\ ops' = [ops EXCEPT ![s][i].st = "executing"]
    /\ UNCHANGED <<broadcaster_vars, dispatchee, latest_acked_write, upgrades, read, store, changes>>

(* perform_enqueued_write() and local_writeread(), up to the call of       *)
(* svs_->write()                                                           *)
PerformEnqueuedWrite(s, i) == QueuedWriteMayGo(s, i) /\ TakeWriteToken(s, i, StageAfterPop(s))
LocalWriteread(s, i) == WritereadMayGo(s, i) /\ TakeWriteToken(s, i, listener[s].stage)

(* svs_->write() acquires the root, in the order of the write tokens, and  *)
(* sets the metainfo with the data.                                        *)
ApplyWrite(s, i) ==
    LET t == ops[s][i].ts
    IN  /\ Streaming(s) /\ ops[s][i].st = "executing"
        /\ \A j \in 1 .. i - 1 : ops[s][j].st # "executing"
        /\ ops' = [ops EXCEPT ![s][i].st = "applied"]
        /\ store' = [store EXCEPT ![s] = [earliest |-> t, latest |-> t, data |-> @.data \cup {t}]]
        /\ UNCHANGED <<broadcaster_vars, dispatchee, latest_acked_write, upgrades, read,
                       listener, changes>>

(***************************************************************************)
(* svs_->write() returns and mark_write_done() queues the timestamp, then  *)
(* moves read_min_timestamp_enforcer_ past every write whose predecessors  *)
(* are all done.                                                           *)
(***************************************************************************)
MarkWriteDone(s, i) ==
    LET after == [ops[s] EXCEPT ![i].st = "done"]
        in_order == {j \in 1 .. Len(after) : \A k \in 1 .. j : after[k].st \in {"skipped", "done"}}
        done == {after[j].ts : j \in in_order} \cup {listener[s].min}
    IN  /\ Streaming(s) /\ ops[s][i].st = "applied"
        /\ ops' = [ops EXCEPT ![s] = after]
        /\ listener' = [listener EXCEPT ![s].min = CHOOSE t \in done : \A u \in done : u <= t]
        /\ UNCHANGED <<broadcaster_vars, dispatchee, latest_acked_write, upgrades, read, store, changes>>

-----------------------------------------------------------------------------
OpsOf(s) == 1 .. Len(ops[s])

SomeWrite ==
    \/ SpawnWrite
    \/ \E t \in Timestamps : DropCallback(t)
    \/ \E s \in Servers : \E i \in OpsOf(s) :
         BackgroundWrite(s, i) \/ BackgroundWriteread(s, i) \/ BackgroundInterrupted(s, i)

SomeRead ==
    \/ StartRead({Primary}) \/ StartRead(Readable)
    \/ \E s \in MostUpToDate : StartRead({s})
    \/ \E s \in Servers : PerformRead(s)

SomeDispatchee ==
    \E s \in Servers :
        OnCreate(s) \/ Upgrade(s) \/ Deregister(s) \/ Disconnect(s) \/ DispatcheeDrained(s)

SomeListener ==
    \/ \E s \in Servers :
         \/ StartListener(s) \/ StartBackfill(s) \/ FinishBackfill(s) \/ StartReplier(s)
         \/ BackfillerLost(s) \/ BroadcasterLost(s) \/ StopListener(s)
    \/ \E s, r \in Servers : Introduce(s, r)
    \/ \E s \in Servers : \E i \in OpsOf(s) :
         \/ EnqueueWrite(s, i) \/ SkipWrite(s, i) \/ PerformEnqueuedWrite(s, i)
         \/ LocalWriteread(s, i) \/ ApplyWrite(s, i) \/ MarkWriteDone(s, i)

Next == SomeWrite \/ SomeRead \/ SomeDispatchee \/ SomeListener

Spec == Init /\ [][Next]_vars

(* What a server, and what an operation at a server, is bound to do.       *)
ServerMustStep(s) ==
    \/ OnCreate(s) \/ Upgrade(s) \/ Deregister(s) \/ DispatcheeDrained(s)
    \/ \E r \in Servers : Introduce(s, r)
    \/ StartBackfill(s) \/ FinishBackfill(s) \/ StartReplier(s)
    \/ BackfillerLost(s) \/ BroadcasterLost(s) \/ PerformRead(s)

OpMustStep(s, i) ==
    /\ i \in OpsOf(s)
    /\ \/ BackgroundWrite(s, i) \/ BackgroundWriteread(s, i) \/ BackgroundInterrupted(s, i)
       \/ EnqueueWrite(s, i) \/ SkipWrite(s, i) \/ PerformEnqueuedWrite(s, i)
       \/ LocalWriteread(s, i) \/ ApplyWrite(s, i) \/ MarkWriteDone(s, i)

(***************************************************************************)
(* The scheduler runs every runnable coroutine, connected mailboxes        *)
(* deliver, stores finish their operations, and a lost peer is noticed.    *)
(* Nothing is assumed of clients, of the reactor's starting and stopping   *)
(* of replicas, or of crashes.  This is less than the code gives: a server *)
(* may put off any one of its steps for as long as it has others to take.  *)
(***************************************************************************)
Fairness ==
    \A s \in Servers :
        /\ WF_vars(ServerMustStep(s))
        /\ \A i \in Timestamps : WF_vars(OpMustStep(s, i))

FairSpec == Spec /\ Fairness

-----------------------------------------------------------------------------
(* Properties                                                              *)

(* The values the variables of the broadcaster, its dispatchees, the       *)
(* listeners and the stores take.                                          *)
TypeOK ==
    /\ current_timestamp \in Versions /\ newest_complete_timestamp \in Versions
    /\ most_recent_acked_write_timestamp \in Versions
    /\ incomplete_writes \in Seq(Timestamps)
    /\ callback \in [Timestamps -> {"unused", "pending", "success", "failure", "dropped"}]
    /\ ack_set \in [Timestamps -> SUBSET Servers]
    /\ dispatchee \in [Servers -> {"none", "writes", "readable", "draining"}]
    /\ latest_acked_write \in [Servers -> Versions]
    /\ ops \in [Servers -> Seq(Op)]
    /\ upgrades \subseteq Servers
    /\ read # None => read \in [from : SUBSET Servers, token : Versions,
                                must_see : SUBSET Timestamps]
    /\ listener \in [Servers -> [stage : Stages, begin : Versions, from : Servers \cup {None},
                                 snapshot : SUBSET Timestamps, backfill_end : Versions,
                                 current : Versions, min : Versions]]
    /\ store \in [Servers -> [earliest : Versions, latest : Versions, data : SUBSET Timestamps]]
    /\ changes \in 0 .. MaxChanges

(* broadcaster_t::sanity_check() and the guarantee in end_write(): the     *)
(* incomplete writes are exactly those after newest_complete_timestamp up  *)
(* to current_timestamp, in order, whatever order they end in.             *)
SanityCheck ==
    /\ Len(incomplete_writes) = current_timestamp - newest_complete_timestamp
    /\ \A i \in 1 .. Len(incomplete_writes) : incomplete_writes[i] = newest_complete_timestamp + i

(* The race the constructor of dispatchee_t guards against: a mirror that  *)
(* joins while writes start and end is sent each write after its           *)
(* streaming_begin_point exactly once, in timestamp order.                 *)
DispatchedExactlyOnce ==
    \A s \in Dispatchees : listener[s].stage \notin {"off", "registering"} =>
        /\ Len(ops[s]) = current_timestamp - listener[s].begin
        /\ \A i \in OpsOf(s) : ops[s][i].ts = listener[s].begin + i

(* The guarantees of listener_t: the backfill reaches the point the stream *)
(* begins at, and a write gets its write token, from the queue or as a     *)
(* writeread, exactly when the listener is at the timestamp before it.     *)
ListenerGuarantees ==
    \A s \in Servers : Streaming(s) =>
        /\ listener[s].backfill_end >= listener[s].begin
        /\ \A i \in OpsOf(s) :
             QueuedWriteMayGo(s, i) \/ WritereadMayGo(s, i) =>
                 ops[s][i].ts = listener[s].current + 1

(* What replication is for: a store whose metainfo says it is at version v *)
(* holds the writes up to v, each of them and no other, however they came: *)
(* by backfill, from the queue or as writereads, over restarts and crashes.*)
(* One that was cut short in a backfill is between its two versions.       *)
StoreIsPrefix ==
    \A s \in Servers :
        /\ 1 .. store[s].earliest \subseteq store[s].data
        /\ store[s].data \subseteq 1 .. store[s].latest

(* broadcaster.hpp:221: once a write is acked, every read initiated after  *)
(* that sees it, on whichever mirror the read is performed.                *)
AckedWritesAreSeen ==
    \A s \in Servers : ReadMayGo(s) => read.must_see \subseteq store[s].data

(* on_success() is called when the acks satisfy the ack checker, and       *)
(* on_failure(true) only when they cannot any more: the write has ended    *)
(* everywhere and the acks that came do not satisfy it.                    *)
AnswersMatchAcks ==
    \A t \in Timestamps :
        /\ callback[t] = "success" => ack_set[t] \in AckSets
        /\ callback[t] = "failure" =>
             /\ ack_set[t] \notin AckSets
             /\ \A s \in Servers : \A i \in OpsOf(s) : ops[s][i].ts = t => ~ops[s][i].running

(* Every write is answered: acks arrive, or the mirrors that do not send   *)
(* one are lost and the last reference calls end_write().                  *)
WritesAreAnswered ==
    \A t \in Timestamps : callback[t] = "pending" ~> callback[t] # "pending"

(* A listener that starts ends up as a readable mirror, unless it, its     *)
(* backfiller or its connection is lost on the way: synchronizing,         *)
(* backfilling and draining the queue cannot wait for each other for ever. *)
JoinersBecomeReadable ==
    \A s \in Servers : listener[s].stage = "registering" ~>
        (listener[s].stage = "off" \/ dispatchee[s] = "readable")

(* Mirrors catch up: once no more writes come, every mirror that stays has *)
(* every write there was in its store, whether it came as a write to a     *)
(* dispatchee, from the queue of a joining listener or with a backfill.    *)
MirrorsCatchUp ==
    <>[](\A s \in Servers : (s \in Dispatchees /\ listener[s].stage # "off") =>
             store[s].data = 1 .. current_timestamp)

(***************************************************************************)
(* The branch implements ReplicatedLog.  A store that is being backfilled  *)
(* counts as the version its backfill began at.                            *)
(***************************************************************************)
Log == INSTANCE ReplicatedLog WITH
         length <- current_timestamp, answer <- callback,
         contents <- [s \in Servers |-> IF Coherent(s) THEN store[s].data
                                        ELSE store[s].data \cap (1 .. store[s].earliest)],
         reading <- IF read = None THEN None
                    ELSE [from |-> read.from, must_see |-> read.must_see]

(* Whatever joins, leaves, crashes and is backfilled underneath, clients   *)
(* cannot tell the broadcaster, its listeners and their repliers from one  *)
(* log with replicas that hold prefixes of it.                             *)
ImplementsLog == Log!Spec

(* All of it together: what a broadcaster and its mirrors may rely on,     *)
(* whoever joins, stops or crashes, and whatever order messages come in.   *)
BranchInv ==
    /\ TypeOK /\ SanityCheck /\ DispatchedExactlyOnce
    /\ ListenerGuarantees /\ StoreIsPrefix
    /\ AnswersMatchAcks /\ AckedWritesAreSeen

(* Nobody waits for ever: not a client for the outcome of a write, not a   *)
(* replica to become readable, not a mirror for writes.                    *)
BranchProgress == WritesAreAnswered /\ JoinersBecomeReadable /\ MirrorsCatchUp

-----------------------------------------------------------------------------
(* What the comments say and the code does not do                          *)

(* confirm_and_send_metainfo(), backfiller.cc:57: the start point of a     *)
(* backfill is in the past of the backfiller.                              *)
StartPointInOurPast ==
    \A s \in Servers : MayBackfill(s) =>
        store[s].latest <= listener[listener[s].from].current

=============================================================================
