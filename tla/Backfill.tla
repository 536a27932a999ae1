------------------------------ MODULE Backfill ------------------------------
(***************************************************************************)
(* A backfill: backfillee() brings a store up to date with the store of a  *)
(* backfiller_t on another server                                          *)
(* (src/src/clustering/immediate_consistency/branch/backfillee.cc and      *)
(* backfiller.cc).                                                         *)
(*                                                                         *)
(* The data of a store is, for each of Keys parts of its region, the       *)
(* version of the backfiller that part is at; chunk i of a backfill brings *)
(* part i to the backfiller's version.  The metainfo is a version range    *)
(* <<earliest, latest>>.  Transactions of a store become visible in the    *)
(* order in which they take its superblock and reach the disk in that      *)
(* order.                                                                  *)
(*                                                                         *)
(* A message may overtake another, except that what a backfillee sends to  *)
(* the backfiller over one connection arrives in order.  A chunk travels   *)
(* as <<"item", session, i>>; the message that the backfill is over is the *)
(* item after the last chunk.                                              *)
(***************************************************************************)
EXTENDS Integers, Sequences, FiniteSets

CONSTANTS Keys,             \* how many chunks a backfill has when it has any
          MAX_CHUNKS_OUT,
          ALLOCATION_CHUNK,
          CHUNK_PROCESSING_CONCURRENCY,
          MaxVersion,       \* bound: the versions the backfiller reaches
          MaxSessions,      \* bound: how many backfills are started
          MaxInterrupts,    \* bound: how many backfills are interrupted
          MaxCrashes,       \* bound: how often the backfillee's server crashes
          MaxLosses         \* bound: how often the backfiller goes away

(* The comments at both definitions ask for MAX_CHUNKS_OUT >=              *)
(* ALLOCATION_CHUNK.                                                       *)
ASSUME BackfillAssumption ==
    /\ Keys \in Nat /\ MaxVersion \in Nat /\ MaxSessions \in Nat
    /\ MaxInterrupts \in Nat /\ MaxCrashes \in Nat /\ MaxLosses \in Nat
    /\ ALLOCATION_CHUNK \in Nat \ {0}
    /\ MAX_CHUNKS_OUT \in Nat /\ MAX_CHUNKS_OUT >= ALLOCATION_CHUNK
    /\ CHUNK_PROCESSING_CONCURRENCY \in Nat \ {0}

Sessions == 1 .. MaxSessions
BfVersions == 0 .. MaxVersion
Items    == 1 .. Keys + 1

VARIABLES
    phase,          \* where backfillee() is
    session,        \* backfill_session_id, 0 before the first backfill
    start_point,    \* the metainfo read at the start
    end_point,      \* the promise end_point_cond, {} until it is pulsed
    alloc_mailbox,  \* the promise alloc_mailbox_promise, likewise
    item,           \* chunk_queue and the workers: how far each item has come
    last_timestamp, \* chunk_queue.state.last_timestamp
    tokens,         \* the write tokens waiting for the superblock
    unacked_chunks, num_outstanding_chunks, done_cond,
    mem,            \* the store as its transactions see it
    pending,        \* its transactions that have not reached the disk
    disk,           \* the store as a restart would find it
    history,        \* whether the branch history knows the backfiller's branch
    backfiller,     \* the sessions of the backfiller
    version,        \* the version of the backfiller's store
    net,            \* the messages in flight
    faults          \* how many interrupts, crashes and losses there were

backfilleeVars == <<phase, session, start_point, end_point, alloc_mailbox>>
workerVars == <<item, last_timestamp, tokens, unacked_chunks, num_outstanding_chunks, done_cond>>
storeVars  == <<mem, pending, disk, history>>
senderVars == <<backfiller, version>>
bfVars == <<backfilleeVars, workerVars, storeVars, senderVars, net, faults>>

Phases == {"idle", "wait_alloc", "wait_end", "import", "mark", "marking",
           "receive", "aborting", "finish", "finishing"}

(* "acking": applied, but the allocation it earned is not sent yet.        *)
InWorker == {"popped", "throttled", "token", "entered", "acking"}
ItemStates == {"none", "queued", "finished", "dropped"} \cup InWorker

StoreStates == [data : [1 .. Keys -> BfVersions], metainfo : BfVersions \X BfVersions]

(* A session of the backfiller: current is the number of units of          *)
(* chunk_semaphore taken, allocations the number of allocation messages on *)
(* their way to it, items how many items there are to send.                *)
SessionStates ==
    [state : {"none", "import", "traverse", "send", "over", "lost"},
     interrupted : BOOLEAN, since : BfVersions, current : 0 .. MAX_CHUNKS_OUT,
     sent : 0 .. Keys + 1, items : 0 .. Keys + 1, allocations : 0 .. Keys]

NoSession == [state |-> "none", interrupted |-> FALSE, since |-> 0, current |-> 0,
              sent |-> 0, items |-> 0, allocations |-> 0]

BfInit ==
    /\ phase = "idle" /\ session = 0
    /\ start_point = <<0, 0>> /\ end_point = {} /\ alloc_mailbox = {}
    /\ item = [i \in Items |-> "none"] /\ last_timestamp = 0 /\ tokens = <<>>
    /\ unacked_chunks = 0 /\ num_outstanding_chunks = 0 /\ done_cond = FALSE
    /\ mem = [data |-> [k \in 1 .. Keys |-> 0], metainfo |-> <<0, 0>>]
    /\ disk = mem /\ pending = <<>> /\ history = "no"
    /\ backfiller = [s \in Sessions |-> NoSession]
    /\ version = 0 /\ net = {}
    /\ faults = [interrupts |-> 0, crashes |-> 0, losses |-> 0]

-----------------------------------------------------------------------------
(* The store.                                                              *)

(* What a transaction does to the store: a chunk brings one part to a      *)
(* version, set_metainfo writes a version range.                           *)
Performed(op, st) ==
    IF op[1] = "chunk" THEN [st EXCEPT !.data[op[2]] = op[3]]
                       ELSE [st EXCEPT !.metainfo = <<op[2], op[3]>>]

(* A transaction takes the superblock.                                     *)
EnterStore(op) == mem' = Performed(op, mem) /\ pending' = Append(pending, op)

(* The oldest transaction reaches the disk.                                *)
Flush ==
    /\ pending # <<>>
    /\ disk' = Performed(Head(pending), disk) /\ pending' = Tail(pending)
    /\ UNCHANGED <<backfilleeVars, workerVars, mem, history, senderVars, net, faults>>

(* With write_durability_t::HARD a transaction ends when it is on disk.    *)
OnDisk(op) == \A i \in DOMAIN pending : pending[i] # op

-----------------------------------------------------------------------------
(* The chunk queue, a fifo_enforcer_queue_t, and the coro_pool_t that      *)
(* empties it.                                                             *)

PoolRuns(ph) == ph = "receive"

(* consider_changing_available() and on_source_availability_changed(): the *)
(* item after last_timestamp goes to a worker as soon as one is free.      *)
Pumped(ph, it, ts) ==
    LET busy == Cardinality({i \in Items : it[i] \in InWorker})
    IN  IF PoolRuns(ph) /\ ts + 1 \in Items /\ busy < CHUNK_PROCESSING_CONCURRENCY
        THEN IF it[ts + 1] = "queued" THEN [it EXCEPT ![ts + 1] = "popped"] ELSE it
        ELSE it

(* chunk_queue->finish_write(), for item i that goes on to state st.       *)
FinishWrite(i, st) ==
    /\ last_timestamp' = i
    /\ item' = Pumped(phase, [item EXCEPT ![i] = st], i)

(* A worker is done with item i and takes the next one, if there is any.   *)
LeavePool(i, st) == item' = Pumped(phase, [item EXCEPT ![i] = st], last_timestamp)

IsChunk(i) == i # backfiller[session].items

EmptyQueue ==
    /\ item' = [i \in Items |-> "none"] /\ last_timestamp' = 0 /\ tokens' = <<>>
    /\ unacked_chunks' = 0 /\ num_outstanding_chunks' = 0 /\ done_cond' = FALSE

-----------------------------------------------------------------------------
(* backfillee().                                                           *)

MailboxesExist == phase \in {"wait_alloc", "wait_end", "import", "mark", "marking",
                             "receive", "aborting"}

ToBackfillee == {"alloc_mailbox", "end_point", "item"}

(* What the network still delivers when the mailboxes of the backfillee    *)
(* are gone.                                                               *)
Undeliverable == {m \in net : m[1] \in ToBackfillee}

(* Mutant: the backfill starts from the latest version of the range.       *)
BeginBackfillMutant ==
    /\ phase = "idle" /\ session < MaxSessions
    /\ session' = session + 1
    /\ start_point' = mem.metainfo
    /\ end_point' = {} /\ alloc_mailbox' = {}
    /\ net' = net \cup {<<"request", session', mem.metainfo[2]>>}
    /\ phase' = "wait_alloc"
    /\ UNCHANGED <<workerVars, storeVars, senderVars, faults>>

(* The backfill reads where its store is and sends its request.            *)
BeginBackfill ==
    /\ phase = "idle" /\ session < MaxSessions
    /\ session' = session + 1
    /\ start_point' = mem.metainfo
    /\ end_point' = {} /\ alloc_mailbox' = {}
    /\ net' = net \cup {<<"request", session', mem.metainfo[1]>>}
    /\ phase' = "wait_alloc"
    /\ UNCHANGED <<workerVars, storeVars, senderVars, faults>>

ReceiveAllocMailbox ==
    /\ <<"alloc_mailbox", session>> \in net
    /\ net' = net \ {<<"alloc_mailbox", session>>}
    /\ alloc_mailbox' = {session}
    /\ UNCHANGED <<phase, session, start_point, end_point, workerVars, storeVars, senderVars, faults>>

ReceiveEndPoint ==
    /\ \E v \in BfVersions :
          /\ <<"end_point", session, v>> \in net
          /\ net' = net \ {<<"end_point", session, v>>}
          /\ end_point' = {v}
    /\ UNCHANGED <<phase, session, start_point, alloc_mailbox, workerVars, storeVars, senderVars, faults>>

(* chunk_mailbox and done_mailbox: the item is put into chunk_queue.       *)
ReceiveItem(i) ==
    /\ <<"item", session, i>> \in net
    /\ net' = net \ {<<"item", session, i>>}
    /\ item' = Pumped(phase, [item EXCEPT ![i] = "queued"], last_timestamp)
    /\ UNCHANGED <<last_timestamp, tokens, unacked_chunks, num_outstanding_chunks, done_cond,
                   backfilleeVars, storeVars, senderVars, faults>>

BackfillerFailed == backfiller[session].state = "lost"

(* The two waits, each followed by backfiller.access(), which throws when  *)
(* the backfiller is lost.  import_branch_history() is called next.        *)
GotPromise ==
    /\ \/ phase = "wait_alloc" /\ alloc_mailbox # {} /\ phase' = "wait_end"
          /\ UNCHANGED history
       \/ phase = "wait_end" /\ end_point # {} /\ phase' = "import"
          /\ history' = IF history = "no" THEN "memory" ELSE history
    /\ ~BackfillerFailed
    /\ UNCHANGED <<session, start_point, end_point, alloc_mailbox, workerVars,
                   mem, pending, disk, senderVars, net, faults>>

(* flusher.sync() returns once the branch history is on disk.              *)
HistoryRecorded ==
    /\ phase = "import" /\ phase' = "mark" /\ history' = "disk"
    /\ UNCHANGED <<session, start_point, end_point, alloc_mailbox, workerVars,
                   mem, pending, disk, senderVars, net, faults>>

EndVersion == CHOOSE v \in end_point : TRUE
(* Mutant: the span starts at zero, not at the start point.                *)
SpanOpMutant == <<"set_metainfo", 0, EndVersion>>

SpanOp == <<"set_metainfo", start_point[1], EndVersion>>
FinalOp == <<"set_metainfo", EndVersion, EndVersion>>

(* The metainfo is set: to the span before the chunks are applied, to the  *)
(* end point once they all are.                                            *)
SetMetainfo ==
    /\ \/ phase = "mark" /\ phase' = "marking" /\ EnterStore(SpanOp)
       \/ phase = "finish" /\ phase' = "finishing" /\ EnterStore(FinalOp)
    /\ UNCHANGED <<session, start_point, end_point, alloc_mailbox, workerVars,
                   disk, history, senderVars, net, faults>>

(* The span is on disk: the workers start.                                 *)
StartWorkers ==
    /\ phase = "marking" /\ OnDisk(SpanOp)
    /\ phase' = "receive"
    /\ item' = Pumped(phase', item, last_timestamp)
    /\ UNCHANGED <<session, start_point, end_point, alloc_mailbox, last_timestamp, tokens,
                   unacked_chunks, num_outstanding_chunks, done_cond, storeVars, senderVars,
                   net, faults>>

(* done_cond is pulsed: the cancel message is disarmed, and the pool, the  *)
(* queue and the mailboxes are destroyed.                                  *)
AllReceived ==
    /\ phase = "receive" /\ done_cond /\ ~BackfillerFailed
    /\ phase' = "finish"
    /\ EmptyQueue
    /\ net' = net \ Undeliverable
    /\ UNCHANGED <<session, start_point, end_point, alloc_mailbox, storeVars, senderVars, faults>>

BackfillDone ==
    /\ phase = "finishing" /\ OnDisk(FinalOp)
    /\ phase' = "idle"
    /\ UNCHANGED <<session, start_point, end_point, alloc_mailbox, workerVars, storeVars,
                   senderVars, net, faults>>

(* backfillee() throws because it is interrupted, or because its           *)
(* backfiller is lost; after the last wait for the backfiller, and in      *)
(* set_metainfo(), only the interruptor counts.                            *)
Interrupted ==
    /\ faults.interrupts < MaxInterrupts
    /\ faults' = [faults EXCEPT !.interrupts = @ + 1]

ResourceLost ==
    /\ phase \notin {"mark", "finish"} /\ BackfillerFailed
    /\ UNCHANGED faults

(* The destructors: the queue goes, and backfiller_notifier sends the      *)
(* cancel message unless it was disarmed.                                  *)
GiveUp ==
    /\ phase' = "idle"
    /\ EmptyQueue
    /\ net' = (net \ Undeliverable)
              \cup (IF phase = "finish" \/ BackfillerFailed THEN {} ELSE {<<"cancel", session>>})

(* The exception takes effect at once, or, once there are workers, when    *)
(* they are drained.                                                       *)
Throw ==
    /\ \/ phase \in {"wait_alloc", "wait_end", "mark", "finish"} /\ GiveUp
       \/ /\ phase = "receive" /\ phase' = "aborting"
          /\ UNCHANGED <<workerVars, net>>
    /\ UNCHANGED <<session, start_point, end_point, alloc_mailbox, storeVars, senderVars>>

Interrupt == Throw /\ Interrupted

(* Mutant: only the first wait looks at the failed signal.                 *)
LoseResourceMutant == phase = "wait_alloc" /\ Throw /\ ResourceLost

LoseResource == Throw /\ ResourceLost

WorkersDrained ==
    /\ phase = "aborting" /\ \A i \in Items : item[i] \notin InWorker
    /\ GiveUp
    /\ UNCHANGED <<session, start_point, end_point, alloc_mailbox, storeVars, senderVars, faults>>

-----------------------------------------------------------------------------
(* chunk_callback_t, run by a worker on item i.                            *)

ChunkOp(i) == <<"chunk", i, EndVersion>>

DoneMessageArrived(it) == it[backfiller[session].items] = "finished"

(* The end of coro_pool_callback().                                        *)
PulseDoneCond ==
    done_cond' = (done_cond \/ (DoneMessageArrived(item') /\ num_outstanding_chunks' = 0))

(* A chunk: it is counted, then it waits in throttle_backfill_chunk().     *)
StartChunk(i) ==
    /\ phase = "receive" /\ item[i] = "popped" /\ IsChunk(i)
    /\ num_outstanding_chunks' = num_outstanding_chunks + 1
    /\ item' = [item EXCEPT ![i] = "throttled"]
    /\ UNCHANGED <<last_timestamp, tokens, unacked_chunks, done_cond, backfilleeVars,
                   storeVars, senderVars, net, faults>>

(* It takes its write token, and only then lets the next item go.          *)
TakeToken(i) ==
    /\ phase = "receive" /\ item[i] = "throttled"
    /\ tokens' = Append(tokens, i)
    /\ FinishWrite(i, "token")
    /\ UNCHANGED <<unacked_chunks, num_outstanding_chunks, done_cond, backfilleeVars,
                   storeVars, senderVars, net, faults>>

(* receive_backfill(): the token reaches the superblock.                   *)
ApplyChunk(i) ==
    /\ phase = "receive" /\ item[i] = "token" /\ Head(tokens) = i
    /\ tokens' = Tail(tokens)
    /\ EnterStore(ChunkOp(i))
    /\ item' = [item EXCEPT ![i] = "entered"]
    /\ UNCHANGED <<last_timestamp, unacked_chunks, num_outstanding_chunks, done_cond,
                   backfilleeVars, disk, history, senderVars, net, faults>>

(* receive_backfill() returns.  Every ALLOCATION_CHUNK-th chunk has an     *)
(* allocation to send, the others are done.                                *)
AckChunk(i) ==
    /\ item[i] = "entered" /\ OnDisk(ChunkOp(i))
    /\ \/ /\ unacked_chunks + 1 = ALLOCATION_CHUNK
          /\ unacked_chunks' = 0
          /\ item' = [item EXCEPT ![i] = "acking"]
          /\ UNCHANGED <<num_outstanding_chunks, done_cond>>
       \/ /\ unacked_chunks + 1 # ALLOCATION_CHUNK
          /\ unacked_chunks' = unacked_chunks + 1
          /\ num_outstanding_chunks' = num_outstanding_chunks - 1
          /\ LeavePool(i, "finished")
          /\ PulseDoneCond
    /\ UNCHANGED <<last_timestamp, tokens, backfilleeVars, storeVars, senderVars, net, faults>>

(* The allocation is sent, unless the backfiller is gone.                  *)
SendAllocation(i) ==
    /\ item[i] = "acking"
    /\ backfiller' = [backfiller EXCEPT ![session].allocations =
                         IF backfiller[session].state \in {"over", "lost"} THEN @ ELSE @ + 1]
    /\ num_outstanding_chunks' = num_outstanding_chunks - 1
    /\ LeavePool(i, "finished")
    /\ PulseDoneCond
    /\ UNCHANGED <<last_timestamp, tokens, unacked_chunks, backfilleeVars, storeVars, version,
                   net, faults>>

(* The item that says that the backfill is over.                           *)
DoneMessage(i) ==
    /\ phase = "receive" /\ item[i] = "popped" /\ ~IsChunk(i)
    /\ FinishWrite(i, "finished")
    /\ UNCHANGED num_outstanding_chunks
    /\ PulseDoneCond
    /\ UNCHANGED <<tokens, unacked_chunks, backfilleeVars, storeVars, senderVars, net, faults>>

(* The pool is being destroyed: what waits is interrupted, in the throttle *)
(* after a finish_write().                                                 *)
InterruptWorker(i) ==
    /\ phase = "aborting" /\ item[i] \in {"popped", "throttled", "token"}
    /\ item' = [item EXCEPT ![i] = "dropped"]
    /\ last_timestamp' = IF item[i] = "throttled" THEN i ELSE last_timestamp
    /\ tokens' = SelectSeq(tokens, LAMBDA j : j # i)
    /\ UNCHANGED <<unacked_chunks, num_outstanding_chunks, done_cond, backfilleeVars, storeVars,
                   senderVars, net, faults>>

(* The server of the backfillee crashes and restarts.  The backfiller is   *)
(* told nothing; a request on its way may be lost with the connection.     *)
Crash ==
    /\ faults.crashes < MaxCrashes /\ phase # "idle"
    /\ faults' = [faults EXCEPT !.crashes = @ + 1]
    /\ mem' = disk /\ pending' = <<>> /\ UNCHANGED disk
    /\ history' = IF history = "memory" THEN "no" ELSE history
    /\ phase' = "idle"
    /\ EmptyQueue
    /\ \E lost \in SUBSET {m \in net : m[1] = "request"} : net' = (net \ Undeliverable) \ lost
    /\ backfiller' = [backfiller EXCEPT ![session].allocations = 0]
    /\ UNCHANGED <<session, start_point, end_point, alloc_mailbox, version>>

-----------------------------------------------------------------------------
(* backfiller_t, in session s.                                             *)

SendTo(s, m) == IF s = session /\ MailboxesExist THEN net \cup {m} ELSE net

Send(s, m) == net' = SendTo(s, m)

(* on_backfill(), up to import_branch_history().                           *)
OnBackfill(s) ==
    /\ \E e \in BfVersions :
          /\ <<"request", s, e>> \in net
          /\ backfiller' = [backfiller EXCEPT ![s].state = "import", ![s].since = e]
          /\ net' = SendTo(s, <<"alloc_mailbox", s>>) \ {<<"request", s, e>>}
    /\ UNCHANGED <<backfilleeVars, workerVars, storeVars, version, faults>>

(* The import ends.  It is not interrupted by a cancel message.            *)
Imported(s) ==
    /\ backfiller[s].state = "import"
    /\ backfiller' = [backfiller EXCEPT ![s].state = "traverse"]
    /\ UNCHANGED <<backfilleeVars, workerVars, storeVars, version, net, faults>>

(* send_backfill() has the superblock: confirm_and_send_metainfo().  The   *)
(* traversal sees the store as of now and skips what is as old as since.   *)
SendEndPoint(s) ==
    /\ backfiller[s].state = "traverse" /\ ~backfiller[s].interrupted
    /\ backfiller' = [backfiller EXCEPT ![s].state = "send",
                         ![s].items = IF backfiller[s].since = version THEN 1 ELSE Keys + 1]
    /\ Send(s, <<"end_point", s, version>>)
    /\ UNCHANGED <<backfilleeVars, workerVars, storeVars, version, faults>>

(* send_chunk(): a unit of chunk_semaphore is taken, and the chunk is sent *)
(* with the next write token of the session.                               *)
SendChunk(s) ==
    /\ backfiller[s].state = "send" /\ ~backfiller[s].interrupted
    /\ backfiller[s].sent + 1 < backfiller[s].items
    /\ backfiller[s].current < MAX_CHUNKS_OUT
    /\ backfiller' = [backfiller EXCEPT ![s].current = @ + 1, ![s].sent = @ + 1]
    /\ Send(s, <<"item", s, backfiller[s].sent + 1>>)
    /\ UNCHANGED <<backfilleeVars, workerVars, storeVars, version, faults>>

(* The traversal is over: the done message goes out, the session ends.     *)
SendDone(s) ==
    /\ backfiller[s].state = "send" /\ ~backfiller[s].interrupted
    /\ backfiller[s].sent + 1 = backfiller[s].items
    /\ backfiller' = [backfiller EXCEPT ![s].state = "over", ![s].sent = @ + 1, ![s].allocations = 0]
    /\ Send(s, <<"item", s, backfiller[s].sent + 1>>)
    /\ UNCHANGED <<backfilleeVars, workerVars, storeVars, version, faults>>

(* receive_allocations_mbox: an allocation arrives.                        *)
ReceiveAllocation(s) ==
    /\ backfiller[s].allocations > 0
    /\ backfiller' = [backfiller EXCEPT ![s].allocations = @ - 1, ![s].current = @ - ALLOCATION_CHUNK]
    /\ UNCHANGED <<backfilleeVars, workerVars, storeVars, version, net, faults>>

(* on_cancel_backfill(): it pulses local_interruptor, if the session is    *)
(* still there.                                                            *)
OnCancelBackfill(s) ==
    /\ <<"cancel", s>> \in net /\ \A e \in BfVersions : <<"request", s, e>> \notin net
    /\ net' = net \ {<<"cancel", s>>}
    /\ backfiller' = [backfiller EXCEPT ![s].interrupted = backfiller[s].state \in {"import", "traverse", "send"}]
    /\ UNCHANGED <<backfilleeVars, workerVars, storeVars, version, faults>>

(* on_backfill() catches interrupted_exc_t, and the session ends.          *)
SessionInterrupted(s) ==
    /\ backfiller[s].state \in {"traverse", "send"} /\ backfiller[s].interrupted
    /\ backfiller' = [backfiller EXCEPT ![s].state = "over", ![s].allocations = 0]
    /\ UNCHANGED <<backfilleeVars, workerVars, storeVars, version, net, faults>>

(* The backfiller is destroyed, and its business card leaves the           *)
(* directory.  Another one, as far along, takes its place.                 *)
LoseBackfiller ==
    /\ faults.losses < MaxLosses /\ session > 0
    /\ faults' = [faults EXCEPT !.losses = @ + 1]
    /\ backfiller' = [s \in Sessions |->
          IF s <= session THEN [backfiller[s] EXCEPT !.state = "lost", !.allocations = 0]
                          ELSE backfiller[s]]
    /\ net' = {m \in net : m[1] \in ToBackfillee}
    /\ UNCHANGED <<backfilleeVars, workerVars, storeVars, version>>

(* Writes reach the backfiller's store.                                    *)
Advance ==
    /\ version < MaxVersion /\ version' = version + 1
    /\ UNCHANGED <<backfilleeVars, workerVars, storeVars, backfiller, net, faults>>

-----------------------------------------------------------------------------
BackfilleeStep ==
    \/ BeginBackfill \/ ReceiveAllocMailbox \/ ReceiveEndPoint
    \/ GotPromise \/ HistoryRecorded \/ SetMetainfo \/ StartWorkers
    \/ AllReceived \/ BackfillDone \/ Interrupt \/ LoseResource \/ WorkersDrained
    \/ Crash \/ Flush

ItemStep(i) ==
    \/ ReceiveItem(i) \/ StartChunk(i) \/ TakeToken(i) \/ ApplyChunk(i)
    \/ AckChunk(i) \/ SendAllocation(i) \/ DoneMessage(i) \/ InterruptWorker(i)

SessionStep(s) ==
    \/ OnBackfill(s) \/ Imported(s) \/ SendEndPoint(s) \/ SendChunk(s) \/ SendDone(s)
    \/ ReceiveAllocation(s) \/ OnCancelBackfill(s) \/ SessionInterrupted(s)

BfNext ==
    \/ BackfilleeStep
    \/ \E i \in Items : ItemStep(i)
    \/ \E s \in Sessions : SessionStep(s)
    \/ LoseBackfiller \/ Advance

BfSpec == BfInit /\ [][BfNext]_bfVars

(* Coroutines get to run, messages over a connection that stands arrive,   *)
(* and the disk writes.  Nothing has to be interrupted, crash or be lost,  *)
(* and no backfill has to be started.                                      *)
MustStep ==
    \/ ReceiveAllocMailbox \/ ReceiveEndPoint
    \/ GotPromise \/ HistoryRecorded \/ SetMetainfo \/ StartWorkers
    \/ AllReceived \/ BackfillDone \/ LoseResource \/ WorkersDrained \/ Flush

BfFairness ==
    /\ WF_bfVars(MustStep)
    /\ \A i \in Items : WF_bfVars(ItemStep(i))
    /\ \A s \in Sessions : WF_bfVars(SessionStep(s))

BfFairSpec == BfSpec /\ BfFairness

-----------------------------------------------------------------------------
(* The variables of backfillee(), its workers, its store and the           *)
(* backfiller keep their types; in particular chunk_semaphore never has    *)
(* more than its capacity taken, nor less than nothing, which is what      *)
(* rassert(current >= count) in static_semaphore_t::unlock() asks.         *)
BfTypeOK ==
    /\ phase \in Phases /\ session \in 0 .. MaxSessions
    /\ start_point \in BfVersions \X BfVersions
    /\ end_point \in SUBSET BfVersions /\ alloc_mailbox \in SUBSET Sessions
    /\ item \in [Items -> ItemStates] /\ last_timestamp \in 0 .. Keys + 1
    /\ tokens \in Seq(Items)
    /\ unacked_chunks \in 0 .. ALLOCATION_CHUNK - 1 /\ num_outstanding_chunks \in 0 .. Keys
    /\ done_cond \in BOOLEAN
    /\ mem \in StoreStates /\ disk \in StoreStates /\ history \in {"no", "memory", "disk"}
    /\ backfiller \in [Sessions -> SessionStates] /\ version \in BfVersions

(* Whatever happens during a backfill, the metainfo of the store is the    *)
(* truth about its data, in memory and on disk: every part is at a version *)
(* of the range the metainfo gives, so that metainfo that names one        *)
(* version is found only over data at that version, and a backfill cut     *)
(* short leaves a range that contains every part.                          *)
MetainfoIsHonest ==
    \A st \in {mem, disk} : \A k \in 1 .. Keys :
        st.metainfo[1] <= st.data[k] /\ st.data[k] <= st.metainfo[2]

(* "It's essential that we call record_branch_history() before we update   *)
(* the metainfo": metainfo on disk names only versions whose branch is in  *)
(* the branch history on disk.                                             *)
HistoryBeforeMetainfo == disk.metainfo[2] > 0 => history = "disk"

(* "Chunks acquire the superblock in the correct order": a chunk is        *)
(* applied only when every chunk before it is, although four workers wait  *)
(* in between.                                                             *)
Applied == {"entered", "acking", "finished"}
ChunksInOrder ==
    \A i, j \in Items :
        (j < i /\ item[i] \in Applied /\ IsChunk(i)) => item[j] \in Applied

(* done_cond is pulsed only when the last item has come and every chunk    *)
(* has been applied and acknowledged: an item let go before its            *)
(* predecessor is done does not end the backfill.                          *)
DoneMeansAll ==
    done_cond => \A i \in 1 .. backfiller[session].items : item[i] = "finished"

(* Flow control: every unit of chunk_semaphore the backfiller has taken is *)
(* a chunk on its way or not yet applied, one counted in unacked_chunks,   *)
(* or part of an allocation being sent.  No unit is lost or returned       *)
(* twice, so the backfiller never has more than MAX_CHUNKS_OUT chunks out. *)
ChunksOut ==
    Cardinality({i \in Items : IsChunk(i) /\
        (<<"item", session, i>> \in net \/ item[i] \in {"queued", "popped", "throttled", "token", "entered"})})
FlowControl ==
    (phase = "receive" /\ backfiller[session].state = "send") =>
        backfiller[session].current =
            ChunksOut + unacked_chunks
            + ALLOCATION_CHUNK * (Cardinality({i \in Items : item[i] = "acking"})
                                  + backfiller[session].allocations)

(* A store never goes back: what its metainfo promised on disk stays       *)
(* promised through further backfills, interrupts and crashes.             *)
NeverRewound ==
    [][disk'.metainfo[1] >= disk.metainfo[1] /\ disk'.metainfo[2] >= disk.metainfo[2]]_bfVars

NoFaults == [interrupts |-> 0, crashes |-> 0, losses |-> 0]

(* A backfill nothing interferes with succeeds: it does not stall on the   *)
(* semaphore, and it ends with metainfo that names one version.            *)
BackfillSucceeds ==
    phase = "wait_alloc" ~>
        \/ phase = "idle" /\ end_point # {} /\ disk.metainfo = <<EndVersion, EndVersion>>
        \/ faults # NoFaults

(* A backfill ends, one way or the other, whatever is interrupted or lost. *)
BackfillEnds == phase # "idle" ~> phase = "idle"

(* A session of the backfiller ends when its backfillee is done with it or *)
(* gives up: it does not keep waiting for allocations that will not come.  *)
SessionsEnd ==
    \A s \in Sessions :
        backfiller[s].state \in {"import", "traverse", "send"} ~>
            backfiller[s].state \in {"over", "lost"}

(* All of it together: what a store says of its data is true at all times, *)
(* on disk too, and the pipeline of chunks keeps order and counts.         *)
BfInv ==
    /\ BfTypeOK /\ MetainfoIsHonest /\ HistoryBeforeMetainfo
    /\ ChunksInOrder /\ DoneMeansAll /\ FlowControl

(* A backfill that is left alone succeeds, every backfill ends, and so     *)
(* does its session at the backfiller.                                     *)
BackfillProgress == BackfillSucceeds /\ BackfillEnds /\ SessionsEnd
=============================================================================
