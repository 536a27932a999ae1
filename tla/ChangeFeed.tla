------------------------------ MODULE ChangeFeed ------------------------------
(***************************************************************************)
(* The changefeeds on rows and ranges of a table                           *)
(* (src/src/rdb_protocol/changefeed.cc): the server_t of each store, which *)
(* stamps what it sends to each client, the real_feed_t of a table, which  *)
(* puts the messages of each server in order, and the subscriptions that   *)
(* share it.                                                               *)
(*                                                                         *)
(* A write holds the sindex block until its changes are sent, so there is  *)
(* one at a time in a store; the reads that start a subscription need the  *)
(* superblock only, and come between the write and its messages.  Messages *)
(* overtake each other.  A connection that is lost comes back when both    *)
(* ends have acted upon it.  A message is the n-th (from 0) that its       *)
(* server sent to the feed.                                                *)
(***************************************************************************)
EXTENDS Integers, Sequences, SequencesExt, FiniteSets

CONSTANTS CfServers,     \* the server_ts of a table: one for each store
          CfKeys,        \* keys of rows
          CfServerOf,    \* the server of each key
          CfVals,        \* values of a row, 0 if there is none
          CfSubs,        \* subscriptions that are ever made
          CfSpecs,       \* bound: what they may be, and what of the bounds is used up
          CfArrayLimit,  \* array_size_limit()
          CfMaxFeeds,    \* bound: how many feeds are ever made
          CfMaxWrites,   \* bound: how many rows are changed
          CfMaxFaults    \* bound: how many connections and primaries are lost

CfFeeds == 1..CfMaxFeeds
CfNever == CfMaxWrites + CfMaxFeeds + 1   \* numeric_limits<uint64_t>::max()

ASSUME ChangeFeedConstants ==
    /\ CfServerOf \in [CfKeys -> CfServers] /\ 0 \in CfVals
    /\ CfArrayLimit \in Nat /\ CfMaxFeeds \in Nat /\ CfMaxWrites \in Nat /\ CfMaxFaults \in Nat

VARIABLES
    cfSpec,     \* of each subscription: its rows, whether it is a point_sub_t, and squash
    cfRow,      \* the table
    cfPend,     \* the changes of the write under way that are still to be sent, by server
    cfSending,  \* the clients that send_all() has still to send the first of them to
    cfClients,  \* `clients' of each server: "in", "stopped" (its cond) or "leaving"
    cfSent,     \* what each server has sent to each feed
    cfNet,      \* the stamps that are on their way
    cfStops,    \* the messages to stop_mailbox that are on their way
    cfDown,     \* the servers with which the connection is lost
    cfFeed,     \* the feeds
    cfSub,      \* the subscriptions
    cfWrites, cfFaults,
    cfCrashed   \* whether a guarantee of the feed failed

cfServerVars == <<cfRow, cfPend, cfSending, cfClients, cfSent, cfWrites>>
cfCounts == <<cfWrites, cfFaults>>
cfVars == <<cfSpec, cfRow, cfPend, cfSending, cfClients, cfSent, cfNet, cfStops, cfDown, cfFeed,
            cfSub, cfCounts, cfCrashed>>

CfChange(k, old, new) == [key |-> k, old |-> old, new |-> new]
NoVal == -1          \* a datum_t() that has no value
StopMsg == CfChange(NoVal, NoVal, NoVal)

NewFeedState == [st |-> "none", answered |-> {}, next |-> [s \in CfServers |-> 0],
                 map |-> [s \in CfServers |-> {}], subs |-> {}, num_subs |-> 0]
NewSubState == [st |-> "none", feed |-> 0, detached |-> FALSE, resp |-> << >>,
                start |-> << >>, stamp |-> 0, queue |-> << >>, skipped |-> 0, exc |-> FALSE,
                from |-> << >>, seen |-> << >>, excused |-> FALSE]

CfInit ==
    /\ \E spec \in CfSpecs :
          /\ cfSpec = spec.subs
          /\ cfWrites = CfMaxWrites - spec.writes /\ cfFaults = CfMaxFaults - spec.faults
          /\ cfFeed = [f \in CfFeeds |-> [NewFeedState EXCEPT
                !.st = IF f > CfMaxFeeds - spec.feeds THEN "none" ELSE "gone"]]
    /\ cfRow = [k \in CfKeys |-> 0]
    /\ cfPend = [s \in CfServers |-> << >>] /\ cfSending = [s \in CfServers |-> {}]
    /\ cfClients = [s \in CfServers |-> << >>]
    /\ cfSent = [s \in CfServers |-> [f \in CfFeeds |-> << >>]]
    /\ cfNet = [s \in CfServers |-> [f \in CfFeeds |-> {}]]
    /\ cfStops = {} /\ cfDown = {}
    /\ cfSub = [u \in CfSubs |-> [NewSubState EXCEPT
                                    !.st = IF cfSpec[u].keys = {} THEN "gone" ELSE "none"]]
    /\ cfCrashed = FALSE

----------------------------------------------------------------------------
(* server_t.  clients_lock is first come, first served: once somebody      *)
(* waits to write, no new reader gets it.                                  *)

Leaving(s) == {f \in DOMAIN cfClients[s] : cfClients[s][f] = "leaving"}
CanRead(s) == Leaving(s) = {}
CanWrite(s) == Leaving(s) = {} /\ cfSending[s] = {}

\* stamp = client->second.stamp++, and the message is sent
SendOneWithLock(s, f, msg) ==
    /\ cfSent' = [cfSent EXCEPT ![s][f] = Append(@, msg)]
    /\ cfNet' = IF s \in cfDown THEN cfNet
                ELSE [cfNet EXCEPT ![s][f] = @ \cup {Len(cfSent[s][f])}]

AfterBatch(batch) == FoldLeft(LAMBDA row, c : [row EXCEPT ![c.key] = c.new], cfRow, batch)

\* rdb_batched_replace(): one or two rows, or a row twice
Replace(s) ==
    \E k1, k2 \in {k \in CfKeys : CfServerOf[k] = s}, v1, v2 \in CfVals, two \in BOOLEAN :
        LET first == CfChange(k1, cfRow[k1], v1)
            batch == IF two THEN <<first, CfChange(k2, IF k1 = k2 THEN v1 ELSE cfRow[k2], v2)>>
                     ELSE <<first>>
        IN  /\ ~two => k1 = k2 /\ v1 = v2
            /\ \A n \in DOMAIN batch : batch[n].old # batch[n].new
            /\ cfPend[s] = << >>
            /\ cfWrites + Len(batch) <= CfMaxWrites /\ cfWrites' = cfWrites + Len(batch)
            /\ cfRow' = AfterBatch(batch)
            /\ cfPend' = [cfPend EXCEPT ![s] = batch]
            /\ UNCHANGED <<cfSpec, cfSending, cfClients, cfSent, cfNet, cfStops, cfDown, cfFeed,
                           cfSub, cfFaults, cfCrashed>>

\* send_all() of the first change, when it has clients_lock
StartSend(s) ==
    /\ cfPend[s] # << >> /\ cfSending[s] = {} /\ CanRead(s)
    /\ cfSending' = [cfSending EXCEPT ![s] = DOMAIN cfClients[s]]
    /\ cfPend' = IF cfClients[s] = << >> THEN [cfPend EXCEPT ![s] = Tail(@)] ELSE cfPend
    /\ UNCHANGED <<cfSpec, cfRow, cfClients, cfSent, cfNet, cfStops, cfDown, cfFeed, cfSub,
                   cfCounts, cfCrashed>>

SendToClient(s, f) ==
    /\ f \in cfSending[s]
    /\ SendOneWithLock(s, f, Head(cfPend[s]))
    /\ cfSending' = [cfSending EXCEPT ![s] = @ \ {f}]
    /\ cfPend' = IF cfSending[s] = {f} THEN [cfPend EXCEPT ![s] = Tail(@)] ELSE cfPend
    /\ UNCHANGED <<cfSpec, cfRow, cfClients, cfStops, cfDown, cfFeed, cfSub, cfCounts, cfCrashed>>

SetClients(s, clients) ==
    /\ cfClients' = [cfClients EXCEPT ![s] = clients]
    /\ UNCHANGED <<cfSpec, cfRow, cfPend, cfSending, cfDown, cfWrites, cfCrashed>>

\* changefeed_subscribe_t, at one of the stores
AddClient(s, f) ==
    /\ cfFeed[f].st = "subscribing" /\ s \notin cfFeed[f].answered
    /\ s \notin cfDown /\ CanWrite(s)
    /\ SetClients(s, [g \in DOMAIN cfClients[s] \cup {f} |->
                         IF g = f THEN "in" ELSE cfClients[s][g]])
    /\ cfFeed' = [cfFeed EXCEPT ![f].answered = @ \cup {s}]
    /\ UNCHANGED <<cfSent, cfNet, cfStops, cfSub, cfFaults>>

StoppedIn(clients, fs) ==
    [f \in DOMAIN clients |-> IF f \in fs /\ clients[f] = "in" THEN "stopped" ELSE clients[f]]

StopMailbox(s, f) ==
    /\ <<s, f>> \in cfStops /\ CanRead(s)
    /\ SetClients(s, StoppedIn(cfClients[s], {f}))
    /\ cfStops' = cfStops \ {<<s, f>>}
    /\ UNCHANGED <<cfSent, cfNet, cfFeed, cfSub, cfFaults>>

\* stop_all(), when a role of this server is over
StopAll(s) ==
    /\ cfFaults < CfMaxFaults /\ cfFaults' = cfFaults + 1
    /\ CanRead(s) /\ cfClients[s] # << >>
    /\ SetClients(s, StoppedIn(cfClients[s], CfFeeds))
    /\ UNCHANGED <<cfSent, cfNet, cfStops, cfFeed, cfSub>>

\* add_client_cb() wakes up, and sends stop_t beside those that read
SendStop(s, f) ==
    /\ f \in DOMAIN cfClients[s] /\ cfClients[s][f] = "stopped" /\ CanRead(s)
    /\ SetClients(s, [cfClients[s] EXCEPT ![f] = "leaving"])
    /\ SendOneWithLock(s, f, StopMsg)
    /\ UNCHANGED <<cfStops, cfFeed, cfSub, cfFaults>>

EraseClient(s, f) ==
    /\ f \in Leaving(s) /\ cfSending[s] = {}
    /\ SetClients(s, [g \in DOMAIN cfClients[s] \ {f} |-> cfClients[s][g]])
    /\ UNCHANGED <<cfSent, cfNet, cfStops, cfFeed, cfSub, cfFaults>>

PeerIsLost(s) ==
    /\ cfFaults < CfMaxFaults /\ cfFaults' = cfFaults + 1
    /\ s \notin cfDown /\ \E f \in CfFeeds : cfFeed[f].st \in {"subscribing", "ready"}
    /\ cfDown' = cfDown \cup {s}
    /\ cfNet' = [cfNet EXCEPT ![s] = [f \in CfFeeds |-> {}]]
    /\ cfStops' = {m \in cfStops : m[1] # s}
    /\ cfClients' = [cfClients EXCEPT ![s] = StoppedIn(@, CfFeeds)]
    /\ UNCHANGED <<cfSpec, cfRow, cfPend, cfSending, cfSent, cfFeed, cfSub, cfWrites, cfCrashed>>

PeerComesBack(s) ==
    /\ s \in cfDown /\ cfClients[s] = << >>
    /\ \A f \in CfFeeds : ~(cfFeed[f].st \in {"subscribing", "ready"} /\ s \in cfFeed[f].answered)
    /\ cfDown' = cfDown \ {s}
    /\ UNCHANGED <<cfSpec, cfServerVars, cfNet, cfStops, cfFeed, cfSub, cfFaults, cfCrashed>>

----------------------------------------------------------------------------
(* What a subscription does with a change.                                 *)

IsPoint(u) == cfSpec[u].point

\* squashing_queue_t::add(), nonsquashing_queue_t::add()
QueueAdd(u, queue, c) ==
    LET same == {n \in DOMAIN queue : queue[n].key = c.key}
        at == CHOOSE n \in same : TRUE
        merged == [c EXCEPT !.old = IF queue[at].old = NoVal THEN c.old ELSE queue[at].old]
    IN  CASE ~cfSpec[u].squash \/ same = {} -> Append(queue, c)
          [] merged.old = merged.new -> RemoveAt(queue, at)
          [] OTHER -> [queue EXCEPT ![at] = merged]

\* Mutant: the change with the stamp that the range started with counts as old
UpdateStampMutant(u, sub, s, stamp) ==
    IF IsPoint(u) THEN stamp >= sub.stamp ELSE stamp > sub.start[s]

\* point_sub_t::update_stamp(), range_sub_t::update_stamp()
UpdateStamp(u, sub, s, stamp) ==
    IF IsPoint(u) THEN stamp >= sub.stamp ELSE stamp >= sub.start[s]

\* two changes of a row squash each other away, and the reader was not told what is left
LosesValue(u, sub, queue, c) ==
    IsPoint(u) /\ queue = << >> /\ (sub.seen = << >> \/ Last(sub.seen).new # c.new)

\* flat_sub_t::add_el(), if the subscription is one that the change is for
AddEl(u, s, stamp, c) ==
    LET sub == cfSub[u]
        queue == QueueAdd(u, sub.queue, c)
        full == Len(queue) > CfArrayLimit
    IN  IF /\ c.key \in cfSpec[u].keys
           /\ IsPoint(u) \/ (sub.start # << >> /\ ~sub.exc)
           /\ UpdateStamp(u, sub, s, stamp)
        THEN [sub EXCEPT !.stamp = IF IsPoint(u) THEN stamp ELSE @,
                         !.queue = IF full THEN << >> ELSE queue,
                         !.skipped = IF full THEN @ + Len(queue) ELSE @,
                         !.excused = @ \/ full \/ LosesValue(u, sub, queue, c)]
        ELSE sub

\* msg_visitor_t
Visited(f, s, stamp, msg) ==
    [u \in CfSubs |->
        CASE u \notin cfFeed[f].subs -> cfSub[u]
          [] msg = StopMsg -> [cfSub[u] EXCEPT !.exc = TRUE]
          [] OTHER -> AddEl(u, s, stamp, msg)]

----------------------------------------------------------------------------
(* real_feed_t and client_t.  feeds_lock is held while a feed is made.     *)

FeedInMap == {f \in CfFeeds : cfFeed[f].st = "ready"}
FeedsLocked == \E f \in CfFeeds : cfFeed[f].st = "subscribing"

OnlyFeedsChange ==
    UNCHANGED <<cfSpec, cfRow, cfPend, cfSending, cfClients, cfSent, cfDown, cfCounts>>

AddSub(f, u) == [cfFeed EXCEPT ![f].subs = @ \cup {u}, ![f].num_subs = @ + 1, ![f].st = "ready"]

\* new_stream(), if the table has a feed
JoinFeed(u, f) ==
    /\ cfSub[u].st = "none" /\ ~FeedsLocked /\ f \in FeedInMap
    /\ cfFeed' = AddSub(f, u)
    /\ cfSub' = [cfSub EXCEPT ![u].st = "added", ![u].feed = f]
    /\ OnlyFeedsChange /\ UNCHANGED <<cfNet, cfStops, cfCrashed>>

\* new_stream(), if it has none
MakeFeed(u, f) ==
    /\ cfSub[u].st = "none" /\ ~FeedsLocked /\ FeedInMap = {}
    /\ cfFeed[f].st = "none" /\ \A g \in 1..(f - 1) : cfFeed[g].st # "none"
    /\ cfFeed' = [cfFeed EXCEPT ![f].st = "subscribing"]
    /\ cfSub' = [cfSub EXCEPT ![u].st = "waiting", ![u].feed = f]
    /\ OnlyFeedsChange /\ UNCHANGED <<cfNet, cfStops, cfCrashed>>

FeedIsReady(u, f) ==
    /\ cfSub[u].st = "waiting" /\ cfSub[u].feed = f /\ cfFeed[f].answered = CfServers
    /\ cfFeed' = AddSub(f, u)
    /\ cfSub' = [cfSub EXCEPT ![u].st = "added"]
    /\ OnlyFeedsChange /\ UNCHANGED <<cfNet, cfStops, cfCrashed>>

\* the constructor throws: those that answered are not told
FeedFails(u, f) ==
    /\ cfSub[u].st = "waiting" /\ cfSub[u].feed = f
    /\ cfDown \ cfFeed[f].answered # {}
    /\ cfFeed' = [cfFeed EXCEPT ![f].st = "gone"]
    /\ cfSub' = [cfSub EXCEPT ![u] = [NewSubState EXCEPT !.st = "gone"]]
    /\ OnlyFeedsChange /\ UNCHANGED <<cfNet, cfStops, cfCrashed>>

\* mailbox_cb() adds a message to the queue of its server, unless the feed is detached
Receive(f, s, stamp) ==
    /\ stamp \in cfNet[s][f] /\ cfFeed[f].st # "subscribing"
    /\ cfNet' = [cfNet EXCEPT ![s][f] = @ \ {stamp}]
    /\ cfFeed' = IF cfFeed[f].st = "ready" THEN [cfFeed EXCEPT ![f].map[s] = @ \cup {stamp}]
                 ELSE cfFeed
    /\ OnlyFeedsChange /\ UNCHANGED <<cfStops, cfSub, cfCrashed>>

\* and what is next in the queue is carried out
Process(f, s) ==
    LET stamp == cfFeed[f].next[s] IN
    /\ cfFeed[f].st = "ready" /\ stamp \in cfFeed[f].map[s]
    /\ cfSub' = Visited(f, s, stamp, cfSent[s][f][stamp + 1])
    /\ cfFeed' = [cfFeed EXCEPT ![f].map[s] = @ \ {stamp}, ![f].next[s] = @ + 1]
    /\ OnlyFeedsChange /\ UNCHANGED <<cfNet, cfStops, cfCrashed>>

\* ~real_feed_t(); ~feed_t() wants num_subs to be 0
Destroyed(f, feed) ==
    /\ cfFeed' = [cfFeed EXCEPT ![f] = [feed EXCEPT !.st = "gone", !.map = NewFeedState.map]]
    /\ cfStops' = cfStops \cup {<<s, f>> : s \in CfServers \ cfDown}

\* constructor_cb(): a connection is lost, the feed is taken out of the map
DetachFeed(f) ==
    /\ cfFeed[f].st = "ready" /\ cfDown # {} /\ ~FeedsLocked
    /\ cfFeed' = [cfFeed EXCEPT ![f].st = "detached"]
    /\ OnlyFeedsChange /\ UNCHANGED <<cfNet, cfStops, cfSub, cfCrashed>>

\* and its subscriptions are stopped, and it is destroyed
StopSubs(f) ==
    /\ cfFeed[f].st = "detached"
    /\ cfSub' = [u \in CfSubs |->
          IF u \in cfFeed[f].subs THEN [cfSub[u] EXCEPT !.exc = TRUE, !.detached = TRUE]
          ELSE cfSub[u]]
    /\ Destroyed(f, [cfFeed[f] EXCEPT !.num_subs = 0])
    /\ OnlyFeedsChange /\ UNCHANGED <<cfNet, cfCrashed>>

\* maybe_remove_feed()
MaybeRemoveFeed(f) ==
    /\ cfFeed[f].st = "ready" /\ cfFeed[f].num_subs = 0 /\ ~FeedsLocked
    /\ Destroyed(f, cfFeed[f])
    /\ OnlyFeedsChange /\ UNCHANGED <<cfNet, cfSub, cfCrashed>>

----------------------------------------------------------------------------
(* subscription_t.                                                         *)

\* changefeed_stamp_t, changefeed_point_stamp_t, at a store
ReadStamp(u, s) ==
    LET f == cfSub[u].feed
        stamp == IF f \in DOMAIN cfClients[s] THEN Len(cfSent[s][f]) ELSE CfNever
    IN  /\ cfSub[u].st = "added" /\ s \notin DOMAIN cfSub[u].resp
        /\ \E k \in cfSpec[u].keys : IsPoint(u) => CfServerOf[k] = s
        /\ s \notin cfDown /\ CanRead(s)
        /\ cfSub' = [cfSub EXCEPT ![u].resp = [t \in DOMAIN @ \cup {s} |->
                        IF t = s THEN [stamp |-> stamp, row |-> cfRow] ELSE @[t]]]
        /\ UNCHANGED <<cfSpec, cfServerVars, cfNet, cfStops, cfDown, cfFeed, cfFaults, cfCrashed>>

\* point_sub_t::start_real()
StartPoint(u) ==
    LET sub == cfSub[u]
        k == CHOOSE key \in cfSpec[u].keys : TRUE
        resp == sub.resp[CfServerOf[k]]
        initial == sub.queue = << >> \/ resp.stamp > sub.stamp
    IN  /\ IsPoint(u) /\ sub.st = "added" /\ CfServerOf[k] \in DOMAIN sub.resp
        /\ cfSub' = [cfSub EXCEPT ![u] =
              [sub EXCEPT !.st = "active",
                          !.stamp = IF initial THEN resp.stamp ELSE @,
                          !.queue = IF initial THEN <<CfChange(k, NoVal, resp.row[k])>> ELSE @,
                          !.excused = @ \/ resp.stamp = CfNever]]
        /\ UNCHANGED <<cfSpec, cfServerVars, cfNet, cfStops, cfDown, cfFeed, cfFaults, cfCrashed>>

\* range_sub_t::start_real()
StartRange(u) ==
    LET sub == cfSub[u] IN
    /\ ~IsPoint(u) /\ sub.st = "added" /\ DOMAIN sub.resp = CfServers
    /\ cfSub' = [cfSub EXCEPT ![u].st = "active",
                              ![u].start = [s \in CfServers |-> sub.resp[s].stamp],
                              ![u].from = [s \in CfServers |->
                                  Max({sub.resp[s].stamp, cfFeed[sub.feed].next[s]})],
                              ![u].excused = @ \/ \E s \in CfServers : sub.resp[s].stamp = CfNever]
    /\ UNCHANGED <<cfSpec, cfServerVars, cfNet, cfStops, cfDown, cfFeed, cfFaults, cfCrashed>>

\* get_els(): an element, or how many were skipped
GetEls(u) ==
    LET sub == cfSub[u]
        first == CHOOSE n \in DOMAIN sub.queue :
                    IF cfSpec[u].squash THEN \A m \in DOMAIN sub.queue :
                                                 sub.queue[n].key <= sub.queue[m].key
                    ELSE n = 1
    IN  /\ sub.st = "active" /\ ~sub.exc
        /\ \/ sub.skipped # 0 /\ cfSub' = [cfSub EXCEPT ![u].skipped = 0]
           \/ /\ sub.skipped = 0 /\ sub.queue # << >>
              /\ cfSub' = [cfSub EXCEPT ![u].queue = RemoveAt(@, first),
                                        ![u].seen = Append(@, sub.queue[first])]
        /\ UNCHANGED <<cfSpec, cfServerVars, cfNet, cfStops, cfDown, cfFeed, cfFaults, cfCrashed>>

\* the destructor, on the subscription's thread: it looks whether it was detached
DestroySub(u) ==
    /\ cfSub[u].st \in {"added", "active"}
    /\ cfSub' = [cfSub EXCEPT ![u] = [NewSubState EXCEPT
                    !.st = IF cfSub[u].detached THEN "gone" ELSE "leaving",
                    !.feed = cfSub[u].feed, !.exc = TRUE]]
    /\ UNCHANGED <<cfSpec, cfServerVars, cfNet, cfStops, cfDown, cfFeed, cfFaults, cfCrashed>>

\* del_sub_with_lock(), on the feed's thread
DelSub(u, f) ==
    /\ cfSub[u].st = "leaving" /\ f \in CfFeeds /\ u \in cfFeed[f].subs
    /\ cfSub' = [cfSub EXCEPT ![u].st = "gone"]
    /\ cfFeed' = [cfFeed EXCEPT ![f].subs = @ \ {u}, ![f].num_subs = @ - 1]
    /\ cfCrashed' = (cfCrashed \/ cfFeed[f].st = "gone")
    /\ OnlyFeedsChange /\ UNCHANGED <<cfNet, cfStops>>

----------------------------------------------------------------------------
CfNext ==
    \/ \E s \in CfServers : \/ Replace(s) \/ StartSend(s) \/ StopAll(s)
                            \/ PeerIsLost(s) \/ PeerComesBack(s)
    \/ \E s \in CfServers, f \in CfFeeds :
          \/ SendToClient(s, f) \/ AddClient(s, f) \/ StopMailbox(s, f) \/ SendStop(s, f)
          \/ EraseClient(s, f) \/ Process(f, s) \/ \E stamp \in cfNet[s][f] : Receive(f, s, stamp)
    \/ \E f \in CfFeeds : DetachFeed(f) \/ StopSubs(f) \/ MaybeRemoveFeed(f)
    \/ \E u \in CfSubs, f \in CfFeeds : JoinFeed(u, f) \/ MakeFeed(u, f) \/ FeedIsReady(u, f)
                                        \/ FeedFails(u, f) \/ DelSub(u, f)
    \/ \E u \in CfSubs : \/ StartPoint(u) \/ StartRange(u) \/ GetEls(u) \/ DestroySub(u)
                         \/ \E s \in CfServers : ReadStamp(u, s)

CfSpecification == CfInit /\ [][CfNext]_cfVars

----------------------------------------------------------------------------
(* Properties.                                                             *)

\* The type invariant
CfTypeOK ==
    /\ cfRow \in [CfKeys -> CfVals] /\ cfDown \subseteq CfServers
    /\ \A s \in CfServers : /\ DOMAIN cfClients[s] \subseteq CfFeeds
                            /\ cfSending[s] \subseteq DOMAIN cfClients[s]
    /\ \A f \in CfFeeds : cfFeed[f].st \in {"none", "subscribing", "ready", "detached", "gone"}
    /\ \A u \in CfSubs :
          cfSub[u].st \in {"none", "waiting", "added", "active", "leaving", "gone"}

\* a feed that can be found counts the subscriptions it has, and they are those that point to it
FeedCountsItsSubs ==
    \A f \in FeedInMap : /\ cfFeed[f].num_subs = Cardinality(cfFeed[f].subs)
                         /\ \A u \in CfSubs : u \in cfFeed[f].subs <=>
                               cfSub[u].feed = f /\ cfSub[u].st \in {"added", "active", "leaving"}

\* there is one feed of the table at a time
OneFeed == Cardinality({f \in CfFeeds : cfFeed[f].st \in {"subscribing", "ready"}}) <= 1

IsServed(u) == cfSub[u].st = "active" /\ ~cfSub[u].exc /\ ~cfSub[u].excused
Told(u, k) == SelectSeq(cfSub[u].seen \o cfSub[u].queue, LAMBDA c : c.key = k)
Due(u, k) ==
    LET f == cfSub[u].feed
        s == CfServerOf[k]
    IN  SelectSeq(SubSeq(cfSent[s][f], cfSub[u].from[s] + 1, cfFeed[f].next[s]),
                  LAMBDA c : c.key = k)

\* A subscription to a range is told every change that was sent since it started, once and in
\* order, or, with squash, changes that lead from one to the next and to the same row.
ToldInOrder ==
    \A u \in CfSubs, k \in CfKeys :
        IsServed(u) /\ ~IsPoint(u) /\ k \in cfSpec[u].keys =>
            LET told == Told(u, k)
                due == Due(u, k)
            IN  IF ~cfSpec[u].squash THEN told = due
                ELSE /\ \A n \in 1..(Len(told) - 1) : told[n].new = told[n + 1].old
                     /\ told = << >> => due = << >> \/ due[1].old = Last(due).new
                     /\ told # << >> => told[1].old = due[1].old /\ Last(told).new = Last(due).new

AtRest(s, f) ==
    /\ cfPend[s] = << >> /\ s \notin cfDown /\ cfFeed[f].st = "ready"
    /\ cfFeed[f].next[s] = Len(cfSent[s][f])

\* When no message is on its way, what a subscription was told last of a row is what the row is;
\* a subscription to a row was told it.
PictureIsRight ==
    \A u \in CfSubs, k \in CfKeys :
        IsServed(u) /\ k \in cfSpec[u].keys /\ AtRest(CfServerOf[k], cfSub[u].feed) =>
            LET told == Told(u, k)
            IN  /\ IsPoint(u) => told # << >>
                /\ told # << >> => Last(told).new = cfRow[k]

\* A subscription that has no error has a client in every server, or one whose last message is
\* still to come.
NobodyIsForgotten ==
    \A u \in CfSubs : IsServed(u) =>
        LET f == cfSub[u].feed IN
        \A s \in {CfServerOf[k] : k \in cfSpec[u].keys} :
            \/ f \in DOMAIN cfClients[s] \/ s \in cfDown
            \/ \E n \in DOMAIN cfSent[s][f] :
                  n > cfFeed[f].next[s] /\ cfSent[s][f][n] = StopMsg

CfInv ==
    /\ CfTypeOK
    /\ \/ cfCrashed
       \/ FeedCountsItsSubs /\ OneFeed /\ ToldInOrder /\ PictureIsRight /\ NobodyIsForgotten
=============================================================================
