------------------------------- MODULE PageTxn -------------------------------
(***************************************************************************)
(* The order in which transactions of the page cache reach the disk        *)
(* (src/src/buffer_cache/page_cache.cc).  A page_txn_t write-acquires      *)
(* blocks; whoever acquired a block before it is one of its preceders_,    *)
(* and so is the transaction before it on the same cache_conn_t.  When it  *)
(* has ended, maximal_flushable_txn_set() looks for a set of ended         *)
(* transactions that can be written together.  The graph may have cycles.  *)
(*                                                                         *)
(* A block is acquired in the order in which the tree is descended: never  *)
(* one that is not below every block the transaction holds (b < c: c is    *)
(* below b).  The contents of a block are the block_version_t of the       *)
(* acquisition that wrote it, its recency likewise.  Read acquisitions,    *)
(* which only delay, and the serializer below index_write() are left out:  *)
(* an index_write() is atomic here, which a crash can tell apart from none *)
(* at all.                                                                 *)
(***************************************************************************)
EXTENDS Integers, Sequences, FiniteSets, SequencesExt

CONSTANTS Txns,      \* the transactions
          Blocks,    \* a set of numbers, the block ids
          Conns,     \* the cache_conn_ts
          None,      \* no connection, no transaction
          MaxAcqs    \* bound: how many acquisitions a block sees

ASSUME PageTxnAssumption ==
    /\ Blocks \subseteq Nat /\ None \notin Txns \cup Conns /\ MaxAcqs \in Nat

VARIABLES
    state,               \* of a page_txn_t: began_waiting_for_flush_, spawned_flush_
    cache_conn,          \* page_txn_t::cache_conn_
    newest_txn,          \* cache_conn_t::newest_txn_
    preceders, subseqers,
    acquirers,           \* current_page_t::acquirers_
    last_write_acquirer,
    block_version,       \* current_page_t::last_write_acquirer_version_
    held,                \* the version of each acquisition of a transaction
    dirtied,             \* snapshotted_dirtied_pages_, kept when it is gone
    touched,             \* touched_pages_, likewise
    index_writes,        \* the flushes that hold an index_write_token, in order
    written,             \* the sets whose index_write() has returned
    disk,                \* the serializer: version of data and of recency
    durable,             \* history: the transactions on disk
    conn_order           \* history: the transactions of each connection

graphVars == <<cache_conn, newest_txn, preceders, subseqers, last_write_acquirer>>
pageVars  == <<acquirers, block_version, held, dirtied, touched>>
diskVars  == <<index_writes, written, disk, durable>>
vars == <<state, graphVars, pageVars, diskVars, conn_order>>

Init ==
    /\ state = [t \in Txns |-> "none"]
    /\ cache_conn = [t \in Txns |-> None] /\ newest_txn = [c \in Conns |-> None]
    /\ preceders = [t \in Txns |-> <<>>] /\ subseqers = [t \in Txns |-> <<>>]
    /\ acquirers = [b \in Blocks |-> <<>>]
    /\ last_write_acquirer = [b \in Blocks |-> None]
    /\ block_version = [b \in Blocks |-> 0]
    /\ held = [t \in Txns |-> {}]
    /\ dirtied = [t \in Txns |-> {}] /\ touched = [t \in Txns |-> {}]
    /\ index_writes = <<>> /\ written = {}
    /\ disk = [b \in Blocks |-> [data |-> 0, recency |-> 0]]
    /\ durable = {} /\ conn_order = [c \in Conns |-> <<>>]

-----------------------------------------------------------------------------
(* The transactions.                                                       *)

(* connect_preceder(), which leaves an edge that is there already.         *)
ConnectPreceder(t, p) ==
    IF p = None \/ Contains(preceders[t], p)
    THEN UNCHANGED <<preceders, subseqers>>
    ELSE /\ preceders' = [preceders EXCEPT ![t] = Append(@, p)]
         /\ subseqers' = [subseqers EXCEPT ![p] = Append(@, t)]

(* page_txn_t::page_txn_t(): the transaction follows the newest one of its *)
(* connection and takes its place.                                         *)
Create(t, c) ==
    /\ state[t] = "none"
    /\ state' = [state EXCEPT ![t] = "live"]
    /\ IF c = None
       THEN UNCHANGED <<cache_conn, newest_txn, preceders, subseqers, conn_order>>
       ELSE /\ ConnectPreceder(t, newest_txn[c])
            /\ cache_conn' = [u \in Txns |-> IF u = t THEN c
                                             ELSE IF u = newest_txn[c] THEN None ELSE cache_conn[u]]
            /\ newest_txn' = [newest_txn EXCEPT ![c] = t]
            /\ conn_order' = [conn_order EXCEPT ![c] = Append(@, t)]
    /\ UNCHANGED <<last_write_acquirer, pageVars, diskVars>>

(* current_page_t::add_acquirer() for a write acquisition.                 *)
Acquire(t, b) ==
    /\ state[t] = "live" /\ block_version[b] < MaxAcqs
    /\ \A h \in held[t] : h[1] < b
    /\ block_version' = [block_version EXCEPT ![b] = @ + 1]
    /\ held' = [held EXCEPT ![t] = @ \cup {<<b, block_version[b] + 1>>}]
    /\ acquirers' = [acquirers EXCEPT ![b] = Append(@, t)]
    /\ IF last_write_acquirer[b] = t
       THEN UNCHANGED <<last_write_acquirer, preceders, subseqers>>
       ELSE /\ ConnectPreceder(t, last_write_acquirer[b])
            /\ last_write_acquirer' = [last_write_acquirer EXCEPT ![b] = t]
    /\ UNCHANGED <<state, cache_conn, newest_txn, dirtied, touched, diskVars, conn_order>>

(* page_txn_t::remove_acquirer(), when the acquisition is first in line,   *)
(* its page modified or only its recency set.                              *)
Release(t, b) ==
    /\ acquirers[b] # <<>> /\ Head(acquirers[b]) = t
    /\ \E h \in held[t] :
          /\ h[1] = b
          /\ held' = [held EXCEPT ![t] = @ \ {h}]
          /\ \/ dirtied' = [dirtied EXCEPT ![t] = @ \cup {h}] /\ UNCHANGED touched
             \/ touched' = [touched EXCEPT ![t] = @ \cup {h}] /\ UNCHANGED dirtied
    /\ acquirers' = [acquirers EXCEPT ![b] = Tail(@)]
    /\ UNCHANGED <<state, graphVars, block_version, diskVars, conn_order>>

-----------------------------------------------------------------------------
(* Flushing.                                                               *)

Colours == {"not", "blue", "green", "red"}
Colouring == [blue : Seq(Txns), mark : [Txns -> Colours]]

Paint(mark, s, colour) == [t \in Txns |-> IF Contains(s, t) THEN colour ELSE mark[t]]

(* One turn of the loop of maximal_flushable_txn_set(), ts being the       *)
(* states of the transactions: txn is red when a preceder is unflushable;  *)
(* preceders and subsequers that this concerns become blue.                *)
ConsiderBlue(c, ts) ==
    LET txn      == Last(c.blue)
        precs    == SelectSeq(preceders[txn], LAMBDA p : ts[p] # "spawned")
        poisoned == \E i \in DOMAIN precs : ts[precs[i]] = "live" \/ c.mark[precs[i]] = "red"
        up       == SelectSeq(precs, LAMBDA p : ts[p] = "waiting" /\ c.mark[p] = "not")
        mark     == [Paint(c.mark, up, "blue") EXCEPT ![txn] = IF poisoned THEN "red" ELSE "green"]
        down     == SelectSeq(subseqers[txn], LAMBDA s :
                        ts[s] = "waiting" /\ mark[s] = IF poisoned THEN "green" ELSE "not")
    IN  [blue |-> Front(c.blue) \o up \o down, mark |-> Paint(mark, down, "blue")]

maximal_flushable_txn_set(base, ts) ==
    LET Coloured[c \in Colouring] ==
            IF c.blue = <<>> THEN c.mark ELSE Coloured[ConsiderBlue(c, ts)]
        mark == Coloured[[blue |-> <<base>>,
                          mark |-> [t \in Txns |-> IF t = base THEN "blue" ELSE "not"]]]
    IN  {t \in Txns : mark[t] = "green"}

Newest(vs) == CHOOSE v \in vs : \A w \in vs : w <= v

Versions(entries, b) == {h[2] : h \in {e \in entries : e[1] = b}}

(* compute_changes(): for every block the newest of its modifications and  *)
(* the newest of its recencies; 0 where there is none.                     *)
compute_changes(txns) ==
    LET mods == UNION {dirtied[t] : t \in txns}
        all  == mods \cup UNION {touched[t] : t \in txns}
    IN  [b \in {h[1] : h \in all} |->
            [data    |-> Newest(Versions(mods, b) \cup {0}),
             recency |-> Newest(Versions(all, b))]]

(* remove_txn_set_from_graph(): the transactions lose their edges, their   *)
(* claim on pages and on their connection, and are done.                   *)
RemoveFromGraph(txns, ts) ==
    LET Outside(s) == SelectSeq(s, LAMBDA t : t \notin txns)
        Cleared(f) == [t \in Txns |-> IF t \in txns THEN <<>> ELSE Outside(f[t])]
        Gone(t)    == IF t \in txns THEN None ELSE t
    IN  /\ state' = [t \in Txns |-> IF t \in txns THEN "done" ELSE ts[t]]
        /\ preceders' = Cleared(preceders) /\ subseqers' = Cleared(subseqers)
        /\ last_write_acquirer' = [b \in Blocks |-> Gone(last_write_acquirer[b])]
        /\ newest_txn' = [c \in Conns |-> Gone(newest_txn[c])]
        /\ cache_conn' = [t \in Txns |-> IF t \in txns THEN None ELSE cache_conn[t]]

(* flush_and_destroy_txn(), im_waiting_for_flush(): a transaction without  *)
(* acquisitions ends.  The flush set gets its index_write_token at once,   *)
(* or, with nothing to write, is done at once.                             *)
FlushAndDestroyTxn(t) ==
    /\ state[t] = "live" /\ held[t] = {}
    /\ LET ts   == [state EXCEPT ![t] = "waiting"]
           set  == maximal_flushable_txn_set(t, ts)
           ts2  == [u \in Txns |-> IF u \in set THEN "spawned" ELSE ts[u]]
           chgs == compute_changes(set)
       IN  IF set # {} /\ DOMAIN chgs = {}
           THEN /\ RemoveFromGraph(set, ts2)
                /\ UNCHANGED index_writes
           ELSE /\ state' = ts2
                /\ index_writes' = IF set = {} THEN index_writes
                                   ELSE Append(index_writes, [txns |-> set, changes |-> chgs])
                /\ UNCHANGED graphVars
    /\ UNCHANGED <<pageVars, written, disk, durable, conn_order>>

(* Mutant: flushes do not wait for their turn.                             *)
IndexWriteMutant ==
    /\ index_writes # <<>>
    /\ \E i \in DOMAIN index_writes : LET f == index_writes[i]
       IN  /\ disk' = [b \in Blocks |->
                 IF b \notin DOMAIN f.changes THEN disk[b]
                 ELSE [data    |-> IF f.changes[b].data = 0 THEN disk[b].data ELSE f.changes[b].data,
                       recency |-> f.changes[b].recency]]
           /\ durable' = durable \cup f.txns
           /\ written' = written \cup {f.txns}
           /\ index_writes' = RemoveAt(index_writes, i)
    /\ UNCHANGED <<state, graphVars, pageVars, conn_order>>

(* do_flush_changes(): index_write(), in the order of the tokens.          *)
IndexWrite ==
    /\ index_writes # <<>>
    /\ LET f == Head(index_writes)
       IN  /\ disk' = [b \in Blocks |->
                 IF b \notin DOMAIN f.changes THEN disk[b]
                 ELSE [data    |-> IF f.changes[b].data = 0 THEN disk[b].data ELSE f.changes[b].data,
                       recency |-> f.changes[b].recency]]
           /\ durable' = durable \cup f.txns
           /\ written' = written \cup {f.txns}
    /\ index_writes' = Tail(index_writes)
    /\ UNCHANGED <<state, graphVars, pageVars, conn_order>>

(* Back on the cache's thread, do_flush_txn_set() ends the transactions.   *)
FlushComplete ==
    /\ \E txns \in written : RemoveFromGraph(txns, state) /\ written' = written \ {txns}
    /\ UNCHANGED <<pageVars, index_writes, disk, durable, conn_order>>

Next ==
    \/ \E t \in Txns :
          \/ \E c \in Conns \cup {None} : Create(t, c)
          \/ \E b \in Blocks : Acquire(t, b) \/ Release(t, b)
          \/ FlushAndDestroyTxn(t)
    \/ IndexWrite \/ FlushComplete

Spec == Init /\ [][Next]_vars

-----------------------------------------------------------------------------
(* The states of transactions, the queues, versions and the disk keep      *)
(* their types.                                                            *)
TypeOK ==
    /\ state \in [Txns -> {"none", "live", "waiting", "spawned", "done"}]
    /\ cache_conn \in [Txns -> Conns \cup {None}] /\ newest_txn \in [Conns -> Txns \cup {None}]
    /\ preceders \in [Txns -> Seq(Txns)] /\ subseqers \in [Txns -> Seq(Txns)]
    /\ acquirers \in [Blocks -> Seq(Txns)]
    /\ last_write_acquirer \in [Blocks -> Txns \cup {None}]
    /\ block_version \in [Blocks -> 0 .. MaxAcqs]
    /\ \A f \in {held, dirtied, touched} : f \in [Txns -> SUBSET (Blocks \X (1 .. MaxAcqs))]
    /\ disk \in [Blocks -> [data : 0 .. MaxAcqs, recency : 0 .. MaxAcqs]]
    /\ durable \in SUBSET Txns

Changed(t) == dirtied[t] \cup touched[t]

(* p did something that t may build on: it had a block before t, or it is  *)
(* an earlier transaction of t's connection.                               *)
Before(p, t) ==
    \/ \E g \in Changed(p), h \in Changed(t) \cup held[t] : g[1] = h[1] /\ g[2] < h[2]
    \/ \E c \in Conns : \E i, j \in DOMAIN conn_order[c] :
          i < j /\ conn_order[c][i] = p /\ conn_order[c][j] = t

(* A crash leaves a consistent state: with a transaction, everything it    *)
(* builds on is on disk, whether the graph still knows of it or not.       *)
DiskIsConsistentCut ==
    \A t \in durable : \A p \in Txns \ durable :
        (Changed(p) # {} \/ state[p] \in {"live", "waiting"}) => ~Before(p, t)

(* The disk holds, for every block, exactly what the newest of the         *)
(* transactions that are on disk left: their changes are there together,   *)
(* and merging those of a flush set loses and reorders nothing.            *)
DiskIsNewest ==
    \A b \in Blocks :
        /\ disk[b].data = Newest(Versions(UNION {dirtied[t] : t \in durable}, b) \cup {0})
        /\ disk[b].recency = Newest(Versions(UNION {Changed(t) : t \in durable}, b) \cup {0})

(* maximal_flushable_txn_set() overlooks nothing: among the transactions   *)
(* that wait there is no set that could be flushed now.  (It looks only at *)
(* what it can reach from the one that ended, and "assumes all previous    *)
(* such sets of transactions had flushing begin on them".)                 *)
NothingLeftUnflushed ==
    \A S \in (SUBSET {t \in Txns : state[t] = "waiting"}) \ {{}} :
        \E t \in S : \E i \in DOMAIN preceders[t] :
            preceders[t][i] \notin S /\ state[preceders[t][i]] # "spawned"

(* The assertions on the graph: edges lead both ways and between           *)
(* transactions not yet done; a transaction that is being flushed has      *)
(* no preceder that is not; pages and connections name none that is done.  *)
GraphIsConsistent ==
    /\ \A t, p \in Txns : Contains(preceders[t], p) =>
          /\ Contains(subseqers[p], t) /\ p # t
          /\ state[t] \notin {"none", "done"} /\ state[p] \notin {"none", "done"}
          /\ state[t] = "spawned" => state[p] = "spawned"
    /\ \A t, p \in Txns : Contains(subseqers[p], t) => Contains(preceders[t], p)
    /\ \A b \in Blocks : last_write_acquirer[b] # None => state[last_write_acquirer[b]] # "done"
    /\ \A c \in Conns : newest_txn[c] # None =>
          state[newest_txn[c]] # "done" /\ cache_conn[newest_txn[c]] = c

(* ~page_txn_t() finds flush_complete_cond_ pulsed only after the changes  *)
(* are on disk: hard durability waits for it.                              *)
DoneIsDurable == \A t \in Txns : (state[t] = "done" /\ Changed(t) # {}) => t \in durable

(* A crash at any moment finds on disk a consistent cut of the             *)
(* transactions with what was promised, and none that could be flushed is  *)
(* forgotten.                                                              *)
TxnInv ==
    /\ TypeOK /\ GraphIsConsistent /\ DoneIsDurable
    /\ DiskIsConsistentCut /\ DiskIsNewest /\ NothingLeftUnflushed
=============================================================================
