---------------------------- MODULE CurrentPage ----------------------------
(***************************************************************************)
(* One block in the page cache (src/src/buffer_cache/page_cache.cc):       *)
(* current_page_t with its queue of current_page_acq_ts.  Acquirers stand  *)
(* in line in the order in which they came.  Readers at the front share    *)
(* the page, the first writer behind them may read it too, and writes once *)
(* it is alone.  A reader that has declared itself snapshotted leaves the  *)
(* line with a page_ptr_t to the page_t as it is then, so that writers     *)
(* need not wait for it; a write makes a copy of a page_t that others      *)
(* point to.  When a writer that dirtied the page goes, it becomes such a  *)
(* snapshotter for a moment: that is how its transaction gets the version  *)
(* that it has to flush.                                                   *)
(*                                                                         *)
(* The contents of a page_t and the recency of the block are the number of *)
(* the write that set them.  Page_ts are always loaded here; each write    *)
(* acquirer is of a transaction of its own (see PageTxn for the graph of   *)
(* the transactions and the order of their flushes).                       *)
(***************************************************************************)
EXTENDS Integers, Sequences, FiniteSets, SequencesExt

CONSTANTS CpAcqs,     \* the current_page_acq_ts, in the order they are made
          MaxWrites   \* bound: calls of current_page_for_write and set_recency

ASSUME CurrentPageConstants == CpAcqs \subseteq Nat \ {0} /\ MaxWrites \in Nat

VARIABLES
    cpPage,    \* the current_page_t; "exists": there is one in current_pages_
    cpAcq,     \* the current_page_acq_ts
    cpHeap,    \* the page_ts: what each of them contains
    cpTxn,     \* snapshotted_dirtied_pages_ of the transaction of a writer
    cpWrites,  \* how many writes there have been
    cpLeft     \* history: contents and recency when a writer's time was over

cpVars == <<cpPage, cpAcq, cpHeap, cpTxn, cpWrites, cpLeft>>

NoPage   == 0        \* a page_ptr_t that is not set
NobodyCp == 0
Deleted  == -1       \* the contents of a deleted block, the invalid recency

CpNewAcq == [state |-> "new", access |-> "read", rd |-> FALSE, wr |-> FALSE,
             snap |-> FALSE, ptr |-> NoPage, ts |-> 0, dirtied |-> FALSE, version |-> 0]

CpInit ==
    /\ cpPage = [exists |-> TRUE, queue |-> <<>>, ptr |-> 1, deleted |-> FALSE,
                 version |-> 1, last |-> NobodyCp, keep |-> 0, recency |-> 0]
    /\ cpAcq = [a \in CpAcqs |-> CpNewAcq]
    /\ cpHeap = <<0>>
    /\ cpTxn = [a \in CpAcqs |-> NoPage]
    /\ cpWrites = 0
    /\ cpLeft = (1 :> <<0, 0>>)

Place(q, a) == CHOOSE i \in DOMAIN q : q[i] = a

(* Mutant: a pulsed chain is left alone, snapshotters included.            *)
PulseMutant(p, acq, a) ==
    LET q == p.queue
        i == Place(q, a)
        isRead(j) == acq[q[j]].access = "read"
        blocked == i > 1 /\ ~(isRead(i - 1) /\ acq[q[i - 1]].rd)
        repeated == /\ isRead(i) /\ acq[a].rd
                    /\ i = Len(q) \/ acq[q[i + 1]].rd
        reached == {j \in i .. Len(q) : \A k \in i .. j - 1 : isRead(k)}
        leaves(j) == j \in reached /\ isRead(j) /\ acq[q[j]].snap
        writes(j) == j \in reached /\ ~isRead(j) /\ \A k \in 1 .. j - 1 : leaves(k)
        after(j) == LET b == acq[q[j]] IN
            [b EXCEPT !.rd = @ \/ j \in reached,
                      !.wr = @ \/ writes(j),
                      !.state = IF leaves(j) THEN "out" ELSE @,
                      !.ptr = IF leaves(j) THEN p.ptr ELSE @,
                      !.ts = IF leaves(j) THEN p.recency ELSE @]
    IN IF blocked \/ repeated THEN [p |-> p, acq |-> acq]
       ELSE [p |-> [p EXCEPT !.queue = SelectSeq(q, LAMBDA b : ~leaves(Place(q, b)))],
             acq |-> [b \in CpAcqs |-> IF Contains(q, b) THEN after(Place(q, b)) ELSE acq[b]]]

(***************************************************************************)
(* current_page_t::pulse_pulsables, on the page p and its acquirers acq.   *)
(* The result has both.                                                    *)
(***************************************************************************)
Pulse(p, acq, a) ==
    LET q == p.queue
        i == Place(q, a)
        isRead(j) == acq[q[j]].access = "read"
        blocked == i > 1 /\ ~(isRead(i - 1) /\ acq[q[i - 1]].rd)
        repeated == /\ isRead(i) /\ acq[a].rd /\ ~acq[a].snap
                    /\ i = Len(q) \/ acq[q[i + 1]].rd
        reached == {j \in i .. Len(q) : \A k \in i .. j - 1 : isRead(k)}
        leaves(j) == j \in reached /\ isRead(j) /\ acq[q[j]].snap
        writes(j) == j \in reached /\ ~isRead(j) /\ \A k \in 1 .. j - 1 : leaves(k)
        after(j) == LET b == acq[q[j]] IN
            [b EXCEPT !.rd = @ \/ j \in reached,
                      !.wr = @ \/ writes(j),
                      !.state = IF leaves(j) THEN "out" ELSE @,
                      !.ptr = IF leaves(j) THEN p.ptr ELSE @,
                      !.ts = IF leaves(j) THEN p.recency ELSE @]
    IN IF blocked \/ repeated THEN [p |-> p, acq |-> acq]
       ELSE [p |-> [p EXCEPT !.queue = SelectSeq(q, LAMBDA b : ~leaves(Place(q, b)))],
             acq |-> [b \in CpAcqs |-> IF Contains(q, b) THEN after(Place(q, b)) ELSE acq[b]]]

AddAcquirer(p, acq, a, access) ==
    LET v == IF access = "write" THEN p.version + 1 ELSE p.version IN
    Pulse([p EXCEPT !.queue = Append(@, a), !.version = v,
                    !.last = IF access = "write" THEN a ELSE @],
          [acq EXCEPT ![a] = [@ EXCEPT !.state = "in", !.access = access, !.version = v]],
          a)

RemoveAcquirer(p, acq, a) ==
    LET i == Place(p.queue, a)
        without == [p EXCEPT !.queue = RemoveAt(@, i)]
    IN IF i < Len(p.queue) THEN Pulse(without, acq, p.queue[i + 1])
       ELSE [p |-> without, acq |-> acq]

DeclareSnapshotted(p, acq, a) ==
    Pulse([p EXCEPT !.keep = @ + 1], [acq EXCEPT ![a].snap = TRUE], a)

\* consider_evicting_current_page, should_be_evicted, reset: a page_t that is
\* loaded keeps the current_page_t, so it is a deleted block that goes
ConsiderEvicting(p) ==
    [p EXCEPT !.exists = @ /\ ~(p.deleted /\ p.queue = <<>>
                                /\ p.last = NobodyCp /\ p.keep = 0)]

-----------------------------------------------------------------------------
\* the next current_page_acq_t that is made
NextAcq(a) == cpAcq[a].state = "new" /\ \A b \in CpAcqs : b < a => cpAcq[b].state # "new"

\* current_page_acq_t::init.  Nobody looks for a block that has been deleted.
AcquirePage(a, access) ==
    /\ NextAcq(a)
    /\ cpPage.exists /\ ~cpPage.deleted
    /\ LET s == AddAcquirer(cpPage, cpAcq, a, access) IN cpPage' = s.p /\ cpAcq' = s.acq
    /\ UNCHANGED <<cpHeap, cpTxn, cpWrites, cpLeft>>

\* init(txn, alt_create_t): the block id is on the free list again once its
\* current_page_t is gone; a new one starts with the first block_version_t
CreatePage(a) ==
    /\ NextAcq(a)
    /\ ~cpPage.exists
    /\ LET p == [exists |-> TRUE, queue |-> <<>>, ptr |-> Len(cpHeap) + 1, deleted |-> FALSE,
                 version |-> 1, last |-> NobodyCp, keep |-> 0, recency |-> 0]
           s == AddAcquirer(p, cpAcq, a, "write")
       IN cpPage' = s.p /\ cpAcq' = s.acq
    /\ cpHeap' = Append(cpHeap, 0)
    /\ cpLeft' = (1 :> <<0, 0>>)
    /\ UNCHANGED <<cpTxn, cpWrites>>

SnapshotPage(a) ==
    /\ cpAcq[a].state = "in" /\ cpAcq[a].access = "read" /\ ~cpAcq[a].snap
    /\ LET s == DeclareSnapshotted(cpPage, cpAcq, a) IN cpPage' = s.p /\ cpAcq' = s.acq
    /\ UNCHANGED <<cpHeap, cpTxn, cpWrites, cpLeft>>

MayWrite(a) == cpAcq[a].state = "in" /\ cpAcq[a].access = "write" /\ cpAcq[a].wr

(* Mutant: the transactions' pointers are not counted.                     *)
ReferencesMutant(ptr) ==
    Cardinality({a \in CpAcqs : cpAcq[a].ptr = ptr})
    + (IF cpPage.ptr = ptr THEN 1 ELSE 0)

\* page_ptr_t::num_snapshot_references
References(ptr) ==
    Cardinality({a \in CpAcqs : cpAcq[a].ptr = ptr}) + Cardinality({a \in CpAcqs : cpTxn[a] = ptr})
    + (IF cpPage.ptr = ptr THEN 1 ELSE 0)

\* current_page_for_write, and a write to the page that it returns
WritePage(a) ==
    /\ MayWrite(a) /\ ~cpPage.deleted /\ cpWrites < MaxWrites
    /\ cpWrites' = cpWrites + 1
    /\ cpAcq' = [cpAcq EXCEPT ![a].dirtied = TRUE]
    /\ IF References(cpPage.ptr) > 1
       THEN /\ cpHeap' = Append(cpHeap, cpWrites')
            /\ cpPage' = [cpPage EXCEPT !.ptr = Len(cpHeap')]
       ELSE /\ cpHeap' = [cpHeap EXCEPT ![cpPage.ptr] = cpWrites']
            /\ cpPage' = cpPage
    /\ UNCHANGED <<cpTxn, cpLeft>>

SetRecency(a) ==
    /\ MayWrite(a) /\ ~cpPage.deleted /\ cpWrites < MaxWrites
    /\ cpWrites' = cpWrites + 1
    /\ cpPage' = [cpPage EXCEPT !.recency = cpWrites']
    /\ UNCHANGED <<cpAcq, cpHeap, cpTxn, cpLeft>>

\* mark_deleted; its assertion that nobody is behind is up to the caller, who
\* holds the block's parent
MarkDeleted(a) ==
    /\ MayWrite(a) /\ ~cpPage.deleted /\ cpPage.queue = <<a>>
    /\ cpAcq' = [cpAcq EXCEPT ![a].dirtied = TRUE]
    /\ cpPage' = [cpPage EXCEPT !.deleted = TRUE, !.recency = Deleted, !.ptr = NoPage]
    /\ UNCHANGED <<cpHeap, cpTxn, cpWrites, cpLeft>>

Contents(ptr) == IF ptr = NoPage THEN Deleted ELSE cpHeap[ptr]

\* ~current_page_acq_t of a reader
DropRead(a) ==
    LET s == IF cpAcq[a].state = "in" THEN RemoveAcquirer(cpPage, cpAcq, a)
             ELSE [p |-> cpPage, acq |-> cpAcq]
    IN /\ cpAcq[a].state \in {"in", "out"} /\ cpAcq[a].access = "read"
       /\ cpAcq' = [s.acq EXCEPT ![a] = [CpNewAcq EXCEPT !.state = "gone"]]
       /\ cpPage' = ConsiderEvicting(
              [s.p EXCEPT !.keep = IF cpAcq[a].snap THEN @ - 1 ELSE @])
       /\ UNCHANGED <<cpHeap, cpTxn, cpWrites, cpLeft>>

\* ~current_page_acq_t of a writer, with page_txn_t::remove_acquirer.  A page
\* that was not dirtied has its recency read, which waits for write_cond_.
DropWrite(a) ==
    LET readonly == Pulse(cpPage, [cpAcq EXCEPT ![a].access = "read"], a)
        s == IF cpAcq[a].dirtied THEN DeclareSnapshotted(readonly.p, readonly.acq, a)
             ELSE RemoveAcquirer(cpPage, cpAcq, a)
    IN /\ MayWrite(a)
       /\ cpTxn' = [cpTxn EXCEPT ![a] = s.acq[a].ptr]
       /\ cpAcq' = [s.acq EXCEPT ![a] = [CpNewAcq EXCEPT !.state = "unflushed"]]
       /\ cpPage' = ConsiderEvicting(
              [s.p EXCEPT !.keep = IF cpAcq[a].dirtied THEN @ - 1 ELSE @])
       /\ cpLeft' = (cpAcq[a].version :> <<Contents(cpPage.ptr), cpPage.recency>>) @@ cpLeft
       /\ UNCHANGED <<cpHeap, cpWrites>>

\* remove_txn_set_from_graph, once the transaction of a has been flushed
FlushedTxn(a) ==
    /\ cpAcq[a].state = "unflushed"
    /\ cpAcq' = [cpAcq EXCEPT ![a].state = "flushed"]
    /\ cpPage' = IF cpPage.last = a
                 THEN ConsiderEvicting([cpPage EXCEPT !.last = NobodyCp]) ELSE cpPage
    /\ UNCHANGED <<cpHeap, cpTxn, cpWrites, cpLeft>>

\* kill_ourselves, ~page_txn_t
DestroyTxn(a) ==
    /\ cpAcq[a].state = "flushed"
    /\ cpAcq' = [cpAcq EXCEPT ![a].state = "gone"]
    /\ cpTxn' = [cpTxn EXCEPT ![a] = NoPage]
    /\ cpPage' = IF cpTxn[a] = NoPage THEN cpPage ELSE ConsiderEvicting(cpPage)
    /\ UNCHANGED <<cpHeap, cpWrites, cpLeft>>

CpNext ==
    \E a \in CpAcqs :
        \/ AcquirePage(a, "read") \/ AcquirePage(a, "write") \/ CreatePage(a)
        \/ SnapshotPage(a) \/ WritePage(a) \/ SetRecency(a) \/ MarkDeleted(a)
        \/ DropRead(a) \/ DropWrite(a) \/ FlushedTxn(a) \/ DestroyTxn(a)

CpSpec == CpInit /\ [][CpNext]_cpVars

-----------------------------------------------------------------------------
\* The type invariant of current_page_t and its acquirers.
CpTypeOK ==
    /\ cpPage.exists \in BOOLEAN /\ cpPage.deleted \in BOOLEAN
    /\ \A i \in DOMAIN cpPage.queue : cpPage.queue[i] \in CpAcqs
    /\ IsInjective(cpPage.queue)
    /\ cpPage.ptr \in 0 .. Len(cpHeap) /\ cpPage.last \in CpAcqs \cup {NobodyCp}
    /\ cpPage.version \in Nat /\ cpPage.keep \in Nat
    /\ \A a \in CpAcqs :
        /\ cpAcq[a].ptr \in 0 .. Len(cpHeap) /\ cpTxn[a] \in 0 .. Len(cpHeap)
        /\ cpAcq[a].state = "in" <=> Contains(cpPage.queue, a)
        /\ cpAcq[a].access \in {"read", "write"}

CpWaits(a) == cpAcq[a].state = "in"
SeenBy(a) ==
    IF cpAcq[a].state = "out" THEN <<Contents(cpAcq[a].ptr), cpAcq[a].ts>>
    ELSE <<Contents(cpPage.ptr), cpPage.recency>>

\* Whoever has been let in to read sees the block as the last writer that
\* stood in line before it left it (block_version_ is its number), contents
\* and recency alike, and keeps seeing it however long it stays: a writer
\* that comes later, a deletion, a re-creation of the block under the same id
\* change nothing for it.  (pulse_pulsables, get_page_for_write, num_keepalives_)
ReadersSeeTheirVersion ==
    \A a \in CpAcqs :
        (cpAcq[a].state \in {"in", "out"} /\ cpAcq[a].access = "read" /\ cpAcq[a].rd)
            => cpAcq[a].version \in DOMAIN cpLeft /\ SeenBy(a) = cpLeft[cpAcq[a].version]

\* The version that the transaction of a writer holds for its flush is the
\* one that the writer left, whatever happened to the block since: two dirty
\* versions of a block may wait for their flushes at once.  (remove_acquirer's
\* "Steal the snapshotted page_ptr_t".)
TxnKeepsItsVersion ==
    [][\A a \in CpAcqs : cpTxn[a] # NoPage /\ cpTxn'[a] # NoPage
            => cpTxn'[a] = cpTxn[a] /\ cpHeap'[cpTxn[a]] = cpHeap[cpTxn[a]]]_cpVars

\* Write access is exclusive: who has it is at the front of the line, and
\* nobody behind has been let in.
WriteIsExclusive ==
    \A a \in CpAcqs : (CpWaits(a) /\ cpAcq[a].wr) =>
        /\ cpPage.queue[1] = a
        /\ \A b \in CpAcqs \ {a} : CpWaits(b) => ~cpAcq[b].rd /\ ~cpAcq[b].wr

\* Nobody is forgotten: pulse_pulsables, which starts in the middle of the
\* line and gives up early ("avoid re-pulsing already-pulsed chains"), has let
\* in every acquirer that has only readers before it, write access included,
\* and every snapshotter that it let in has left the line.
NobodyIsForgotten ==
    \A i \in DOMAIN cpPage.queue :
        LET a == cpPage.queue[i] IN
        (\A j \in 1 .. i - 1 : cpAcq[cpPage.queue[j]].access = "read") =>
            /\ cpAcq[a].rd
            /\ (i = 1 /\ cpAcq[a].access = "write") => cpAcq[a].wr
            /\ ~(cpAcq[a].access = "read" /\ cpAcq[a].snap)

\* A block is right at all times: writers are alone, readers keep the version
\* that they came for, and nobody in line is forgotten.
CpInv == CpTypeOK /\ ReadersSeeTheirVersion /\ WriteIsExclusive /\ NobodyIsForgotten
=============================================================================
