---------------------------- MODULE SecondaryIndex ----------------------------
(***************************************************************************)
(* The secondary indexes of a store_t: the writes that keep them up to     *)
(* date (src/src/rdb_protocol/btree_store.cc, btree.cc), the construction  *)
(* of an index beside them (protocol.cc), and the clearing of a dropped    *)
(* one, at once or when the store is next opened (store.cc).               *)
(*                                                                         *)
(* Whoever changes a row, or the set of indexes, holds the sindex block.   *)
(* Its holders follow one another in the order of the superblock, so what  *)
(* is done under the block is one step, at the moment when what it waits   *)
(* for has come.  update_sindexes() releases it early: it has a place in   *)
(* the line for the sindex queues and holds the superblocks of the indexes *)
(* it updates, and it goes on in steps of its own.                         *)
(*                                                                         *)
(* A document is the number of the write that made it (1 for what was here *)
(* at the start) and the keys that the index function gives it, none if    *)
(* that function fails.  An entry of an index refers to the document it    *)
(* was made for.                                                           *)
(***************************************************************************)
EXTENDS Integers, Sequences, SequencesExt, FiniteSets

CONSTANTS SiKeys,       \* primary keys
          SiSecKeys,    \* secondary keys
          SiNames,      \* names of indexes
          SiChunk,      \* MAX_CHUNK_SIZE, CHUNK_SIZE
          SiMaxIds,     \* bound: how many indexes are ever made
          SiMaxWrites,  \* bound: how many times rows are changed
          SiMaxRestarts,\* bound: how many times the store is opened again
          SiStarts      \* bound: the keys used and what is used up of these three

ASSUME SecondaryIndexConstants ==
    /\ SiChunk \in Nat \ {0}
    /\ SiMaxIds \in Nat /\ SiMaxWrites \in Nat /\ SiMaxRestarts \in Nat
    /\ SiStarts \subseteq [keys : SUBSET SiKeys, ids : 0..SiMaxIds, writes : 0..SiMaxWrites,
                           restarts : 0..SiMaxRestarts]

VARIABLES
    siTable,     \* the primary B-tree
    siIndexes,   \* the sindex block: name, being_deleted and complete by id
    siTrees,     \* the B-tree of each index: a set of entries
    siLine,      \* the update_sindexes() in line for sindex_queue_mutex
    siJobs,      \* each post_construct_and_drain_queue() and its mod_queue
    siClears,    \* where the clear_sindex() of each dropped index is
    siIds, siWrites, siRestarts  \* how many there have been

siVars == <<siTable, siIndexes, siTrees, siLine, siJobs, siClears, siIds, siWrites,
            siRestarts>>
siCounts == <<siIds, siWrites, siRestarts>>

NoDoc == [ver |-> 0, skeys |-> {}]
SiDocs == [ver : 1..(SiMaxWrites + 1), skeys : SUBSET SiSecKeys]
SiEntries == [sk : SiSecKeys, pk : SiKeys, ver : 1..(SiMaxWrites + 1)]
SiReports == [key : SiKeys, old : SiDocs \cup {NoDoc}, new : SiDocs \cup {NoDoc}]
SiIds == 1..SiMaxIds

\* Over these keys, so many indexes, writes and restarts are left
SiStart(keys, ids, writes, restarts) ==
    [keys |-> keys, ids |-> SiMaxIds - ids, writes |-> SiMaxWrites - writes,
     restarts |-> SiMaxRestarts - restarts]

SiInit ==
    /\ \E start \in SiStarts :
          /\ siTable \in [start.keys -> {NoDoc, [ver |-> 1, skeys |-> SiSecKeys]}]
          /\ siIds = start.ids /\ siWrites = start.writes /\ siRestarts = start.restarts
    /\ siIndexes = << >> /\ siTrees = [i \in SiIds |-> {}]
    /\ siLine = << >> /\ siJobs = << >> /\ siClears = << >>

----------------------------------------------------------------------------
(* What a modification report does to an index.                            *)

\* compute_keys() of a row
EntriesOf(k, doc) == {[sk |-> s, pk |-> k, ver |-> doc.ver] : s \in doc.skeys}
Image(table) == UNION {EntriesOf(k, table[k]) : k \in DOMAIN table}
WithoutKeys(tree, k, skeys) == {e \in tree : ~(e.pk = k /\ e.sk \in skeys)}

UpdateSingleSindex(tree, deleting, r) ==
    LET erased == WithoutKeys(tree, r.key, r.old.skeys)
    IN  IF deleting THEN erased
        ELSE WithoutKeys(erased, r.key, r.new.skeys) \cup EntriesOf(r.key, r.new)

UpdateTree(tree, deleting, reports) ==
    FoldLeft(LAMBDA t, r : UpdateSingleSindex(t, deleting, r), tree, reports)

\* rdb_update_sindexes() of the indexes `acquired': by id, whether it is being deleted
UpdatedTrees(acquired, reports) ==
    [i \in SiIds |-> IF i \in DOMAIN acquired
                     THEN UpdateTree(siTrees[i], acquired[i], reports) ELSE siTrees[i]]

AcquireSindexes(ids) ==
    [i \in ids \cap DOMAIN siIndexes |-> siIndexes[i].being_deleted]
PostConstructed == {i \in DOMAIN siIndexes : siIndexes[i].complete}

SindexQueuePush(jobs, reports) ==
    [j \in DOMAIN jobs |-> [jobs[j] EXCEPT !.queue = @ \o reports]]

\* An index's superblock is held until its holder has updated it
SuperblockIsFree(i, line) ==
    \A w \in DOMAIN line : line[w].updated \/ i \notin DOMAIN line[w].sindexes

----------------------------------------------------------------------------
(* Writes.                                                                 *)

ReportOf(k, doc) == [key |-> k, old |-> siTable[k], new |-> doc]
NextDocs == {[ver |-> siWrites + 2, skeys |-> s] : s \in SUBSET SiSecKeys}

ChangeRows(reports) ==
    /\ siWrites < SiMaxWrites /\ siWrites' = siWrites + 1
    /\ siTable' = [k \in DOMAIN siTable |->
          IF \E n \in DOMAIN reports : reports[n].key = k
          THEN reports[CHOOSE n \in DOMAIN reports : reports[n].key = k].new
          ELSE siTable[k]]
    /\ UNCHANGED <<siIndexes, siClears, siIds, siRestarts>>

\* update_sindexes() until it releases the sindex block
UpdateSindexes(reports) ==
    /\ ChangeRows(reports)
    /\ siLine' = Append(siLine, [reports |-> reports, updated |-> FALSE,
                                 sindexes |-> AcquireSindexes(PostConstructed)])
    /\ UNCHANGED <<siTrees, siJobs>>

SetRow == \E k \in DOMAIN siTable, doc \in NextDocs : UpdateSindexes(<<ReportOf(k, doc)>>)

\* a deletion, or an erased range of the keys
EraseRange ==
    \E ks \in (SUBSET {k \in DOMAIN siTable : siTable[k] # NoDoc}) \ {{}} :
        UpdateSindexes([n \in 1..Cardinality(ks) |-> ReportOf(SetToSeq(ks)[n], NoDoc)])

\* the rest of update_sindexes(): the trees, then the queues
UpdateAcquired(w) ==
    /\ ~siLine[w].updated
    /\ \A i \in DOMAIN siLine[w].sindexes : SuperblockIsFree(i, SubSeq(siLine, 1, w - 1))
    /\ siTrees' = UpdatedTrees(siLine[w].sindexes, siLine[w].reports)
    /\ siLine' = [siLine EXCEPT ![w].updated = TRUE]
    /\ UNCHANGED <<siTable, siIndexes, siJobs, siClears, siCounts>>

(* Mutant: whoever is ready pushes, out of turn.                           *)
PushReportsMutant ==
    \E w \in DOMAIN siLine :
        /\ siLine[w].updated
        /\ siJobs' = SindexQueuePush(siJobs, siLine[w].reports)
        /\ siLine' = RemoveAt(siLine, w)
        /\ UNCHANGED <<siTable, siIndexes, siTrees, siClears, siCounts>>

PushReports ==
    /\ siLine # << >> /\ siLine[1].updated
    /\ siJobs' = SindexQueuePush(siJobs, siLine[1].reports)
    /\ siLine' = Tail(siLine)
    /\ UNCHANGED <<siTable, siIndexes, siTrees, siClears, siCounts>>

\* batched_replace_t, batched_insert_t: on_mod_report() has the sindex block to its
\* end, and waits for its turn in the line
BatchedReplace ==
    \E k \in DOMAIN siTable, doc \in NextDocs \cup {NoDoc} :
        LET reports == <<ReportOf(k, doc)>> IN
        /\ siLine = << >>
        /\ doc # siTable[k]
        /\ ChangeRows(reports)
        /\ siJobs' = SindexQueuePush(siJobs, reports)
        /\ siTrees' = UpdatedTrees(AcquireSindexes(PostConstructed), reports)
        /\ UNCHANGED siLine

----------------------------------------------------------------------------
(* The set of indexes.                                                     *)

Named(indexes, names) == {i \in DOMAIN indexes :
                             ~indexes[i].being_deleted /\ indexes[i].name \in names}
NameIsFree(indexes, n) == Named(indexes, {n}) = {}

\* mark_secondary_index_deleted(): the index goes by a name made of its id
MarkSindexesDeleted(indexes, ids) ==
    [i \in DOMAIN indexes |->
        [indexes[i] EXCEPT !.being_deleted = @ \/ i \in ids]]

\* add_sindex(), for several names: the n-th new one has the n-th new id
AddSindexes(indexes, names) ==
    [i \in DOMAIN indexes \cup (siIds + 1)..(siIds + Cardinality(names)) |->
        IF i \in DOMAIN indexes THEN indexes[i]
        ELSE [name |-> SetToSeq(names)[i - siIds], being_deleted |-> FALSE,
              complete |-> FALSE]]

\* drop_sindex() spawns a delayed_clear_sindex()
StartClears(ids) ==
    [i \in DOMAIN siClears \cup ids |-> IF i \in ids THEN "chunks" ELSE siClears[i]]

\* bring_sindexes_up_to_date(), of the `count' newest indexes: registers a queue, when
\* it has its turn in the line, and spawns post_construct_and_drain_queue()
BringUpToDate(jobs, count) ==
    LET new == [sindexes |-> (siIds + 1)..(siIds + count), at |-> "start",
                todo |-> << >>, queue |-> << >>]
    IN  IF count = 0 THEN siJobs' = jobs /\ UNCHANGED siIds
        ELSE /\ siIds + count <= SiMaxIds /\ siIds' = siIds + count
             /\ siLine = << >>
             /\ siJobs' = [j \in DOMAIN jobs \cup {siIds + 1} |->
                              IF j = siIds + 1 THEN new ELSE jobs[j]]

CreateSindex(n) ==
    /\ NameIsFree(siIndexes, n)
    /\ siIndexes' = AddSindexes(siIndexes, {n})
    /\ BringUpToDate(siJobs, 1)
    /\ UNCHANGED <<siTable, siTrees, siLine, siClears, siWrites, siRestarts>>

DropSindexes(ids) ==
    /\ siIndexes' = MarkSindexesDeleted(siIndexes, ids)
    /\ siClears' = StartClears(ids)
    /\ UNCHANGED <<siTable, siTrees, siLine, siJobs, siCounts>>

DropSindex(n) == ~NameIsFree(siIndexes, n) /\ DropSindexes(Named(siIndexes, {n}))

\* a rename with overwrite drops the index that has the new name
RenameSindex(old, new) ==
    LET dropped == Named(siIndexes, {new}) IN
    /\ old # new /\ ~NameIsFree(siIndexes, old)
    /\ siIndexes' = [i \in DOMAIN siIndexes |->
          IF i \in Named(siIndexes, {old}) THEN [siIndexes[i] EXCEPT !.name = new]
          ELSE MarkSindexesDeleted(siIndexes, dropped)[i]]
    /\ siClears' = StartClears(dropped)
    /\ UNCHANGED <<siTable, siTrees, siLine, siJobs, siCounts>>

\* set_sindexes() of a backfill: `names', of which those in `changed' have another
\* definition than here
SetSindexes(names, changed) ==
    LET dropped == Named(siIndexes, (SiNames \ names) \cup changed)
        kept == MarkSindexesDeleted(siIndexes, dropped)
        created == {n \in names : NameIsFree(kept, n)}
    IN  /\ siIndexes' = AddSindexes(kept, created)
        /\ siClears' = StartClears(dropped)
        /\ BringUpToDate(siJobs, Cardinality(created))
        /\ UNCHANGED <<siTable, siTrees, siLine, siWrites, siRestarts>>

\* reset_data(), when no region of the store has data any more
MaybeDropAllSindexes ==
    /\ \A k \in DOMAIN siTable : siTable[k] = NoDoc
    /\ Named(siIndexes, SiNames) # {} /\ DropSindexes(Named(siIndexes, SiNames))

----------------------------------------------------------------------------
(* post_construct_and_drain_queue().                                       *)

GoTo(j, at, todo) ==
    /\ siJobs' = [siJobs EXCEPT ![j].at = at, ![j].todo = todo]
    /\ UNCHANGED <<siTable, siIndexes, siLine, siClears, siCounts>>
DroppedFrom(f, x) == [y \in DOMAIN f \ {x} |-> f[y]]

\* a snapshot of the primary tree is to be traversed
TakeSnapshot(j) ==
    LET rows == {k \in DOMAIN siTable : siTable[k] # NoDoc} IN
    /\ siJobs[j].at = "start"
    /\ GoTo(j, "traverse", [k \in rows |-> siTable[k]])
    /\ UNCHANGED siTrees

\* process_a_leaf(), for a chunk of the rows of a leaf: a transaction of its own
TraverseChunk(j) ==
    LET todo == siJobs[j].todo
        acquired == AcquireSindexes(siJobs[j].sindexes)
    IN  /\ siJobs[j].at = "traverse" /\ todo # << >>
        /\ \/ /\ DOMAIN acquired = {}
              /\ GoTo(j, "leave", << >>) /\ UNCHANGED siTrees
           \/ /\ DOMAIN acquired # {}
              /\ \E ks \in (SUBSET DOMAIN todo) \ {{}} :
                    LET rows == SetToSeq(ks) IN
                    /\ Cardinality(ks) <= SiChunk
                    /\ siTrees' = UpdatedTrees(acquired,
                          [n \in 1..Len(rows) |->
                              [key |-> rows[n], old |-> NoDoc, new |-> todo[rows[n]]]])
                    /\ GoTo(j, "traverse", [k \in DOMAIN todo \ ks |-> todo[k]])

TraversalIsDone(j) ==
    /\ siJobs[j].at = "traverse" /\ siJobs[j].todo = << >>
    /\ GoTo(j, "drain", << >>)
    /\ UNCHANGED siTrees

MarkUpToDate(ids) ==
    [i \in DOMAIN siIndexes |-> [siIndexes[i] EXCEPT !.complete = @ \/ i \in ids]]

\* one round of the loop that drains the queue, with the block and its turn in line
DrainChunk(j) ==
    LET queue == siJobs[j].queue
        count == IF SiChunk < Len(queue) THEN SiChunk ELSE Len(queue)
        acquired == AcquireSindexes(siJobs[j].sindexes)
    IN  /\ siJobs[j].at = "drain"
        /\ \/ /\ DOMAIN acquired = {}
              /\ GoTo(j, "leave", << >>) /\ UNCHANGED siTrees
           \/ /\ DOMAIN acquired # {} /\ siLine = << >>
              /\ siTrees' = UpdatedTrees(acquired, SubSeq(queue, 1, count))
              /\ \/ /\ count = Len(queue)
                    /\ siIndexes' = MarkUpToDate(siJobs[j].sindexes)
                    /\ siJobs' = DroppedFrom(siJobs, j)
                 \/ /\ count < Len(queue)
                    /\ siJobs' = [siJobs EXCEPT ![j].queue = SubSeq(queue, count + 1, Len(queue))]
                    /\ UNCHANGED siIndexes
              /\ UNCHANGED <<siTable, siLine, siClears, siCounts>>

\* all its indexes are gone: the queue is deregistered
LeaveQueue(j) ==
    /\ siJobs[j].at = "leave" /\ siLine = << >>
    /\ siJobs' = DroppedFrom(siJobs, j)
    /\ UNCHANGED <<siTable, siIndexes, siTrees, siLine, siClears, siCounts>>

----------------------------------------------------------------------------
(* clear_sindex(), and the store's constructor.                            *)

\* a chunk of keys; it has reached the end if there are fewer
ClearChunk(i) ==
    /\ siClears[i] = "chunks" /\ SuperblockIsFree(i, siLine)
    /\ \E es \in SUBSET siTrees[i] :
          /\ Cardinality(es) <= SiChunk
          /\ es = siTrees[i] \/ Cardinality(es) = SiChunk
          /\ siTrees' = [siTrees EXCEPT ![i] = @ \ es]
          /\ siClears' = [siClears EXCEPT
                ![i] = IF Cardinality(es) < SiChunk THEN "finish" ELSE @]
    /\ UNCHANGED <<siTable, siIndexes, siLine, siJobs, siCounts>>

\* the superblock, the entry of the sindex block and the slice are deleted
ClearFinish(i) ==
    /\ siClears[i] = "finish" /\ SuperblockIsFree(i, siLine)
    /\ siIndexes' = DroppedFrom(siIndexes, i)
    /\ siClears' = DroppedFrom(siClears, i)
    /\ UNCHANGED <<siTable, siTrees, siLine, siJobs, siCounts>>

(* Mutant: an index whose deletion was interrupted is left as it is.       *)
ToClearAtStartMutant(indexes) == {i \in DOMAIN indexes : indexes[i].being_deleted
                                                         /\ ~siIndexes[i].being_deleted}

ToClearAtStart(indexes) == {i \in DOMAIN indexes : indexes[i].being_deleted}

\* The store is drained, closed and opened again, between two transactions.
\* help_construct_bring_sindexes_up_to_date(): those that were being constructed are
\* made anew, and whatever is being deleted is cleared
Restart ==
    LET dropped == {i \in Named(siIndexes, SiNames) : ~siIndexes[i].complete}
        names == {siIndexes[i].name : i \in dropped}
        indexes == AddSindexes(MarkSindexesDeleted(siIndexes, dropped), names)
    IN  /\ siRestarts < SiMaxRestarts /\ siRestarts' = siRestarts + 1
        /\ siLine = << >>
        /\ siIndexes' = indexes
        /\ siClears' = [i \in ToClearAtStart(indexes) |-> "chunks"]
        /\ BringUpToDate(<< >>, Cardinality(names))
        /\ UNCHANGED <<siTable, siTrees, siLine, siWrites>>

----------------------------------------------------------------------------
SiConstruct == \E j \in DOMAIN siJobs :
    TakeSnapshot(j) \/ TraverseChunk(j) \/ TraversalIsDone(j) \/ DrainChunk(j) \/ LeaveQueue(j)
SiClear == \E i \in DOMAIN siClears : ClearChunk(i) \/ ClearFinish(i)
SiUpdate == \/ \E w \in DOMAIN siLine : UpdateAcquired(w)
            \/ PushReports
SiRequest ==
    \/ SetRow \/ EraseRange \/ BatchedReplace
    \/ \E n \in SiNames : CreateSindex(n) \/ DropSindex(n)
    \/ \E old, new \in SiNames : RenameSindex(old, new)
    \/ \E names \in SUBSET SiNames : \E changed \in SUBSET names : SetSindexes(names, changed)
    \/ MaybeDropAllSindexes

SiNext == SiConstruct \/ SiClear \/ SiUpdate \/ SiRequest \/ Restart

\* Every coroutine that is not waiting goes on, and the line and the sindex block are
\* first come, first served
SiFairness ==
    /\ WF_siVars(SiUpdate)
    /\ \A i \in SiIds : /\ WF_siVars(i \in DOMAIN siClears /\ (ClearChunk(i) \/ ClearFinish(i)))
                        /\ WF_siVars(i \in DOMAIN siJobs /\
                                     (TakeSnapshot(i) \/ TraverseChunk(i) \/ TraversalIsDone(i)
                                      \/ DrainChunk(i) \/ LeaveQueue(i)))

SiSpec == SiInit /\ [][SiNext]_siVars /\ SiFairness

----------------------------------------------------------------------------
SiTypeOK ==
    /\ siTable \in [DOMAIN siTable -> SiDocs \cup {NoDoc}] /\ DOMAIN siTable \subseteq SiKeys
    /\ DOMAIN siIndexes \subseteq 1..siIds
    /\ \A i \in DOMAIN siIndexes :
          siIndexes[i] \in [name : SiNames, being_deleted : BOOLEAN, complete : BOOLEAN]
    /\ siTrees \in [SiIds -> SUBSET SiEntries]
    /\ \A w \in DOMAIN siLine : \A n \in DOMAIN siLine[w].reports :
          siLine[w].reports[n] \in SiReports
    /\ \A j \in DOMAIN siJobs : siJobs[j].at \in {"start", "traverse", "drain", "leave"}
    /\ \A i \in DOMAIN siClears : siClears[i] \in {"chunks", "finish"}

\* the reports that are still on their way to index i
InLine(lacks(_)) ==
    FoldLeft(LAMBDA acc, w : IF lacks(w) THEN acc \o w.reports ELSE acc, << >>, siLine)

\* what the tree of index i comes to when nothing more is written
Settled(i) ==
    LET constructing == {j \in DOMAIN siJobs : i \in siJobs[j].sindexes}
        job == siJobs[CHOOSE j \in constructing : TRUE]
        rows == IF job.at = "start" THEN siTable ELSE job.todo
        deleting == siIndexes[i].being_deleted
        Late(w) == ~w.updated /\ i \in DOMAIN w.sindexes
        All(w) == TRUE
        traversed == IF deleting THEN siTrees[i]
                     ELSE {e \in siTrees[i] : e.pk \notin DOMAIN rows} \cup Image(rows)
    IN  IF siIndexes[i].complete \/ constructing = {}
        THEN UpdateTree(siTrees[i], deleting, InLine(Late))
        ELSE UpdateTree(traversed, deleting, job.queue \o InLine(All))

(* Wherever its construction is, an index comes to hold exactly the rows   *)
(* of the table (each as it was last written) when its queue and those in  *)
(* line are through: no write is lost between the snapshot, the queue and  *)
(* the moment it is marked, none is applied out of turn, and the changes   *)
(* that bring_sindexes_up_to_date() accounts for twice do no harm.  One    *)
(* that is being deleted has no reference to a row that is gone, once it   *)
(* is complete, and is empty when clear_sindex() frees its root.           *)
SindexInv ==
    /\ SiTypeOK
    /\ \A i \in DOMAIN siIndexes :
          /\ ~siIndexes[i].being_deleted => Settled(i) = Image(siTable)
          /\ siIndexes[i].complete => Settled(i) \subseteq Image(siTable)
    /\ \A i \in DOMAIN siClears : siClears[i] = "finish" => siTrees[i] = {}

(* An index that was created becomes ready unless it is dropped, and one   *)
(* that was dropped goes away, also when the store was closed in between.  *)
SindexesSettle ==
    \A i \in SiIds : i \in DOMAIN siIndexes
        ~> (i \in DOMAIN siIndexes => siIndexes[i].complete /\ ~siIndexes[i].being_deleted)
===============================================================================
