------------------------------- MODULE DataBlocks ------------------------------
(***************************************************************************)
(* serializer/log/data_block_manager.cc, with log_serializer.cc and        *)
(* extent_manager.cc: blocks are only ever appended to the active extent;  *)
(* an extent remembers, slot by slot, whether the index or a token refers  *)
(* to it, and is released when nothing does; the collector copies the      *)
(* live blocks of an old extent elsewhere and remaps index and tokens.     *)
(*                                                                         *)
(* The code between two waits is one step.  The steps of the cache, of a   *)
(* reader and of the collectors interleave, and with them the operations   *)
(* of the disk: these keep their order only where they touch the same slot *)
(* (conflict_resolving.cc), and a crash keeps any of the writes that no    *)
(* datasync has covered.  Every block has the size of one slot.            *)
(***************************************************************************)
EXTENDS Integers, Sequences, FiniteSets, SequencesExt

CONSTANTS
  DBlocks,          \* bound: block ids are 1 .. DBlocks
  DSlots,           \* blocks of an extent
  YoungMax,         \* GC_YOUNG_EXTENT_MAX_SIZE
  DExtents,         \* bound: extents the file grows to
  Collectors,       \* bound: gc_state_t's in active_gcs
  Pinned,           \* may the last extent of the file be in use (by the LBA) throughout?
  MaxVersions,      \* bound: block versions written
  MaxDeletes,       \* bound: index writes that delete a block
  DMaxCrashes       \* bound: crashes

ASSUME DataBlocksConstants ==
  /\ {DBlocks, DSlots, DExtents} \subseteq Nat \ {0}
  /\ {YoungMax, MaxVersions, MaxDeletes, DMaxCrashes} \subseteq Nat
  /\ Pinned \subseteq BOOLEAN

VARIABLES
  dM,           \* memory: index, tokens, extents, the extent manager
  dIo,          \* operations the disk has not finished, in the order issued
  dDisk,        \* the durable content of every slot
  dFile,        \* the size of the file, in extents
  dLine,        \* index writes whose metablock is not written yet
  dMb,          \* the newest durable metablock
  dWriter,      \* the cache: what it is doing, and with which blocks
  dReader,      \* a reader of one block
  dGc,          \* the collectors
  dVersion, dDeletes, dCrashes

dVars == <<dM, dIo, dDisk, dFile, dLine, dMb, dWriter, dReader, dGc, dVersion, dDeletes,
           dCrashes>>

BlockSet == 1 .. DBlocks
ExtentSet == 0 .. DExtents - 1
SlotSet == 1 .. DSlots
Offsets == ExtentSet \X SlotSet
Nowhere == <<-1, 0>>
NoExt == -1

Content(b, v) == [block |-> b, version |-> v]
Nothing == Content(0, 0)

\* Who holds a token: the page of a block, a reader, a collector (for the old
\* and for the new place of a block it moves)
PageOf(b) == <<"page", 0, b>>
OldToken(g, i) == <<"old", g, i>>
NewToken(g, i) == <<"new", g, i>>

NoToken == <<"none", 0, 0>>
Writer == <<"writer", 0, 0>>
Reader == <<"reader", 0, 0>>
Collector(g) == <<"collector", g, 0>>

NoEntry == [state |-> "none", n |-> 0, tok |-> {}, idx |-> {}]

--------------------------------------------------------------------------------
(* Extents and tokens.  Each operator takes the memory and gives the memory  *)
(* after it; `failed` records a guarantee() that does not hold.              *)

Require(m, p) == [m EXCEPT !.failed = @ \/ ~ p]

\* try_shrink_file(): free extents at the end of the file are cut off
LastUsed(m) == LET used == {e \in ExtentSet : m.ref[e] > 0}
               IN  IF used = {} THEN -1 ELSE CHOOSE e \in used : \A f \in used : f <= e
Resize(size) == [kind |-> "resize", at |-> {}, what |-> <<>>, size |-> size, by |-> NoToken]
TryShrinkFile(m) ==
  LET size == LastUsed(m) + 1
  IN  IF m.pinned \/ size >= m.size THEN m
      ELSE [m EXCEPT !.size = size, !.out = Append(@, Resize(size))]

\* extent_zone_t::release_extent()
ReleaseExtent(m, e) ==
  LET m1 == [Require(m, m.ref[e] > 0) EXCEPT !.ref[e] = @ - 1]
  IN  IF m1.ref[e] = 0 THEN TryShrinkFile(m1) ELSE m1

\* gen_extent(): the lowest free extent, or a longer file
GenExtentId(m) ==
  LET free == {e \in ExtentSet : m.ref[e] = 0}
  IN  CHOOSE e \in free : \A f \in free : e <= f
GrowFile(m, e) ==
  IF m.pinned \/ e < m.size THEN m
  ELSE [m EXCEPT !.size = e + 1, !.out = Append(@, Resize(e + 1))]

\* check_and_handle_empty_extent()
CheckEmpty(m, e) ==
  LET en == m.entry[e]
  IN  IF en.state \in {"none", "active"} \/ en.tok # {} \/ en.idx # {} THEN m
      ELSE ReleaseExtent([m EXCEPT !.entry[e] = NoEntry,
                                   !.young = SelectSeq(@, LAMBDA x : x # e),
                                   !.current = [g \in Collectors |->
                                     IF @[g] = e THEN NoExt ELSE @[g]]], e)

Garbage(m, off) == off[2] \notin m.entry[off[1]].tok \cup m.entry[off[1]].idx
HasEntry(m, off) == m.entry[off[1]].state # "none"
TokensAt(m, off) == {t \in DOMAIN m.token : m.token[t] = off}

\* mark_live_tokenwise_with_offset(), mark_garbage_tokenwise_with_offset()
MarkLiveTokenwise(m, off) ==
  [Require(m, HasEntry(m, off)) EXCEPT !.entry[off[1]].tok = @ \cup {off[2]}]
MarkGarbageTokenwise(m, off) ==
  CheckEmpty([Require(m, HasEntry(m, off) /\ ~ Garbage(m, off))
                EXCEPT !.entry[off[1]].tok = @ \ {off[2]}], off[1])

\* register_block_token(), unregister_block_token()
Register(m, t, off) ==
  LET m1 == IF TokensAt(m, off) = {} THEN MarkLiveTokenwise(m, off) ELSE m
  IN  [m1 EXCEPT !.token = [u \in DOMAIN @ \cup {t} |-> IF u = t THEN off ELSE @[u]]]
Unregister(m, t) ==
  LET off == m.token[t]
      m1  == [m EXCEPT !.token = [u \in DOMAIN @ \ {t} |-> @[u]]]
  IN  IF TokensAt(m1, off) = {} THEN MarkGarbageTokenwise(m1, off) ELSE m1

(* Mutant: tokens move, their bits do not.                                 *)
RemapMutant(m, old, new) ==
  IF TokensAt(m, old) = {} THEN m
  ELSE LET m1 == [m EXCEPT !.token = [t \in DOMAIN @ |-> IF @[t] = old THEN new ELSE @[t]]]
       IN  m1

\* remap_block_to_new_offset()
Remap(m, old, new) ==
  IF TokensAt(m, old) = {} THEN m
  ELSE LET m1 == [m EXCEPT !.token = [t \in DOMAIN @ |-> IF @[t] = old THEN new ELSE @[t]]]
       IN  MarkLiveTokenwise(MarkGarbageTokenwise(m1, old), new)

(* Mutant: the transaction gets no reference.                              *)
MarkGarbageMutant(m, off) ==
  CheckEmpty([Require(m, HasEntry(m, off) /\ off[2] \in m.entry[off[1]].idx)
                EXCEPT !.entry[off[1]].idx = @ \ {off[2]}], off[1])

\* mark_garbage(): the transaction gets a reference of its own to the extent
MarkGarbage(m, off) ==
  CheckEmpty([Require(m, HasEntry(m, off) /\ off[2] \in m.entry[off[1]].idx)
                EXCEPT !.txn = Append(@, off[1]), !.ref[off[1]] = @ + 1,
                       !.entry[off[1]].idx = @ \ {off[2]}], off[1])

\* mark_live(), once the serializer has started
MarkLive(m, off) ==
  [Require(m, HasEntry(m, off)) EXCEPT !.entry[off[1]].idx = @ \cup {off[2]}]

\* mark_unyoung_entries(); m.aged says whether the time limit has passed
MarkUnyoung(m) ==
  LET keep == IF m.aged THEN 0 ELSE YoungMax
      cut  == IF Len(m.young) > keep THEN Len(m.young) - keep ELSE 0
  IN  [m EXCEPT !.young = SubSeq(@, cut + 1, Len(@)),
                !.entry = [e \in ExtentSet |->
                             IF \E i \in 1 .. cut : m.young[i] = e
                             THEN [@[e] EXCEPT !.state = "old"] ELSE @[e]]]

\* A new active extent
NewActive(m) ==
  LET e == GenExtentId(m)
  IN  [GrowFile(m, e) EXCEPT !.ref[e] = 1, !.active = e,
                             !.entry[e] = [NoEntry EXCEPT !.state = "active"]]

\* gimme_some_new_offsets() for one block: a place on the active extent, which is
\* first retired if it is full
PlaceForOne(m, t) ==
  LET a  == m.active
      m1 == IF a = NoExt THEN NewActive(m)
            ELSE IF m.entry[a].n < DSlots THEN m
            ELSE IF m.entry[a].tok \cup m.entry[a].idx = {}
            THEN ReleaseExtent([NewActive(m) EXCEPT !.entry[a] = NoEntry], a)
            ELSE NewActive(MarkUnyoung([m EXCEPT !.entry[a].state = "young",
                                                 !.young = Append(@, a)]))
      e  == m1.active
      m2 == [m1 EXCEPT !.entry[e].n = @ + 1]
  IN  Register(m2, t, <<e, m2.entry[e].n>>)

\* many_writes(): blocks is a sequence of [token, content]; one write per extent
ManyWrites(m, by, blocks) ==
  LET placed == FoldLeft(LAMBDA x, w : PlaceForOne(x, w.token), m, blocks)
      at(w)  == placed.token[w.token]
      exts   == {at(blocks[i])[1] : i \in DOMAIN blocks}
      Write(e) == LET S == {i \in DOMAIN blocks : at(blocks[i])[1] = e}
                  IN  [kind |-> "write", by |-> by, size |-> 0,
                       at   |-> {at(blocks[i]) : i \in S},
                       what |-> [o \in {at(blocks[i]) : i \in S} |->
                          blocks[CHOOSE i \in S : at(blocks[i]) = o].content]]
  IN  [placed EXCEPT !.out = @ \o [k \in 1 .. Cardinality(exts) |->
                                      Write(SetToSortSeq(exts, <)[k])]]

\* The index part of index_write(): ops is a sequence of [block, to], where to is
\* a token, or NoToken for a deletion
SetOffset(m, op) ==
  LET old == m.index[op.block]
      new == IF op.to = NoToken THEN Nowhere ELSE m.token[op.to]
      m1  == IF old = Nowhere THEN m ELSE MarkGarbage(m, old)
      m2  == IF new = Nowhere THEN m1 ELSE MarkLive(m1, new)
  IN  [m2 EXCEPT !.index[op.block] = new]

--------------------------------------------------------------------------------
(* The start on a metablock: reconstruction, start_existing().               *)

MemoryFrom(mb, pinned) ==
  LET live(e) == {i \in SlotSet : \E b \in BlockSet : mb.index[b] = <<e, i>>}
      top(S)  == IF S = {} THEN 0 ELSE CHOOSE i \in S : \A j \in S : j <= i
      used    == {e \in ExtentSet : live(e) # {} \/ e = mb.active}
  IN  [index   |-> mb.index,
       token   |-> [t \in {} |-> Nowhere],
       entry   |-> [e \in ExtentSet |->
                      IF e \notin used THEN NoEntry
                      ELSE [state |-> IF e = mb.active THEN "active" ELSE "old",
                            n |-> top(live(e)), tok |-> {}, idx |-> live(e)]],
       ref     |-> [e \in ExtentSet |-> IF e \in used THEN 1 ELSE 0],
       pinned  |-> pinned,
       size    |-> IF pinned THEN DExtents ELSE top(used \cup {-1}) + 1,
       active  |-> mb.active,
       young   |-> <<>>,
       current |-> [g \in Collectors |-> NoExt],
       txn     |-> <<>>, out |-> <<>>, aged |-> FALSE, failed |-> FALSE]

NoWriter == [pc |-> "idle", blocks |-> {}]
NoReader == [pc |-> "idle", want |-> Nothing, got |-> Nothing]
NoCollector == [pc |-> "idle", read |-> <<>>, slots |-> <<>>]

\* A database just started: block 1 alone on an old extent whose other slots hold
\* garbage, every other block on the active one
FirstIndex == [b \in BlockSet |-> IF b = 1 THEN <<0, 1>> ELSE <<1, b - 1>>]

DInit ==
  /\ dMb = [index |-> FirstIndex, active |-> 1]
  /\ \E pinned \in Pinned : dM = MemoryFrom(dMb, pinned)
  /\ dDisk = [o \in Offsets |->
                IF \E b \in BlockSet : FirstIndex[b] = o
                THEN Content(CHOOSE b \in BlockSet : FirstIndex[b] = o, 0)
                ELSE Nothing]
  /\ dFile = dM.size
  /\ dIo = <<>> /\ dLine = <<>>
  /\ dWriter = NoWriter /\ dReader = NoReader
  /\ dGc = [g \in Collectors |-> NoCollector]
  /\ dVersion = 0 /\ dDeletes = 0 /\ dCrashes = 0

--------------------------------------------------------------------------------
(* The disk.                                                                 *)

Issued(ops) == [i \in DOMAIN ops |->
  [kind |-> ops[i].kind, at |-> ops[i].at, what |-> ops[i].what, size |-> ops[i].size,
   by |-> ops[i].by, acked |-> FALSE]]

\* The memory becomes m, and the operations m.out go to the disk
Becomes(m) ==
  /\ dM' = [m EXCEPT !.out = <<>>, !.txn = <<>>, !.aged = FALSE]
  /\ dIo' = dIo \o Issued(m.out)

\* conflict_resolving_diskmgr_t: an operation waits for those issued before it that
\* touch the same slots and for every resize; a resize waits for resizes only
Ready(i) ==
  \A j \in 1 .. i - 1 :
    /\ dIo[j].kind # "resize"
    /\ dIo[i].kind = "resize" \/ dIo[j].at \cap dIo[i].at = {}

DoneBy(by) == \A i \in DOMAIN dIo : dIo[i].by = by => dIo[i].acked

\* What a slot holds for whoever reads it next
Latest(o) ==
  LET W == {i \in DOMAIN dIo : dIo[i].kind = "write" /\ o \in dIo[i].at}
  IN  IF W = {} THEN dDisk[o]
      ELSE dIo[CHOOSE i \in W : \A j \in W : j <= i].what[o]

\* A write is durable.  Past the end of the file it makes the file longer.
LandWrite(i) ==
  /\ dIo[i].kind = "write" /\ Ready(i)
  /\ dDisk' = [o \in Offsets |-> IF o \in dIo[i].at THEN dIo[i].what[o] ELSE dDisk[o]]
  /\ dFile' = LET last == CHOOSE e \in ExtentSet : \E o \in dIo[i].at : o[1] = e
              IN  IF last < dFile THEN dFile ELSE last + 1
  /\ dIo' = RemoveAt(dIo, i)
  /\ UNCHANGED <<dM, dLine, dMb, dWriter, dReader, dGc, dVersion, dDeletes, dCrashes>>

\* The disk reports the writes it can complete, and may still lose them
AckWrites ==
  LET A == {i \in DOMAIN dIo : dIo[i].kind = "write" /\ ~ dIo[i].acked /\ Ready(i)}
  IN  /\ A # {}
      /\ dIo' = [i \in DOMAIN dIo |-> [dIo[i] EXCEPT !.acked = @ \/ i \in A]]
      /\ UNCHANGED <<dM, dDisk, dFile, dLine, dMb, dWriter, dReader, dGc, dVersion,
                     dDeletes, dCrashes>>

\* A read returns.  Past the end of the file it does not (perform_read_write()).
LandRead(i) ==
  LET got == [o \in dIo[i].at |-> dDisk[o]]
  IN  /\ dIo[i].kind = "read" /\ Ready(i)
      /\ \A o \in dIo[i].at : o[1] < dFile
      /\ dIo' = RemoveAt(dIo, i)
      /\ \/ /\ dIo[i].by = Reader
            /\ dReader' = [dReader EXCEPT !.pc = "done",
                                          !.got = got[CHOOSE o \in dIo[i].at : TRUE]]
            /\ UNCHANGED dGc
         \/ \E g \in Collectors :
              /\ dIo[i].by = Collector(g)
              /\ dGc' = [dGc EXCEPT ![g].pc = "read", ![g].read = got]
              /\ UNCHANGED dReader
      /\ UNCHANGED <<dM, dDisk, dFile, dLine, dMb, dWriter, dVersion, dDeletes, dCrashes>>

\* ftruncate(): what is cut off is gone
LandResize(i) ==
  /\ dIo[i].kind = "resize" /\ Ready(i)
  /\ dFile' = dIo[i].size
  /\ dDisk' = [o \in Offsets |-> IF o[1] < dIo[i].size THEN dDisk[o] ELSE Nothing]
  /\ dIo' = RemoveAt(dIo, i)
  /\ UNCHANGED <<dM, dLine, dMb, dWriter, dReader, dGc, dVersion, dDeletes, dCrashes>>

--------------------------------------------------------------------------------
(* The serializer's callers and the collectors.                              *)

InTheLine(m, by, ops) ==
  LET m1 == FoldLeft(SetOffset, m, ops)
  IN  /\ Becomes(m1)
      /\ dLine' = Append(dLine, [by |-> by, held |-> m1.txn,
                                 mb |-> [index |-> m1.index, active |-> m1.active]])

\* block_writes() for the blocks B, which get new versions
BlockWrites(B) ==
  LET order == SetToSortSeq(B, <)
      blocks == [i \in DOMAIN order |-> [token |-> PageOf(order[i]),
                                         content |-> Content(order[i], dVersion + i)]]
  IN  /\ dWriter.pc = "idle"
      /\ \A b \in B : PageOf(b) \notin DOMAIN dM.token
      /\ dVersion + Len(order) <= MaxVersions
      /\ \E aged \in BOOLEAN : Becomes(ManyWrites([dM EXCEPT !.aged = aged], Writer, blocks))
      /\ dVersion' = dVersion + Len(order)
      /\ dWriter' = [pc |-> "writing", blocks |-> B]
      /\ UNCHANGED <<dDisk, dFile, dLine, dMb, dReader, dGc, dDeletes, dCrashes>>

\* index_write() with the tokens, once the block writes are done
IndexWriteOf ==
  LET order == SetToSortSeq(dWriter.blocks, <)
  IN  /\ dWriter.pc = "writing" /\ DoneBy(Writer)
      /\ InTheLine(dM, Writer, [i \in DOMAIN order |->
                                  [block |-> order[i], to |-> PageOf(order[i])]])
      /\ dWriter' = [dWriter EXCEPT !.pc = "committing"]
      /\ UNCHANGED <<dDisk, dFile, dMb, dReader, dGc, dVersion, dDeletes, dCrashes>>

\* index_write() that deletes block b
IndexDelete(b) ==
  /\ dWriter.pc = "idle"
  /\ dM.index[b] # Nowhere /\ PageOf(b) \notin DOMAIN dM.token
  /\ dDeletes < MaxDeletes /\ dDeletes' = dDeletes + 1
  /\ InTheLine(dM, Writer, <<[block |-> b, to |-> NoToken]>>)
  /\ dWriter' = [pc |-> "committing", blocks |-> {b}]
  /\ UNCHANGED <<dDisk, dFile, dMb, dReader, dGc, dVersion, dCrashes>>

\* The page of b gives up its token
DropPage(b) ==
  /\ PageOf(b) \in DOMAIN dM.token
  /\ b \notin dWriter.blocks
  /\ Becomes(Unregister(dM, PageOf(b)))
  /\ UNCHANGED <<dDisk, dFile, dLine, dMb, dWriter, dReader, dGc, dVersion, dDeletes,
                 dCrashes>>

\* index_read(), block_read() up to its wait, and the end of the reader's token
IndexRead(b) ==
  /\ dReader.pc = "idle" /\ dM.index[b] # Nowhere
  /\ Becomes(Register(dM, Reader, dM.index[b]))
  /\ dReader' = [pc |-> "holding", want |-> Latest(dM.index[b]), got |-> Nothing]
  /\ UNCHANGED <<dDisk, dFile, dLine, dMb, dWriter, dGc, dVersion, dDeletes, dCrashes>>

ReadOp(by, at) == [kind |-> "read", at |-> at, what |-> <<>>, size |-> 0, by |-> by]

BlockRead ==
  /\ dReader.pc = "holding"
  /\ Becomes([dM EXCEPT !.out = <<ReadOp(Reader, {dM.token[Reader]})>>])
  /\ dReader' = [dReader EXCEPT !.pc = "reading"]
  /\ UNCHANGED <<dDisk, dFile, dLine, dMb, dWriter, dGc, dVersion, dDeletes, dCrashes>>

ReaderDone ==
  /\ dReader.pc = "done"
  /\ Becomes(Unregister(dM, Reader))
  /\ dReader' = NoReader
  /\ UNCHANGED <<dDisk, dFile, dLine, dMb, dWriter, dGc, dVersion, dDeletes, dCrashes>>

Old == {e \in ExtentSet : dM.entry[e].state = "old"}
LiveSlots(e) == dM.entry[e].tok \cup dM.entry[e].idx

\* gc_one_extent(): the old extent with most garbage; its live blocks are read
GcStart(g) ==
  \E e \in Old :
    /\ dGc[g].pc = "idle"
    /\ \A f \in Old : Cardinality(LiveSlots(e)) <= Cardinality(LiveSlots(f))
    /\ Cardinality(LiveSlots(e)) < DSlots
    /\ Becomes([dM EXCEPT !.entry[e].state = "in_gc", !.current[g] = e,
                          !.out = <<ReadOp(Collector(g), {<<e, i>> : i \in LiveSlots(e)})>>])
    /\ dGc' = [dGc EXCEPT ![g].pc = "reading"]
    /\ UNCHANGED <<dDisk, dFile, dLine, dMb, dWriter, dReader, dVersion, dDeletes, dCrashes>>

\* Its second part and step 1 of write_gcs(): tokens for the old places of the
\* blocks that are still live, and writes to new ones; or, if other forces have
\* released the extent, nothing
GcRewrite(g) ==
  LET e     == dM.current[g]
      slots == IF e = NoExt THEN <<>> ELSE SetToSortSeq(LiveSlots(e), <)
      held  == FoldLeft(LAMBDA m, i : Register(m, OldToken(g, i), <<e, i>>), dM, slots)
  IN  /\ dGc[g].pc = "read"
      /\ IF e = NoExt
         THEN dGc' = [dGc EXCEPT ![g] = NoCollector] /\ UNCHANGED <<dM, dIo>>
         ELSE /\ \E aged \in BOOLEAN :
                   Becomes(ManyWrites([held EXCEPT !.aged = aged], Collector(g),
                     [k \in DOMAIN slots |-> [token |-> NewToken(g, slots[k]),
                                              content |-> dGc[g].read[<<e, slots[k]>>]]]))
              /\ dGc' = [dGc EXCEPT ![g].pc = "writing", ![g].slots = slots]
      /\ UNCHANGED <<dDisk, dFile, dLine, dMb, dWriter, dReader, dVersion, dDeletes, dCrashes>>

\* Steps 3 and 4: the index operations, the tokens' new places, index_write()
GcCommit(g) ==
  LET e      == dM.current[g]
      slots  == dGc[g].slots
      inIdx  == SelectSeq(slots, LAMBDA i : i \in dM.entry[e].idx)
      ops    == [k \in DOMAIN inIdx |->
                   [block |-> dGc[g].read[<<e, inIdx[k]>>].block,
                    to |-> NewToken(g, inIdx[k])]]
      remapped == FoldLeft(LAMBDA m, i : Remap(m, <<e, i>>, m.token[NewToken(g, i)]),
                           Require(dM, e # NoExt), slots)
      cleared  == FoldLeft(LAMBDA m, i : Unregister(m, OldToken(g, i)), remapped, slots)
      keptOps  == FoldLeft(LAMBDA m, i : Unregister(m, NewToken(g, i)), cleared,
                           SelectSeq(slots, LAMBDA i : i \notin dM.entry[e].idx))
  IN  /\ dGc[g].pc = "writing" /\ DoneBy(Collector(g))
      /\ InTheLine(keptOps, Collector(g), ops)
      /\ dGc' = [dGc EXCEPT ![g] = [NoCollector EXCEPT !.pc = "committing", !.slots = inIdx]]
      /\ UNCHANGED <<dDisk, dFile, dMb, dWriter, dReader, dVersion, dDeletes, dCrashes>>

\* A metablock is written, between two datasyncs.  Its index write commits its
\* transaction and returns; a collector then drops the tokens of its operations
\* and must find its extent released.
MetablockIsWritten ==
  LET w == Head(dLine)
      m == FoldLeft(ReleaseExtent, dM, w.held)
  IN  /\ dLine # <<>>
      /\ \A i \in DOMAIN dIo : ~ dIo[i].acked
      /\ dLine' = Tail(dLine)
      /\ dMb' = w.mb
      /\ \/ /\ w.by = Writer
            /\ Becomes(m)
            /\ dWriter' = NoWriter
            /\ UNCHANGED dGc
         \/ \E g \in Collectors, aged \in BOOLEAN :
              LET dropped == FoldLeft(LAMBDA x, i : Unregister(x, NewToken(g, i)), m,
                                      dGc[g].slots)
              IN  /\ w.by = Collector(g)
                  /\ Becomes(Require(MarkUnyoung([dropped EXCEPT !.aged = aged]),
                                     dropped.current[g] = NoExt))
                  /\ dGc' = [dGc EXCEPT ![g] = NoCollector]
                  /\ UNCHANGED dWriter
      /\ UNCHANGED <<dDisk, dFile, dReader, dVersion, dDeletes, dCrashes>>

\* The process dies and starts again on what is durable
Crash ==
  /\ dCrashes < DMaxCrashes /\ dCrashes' = dCrashes + 1
  /\ dM' = MemoryFrom(dMb, dM.pinned)
  /\ dIo' = <<>> /\ dLine' = <<>>
  /\ dWriter' = NoWriter /\ dReader' = NoReader
  /\ dGc' = [g \in Collectors |-> NoCollector]
  /\ UNCHANGED <<dDisk, dFile, dMb, dVersion, dDeletes>>

DNext ==
  \/ \E B \in (SUBSET BlockSet) \ {{}} : BlockWrites(B)
  \/ IndexWriteOf
  \/ \E b \in BlockSet : IndexDelete(b) \/ DropPage(b) \/ IndexRead(b)
  \/ BlockRead \/ ReaderDone
  \/ \E g \in Collectors : GcStart(g) \/ GcRewrite(g) \/ GcCommit(g)
  \/ MetablockIsWritten
  \/ \E i \in DOMAIN dIo : LandWrite(i) \/ LandRead(i) \/ LandResize(i)
  \/ AckWrites
  \/ Crash

DSpec == DInit /\ [][DNext]_dVars

--------------------------------------------------------------------------------
(* Every variable holds a value of the type the code declares for it, and    *)
(* the extent manager's counts are the references that exist.                *)
DTypeOK ==
  /\ dM.index \in [BlockSet -> Offsets \cup {Nowhere}]
  /\ \A t \in DOMAIN dM.token : dM.token[t] \in Offsets
  /\ dM.entry \in [ExtentSet -> [state : {"none", "active", "young", "old", "in_gc"},
                                 n : 0 .. DSlots, tok : SUBSET SlotSet, idx : SUBSET SlotSet]]
  /\ dM.ref \in [ExtentSet -> Nat]
  /\ dDisk \in [Offsets -> [block : 0 .. DBlocks, version : 0 .. MaxVersions]]
  /\ dFile \in 0 .. DExtents

(* No guarantee() of the modules fails: an extent is there when one of its   *)
(* blocks is marked, no block is dropped twice, and when a collector's index *)
(* write returns, its extent is gone ("our write should have forced all of   *)
(* the blocks in the extent to become garbage").                             *)
GuaranteesHold == ~ dM.failed

(* The bits of block_infos are the truth: a slot is index_referenced iff the *)
(* index leads to it and token_referenced iff a token does, and an extent is *)
(* in use iff one of its slots is, it is active, or a transaction holds it.  *)
BitsMatch ==
  LET held(e) == Cardinality({<<k, j>> \in (DOMAIN dLine) \X (1 .. 2 * DBlocks) :
                                j \in DOMAIN dLine[k].held /\ dLine[k].held[j] = e})
  IN  /\ \A e \in ExtentSet :
           LET en == dM.entry[e]
           IN  /\ en.idx = {i \in SlotSet : \E b \in BlockSet : dM.index[b] = <<e, i>>}
               /\ en.tok = {i \in SlotSet : TokensAt(dM, <<e, i>>) # {}}
               /\ dM.ref[e] = held(e) + (IF en.state = "none" THEN 0 ELSE 1)
               /\ en.state \notin {"none", "active"} => en.tok \cup en.idx # {}

(* A read returns the block its token stood for when it was taken, however   *)
(* long it takes: the collector may meanwhile move the block and its extent  *)
(* may be written again.                                                     *)
ReadsReturnTheirBlock == dReader.pc = "done" => dReader.got = dReader.want

(* The serializer implements an atomic store: the collector never changes    *)
(* the content, index writes become durable in order and whole, and what the *)
(* newest metablock leads to is on the disk whenever the process dies.       *)
ContentOf(index, Slot(_)) ==
  [b \in BlockSet |-> IF index[b] = Nowhere THEN Nothing ELSE Slot(index[b])]

Store == INSTANCE AtomicStore WITH
  AContent <- [BlockSet -> [block : 0 .. DBlocks, version : 0 .. MaxVersions]],
  aNow     <- ContentOf(dM.index, Latest),
  aLine    <- [k \in DOMAIN dLine |-> ContentOf(dLine[k].mb.index, Latest)],
  aDurable <- ContentOf(dMb.index, LAMBDA o : dDisk[o])

ImplementsAtomicStore == Store!ASpec

(* No guarantee() of the data block manager fails, its bits say what is in   *)
(* use, and a read returns its block wherever the collector has moved it.    *)
DInv == DTypeOK /\ GuaranteesHold /\ BitsMatch /\ ReadsReturnTheirBlock
================================================================================
