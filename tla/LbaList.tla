-------------------------------- MODULE LbaList --------------------------------
(***************************************************************************)
(* serializer/log/lba/: the index from block ids to offsets, kept in       *)
(* memory (in_memory_index) and as a log on disk.  A new entry goes inline *)
(* into the metablock; when the inline array is full its entries move to   *)
(* the extents of their shards.  A full extent is listed in the shard's    *)
(* superblock.  A garbage collection rewrites the live entries of a shard  *)
(* in batches and then drops the extents that were full when it began.     *)
(*                                                                         *)
(* With it go the parts of log_serializer.cc and extent_manager.cc that    *)
(* make it durable: index_write(), the line of metablock writers and the   *)
(* transactions that hold released extents until a metablock is written.   *)
(* The disk keeps the order of writes to one place (conflict_resolving.cc) *)
(* and no other; a crash keeps any of the writes no datasync has covered.  *)
(* A slot of an extent is what one sync() writes: an entry or a superblock.*)
(***************************************************************************)
EXTENDS Integers, Sequences, FiniteSets, SequencesExt

CONSTANTS
  Shards,           \* LBA_SHARD_FACTOR
  LbaBlocks,           \* bound: block ids are 0 .. LbaBlocks - 1
  Inline,           \* LBA_NUM_INLINE_ENTRIES
  Slots,            \* slots of an extent
  Batch,            \* LBA_GC_BATCH_SIZE
  NumExtents,       \* bound: extents the file grows to
  MaxGcs,           \* bound: shards collected at the same time
  LbaBefore,           \* the blocks written before the behaviour begins, in order
  MaxIndexWrites,   \* bound: index_write() calls
  MaxCrashes        \* bound: crashes and shutdowns

ASSUME LbaConstants ==
  /\ {Shards, LbaBlocks, Inline, Slots, Batch, NumExtents} \subseteq Nat \ {0}
  /\ {MaxGcs, MaxIndexWrites, MaxCrashes} \subseteq Nat

VARIABLES
  lbaMem,       \* memory: index, inline, shards, and the extent manager's state
  lbaIo,        \* writes the disk has not made durable, in the order issued
  lbaDisk,      \* the durable content of every slot
  lbaQueue,     \* metablock_waiter_queue
  lbaSent,      \* metablocks handed to the metablock manager
  lbaMb,        \* the newest durable metablock
  lbaGc,        \* the collection of each shard
  lbaState,     \* state of lba_list_t
  lbaOffset,    \* offsets given out by index writes so far
  lbaCrashes

lbaVars == <<lbaMem, lbaIo, lbaDisk, lbaQueue, lbaSent, lbaMb, lbaGc, lbaState,
             lbaOffset, lbaCrashes>>

ShardIds == 0 .. Shards - 1
BlockIds == 0 .. LbaBlocks - 1
Extents == 0 .. NumExtents - 1
NoExtent == -1
IndexWriter == -1                 \* a waiter that is no collection
Unused == -1                      \* flagged_off64_t::unused()

Entry(b, off) == [block |-> b, off |-> off, exts |-> <<>>]
Superblock(exts) == [block |-> -1, off |-> -1, exts |-> exts]
Zeros == Entry(0, 0)              \* what a slot holds before it is first written

EmptyShard == [last |-> NoExtent, supers |-> <<>>, super |-> NoExtent]
NoGc == [pc |-> "off", next |-> 0, end |-> 0, old |-> {}, held |-> {}, needs |-> {}]

--------------------------------------------------------------------------------
(* Extents.  Each operator takes the memory and gives the memory after it.   *)

\* extent_t's constructor on gen_extent(), which takes the lowest free extent
GenExtent(m) == CHOOSE e \in m.free : \A f \in m.free : e <= f
Take(m, e) == [m EXCEPT !.free = @ \ {e}, !.fill[e] = 0]

\* extent_t::append()
AppendTo(m, e, what) ==
  [m EXCEPT !.fill[e] = @ + 1,
            !.out = Append(@, [at |-> <<e, m.fill[e] + 1>>, what |-> what])]

Full(m, e) == e # NoExtent /\ m.fill[e] = Slots

\* write_superblock(): a full superblock extent is released into the transaction
WriteSuperblock(m, s) ==
  LET sup == m.shard[s].super
      new == sup = NoExtent \/ Full(m, sup)
      e   == IF new THEN GenExtent(m) ELSE sup
      m1  == IF new THEN [Take(m, e) EXCEPT !.shard[s].super = e,
                                            !.txn = @ \cup ({sup} \ {NoExtent})]
                    ELSE m
  IN  AppendTo(m1, e, Superblock(m.shard[s].supers))

\* lba_disk_structure_t::add_entry()
AddEntry(m, entry) ==
  LET s  == entry.block % Shards
      l  == m.shard[s].last
      m1 == IF Full(m, l)
            THEN WriteSuperblock([m EXCEPT !.shard[s].supers = Append(@, l),
                                           !.shard[s].last = NoExtent], s)
            ELSE m
      e  == GenExtent(m1)
      m2 == IF m1.shard[s].last = NoExtent
            THEN [Take(m1, e) EXCEPT !.shard[s].last = e]
            ELSE m1
  IN  AppendTo(m2, m2.shard[s].last, entry)

\* destroy_extents()
DestroyExtents(m, s, old) ==
  WriteSuperblock([m EXCEPT !.shard[s].supers = SelectSeq(@, LAMBDA e : e \notin old),
                            !.txn = @ \cup old], s)

\* lba_list_t::set_block_info(), the oldest inline entries moving first
SetBlockInfo(m, entry) ==
  LET m1 == [m EXCEPT !.index[entry.block] = entry.off]
      m2 == IF Len(m.inline) = Inline
            THEN [FoldLeft(AddEntry, m1, m.inline) EXCEPT !.inline = <<>>]
            ELSE m1
  IN  [m2 EXCEPT !.inline = Append(@, entry)]

\* prepare_metablock(), and the index it stands for
PrepareMetablock(m) ==
  [shard |-> [s \in ShardIds |->
     LET sh == m.shard[s] IN
     [last  |-> sh.last,
      count |-> IF sh.last = NoExtent THEN 0 ELSE m.fill[sh.last],
      super |-> IF sh.supers = <<>> THEN NoExtent ELSE sh.super,
      pos   |-> IF sh.supers = <<>> THEN 0 ELSE m.fill[sh.super]]],
   inline |-> m.inline,
   index  |-> m.index]

\* What sync() of the shards S waits for: the writes to the extents they use
ExtentsOf(sh) == ({sh.last, sh.super} \cup Range(sh.supers)) \ {NoExtent}
SyncOf(m, S) ==
  LET used == UNION {ExtentsOf(m.shard[s]) : s \in S}
      Of(q) == {[at |-> w.at, what |-> w.what] : w \in {v \in Range(q) : v.at[1] \in used}}
  IN  Of(SelectSeq(lbaIo, LAMBDA w : ~ w.acked)) \cup Of(m.out)

Done(needs) == \A i \in DOMAIN lbaIo : ~ lbaIo[i].acked =>
                 [at |-> lbaIo[i].at, what |-> lbaIo[i].what] \notin needs

--------------------------------------------------------------------------------
(* The start: lba_start_fsm_t, reader_t and read_step_2().                   *)

SupersOn(disk, mb, s) ==
  IF mb.shard[s].super = NoExtent THEN <<>>
  ELSE disk[<<mb.shard[s].super, mb.shard[s].pos>>].exts

\* The entries of a shard, in the order the readers apply them
EntriesOn(disk, mb, s) ==
  LET Of(e, n) == [i \in 1 .. n |-> disk[<<e, i>>]]
      sup == SupersOn(disk, mb, s)
  IN  FlattenSeq([i \in DOMAIN sup |-> Of(sup[i], Slots)])
        \o Of(mb.shard[s].last, mb.shard[s].count)

IndexOn(disk, mb) ==
  LET Apply(index, entry) ==
        IF entry.block \in BlockIds THEN [index EXCEPT ![entry.block] = entry.off]
                                    ELSE index
      empty == [b \in BlockIds |-> Unused]
      loaded == [s \in ShardIds |-> FoldLeft(Apply, empty, EntriesOn(disk, mb, s))]
  IN  FoldLeft(Apply, [b \in BlockIds |-> loaded[b % Shards][b]], mb.inline)

\* The extents a metablock leads to
ExtentsOn(disk, mb) ==
  UNION {Range(SupersOn(disk, mb, s)) \cup {mb.shard[s].last, mb.shard[s].super} :
           s \in ShardIds} \ {NoExtent}

MemoryOn(disk, mb) ==
  [index  |-> IndexOn(disk, mb),
   inline |-> mb.inline,
   shard  |-> [s \in ShardIds |-> [last   |-> mb.shard[s].last,
                                   supers |-> SupersOn(disk, mb, s),
                                   super  |-> mb.shard[s].super]],
   fill   |-> [e \in Extents |->
                 IF \E s \in ShardIds : e = mb.shard[s].last
                 THEN mb.shard[CHOOSE s \in ShardIds : e = mb.shard[s].last].count
                 ELSE IF \E s \in ShardIds : e = mb.shard[s].super
                 THEN mb.shard[CHOOSE s \in ShardIds : e = mb.shard[s].super].pos
                 ELSE IF e \in ExtentsOn(disk, mb) THEN Slots ELSE 0],
   free   |-> Extents \ ExtentsOn(disk, mb),
   txn    |-> {},
   out    |-> <<>>]

InitialMetablock ==
  [shard  |-> [s \in ShardIds |-> [last |-> NoExtent, count |-> 0,
                                   super |-> NoExtent, pos |-> 0]],
   inline |-> <<>>,
   index  |-> [b \in BlockIds |-> Unused]]

\* A database in which the index writes LbaBefore have been made, one by one
NewDisk == [at \in Extents \X (1 .. Slots) |-> Zeros]
MemoryBefore ==
  FoldLeft(SetBlockInfo, MemoryOn(NewDisk, InitialMetablock),
           [i \in DOMAIN LbaBefore |-> Entry(LbaBefore[i], i)])

LbaInit ==
  /\ lbaDisk = FoldLeft(LAMBDA d, w : [d EXCEPT ![w.at] = w.what],
                        NewDisk, MemoryBefore.out)
  /\ lbaMb = PrepareMetablock(MemoryBefore)
  /\ lbaMem = MemoryOn(lbaDisk, lbaMb)
  /\ lbaIo = <<>> /\ lbaQueue = <<>> /\ lbaSent = <<>>
  /\ lbaGc = [s \in ShardIds |-> NoGc]
  /\ lbaState = "ready"
  /\ lbaOffset = Len(LbaBefore) /\ lbaCrashes = 0

--------------------------------------------------------------------------------
Active == {s \in ShardIds : lbaGc[s].pc # "off"}

\* we_want_to_gc(), LBA_MIN_SIZE_FOR_GC being one extent
WeWantToGc(s) ==
  LET sh == lbaMem.shard[s]
  IN  /\ lbaGc[s].pc = "off"
      /\ lbaState # "gc_shutting_down"
      /\ sh.super # NoExtent
      /\ Len(sh.supers) >= 1
      /\ 2 * (LbaBlocks \div Shards) <= Len(sh.supers) * Slots

\* The writes m.out go to the disk, the memory is m
Issue(m) ==
  /\ lbaMem' = [m EXCEPT !.out = <<>>, !.txn = {}]
  /\ lbaIo' = lbaIo \o [i \in DOMAIN m.out |->
                          [at |-> m.out[i].at, what |-> m.out[i].what, acked |-> FALSE]]

\* write_metablock() up to its first wait
InLine(m, who, needs, held) ==
  lbaQueue' = Append(lbaQueue, [who |-> who, needs |-> needs, held |-> held,
                                mb |-> PrepareMetablock(m)])

\* index_write() of the operations ops (each sets a block's offset, or deletes
\* it), from index_write_prepare() to the line of metablock writers
LbaIndexWrite(ops) ==
  LET m == FoldLeft(SetBlockInfo, lbaMem, ops)
      G == {s \in ShardIds : WeWantToGc(s)}
  IN  /\ lbaState = "ready"
      /\ lbaOffset < Len(LbaBefore) + MaxIndexWrites
      /\ lbaOffset' = lbaOffset + 1
      /\ Cardinality(Active \cup G) <= MaxGcs
      /\ lbaGc' = [s \in ShardIds |->
                     IF s \in G THEN [NoGc EXCEPT !.pc = "spawned"] ELSE lbaGc[s]]
      /\ Issue(m)
      /\ InLine(m, IndexWriter, SyncOf(m, ShardIds), m.txn)
      /\ UNCHANGED <<lbaDisk, lbaSent, lbaMb, lbaState, lbaCrashes>>

\* Bound: a write of block 0, its deletion, or a write of block 0 and the last one
IndexOps ==
  LET New(b) == Entry(b, lbaOffset + 1)
  IN  {<<New(0)>>, <<Entry(0, Unused)>>, <<New(0), New(LbaBlocks - 1)>>}

\* gc(): one batch, or what follows the last one, from one wait to the next
GcStep(s) ==
  LET g     == lbaGc[s]
      start == g.pc = "spawned"
      old   == IF start THEN Range(lbaMem.shard[s].supers) ELSE g.old
      end   == IF start THEN LbaBlocks ELSE g.end
      first == IF start THEN s ELSE g.next
      abort == ~ start /\ lbaState = "gc_shutting_down"
      ids   == IF abort THEN <<>>
               ELSE SelectSeq([i \in 1 .. Batch |-> first + (i - 1) * Shards],
                              LAMBDA b : b < end)
      live  == SelectSeq(ids, LAMBDA b : lbaMem.index[b] # Unused)
      m     == FoldLeft(AddEntry, lbaMem,
                        [i \in DOMAIN live |-> Entry(live[i], lbaMem.index[live[i]])])
      last  == IF abort THEN m ELSE DestroyExtents(m, s, old)
  IN  /\ g.pc \in {"spawned", "syncing"}
      /\ Done(g.needs)
      /\ IF Len(ids) = Batch
         THEN /\ Issue(m)
              /\ lbaGc' = [lbaGc EXCEPT ![s] =
                   [pc |-> "syncing", next |-> first + Batch * Shards, end |-> end,
                    old |-> old, held |-> g.held \cup m.txn, needs |-> SyncOf(m, {s})]]
              /\ UNCHANGED lbaQueue
         ELSE /\ Issue(last)
              /\ InLine(last, s, SyncOf(last, {s}), g.held \cup last.txn)
              /\ lbaGc' = [lbaGc EXCEPT ![s] = [NoGc EXCEPT !.pc = "writing"]]
      /\ UNCHANGED <<lbaDisk, lbaSent, lbaMb, lbaState, lbaOffset, lbaCrashes>>

(* Mutant: the sync of the LBA is not waited for.                          *)
SubmitMetablockMutant ==
  /\ lbaQueue # <<>>
  /\ lbaSent' = Append(lbaSent, Head(lbaQueue))
  /\ lbaQueue' = Tail(lbaQueue)
  /\ UNCHANGED <<lbaMem, lbaIo, lbaDisk, lbaMb, lbaGc, lbaState, lbaOffset, lbaCrashes>>

\* write_metablock() from its waits (its own sync, then the previous writer) to
\* the hand-over to the metablock manager
SubmitMetablock ==
  /\ lbaQueue # <<>>
  /\ Done(Head(lbaQueue).needs)
  /\ lbaSent' = Append(lbaSent, Head(lbaQueue))
  /\ lbaQueue' = Tail(lbaQueue)
  /\ UNCHANGED <<lbaMem, lbaIo, lbaDisk, lbaMb, lbaGc, lbaState, lbaOffset, lbaCrashes>>

\* The metablock is written: a datasync, the write, a datasync.  Its writer then
\* commits its transactions, which frees the extents they hold.
MetablockWritten ==
  LET w == Head(lbaSent)
  IN  /\ lbaSent # <<>>
      /\ \A i \in DOMAIN lbaIo : ~ lbaIo[i].acked
      /\ lbaSent' = Tail(lbaSent)
      /\ lbaMb' = w.mb
      /\ lbaMem' = [lbaMem EXCEPT !.free = @ \cup w.held]
      /\ lbaGc' = IF w.who \in ShardIds THEN [lbaGc EXCEPT ![w.who] = NoGc] ELSE lbaGc
      /\ UNCHANGED <<lbaIo, lbaDisk, lbaQueue, lbaState, lbaOffset, lbaCrashes>>

\* A write becomes durable; one to the same place that was issued earlier is first
Land(i) ==
  /\ \A j \in 1 .. i - 1 : lbaIo[j].at # lbaIo[i].at
  /\ lbaDisk' = [lbaDisk EXCEPT ![lbaIo[i].at] = lbaIo[i].what]
  /\ lbaIo' = RemoveAt(lbaIo, i)
  /\ UNCHANGED <<lbaMem, lbaQueue, lbaSent, lbaMb, lbaGc, lbaState, lbaOffset, lbaCrashes>>

\* The device reports every write complete, and may still lose them
AckAll ==
  /\ \E i \in DOMAIN lbaIo : ~ lbaIo[i].acked
  /\ lbaIo' = [i \in DOMAIN lbaIo |-> [lbaIo[i] EXCEPT !.acked = TRUE]]
  /\ UNCHANGED <<lbaMem, lbaDisk, lbaQueue, lbaSent, lbaMb, lbaGc, lbaState, lbaOffset,
                 lbaCrashes>>

\* shutdown_gc(): no index write is active then
ShutdownGc ==
  /\ lbaState = "ready" /\ lbaCrashes < MaxCrashes
  /\ \A w \in Range(lbaQueue) \cup Range(lbaSent) : w.who # IndexWriter
  /\ lbaState' = "gc_shutting_down"
  /\ UNCHANGED <<lbaMem, lbaIo, lbaDisk, lbaQueue, lbaSent, lbaMb, lbaGc, lbaOffset,
                 lbaCrashes>>

\* A crash, or shutdown() with every collection over; then a start
Restart ==
  /\ lbaCrashes < MaxCrashes
  /\ lbaCrashes' = lbaCrashes + 1
  /\ lbaMem' = MemoryOn(lbaDisk, lbaMb)
  /\ lbaIo' = <<>> /\ lbaQueue' = <<>> /\ lbaSent' = <<>>
  /\ lbaGc' = [s \in ShardIds |-> NoGc]
  /\ lbaState' = "ready"
  /\ UNCHANGED <<lbaDisk, lbaMb, lbaOffset>>

LbaNext ==
  \/ \E ops \in IndexOps : LbaIndexWrite(ops)
  \/ \E s \in ShardIds : GcStep(s)
  \/ SubmitMetablock \/ MetablockWritten
  \/ \E i \in DOMAIN lbaIo : Land(i)
  \/ AckAll
  \/ ShutdownGc \/ Restart

LbaSpec == LbaInit /\ [][LbaNext]_lbaVars

--------------------------------------------------------------------------------
(* Every variable holds a value of the type the code declares for it, and    *)
(* no list of inline entries or extent holds more than it has room for.      *)
LbaTypeOK ==
  /\ lbaMem.index \in [BlockIds -> Int]
  /\ Len(lbaMem.inline) <= Inline
  /\ lbaMem.fill \in [Extents -> 0 .. Slots]
  /\ lbaMem.free \subseteq Extents
  /\ lbaMem.txn = {} /\ lbaMem.out = <<>>
  /\ \A s \in ShardIds : ExtentsOf(lbaMem.shard[s]) \subseteq Extents \ lbaMem.free
  /\ \A i \in DOMAIN lbaIo : lbaIo[i].at \in DOMAIN lbaDisk
  /\ lbaState \in {"ready", "gc_shutting_down"}
  /\ lbaOffset \in Nat /\ lbaCrashes \in 0 .. MaxCrashes

(* "Write a new metablock once the LBA has synced": whenever the process     *)
(* dies, a start that follows the newest metablock through superblocks and   *)
(* extents reads the index that was in memory when that metablock was        *)
(* prepared.                                                                 *)
LbaRecoverable == IndexOn(lbaDisk, lbaMb) = lbaMb.index

(* "We will not overwrite extents that the most recent metablock points to": *)
(* no extent the newest durable metablock leads to is free, and no write in  *)
(* flight goes to a slot that metablock counts as filled.                    *)
LbaExtentsKept ==
  /\ ExtentsOn(lbaDisk, lbaMb) \cap lbaMem.free = {}
  /\ \A i \in DOMAIN lbaIo : \A s \in ShardIds :
       LET sh == lbaMb.shard[s] IN
       /\ lbaIo[i].at[1] \notin Range(SupersOn(lbaDisk, lbaMb, s))
       /\ lbaIo[i].at[1] = sh.last => lbaIo[i].at[2] > sh.count

(* Whenever the process dies, a start finds the index its metablock stands   *)
(* for, and nothing the newest metablock leads to is overwritten.            *)
LbaInv == LbaTypeOK /\ LbaRecoverable /\ LbaExtentsKept
================================================================================
