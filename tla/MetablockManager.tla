---------------------------- MODULE MetablockManager ---------------------------
(***************************************************************************)
(* serializer/log/metablock_manager.cc: the ring of metablock slots at the *)
(* front of the database file.  A metablock carries a version and a CRC; a *)
(* start takes the newest slot whose CRC is right, and every write goes to *)
(* the slot under `head`.  A metablock is 4096 bytes and the device's      *)
(* block 512 (config/args.hpp), so a write that a crash interrupts leaves  *)
(* the old metablock, the new one or a torn slot whose CRC is wrong.       *)
(*                                                                         *)
(* The content of a metablock is its number: the log serializer hands them *)
(* over one after another (DataBlocks and LbaList say what is in one).     *)
(***************************************************************************)
EXTENDS Integers, Sequences

CONSTANTS
  NumSlots,         \* metablock_offsets.size(), 7 in the code
  MaxMetablocks,    \* bound: metablocks handed to write_metablock()
  MaxStops,         \* bound: crashes and shutdowns
  TornOverwrite     \* may a crash tear a write over the newest metablock?

ASSUME MetablockConstants ==
  /\ NumSlots \in Nat \ {0, 1}
  /\ MaxMetablocks \in Nat /\ MaxStops \in Nat
  /\ TornOverwrite \in BOOLEAN

VARIABLES
  mbSlot,       \* the slots on disk
  mbHead,       \* head.mb_slot
  mbNext,       \* next_version_number
  mbState,      \* state, or "failed": the guarantee on metablock_found failed
  mbBuffer,     \* mb_buffer while it is written
  mbLine,       \* metablocks whose co_write_metablock() waits for write_lock
  mbGiven,      \* metablocks handed to write_metablock() so far
  mbStops

mbVars == <<mbSlot, mbHead, mbNext, mbState, mbBuffer, mbLine, mbGiven, mbStops>>

MB_BAD_VERSION == -1
MB_START_VERSION == 1

SlotIds == 0 .. NumSlots - 1
Metablock == [version : Nat, mb : Nat]
BadCrc == [version |-> MB_BAD_VERSION, mb |-> 0]
NoBuffer == BadCrc
NoSlot == -1
NothingFound == [latest |-> MB_BAD_VERSION, saved |-> NoSlot, over |-> FALSE]

--------------------------------------------------------------------------------
(* Mutant: the last good slot wins, whatever its version.                  *)
ScanSlotMutant(slots, i, s) ==
  IF slots[i] = BadCrc THEN s
  ELSE [latest |-> slots[i].version, saved |-> i, over |-> FALSE]

(* Mutant: the scan stops at a bad CRC.                                    *)
ScanSlotStopsMutant(slots, i, s) ==
  IF s.over \/ slots[i] = BadCrc \/ slots[i].version <= s.latest
  THEN [s EXCEPT !.over = TRUE]
  ELSE [latest |-> slots[i].version, saved |-> i, over |-> FALSE]

(***************************************************************************)
(* The scan of co_start_existing(): slot by slot, it remembers the slot of *)
(* the newest good metablock (head.push()) and stops at the first good one *)
(* that is not newer.  A slot with a bad CRC is stepped over.              *)
(***************************************************************************)
ScanSlot(slots, i, s) ==
  CASE s.over \/ slots[i] = BadCrc -> s
    [] ~ s.over /\ slots[i] # BadCrc /\ slots[i].version > s.latest ->
         [latest |-> slots[i].version, saved |-> i, over |-> FALSE]
    [] OTHER -> [s EXCEPT !.over = TRUE]

Scan(slots) ==
  LET upTo[i \in 0 .. NumSlots] ==
        IF i = 0 THEN NothingFound ELSE ScanSlot(slots, i - 1, upTo[i - 1])
  IN  upTo[NumSlots]

NextSlot(i) == (i + 1) % NumSlots

\* create(): every slot is wiped and the initial metablock goes to slot 0
MbInit ==
  /\ mbSlot = [i \in SlotIds |->
                 IF i = 0 THEN [version |-> MB_START_VERSION, mb |-> 0] ELSE BadCrc]
  /\ mbHead = 0 /\ mbNext = 0
  /\ mbState = "unstarted"
  /\ mbBuffer = NoBuffer
  /\ mbLine = <<>>
  /\ mbGiven = 0 /\ mbStops = 0

\* co_start_existing(), and the guarantee of the caller on its answer
StartExisting ==
  LET found == Scan(mbSlot)
  IN  /\ mbState = "unstarted"
      /\ IF found.latest = MB_BAD_VERSION
         THEN /\ mbState' = "failed"
              /\ mbNext' = MB_START_VERSION
              /\ UNCHANGED mbHead
         ELSE /\ mbState' = "ready"
              /\ mbNext' = found.latest + 1
              /\ mbHead' = found.saved
      /\ UNCHANGED <<mbSlot, mbBuffer, mbLine, mbGiven, mbStops>>

\* write_metablock(): a coroutine per metablock, in line for write_lock
WriteMetablock ==
  /\ mbState \in {"ready", "writing"}
  /\ mbGiven < MaxMetablocks
  /\ mbGiven' = mbGiven + 1
  /\ mbLine' = Append(mbLine, mbGiven + 1)
  /\ UNCHANGED <<mbSlot, mbHead, mbNext, mbState, mbBuffer, mbStops>>

\* co_write_metablock() up to the co_write() ...
CoWriteBegins ==
  /\ mbState = "ready" /\ mbLine # <<>>
  /\ mbState' = "writing"
  /\ mbBuffer' = [version |-> mbNext, mb |-> Head(mbLine)]
  /\ mbNext' = mbNext + 1
  /\ mbLine' = Tail(mbLine)
  /\ UNCHANGED <<mbSlot, mbHead, mbGiven, mbStops>>

\* ... and from its return: the datasyncs around the write are done
CoWriteReturns ==
  /\ mbState = "writing"
  /\ mbSlot' = [mbSlot EXCEPT ![mbHead] = mbBuffer]
  /\ mbHead' = NextSlot(mbHead)
  /\ mbState' = "ready"
  /\ mbBuffer' = NoBuffer
  /\ UNCHANGED <<mbNext, mbLine, mbGiven, mbStops>>

\* What a crash can make of the slot that is being written
AfterCrash ==
  IF mbState = "writing"
  THEN {mbSlot[mbHead], mbBuffer}
       \cup {m \in {BadCrc} : TornOverwrite \/ mbHead # Scan(mbSlot).saved}
  ELSE {mbSlot[mbHead]}

\* The process ends, by a crash or (nothing in line) by shutdown()
MbStop ==
  /\ mbState \in {"ready", "writing"}
  /\ mbStops < MaxStops
  /\ mbStops' = mbStops + 1
  /\ \E m \in AfterCrash : mbSlot' = [mbSlot EXCEPT ![mbHead] = m]
  /\ mbState' = "unstarted"
  /\ mbHead' = 0 /\ mbNext' = 0
  /\ mbBuffer' = NoBuffer
  /\ mbLine' = <<>>
  /\ UNCHANGED mbGiven

MbNext ==
  \/ StartExisting \/ WriteMetablock \/ CoWriteBegins \/ CoWriteReturns \/ MbStop

MbSpec == MbInit /\ [][MbNext]_mbVars

--------------------------------------------------------------------------------
(* Every variable holds a value of the type the code declares for it. *)
MbTypeOK ==
  /\ mbSlot \in [SlotIds -> Metablock \cup {BadCrc}]
  /\ mbHead \in SlotIds
  /\ mbNext \in Nat
  /\ mbState \in {"unstarted", "ready", "writing", "failed"}
  /\ mbBuffer \in Metablock \cup {NoBuffer}
  /\ mbLine \in Seq(1 .. MaxMetablocks)
  /\ mbGiven \in 0 .. MaxMetablocks /\ mbStops \in 0 .. MaxStops

(* guarantee(metablock_found, "Could not find any valid metablock.") of      *)
(* log_serializer.cc never fails: whatever was being written when the        *)
(* process stopped, a start finds a metablock.                               *)
MetablockFound == mbState # "failed"

(* The manager is right at all times: its state has its type, and the        *)
(* guarantee holds.                                                          *)
MbInv == MbTypeOK /\ MetablockFound

(* The slots implement one durable cell: a start, after any crash, finds the *)
(* last metablock whose write completed or the one that was being written.   *)
Cell == INSTANCE DurableCell WITH
  Idle <- 0,
  running <- mbState \in {"ready", "writing"},
  cell <- mbSlot[Scan(mbSlot).saved].mb,
  incoming <- mbBuffer.mb

ImplementsDurableCell == Cell!CellSpec
================================================================================
