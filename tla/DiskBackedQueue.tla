--------------------------- MODULE DiskBackedQueue ---------------------------
(***************************************************************************)
(* disk_backed_queue_wrapper_t                                             *)
(* (src/src/concurrency/queue/disk_backed_queue_wrapper.hpp), the queue of *)
(* writes of a listener_t that is backfilling.  Items are kept in memory   *)
(* until there are DqCapacity of them; then a disk_backed_queue_t takes    *)
(* what is pushed, and a coroutine copies from it to memory until it has   *)
(* caught up and destroys it.                                              *)
(*                                                                         *)
(* Items are numbered as they are pushed.  push() is serialised by         *)
(* push_mutex; push() and pop() of the disk_backed_queue_t, making it and  *)
(* destroying it block, and change it at their end.  The file that it is   *)
(* kept in has the same name each time it is made.                         *)
(***************************************************************************)
EXTENDS Integers, Sequences

CONSTANTS DqCapacity,   \* memory_queue_capacity
          DqItems       \* bound: how many items are pushed

ASSUME DiskBackedQueueConstants == DqCapacity \in Nat \ {0} /\ DqItems \in Nat

VARIABLES
    dqMem,       \* memory_queue
    dqDisk,      \* disk_queue: what it holds, or NoQueue
    dqCount,     \* items_in_queue
    dqPush,      \* where the push() that holds push_mutex is, and its item
    dqPushed,    \* how many push()es have begun
    dqCopy,      \* where copy_from_disk_queue_to_memory_queue is
    dqHand,      \* the value that it has popped
    dqRoom,      \* the condition at notify_when_room_in_memory_queue is pulsed
    dqRestart,   \* restart_copy_coro
    dqDying,     \* how many disk_backed_queue_ts are being destroyed
    dqFile,      \* there is a file of that name
    dqCrashed,   \* the process has crashed: open() or unlink() failed
    dqPopped     \* history: what the consumer got

dqVars == <<dqMem, dqDisk, dqCount, dqPush, dqPushed, dqCopy, dqHand, dqRoom,
            dqRestart, dqDying, dqFile, dqCrashed, dqPopped>>
dqFileVars == <<dqDying, dqFile, dqCrashed>>

NoQueue == <<"none">>
Holding(s) == <<"queue", s>>
HasDisk == dqDisk # NoQueue
DiskItems == IF HasDisk THEN dqDisk[2] ELSE <<>>
Nobody == "nobody"

DqInit ==
    /\ dqMem = <<>> /\ dqDisk = NoQueue /\ dqCount = 0
    /\ dqPush = Nobody /\ dqPushed = 0
    /\ dqCopy = "none" /\ dqHand = <<>> /\ dqRoom = FALSE /\ dqRestart = FALSE
    /\ dqDying = 0 /\ dqFile = FALSE /\ dqCrashed = FALSE
    /\ dqPopped = <<>>

(* Mutant: memory first, even when there is a disk queue.                  *)
PushItemMutant ==
    /\ dqPush = Nobody /\ dqPushed < DqItems
    /\ dqPushed' = dqPushed + 1
    /\ dqCount' = dqCount + 1
    /\ \/ HasDisk /\ Len(dqMem) = DqCapacity /\ dqPush' = "disk" /\ dqMem' = dqMem
       \/ ~HasDisk /\ Len(dqMem) = DqCapacity /\ dqPush' = "create" /\ dqMem' = dqMem
       \/ Len(dqMem) < DqCapacity /\ dqPush' = Nobody /\ dqMem' = Append(dqMem, dqPushed')
    /\ UNCHANGED <<dqDisk, dqCopy, dqHand, dqRoom, dqRestart, dqFileVars, dqPopped>>

\* push() up to where it may block
PushItem ==
    /\ dqPush = Nobody /\ dqPushed < DqItems
    /\ dqPushed' = dqPushed + 1
    /\ dqCount' = dqCount + 1
    /\ \/ HasDisk /\ dqPush' = "disk" /\ dqMem' = dqMem
       \/ ~HasDisk /\ Len(dqMem) = DqCapacity /\ dqPush' = "create" /\ dqMem' = dqMem
       \/ ~HasDisk /\ Len(dqMem) < DqCapacity /\ dqPush' = Nobody /\ dqMem' = Append(dqMem, dqPushed')
    /\ UNCHANGED <<dqDisk, dqCopy, dqHand, dqRoom, dqRestart, dqFileVars, dqPopped>>

\* internal_disk_backed_queue_t's constructor: standard_serializer_t::create
\* makes (and truncates) the file, standard_serializer_t opens it again
CreateFile ==
    /\ dqPush = "create"
    /\ dqPush' = "open" /\ dqFile' = TRUE
    /\ UNCHANGED <<dqMem, dqDisk, dqCount, dqPushed, dqCopy, dqHand, dqRoom, dqRestart,
                   dqDying, dqCrashed, dqPopped>>

OpenFile ==
    /\ dqPush = "open"
    /\ IF dqFile THEN dqPush' = "first" /\ dqDisk' = Holding(<<>>) /\ dqCrashed' = FALSE
       ELSE dqCrashed' = TRUE /\ UNCHANGED <<dqPush, dqDisk>>
    /\ UNCHANGED <<dqMem, dqCount, dqPushed, dqCopy, dqHand, dqRoom, dqRestart,
                   dqDying, dqFile, dqPopped>>

\* disk_queue->push() returns; push() from there on
PushedToDisk ==
    /\ dqPush \in {"first", "disk"}
    /\ dqPush' = Nobody
    /\ dqDisk' = Holding(Append(DiskItems, dqPushed))
    /\ dqCopy' = IF dqPush = "first" \/ dqRestart THEN "spawned" ELSE dqCopy
    /\ dqRestart' = (dqPush = "first" /\ dqRestart)
    /\ UNCHANGED <<dqMem, dqCount, dqPushed, dqHand, dqRoom, dqFileVars, dqPopped>>

(* Mutant: no word is left for the push() under way.                       *)
LoopTopMutant(m) ==
    /\ dqMem' = m
    /\ IF DiskItems # <<>>
       THEN dqCopy' = "pop" /\ UNCHANGED <<dqDisk, dqRestart, dqDying>>
       ELSE /\ dqCopy' = "none"
            /\ IF dqCount # Len(m)
               THEN UNCHANGED <<dqDisk, dqDying, dqRestart>>
               ELSE dqDisk' = NoQueue /\ dqDying' = dqDying + 1 /\ UNCHANGED dqRestart

\* the top of the loop of copy_from_disk_queue_to_memory_queue, with memory m
LoopTop(m) ==
    /\ dqMem' = m
    /\ IF DiskItems # <<>>
       THEN dqCopy' = "pop" /\ UNCHANGED <<dqDisk, dqRestart, dqDying>>
       ELSE /\ dqCopy' = "none"
            /\ IF dqCount # Len(m)
               THEN dqRestart' = TRUE /\ UNCHANGED <<dqDisk, dqDying>>
               ELSE dqDisk' = NoQueue /\ dqDying' = dqDying + 1 /\ UNCHANGED dqRestart

CopyStarts ==
    /\ dqCopy = "spawned"
    /\ LoopTop(dqMem)
    /\ UNCHANGED <<dqCount, dqPush, dqPushed, dqHand, dqRoom, dqFile, dqCrashed, dqPopped>>

\* disk_queue->pop() has its value (queue_size--); it may still have to remove
\* a block from the tail
CopyPops ==
    /\ dqCopy = "pop"
    /\ dqDisk' = Holding(Tail(DiskItems))
    /\ dqHand' = <<Head(DiskItems)>>
    /\ dqCopy' = "popped"
    /\ UNCHANGED <<dqMem, dqCount, dqPush, dqPushed, dqRoom, dqRestart, dqFileVars, dqPopped>>

\* pop() returns, and there is no room
CopyFindsNoRoom ==
    /\ dqCopy = "popped" /\ Len(dqMem) = DqCapacity
    /\ dqCopy' = "room" /\ dqRoom' = FALSE
    /\ UNCHANGED <<dqMem, dqDisk, dqCount, dqPush, dqPushed, dqHand, dqRestart, dqFileVars, dqPopped>>

\* pop() returns and there is room, or the wait for it is over
CopyToMemory ==
    /\ \/ dqCopy = "popped" /\ Len(dqMem) < DqCapacity
       \/ dqCopy = "room" /\ dqRoom
    /\ LoopTop(dqMem \o dqHand)
    /\ dqHand' = <<>> /\ dqRoom' = FALSE
    /\ UNCHANGED <<dqCount, dqPush, dqPushed, dqFile, dqCrashed, dqPopped>>

\* ~internal_disk_backed_queue_t gets to unlink_serializer_file()
UnlinkFile ==
    /\ dqDying > 0
    /\ dqDying' = dqDying - 1
    /\ dqCrashed' = ~dqFile /\ dqFile' = FALSE
    /\ UNCHANGED <<dqMem, dqDisk, dqCount, dqPush, dqPushed, dqCopy, dqHand, dqRoom,
                   dqRestart, dqPopped>>

\* produce_next_value()
ProduceNextValue ==
    /\ dqMem # <<>>
    /\ dqPopped' = Append(dqPopped, Head(dqMem))
    /\ dqMem' = Tail(dqMem)
    /\ dqCount' = dqCount - 1
    /\ dqRoom' = (dqRoom \/ dqCopy = "room")
    /\ UNCHANGED <<dqDisk, dqPush, dqPushed, dqCopy, dqHand, dqRestart, dqFileVars>>

DqNext ==
    /\ ~dqCrashed
    /\ \/ PushItem \/ CreateFile \/ OpenFile \/ PushedToDisk
       \/ CopyStarts \/ CopyPops \/ CopyFindsNoRoom \/ CopyToMemory
       \/ UnlinkFile \/ ProduceNextValue

DqSpec == DqInit /\ [][DqNext]_dqVars

\* the I/O ends, coroutines get to run, and the consumer consumes
DqFairness ==
    /\ WF_dqVars(~dqCrashed /\ (CreateFile \/ OpenFile \/ PushedToDisk))
    /\ WF_dqVars(~dqCrashed /\ (CopyStarts \/ CopyPops \/ CopyFindsNoRoom \/ CopyToMemory))
    /\ WF_dqVars(~dqCrashed /\ ProduceNextValue)

-----------------------------------------------------------------------------
\* The type invariant of the queue.
DqTypeOK ==
    /\ Len(dqMem) <= DqCapacity /\ dqCount \in 0 .. DqItems /\ dqPushed \in 0 .. DqItems
    /\ dqPush \in {Nobody, "create", "open", "first", "disk"}
    /\ dqCopy \in {"none", "spawned", "pop", "popped", "room"} /\ Len(dqHand) <= 1
    /\ dqRoom \in BOOLEAN /\ dqRestart \in BOOLEAN
    /\ dqDying \in Nat /\ dqFile \in BOOLEAN /\ dqCrashed \in BOOLEAN

\* The wrapper is a queue: what the consumer got, what is in memory, in the
\* hand of the copier, on disk and on its way there are all the items that
\* were pushed, once each and in the order in which they were.
DqIsFifo ==
    LET under_way == IF dqPush = Nobody THEN <<>> ELSE <<dqPushed>> IN
    /\ dqPopped \o dqMem \o dqHand \o DiskItems \o under_way = [i \in 1 .. dqPushed |-> i]
    /\ dqCount = dqPushed - Len(dqPopped)

\* There is one copier as long as there is something on disk or in a hand;
\* the one that gave up because a push() was under way ("we'll start a new
\* coroutine later") left word for that push(), which is still to come by;
\* and a copier that waits for room does so only while there is none.
CopierOnDuty ==
    /\ (DiskItems # <<>> /\ dqPush # "first") => dqCopy # "none" \/ (dqRestart /\ dqPush = "disk")
    /\ dqHand # <<>> => dqCopy \in {"popped", "room"}
    /\ dqRestart => dqPush = "disk" /\ dqCopy = "none"
    /\ (dqCopy = "room" /\ Len(dqMem) < DqCapacity) => dqRoom

\* Whatever is pushed gets to the consumer: the writes that a listener_t
\* queued during its backfill are all applied in the end.
DqEverythingArrives ==
    (dqPushed = DqItems) ~> (Len(dqPopped) = DqItems \/ dqCrashed)

\* The queue is right at all times: no item is lost, repeated or overtaken on
\* its way through memory and disk, and somebody is there to move it on.
DqInv == DqTypeOK /\ DqIsFifo /\ CopierOnDuty
===============================================================================
