---------------------------- MODULE ReplicatedLog ----------------------------
(***************************************************************************)
(* What a branch promises to the clients of a shard, with no messages, no  *)
(* queues and no backfills: one log of writes that only grows, replicas    *)
(* that each hold a prefix of it, and reads that see at least the writes   *)
(* whose success was reported before the read began.  Branch implements    *)
(* it.                                                                     *)
(***************************************************************************)
EXTENDS Naturals

CONSTANTS Servers,       \* the replicas
          Primary,       \* the one that never loses anything during the branch
          MaxTimestamp,  \* bound: the number of writes
          None           \* no read

VARIABLES length,        \* the number of writes in the log
          answer,        \* what the client of each write was told
          contents,      \* the writes each replica holds
          reading        \* the read being performed, or None

vars == <<length, answer, contents, reading>>

Timestamps == 1 .. MaxTimestamp
Successes == {t \in Timestamps : answer[t] = "success"}

Init ==
    /\ length = 0
    /\ answer = [t \in Timestamps |-> "unused"]
    /\ contents = [s \in Servers |-> {}]
    /\ reading = None

Write ==
    /\ length < MaxTimestamp
    /\ length' = length + 1
    /\ answer' = [answer EXCEPT ![length + 1] = "pending"]
    /\ UNCHANGED <<contents, reading>>

(* A client is told at most one thing, and may go away before.             *)
Answer(t) ==
    /\ answer[t] = "pending"
    /\ \E a \in {"success", "failure", "dropped"} : answer' = [answer EXCEPT ![t] = a]
    /\ UNCHANGED <<length, contents, reading>>

(* A replica moves forward along the log; one that is not the primary may  *)
(* also fall back, when it crashes.                                        *)
Move(s) ==
    /\ \E v \in 0 .. length :
         /\ s = Primary => contents[s] \subseteq 1 .. v
         /\ contents' = [contents EXCEPT ![s] = 1 .. v]
    /\ UNCHANGED <<length, answer, reading>>

StartRead ==
    /\ reading = None
    /\ \E from \in (SUBSET Servers) \ {{}} : reading' = [from |-> from, must_see |-> Successes]
    /\ UNCHANGED <<length, answer, contents>>

PerformRead(s) ==
    /\ reading # None /\ s \in reading.from
    /\ reading.must_see \subseteq contents[s]
    /\ reading' = IF reading.from = {s} THEN None ELSE [reading EXCEPT !.from = @ \ {s}]
    /\ UNCHANGED <<length, answer, contents>>

(* Contact with a replica other than the primary is lost during the read.  *)
FailRead ==
    /\ reading # None /\ reading.from # {Primary}
    /\ reading' = None
    /\ UNCHANGED <<length, answer, contents>>

Next ==
    \/ Write \/ StartRead \/ FailRead
    \/ \E t \in Timestamps : Answer(t)
    \/ \E s \in Servers : Move(s) \/ PerformRead(s)

Spec == Init /\ [][Next]_vars

=============================================================================
