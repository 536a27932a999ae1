------------------------------- MODULE Merger -------------------------------
(***************************************************************************)
(* merger_serializer_t (src/src/serializer/merger.cc) with the             *)
(* throttled_committer_t (src/src/concurrency/throttled_committer.cc) that *)
(* it is built on.  index_write()s that come while MaxActive others are    *)
(* under way are merged, block by block, and written as one; each caller   *)
(* waits until the first commit that began after its call is over.         *)
(*                                                                         *)
(* Calls are numbered in the order in which they are made.  The token and  *)
(* the recency that a call gives a block are its number.  The serializer   *)
(* below applies the index_write()s in the order of its mutex, makes them  *)
(* durable in that order, each as a whole, and only then returns (that is  *)
(* what DataBlocks and LbaList are about).                                 *)
(***************************************************************************)
EXTENDS Integers, Sequences, FiniteSets, SequencesExt

CONSTANTS MgBlocks,    \* the block ids
          MgCalls,     \* bound: the number of index_write()s
          MaxActive    \* _max_active_writes

ASSUME MergerConstants == MgCalls \in Nat /\ MaxActive \in Nat \ {0}

VARIABLES
    mgOps,        \* history: the operations of each call
    mgMerged,     \* outstanding_index_write_ops
    mgCond,       \* on_next_commit_complete: the number of a condition
    mgWaits,      \* the condition that each caller waits for
    mgPulsed,     \* the conditions that have been pulsed
    mgUnhandled,  \* unhandled_commit_waiter_exists
    mgActive,     \* num_active_commits
    mgSpawned,    \* do_commit()s that have been spawned and not run yet
    mgInner,      \* the inner index_write()s, in the order of the mutex
    mgDurable     \* how many of them are on disk

mgVars == <<mgOps, mgMerged, mgCond, mgWaits, mgPulsed, mgUnhandled, mgActive,
            mgSpawned, mgInner, mgDurable>>

Unset == 0
NoOp == [token |-> Unset, recency |-> Unset]

MgInit ==
    /\ mgOps = <<>> /\ mgMerged = [b \in MgBlocks |-> NoOp]
    /\ mgCond = 1 /\ mgWaits = <<>> /\ mgPulsed = {}
    /\ mgUnhandled = FALSE /\ mgActive = 0 /\ mgSpawned = 0
    /\ mgInner = <<>> /\ mgDurable = 0

\* merge_index_write_op
MergeOp(op, into) ==
    [token   |-> IF op.token # Unset THEN op.token ELSE into.token,
     recency |-> IF op.recency # Unset THEN op.recency ELSE into.recency]

\* push_index_write_op for every operation of a call
Merge(ops, into) == [b \in MgBlocks |-> MergeOp(ops[b], into[b])]

\* the operations a call n of the page cache may have: for some blocks token
\* and recency, for others (touched pages) the recency alone
OpsOf(n) ==
    LET both == [token |-> n, recency |-> n]
        touch == [token |-> Unset, recency |-> n]
    IN [MgBlocks -> {NoOp, touch, both}] \ {[b \in MgBlocks |-> NoOp]}

\* throttled_committer_t::do_commit up to the commit_cb(), and
\* do_index_write() up to the inner index_write()
DoCommit(merged) ==
    /\ mgInner' = Append(mgInner, [ops |-> merged, cond |-> mgCond, state |-> "active"])
    /\ mgMerged' = [b \in MgBlocks |-> NoOp]
    /\ mgCond' = mgCond + 1
    /\ mgUnhandled' = FALSE

(* Mutant: nobody is told that there is a waiter.                          *)
MergerIndexWriteMutant ==
    LET n == Len(mgOps) + 1 IN
    /\ n <= MgCalls
    /\ \E ops \in OpsOf(n) :
        LET merged == Merge(ops, mgMerged) IN
        /\ mgOps' = Append(mgOps, ops)
        /\ mgWaits' = Append(mgWaits, mgCond)
        /\ IF mgActive < MaxActive
           THEN mgActive' = mgActive + 1 /\ DoCommit(merged)
           ELSE /\ mgMerged' = merged /\ mgUnhandled' = mgUnhandled
                /\ UNCHANGED <<mgActive, mgCond, mgInner>>
    /\ UNCHANGED <<mgPulsed, mgSpawned, mgDurable>>

\* merger_serializer_t::index_write(), throttled_committer_t::sync()
MergerIndexWrite ==
    LET n == Len(mgOps) + 1 IN
    /\ n <= MgCalls
    /\ \E ops \in OpsOf(n) :
        LET merged == Merge(ops, mgMerged) IN
        /\ mgOps' = Append(mgOps, ops)
        /\ mgWaits' = Append(mgWaits, mgCond)
        /\ IF mgActive < MaxActive
           THEN mgActive' = mgActive + 1 /\ DoCommit(merged)
           ELSE /\ mgMerged' = merged /\ mgUnhandled' = TRUE
                /\ UNCHANGED <<mgActive, mgCond, mgInner>>
    /\ UNCHANGED <<mgPulsed, mgSpawned, mgDurable>>

\* a do_commit() that was spawned gets to run
SpawnedCommit ==
    /\ mgSpawned > 0
    /\ mgSpawned' = mgSpawned - 1
    /\ DoCommit(mgMerged)
    /\ UNCHANGED <<mgOps, mgWaits, mgPulsed, mgActive, mgDurable>>

\* the serializer below makes the next index_write() durable
InnerDurable ==
    /\ mgDurable < Len(mgInner)
    /\ mgDurable' = mgDurable + 1
    /\ UNCHANGED <<mgOps, mgMerged, mgCond, mgWaits, mgPulsed, mgUnhandled, mgActive,
                   mgSpawned, mgInner>>

\* the inner index_write() returns: do_commit from there on
CommitDone(i) ==
    /\ i <= mgDurable /\ mgInner[i].state = "active"
    /\ mgInner' = [mgInner EXCEPT ![i].state = "done"]
    /\ mgPulsed' = mgPulsed \cup {mgInner[i].cond}
    /\ IF mgUnhandled THEN mgSpawned' = mgSpawned + 1 /\ mgActive' = mgActive
       ELSE mgSpawned' = mgSpawned /\ mgActive' = mgActive - 1
    /\ UNCHANGED <<mgOps, mgMerged, mgCond, mgWaits, mgUnhandled, mgDurable>>

MgNext ==
    \/ MergerIndexWrite \/ SpawnedCommit \/ InnerDurable
    \/ \E i \in DOMAIN mgInner : CommitDone(i)

MgSpec == MgInit /\ [][MgNext]_mgVars

-----------------------------------------------------------------------------
\* The type invariant of the merger and its committer.
MgTypeOK ==
    /\ Len(mgWaits) = Len(mgOps) /\ \A n \in DOMAIN mgWaits : mgWaits[n] \in 1 .. mgCond
    /\ mgPulsed \subseteq 1 .. mgCond - 1
    /\ mgUnhandled \in BOOLEAN /\ mgActive \in 0 .. MaxActive /\ mgSpawned \in 0 .. mgActive
    /\ mgDurable \in 0 .. Len(mgInner)

\* The index after the first n elements of a sequence of operations: of every
\* block, the last token and the last recency that one of them gave it
LastSet(s) == FoldLeft(LAMBDA old, new : IF new = Unset THEN old ELSE new, Unset, s)
IndexAfter(s, n) ==
    [b \in MgBlocks |-> [token |-> LastSet([i \in 1 .. n |-> s[i][b].token]),
                         recency |-> LastSet([i \in 1 .. n |-> s[i][b].recency])]]
OnDisk == IndexAfter([i \in DOMAIN mgInner |-> mgInner[i].ops], mgDurable)
Returned(n) == mgWaits[n] \in mgPulsed

\* A crash at any moment leaves the index as it was after some prefix of the
\* calls, each of them whole ("Apply our set of write ops atomically"), and
\* the prefix holds every call that has returned: sync() waits for a commit
\* that began after it.
DiskIsAPrefix ==
    \E n \in 0 .. Len(mgOps) :
        /\ OnDisk = IndexAfter(mgOps, n)
        /\ \A m \in DOMAIN mgOps : Returned(m) => m <= n

\* Nobody waits in vain: for whoever waits there is a commit under way that
\* pulses its condition, or one that will, when it is over, start the next.
\* (unhandled_commit_waiter_exists, read when a commit ends)
NobodyWaitsInVain ==
    LET under_way == {i \in DOMAIN mgInner : mgInner[i].state = "active"} IN
    \A n \in DOMAIN mgWaits :
        \/ Returned(n)
        \/ \E i \in under_way : mgInner[i].cond = mgWaits[n]
        \/ /\ mgWaits[n] = mgCond
           /\ mgSpawned > 0 \/ (mgUnhandled /\ under_way # {})

\* The commits that have begun are counted right: never more than
\* max_active_commits of them at once, and none is counted that is over.
CommitsAreCounted ==
    mgActive = mgSpawned + Cardinality({i \in DOMAIN mgInner : mgInner[i].state = "active"})

\* Merging is invisible: the disk holds a prefix of the calls with all of those
\* that have returned, and every call returns in the end.
MgInv == MgTypeOK /\ DiskIsAPrefix /\ NobodyWaitsInVain /\ CommitsAreCounted
=============================================================================
