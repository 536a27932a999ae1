--------------------------- MODULE ConflictResolver ---------------------------
(***************************************************************************)
(* conflict_resolving_diskmgr_t                                            *)
(* (src/src/arch/io/disk/conflict_resolving.cc): the part of the I/O layer *)
(* that keeps the reads, writes and resizes of a file that touch the same  *)
(* chunk in the order in which they were submitted.  What is below it (the *)
(* accounts, the pool of threads) may run whatever it has been given in    *)
(* any order.                                                              *)
(*                                                                         *)
(* Operations are numbered as they are submitted.  A write leaves its      *)
(* number in its chunks; a read brings back a number for each of its own.  *)
(***************************************************************************)
EXTENDS Integers, Sequences, FiniteSets, SequencesExt

CONSTANTS NumChunks,   \* the DEVICE_BLOCK_SIZE chunks of the file
          MaxOps       \* bound: how many operations are submitted

ASSUME ConflictConstants == NumChunks \in Nat \ {0} /\ MaxOps \in Nat

VARIABLES
    crOp,        \* the operations: what they are, conflict_count, where they are
    crChunks,    \* all_chunk_queues
    crWaiters,   \* resize_waiter_queues
    crResizes,   \* resize_active
    crFile       \* the chunks of the file

crVars == <<crOp, crChunks, crWaiters, crResizes, crFile>>

Chunks == 0 .. NumChunks - 1
RangeOf(a) == a.from .. a.to - 1

CrInit ==
    /\ crOp = <<>> /\ crChunks = [c \in Chunks |-> <<>>]
    /\ crWaiters = <<>> /\ crResizes = 0
    /\ crFile = [c \in Chunks |-> 0]

\* what can be submitted; a resize is of no chunk in particular
Requests ==
    {[kind |-> k, from |-> f, to |-> t] : k \in {"read", "write"},
                                          f \in Chunks, t \in 1 .. NumChunks}
    \cup {[kind |-> "resize", from |-> 0, to |-> 0]}

\* submit()
Submit(r) ==
    LET n == Len(crOp) + 1
        resize == r.kind = "resize"
        count == crResizes + Cardinality({c \in RangeOf(r) : crChunks[c] # <<>>})
        a == [kind |-> r.kind, from |-> r.from, to |-> r.to, count |-> count,
              state |-> IF count = 0 THEN "below" ELSE "waits",
              got |-> [c \in RangeOf(r) |-> 0]]
    IN /\ n <= MaxOps /\ (resize \/ r.from < r.to)
       /\ crOp' = Append(crOp, a)
       /\ crWaiters' = IF crResizes > 0 THEN Append(crWaiters, n) ELSE crWaiters
       /\ crResizes' = IF resize THEN crResizes + 1 ELSE crResizes
       /\ crChunks' = [c \in Chunks |-> IF c \in RangeOf(r) THEN Append(crChunks[c], n)
                                        ELSE crChunks[c]]
       /\ UNCHANGED crFile

(***************************************************************************)
(* done() of a read or write.  The state that it changes is s; s.todo are  *)
(* the chunks that are still to be visited, with the operation they are    *)
(* visited for: a waiting read that lies within the operation that is done *)
(* gets its data from it and is done() at once, before the next chunk.     *)
(***************************************************************************)
Visits(n, ops) == [i \in 1 .. ops[n].to - ops[n].from |-> <<n, ops[n].from + i - 1>>]
Covers(a, b) == b.from >= a.from /\ b.to <= a.to

(* Mutant: the operation that came last is next.                           *)
VisitChunkMutant(s) ==
    LET n == Head(s.todo)[1]
        c == Head(s.todo)[2]
        rest == Tail(s.chunks[c])
        w == Last(rest)
        one_less == [s.op EXCEPT ![w].count = @ - 1]
        visited == [s EXCEPT !.chunks[c] = rest, !.todo = Tail(@)]
        shortcut == s.op[w].kind = "read" /\ Covers(s.op[n], s.op[w])
        filled == [one_less EXCEPT ![w].got = [d \in RangeOf(s.op[w]) |-> s.op[n].got[d]],
                                   ![w].state = "done"]
    IN IF rest = <<>> THEN visited
       ELSE IF one_less[w].count > 0 THEN [visited EXCEPT !.op = one_less]
       ELSE IF shortcut THEN [visited EXCEPT !.op = filled, !.todo = Visits(w, s.op) \o @]
       ELSE [visited EXCEPT !.op = [one_less EXCEPT ![w].state = "below"]]

VisitChunk(s) ==
    LET n == Head(s.todo)[1]
        c == Head(s.todo)[2]
        rest == Tail(s.chunks[c])
        w == Head(rest)
        one_less == [s.op EXCEPT ![w].count = @ - 1]
        visited == [s EXCEPT !.chunks[c] = rest, !.todo = Tail(@)]
        shortcut == s.op[w].kind = "read" /\ Covers(s.op[n], s.op[w])
        filled == [one_less EXCEPT ![w].got = [d \in RangeOf(s.op[w]) |-> s.op[n].got[d]],
                                   ![w].state = "done"]
    IN IF rest = <<>> THEN visited
       ELSE IF one_less[w].count > 0 THEN [visited EXCEPT !.op = one_less]
       ELSE IF shortcut THEN [visited EXCEPT !.op = filled, !.todo = Visits(w, s.op) \o @]
       ELSE [visited EXCEPT !.op = [one_less EXCEPT ![w].state = "below"]]

\* each visit takes an operation off the queue of a chunk, so there are no
\* more visits than that
AllVisits(s) ==
    FoldLeft(LAMBDA t, i : IF t.todo = <<>> THEN t ELSE VisitChunk(t), s,
             [i \in 1 .. MaxOps * NumChunks |-> i])

\* An operation below is carried out, and done() is called for it.  A write's
\* own buffer is what a shortcut copies.
DoneReadWrite(n) ==
    /\ crOp[n].state = "below" /\ crOp[n].kind # "resize"
    /\ LET got == [c \in RangeOf(crOp[n]) |-> IF crOp[n].kind = "write" THEN n ELSE crFile[c]]
           ops == [crOp EXCEPT ![n].got = got, ![n].state = "done"]
           s == AllVisits([op |-> ops, chunks |-> crChunks, todo |-> Visits(n, ops)])
       IN /\ crOp' = s.op /\ crChunks' = s.chunks
          /\ crFile' = [c \in Chunks |-> IF c \in RangeOf(crOp[n]) THEN got[c] ELSE crFile[c]]
    /\ UNCHANGED <<crWaiters, crResizes>>

\* done() of a resize: the waiters up to the next resize leave the queue, the
\* ones behind it have one thing less to wait for
DoneResize(n) ==
    LET next(w) == crOp[w].kind = "resize" /\ crOp[w].count = 1
        last == IF \E i \in DOMAIN crWaiters : next(crWaiters[i])
                THEN SelectInSeq(crWaiters, next) ELSE Len(crWaiters)
        waits(m) == Contains(crWaiters, m)
        leaves(m) == \E i \in 1 .. last : crWaiters[i] = m
        after(m) == LET a == crOp[m] IN
            [a EXCEPT !.count = IF waits(m) THEN @ - 1 ELSE @,
                      !.state = IF m = n THEN "done"
                                ELSE IF leaves(m) /\ a.count = 1 THEN "below" ELSE @]
    IN /\ crOp[n].state = "below" /\ crOp[n].kind = "resize"
       /\ crOp' = [m \in DOMAIN crOp |-> after(m)]
       /\ crWaiters' = SubSeq(crWaiters, last + 1, Len(crWaiters))
       /\ crResizes' = crResizes - 1
       /\ UNCHANGED <<crChunks, crFile>>

CrNext ==
    \/ \E r \in Requests : Submit(r)
    \/ \E n \in DOMAIN crOp : DoneReadWrite(n) \/ DoneResize(n)

CrSpec == CrInit /\ [][CrNext]_crVars

-----------------------------------------------------------------------------
\* The type invariant of the conflict resolver.
CrTypeOK ==
    /\ \A n \in DOMAIN crOp : crOp[n].count \in Nat /\ crOp[n].state \in {"waits", "below", "done"}
    /\ \A c \in Chunks : \A i \in DOMAIN crChunks[c] : crChunks[c][i] \in DOMAIN crOp
    /\ crResizes \in Nat /\ \A i \in DOMAIN crWaiters : crWaiters[i] \in DOMAIN crOp

Overlap(m, n) == RangeOf(crOp[m]) \cap RangeOf(crOp[n]) # {}

\* "It will never send two potentially conflicting operations to the next
\* phase of the IO layer": no two reads or writes of the same chunk are below
\* at once, and while a resize is below nothing is that was submitted after it.
NoConflictBelow ==
    \A m, n \in DOMAIN crOp : (m < n /\ crOp[m].state = "below" /\ crOp[n].state = "below")
        => ~Overlap(m, n) /\ crOp[m].kind # "resize"

LastWrite(n, c) ==
    LET ws == {m \in 1 .. n - 1 : crOp[m].kind = "write" /\ c \in RangeOf(crOp[m])}
    IN IF ws = {} THEN 0 ELSE CHOOSE m \in ws : \A k \in ws : k <= m

\* A read that is done brought back, of every chunk, what the last write
\* submitted before it wrote there, whether it went to the disk or got it
\* from an operation that it had to wait for.
ReadsAreInOrder ==
    \A n \in DOMAIN crOp : (crOp[n].kind = "read" /\ crOp[n].state = "done")
        => \A c \in RangeOf(crOp[n]) : crOp[n].got[c] = LastWrite(n, c)

\* conflict_count counts what an operation waits for, neither more (it would
\* wait for ever) nor less: the chunks that it is not the first to use, and
\* the resizes that were submitted before it and are not done.
ConflictsAreCounted ==
    \A n \in DOMAIN crOp :
        /\ crOp[n].count =
             IF crOp[n].state = "done" THEN 0
             ELSE Cardinality({c \in RangeOf(crOp[n]) : Head(crChunks[c]) # n})
                + Cardinality({m \in 1 .. n - 1 : crOp[m].kind = "resize" /\ crOp[m].state # "done"})
        /\ crOp[n].state = "waits" <=> crOp[n].count > 0

\* There is always something below while something is left to do, so that no
\* set of operations waits for itself.
SomethingIsBelow ==
    (\E n \in DOMAIN crOp : crOp[n].state # "done") => \E n \in DOMAIN crOp : crOp[n].state = "below"

\* The disk manager is right at all times: nothing that conflicts is below it
\* at once, reads bring back what was written last before them, and whatever
\* has to wait is waited for and counted.
CrInv ==
    /\ CrTypeOK /\ NoConflictBelow /\ ReadsAreInOrder
    /\ ConflictsAreCounted /\ SomethingIsBelow
===============================================================================
