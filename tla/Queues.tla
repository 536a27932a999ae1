--------------------------------- MODULE Queues --------------------------------
(***************************************************************************)
(* What the modules that have proofs use of SequencesExt.  They do not     *)
(* extend that library itself: every proof about them would carry it.      *)
(***************************************************************************)
EXTENDS Naturals, Sequences

\* Contains(q, x)
InSeq(q, x) == \E i \in 1 .. Len(q) : q[i] = x

\* RemoveAt(q, i): the others, in their order
DropAt(q, i) == [j \in 1 .. Len(q) - 1 |-> IF j < i THEN q[j] ELSE q[j + 1]]
================================================================================
