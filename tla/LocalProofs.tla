------------------------------ MODULE LocalProofs ------------------------------
(***************************************************************************)
(* Proofs about parts that live within one server.                         *)
(*                                                                         *)
(* The concurrency primitives: the line of a rwlock_t lets in exactly      *)
(* those whose turn it is, and the queue of a min_timestamp_enforcer_t     *)
(* holds exactly those that have to wait.                                  *)
(*                                                                         *)
(* The metablock manager finds a metablock at every start, and implements  *)
(* one durable cell, for any number of slots, metablocks and crashes.      *)
(***************************************************************************)
EXTENDS RWLock, MinTimestampEnforcer, MetablockManager, WellFoundedInduction, TLAPS

-----------------------------------------------------------------------------
(* rwlock_t.                                                               *)

(* What is left of a line when the i-th has gone: those behind it move up  *)
(* by one.                                                                 *)
LEMMA LineWithout ==
    ASSUME NEW S, NEW q \in Seq(S), NEW i \in 1 .. Len(q)
    PROVE  /\ DropAt(q, i) \in Seq(S)
           /\ Len(DropAt(q, i)) = Len(q) - 1
           /\ \A j \in 1 .. Len(q) - 1 : DropAt(q, i)[j] = IF j < i THEN q[j] ELSE q[j + 1]
<1>1. Len(q) \in Nat /\ Len(q) - 1 \in Nat /\ \A j \in 1 .. Len(q) : q[j] \in S
  OBVIOUS
<1>2. \A j \in 1 .. Len(q) - 1 : (IF j < i THEN q[j] ELSE q[j + 1]) \in S
  BY <1>1
<1> QED
  BY <1>1, <1>2 DEF DropAt

(* An empty lock is right. *)
LEMMA RwInitInv == RwInit => RwInv
  BY DEF RwInit, RwInv, RwTypeOK, RwLetInExactly, IsInjective, InSeq

(* An acquirer that comes stands last, and is let in if all before it are  *)
(* readers.                                                                *)
LEMMA RwAddInv ==
    ASSUME RwInv, NEW a \in RwAcqs, NEW access \in {"read", "write"}, RwAdd(a, access)
    PROVE  RwInv'
<1> DEFINE q == rwQueue'
           n == Len(rwQueue) + 1
<1>1. /\ rwQueue \in Seq(RwAcqs) /\ Len(rwQueue) \in Nat /\ DOMAIN rwQueue = 1 .. Len(rwQueue)
      /\ \A i \in 1 .. Len(rwQueue) : rwQueue[i] \in RwAcqs
  BY DEF RwInv, RwTypeOK
<1>2. /\ q \in Seq(RwAcqs) /\ Len(q) = n /\ DOMAIN q = 1 .. n /\ q[n] = a
      /\ \A i \in 1 .. n - 1 : q[i] = rwQueue[i]
  BY <1>1 DEF RwAdd
<1>3. \A i \in 1 .. n - 1 : q[i] # a
  BY <1>1, <1>2 DEF RwAdd, RwInv, RwTypeOK, InSeq
<1>4. /\ rwAccess' \in [RwAcqs -> {"none", "read", "write"}] /\ rwAccess'[a] = access
      /\ \A b \in RwAcqs : b # a => rwAccess'[b] = rwAccess[b]
      /\ access # "none"
  BY Zenon DEF RwAdd, RwInv, RwTypeOK
<1>5. a \notin rwRead
  BY <1>1, <1>2, <1>3 DEF RwInv, RwTypeOK, InSeq
<1> HIDE DEF q, n
<1>6. /\ rwRead' = rwRead \cup (IF \A j \in 1 .. n - 1 : rwAccess'[q[j]] = "read" THEN {a} ELSE {})
      /\ rwWrite' = rwWrite \cup (IF n = 1 /\ access = "write" THEN {a} ELSE {})
  <2>1. n \in Nat \ {0}
    BY <1>1 DEF n
  <2>2. n > 1 => (rwAccess'[q[n - 1]] = "read" /\ q[n - 1] \in rwRead
                  <=> \A j \in 1 .. n - 1 : rwAccess'[q[j]] = "read")
    <3> SUFFICES ASSUME n > 1
                 PROVE  rwAccess'[q[n - 1]] = "read" /\ q[n - 1] \in rwRead
                        <=> \A j \in 1 .. n - 1 : rwAccess'[q[j]] = "read"
      BY Zenon
    <3>1. /\ n - 1 \in DOMAIN rwQueue
          /\ \A j \in 1 .. n - 1 : q[j] \in RwAcqs /\ q[j] # a /\ q[j] = rwQueue[j]
      BY <1>1, <1>2, <1>3, <2>1 DEF n
    <3>2. rwQueue[n - 1] \in rwRead <=> \A j \in 1 .. n - 2 : rwAccess[rwQueue[j]] = "read"
      BY <3>1, <2>1 DEF RwInv, RwLetInExactly
    <3> QED
      BY <3>1, <3>2, <1>4, <2>1
  <2>3. RwPulsed(q, rwRead, n) =
          [rd |-> IF \A j \in 1 .. n - 1 : rwAccess'[q[j]] = "read" THEN {a} ELSE {},
           wr |-> IF n = 1 /\ access = "write" THEN {a} ELSE {}]
    <3> DEFINE reader(j) == rwAccess'[q[j]] = "read"
               reached == {j \in n .. Len(q) :
                             /\ n = 1 \/ (reader(n - 1) /\ q[n - 1] \in rwRead)
                             /\ \A k \in n .. j - 1 : reader(k)}
    <3>1. reached = IF \A j \in 1 .. n - 1 : rwAccess'[q[j]] = "read" THEN {n} ELSE {}
      BY <1>2, <2>1, <2>2
    <3>2. {q[j] : j \in reached} = IF \A j \in 1 .. n - 1 : rwAccess'[q[j]] = "read" THEN {a} ELSE {}
      BY <3>1, <1>2
    <3>3. (IF n = 1 /\ ~reader(1) THEN {q[1]} ELSE {}) = IF n = 1 /\ access = "write" THEN {a} ELSE {}
      BY Zenon, <1>2, <1>4
    <3>4. RwPulsed(q, rwRead, n) = [rd |-> {q[j] : j \in reached},
                                    wr |-> IF n = 1 /\ ~reader(1) THEN {q[1]} ELSE {}]
      BY <1>2, <1>5, <2>1 DEF RwPulsed
    <3> QED
      BY Zenon, <3>2, <3>3, <3>4
  <2> QED
    BY <2>3, <1>2 DEF RwAdd, q
<1>7. RwTypeOK'
  <2>1. IsInjective(q)
    BY <1>1, <1>2, <1>3 DEF RwInv, RwTypeOK, IsInjective, n
  <2>2. \A b \in RwAcqs : rwAccess'[b] # "none" <=> InSeq(q, b)
    BY <1>1, <1>2, <1>3, <1>4 DEF RwInv, RwTypeOK, InSeq, n
  <2>3. \A b \in rwRead' : InSeq(q, b)
    BY <1>1, <1>2, <1>6 DEF RwInv, RwTypeOK, InSeq, n
  <2>4. rwWrite' \subseteq rwRead'
    BY <1>6 DEF RwInv, RwTypeOK
  <2> QED
    BY Zenon, <1>2, <1>4, <2>1, <2>2, <2>3, <2>4 DEF RwTypeOK, q
<1>8. RwLetInExactly'
  <2> SUFFICES ASSUME NEW i \in 1 .. n
               PROVE  /\ q[i] \in rwRead' <=> \A j \in 1 .. i - 1 : rwAccess'[q[j]] = "read"
                      /\ q[i] \in rwWrite' <=> i = 1 /\ rwAccess'[q[i]] = "write"
    BY Zenon, <1>2 DEF RwLetInExactly, q
  <2>1. CASE i = n
    BY Zenon, <2>1, <1>2, <1>4, <1>5, <1>6 DEF RwInv, RwTypeOK
  <2>2. CASE i < n
    <3>1. i \in DOMAIN rwQueue /\ q[i] = rwQueue[i] /\ q[i] # a
      BY <2>2, <1>1, <1>2, <1>3 DEF n
    <3>2. \A j \in 1 .. i : rwAccess'[q[j]] = rwAccess[rwQueue[j]]
      BY <2>2, <1>1, <1>2, <1>3, <1>4 DEF n
    <3> QED
      BY <3>1, <3>2, <1>6 DEF RwInv, RwLetInExactly
  <2> QED
    BY <2>1, <2>2, <1>1 DEF n
<1> QED
  BY Zenon, <1>7, <1>8 DEF RwInv

(* Whoever leaves the line, from wherever in it, the others are let in     *)
(* exactly when they should be.                                            *)
LEMMA RwRemoveInv ==
    ASSUME RwInv, NEW i \in DOMAIN rwQueue, RwRemove(i)
    PROVE  RwInv'
<1> DEFINE q == rwQueue'
           a == rwQueue[i]
           n == Len(rwQueue) - 1
           old(j) == IF j < i THEN j ELSE j + 1
           reads(j) == rwAccess[rwQueue[j]] = "read"
<1>1. /\ rwQueue \in Seq(RwAcqs) /\ Len(rwQueue) \in Nat /\ DOMAIN rwQueue = 1 .. Len(rwQueue)
      /\ \A j \in 1 .. Len(rwQueue) : rwQueue[j] \in RwAcqs
  BY DEF RwInv, RwTypeOK
<1>2. i \in 1 .. n + 1 /\ n \in Nat /\ \A j \in 1 .. n : old(j) \in 1 .. n + 1 /\ old(j) # i
  BY <1>1
<1>3. /\ q \in Seq(RwAcqs) /\ Len(q) = n /\ DOMAIN q = 1 .. n
      /\ \A j \in 1 .. n : q[j] = rwQueue[old(j)]
  <2>1. PICK x : x = rwQueue
    BY Zenon
  <2>2. q = DropAt(x, i) /\ x \in Seq(RwAcqs) /\ i \in 1 .. Len(x)
    BY Zenon, <1>1, <2>1 DEF RwRemove
  <2> HIDE DEF q, n
  <2>3. /\ q \in Seq(RwAcqs) /\ Len(q) = Len(x) - 1
        /\ \A j \in 1 .. Len(x) - 1 : q[j] = IF j < i THEN x[j] ELSE x[j + 1]
    BY Zenon, <2>2, LineWithout
  <2> QED
    BY <1>1, <2>1, <2>3 DEF n
<1>4. \A j, k \in 1 .. n + 1 : rwQueue[j] = rwQueue[k] => j = k
  BY <1>1 DEF RwInv, RwTypeOK, IsInjective
<1>5. \A j \in 1 .. n : q[j] # a /\ q[j] \in RwAcqs
  BY <1>1, <1>2, <1>3, <1>4
<1>6. /\ rwAccess' \in [RwAcqs -> {"none", "read", "write"}] /\ rwAccess'[a] = "none"
      /\ \A b \in RwAcqs : b # a => rwAccess'[b] = rwAccess[b]
  BY Zenon, <1>1 DEF RwRemove, RwInv, RwTypeOK
<1>7. \A j \in 1 .. n : (rwAccess'[q[j]] = "read") <=> reads(old(j))
  BY Zenon, <1>3, <1>5, <1>6
<1>8. \A j \in 1 .. n + 1 :
        /\ rwQueue[j] \in rwRead <=> \A k \in 1 .. j - 1 : reads(k)
        /\ rwQueue[j] \in rwWrite <=> j = 1 /\ rwAccess[rwQueue[j]] = "write"
        /\ rwAccess[rwQueue[j]] \in {"read", "write"}
  BY <1>1 DEF RwInv, RwTypeOK, RwLetInExactly, InSeq
<1> HIDE DEF q, n
<1> DEFINE p == RwPulsed(q, rwRead, i)
<1>9. rwRead' = (rwRead \ {a}) \cup p.rd /\ rwWrite' = (rwWrite \ {a}) \cup p.wr
  BY Zenon DEF RwRemove, q
<1> DEFINE reader(j) == rwAccess'[q[j]] = "read"
           reached == {j \in i .. n : /\ i = 1 \/ (reader(i - 1) /\ q[i - 1] \in rwRead)
                                      /\ \A k \in i .. j - 1 : reader(k)}
           first_writes == IF i = 1 /\ ~reader(1) THEN {q[1]} ELSE {}
<1>10. /\ p.rd = IF i > n \/ q[i] \in rwRead THEN {} ELSE {q[j] : j \in reached}
       /\ p.wr = IF i > n THEN {} ELSE first_writes
  BY Zenon, <1>3 DEF RwPulsed
<1>11. \A j \in 1 .. n : q[j] \in rwRead <=> \A k \in 1 .. old(j) - 1 : reads(k)
  BY SMTT(30), <1>2, <1>3, <1>8
<1>12. \A j, k \in 1 .. n : q[j] = q[k] => j = k
  BY SMTT(30), <1>2, <1>3, <1>4
<1>13. ASSUME NEW j \in 1 .. n
       PROVE  q[j] \in rwRead' <=> \A k \in 1 .. j - 1 : reader(k)
  <2>1. q[j] \in rwRead' <=>
          q[j] \in rwRead \/ (i <= n /\ q[i] \notin rwRead /\ j \in reached)
    BY <1>2, <1>5, <1>9, <1>10, <1>12
  <2>2. \A k \in 1 .. n : reader(k) <=> reads(IF k < i THEN k ELSE k + 1)
    BY Zenon, <1>7
  <2>3. \A k \in 1 .. n : q[k] \in rwRead <=>
           \A l \in 1 .. (IF k < i THEN k ELSE k + 1) - 1 : reads(l)
    BY Zenon, <1>11
  <2> HIDE DEF reads, reader, a, old, p, first_writes
  <2>4. CASE j < i
    BY <2>1, <2>2, <2>3, <2>4, <1>2
  <2>5. CASE j >= i /\ q[i] \in rwRead
    <3>1. \A l \in 1 .. i : reads(l)
      BY <2>3, <2>5, <1>2
    <3>2. q[j] \in rwRead <=> \A l \in 1 .. j : reads(l)
      BY <2>3, <2>5, <1>2
    <3>3. (\A l \in 1 .. j : reads(l)) <=> \A k \in 1 .. j - 1 : reader(k)
      <4>1. ASSUME \A k \in 1 .. j - 1 : reader(k), NEW l \in 1 .. j PROVE reads(l)
        <5>1. CASE l <= i
          BY <3>1, <5>1, <1>2
        <5>2. CASE l > i
          <6>1. l - 1 \in 1 .. j - 1 /\ l - 1 \in 1 .. n /\ ~(l - 1 < i) /\ (l - 1) + 1 = l
            BY <5>2, <1>2
          <6> QED
            BY Zenon, <6>1, <4>1, <2>2
        <5> QED
          BY <5>1, <5>2, <1>2
      <4>2. ASSUME \A l \in 1 .. j : reads(l), NEW k \in 1 .. j - 1 PROVE reader(k)
        BY <4>2, <2>2, <1>2
      <4> QED
        BY Zenon, <4>1, <4>2
    <3> QED
      BY Zenon, <3>2, <3>3, <2>1, <2>5
  <2>6. CASE j >= i /\ q[i] \notin rwRead
    <3>1. i \in 1 .. n /\ j \in i .. n
      BY <2>6, <1>2
    <3>2. ~\A l \in 1 .. i : reads(l)
      BY <3>1, <2>3, <2>6
    <3>3. q[j] \notin rwRead
      BY <3>1, <3>2, <2>3
    <3>4. (i = 1 \/ (reader(i - 1) /\ q[i - 1] \in rwRead)) <=> \A k \in 1 .. i - 1 : reader(k)
      <4>1. CASE i = 1
        BY <4>1
      <4>2. CASE i > 1
        <5>1. i - 1 \in 1 .. n /\ i - 1 < i
          BY <3>1, <4>2, <1>2
        <5>2. q[i - 1] \in rwRead <=> \A l \in 1 .. i - 2 : reads(l)
          BY <5>1, <2>3, <1>2
        <5>3. \A l \in 1 .. i - 1 : reader(l) <=> reads(l)
          BY <3>1, <2>2, <1>2
        <5> QED
          BY <5>1, <5>2, <5>3, <4>2, <3>1
      <4> QED
        BY <4>1, <4>2, <3>1
    <3>5. j \in reached <=> /\ \A k \in 1 .. i - 1 : reader(k)
                           /\ \A k \in i .. j - 1 : reader(k)
      BY Zenon, <3>1, <3>4
    <3> QED
      BY <3>1, <3>3, <3>5, <2>1, <2>6
  <2> QED
    BY <2>4, <2>5, <2>6, <1>2
<1>14. ASSUME NEW j \in 1 .. n
       PROVE  q[j] \in rwWrite' <=> j = 1 /\ rwAccess'[q[j]] = "write"
  <2>1. q[j] \in rwWrite' <=> q[j] \in rwWrite \/ (i = 1 /\ j = 1 /\ ~reader(1))
    BY <1>2, <1>5, <1>9, <1>10, <1>12
  <2>2. rwAccess'[q[j]] = rwAccess[rwQueue[old(j)]] /\ old(j) \in 1 .. n + 1
    BY Zenon, <1>2, <1>3, <1>5, <1>6
  <2>3. q[j] \in rwWrite <=> old(j) = 1 /\ rwAccess'[q[j]] = "write"
    BY Zenon, <1>3, <1>8, <2>2
  <2>4. rwAccess'[q[j]] \in {"read", "write"}
    BY Zenon, <1>8, <2>2
  <2> QED
    BY <2>1, <2>3, <2>4, <1>2
<1>15. RwTypeOK'
  <2>1. IsInjective(q)
    BY Zenon, <1>3, <1>12 DEF IsInjective
  <2>2. \A b \in RwAcqs : rwAccess'[b] # "none" <=> InSeq(q, b)
    <3>1. ASSUME NEW b \in RwAcqs, rwAccess'[b] # "none" PROVE InSeq(q, b)
      <4>1. b # a /\ InSeq(rwQueue, b)
        BY Zenon, <3>1, <1>6 DEF RwInv, RwTypeOK
      <4>2. PICK k \in 1 .. n + 1 : rwQueue[k] = b /\ k # i
        BY <4>1, <1>1 DEF InSeq, n
      <4>3. CASE k < i
        <5>1. k \in 1 .. n /\ q[k] = b
          BY <4>2, <4>3, <1>2, <1>3
        <5> QED
          BY Zenon, <5>1, <1>3 DEF InSeq
      <4>4. CASE k > i
        <5>1. k - 1 \in 1 .. n /\ old(k - 1) = k
          BY <4>2, <4>4, <1>2
        <5>2. q[k - 1] = b
          BY Zenon, <5>1, <4>2, <1>3
        <5> QED
          BY Zenon, <5>1, <5>2, <1>3 DEF InSeq
      <4> QED
        BY <4>2, <4>3, <4>4, <1>2
    <3>2. ASSUME NEW b \in RwAcqs, InSeq(q, b) PROVE rwAccess'[b] # "none"
      BY <3>2, <1>2, <1>3, <1>5, <1>6, <1>8 DEF InSeq
    <3> QED
      BY Zenon, <3>1, <3>2
  <2>3. \A b \in rwRead' : InSeq(q, b)
    <3> SUFFICES ASSUME NEW b \in rwRead' PROVE InSeq(q, b)
      BY Zenon
    <3>1. CASE b \in rwRead /\ b # a
      <4>1. b \in RwAcqs /\ rwAccess[b] # "none"
        BY Zenon, <3>1, <1>1 DEF RwInv, RwTypeOK, InSeq
      <4> QED
        BY Zenon, <3>1, <4>1, <1>6, <2>2
    <3>2. CASE b \in p.rd
      BY <3>2, <1>2, <1>3, <1>10 DEF InSeq
    <3> QED
      BY Zenon, <3>1, <3>2, <1>9
  <2>4. rwWrite' \subseteq rwRead'
    <3> SUFFICES ASSUME NEW b \in rwWrite' PROVE b \in rwRead'
      BY Zenon
    <3>1. CASE b \in rwWrite /\ b # a
      BY Zenon, <3>1, <1>9 DEF RwInv, RwTypeOK
    <3>2. CASE b \in p.wr
      <4>1. b = q[1] /\ 1 \in 1 .. n
        BY <3>2, <1>2, <1>10
      <4> QED
        BY <4>1, <1>13
    <3> QED
      BY Zenon, <3>1, <3>2, <1>9
  <2> QED
    BY Zenon, <1>3, <1>6, <2>1, <2>2, <2>3, <2>4 DEF RwTypeOK, q
<1>16. RwLetInExactly'
  BY Zenon, <1>3, <1>13, <1>14 DEF RwLetInExactly, q
<1> QED
  BY Zenon, <1>15, <1>16 DEF RwInv

(* The lock is right at all times, for any set of acquirers. *)
THEOREM RwLockIsRight == RwSpec => []RwInv
<1>1. ASSUME RwInv, [RwNext]_rwVars PROVE RwInv'
  <2>1. CASE UNCHANGED rwVars
    BY <1>1, <2>1 DEF RwInv, RwTypeOK, RwLetInExactly, rwVars, IsInjective, InSeq
  <2> QED
    BY Zenon, <1>1, <2>1, RwAddInv, RwRemoveInv DEF RwNext
<1> QED
  BY <1>1, RwInitInv, PTL DEF RwSpec

-----------------------------------------------------------------------------
(* min_timestamp_enforcer_t.                                               *)

(* The type of the enforcer's state. *)
MtTypeOK ==
    /\ mtNow \in Nat /\ mtBumped \subseteq Nat
    /\ mtWait \in [MtWaiters -> [token : Nat, state : {"none", "waits", "pulsed", "passed"}]]

(* At all times the queue holds exactly the reads that have to wait, in    *)
(* whatever order timestamps are reported and reads are interrupted.       *)
THEOREM MinTimestampQueueIsRight == MtSpec => []MtQueueIsRight
<1> DEFINE IInv == MtTypeOK /\ MtQueueIsRight
<1>1. MtInit => IInv
  BY DEF MtInit, MtTypeOK, MtQueueIsRight
<1>2. ASSUME IInv, [MtNext]_mtVars PROVE IInv'
  <2> USE <1>2 DEF MtTypeOK, MtQueueIsRight
  <2>1. ASSUME NEW ts \in 0 .. MtTimes, BumpTimestamp(ts) PROVE IInv'
    <3>1. CASE ts > mtNow
      BY <2>1, <3>1, MinTimestampConstants DEF BumpTimestamp, Pumped
    <3>2. CASE ~(ts > mtNow)
      BY <2>1, <3>2, MinTimestampConstants DEF BumpTimestamp
    <3> QED
      BY Zenon, <3>1, <3>2
  <2>2. ASSUME NEW w \in MtWaiters, NEW token \in 0 .. MtTimes, MtStart(w, token) PROVE IInv'
    BY <2>2, MinTimestampConstants DEF MtStart
  <2>3. ASSUME NEW w \in MtWaiters, MtPass(w) PROVE IInv'
    BY <2>3 DEF MtPass
  <2>4. ASSUME NEW w \in MtWaiters, MtInterrupt(w) PROVE IInv'
    BY Zenon, <2>4 DEF MtInterrupt
  <2>5. ASSUME NEW w \in MtWaiters, MtFinish(w) PROVE IInv'
    BY <2>5 DEF MtFinish
  <2>6. CASE UNCHANGED mtVars
    BY Zenon, <2>6 DEF mtVars
  <2> QED
    BY Zenon, <2>1, <2>2, <2>3, <2>4, <2>5, <2>6 DEF MtNext
<1> QED
  BY <1>1, <1>2, PTL DEF MtSpec

--------------------------------------------------------------------------------
(* The metablock manager.                                                  *)

(* Induction over numbers: a set of them that is not empty has a least one.*)
LEMMA LeastOf ==
    ASSUME NEW T \in SUBSET Nat, T # {}
    PROVE  \E n \in T : \A m \in T : n <= m
<1> DEFINE R == {ss \in Nat \X Nat : ss[1] < ss[2]}
<1>1. IsWellFoundedOn(R, Nat)
  BY Zenon, NatLessThanWellFounded DEF OpToRel
<1> HIDE DEF R
<1>2. PICK x \in T : \A y \in T : ~(<<y, x>> \in R)
  BY Zenon, <1>1, WFMin
<1>3. \A y \in T : x <= y
  <2> SUFFICES ASSUME NEW y \in T, y < x PROVE FALSE
    OBVIOUS
  <2>1. <<y, x>> \in Nat \X Nat /\ <<y, x>>[1] = y /\ <<y, x>>[2] = x
    BY Zenon
  <2>2. <<y, x>> \in R
    BY Zenon, <2>1 DEF R
  <2> QED
    BY Zenon, <1>2, <2>2
<1> QED
  BY Zenon, <1>3

--------------------------------------------------------------------------------
(* The inductive invariant                                                 *)

Good(slots, i) == slots[i] # BadCrc

\* The slots, read from slot 0, have ever newer metablocks up to slot p, and older
\* ones after it
NewestIs(slots, p) ==
  /\ Good(slots, p)
  /\ \A i \in SlotIds : (Good(slots, i) /\ i # p) => slots[i].version < slots[p].version
  /\ \A i, j \in SlotIds :
       (i < j /\ j <= p /\ Good(slots, i) /\ Good(slots, j)) => slots[i].version < slots[j].version

\* The metablocks in line, after metablock n
InOrderAfter(line, n) ==
  /\ \A i \in 1 .. Len(line) : n < line[i]
  /\ \A i, j \in 1 .. Len(line) : i < j => line[i] < line[j]

\* Slot p has the newest metablock, the next one goes to it (the first one after a
\* start) or to the slot after it, and the metablocks given are in order
RingAt(p) ==
  /\ NewestIs(mbSlot, p)
  /\ mbSlot[p].version >= 1 /\ mbSlot[p].mb <= mbGiven
  /\ mbState \in {"ready", "writing"} => mbHead \in {p, NextSlot(p)}
  /\ mbState = "ready" => mbNext = mbSlot[p].version + 1 /\ InOrderAfter(mbLine, mbSlot[p].mb)
  /\ mbState = "writing" =>
       /\ mbBuffer.version = mbSlot[p].version + 1 /\ mbNext = mbBuffer.version + 1
       /\ mbSlot[p].mb < mbBuffer.mb /\ mbBuffer.mb <= mbGiven
       /\ InOrderAfter(mbLine, mbBuffer.mb)

RingInv == \E p \in SlotIds : RingAt(p)

LineInv ==
  /\ \A i \in 1 .. Len(mbLine) : mbLine[i] <= mbGiven
  /\ mbState # "writing" => mbBuffer = NoBuffer
  /\ mbState = "writing" => mbBuffer \in Metablock
  /\ mbState = "unstarted" => mbLine = <<>>

MbIInv == MbInv /\ RingInv /\ LineInv

--------------------------------------------------------------------------------
(* The scan                                                                *)

\* The scan of the first n slots, as a function on 0 .. n
ScanOf(slots, n, f) ==
  /\ f = [i \in 0 .. n |-> f[i]]
  /\ f[0] = NothingFound
  /\ \A i \in 1 .. n : f[i] = ScanSlot(slots, i - 1, f[i - 1])

(* The recursive function of Scan exists: there is a scan of any number of *)
(* slots.                                                                  *)
LEMMA ScanExists ==
  ASSUME NEW slots, NEW n \in Nat
  PROVE  \E f : ScanOf(slots, n, f)
<1> DEFINE T == {k \in Nat : ~ \E f : ScanOf(slots, k, f)}
<1> SUFFICES ASSUME T # {} PROVE FALSE
  BY Zenon
<1>1. PICK k \in T : \A m \in T : k <= m
  <2>1. T \in SUBSET Nat
    BY Zenon
  <2> HIDE DEF T
  <2> QED
    BY Zenon, <2>1, LeastOf
<1>2. k # 0
  <2> DEFINE g == [i \in 0 .. 0 |-> NothingFound]
  <2>1. ScanOf(slots, 0, g)
    BY DEF ScanOf
  <2> QED
    BY Zenon, <2>1
<1>3. k \in Nat /\ k - 1 \in Nat
  BY <1>2
<1>4. k - 1 \notin T
  BY <1>1, <1>3
<1>5. PICK f : ScanOf(slots, k - 1, f)
  BY Zenon, <1>3, <1>4
<1> DEFINE g == [i \in 0 .. k |-> IF i = k THEN ScanSlot(slots, k - 1, f[k - 1]) ELSE f[i]]
<1>6. \A i \in 0 .. k : i # k => g[i] = f[i]
  BY Zenon
<1>7. g[k] = ScanSlot(slots, k - 1, f[k - 1]) /\ g = [i \in 0 .. k |-> g[i]]
  BY <1>3
<1> HIDE DEF g
<1>8. g[0] = NothingFound
  <2>1. 0 \in 0 .. k /\ 0 # k
    BY <1>2, <1>3
  <2>2. g[0] = f[0]
    BY Zenon, <2>1, <1>6
  <2> QED
    BY Zenon, <2>2, <1>5 DEF ScanOf
<1>9. ASSUME NEW i \in 1 .. k PROVE g[i] = ScanSlot(slots, i - 1, g[i - 1])
  <2>1. g[i - 1] = f[i - 1]
    BY <1>3, <1>6
  <2>2. CASE i = k
    BY Zenon, <2>1, <2>2, <1>7
  <2>3. CASE i # k
    <3>1. i \in 1 .. (k - 1) /\ i \in 0 .. k
      BY <2>3, <1>3
    <3>2. f[i] = ScanSlot(slots, i - 1, f[i - 1])
      BY Zenon, <3>1, <1>5 DEF ScanOf
    <3> QED
      BY Zenon, <3>1, <3>2, <2>1, <1>6, <2>3
  <2> QED
    BY Zenon, <2>2, <2>3
<1>10. ScanOf(slots, k, g)
  BY Zenon, <1>7, <1>8, <1>9 DEF ScanOf
<1> QED
  BY Zenon, <1>10

(* Scan() is the last value of a scan of all slots.                        *)
LEMMA ScanIsLast ==
  ASSUME NEW slots
  PROVE  \E f : ScanOf(slots, NumSlots, f) /\ Scan(slots) = f[NumSlots]
<1> DEFINE Eq(f) == f = [i \in 0 .. NumSlots |->
                           IF i = 0 THEN NothingFound ELSE ScanSlot(slots, i - 1, f[i - 1])]
<1>1. NumSlots \in Nat \ {0}
  BY Zenon, MetablockConstants
<1>2. PICK f : ScanOf(slots, NumSlots, f)
  BY Zenon, <1>1, ScanExists
<1>3. Eq(f)
  <2>1. \A i \in 0 .. NumSlots : f[i] = IF i = 0 THEN NothingFound ELSE ScanSlot(slots, i - 1, f[i - 1])
    <3> TAKE i \in 0 .. NumSlots
    <3>1. i = 0 \/ i \in 1 .. NumSlots
      BY <1>1
    <3> QED
      BY Zenon, <3>1, <1>2 DEF ScanOf
  <2>2. f = [i \in 0 .. NumSlots |-> f[i]]
    BY Zenon, <1>2 DEF ScanOf
  <2> QED
    BY Zenon, <2>1, <2>2
<1> DEFINE c == CHOOSE g : Eq(g)
<1>4. Eq(c)
  BY Zenon, <1>3
<1>5. Scan(slots) = c[NumSlots]
  BY Zenon DEF Scan
<1> HIDE DEF c
<1>6. ScanOf(slots, NumSlots, c)
  <2>1. c = [i \in 0 .. NumSlots |-> c[i]]
    BY Zenon, <1>4
  <2>2. c[0] = NothingFound
    BY <1>1, <1>4
  <2>3. \A i \in 1 .. NumSlots : c[i] = ScanSlot(slots, i - 1, c[i - 1])
    BY <1>1, <1>4
  <2> QED
    BY Zenon, <2>1, <2>2, <2>3 DEF ScanOf
<1> QED
  BY Zenon, <1>5, <1>6

SlotRing == [SlotIds -> Metablock \cup {BadCrc}]

(* The scan of co_start_existing() finds the newest metablock of a ring    *)
(* that was written in turn: up to slot p it meets ever newer metablocks,  *)
(* and the slots after p do not divert it.                                 *)
LEMMA ScanFindsTheNewest ==
  ASSUME NEW slots \in SlotRing, NEW p \in SlotIds, NewestIs(slots, p)
  PROVE  Scan(slots).saved = p /\ Scan(slots).latest = slots[p].version
<1>1. NumSlots \in Nat \ {0}
  BY Zenon, MetablockConstants
<1>2. PICK f : ScanOf(slots, NumSlots, f) /\ Scan(slots) = f[NumSlots]
  BY Zenon, ScanIsLast
<1>3. p \in Nat /\ p < NumSlots
  BY <1>1 DEF SlotIds
<1>4. \A i \in SlotIds : Good(slots, i) => slots[i] \in Metablock /\ slots[i].version \in Nat
  BY Zenon DEF Good, SlotRing, Metablock
<1> DEFINE Before(i) ==
      /\ f[i] = [latest |-> f[i].latest, saved |-> f[i].saved, over |-> FALSE]
      /\ \/ f[i].latest = MB_BAD_VERSION
         \/ \E j \in SlotIds : j < i /\ Good(slots, j) /\ f[i].latest = slots[j].version
<1> DEFINE After(i) ==
      /\ f[i] \in [latest : Nat, saved : SlotIds, over : BOOLEAN]
      /\ f[i].latest = slots[p].version /\ f[i].saved = p
<1>5. \A i \in 0 .. p : Before(i)
  <2> DEFINE T == {i \in 0 .. p : ~ Before(i)}
  <2> SUFFICES ASSUME T # {} PROVE FALSE
    BY Zenon
  <2>1. PICK k \in T : \A m \in T : k <= m
    <3>1. T \in SUBSET Nat
      BY <1>3
    <3> HIDE DEF T
    <3> QED
      BY Zenon, <3>1, LeastOf
  <2>2. k # 0
    <3>1. f[0] = [latest |-> MB_BAD_VERSION, saved |-> NoSlot, over |-> FALSE]
      BY Zenon, <1>2 DEF ScanOf, NothingFound
    <3>2. Before(0)
      BY <3>1
    <3> QED
      BY Zenon, <3>2
  <2>3. k \in Nat /\ k - 1 \in 0 .. p /\ k \in 1 .. NumSlots /\ k - 1 \in SlotIds /\ k - 1 < p /\ k <= p
    BY <2>2, <1>3, <1>1 DEF SlotIds
  <2>4. k - 1 \notin T
    BY <2>1, <2>3
  <2>5. Before(k - 1)
    BY Zenon, <2>3, <2>4
  <2>6. f[k] = ScanSlot(slots, k - 1, f[k - 1])
    BY Zenon, <2>3, <1>2 DEF ScanOf
  <2>7. CASE ~ Good(slots, k - 1)
    <3>1. f[k] = f[k - 1]
      BY Zenon, <2>6, <2>7 DEF ScanSlot, Good
    <3>2. Before(k)
      BY <3>1, <2>5, <2>3 DEF SlotIds
    <3> QED
      BY Zenon, <3>2
  <2>8. CASE Good(slots, k - 1)
    <3>1. slots[k - 1].version > f[k - 1].latest
      <4>1. CASE f[k - 1].latest = MB_BAD_VERSION
        BY <4>1, <2>8, <2>3, <1>4 DEF MB_BAD_VERSION
      <4>2. CASE \E j \in SlotIds : j < k - 1 /\ Good(slots, j) /\ f[k - 1].latest = slots[j].version
        <5>1. PICK j \in SlotIds : j < k - 1 /\ Good(slots, j) /\ f[k - 1].latest = slots[j].version
          BY Zenon, <4>2
        <5>2. slots[j].version < slots[k - 1].version
          BY <5>1, <2>8, <2>3 DEF NewestIs
        <5> QED
          BY Zenon, <5>1, <5>2, <2>8, <2>3, <1>4
      <4> QED
        BY Zenon, <4>1, <4>2, <2>5
    <3>2. f[k] = [latest |-> slots[k - 1].version, saved |-> k - 1, over |-> FALSE]
      <4>1. ~ f[k - 1].over
        BY <2>5
      <4> QED
        BY Zenon, <2>6, <2>8, <3>1, <4>1 DEF ScanSlot, Good
    <3>3. Before(k)
      BY <3>2, <2>8, <2>3
    <3> QED
      BY Zenon, <3>3
  <2> QED
    BY Zenon, <2>7, <2>8
<1>6. After(p + 1)
  <2>1. f[p + 1] = ScanSlot(slots, p, f[p])
    <3>1. p + 1 \in 1 .. NumSlots /\ (p + 1) - 1 = p
      BY <1>1, <1>3
    <3> QED
      BY Zenon, <3>1, <1>2 DEF ScanOf
  <2>2. Good(slots, p)
    BY Zenon DEF NewestIs
  <2>3. Before(p)
    BY <1>3, <1>5
  <2>4. slots[p].version > f[p].latest
    <3>1. CASE f[p].latest = MB_BAD_VERSION
      BY <3>1, <2>2, <1>4 DEF MB_BAD_VERSION
    <3>2. CASE \E j \in SlotIds : j < p /\ Good(slots, j) /\ f[p].latest = slots[j].version
      <4>1. PICK j \in SlotIds : j < p /\ Good(slots, j) /\ f[p].latest = slots[j].version
        BY Zenon, <3>2
      <4>2. slots[j].version < slots[p].version
        BY <4>1, <1>3 DEF NewestIs, SlotIds
      <4> QED
        BY Zenon, <4>1, <4>2, <2>2, <1>4
    <3> QED
      BY Zenon, <3>1, <3>2, <2>3
  <2>5. f[p + 1] = [latest |-> slots[p].version, saved |-> p, over |-> FALSE]
    <3>1. ~ f[p].over
      BY <2>3
    <3> QED
      BY Zenon, <2>1, <2>2, <2>4, <3>1 DEF ScanSlot, Good
  <2> QED
    BY <2>2, <2>5, <1>4
<1>7. \A i \in (p + 1) .. NumSlots : After(i)
  <2> DEFINE T == {i \in (p + 1) .. NumSlots : ~ After(i)}
  <2> SUFFICES ASSUME T # {} PROVE FALSE
    BY Zenon
  <2>1. PICK k \in T : \A m \in T : k <= m
    <3>1. T \in SUBSET Nat
      BY <1>1, <1>3
    <3> HIDE DEF T
    <3> QED
      BY Zenon, <3>1, LeastOf
  <2>2. k # p + 1
    BY Zenon, <1>6
  <2>3. /\ k \in Nat /\ k - 1 \in (p + 1) .. NumSlots /\ k \in 1 .. NumSlots
        /\ k - 1 \in SlotIds /\ k - 1 # p
    BY <2>2, <1>3, <1>1 DEF SlotIds
  <2>4. k - 1 \notin T
    BY <2>1, <2>3
  <2>5. After(k - 1)
    BY Zenon, <2>3, <2>4
  <2>6. f[k] = ScanSlot(slots, k - 1, f[k - 1])
    BY Zenon, <2>3, <1>2 DEF ScanOf
  <2>7. Good(slots, k - 1) => ~ (slots[k - 1].version > f[k - 1].latest)
    <3>1. f[k - 1].latest = slots[p].version
      BY Zenon, <2>5
    <3>2. Good(slots, k - 1) => slots[k - 1].version < slots[p].version
      BY Zenon, <2>3 DEF NewestIs
    <3> QED
      BY <3>1, <3>2, <1>4, <2>3 DEF NewestIs
  <2>8. CASE f[k - 1].over \/ ~ Good(slots, k - 1)
    <3>1. f[k] = f[k - 1]
      BY Zenon, <2>6, <2>8 DEF ScanSlot, Good
    <3>2. After(k)
      BY Zenon, <3>1, <2>5
    <3> QED
      BY Zenon, <3>2
  <2>9. CASE ~ (f[k - 1].over \/ ~ Good(slots, k - 1))
    <3>1. f[k] = [f[k - 1] EXCEPT !.over = TRUE]
      BY Zenon, <2>6, <2>7, <2>9 DEF ScanSlot, Good
    <3>2. PICK r : r = f[k - 1]
      BY Zenon
    <3>3. /\ [r EXCEPT !.over = TRUE] \in [latest : Nat, saved : SlotIds, over : BOOLEAN]
          /\ [r EXCEPT !.over = TRUE].latest = r.latest /\ [r EXCEPT !.over = TRUE].saved = r.saved
      BY Zenon, <3>2, <2>5
    <3>4. After(k)
      BY Zenon, <3>1, <3>2, <3>3, <2>5
    <3> QED
      BY Zenon, <3>4
  <2> QED
    BY Zenon, <2>8, <2>9
<1>8. After(NumSlots)
  BY <1>1, <1>3, <1>7
<1> QED
  BY Zenon, <1>2, <1>8

--------------------------------------------------------------------------------
(* Slots and lines                                                         *)

(* head_t::operator++ goes round the ring.                                 *)
LEMMA NextSlotIs ==
  ASSUME NEW p \in SlotIds
  PROVE  /\ NextSlot(p) \in SlotIds
         /\ NextSlot(p) = IF p = NumSlots - 1 THEN 0 ELSE p + 1
<1>1. NumSlots \in Nat /\ NumSlots > 1 /\ p \in Nat /\ p <= NumSlots - 1
  BY MetablockConstants DEF SlotIds
<1>2. CASE p = NumSlots - 1
  <2>1. NextSlot(p) = 0
    <3>1. p + 1 = NumSlots /\ NumSlots % NumSlots = 0
      BY <1>1, <1>2
    <3> QED
      BY Zenon, <3>1 DEF NextSlot
  <2> QED
    BY <2>1, <1>1, <1>2 DEF SlotIds
<1>3. CASE p # NumSlots - 1
  <2>1. p + 1 \in 0 .. NumSlots - 1
    BY <1>1, <1>3
  <2>2. (p + 1) % NumSlots = p + 1
    BY <1>1, <2>1
  <2> QED
    BY Zenon, <2>1, <2>2, <1>3 DEF NextSlot, SlotIds
<1> QED
  BY Zenon, <1>2, <1>3

(* co_write_metablock() keeps the ring: written over the newest metablock  *)
(* or into the slot after it, a newer one becomes the newest.              *)
LEMMA WriteKeepsRing ==
  ASSUME NEW slots \in SlotRing, NEW p \in SlotIds, NewestIs(slots, p),
         NEW h \in {p, NextSlot(p)}, NEW b \in Metablock, slots[p].version < b.version
  PROVE  /\ h \in SlotIds /\ [slots EXCEPT ![h] = b] \in SlotRing
         /\ [slots EXCEPT ![h] = b][h] = b
         /\ NewestIs([slots EXCEPT ![h] = b], h)
<1> DEFINE after == [slots EXCEPT ![h] = b]
<1>1. /\ h \in SlotIds /\ p \in Nat /\ h \in Nat /\ NumSlots \in Nat /\ p <= NumSlots - 1
      /\ h = p \/ h = IF p = NumSlots - 1 THEN 0 ELSE p + 1
  BY NextSlotIs, MetablockConstants DEF SlotIds
<1>2. after \in SlotRing /\ after[h] = b /\ \A i \in SlotIds : i # h => after[i] = slots[i]
  BY Zenon, <1>1 DEF SlotRing
<1>3. \A i \in SlotIds : Good(slots, i) => slots[i].version \in Nat
  BY Zenon DEF Good, SlotRing, Metablock
<1>4. b.version \in Nat /\ b # BadCrc
  BY DEF Metablock, BadCrc, MB_BAD_VERSION
<1> HIDE DEF after
<1>5. \A i \in SlotIds : (Good(slots, i)) => slots[i].version < b.version
  <2> TAKE i \in SlotIds
  <2> HAVE Good(slots, i)
  <2>1. i = p \/ slots[i].version < slots[p].version
    BY Zenon DEF NewestIs
  <2>2. slots[i].version \in Nat /\ slots[p].version \in Nat
    BY Zenon, <1>3 DEF NewestIs
  <2> QED
    BY <2>1, <2>2, <1>4
<1>6. Good(after, h)
  BY Zenon, <1>2, <1>4 DEF Good
<1>7. \A i \in SlotIds : (Good(after, i) /\ i # h) => after[i].version < after[h].version
  BY Zenon, <1>2, <1>5 DEF Good
<1>8. ASSUME NEW i \in SlotIds, NEW j \in SlotIds, i < j, j <= h, Good(after, i), Good(after, j)
      PROVE  after[i].version < after[j].version
  <2>1. i # h
    BY <1>8, <1>1 DEF SlotIds
  <2>2. CASE j = h
    BY Zenon, <2>1, <2>2, <1>7, <1>8
  <2>3. CASE j # h
    <3>1. j <= p
      BY <2>3, <1>8, <1>1 DEF SlotIds
    <3> QED
      BY Zenon, <2>1, <2>3, <3>1, <1>2, <1>8 DEF NewestIs, Good
  <2> QED
    BY Zenon, <2>2, <2>3
<1>9. NewestIs(after, h)
  BY Zenon, <1>6, <1>7, <1>8 DEF NewestIs
<1> QED
  BY Zenon, <1>1, <1>2, <1>9 DEF after

(* A write that a crash tears into a slot that is not the newest one's     *)
(* leaves the newest one where it is.                                      *)
LEMMA TornKeepsRing ==
  ASSUME NEW slots \in SlotRing, NEW p \in SlotIds, NewestIs(slots, p),
         NEW h \in SlotIds, h # p
  PROVE  /\ [slots EXCEPT ![h] = BadCrc] \in SlotRing
         /\ [slots EXCEPT ![h] = BadCrc][p] = slots[p]
         /\ NewestIs([slots EXCEPT ![h] = BadCrc], p)
<1> DEFINE after == [slots EXCEPT ![h] = BadCrc]
<1>1. after \in SlotRing /\ after[h] = BadCrc /\ \A i \in SlotIds : i # h => after[i] = slots[i]
  BY Zenon DEF SlotRing
<1> HIDE DEF after
<1>2. NewestIs(after, p)
  BY Zenon, <1>1 DEF NewestIs, Good
<1> QED
  BY Zenon, <1>1, <1>2 DEF after

(* A newer number at the end of a line leaves it in order.                 *)
LEMMA InOrderAppend ==
  ASSUME NEW line \in Seq(Nat), NEW n \in Nat, NEW g \in Nat, InOrderAfter(line, n), n <= g,
         \A i \in 1 .. Len(line) : line[i] <= g
  PROVE  /\ InOrderAfter(Append(line, g + 1), n)
         /\ \A i \in 1 .. Len(Append(line, g + 1)) : Append(line, g + 1)[i] <= g + 1
<1> DEFINE more == Append(line, g + 1)
<1>1. /\ Len(line) \in Nat /\ Len(more) = Len(line) + 1
      /\ \A i \in 1 .. Len(line) : more[i] = line[i] /\ line[i] \in Nat
      /\ more[Len(line) + 1] = g + 1
  OBVIOUS
<1> HIDE DEF more
<1>2. \A i \in 1 .. Len(more) : i \in 1 .. Len(line) \/ i = Len(line) + 1
  BY <1>1
<1>3. \A i \in 1 .. Len(more) : n < more[i] /\ more[i] <= g + 1
  BY <1>1, <1>2 DEF InOrderAfter
<1>4. ASSUME NEW i \in 1 .. Len(more), NEW j \in 1 .. Len(more), i < j
      PROVE  more[i] < more[j]
  <2>1. i \in 1 .. Len(line)
    BY <1>1, <1>4
  <2>2. CASE j = Len(line) + 1
    BY <2>1, <2>2, <1>1
  <2>3. CASE j \in 1 .. Len(line)
    BY Zenon, <2>1, <2>3, <1>1, <1>4 DEF InOrderAfter
  <2> QED
    BY Zenon, <1>2, <2>2, <2>3
<1> QED
  BY SMTT(30), <1>3, <1>4 DEF InOrderAfter, more

(* The rest of a line in order comes after its head.                       *)
LEMMA InOrderTail ==
  ASSUME NEW line \in Seq(Nat), line # <<>>, NEW n \in Nat, NEW g \in Nat, InOrderAfter(line, n),
         \A i \in 1 .. Len(line) : line[i] <= g
  PROVE  /\ Head(line) \in Nat /\ n < Head(line) /\ Head(line) <= g
         /\ InOrderAfter(Tail(line), Head(line))
         /\ \A i \in 1 .. Len(Tail(line)) : Tail(line)[i] <= g
<1> DEFINE rest == Tail(line)
<1>1. /\ Len(line) \in Nat /\ Len(line) >= 1 /\ Len(rest) = Len(line) - 1
      /\ \A i \in 1 .. Len(rest) : rest[i] = line[i + 1]
      /\ Head(line) = line[1]
      /\ \A i \in 1 .. Len(line) : line[i] \in Nat
  OBVIOUS
<1> HIDE DEF rest
<1>2. 1 \in 1 .. Len(line) /\ \A i \in 1 .. Len(rest) : i + 1 \in 1 .. Len(line) /\ 1 < i + 1
  BY <1>1
<1>3. n < line[1] /\ line[1] <= g /\ line[1] \in Nat
  BY Zenon, <1>1, <1>2 DEF InOrderAfter
<1>4. \A i \in 1 .. Len(rest) : line[1] < rest[i] /\ rest[i] <= g
  BY Zenon, <1>1, <1>2 DEF InOrderAfter
<1>5. ASSUME NEW i \in 1 .. Len(rest), NEW j \in 1 .. Len(rest), i < j
      PROVE  rest[i] < rest[j]
  <2>1. i + 1 < j + 1
    BY <1>1, <1>5
  <2>2. line[i + 1] < line[j + 1]
    BY Zenon, <2>1, <1>2 DEF InOrderAfter
  <2> QED
    BY Zenon, <2>2, <1>1
<1> QED
  BY Zenon, <1>1, <1>3, <1>4, <1>5 DEF InOrderAfter, rest

--------------------------------------------------------------------------------
(* The invariant is inductive: create(), then one lemma for each action    *)

(* The types of the ring of metablocks.                                    *)
LEMMA SlotTypes ==
  ASSUME MbIInv, NEW p \in SlotIds, NewestIs(mbSlot, p)
  PROVE  /\ mbSlot \in SlotRing /\ mbSlot[p] \in Metablock
         /\ mbSlot[p].version \in Nat /\ mbSlot[p].mb \in Nat
         /\ mbGiven \in Nat /\ mbNext \in Nat /\ mbLine \in Seq(Nat)
<1>1. mbSlot \in SlotRing /\ mbGiven \in Nat /\ mbNext \in Nat
  BY MetablockConstants DEF MbIInv, MbInv, MbTypeOK, SlotRing
<1>2. mbSlot[p] \in Metablock
  BY Zenon, <1>1 DEF NewestIs, Good, SlotRing
<1>3. mbLine \in Seq(Nat)
  <2>1. mbLine \in Seq(1 .. MaxMetablocks) /\ 1 .. MaxMetablocks \subseteq Nat
    BY DEF MbIInv, MbInv, MbTypeOK
  <2>2. PICK l, n, M : l = mbLine /\ n = Len(mbLine) /\ M = 1 .. MaxMetablocks
    BY Zenon
  <2>3. n \in Nat /\ l \in [1 .. n -> M] /\ M \subseteq Nat
    <3>1. l \in Seq(M) /\ n = Len(l) /\ M \subseteq Nat
      BY Zenon, <2>1, <2>2
    <3> QED
      BY ONLY <3>1
  <2>4. l \in [1 .. n -> Nat]
    BY ONLY Zenon, <2>3
  <2>5. l \in Seq(Nat)
    BY ONLY <2>3, <2>4
  <2> QED
    BY Zenon, <2>2, <2>5
<1> QED
  BY Zenon, <1>1, <1>2, <1>3 DEF Metablock

(* The inductive invariant holds at the start.                             *)
LEMMA InitMbIInv == MbInit => MbIInv
<1> SUFFICES ASSUME MbInit PROVE MbIInv
  BY Zenon
<1> DEFINE first == [version |-> MB_START_VERSION, mb |-> 0]
<1>1. 0 \in SlotIds /\ NumSlots \in Nat /\ MaxMetablocks \in Nat /\ MaxStops \in Nat
  BY MetablockConstants DEF SlotIds
<1>2. first \in Metablock /\ first.version = 1 /\ first.mb = 0 /\ first # BadCrc
  BY DEF MB_START_VERSION, Metablock, BadCrc, MB_BAD_VERSION
<1> HIDE DEF first
<1>3. mbSlot = [i \in SlotIds |-> IF i = 0 THEN first ELSE BadCrc]
  BY Zenon DEF MbInit, first
<1>4. mbSlot[0] = first /\ mbSlot \in SlotRing /\ \A i \in SlotIds : i # 0 => ~ Good(mbSlot, i)
  BY Zenon, <1>1, <1>2, <1>3 DEF SlotRing, Good
<1>5. MbInv
  BY <1>1, <1>4 DEF MbInit, MbInv, MbTypeOK, MetablockFound, SlotRing
<1>6. NewestIs(mbSlot, 0)
  BY <1>1, <1>2, <1>4 DEF NewestIs, Good
<1>7. RingAt(0)
  BY <1>2, <1>4, <1>6 DEF MbInit, RingAt
<1>8. LineInv
  BY DEF MbInit, LineInv
<1> QED
  BY Zenon, <1>1, <1>5, <1>7, <1>8 DEF MbIInv, RingInv

(* StartExisting keeps the inductive invariant.                            *)
LEMMA StartExistingKeeps ==
  ASSUME MbIInv, StartExisting
  PROVE  MbIInv'
<1>1. PICK p \in SlotIds : RingAt(p)
  BY Zenon DEF MbIInv, RingInv
<1>2. NewestIs(mbSlot, p)
  BY Zenon, <1>1 DEF RingAt
<1>3. mbSlot \in SlotRing /\ mbSlot[p].version \in Nat /\ mbSlot[p].version >= 1
  BY Zenon, <1>1, <1>2, SlotTypes DEF RingAt
<1>4. Scan(mbSlot).saved = p /\ Scan(mbSlot).latest = mbSlot[p].version
  BY Zenon, <1>2, <1>3, ScanFindsTheNewest
<1>5. /\ mbState = "unstarted" /\ mbState' = "ready"
      /\ mbNext' = mbSlot[p].version + 1 /\ mbHead' = p
      /\ UNCHANGED <<mbSlot, mbBuffer, mbLine, mbGiven, mbStops>>
  BY <1>3, <1>4 DEF StartExisting, MB_BAD_VERSION
<1>6. mbLine = <<>>
  BY Zenon, <1>5 DEF MbIInv, LineInv
<1>7. MbInv'
  BY <1>3, <1>5 DEF MbIInv, MbInv, MbTypeOK, MetablockFound
<1>8. RingAt(p)'
  <2>1. InOrderAfter(<<>>, mbSlot[p].mb)
    BY DEF InOrderAfter
  <2> QED
    BY Zenon, <1>1, <1>5, <1>6, <2>1 DEF RingAt
<1>9. LineInv'
  BY Zenon, <1>5 DEF MbIInv, LineInv
<1> QED
  BY Zenon, <1>7, <1>8, <1>9 DEF MbIInv, RingInv, SlotIds

(* WriteMetablock keeps the inductive invariant.                           *)
LEMMA WriteMetablockKeeps ==
  ASSUME MbIInv, WriteMetablock
  PROVE  MbIInv'
<1>1. PICK p \in SlotIds : RingAt(p)
  BY Zenon DEF MbIInv, RingInv
<1>2. NewestIs(mbSlot, p)
  BY Zenon, <1>1 DEF RingAt
<1>3. /\ mbSlot[p].mb \in Nat /\ mbGiven \in Nat /\ mbLine \in Seq(Nat)
      /\ \A i \in 1 .. Len(mbLine) : mbLine[i] <= mbGiven
  BY Zenon, <1>2, SlotTypes DEF MbIInv, LineInv
<1>4. /\ mbState \in {"ready", "writing"} /\ mbGiven' = mbGiven + 1
      /\ mbLine' = Append(mbLine, mbGiven + 1)
      /\ UNCHANGED <<mbSlot, mbHead, mbNext, mbState, mbBuffer, mbStops>>
  BY Zenon DEF WriteMetablock
<1>5. MbInv'
  <2>1. mbGiven + 1 \in 1 .. MaxMetablocks /\ mbGiven + 1 \in 0 .. MaxMetablocks
    BY <1>3, MetablockConstants DEF WriteMetablock, MbIInv, MbInv, MbTypeOK
  <2> QED
    BY <1>4, <2>1 DEF MbIInv, MbInv, MbTypeOK, MetablockFound
<1>6. CASE mbState = "ready"
  <2>1. /\ InOrderAfter(Append(mbLine, mbGiven + 1), mbSlot[p].mb)
        /\ \A i \in 1 .. Len(Append(mbLine, mbGiven + 1)) : Append(mbLine, mbGiven + 1)[i] <= mbGiven + 1
    <3>1. PICK l, n, g : l = mbLine /\ n = mbSlot[p].mb /\ g = mbGiven
      BY Zenon
    <3>2. InOrderAfter(l, n) /\ n <= g
      BY Zenon, <3>1, <1>1, <1>6 DEF RingAt
    <3> QED
      BY Zenon, <3>1, <3>2, <1>3, InOrderAppend
  <2>2. RingAt(p)' /\ LineInv'
    BY <1>1, <1>3, <1>4, <1>6, <2>1 DEF RingAt, LineInv, MbIInv
  <2> QED
    BY Zenon, <1>5, <2>2 DEF MbIInv, RingInv, SlotIds
<1>7. CASE mbState = "writing"
  <2>1. mbBuffer.mb \in Nat /\ mbBuffer.mb <= mbGiven
    BY Zenon, <1>1, <1>7 DEF MbIInv, LineInv, Metablock, RingAt
  <2>2. /\ InOrderAfter(Append(mbLine, mbGiven + 1), mbBuffer.mb)
        /\ \A i \in 1 .. Len(Append(mbLine, mbGiven + 1)) : Append(mbLine, mbGiven + 1)[i] <= mbGiven + 1
    <3>1. PICK l, n, g : l = mbLine /\ n = mbBuffer.mb /\ g = mbGiven
      BY Zenon
    <3>2. InOrderAfter(l, n) /\ n <= g /\ n \in Nat
      BY SMTT(30), <3>1, <1>1, <1>7, <2>1 DEF RingAt
    <3> QED
      BY Zenon, <3>1, <3>2, <1>3, InOrderAppend
  <2>3. RingAt(p)' /\ LineInv'
    BY SMTT(30), <1>1, <1>3, <1>4, <1>7, <2>1, <2>2 DEF RingAt, LineInv, MbIInv
  <2> QED
    BY Zenon, <1>5, <2>3 DEF MbIInv, RingInv, SlotIds
<1> QED
  BY Zenon, <1>4, <1>6, <1>7

(* CoWriteBegins keeps the inductive invariant.                            *)
LEMMA CoWriteBeginsKeeps ==
  ASSUME MbIInv, CoWriteBegins
  PROVE  MbIInv'
<1>1. PICK p \in SlotIds : RingAt(p)
  BY Zenon DEF MbIInv, RingInv
<1>2. NewestIs(mbSlot, p)
  BY Zenon, <1>1 DEF RingAt
<1>3. /\ mbSlot[p].mb \in Nat /\ mbGiven \in Nat /\ mbLine \in Seq(Nat) /\ mbNext \in Nat
      /\ \A i \in 1 .. Len(mbLine) : mbLine[i] <= mbGiven
  BY Zenon, <1>2, SlotTypes DEF MbIInv, LineInv
<1>4. PICK b : b = [version |-> mbNext, mb |-> Head(mbLine)]
  BY Zenon
<1>5. /\ mbState = "ready" /\ mbState' = "writing" /\ mbLine # <<>>
      /\ mbBuffer' = b /\ mbNext' = mbNext + 1 /\ mbLine' = Tail(mbLine)
      /\ UNCHANGED <<mbSlot, mbHead, mbGiven, mbStops>>
  BY Zenon, <1>4 DEF CoWriteBegins
<1>6. /\ Head(mbLine) \in Nat /\ mbSlot[p].mb < Head(mbLine) /\ Head(mbLine) <= mbGiven
      /\ InOrderAfter(Tail(mbLine), Head(mbLine))
      /\ \A i \in 1 .. Len(Tail(mbLine)) : Tail(mbLine)[i] <= mbGiven
  <2>1. PICK l, n, g : l = mbLine /\ n = mbSlot[p].mb /\ g = mbGiven
    BY Zenon
  <2>2. InOrderAfter(l, n) /\ l # <<>>
    BY Zenon, <2>1, <1>1, <1>5 DEF RingAt
  <2> QED
    BY Zenon, <2>1, <2>2, <1>3, InOrderTail
<1>7. b \in Metablock /\ b.version = mbNext /\ b.mb = Head(mbLine)
  BY Zenon, <1>3, <1>4, <1>6 DEF Metablock
<1>8. MbInv'
  <2>1. Tail(mbLine) \in Seq(1 .. MaxMetablocks)
    BY <1>5 DEF MbIInv, MbInv, MbTypeOK
  <2> QED
    BY <1>3, <1>5, <1>7, <2>1 DEF MbIInv, MbInv, MbTypeOK, MetablockFound
<1>9. RingAt(p)'
  BY SMTT(30), <1>1, <1>5, <1>6, <1>7 DEF RingAt
<1>10. LineInv'
  BY Zenon, <1>5, <1>6, <1>7 DEF LineInv
<1> QED
  BY Zenon, <1>8, <1>9, <1>10 DEF MbIInv, RingInv, SlotIds

(* CoWriteReturns keeps the inductive invariant.                           *)
LEMMA CoWriteReturnsKeeps ==
  ASSUME MbIInv, CoWriteReturns
  PROVE  MbIInv'
<1>1. PICK p \in SlotIds : RingAt(p)
  BY Zenon DEF MbIInv, RingInv
<1>2. NewestIs(mbSlot, p)
  BY Zenon, <1>1 DEF RingAt
<1>3. mbSlot \in SlotRing /\ mbSlot[p].version \in Nat /\ mbGiven \in Nat
  BY Zenon, <1>2, SlotTypes
<1>4. PICK b, h : b = mbBuffer /\ h = mbHead
  BY Zenon
<1>5. /\ mbState = "writing" /\ mbSlot' = [mbSlot EXCEPT ![h] = b] /\ mbHead' = NextSlot(h)
      /\ mbState' = "ready" /\ mbBuffer' = NoBuffer
      /\ UNCHANGED <<mbNext, mbLine, mbGiven, mbStops>>
  BY Zenon, <1>4 DEF CoWriteReturns
<1>6. /\ b \in Metablock /\ h \in {p, NextSlot(p)} /\ mbSlot[p].version < b.version
      /\ b.version >= 1 /\ b.version \in Nat /\ mbNext = b.version + 1 /\ b.mb <= mbGiven
      /\ InOrderAfter(mbLine, b.mb)
  BY <1>1, <1>3, <1>4, <1>5 DEF RingAt, MbIInv, LineInv, Metablock
<1>7. /\ h \in SlotIds /\ mbSlot' \in SlotRing /\ mbSlot'[h] = b /\ NewestIs(mbSlot', h)
  <2>1. PICK slots : slots = mbSlot
    BY Zenon
  <2>2. /\ h \in SlotIds /\ [slots EXCEPT ![h] = b] \in SlotRing
        /\ [slots EXCEPT ![h] = b][h] = b
        /\ NewestIs([slots EXCEPT ![h] = b], h)
    BY <2>1, <1>2, <1>3, <1>6, WriteKeepsRing
  <2> QED
    BY Zenon, <2>1, <2>2, <1>5
<1>8. NextSlot(h) \in SlotIds
  BY Zenon, <1>7, NextSlotIs
<1>9. MbInv'
  BY Zenon, <1>5, <1>7, <1>8 DEF MbIInv, MbInv, MbTypeOK, MetablockFound, SlotRing
<1>10. RingAt(h)'
  BY Zenon, <1>5, <1>6, <1>7 DEF RingAt
<1>11. LineInv'
  BY Zenon, <1>5 DEF LineInv, MbIInv
<1> QED
  BY Zenon, <1>7, <1>9, <1>10, <1>11 DEF MbIInv, RingInv, SlotIds

(* A crash leaves the newest metablock where it is, or the metablock that  *)
(* was being written becomes the newest one.                               *)
LEMMA CrashKeepsRing ==
  ASSUME MbIInv, TornOverwrite = FALSE, NEW p \in SlotIds, RingAt(p), MbStop
  PROVE  /\ mbSlot' \in SlotRing
         /\ \/ NewestIs(mbSlot', p) /\ mbSlot'[p] = mbSlot[p]
            \/ /\ mbState = "writing" /\ mbHead \in SlotIds
               /\ NewestIs(mbSlot', mbHead) /\ mbSlot'[mbHead] = mbBuffer
<1>1. NewestIs(mbSlot, p)
  BY Zenon DEF RingAt
<1>2. mbSlot \in SlotRing /\ mbSlot[p].version \in Nat
  BY Zenon, <1>1, SlotTypes
<1>3. PICK slots, h : slots = mbSlot /\ h = mbHead
  BY Zenon
<1>4. h \in SlotIds /\ h \in {p, NextSlot(p)}
  BY Zenon, <1>3 DEF MbStop, RingAt, MbIInv, MbInv, MbTypeOK
<1>5. PICK m \in AfterCrash : mbSlot' = [slots EXCEPT ![h] = m]
  BY Zenon, <1>3 DEF MbStop
<1>6. CASE m = slots[h]
  <2>1. [slots EXCEPT ![h] = m] = slots
    BY Zenon, <1>2, <1>3, <1>4, <1>6 DEF SlotRing
  <2> QED
    BY Zenon, <2>1, <1>1, <1>2, <1>3, <1>5
<1>7. CASE mbState = "writing" /\ m = mbBuffer
  <2>1. m \in Metablock /\ slots[p].version < m.version
    BY <1>2, <1>3, <1>7 DEF RingAt, MbIInv, LineInv, Metablock
  <2>2. /\ [slots EXCEPT ![h] = m] \in SlotRing /\ [slots EXCEPT ![h] = m][h] = m
        /\ NewestIs([slots EXCEPT ![h] = m], h)
    BY <2>1, <1>1, <1>2, <1>3, <1>4, WriteKeepsRing
  <2> QED
    BY Zenon, <2>2, <1>3, <1>4, <1>5, <1>7
<1>8. CASE mbState = "writing" /\ m = BadCrc /\ h # Scan(mbSlot).saved
  <2>1. Scan(mbSlot).saved = p
    BY Zenon, <1>1, <1>2, ScanFindsTheNewest
  <2>2. /\ [slots EXCEPT ![h] = BadCrc] \in SlotRing
        /\ [slots EXCEPT ![h] = BadCrc][p] = slots[p]
        /\ NewestIs([slots EXCEPT ![h] = BadCrc], p)
    BY <2>1, <1>1, <1>2, <1>3, <1>4, <1>8, TornKeepsRing
  <2> QED
    BY Zenon, <2>2, <1>3, <1>5, <1>8
<1>9. \/ m = slots[h]
      \/ mbState = "writing" /\ m = mbBuffer
      \/ mbState = "writing" /\ m = BadCrc /\ h # Scan(mbSlot).saved
  BY Zenon, <1>3, <1>5 DEF AfterCrash
<1> QED
  BY Zenon, <1>6, <1>7, <1>8, <1>9

(* MbStop keeps the inductive invariant.                                   *)
LEMMA MbStopKeeps ==
  ASSUME MbIInv, TornOverwrite = FALSE, MbStop
  PROVE  MbIInv'
<1>1. PICK p \in SlotIds : RingAt(p)
  BY Zenon DEF MbIInv, RingInv
<1>2. mbSlot[p].version \in Nat /\ mbGiven \in Nat
  BY Zenon, <1>1, SlotTypes DEF RingAt
<1>3. /\ mbState' = "unstarted" /\ mbHead' = 0 /\ mbNext' = 0 /\ mbBuffer' = NoBuffer
      /\ mbLine' = <<>> /\ mbStops' = mbStops + 1 /\ mbStops < MaxStops /\ UNCHANGED mbGiven
  BY Zenon DEF MbStop
<1>4. mbSlot' \in SlotRing
  BY Zenon, <1>1, CrashKeepsRing
<1>5. MbInv'
  <2>1. mbStops + 1 \in 0 .. MaxStops /\ 0 \in SlotIds
    BY <1>3, MetablockConstants DEF MbIInv, MbInv, MbTypeOK, SlotIds
  <2> QED
    BY <1>3, <1>4, <2>1 DEF MbIInv, MbInv, MbTypeOK, MetablockFound, SlotRing
<1>6. LineInv'
  BY <1>3 DEF LineInv
<1>7. CASE NewestIs(mbSlot', p) /\ mbSlot'[p] = mbSlot[p]
  <2>1. RingAt(p)'
    BY Zenon, <1>1, <1>3, <1>7 DEF RingAt
  <2> QED
    BY Zenon, <1>5, <1>6, <2>1 DEF MbIInv, RingInv, SlotIds
<1>8. CASE /\ mbState = "writing" /\ mbHead \in SlotIds
           /\ NewestIs(mbSlot', mbHead) /\ mbSlot'[mbHead] = mbBuffer
  <2>1. PICK h : h = mbHead
    BY Zenon
  <2>2. mbBuffer.version >= 1 /\ mbBuffer.mb <= mbGiven
    BY <1>1, <1>2, <1>8 DEF RingAt
  <2>3. RingAt(h)'
    BY Zenon, <2>1, <2>2, <1>3, <1>8 DEF RingAt
  <2> QED
    BY Zenon, <1>5, <1>6, <1>8, <2>1, <2>3 DEF MbIInv, RingInv, SlotIds
<1> QED
  BY Zenon, <1>1, <1>7, <1>8, CrashKeepsRing

--------------------------------------------------------------------------------
(* The theorems                                                            *)

(* Every step keeps the inductive invariant.                               *)
LEMMA StepMbIInv ==
  ASSUME TornOverwrite = FALSE, MbIInv, [MbNext]_mbVars
  PROVE  MbIInv'
<1>1. CASE UNCHANGED mbVars
  BY Zenon, <1>1 DEF mbVars, MbIInv, MbInv, MbTypeOK, MetablockFound, RingInv, RingAt, LineInv
<1>2. CASE StartExisting
  BY Zenon, <1>2, StartExistingKeeps
<1>3. CASE WriteMetablock
  BY Zenon, <1>3, WriteMetablockKeeps
<1>4. CASE CoWriteBegins
  BY Zenon, <1>4, CoWriteBeginsKeeps
<1>5. CASE CoWriteReturns
  BY Zenon, <1>5, CoWriteReturnsKeeps
<1>6. CASE MbStop
  BY Zenon, <1>6, MbStopKeeps
<1> QED
  BY Zenon, <1>1, <1>2, <1>3, <1>4, <1>5, <1>6 DEF MbNext

(* Whatever was being written when the process stopped, and however often  *)
(* it stops, co_start_existing() finds a metablock, as the guarantee() of  *)
(* log_serializer.cc demands; a crash does not tear the newest metablock.  *)
THEOREM MetablockIsFound ==
  ASSUME TornOverwrite = FALSE
  PROVE  MbSpec => []MbInv
<1>1. MbIInv => MbInv
  BY Zenon DEF MbIInv
<1>2. MbIInv /\ [MbNext]_mbVars => MbIInv'
  BY Zenon, StepMbIInv
<1> QED
  BY InitMbIInv, <1>1, <1>2, PTL DEF MbSpec

\* What a start would find, and what is being written
CellNow == mbSlot[Scan(mbSlot).saved].mb
BufferNow == mbBuffer.mb
RunningNow == mbState \in {"ready", "writing"}

(* What the ring stores is its newest metablock,                           *)
LEMMA CellIs ==
  ASSUME MbIInv, NEW p \in SlotIds, RingAt(p)
  PROVE  CellNow = mbSlot[p].mb /\ mbSlot[p].mb \in Nat
<1>1. NewestIs(mbSlot, p)
  BY Zenon DEF RingAt
<1>2. mbSlot \in SlotRing /\ mbSlot[p].mb \in Nat
  BY Zenon, <1>1, SlotTypes
<1> QED
  BY Zenon, <1>1, <1>2, ScanFindsTheNewest DEF CellNow

(* also after the step.                                                    *)
LEMMA CellIsNext ==
  ASSUME NEW p \in SlotIds, mbSlot' \in SlotRing, NewestIs(mbSlot', p)
  PROVE  CellNow' = mbSlot'[p].mb
<1>1. PICK slots : slots = mbSlot'
  BY Zenon
<1>2. Scan(slots).saved = p
  BY Zenon, <1>1, ScanFindsTheNewest
<1> QED
  BY Zenon, <1>1, <1>2 DEF CellNow

(* A write that is on its way, if any, has a metablock.                    *)
LEMMA BufferIs ==
  ASSUME MbIInv
  PROVE  /\ mbState # "writing" => BufferNow = 0
         /\ mbState = "writing" => BufferNow \in Nat /\ BufferNow # 0
<1>1. mbState # "writing" => BufferNow = 0
  BY DEF MbIInv, LineInv, BufferNow, NoBuffer, BadCrc
<1>2. ASSUME mbState = "writing" PROVE BufferNow \in Nat /\ BufferNow # 0
  <2>1. PICK p \in SlotIds : RingAt(p)
    BY Zenon DEF MbIInv, RingInv
  <2>2. mbSlot[p].mb \in Nat /\ mbBuffer.mb \in Nat
    BY Zenon, <2>1, <1>2, CellIs DEF MbIInv, LineInv, Metablock
  <2> QED
    BY <2>1, <2>2, <1>2 DEF RingAt, BufferNow
<1> QED
  BY Zenon, <1>1, <1>2

\* DurableCell's actions, in terms of what they speak of here
CellStarts == ~ RunningNow /\ RunningNow' /\ UNCHANGED <<CellNow, BufferNow>>
CellBegins ==
  /\ RunningNow /\ BufferNow = 0
  /\ BufferNow' \in Nat /\ BufferNow' > CellNow
  /\ UNCHANGED <<RunningNow, CellNow>>
CellCompletes ==
  /\ RunningNow /\ BufferNow # 0
  /\ CellNow' = BufferNow /\ BufferNow' = 0 /\ UNCHANGED RunningNow
CellStops ==
  /\ RunningNow /\ ~ RunningNow'
  /\ CellNow' \in {CellNow} \cup ({BufferNow} \ {0})
  /\ BufferNow' = 0

(* Every step of the manager is a step of the cell or does not change it:  *)
(* a start finds what the cell holds, a write begins with a later          *)
(* metablock and ends with it in the cell, a crash keeps the old or the new.*)
LEMMA StepIsCellStep ==
  ASSUME TornOverwrite = FALSE, MbIInv, MbIInv', [MbNext]_mbVars
  PROVE  CellStarts \/ CellBegins \/ CellCompletes \/ CellStops
         \/ UNCHANGED <<RunningNow, CellNow, BufferNow>>
<1>1. PICK p \in SlotIds : RingAt(p)
  BY Zenon DEF MbIInv, RingInv
<1>2. CellNow = mbSlot[p].mb /\ mbSlot[p].mb \in Nat /\ NewestIs(mbSlot, p)
  BY Zenon, <1>1, CellIs DEF RingAt
<1>3. mbSlot' \in SlotRing
  BY Zenon DEF MbIInv, MbInv, MbTypeOK, SlotRing, SlotIds, Metablock, BadCrc, MB_BAD_VERSION
<1>4. mbState # "writing" => BufferNow = 0
  BY Zenon, BufferIs
<1>5. mbState = "writing" => BufferNow \in Nat /\ BufferNow # 0
  BY Zenon, BufferIs
<1>6. CASE UNCHANGED mbVars
  BY Zenon, <1>6 DEF mbVars, RunningNow, CellNow, BufferNow
<1>7. CASE StartExisting
  <2>1. mbState = "unstarted" /\ UNCHANGED <<mbSlot, mbBuffer>> /\ mbState' \in {"ready", "failed"}
    BY Zenon, <1>7 DEF StartExisting
  <2>2. mbState' # "failed"
    BY Zenon DEF MbIInv, MbInv, MetablockFound
  <2>3. CellStarts
    BY Zenon, <2>1, <2>2 DEF CellStarts, RunningNow, CellNow, BufferNow
  <2> QED
    BY Zenon, <2>3
<1>8. CASE WriteMetablock
  BY Zenon, <1>8 DEF WriteMetablock, RunningNow, CellNow, BufferNow
<1>9. CASE CoWriteBegins
  <2>1. mbState = "ready" /\ mbState' = "writing" /\ UNCHANGED mbSlot
    BY Zenon, <1>9 DEF CoWriteBegins
  <2>2. PICK q \in SlotIds : RingAt(q)'
    BY Zenon DEF MbIInv, RingInv, SlotIds
  <2>3. NewestIs(mbSlot', q) /\ mbSlot'[q].mb < mbBuffer'.mb
    BY Zenon, <2>1, <2>2 DEF RingAt
  <2>4. CellNow' = mbSlot'[q].mb
    BY Zenon, <2>3, <1>3, CellIsNext
  <2>5. CellNow' = CellNow
    BY Zenon, <2>1 DEF CellNow
  <2>6. BufferNow' \in Nat
    BY Zenon, <2>1 DEF MbIInv, LineInv, Metablock, BufferNow
  <2>7. CellBegins
    BY <2>1, <2>3, <2>4, <2>5, <2>6, <1>2, <1>4 DEF CellBegins, RunningNow, BufferNow
  <2> QED
    BY Zenon, <2>7
<1>10. CASE CoWriteReturns
  <2>1. PICK h, b, slots : h = mbHead /\ b = mbBuffer /\ slots = mbSlot
    BY Zenon
  <2>2. /\ mbState = "writing" /\ mbState' = "ready" /\ mbSlot' = [slots EXCEPT ![h] = b]
        /\ mbBuffer' = NoBuffer
    BY Zenon, <2>1, <1>10 DEF CoWriteReturns
  <2>3. /\ slots \in SlotRing /\ b \in Metablock /\ h \in {p, NextSlot(p)}
        /\ slots[p].version < b.version
    BY <2>1, <2>2, <1>1, <1>2, SlotTypes DEF RingAt, MbIInv, LineInv, Metablock
  <2>4. /\ h \in SlotIds /\ [slots EXCEPT ![h] = b][h] = b /\ NewestIs([slots EXCEPT ![h] = b], h)
    BY <2>1, <2>3, <1>2, WriteKeepsRing
  <2>5. CellNow' = b.mb
    BY Zenon, <2>2, <2>4, <1>3, CellIsNext
  <2>6. CellCompletes
    BY <2>1, <2>2, <2>5, <1>5 DEF CellCompletes, RunningNow, BufferNow, NoBuffer, BadCrc
  <2> QED
    BY Zenon, <2>6
<1>11. CASE MbStop
  <2>1. /\ RunningNow /\ ~ RunningNow' /\ BufferNow' = 0
    BY Zenon, <1>11 DEF MbStop, RunningNow, BufferNow, NoBuffer, BadCrc
  <2>2. CASE NewestIs(mbSlot', p) /\ mbSlot'[p] = mbSlot[p]
    <3>1. CellNow' = CellNow
      BY Zenon, <2>2, <1>2, <1>3, CellIsNext
    <3> QED
      BY Zenon, <2>1, <3>1 DEF CellStops
  <2>3. CASE /\ mbState = "writing" /\ mbHead \in SlotIds
             /\ NewestIs(mbSlot', mbHead) /\ mbSlot'[mbHead] = mbBuffer
    <3>1. PICK h : h = mbHead
      BY Zenon
    <3>2. CellNow' = mbBuffer.mb
      BY Zenon, <2>3, <3>1, <1>3, CellIsNext
    <3>3. CellStops
      BY Zenon, <2>1, <2>3, <3>2, <1>5 DEF CellStops, BufferNow
    <3> QED
      BY Zenon, <3>3
  <2> QED
    BY Zenon, <1>1, <1>11, <2>2, <2>3, CrashKeepsRing
<1> QED
  BY Zenon, <1>6, <1>7, <1>8, <1>9, <1>10, <1>11 DEF MbNext

(* The ring of slots implements one durable cell: a start, after any crash,*)
(* finds the last metablock whose write completed or the one that was      *)
(* being written; a crash does not tear the newest metablock.              *)
THEOREM MetablocksImplementDurableCell ==
  ASSUME TornOverwrite = FALSE
  PROVE  MbSpec => ImplementsDurableCell
<1>1. MbInit => Cell!CellInit
  <2> SUFFICES ASSUME MbInit PROVE Cell!CellInit
    BY Zenon
  <2>1. MbIInv
    BY Zenon, InitMbIInv
  <2>2. 0 \in SlotIds /\ mbSlot[0].mb = 0
    BY MetablockConstants DEF MbInit, SlotIds
  <2>3. RingAt(0)
    <3>1. PICK p \in SlotIds : RingAt(p)
      BY Zenon, <2>1 DEF MbIInv, RingInv
    <3>2. p = 0
      BY Zenon, <3>1, <2>2 DEF RingAt, NewestIs, Good, MbInit
    <3> QED
      BY Zenon, <3>1, <3>2
  <2>4. CellNow = 0
    BY Zenon, <2>1, <2>2, <2>3, CellIs
  <2>5. mbBuffer.mb = 0 /\ mbState = "unstarted"
    BY Zenon DEF MbInit, NoBuffer, BadCrc
  <2> QED
    BY Zenon, <2>4, <2>5 DEF Cell!CellInit, CellNow
<1>2. MbIInv /\ MbIInv' /\ [MbNext]_mbVars => [Cell!CellNext]_Cell!cellVars
  <2> SUFFICES ASSUME MbIInv, MbIInv', [MbNext]_mbVars PROVE [Cell!CellNext]_Cell!cellVars
    BY Zenon
  <2>1. CASE CellStarts
    BY Zenon, <2>1 DEF CellStarts, Cell!CellNext, Cell!Start, RunningNow, CellNow, BufferNow
  <2>2. CASE CellBegins
    BY Zenon, <2>2 DEF CellBegins, Cell!CellNext, Cell!Begin, RunningNow, CellNow, BufferNow
  <2>3. CASE CellCompletes
    BY Zenon, <2>3 DEF CellCompletes, Cell!CellNext, Cell!Complete, RunningNow, CellNow, BufferNow
  <2>4. CASE CellStops
    BY Zenon, <2>4 DEF CellStops, Cell!CellNext, Cell!Stop, RunningNow, CellNow, BufferNow
  <2>5. CASE UNCHANGED <<RunningNow, CellNow, BufferNow>>
    BY Zenon, <2>5 DEF Cell!cellVars, RunningNow, CellNow, BufferNow
  <2> QED
    BY Zenon, <2>1, <2>2, <2>3, <2>4, <2>5, StepIsCellStep
<1>3. MbIInv /\ [MbNext]_mbVars => MbIInv'
  BY Zenon, StepMbIInv
<1> QED
  BY InitMbIInv, <1>1, <1>2, <1>3, PTL DEF MbSpec, ImplementsDurableCell, Cell!CellSpec
================================================================================
