--------------------------- MODULE ConnectionProofs ---------------------------
(***************************************************************************)
(* What the messages between two servers rest on. The heartbeats kill no   *)
(* connection but a silent one, whatever the interval and the delay of the *)
(* network, as long as the delay leaves room for the interval. And the     *)
(* FIFO enforcer, which puts messages that arrive out of order back into   *)
(* it, keeps its promises for any finite set of reads and any set of       *)
(* writes.                                                                 *)
(***************************************************************************)
EXTENDS FifoEnforcer, Heartbeat, FiniteSetTheorems, TLAPS

(* Heartbeat: the inductive invariant                                      *)

HbCount(b) == IF b THEN 1 ELSE 0

HbTypeOK ==
    /\ hbEnd \in [HbEnds -> [read : BOOLEAN, write : BOOLEAN, since : Nat, rang : BOOLEAN,
                             killed : BOOLEAN, quiet : Nat]]
    /\ hbNet \in [HbEnds -> SUBSET (0 .. HbMaxDelay)]
    /\ hbSilent \in BOOLEAN

\* The timer counts the rings since the last read, but for the one that finds it
QuietInv ==
    \A e \in HbEnds :
        /\ hbEnd[e].since <= HEARTBEAT_TIMEOUT_INTERVALS + 1
        /\ IF hbEnd[e].read THEN hbEnd[e].quiet = 0 ELSE hbEnd[e].quiet <= hbEnd[e].since + 1

\* How late end e can be when nothing is on its way to it, by what the other end o
\* has done in this round
LateWithNothing(e, o) ==
    IF hbEnd[o].rang
    THEN IF hbEnd[o].write THEN hbEnd[e].rang /\ hbEnd[e].since = 0
                           ELSE hbEnd[e].since <= HbCount(hbEnd[e].rang)
    ELSE hbEnd[e].since <= HbCount(hbEnd[e].rang) + (1 - HbCount(hbEnd[o].write))

\* While messages come in time, so does each end's next read
InTimeInv ==
    ~ hbSilent =>
        \A e \in HbEnds :
            /\ ~ hbEnd[e].killed
            /\ hbEnd[e].since <= HbMaxDelay + 2
            /\ \/ hbEnd[e].read
               \/ \E a \in hbNet[e] : hbEnd[e].since <= 1 + a + HbCount(hbEnd[e].rang)
               \/ hbNet[e] = {} /\ LateWithNothing(e, 3 - e)

HbIInv == HbTypeOK /\ QuietInv /\ InTimeInv

HbRecords == [read : BOOLEAN, write : BOOLEAN, since : Nat, rang : BOOLEAN, killed : BOOLEAN, quiet : Nat]

\* on_ring() when it does not kill the connection
Rings(e) ==
    /\ hbEnd' = [hbEnd EXCEPT ![e].rang = TRUE, ![e].read = FALSE,
                              ![e].write = ~ hbEnd[e].write,
                              ![e].since = IF hbEnd[e].read THEN 0 ELSE @ + 1,
                              ![e].quiet = @ + 1]
    /\ IF hbEnd[e].write THEN UNCHANGED hbNet ELSE SendMessage(e)
    /\ UNCHANGED hbSilent

(* The two ends of a connection are each other's peers.                    *)
LEMMA HbOther ==
    ASSUME NEW e \in HbEnds
    PROVE  /\ 3 - e \in HbEnds /\ 3 - e # e /\ 3 - (3 - e) = e
           /\ \A f \in HbEnds : f = e \/ f = 3 - e
BY DEF HbEnds

(* The types of what an end of the connection knows.                       *)
LEMMA HbTypes ==
    ASSUME HbIInv, NEW e \in HbEnds
    PROVE  /\ hbEnd[e] \in HbRecords /\ hbEnd[e].since \in Nat /\ hbEnd[e].quiet \in Nat
           /\ hbEnd[e].read \in BOOLEAN /\ hbEnd[e].write \in BOOLEAN /\ hbEnd[e].rang \in BOOLEAN
           /\ hbEnd[e].killed \in BOOLEAN
           /\ hbNet[e] \subseteq 0 .. HbMaxDelay
           /\ HbMaxDelay \in Nat /\ HEARTBEAT_TIMEOUT_INTERVALS \in Nat
BY Zenon, HbAssumption DEF HbIInv, HbTypeOK, HbRecords

(* What the timer's ring changes at an end.                                *)
LEMMA RingsEffect ==
    ASSUME HbIInv, NEW e \in HbEnds, Rings(e)
    PROVE  /\ hbEnd' \in [HbEnds -> HbRecords]
           /\ hbEnd'[3 - e] = hbEnd[3 - e]
           /\ hbEnd'[e].rang /\ ~ hbEnd'[e].read
           /\ hbEnd'[e].killed <=> hbEnd[e].killed
           /\ hbEnd'[e].write <=> ~ hbEnd[e].write
           /\ hbEnd'[e].since = IF hbEnd[e].read THEN 0 ELSE hbEnd[e].since + 1
           /\ hbEnd'[e].quiet = hbEnd[e].quiet + 1
<1>1. PICK r, n, q, w : /\ r = hbEnd[e] /\ n = (IF hbEnd[e].read THEN 0 ELSE hbEnd[e].since + 1)
                        /\ q = hbEnd[e].quiet + 1 /\ w = ~ hbEnd[e].write
  BY Zenon
<1>2. r \in HbRecords /\ n \in Nat /\ q \in Nat /\ w \in BOOLEAN
  BY <1>1, HbTypes
<1>3. PICK s : s = [r EXCEPT !.rang = TRUE, !.read = FALSE, !.write = w, !.since = n, !.quiet = q]
  BY Zenon
<1>4. /\ s \in HbRecords /\ s.rang /\ ~ s.read /\ s.since = n /\ s.quiet = q
      /\ s.write = w /\ s.killed = r.killed
  BY Zenon, <1>2, <1>3 DEF HbRecords
<1>5. hbEnd' = [hbEnd EXCEPT ![e] = s]
  BY Zenon, <1>1, <1>3, HbTypes DEF Rings, HbIInv, HbTypeOK, HbRecords
<1>6. hbEnd \in [HbEnds -> HbRecords]
  BY Zenon DEF HbIInv, HbTypeOK, HbRecords
<1>7. hbEnd'[e] = s /\ hbEnd' \in [HbEnds -> HbRecords] /\ hbEnd'[3 - e] = hbEnd[3 - e]
  BY Zenon, <1>4, <1>5, <1>6, HbOther
<1> QED
  BY Zenon, <1>1, <1>4, <1>7

InTime(e) ==
    /\ ~ hbEnd[e].killed
    /\ hbEnd[e].since <= HbMaxDelay + 2
    /\ \/ hbEnd[e].read
       \/ \E a \in hbNet[e] : hbEnd[e].since <= 1 + a + HbCount(hbEnd[e].rang)
       \/ hbNet[e] = {} /\ LateWithNothing(e, 3 - e)

(* A heartbeat that is sent is on its way, unless the net is silent.       *)
LEMMA SendEffect ==
    ASSUME HbIInv, NEW e \in HbEnds, SendMessage(e)
    PROVE  /\ hbNet' \in [HbEnds -> SUBSET (0 .. HbMaxDelay)]
           /\ hbNet'[e] = hbNet[e]
           /\ ~ hbSilent => hbNet'[3 - e] = hbNet[3 - e] \cup {0}
<1>1. hbNet \in [HbEnds -> SUBSET (0 .. HbMaxDelay)] /\ 0 \in 0 .. HbMaxDelay /\ 3 - e \in HbEnds /\ 3 - e # e
  BY HbOther, HbAssumption DEF HbIInv, HbTypeOK
<1>2. hbNet[3 - e] \cup {0} \in SUBSET (0 .. HbMaxDelay)
  BY Zenon, <1>1
<1>3. CASE hbSilent
  BY Zenon, <1>1, <1>3 DEF SendMessage
<1>4. CASE ~ hbSilent
  <2>1. PICK o, x : o = 3 - e /\ x = hbNet[o] \cup {0}
    BY Zenon
  <2>2. hbNet' = [hbNet EXCEPT ![o] = x]
    BY Zenon, <2>1, <1>4 DEF SendMessage
  <2> QED
    BY Zenon, <2>1, <2>2, <1>1, <1>2
<1> QED
  BY Zenon, <1>3, <1>4

(* A message on its way to an end that was in time keeps it in time.       *)
LEMMA MessageInTime ==
    ASSUME HbIInv, NEW e \in HbEnds, InTime(e), hbEnd'[e] = hbEnd[e], hbNet'[e] = hbNet[e] \cup {0}
    PROVE  InTime(e)'
<1>1. PICK s, b : s = hbEnd[e].since /\ b = HbCount(hbEnd[e].rang)
  BY Zenon
<1>2. s \in Nat /\ b \in {0, 1}
  BY Zenon, <1>1, HbTypes DEF HbCount
<1>3. CASE hbEnd[e].read
  BY Zenon, <1>3 DEF InTime
<1>4. CASE \E a \in hbNet[e] : s <= 1 + a + b
  BY Zenon, <1>1, <1>4 DEF InTime
<1>5. CASE hbNet[e] = {} /\ LateWithNothing(e, 3 - e)
  <2>1. s <= 1 + b
    BY <1>1, <1>2, <1>5 DEF LateWithNothing, HbCount
  <2>2. s <= 1 + 0 + b
    BY <2>1, <1>2
  <2>3. 0 \in hbNet'[e] /\ hbEnd'[e].since <= 1 + 0 + HbCount(hbEnd'[e].rang)
    BY Zenon, <2>2, <1>1
  <2> QED
    BY Zenon, <2>3 DEF InTime
<1> QED
  BY Zenon, <1>1, <1>3, <1>4, <1>5 DEF InTime

(* AppWrites keeps the inductive invariant.                                *)
LEMMA AppWritesKeeps ==
    ASSUME HbIInv, NEW e \in HbEnds, AppWrites(e)
    PROVE  HbIInv'
<1>1. PICK o : o = 3 - e
  BY Zenon
<1>2. o \in HbEnds /\ o # e /\ 3 - o = e /\ \A f \in HbEnds : f = e \/ f = o
  BY Zenon, <1>1, HbOther
<1>3. hbEnd' = [hbEnd EXCEPT ![e].write = TRUE] /\ SendMessage(e) /\ UNCHANGED hbSilent
  BY Zenon DEF AppWrites
<1>4. /\ hbEnd' \in [HbEnds -> HbRecords] /\ hbEnd'[o] = hbEnd[o]
      /\ hbEnd'[e].write /\ (hbEnd'[e].read <=> hbEnd[e].read) /\ (hbEnd'[e].rang <=> hbEnd[e].rang)
      /\ (hbEnd'[e].killed <=> hbEnd[e].killed)
      /\ hbEnd'[e].since = hbEnd[e].since /\ hbEnd'[e].quiet = hbEnd[e].quiet
  <2>1. PICK r, s : r = hbEnd[e] /\ s = [r EXCEPT !.write = TRUE]
    BY Zenon
  <2>2. /\ s \in HbRecords /\ s.write /\ s.read = r.read /\ s.rang = r.rang /\ s.killed = r.killed
        /\ s.since = r.since /\ s.quiet = r.quiet
    BY Zenon, <2>1, HbTypes DEF HbRecords
  <2>3. hbEnd' = [hbEnd EXCEPT ![e] = s] /\ hbEnd \in [HbEnds -> HbRecords]
    BY Zenon, <2>1, <1>3, HbTypes DEF HbIInv, HbTypeOK, HbRecords
  <2>4. hbEnd'[e] = s /\ hbEnd' \in [HbEnds -> HbRecords] /\ hbEnd'[o] = hbEnd[o]
    BY Zenon, <2>2, <2>3, <1>2
  <2> QED
    BY Zenon, <2>1, <2>2, <2>4
<1>5. /\ hbNet' \in [HbEnds -> SUBSET (0 .. HbMaxDelay)] /\ hbNet'[e] = hbNet[e]
      /\ ~ hbSilent => hbNet'[o] = hbNet[o] \cup {0}
  BY Zenon, <1>1, <1>3, SendEffect
<1>6. HbTypeOK'
  BY Zenon, <1>3, <1>4, <1>5 DEF HbIInv, HbTypeOK, HbRecords
<1>7. QuietInv'
  BY <1>2, <1>4 DEF HbIInv, QuietInv
<1>8. ASSUME ~ hbSilent PROVE InTime(e)' /\ InTime(o)'
  <2>1. InTime(e) /\ InTime(o)
    BY Zenon, <1>2, <1>8 DEF HbIInv, InTimeInv, InTime
  <2>2. InTime(o)'
    BY Zenon, <1>2, <1>4, <1>5, <1>8, <2>1, MessageInTime
  <2>3. InTime(e)'
    BY Zenon, <1>1, <1>2, <1>4, <1>5, <2>1 DEF InTime, LateWithNothing, HbCount
  <2> QED
    BY Zenon, <2>2, <2>3
<1>9. InTimeInv'
  BY Zenon, <1>2, <1>3, <1>8 DEF InTimeInv, InTime
<1> QED
  BY Zenon, <1>6, <1>7, <1>9 DEF HbIInv

(* KeepaliveRead keeps the inductive invariant.                            *)
LEMMA KeepaliveReadKeeps ==
    ASSUME HbIInv, NEW e \in HbEnds, KeepaliveRead(e)
    PROVE  HbIInv'
<1>1. PICK o : o = 3 - e
  BY Zenon
<1>2. o \in HbEnds /\ o # e /\ 3 - o = e /\ \A f \in HbEnds : f = e \/ f = o
  BY Zenon, <1>1, HbOther
<1>3. PICK x : x = CHOOSE a \in hbNet[e] : \A b \in hbNet[e] : a >= b
  BY Zenon
<1>4. /\ hbEnd' = [hbEnd EXCEPT ![e].read = TRUE, ![e].quiet = 0] /\ UNCHANGED hbSilent
      /\ hbNet' = [hbNet EXCEPT ![e] = hbNet[e] \ {x}]
  BY Zenon, <1>3 DEF KeepaliveRead
<1>5. /\ hbEnd' \in [HbEnds -> HbRecords] /\ hbEnd'[o] = hbEnd[o]
      /\ hbEnd'[e].read /\ (hbEnd'[e].write <=> hbEnd[e].write) /\ (hbEnd'[e].rang <=> hbEnd[e].rang)
      /\ (hbEnd'[e].killed <=> hbEnd[e].killed)
      /\ hbEnd'[e].since = hbEnd[e].since /\ hbEnd'[e].quiet = 0
  <2>1. PICK r, s : r = hbEnd[e] /\ s = [r EXCEPT !.read = TRUE, !.quiet = 0]
    BY Zenon
  <2>2. /\ s \in HbRecords /\ s.read /\ s.write = r.write /\ s.rang = r.rang /\ s.killed = r.killed
        /\ s.since = r.since /\ s.quiet = 0
    BY Zenon, <2>1, HbTypes DEF HbRecords
  <2>3. hbEnd' = [hbEnd EXCEPT ![e] = s] /\ hbEnd \in [HbEnds -> HbRecords]
    BY Zenon, <2>1, <1>4, HbTypes DEF HbIInv, HbTypeOK, HbRecords
  <2>4. hbEnd'[e] = s /\ hbEnd' \in [HbEnds -> HbRecords] /\ hbEnd'[o] = hbEnd[o]
    BY Zenon, <2>2, <2>3, <1>2
  <2> QED
    BY SMTT(30), <2>1, <2>2, <2>4
<1>6. hbNet' \in [HbEnds -> SUBSET (0 .. HbMaxDelay)] /\ hbNet'[o] = hbNet[o]
  <2>1. hbNet[e] \ {x} \in SUBSET (0 .. HbMaxDelay)
    BY Zenon, HbTypes
  <2> QED
    BY Zenon, <2>1, <1>2, <1>4 DEF HbIInv, HbTypeOK
<1>7. HbTypeOK'
  BY Zenon, <1>4, <1>5, <1>6 DEF HbIInv, HbTypeOK, HbRecords
<1>8. QuietInv'
  BY Zenon, <1>2, <1>5 DEF HbIInv, QuietInv
<1>9. ASSUME ~ hbSilent PROVE InTime(e)' /\ InTime(o)'
  <2>1. InTime(e) /\ InTime(o)
    BY Zenon, <1>2, <1>9 DEF HbIInv, InTimeInv, InTime
  <2>2. InTime(e)'
    BY Zenon, <1>5, <2>1 DEF InTime
  <2>3. InTime(o)'
    BY Zenon, <1>2, <1>5, <1>6, <2>1 DEF InTime, LateWithNothing, HbCount
  <2> QED
    BY Zenon, <2>2, <2>3
<1>10. InTimeInv'
  BY Zenon, <1>2, <1>4, <1>9 DEF InTimeInv, InTime
<1> QED
  BY Zenon, <1>7, <1>8, <1>10 DEF HbIInv

(* Rings keeps the inductive invariant.                                    *)
LEMMA RingsKeeps ==
    ASSUME HbIInv, NEW e \in HbEnds, ~ hbEnd[e].rang, ~ hbEnd[e].killed,
           hbEnd[e].since <= HEARTBEAT_TIMEOUT_INTERVALS, Rings(e)
    PROVE  HbIInv'
<1>1. PICK o : o = 3 - e
  BY Zenon
<1>2. o \in HbEnds /\ o # e /\ 3 - o = e /\ \A f \in HbEnds : f = e \/ f = o
  BY Zenon, <1>1, HbOther
<1>3. /\ hbEnd' \in [HbEnds -> HbRecords] /\ hbEnd'[o] = hbEnd[o]
      /\ hbEnd'[e].rang /\ ~ hbEnd'[e].read /\ (hbEnd'[e].killed <=> hbEnd[e].killed)
      /\ (hbEnd'[e].write <=> ~ hbEnd[e].write)
      /\ hbEnd'[e].since = IF hbEnd[e].read THEN 0 ELSE hbEnd[e].since + 1
      /\ hbEnd'[e].quiet = hbEnd[e].quiet + 1
  BY Zenon, <1>1, RingsEffect
<1>4. /\ hbNet' \in [HbEnds -> SUBSET (0 .. HbMaxDelay)] /\ hbNet'[e] = hbNet[e] /\ UNCHANGED hbSilent
      /\ hbEnd[e].write => hbNet'[o] = hbNet[o]
      /\ (~ hbSilent /\ ~ hbEnd[e].write) => hbNet'[o] = hbNet[o] \cup {0}
  <2>1. CASE hbEnd[e].write
    BY Zenon, <2>1 DEF Rings, HbIInv, HbTypeOK
  <2>2. CASE ~ hbEnd[e].write
    BY Zenon, <2>2, <1>1, SendEffect DEF Rings
  <2> QED
    BY Zenon, <2>1, <2>2
<1>5. HbTypeOK'
  BY Zenon, <1>3, <1>4 DEF HbIInv, HbTypeOK, HbRecords
<1>6. QuietInv'
  <2>1. /\ hbEnd'[e].since <= HEARTBEAT_TIMEOUT_INTERVALS + 1
        /\ hbEnd'[e].quiet <= hbEnd'[e].since + 1
    <3>1. CASE hbEnd[e].read
      BY <3>1, <1>3, HbTypes DEF HbIInv, QuietInv
    <3>2. CASE ~ hbEnd[e].read
      <4>1. PICK s, q : s = hbEnd[e].since /\ q = hbEnd[e].quiet
        BY Zenon
      <4>2. s \in Nat /\ q \in Nat /\ s <= HEARTBEAT_TIMEOUT_INTERVALS /\ q <= s + 1
        BY Zenon, <4>1, <3>2, HbTypes DEF HbIInv, QuietInv
      <4>3. hbEnd'[e].since = s + 1 /\ hbEnd'[e].quiet = q + 1
        BY Zenon, <4>1, <3>2, <1>3
      <4> QED
        BY <4>2, <4>3, HbAssumption
    <3> QED
      BY Zenon, <3>1, <3>2
  <2> QED
    BY Zenon, <2>1, <1>2, <1>3 DEF HbIInv, QuietInv
<1>7. ASSUME ~ hbSilent PROVE InTime(e)'
  <2>1. InTime(e)
    BY Zenon, <1>7 DEF HbIInv, InTimeInv, InTime
  <2>2. CASE hbEnd[e].read
    <3>1. hbEnd'[e].since = 0 /\ hbEnd'[e].since <= HbMaxDelay + 2
      BY <2>2, <1>3, HbAssumption
    <3>2. CASE hbNet[e] = {}
      <4>1. LateWithNothing(e, o)'
        BY <3>1, <1>3, <1>2, HbTypes DEF LateWithNothing, HbCount
      <4> QED
        BY Zenon, <3>1, <3>2, <4>1, <1>1, <1>3, <1>4, <2>1 DEF InTime
    <3>3. CASE hbNet[e] # {}
      <4>1. PICK a \in hbNet[e] : TRUE
        BY Zenon, <3>3
      <4>2. a \in Nat
        BY HbTypes
      <4>3. hbEnd'[e].since <= 1 + a + HbCount(hbEnd'[e].rang)
        BY <3>1, <4>2, <1>3 DEF HbCount
      <4> QED
        BY Zenon, <3>1, <4>3, <1>3, <1>4, <2>1 DEF InTime
    <3> QED
      BY Zenon, <3>2, <3>3
  <2>3. CASE ~ hbEnd[e].read
    <3>1. PICK s : s = hbEnd[e].since
      BY Zenon
    <3>2. s \in Nat /\ hbEnd'[e].since = s + 1 /\ HbCount(hbEnd[e].rang) = 0 /\ HbCount(hbEnd'[e].rang) = 1
      BY Zenon, <2>3, <3>1, <1>3, HbTypes DEF HbCount
    <3>3. CASE \E a \in hbNet[e] : hbEnd[e].since <= 1 + a + HbCount(hbEnd[e].rang)
      <4>1. PICK a \in hbNet[e] : s <= 1 + a + 0
        BY Zenon, <3>1, <3>2, <3>3
      <4>2. a \in Nat /\ a <= HbMaxDelay /\ HbMaxDelay \in Nat
        BY HbTypes
      <4>3. s + 1 <= 1 + a + 1 /\ s + 1 <= HbMaxDelay + 2
        BY <3>2, <4>1, <4>2
      <4> QED
        BY Zenon, <3>2, <4>1, <4>3, <1>3, <1>4, <2>1 DEF InTime
    <3>4. CASE hbNet[e] = {} /\ LateWithNothing(e, o)
      <4>1. PICK w : w = HbCount(hbEnd[o].write)
        BY Zenon
      <4>2. CASE hbEnd[o].rang
        <5>1. ~ hbEnd[o].write /\ s <= 0
          BY Zenon, <3>1, <3>2, <3>4, <4>2 DEF LateWithNothing
        <5>2. LateWithNothing(e, o)' /\ s + 1 <= HbMaxDelay + 2
          BY SMTT(30), <3>2, <4>2, <5>1, <1>3, HbAssumption DEF LateWithNothing
        <5> QED
          BY Zenon, <3>2, <3>4, <5>2, <1>1, <1>3, <1>4, <2>1 DEF InTime
      <4>3. CASE ~ hbEnd[o].rang
        <5>1. s <= 0 + (1 - w) /\ w \in {0, 1}
          BY Zenon, <3>1, <3>2, <3>4, <4>1, <4>3 DEF LateWithNothing, HbCount
        <5>2. s + 1 <= 1 + (1 - w) /\ s + 1 <= HbMaxDelay + 2
          BY <3>2, <5>1, HbAssumption
        <5>3. LateWithNothing(e, o)'
          BY Zenon, <3>2, <4>1, <4>3, <5>2, <1>3 DEF LateWithNothing
        <5> QED
          BY SMTT(30), <3>2, <3>4, <5>2, <5>3, <1>1, <1>3, <1>4, <2>1 DEF InTime
      <4> QED
        BY Zenon, <4>2, <4>3
    <3> QED
      BY Zenon, <2>1, <2>3, <3>3, <3>4, <1>1 DEF InTime
  <2> QED
    BY Zenon, <2>2, <2>3
<1>8. ASSUME ~ hbSilent PROVE InTime(o)'
  <2>1. InTime(o)
    BY Zenon, <1>2, <1>8 DEF HbIInv, InTimeInv, InTime
  <2>2. CASE ~ hbEnd[e].write
    BY Zenon, <2>1, <2>2, <1>2, <1>3, <1>4, <1>8, MessageInTime
  <2>3. CASE hbEnd[e].write
    <3>1. CASE hbEnd[o].read \/ \E a \in hbNet[o] : hbEnd[o].since <= 1 + a + HbCount(hbEnd[o].rang)
      BY Zenon, <2>1, <2>3, <3>1, <1>3, <1>4 DEF InTime
    <3>2. CASE hbNet[o] = {} /\ LateWithNothing(o, e)
      <4>1. hbEnd[o].since <= HbCount(hbEnd[o].rang)
        <5>1. hbEnd[o].since <= HbCount(hbEnd[o].rang) + (1 - 1)
          BY Zenon, <2>3, <3>2 DEF LateWithNothing, HbCount
        <5> QED
          BY <5>1, <1>2, HbTypes DEF HbCount
      <4>2. LateWithNothing(o, e)'
        BY SMTT(30), <2>3, <4>1, <1>3 DEF LateWithNothing
      <4> QED
        BY Zenon, <2>1, <2>3, <3>2, <4>2, <1>2, <1>3, <1>4 DEF InTime
    <3> QED
      BY SMTT(30), <2>1, <3>1, <3>2, <1>2 DEF InTime
  <2> QED
    BY Zenon, <2>2, <2>3
<1>9. InTimeInv'
  BY Zenon, <1>2, <1>4, <1>7, <1>8 DEF InTimeInv, InTime
<1> QED
  BY Zenon, <1>5, <1>6, <1>9 DEF HbIInv

(* OnRing keeps the inductive invariant.                                   *)
LEMMA OnRingKeeps ==
    ASSUME HbMaxDelay + 2 <= HEARTBEAT_TIMEOUT_INTERVALS, HbIInv, NEW e \in HbEnds, OnRing(e)
    PROVE  HbIInv'
<1>1. hbEnd[e].since \in Nat /\ HEARTBEAT_TIMEOUT_INTERVALS \in Nat /\ HbMaxDelay \in Nat
  BY Zenon, HbTypes
<1>2. CASE hbEnd[e].since > HEARTBEAT_TIMEOUT_INTERVALS
  <2>1. hbSilent
    BY <1>1, <1>2 DEF HbIInv, InTimeInv
  <2>2. PICK o : o = 3 - e
    BY Zenon
  <2>3. o \in HbEnds /\ o # e /\ \A f \in HbEnds : f = e \/ f = o
    BY Zenon, <2>2, HbOther
  <2>4. hbEnd' = [hbEnd EXCEPT ![e].killed = TRUE] /\ UNCHANGED <<hbNet, hbSilent>>
    BY Zenon, <1>2 DEF OnRing
  <2>5. /\ hbEnd' \in [HbEnds -> HbRecords] /\ hbEnd'[o] = hbEnd[o]
        /\ (hbEnd'[e].read <=> hbEnd[e].read)
        /\ hbEnd'[e].since = hbEnd[e].since /\ hbEnd'[e].quiet = hbEnd[e].quiet
    <3>1. PICK r, s : r = hbEnd[e] /\ s = [r EXCEPT !.killed = TRUE]
      BY Zenon
    <3>2. s \in HbRecords /\ s.read = r.read /\ s.since = r.since /\ s.quiet = r.quiet
      BY Zenon, <3>1, HbTypes DEF HbRecords
    <3>3. hbEnd' = [hbEnd EXCEPT ![e] = s] /\ hbEnd \in [HbEnds -> HbRecords]
      BY Zenon, <3>1, <2>4, HbTypes DEF HbIInv, HbTypeOK, HbRecords
    <3>4. hbEnd'[e] = s /\ hbEnd' \in [HbEnds -> HbRecords] /\ hbEnd'[o] = hbEnd[o]
      BY Zenon, <3>2, <3>3, <2>3
    <3> QED
      BY Zenon, <3>1, <3>2, <3>4
  <2>6. HbTypeOK'
    BY Zenon, <2>4, <2>5 DEF HbIInv, HbTypeOK, HbRecords
  <2>7. QuietInv'
    BY Zenon, <2>3, <2>5 DEF HbIInv, QuietInv
  <2> QED
    BY Zenon, <2>1, <2>4, <2>6, <2>7 DEF HbIInv, InTimeInv
<1>3. CASE ~ (hbEnd[e].since > HEARTBEAT_TIMEOUT_INTERVALS)
  <2>1. Rings(e) /\ ~ hbEnd[e].rang /\ ~ hbEnd[e].killed
    BY Zenon, <1>3 DEF OnRing, Rings
  <2>2. hbEnd[e].since <= HEARTBEAT_TIMEOUT_INTERVALS
    BY <1>1, <1>3
  <2> QED
    BY Zenon, <2>1, <2>2, RingsKeeps
<1> QED
  BY Zenon, <1>2, <1>3

(* NextRound keeps the inductive invariant.                                *)
LEMMA NextRoundKeeps ==
    ASSUME HbIInv, NextRound
    PROVE  HbIInv'
<1>1. /\ hbEnd' = [e \in HbEnds |-> [hbEnd[e] EXCEPT !.rang = FALSE]]
      /\ hbNet' = [e \in HbEnds |-> {a + 1 : a \in {a \in hbNet[e] : a < HbMaxDelay}}]
      /\ UNCHANGED hbSilent
  BY Zenon DEF NextRound
<1>2. ASSUME NEW e \in HbEnds
      PROVE  /\ hbEnd'[e] \in HbRecords /\ ~ hbEnd'[e].rang
             /\ hbEnd'[e].read = hbEnd[e].read /\ hbEnd'[e].write = hbEnd[e].write
             /\ hbEnd'[e].killed = hbEnd[e].killed
             /\ hbEnd'[e].since = hbEnd[e].since /\ hbEnd'[e].quiet = hbEnd[e].quiet
  <2>1. PICK r, s : r = hbEnd[e] /\ s = [r EXCEPT !.rang = FALSE]
    BY Zenon
  <2>2. /\ s \in HbRecords /\ ~ s.rang /\ s.write = r.write /\ s.read = r.read /\ s.killed = r.killed
        /\ s.since = r.since /\ s.quiet = r.quiet
    BY Zenon, <2>1, HbTypes DEF HbRecords
  <2>3. hbEnd'[e] = s
    BY Zenon, <2>1, <1>1
  <2> QED
    BY Zenon, <2>1, <2>2, <2>3
<1>3. ASSUME NEW e \in HbEnds PROVE hbNet'[e] \subseteq 0 .. HbMaxDelay
  BY <1>1, HbTypes
<1>4. HbTypeOK'
  BY Zenon, <1>1, <1>2, <1>3 DEF HbIInv, HbTypeOK, HbRecords
<1>5. QuietInv'
  BY Zenon, <1>2 DEF HbIInv, QuietInv
<1>6. ASSUME ~ hbSilent, NEW e \in HbEnds PROVE InTime(e)'
  <2>1. InTime(e)
    BY Zenon, <1>6 DEF HbIInv, InTimeInv, InTime
  <2>2. PICK o : o = 3 - e
    BY Zenon
  <2>3. o \in HbEnds
    BY Zenon, <2>2, HbOther
  <2>4. hbEnd[e].rang /\ hbEnd[o].rang /\ \A a \in hbNet[e] : a < HbMaxDelay
    BY Zenon, <2>3, <1>6 DEF NextRound, HbIInv, InTimeInv
  <2>5. PICK s : s = hbEnd[e].since
    BY Zenon
  <2>6. s \in Nat /\ hbEnd'[e].since = s /\ HbCount(hbEnd[e].rang) = 1 /\ HbCount(hbEnd'[e].rang) = 0
    BY Zenon, <2>4, <2>5, <1>2, HbTypes DEF HbCount
  <2>7. CASE hbEnd[e].read
    BY Zenon, <2>1, <2>7, <1>2 DEF InTime
  <2>8. CASE \E a \in hbNet[e] : hbEnd[e].since <= 1 + a + HbCount(hbEnd[e].rang)
    <3>1. PICK a \in hbNet[e] : s <= 1 + a + 1
      BY Zenon, <2>5, <2>6, <2>8
    <3>2. a \in Nat /\ a + 1 \in hbNet'[e]
      BY <2>4, <1>1, HbTypes
    <3>3. s <= 1 + (a + 1) + 0
      BY <2>6, <3>1, <3>2
    <3>4. \E b \in hbNet'[e] : hbEnd'[e].since <= 1 + b + HbCount(hbEnd'[e].rang)
      BY Zenon, <2>6, <3>2, <3>3
    <3> QED
      BY Zenon, <2>1, <3>4, <1>2 DEF InTime
  <2>9. CASE hbNet[e] = {} /\ LateWithNothing(e, o)
    <3>1. hbNet'[e] = {}
      BY Zenon, <2>9, <1>1
    <3>2. CASE hbEnd[o].write
      <4>1. s <= 0 + (1 - 1)
        BY <2>4, <2>5, <2>6, <2>9, <3>2 DEF LateWithNothing
      <4>2. LateWithNothing(e, o)'
        BY Zenon, <2>3, <2>6, <3>2, <4>1, <1>2 DEF LateWithNothing, HbCount
      <4> QED
        BY Zenon, <2>1, <2>2, <3>1, <4>2, <1>2 DEF InTime
    <3>3. CASE ~ hbEnd[o].write
      <4>1. s <= 0 + (1 - 0)
        <5>1. s <= 1
          BY Zenon, <2>4, <2>5, <2>6, <2>9, <3>3 DEF LateWithNothing
        <5> QED
          BY <2>6, <5>1
      <4>2. LateWithNothing(e, o)'
        BY Zenon, <2>3, <2>6, <3>3, <4>1, <1>2 DEF LateWithNothing, HbCount
      <4> QED
        BY Zenon, <2>1, <2>2, <3>1, <4>2, <1>2 DEF InTime
    <3> QED
      BY Zenon, <3>2, <3>3
  <2> QED
    BY Zenon, <2>1, <2>2, <2>7, <2>8, <2>9 DEF InTime
<1>7. InTimeInv'
  BY Zenon, <1>1, <1>6 DEF InTimeInv, InTime
<1> QED
  BY Zenon, <1>4, <1>5, <1>7 DEF HbIInv

(* Every step keeps the inductive invariant.                               *)
LEMMA StepHbIInv ==
    ASSUME HbMaxDelay + 2 <= HEARTBEAT_TIMEOUT_INTERVALS, HbIInv, [HbNext]_hbVars
    PROVE  HbIInv'
<1>1. CASE UNCHANGED hbVars
  BY Zenon, <1>1 DEF hbVars, HbIInv, HbTypeOK, QuietInv, InTimeInv, LateWithNothing
<1>2. ASSUME NEW e \in HbEnds, AppWrites(e) \/ KeepaliveRead(e) \/ OnRing(e) PROVE HbIInv'
  BY Zenon, <1>2, AppWritesKeeps, KeepaliveReadKeeps, OnRingKeeps
<1>3. CASE NextRound
  BY Zenon, <1>3, NextRoundKeeps
<1>4. CASE FallsSilent
  <2>1. hbSilent' = TRUE /\ hbNet' = [e \in HbEnds |-> {}] /\ UNCHANGED hbEnd
    BY Zenon, <1>4 DEF FallsSilent
  <2> QED
    BY Zenon, <2>1 DEF HbIInv, HbTypeOK, QuietInv, InTimeInv
<1> QED
  BY Zenon, <1>1, <1>2, <1>3, <1>4 DEF HbNext

(* The inductive invariant holds at the start.                             *)
LEMMA InitHbIInv == HbInit => HbIInv
<1> SUFFICES ASSUME HbInit PROVE HbIInv
  BY Zenon
<1>1. HbTypeOK
  BY Zenon DEF HbInit, HbTypeOK
<1>2. \A e \in HbEnds :
        /\ hbEnd[e].since = 0 /\ hbEnd[e].quiet = 0 /\ ~ hbEnd[e].read /\ ~ hbEnd[e].rang
        /\ ~ hbEnd[e].write /\ ~ hbEnd[e].killed /\ hbNet[e] = {}
  BY Zenon DEF HbInit
<1>3. QuietInv
  BY <1>2, HbAssumption DEF QuietInv
<1>4. InTimeInv
  BY <1>2, HbOther, HbAssumption DEF InTimeInv, LateWithNothing, HbCount
<1> QED
  BY Zenon, <1>1, <1>3, <1>4 DEF HbIInv

(* heartbeat_manager_t kills no connection over which messages come at     *)
(* most HbMaxDelay intervals late, however the two timers and the traffic  *)
(* interleave, if the timeout is two intervals longer than that; and it    *)
(* kills every connection that has fallen silent.                          *)
THEOREM HeartbeatIsRight ==
    ASSUME HbMaxDelay + 2 <= HEARTBEAT_TIMEOUT_INTERVALS
    PROVE  HbSpec => []HbInv
<1>1. HbIInv => HbInv
  <2> SUFFICES ASSUME HbIInv PROVE HbInv
    BY Zenon
  <2>1. LiveConnectionsStay
    BY Zenon DEF HbIInv, InTimeInv, LiveConnectionsStay
  <2>2. SilenceIsNoticed
    <3> SUFFICES ASSUME NEW e \in HbEnds
                 PROVE  hbEnd[e].quiet < HEARTBEAT_TIMEOUT_INTERVALS + 3
      BY Zenon DEF SilenceIsNoticed
    <3>1. PICK s, q : s = hbEnd[e].since /\ q = hbEnd[e].quiet
      BY Zenon
    <3>2. s \in Nat /\ q \in Nat /\ s <= HEARTBEAT_TIMEOUT_INTERVALS + 1
      BY Zenon, <3>1, HbTypes DEF HbIInv, QuietInv
    <3>3. q <= s + 1
      BY <3>1, <3>2 DEF HbIInv, QuietInv
    <3> QED
      BY <3>1, <3>2, <3>3, HbAssumption
  <2> QED
    BY Zenon, <2>1, <2>2 DEF HbInv
<1>2. HbIInv /\ [HbNext]_hbVars => HbIInv'
  BY Zenon, StepHbIInv
<1> QED
  BY InitHbIInv, <1>1, <1>2, PTL DEF HbSpec

--------------------------------------------------------------------------------
(* Counting the reads of a timestamp that entered, that are over, or that  *)
(* run: all these sets are finite, and no larger than Reads.               *)
LEMMA ReadSetsFinite ==
    ASSUME NEW S \in SUBSET Reads
    PROVE  IsFiniteSet(S) /\ Cardinality(S) \in Nat /\ Cardinality(S) <= MaxInt
  BY OpsAssumption, IntAssumption, FS_Subset, FS_CardinalityType

(* Marking one more read changes a count of reads by one, as               *)
(* advance_by_read() does.                                                 *)
LEMMA CountAfterAdd ==
    ASSUME NEW S \in SUBSET Reads, NEW r \in Reads, r \notin S
    PROVE  Cardinality(S \cup {r}) = Cardinality(S) + 1
  BY Zenon, ReadSetsFinite, FS_AddElement

(* ... and removing one changes it back. *)
LEMMA CountAfterRemove ==
    ASSUME NEW S \in SUBSET Reads, NEW r \in S
    PROVE  Cardinality(S \ {r}) = Cardinality(S) - 1
  BY Zenon, ReadSetsFinite, FS_RemoveElement

(* The initial state of source and sink satisfies the invariant. *)
LEMMA InitInv == Init => Inv
<1> SUFFICES ASSUME Init PROVE Inv
  BY Zenon
<1> USE DEF Init, StateZero
<1>1. TypeOK
  BY DEF TypeOK, State, Phases, PumpStates, Ops
<1>2. /\ \A o \in Ops : ~HasEntered(o) /\ ~Over(o) /\ phase[o] # "running"
      /\ \A t \in Nat : ReadsAt[t] = {} /\ OverAt[t] = {}
      /\ RunningReads = {}
  BY Zenon DEF HasEntered, Over, ReadsAt, OverAt, RunningReads, Ops
<1>3. Cardinality({}) = 0
  BY Zenon, FS_EmptySet
<1>4. TokensInv
  BY Zenon, <1>2, <1>3 DEF TokensInv, Ops
<1>5. SinkInv
  <2>1. OverAt[0] = {}
    BY Zenon, <1>2
  <2>2. /\ finished_state.last_timestamp = 0 /\ popped_state.last_timestamp = 0
        /\ source.last_timestamp = 0
        /\ finished_state.num_reads = 0 /\ popped_state.num_reads = 0
    BY Zenon
  <2>3. \A o \in Reads \cup Writes : ~HasEntered(o) /\ ~Over(o) /\ phase[o] # "running"
    BY Zenon, <1>2 DEF Ops
  <2>4. Cardinality(OverAt[0]) = 0 /\ Cardinality(RunningReads) = 0
    BY Zenon, <1>2, <1>3, <2>1
  <2> HIDE DEF Init, StateZero
  <2> QED
    BY <2>2, <2>3, <2>4 DEF SinkInv
<1> QED
  BY Zenon, <1>1, <1>4, <1>5 DEF Inv

(* Every step keeps the variables in their types: the counters stay natural *)
(* numbers, and narrowing the read count of a token yields an integer.      *)
LEMMA TypeStep == TypeOK /\ [Next]_vars => TypeOK'
<1> SUFFICES ASSUME TypeOK, [Next]_vars PROVE TypeOK'
  BY Zenon
<1> USE DEF TypeOK, State, Phases, PumpStates, AdvanceByRead, AdvanceByWrite
<1>1. ASSUME NEW r \in Reads, EnterRead(r) PROVE TypeOK'
  BY <1>1 DEF EnterRead, sink_vars, Ops, EnteredOps
<1>2. ASSUME NEW w \in Writes, EnterWrite(w) PROVE TypeOK'
  BY <1>2, IntAssumption DEF EnterWrite, sink_vars, Ops, EnteredOps, ToInt
<1>3. ASSUME NEW o \in Ops, Begin(o) PROVE TypeOK'
  BY Zenon, <1>3 DEF Begin, CallPump, source_vars
<1>4. ASSUME NEW o \in Ops, End(o) PROVE TypeOK'
  BY <1>4 DEF End, CallPump, source_vars, FinishAReader, FinishAWriter, Ops
<1>5. ASSUME NEW o \in Ops, EndEarly(o) PROVE TypeOK'
  BY Zenon, <1>5 DEF EndEarly, source_vars, sink_vars
<1>6. ASSUME NEW r \in Reads, PumpRead(r) PROVE TypeOK'
  BY <1>6 DEF PumpRead, ReachHead, source_vars, FinishAReader, Ops
<1>7. ASSUME NEW w \in Writes, PumpWrite(w) PROVE TypeOK'
  BY <1>7, OpsAssumption DEF PumpWrite, ReachHead, source_vars, FinishAWriter, Ops
<1>8. CASE PumpNoWrite
  BY Zenon, <1>8 DEF PumpNoWrite, source_vars
<1>9. CASE UNCHANGED vars
  BY Zenon, <1>9 DEF vars
<1> QED
  BY Zenon, <1>1, <1>2, <1>3, <1>4, <1>5, <1>6, <1>7, <1>8, <1>9 DEF Next, PumpStep, Terminating

(* The steps of the sink: they leave the tokens and the set of entered     *)
(* operations alone.                                                       *)
SinkStep == \/ \E o \in Ops : Begin(o) \/ End(o) \/ EndEarly(o)
            \/ PumpStep

(* What a sink step does to the tokens and to who has entered: nothing. *)
LEMMA SinkStepKeepsTokens ==
    ASSUME TypeOK, SinkStep
    PROVE  /\ UNCHANGED source_vars
           /\ \A o \in Ops : HasEntered(o)' <=> HasEntered(o)
           /\ ReadsAt' = ReadsAt
<1>1. UNCHANGED source_vars
  BY Zenon DEF SinkStep, Begin, End, EndEarly, PumpStep, PumpRead, PumpWrite, PumpNoWrite
<1>2. \A o \in Ops : HasEntered(o)' <=> HasEntered(o)
  BY Zenon DEF SinkStep, Begin, End, EndEarly, PumpStep, PumpRead, PumpWrite, PumpNoWrite,
         ReachHead, HasEntered, TypeOK, Ops
<1>3. ReadsAt' = ReadsAt
  BY Zenon, <1>1, <1>2 DEF ReadsAt, source_vars, Ops
<1> QED
  BY Zenon, <1>1, <1>2, <1>3

(* The tokens keep numbering the writes and counting the reads. *)
LEMMA TokensStep == Inv /\ [Next]_vars => TokensInv'
<1> SUFFICES ASSUME Inv, [Next]_vars PROVE TokensInv'
  BY Zenon
<1> USE DEF Inv
<1>1. ASSUME NEW r \in Reads, EnterRead(r) PROVE TokensInv'
  <2> DEFINE t == source.last_timestamp
  <2>1. /\ \A o \in Ops : HasEntered(o)' <=> HasEntered(o) \/ o = r
        /\ ~HasEntered(r) /\ r \in Ops /\ r \notin Writes
    BY Zenon, <1>1, OpsAssumption DEF EnterRead, HasEntered, TypeOK, Ops
  <2>2. /\ t \in Nat
        /\ source' = [source EXCEPT !.num_reads = source.num_reads + 1]
        /\ source'.last_timestamp = t /\ source'.num_reads = source.num_reads + 1
        /\ timestamp' = [timestamp EXCEPT ![r] = t]
        /\ predecessors' = [predecessors EXCEPT ![r] = EnteredOps]
        /\ num_preceding_reads' = num_preceding_reads
    BY Zenon, <1>1 DEF EnterRead, AdvanceByRead, TypeOK, State
  <2>3. /\ ReadsAt'[t] = ReadsAt[t] \cup {r}
        /\ r \notin ReadsAt[t]
        /\ ReadsAt[t] \in SUBSET Reads
        /\ \A u \in Nat : u # t => ReadsAt'[u] = ReadsAt[u]
    BY <2>1, <2>2 DEF ReadsAt, TypeOK, Ops
  <2>4. Cardinality(ReadsAt'[t]) = Cardinality(ReadsAt[t]) + 1
    BY Zenon, <2>3, CountAfterAdd
  <2>5. \A o \in Ops : HasEntered(o)' => timestamp'[o] <= source'.last_timestamp
    BY <2>1, <2>2 DEF TokensInv, TypeOK
  <2>6. source'.num_reads = Cardinality(ReadsAt'[source'.last_timestamp])
    BY Zenon, <2>2, <2>4 DEF TokensInv
  <2>7. ASSUME NEW w \in Writes, HasEntered(w)'
        PROVE  /\ timestamp'[w] > 0
               /\ num_preceding_reads'[w] = Cardinality(ReadsAt'[timestamp'[w] - 1])
    <3>1. HasEntered(w) /\ timestamp'[w] = timestamp[w] /\ w \in Ops
      BY Zenon, <2>1, <2>2, <2>7 DEF Ops, TypeOK
    <3>2. timestamp[w] \in Nat /\ timestamp[w] <= t
      BY Zenon, <3>1 DEF TokensInv, TypeOK
    <3>3. timestamp[w] > 0 /\ timestamp[w] - 1 \in Nat /\ timestamp[w] - 1 # t
      BY <3>1, <3>2, <2>2 DEF TokensInv
    <3> QED
      BY <3>1, <3>3, <2>2, <2>3 DEF TokensInv
  <2>8. \A w, v \in Writes :
           HasEntered(w)' /\ HasEntered(v)' /\ timestamp'[w] = timestamp'[v] => w = v
    BY Zenon, <2>1, <2>2 DEF TokensInv, TypeOK, Ops
  <2>9. \A o \in Ops : ~HasEntered(o)' => predecessors'[o] = {}
    BY Zenon, <2>1, <2>2 DEF TokensInv, TypeOK
  <2>10. ASSUME NEW o \in Ops, NEW p \in predecessors'[o]
         PROVE  /\ HasEntered(p)'
                /\ timestamp'[p] <= timestamp'[o]
                /\ o \in Writes => timestamp'[p] < timestamp'[o]
    <3>1. CASE o = r
      <4>1. p \in EnteredOps
        BY Zenon, <3>1, <2>2, <2>10 DEF TypeOK
      <4> QED
        BY Zenon, <4>1, <3>1, <2>1, <2>2 DEF EnteredOps, TokensInv, TypeOK
    <3>2. CASE o # r
      <4>1. p \in predecessors[o] /\ p \in Ops
        BY Zenon, <3>2, <2>2, <2>10 DEF TypeOK
      <4>2. HasEntered(p) /\ p # r
        BY <4>1, <2>1 DEF TokensInv
      <4> QED
        BY <4>1, <4>2, <3>2, <2>1, <2>2 DEF TokensInv, TypeOK
    <3> QED
      BY Zenon, <3>1, <3>2
  <2> QED
    BY Zenon, <2>5, <2>6, <2>7, <2>8, <2>9, <2>10 DEF TokensInv
<1>2. ASSUME NEW w \in Writes, EnterWrite(w) PROVE TokensInv'
  <2> DEFINE t == source.last_timestamp
  <2>1. /\ \A o \in Ops : HasEntered(o)' <=> HasEntered(o) \/ o = w
        /\ ~HasEntered(w) /\ w \in Ops /\ w \notin Reads
    BY Zenon, <1>2, OpsAssumption DEF EnterWrite, HasEntered, TypeOK, Ops
  <2>2. /\ t \in Nat /\ source.num_reads \in Nat
        /\ source'.last_timestamp = t + 1 /\ source'.num_reads = 0
        /\ timestamp' = [timestamp EXCEPT ![w] = t + 1]
        /\ predecessors' = [predecessors EXCEPT ![w] = EnteredOps]
        /\ num_preceding_reads' = [num_preceding_reads EXCEPT ![w] = ToInt(source.num_reads)]
    BY Zenon, <1>2 DEF EnterWrite, AdvanceByWrite, TypeOK, State
  <2>3. /\ ReadsAt' = ReadsAt
        /\ \A u \in Nat : ReadsAt[u] \in SUBSET Reads
    BY Zenon, <2>1, <2>2 DEF ReadsAt, TypeOK, Ops
  <2>4. ToInt(source.num_reads) = Cardinality(ReadsAt[t])
    BY <2>2, <2>3, ReadSetsFinite DEF ToInt, TokensInv
  <2>5. ReadsAt[t + 1] = {}
    BY <2>2 DEF ReadsAt, TokensInv, TypeOK, Ops
  <2>6. source'.num_reads = Cardinality(ReadsAt'[source'.last_timestamp])
    BY Zenon, <2>2, <2>3, <2>5, FS_EmptySet
  <2>7. \A o \in Ops : HasEntered(o)' => timestamp'[o] <= source'.last_timestamp
    BY <2>1, <2>2 DEF TokensInv, TypeOK
  <2>8. ASSUME NEW v \in Writes, HasEntered(v)'
        PROVE  /\ timestamp'[v] > 0
               /\ num_preceding_reads'[v] = Cardinality(ReadsAt'[timestamp'[v] - 1])
    <3>1. CASE v = w
      <4>1. timestamp'[v] = t + 1 /\ timestamp'[v] - 1 = t
        BY <3>1, <2>1, <2>2 DEF TypeOK
      <4>2. num_preceding_reads'[v] = ToInt(source.num_reads)
        BY Zenon, <3>1, <2>2 DEF TypeOK
      <4> QED
        BY <4>1, <4>2, <2>2, <2>3, <2>4
    <3>2. CASE v # w
      <4>1. /\ HasEntered(v) /\ v \in Ops /\ timestamp'[v] = timestamp[v]
            /\ num_preceding_reads'[v] = num_preceding_reads[v]
        BY Zenon, <3>2, <2>1, <2>2, <2>8 DEF Ops, TypeOK
      <4> QED
        BY Zenon, <4>1, <2>3 DEF TokensInv
    <3> QED
      BY Zenon, <3>1, <3>2
  <2>9. \A v, x \in Writes :
           HasEntered(v)' /\ HasEntered(x)' /\ timestamp'[v] = timestamp'[x] => v = x
    BY <2>1, <2>2 DEF TokensInv, TypeOK, Ops
  <2>10. \A o \in Ops : ~HasEntered(o)' => predecessors'[o] = {}
    BY Zenon, <2>1, <2>2 DEF TokensInv, TypeOK
  <2>11. ASSUME NEW o \in Ops, NEW p \in predecessors'[o]
         PROVE  /\ HasEntered(p)'
                /\ timestamp'[p] <= timestamp'[o]
                /\ o \in Writes => timestamp'[p] < timestamp'[o]
    <3>1. CASE o = w
      <4>1. p \in EnteredOps
        BY Zenon, <3>1, <2>2, <2>11 DEF TypeOK
      <4> QED
        BY <4>1, <3>1, <2>1, <2>2 DEF EnteredOps, TokensInv, TypeOK
    <3>2. CASE o # w
      <4>1. p \in predecessors[o] /\ p \in Ops
        BY Zenon, <3>2, <2>2, <2>11 DEF TypeOK
      <4>2. HasEntered(p) /\ p # w
        BY <4>1, <2>1 DEF TokensInv
      <4> QED
        BY Zenon, <4>1, <4>2, <3>2, <2>1, <2>2 DEF TokensInv, TypeOK
    <3> QED
      BY Zenon, <3>1, <3>2
  <2> QED
    BY Zenon, <2>6, <2>7, <2>8, <2>9, <2>10, <2>11 DEF TokensInv
<1>3. CASE SinkStep
  <2>1. /\ UNCHANGED <<source, timestamp, num_preceding_reads, predecessors>>
        /\ \A o \in Ops : HasEntered(o)' <=> HasEntered(o)
        /\ ReadsAt' = ReadsAt
    BY Zenon, <1>3, SinkStepKeepsTokens DEF source_vars
  <2>2. \A o \in Ops : \A p \in predecessors[o] : p \in Ops
    BY Zenon DEF TypeOK
  <2> QED
    BY Zenon, <2>1, <2>2 DEF TokensInv, Ops
<1>4. CASE UNCHANGED vars
  BY <1>4 DEF vars, TokensInv, HasEntered, ReadsAt
<1> QED
  BY Zenon, <1>1, <1>2, <1>3, <1>4 DEF Next, SinkStep, Terminating

(* An operation that enters takes no place at the sink. *)
LEMMA SinkInvEnter ==
    ASSUME Inv, NEW o \in Ops, (EnterRead(o) /\ o \in Reads) \/ (EnterWrite(o) /\ o \in Writes)
    PROVE  SinkInv'
<1> USE DEF Inv
<1>1. /\ popped_state' = popped_state /\ finished_state' = finished_state
      /\ source'.last_timestamp \in Nat
      /\ source'.last_timestamp >= source.last_timestamp
      /\ o \in Reads => timestamp' = [timestamp EXCEPT ![o] = source.last_timestamp]
      /\ o \in Writes => timestamp' = [timestamp EXCEPT ![o] = source.last_timestamp + 1]
      /\ phase[o] = "new" /\ phase' = [phase EXCEPT ![o] = "travelling"]
  BY OpsAssumption DEF EnterRead, EnterWrite, sink_vars, AdvanceByRead, AdvanceByWrite, TypeOK, State
<1>2. OverAt' = OverAt
  BY <1>1 DEF OverAt, Over, TypeOK, Ops
<1>3. RunningReads' = RunningReads
  BY Zenon, <1>1 DEF RunningReads, TypeOK, Ops
<1> DEFINE f == finished_state.last_timestamp
           q == popped_state.last_timestamp
<1>4. f \in Nat /\ q \in Nat /\ f <= q /\ q <= source.last_timestamp /\ source.last_timestamp \in Nat
  BY DEF TypeOK, State, SinkInv
<1>5. ASSUME q = f + 1 PROVE ReadsAt'[f] = ReadsAt[f]
  <2>1. \A r \in Reads : HasEntered(r)' /\ timestamp'[r] = f <=> HasEntered(r) /\ timestamp[r] = f
    BY <1>1, <1>4, <1>5, OpsAssumption DEF HasEntered, TypeOK, Ops
  <2> QED
    BY Zenon, <2>1, <1>4 DEF ReadsAt
<1>6. \A w \in Writes : Over(w)' <=> HasEntered(w)' /\ timestamp'[w] <= f
  BY SMTT(30), <1>1, <1>4, OpsAssumption DEF SinkInv, TypeOK, HasEntered, Over, Ops
<1>7. \A w \in Writes :
         (phase[w] = "running")' <=> HasEntered(w)' /\ f < timestamp'[w] /\ timestamp'[w] <= q
  BY <1>1, <1>4, OpsAssumption DEF SinkInv, TypeOK, HasEntered, Ops
<1>8. \A r \in Reads : HasEntered(r)' /\ timestamp'[r] < f => Over(r)'
  BY <1>1, <1>4, OpsAssumption DEF SinkInv, TypeOK, HasEntered, Over, Ops
<1>9. \A r \in Reads : Over(r)' => timestamp'[r] <= f
  BY SMTT(30), <1>1, <1>4, OpsAssumption DEF SinkInv, TypeOK, HasEntered, Over, Ops
<1>10. \A r \in Reads : phase'[r] = "running" => timestamp'[r] = f /\ q = f
  BY <1>1, <1>4, OpsAssumption DEF SinkInv, TypeOK, Ops
<1>11. (\E w \in Writes : phase[w] = "running") => \E w \in Writes : phase'[w] = "running"
  BY Zenon, <1>1 DEF TypeOK, Ops
<1>12. q <= source'.last_timestamp
  BY SMTT(30), <1>1, <1>4
<1> QED
  BY Zenon, <1>1, <1>2, <1>3, <1>5, <1>6, <1>7, <1>8, <1>9, <1>10, <1>11, <1>12 DEF SinkInv

(* A read becomes over: End() of a running read, or a dummy read that      *)
(* reaches the head (which popped_state counts in the same step).          *)
LEMMA SinkInvReadOver ==
    ASSUME Inv, NEW r \in Reads,
           phase[r] \in {"running", "dummy"},
           timestamp[r] = finished_state.last_timestamp,
           UNCHANGED source_vars,
           finished_state' = AdvanceByRead(finished_state),
           popped_state' = IF phase[r] = "running" THEN popped_state ELSE AdvanceByRead(popped_state),
           NEW x \in {"done", "forfeited"}, phase' = [phase EXCEPT ![r] = x]
    PROVE  SinkInv'
<1> USE DEF Inv
<1> DEFINE f == finished_state.last_timestamp
           q == popped_state.last_timestamp
<1>1. /\ f \in Nat /\ q \in Nat /\ popped_state.num_reads \in Nat /\ finished_state.num_reads \in Nat
      /\ r \in Ops /\ r \notin Writes
  BY Zenon, OpsAssumption DEF TypeOK, State, Ops
<1>2. /\ finished_state'.last_timestamp = f
      /\ finished_state'.num_reads = finished_state.num_reads + 1
      /\ popped_state'.last_timestamp = q
      /\ popped_state'.num_reads = IF phase[r] = "running" THEN popped_state.num_reads
                                                          ELSE popped_state.num_reads + 1
  BY Zenon DEF AdvanceByRead, TypeOK, State
<1>3. /\ source' = source /\ timestamp' = timestamp
      /\ \A o \in Ops : phase'[o] = IF o = r THEN x ELSE phase[o]
  BY Zenon DEF source_vars, TypeOK
<1>4. /\ OverAt'[f] = OverAt[f] \cup {r} /\ r \notin OverAt[f]
      /\ OverAt[f] \in SUBSET Reads
  BY <1>1, <1>3 DEF OverAt, Over, TypeOK, Ops
<1>5. Cardinality(OverAt'[f]) = Cardinality(OverAt[f]) + 1
  BY Zenon, <1>4, CountAfterAdd
<1>6. /\ RunningReads \in SUBSET Reads
      /\ RunningReads' = RunningReads \ {r}
      /\ phase[r] = "running" <=> r \in RunningReads
  BY <1>1, <1>3 DEF RunningReads, Ops
<1>7. /\ phase[r] = "running" => Cardinality(RunningReads') = Cardinality(RunningReads) - 1
      /\ phase[r] # "running" => RunningReads' = RunningReads
  BY Zenon, <1>6, CountAfterRemove
<1>8. /\ Cardinality(RunningReads) \in Nat /\ Cardinality(OverAt[f]) \in Nat
  BY Zenon, <1>4, <1>6, ReadSetsFinite
<1>9. q = f
  <2> SUFFICES ASSUME q # f PROVE FALSE
    BY Zenon
  <2>1. ReadsAt[f] = OverAt[f]
    BY Zenon DEF SinkInv
  <2>2. r \in ReadsAt[f]
    BY Zenon, <1>1 DEF ReadsAt, HasEntered
  <2> QED
    BY Zenon, <1>4, <2>1, <2>2
<1>10. \A o \in Ops : HasEntered(o)' <=> HasEntered(o)
  BY Zenon, <1>3 DEF HasEntered
<1>11. \A w \in Writes : phase'[w] = phase[w] /\ (Over(w)' <=> Over(w))
  BY Zenon, <1>1, <1>3 DEF Over, Ops
<1>12. \A p \in Reads : (HasEntered(p)' /\ timestamp'[p] < f => Over(p)')
                       /\ (Over(p)' => timestamp'[p] <= f)
  BY <1>1, <1>3, <1>10 DEF SinkInv, Over, Ops, TypeOK
<1>13. \A p \in Reads : phase'[p] = "running" => timestamp'[p] = f /\ q = f
  BY <1>3 DEF SinkInv, Ops
<1>14. finished_state'.num_reads = Cardinality(OverAt'[f])
  BY Zenon, <1>2, <1>5 DEF SinkInv
<1>15. popped_state'.num_reads = finished_state'.num_reads + Cardinality(RunningReads')
  BY SMTT(30), <1>1, <1>2, <1>7, <1>8, <1>9 DEF SinkInv
<1> QED
  BY <1>2, <1>3, <1>9, <1>10, <1>11, <1>12, <1>13, <1>14, <1>15 DEF SinkInv, Ops

(* A write that may go finds no write running and every earlier read over: *)
(* the read count of its token is the number of reads that entered between *)
(* it and the write before it.                                             *)
LEMMA WriteGoesAlone ==
    ASSUME Inv, NEW w \in Writes, WriteMayGo(w)
    PROVE  /\ popped_state.last_timestamp = finished_state.last_timestamp
           /\ ReadsAt[finished_state.last_timestamp] = OverAt[finished_state.last_timestamp]
           /\ RunningReads = {}
           /\ popped_state.num_reads = finished_state.num_reads
<1> USE DEF Inv
<1> DEFINE f == finished_state.last_timestamp
           q == popped_state.last_timestamp
<1>1. /\ f \in Nat /\ q \in Nat /\ finished_state.num_reads \in Nat /\ popped_state.num_reads \in Nat
      /\ w \in Ops /\ HasEntered(w) /\ phase[w] # "running"
      /\ timestamp[w] = f + 1 /\ num_preceding_reads[w] = finished_state.num_reads
  BY Zenon DEF TypeOK, State, Ops, WriteMayGo, AtHead, InQueue, HasEntered
<1>2. q = f
  <2> SUFFICES ASSUME q = f + 1 PROVE FALSE
    BY SMTT(30) DEF SinkInv
  <2> QED
    BY <1>1 DEF SinkInv
<1>3. Cardinality(ReadsAt[f]) = Cardinality(OverAt[f])
  BY <1>1 DEF TokensInv, SinkInv
<1>4. ReadsAt[f] \in SUBSET Reads /\ OverAt[f] \in SUBSET ReadsAt[f]
  BY Zenon, <1>1 DEF ReadsAt, OverAt, Over, HasEntered
<1>5. ReadsAt[f] = OverAt[f]
  BY Zenon, <1>3, <1>4, ReadSetsFinite, FS_Subset
<1>6. RunningReads = {}
  <2> SUFFICES ASSUME NEW r \in Reads, phase[r] = "running" PROVE FALSE
    BY SMTT(30) DEF RunningReads
  <2>1. r \in ReadsAt[f]
    BY SMTT(30), <1>1 DEF ReadsAt, SinkInv, HasEntered
  <2> QED
    BY Zenon, <2>1, <1>1, <1>5 DEF OverAt, Over
<1> QED
  BY <1>1, <1>2, <1>5, <1>6, FS_EmptySet DEF SinkInv

(* A write becomes over: End() of a running write, or a dummy write at the *)
(* head of the queue.                                                      *)
LEMMA SinkInvWriteOver ==
    ASSUME Inv, NEW w \in Writes,
           phase[w] \in {"running", "dummy"},
           timestamp[w] = finished_state.last_timestamp + 1,
           ReadsAt[finished_state.last_timestamp] = OverAt[finished_state.last_timestamp],
           RunningReads = {},
           UNCHANGED source_vars,
           finished_state' = AdvanceByWrite(timestamp[w]),
           popped_state' = AdvanceByWrite(timestamp[w]),
           NEW x \in {"done", "forfeited"}, phase' = [phase EXCEPT ![w] = x]
    PROVE  SinkInv'
<1> USE DEF Inv
<1> DEFINE f == finished_state.last_timestamp
           g == timestamp[w]
<1>1. /\ f \in Nat /\ g \in Nat /\ g = f + 1
      /\ w \in Ops /\ w \notin Reads /\ HasEntered(w)
  BY Zenon, OpsAssumption DEF TypeOK, State, Ops, HasEntered
<1>2. /\ finished_state'.last_timestamp = g /\ finished_state'.num_reads = 0
      /\ popped_state'.last_timestamp = g /\ popped_state'.num_reads = 0
  BY Zenon DEF AdvanceByWrite
<1>3. /\ source' = source /\ timestamp' = timestamp
      /\ \A o \in Ops : phase'[o] = IF o = w THEN x ELSE phase[o]
  BY Zenon DEF source_vars, TypeOK
<1>4. g <= source.last_timestamp
  BY Zenon, <1>1 DEF TokensInv
<1>5. \A o \in Ops : HasEntered(o)' <=> HasEntered(o)
  BY Zenon, <1>1, <1>3 DEF HasEntered
<1>6. \A v \in Writes : Over(v)' <=> HasEntered(v)' /\ timestamp'[v] <= g
  <2> SUFFICES ASSUME NEW v \in Writes PROVE Over(v)' <=> HasEntered(v)' /\ timestamp'[v] <= g
    BY Zenon
  <2>1. CASE v = w
    BY SMTT(30), <2>1, <1>1, <1>3, <1>5 DEF Over
  <2>2. CASE v # w
    <3>1. v \in Ops /\ (Over(v)' <=> Over(v)) /\ timestamp[v] \in Nat
      BY Zenon, <2>2, <1>3 DEF Over, Ops, TypeOK
    <3>2. HasEntered(v) => timestamp[v] # g
      BY Zenon, <2>2, <1>1 DEF TokensInv
    <3> QED
      BY <3>1, <3>2, <1>1, <1>3, <1>5 DEF SinkInv
  <2> QED
    BY Zenon, <2>1, <2>2
<1>7. \A v \in Writes :
         phase'[v] = "running" <=> HasEntered(v)' /\ g < timestamp'[v] /\ timestamp'[v] <= g
  <2> SUFFICES ASSUME NEW v \in Writes PROVE phase'[v] # "running"
    BY <1>1, <1>3 DEF TypeOK, Ops
  <2>1. CASE v = w
    BY Zenon, <2>1, <1>1, <1>3
  <2>2. CASE v # w
    <3>1. v \in Ops /\ phase'[v] = phase[v] /\ timestamp[v] \in Nat
      BY Zenon, <2>2, <1>3 DEF Ops, TypeOK
    <3>2. phase[v] = "running" => timestamp[v] = g /\ HasEntered(v)
      BY <3>1, <1>1 DEF SinkInv, TypeOK, State
    <3> QED
      BY Zenon, <2>2, <3>1, <3>2, <1>1 DEF TokensInv
  <2> QED
    BY Zenon, <2>1, <2>2
<1>8. \A r \in Reads : /\ phase'[r] = phase[r] /\ r \in Ops /\ timestamp[r] \in Nat
                       /\ Over(r)' <=> Over(r)
  BY Zenon, <1>1, <1>3 DEF Ops, TypeOK, Over
<1>9. \A r \in Reads : HasEntered(r)' /\ timestamp'[r] < g => Over(r)'
  <2> SUFFICES ASSUME NEW r \in Reads, HasEntered(r), timestamp[r] < g PROVE Over(r)
    BY Zenon, <1>3, <1>5, <1>8
  <2>1. CASE timestamp[r] < f
    BY Zenon, <2>1 DEF SinkInv
  <2>2. CASE timestamp[r] = f
    BY Zenon, <2>2, <1>1 DEF ReadsAt, OverAt
  <2> QED
    BY <2>1, <2>2, <1>1, <1>8
<1>10. \A r \in Reads : Over(r)' => timestamp'[r] <= g
  BY <1>1, <1>3, <1>8 DEF SinkInv
<1>11. RunningReads' = {}
  BY Zenon, <1>8 DEF RunningReads
<1>12. OverAt'[g] = {}
  <2> SUFFICES ASSUME NEW r \in Reads, Over(r), timestamp[r] = g PROVE FALSE
    BY Zenon, <1>1, <1>3, <1>8 DEF OverAt
  <2> QED
    BY <1>1 DEF SinkInv
<1>13. \A r \in Reads : phase'[r] # "running"
  BY Zenon, <1>11 DEF RunningReads
<1>14. /\ finished_state'.num_reads = Cardinality(OverAt'[g])
       /\ popped_state'.num_reads = finished_state'.num_reads + Cardinality(RunningReads')
  BY <1>2, <1>11, <1>12, FS_EmptySet
<1> HIDE DEF g
<1> QED
  BY <1>2, <1>3, <1>4, <1>6, <1>7, <1>9, <1>10, <1>13, <1>14 DEF SinkInv

(* A step that moves one operation between "travelling", "queued" and      *)
(* "dummy", or moves none, does not concern the counters.                  *)
Waiting == {"travelling", "queued", "dummy"}

(* A step from one stage of waiting to another runs nothing.               *)
LEMMA SinkInvWaiting ==
    ASSUME Inv, UNCHANGED <<source_vars, popped_state, finished_state>>,
           NEW o \in Ops, NEW x \in Waiting,
           phase' = phase \/ (phase[o] \in Waiting /\ phase' = [phase EXCEPT ![o] = x])
    PROVE  SinkInv'
<1> USE DEF Inv
<1>1. /\ source' = source /\ timestamp' = timestamp
      /\ \A p \in Ops : /\ HasEntered(p)' <=> HasEntered(p)
                        /\ Over(p)' <=> Over(p)
                        /\ phase'[p] = "running" <=> phase[p] = "running"
  BY Zenon DEF source_vars, HasEntered, Over, Waiting, TypeOK
<1>2. ReadsAt' = ReadsAt /\ OverAt' = OverAt /\ RunningReads' = RunningReads
  BY SMTT(30), <1>1 DEF ReadsAt, OverAt, RunningReads, Ops
<1> QED
  BY Zenon, <1>1, <1>2 DEF SinkInv, Ops

(* A read is popped and pulsed: popped_state counts it, and it is running. *)
LEMMA SinkInvReadPop ==
    ASSUME Inv, NEW r \in Reads, phase[r] = "queued",
           timestamp[r] = finished_state.last_timestamp,
           UNCHANGED <<source_vars, finished_state>>,
           popped_state' = AdvanceByRead(popped_state),
           phase' = [phase EXCEPT ![r] = "running"]
    PROVE  SinkInv'
<1> USE DEF Inv
<1> DEFINE f == finished_state.last_timestamp
           q == popped_state.last_timestamp
<1>1. /\ f \in Nat /\ q \in Nat /\ popped_state.num_reads \in Nat /\ finished_state.num_reads \in Nat
      /\ r \in Ops /\ r \notin Writes
      /\ popped_state'.last_timestamp = q
      /\ popped_state'.num_reads = popped_state.num_reads + 1
  BY Zenon, OpsAssumption DEF TypeOK, State, Ops, AdvanceByRead
<1>2. /\ source' = source /\ timestamp' = timestamp
      /\ \A p \in Ops : phase'[p] = IF p = r THEN "running" ELSE phase[p]
  BY Zenon DEF source_vars, TypeOK
<1>3. \A p \in Ops : /\ HasEntered(p)' <=> HasEntered(p)
                     /\ Over(p)' <=> Over(p)
  BY <1>2 DEF HasEntered, Over
<1>4. ReadsAt' = ReadsAt /\ OverAt' = OverAt
  BY Zenon, <1>2, <1>3 DEF ReadsAt, OverAt, Ops
<1>5. /\ RunningReads' = RunningReads \cup {r} /\ r \notin RunningReads
      /\ RunningReads \in SUBSET Reads
  BY Zenon, <1>2 DEF RunningReads, Ops
<1>6. /\ Cardinality(RunningReads') = Cardinality(RunningReads) + 1
      /\ Cardinality(RunningReads) \in Nat
  BY Zenon, <1>5, CountAfterAdd, ReadSetsFinite
<1>7. q = f
  <2> SUFFICES ASSUME ReadsAt[f] = OverAt[f] PROVE FALSE
    BY Zenon DEF SinkInv
  <2> QED
    BY Zenon, <1>1 DEF ReadsAt, OverAt, HasEntered, Over
<1>8. popped_state'.num_reads = finished_state'.num_reads + Cardinality(RunningReads')
  BY <1>1, <1>6, <1>7 DEF SinkInv
<1>9. \A w \in Writes : w \in Ops /\ phase'[w] = phase[w]
  BY Zenon, <1>1, <1>2 DEF Ops
<1>10. \A p \in Reads : phase'[p] = "running" => timestamp'[p] = f /\ q = f
  BY SMTT(30), <1>2, <1>7 DEF SinkInv, Ops
<1> QED
  BY <1>1, <1>2, <1>3, <1>4, <1>7, <1>8, <1>9, <1>10 DEF SinkInv, Ops

(* A write is popped and pulsed: nothing else runs. *)
LEMMA SinkInvWritePop ==
    ASSUME Inv, NEW w \in Writes, WriteMayGo(w), phase[w] = "queued",
           UNCHANGED <<source_vars, finished_state>>,
           popped_state' = AdvanceByWrite(timestamp[w]),
           phase' = [phase EXCEPT ![w] = "running"]
    PROVE  SinkInv'
<1> USE DEF Inv
<1> DEFINE f == finished_state.last_timestamp
           q == popped_state.last_timestamp
<1>1. /\ f \in Nat /\ q = f /\ timestamp[w] = f + 1
      /\ w \in Ops /\ w \notin Reads /\ HasEntered(w)
      /\ popped_state'.last_timestamp = f + 1
      /\ popped_state'.num_reads = 0
      /\ f + 1 <= source.last_timestamp
  BY OpsAssumption, WriteGoesAlone
     DEF TypeOK, State, Ops, AdvanceByWrite, WriteMayGo, HasEntered, TokensInv
<1>2. /\ source' = source /\ timestamp' = timestamp
      /\ \A p \in Ops : phase'[p] = IF p = w THEN "running" ELSE phase[p]
  BY Zenon DEF source_vars, TypeOK
<1>3. \A p \in Ops : /\ HasEntered(p)' <=> HasEntered(p)
                     /\ Over(p)' <=> Over(p)
  BY <1>2 DEF HasEntered, Over
<1>4. ReadsAt' = ReadsAt /\ OverAt' = OverAt
  BY Zenon, <1>2, <1>3 DEF ReadsAt, OverAt, Ops
<1>5. ReadsAt[f] = OverAt[f] /\ \A r \in Reads : phase[r] # "running"
  BY Zenon, WriteGoesAlone DEF RunningReads
<1>6. \A v \in Writes : phase'[v] = "running" <=> HasEntered(v)' /\ f < timestamp'[v] /\ timestamp'[v] <= f + 1
  <2> SUFFICES ASSUME NEW v \in Writes
               PROVE  phase'[v] = "running" <=> HasEntered(v) /\ f < timestamp[v] /\ timestamp[v] <= f + 1
    BY Zenon, <1>2, <1>3 DEF Ops
  <2>1. CASE v = w
    BY <2>1, <1>1, <1>2
  <2>2. CASE v # w
    <3>1. phase'[v] = phase[v] /\ timestamp[v] \in Nat
      BY Zenon, <2>2, <1>2 DEF Ops, TypeOK
    <3>2. HasEntered(v) => timestamp[v] # f + 1
      BY Zenon, <2>2, <1>1 DEF TokensInv
    <3>3. phase[v] = "running" <=> HasEntered(v) /\ f < timestamp[v] /\ timestamp[v] <= q
      BY Zenon DEF SinkInv
    <3> HIDE DEF f, q, Inv
    <3> QED
      BY <3>1, <3>2, <3>3, <1>1
  <2> QED
    BY Zenon, <2>1, <2>2
<1>7. \A r \in Reads : r \in Ops /\ phase'[r] # "running"
  BY <1>1, <1>2, <1>5 DEF Ops
<1>8. phase'[w] = "running"
  BY Zenon, <1>1, <1>2
<1>9. /\ \A v \in Writes : Over(v)' <=> HasEntered(v)' /\ timestamp'[v] <= f
      /\ \A r \in Reads : HasEntered(r)' /\ timestamp'[r] < f => Over(r)'
      /\ \A r \in Reads : Over(r)' => timestamp'[r] <= f
  BY Zenon, <1>2, <1>3 DEF SinkInv, Ops
<1>10. finished_state'.num_reads = Cardinality(OverAt'[f])
  BY Zenon, <1>4 DEF SinkInv
<1>11. f' = f /\ popped_state'.last_timestamp <= source'.last_timestamp /\ ReadsAt'[f] = OverAt'[f]
  BY Zenon, <1>1, <1>2, <1>4, <1>5
<1>12. PICK g \in Nat : g = finished_state'.last_timestamp /\ g = f
  BY Zenon, <1>1, <1>11
<1> QED
  BY ONLY Zenon, <1>1, <1>6, <1>7, <1>8, <1>9, <1>10, <1>11, <1>12 DEF SinkInv

(* Every step keeps the counters of the sink in line with its operations.  *)
LEMMA SinkStepInv == Inv /\ [Next]_vars => SinkInv'
<1> SUFFICES ASSUME Inv, [Next]_vars PROVE SinkInv'
  BY Zenon
<1> USE DEF Inv
<1>1. ASSUME NEW r \in Reads, EnterRead(r) PROVE SinkInv'
  BY Zenon, <1>1, SinkInvEnter DEF Ops
<1>2. ASSUME NEW w \in Writes, EnterWrite(w) PROVE SinkInv'
  BY Zenon, <1>2, SinkInvEnter DEF Ops
<1>3. ASSUME NEW o \in Ops, Begin(o) PROVE SinkInv'
  BY Zenon, <1>3, SinkInvWaiting DEF Begin, Waiting
<1>4. ASSUME NEW o \in Ops, EndEarly(o) PROVE SinkInv'
  BY Zenon, <1>4, SinkInvWaiting DEF EndEarly, Waiting, sink_vars
<1>5. ASSUME NEW o \in Ops, End(o) PROVE SinkInv'
  <2>1. /\ phase[o] = "running" /\ phase' = [phase EXCEPT ![o] = "done"]
        /\ UNCHANGED source_vars /\ popped_state' = popped_state
    BY Zenon, <1>5 DEF End
  <2>2. CASE o \in Reads
    <3>1. timestamp[o] = finished_state.last_timestamp
      BY Zenon, <2>1, <2>2 DEF SinkInv
    <3>2. finished_state' = AdvanceByRead(finished_state)
      BY Zenon, <1>5, <2>2 DEF End, FinishAReader
    <3> QED
      BY Zenon, <2>1, <2>2, <3>1, <3>2, SinkInvReadOver
  <2>3. CASE o \in Writes
    <3> DEFINE f == finished_state.last_timestamp
    <3>1. o \notin Reads /\ finished_state' = AdvanceByWrite(timestamp[o])
      BY Zenon, <1>5, <2>3, OpsAssumption DEF End, FinishAWriter
    <3>2. HasEntered(o) /\ f < timestamp[o] /\ timestamp[o] <= popped_state.last_timestamp
      BY Zenon, <2>1, <2>3 DEF SinkInv
    <3>3. f \in Nat /\ timestamp[o] \in Nat /\ popped_state \in State
      BY Zenon DEF TypeOK, State
    <3>4. /\ popped_state.last_timestamp = f + 1 /\ popped_state.num_reads = 0
          /\ ReadsAt[f] = OverAt[f]
      BY <3>2, <3>3 DEF SinkInv
    <3>5. timestamp[o] = f + 1
      BY <3>2, <3>3, <3>4
    <3>6. popped_state = AdvanceByWrite(timestamp[o])
      BY Zenon, <3>3, <3>4, <3>5 DEF AdvanceByWrite, State
    <3>7. RunningReads = {}
      BY <3>3, <3>4 DEF RunningReads, SinkInv
    <3> QED
      BY Zenon, <2>1, <2>3, <3>1, <3>4, <3>5, <3>6, <3>7, SinkInvWriteOver
  <2> QED
    BY Zenon, <2>2, <2>3 DEF Ops
<1>6. ASSUME NEW r \in Reads, PumpRead(r) PROVE SinkInv'
  <2>1. /\ timestamp[r] = finished_state.last_timestamp
        /\ popped_state' = AdvanceByRead(popped_state)
        /\ UNCHANGED source_vars
    BY Zenon, <1>6 DEF PumpRead, ReadMayGo
  <2>2. CASE phase[r] = "queued"
    BY Zenon, <1>6, <2>1, <2>2, SinkInvReadPop DEF PumpRead, ReachHead
  <2>3. CASE phase[r] = "dummy"
    <3>1. finished_state' = AdvanceByRead(finished_state) /\ phase' = [phase EXCEPT ![r] = "forfeited"]
      BY Zenon, <1>6, <2>3 DEF PumpRead, ReachHead, FinishAReader
    <3> QED
      BY Zenon, <2>1, <2>3, <3>1, SinkInvReadOver
  <2> QED
    BY Zenon, <1>6, <2>2, <2>3 DEF PumpRead, ReachHead
<1>7. ASSUME NEW w \in Writes, PumpWrite(w) PROVE SinkInv'
  <2>1. /\ WriteMayGo(w) /\ timestamp[w] = finished_state.last_timestamp + 1
        /\ popped_state' = AdvanceByWrite(timestamp[w])
        /\ UNCHANGED source_vars /\ w \notin Reads
    BY Zenon, <1>7, OpsAssumption DEF PumpWrite, WriteMayGo
  <2>2. CASE phase[w] = "queued"
    BY Zenon, <1>7, <2>1, <2>2, SinkInvWritePop DEF PumpWrite, ReachHead
  <2>3. CASE phase[w] = "dummy"
    <3>1. finished_state' = AdvanceByWrite(timestamp[w]) /\ phase' = [phase EXCEPT ![w] = "forfeited"]
      BY Zenon, <1>7, <2>1, <2>3 DEF PumpWrite, ReachHead, FinishAWriter
    <3> QED
      BY Zenon, <2>1, <2>3, <3>1, WriteGoesAlone, SinkInvWriteOver
  <2> QED
    BY Zenon, <1>7, <2>2, <2>3 DEF PumpWrite, ReachHead
<1>8. CASE UNCHANGED <<source_vars, popped_state, finished_state, phase>>
  <2>1. CASE Ops = {}
    <3>1. Reads = {} /\ Writes = {}
      BY SMTT(30), <2>1 DEF Ops
    <3>2. OverAt' = OverAt /\ RunningReads' = RunningReads /\ ReadsAt' = ReadsAt
      BY Zenon, <3>1 DEF OverAt, RunningReads, ReadsAt
    <3> QED
      BY Zenon, <1>8, <3>1, <3>2 DEF SinkInv, source_vars
  <2>2. CASE Ops # {}
    BY Zenon, <1>8, <2>2, SinkInvWaiting DEF Waiting
  <2> QED
    BY Zenon, <2>1, <2>2
<1>9. PumpNoWrite \/ UNCHANGED vars => UNCHANGED <<source_vars, popped_state, finished_state, phase>>
  BY Zenon DEF PumpNoWrite, vars, source_vars
<1> QED
  BY <1>1, <1>2, <1>3, <1>4, <1>5, <1>6, <1>7, <1>8, <1>9 DEF Next, PumpStep, Terminating

(* The invariant of source and sink holds in every reachable state. *)
THEOREM InvHolds == Spec => []Inv
<1>1. Inv /\ [Next]_vars => Inv'
  BY Zenon, TypeStep, TokensStep, SinkStepInv DEF Inv
<1> QED
  BY InitInv, <1>1, PTL DEF Spec

(* The counters, phases and tokens of the FIFO enforcer keep their types. *)
THEOREM TypeCorrect == Spec => []TypeOK
<1>1. Inv => TypeOK
  BY Zenon DEF Inv
<1> QED
  BY InvHolds, <1>1, PTL

(* Operations pass the sink in the order in which they passed the source:  *)
(* whatever the number of reads and writes, in whatever order their tokens *)
(* arrive, and whichever exit objects are destroyed early, an operation is *)
(* let through only when everything that entered before it is over, unless *)
(* both are reads.                                                         *)
THEOREM FifoOrder == Spec => []OrderedExit
<1>1. Inv => OrderedExit
  <2> SUFFICES ASSUME Inv, NEW o \in Ops, NEW p \in predecessors[o],
                      phase[o] \in {"running", "done"}, o \in Writes \/ p \in Writes
               PROVE  Over(p)
    BY Zenon DEF OrderedExit
  <2> USE DEF Inv
  <2> DEFINE f == finished_state.last_timestamp
             q == popped_state.last_timestamp
  <2>1. /\ p \in Ops /\ HasEntered(p) /\ HasEntered(o)
        /\ timestamp[p] \in Nat /\ timestamp[o] \in Nat /\ f \in Nat /\ q \in Nat
        /\ timestamp[p] <= timestamp[o]
        /\ o \in Writes => timestamp[p] < timestamp[o]
    BY Zenon DEF TokensInv, TypeOK, State, HasEntered
  <2>2. CASE o \in Writes
    <3>1. timestamp[o] <= q /\ (q = f + 1 => ReadsAt[f] = OverAt[f]) /\ (q = f \/ q = f + 1)
      BY <2>1, <2>2 DEF SinkInv, Over
    <3>2. timestamp[p] < f \/ (timestamp[p] = f /\ q = f + 1)
      BY <2>1, <2>2, <3>1
    <3>3. p \in Writes => Over(p)
      BY SMTT(30), <2>1, <3>2 DEF SinkInv
    <3>4. p \in Reads => Over(p)
      BY SMTT(30), <2>1, <3>1, <3>2 DEF SinkInv, ReadsAt, OverAt
    <3> QED
      BY SMTT(30), <2>1, <3>3, <3>4 DEF Ops
  <2>3. CASE o \in Reads
    <3>1. timestamp[o] <= f
      BY SMTT(30), <2>1, <2>3 DEF SinkInv, Over
    <3> QED
      BY SMTT(30), <2>1, <2>3, <3>1, OpsAssumption DEF SinkInv
  <2> QED
    BY Zenon, <2>2, <2>3 DEF Ops
<1> QED
  BY InvHolds, <1>1, PTL

(* The rassert()s of advance_by_read(), advance_by_write(),                *)
(* internal_finish_a_reader() and internal_finish_a_writer() never fail.   *)
THEOREM AssertionsNeverFail == Spec => []AssertionsHold
<1>1. Inv => AssertionsHold
  <2> SUFFICES ASSUME Inv PROVE AssertionsHold
    BY Zenon
  <2> USE DEF Inv
  <2> DEFINE f == finished_state.last_timestamp
             q == popped_state.last_timestamp
  <2>1. /\ f \in Nat /\ q \in Nat
        /\ popped_state \in State /\ finished_state \in State
        /\ popped_state.num_reads \in Nat /\ finished_state.num_reads \in Nat
    BY Zenon DEF TypeOK, State
  <2>2. ASSUME NEW r \in Reads, ReadMayGo(r) PROVE q = timestamp[r]
    <3> SUFFICES ASSUME ReadsAt[f] = OverAt[f] PROVE FALSE
      BY Zenon, <2>2 DEF SinkInv, ReadMayGo
    <3> QED
      BY SMTT(30), <2>1, <2>2 DEF ReadMayGo, AtHead, InQueue, ReadsAt, OverAt, HasEntered, Over
  <2>3. ASSUME NEW w \in Writes, WriteMayGo(w)
        PROVE  q + 1 = timestamp[w] /\ popped_state.num_reads = num_preceding_reads[w]
    BY Zenon, <2>3, WriteGoesAlone DEF WriteMayGo
  <2>4. ASSUME NEW r \in Reads, phase[r] = "running"
        PROVE  /\ q = timestamp[r] /\ f = timestamp[r]
               /\ finished_state.num_reads < popped_state.num_reads
    <3>1. q = timestamp[r] /\ f = timestamp[r]
      BY Zenon, <2>4 DEF SinkInv
    <3>2. RunningReads \in SUBSET Reads /\ RunningReads # {}
      BY Zenon, <2>4 DEF RunningReads
    <3>3. Cardinality(RunningReads) \in Nat /\ Cardinality(RunningReads) # 0
      BY Zenon, <3>2, ReadSetsFinite, FS_EmptySet
    <3>4. popped_state.num_reads = finished_state.num_reads + Cardinality(RunningReads)
      BY <2>1, <3>1 DEF SinkInv
    <3> QED
      BY <2>1, <3>1, <3>3, <3>4
  <2>5. ASSUME NEW w \in Writes, phase[w] = "running"
        PROVE  /\ popped_state = [last_timestamp |-> timestamp[w], num_reads |-> 0]
               /\ f + 1 = timestamp[w]
               /\ finished_state.num_reads = num_preceding_reads[w]
    <3>1. HasEntered(w) /\ f < timestamp[w] /\ timestamp[w] <= q /\ timestamp[w] \in Nat
      BY Zenon, <2>5 DEF SinkInv, TypeOK, Ops
    <3>2. q = f + 1 /\ popped_state.num_reads = 0 /\ ReadsAt[f] = OverAt[f]
      BY <2>1, <3>1 DEF SinkInv
    <3>3. timestamp[w] = f + 1
      BY <2>1, <3>1, <3>2
    <3>4. num_preceding_reads[w] = Cardinality(ReadsAt[f])
      BY <2>1, <3>1, <3>3 DEF TokensInv
    <3>5. popped_state = [last_timestamp |-> timestamp[w], num_reads |-> 0]
      BY Zenon, <2>1, <3>2, <3>3 DEF State
    <3> QED
      BY SMTT(30), <3>2, <3>3, <3>4, <3>5 DEF SinkInv
  <2> QED
    BY Zenon, <2>2, <2>3, <2>4, <2>5 DEF AssertionsHold
<1> QED
  BY InvHolds, <1>1, PTL

=============================================================================
