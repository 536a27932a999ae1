--------------------------- MODULE ReadManagerProofs ---------------------------
(***************************************************************************)
(* Proofs about Directory, how one server's entry reaches another's        *)
(* directory, for any number of connections and changes: the entry is of a *)
(* connected peer, never goes back, and shows the newest value once the    *)
(* messages have come to rest.                                             *)
(***************************************************************************)
EXTENDS Directory, WellFoundedInduction, TLAPS

(* A set of natural numbers that is not empty has a least element.         *)
LEMMA LeastOf ==
    ASSUME NEW T \in SUBSET Nat, T # {}
    PROVE  \E n \in T : \A m \in T : n <= m
<1> DEFINE R == {ss \in Nat \X Nat : ss[1] < ss[2]}
<1>1. IsWellFoundedOn(R, Nat)
  BY Zenon, NatLessThanWellFounded DEF OpToRel
<1> HIDE DEF R
<1>2. PICK x \in T : \A y \in T : ~(<<y, x>> \in R)
  BY Zenon, <1>1, WFMin
<1>3. \A y \in T : x <= y
  <2> SUFFICES ASSUME NEW y \in T, y < x PROVE FALSE
    OBVIOUS
  <2>1. <<y, x>> \in Nat \X Nat /\ <<y, x>>[1] = y /\ <<y, x>>[2] = x
    BY Zenon
  <2>2. <<y, x>> \in R
    BY Zenon, <2>1 DEF R
  <2> QED
    BY Zenon, <1>2, <2>2
<1> QED
  BY Zenon, <1>3

--------------------------------------------------------------------------------
(* Directory: the inductive invariant                                      *)

CoroRecs == [m : Messages, st : Stages, int : BOOLEAN]

\* The coroutine of the connection's first message
IsFirst(i) == dyCoros[i].m.kind = "I"
Handled == \E i \in DOMAIN dyCoros : IsFirst(i)

\* A message on its way, or whose coroutine has not ended
Live(m) == m \in dyNet \/ \E i \in DOMAIN dyCoros : dyCoros[i].m = m

\* Nothing is left of a connection that is gone, and nothing is there before
\* the writer knows the connection.
DyFreshInv ==
    /\ dyWriter.conn <= dyConn.n
    /\ (dyConn.st = "down" \/ dyWriter.conn # dyConn.n) =>
          dyNet = {} /\ dyCoros = <<>> /\ dySink = NoSink /\ dyEntry = NoEntry

\* The first message of a connection is older than all the others
FirstInv ==
    /\ \A m \in Messages : Live(m) => m.conn = dyConn.n /\ m.v <= dyWriter.v
    /\ \A a, b \in Messages : Live(a) /\ Live(b) /\ a.kind = "I" =>
          IF b.kind = "I" THEN a = b ELSE a.v < b.v

\* No message is there twice
DistinctInv ==
    /\ \A i, j \in DOMAIN dyCoros : dyCoros[i].m = dyCoros[j].m => i = j
    /\ \A i \in DOMAIN dyCoros : dyCoros[i].m \notin dyNet

\* Which stages go with what connection_info there is
StagesInv ==
    /\ \A i \in DOMAIN dyCoros : IsFirst(i) <=> dyCoros[i].st \in {"wait", "drain"}
    /\ (\E m \in dyNet : m.kind = "I") => \A i \in DOMAIN dyCoros : dyCoros[i].st = "init"
    /\ ~ Handled => dySink = NoSink /\ dyEntry = NoEntry /\ Drains(dyCoros)
    /\ \A i \in DOMAIN dyCoros : dyCoros[i].st = "wait" => dySink.known
    /\ \A i \in DOMAIN dyCoros : dyCoros[i].st = "drain" => ~ dySink.known /\ dyCoros[i].int
    /\ dySink.known => \A i \in DOMAIN dyCoros : dyCoros[i].st # "init"

\* The sink's next token is after the entry, and not after any update that may
\* still be made; it is that of the update that is being made.
TokensInv ==
    /\ Handled =>
         /\ dyEntry.conn = dyConn.n /\ dyEntry.v < dySink.next /\ dySink.next <= dyWriter.v + 1
         /\ \A m \in Messages : Live(m) /\ m.kind = "U" => dySink.next <= m.v /\ m.v \notin dySink.left
         /\ \A t \in dySink.left : dySink.next < t /\ t <= dyWriter.v
    /\ \A i \in DOMAIN dyCoros : IsFirst(i) => dyCoros[i].m.v < dySink.next
    /\ \A i \in DOMAIN dyCoros : dyCoros[i].st = "yield" => dyCoros[i].m.v = dySink.next

\* News of the loss of a connection comes in the order of the coroutines
InterruptsInv ==
    /\ \A i \in DOMAIN dyCoros : dyCoros[i].int => dyConn.st = "closing"
    /\ \A i, j \in DOMAIN dyCoros : i < j /\ dyCoros[j].int => dyCoros[i].int

\* so whoever was woken is interrupted before the connection leaves the map.
WokenInv ==
    \A i \in DOMAIN dyCoros : dyCoros[i].st = "woken" =>
       dyCoros[i].int \/ \E j \in DOMAIN dyCoros : i < j /\ dyCoros[j].st = "wait"

\* While the connection stands, no message is lost
UpInv ==
    dyConn.st = "up" =>
       /\ dySink.left = {}
       /\ Handled => dySink.next = dyEntry.v + 1
       /\ dyWriter.conn = dyConn.n =>
             \E m \in Messages :
                /\ m.kind = "I" /\ Live(m)
                /\ \A u \in Messages :
                      u.kind = "U" /\ u.conn = dyConn.n /\ m.v < u.v /\ u.v <= dyWriter.v =>
                         Live(u) \/ (Handled /\ u.v < dySink.next)

DyIInv ==
    /\ DyTypeOK /\ ~ dyFailed /\ DyFreshInv /\ FirstInv /\ DistinctInv /\ StagesInv /\ TokensInv
    /\ InterruptsInv /\ WokenInv /\ UpInv

(* The types of the coroutines.                                            *)
LEMMA CoroTypes ==
    ASSUME DyTypeOK
    PROVE  /\ dyCoros \in Seq(CoroRecs) /\ Len(dyCoros) \in Nat /\ DOMAIN dyCoros = 1 .. Len(dyCoros)
           /\ \A i \in DOMAIN dyCoros :
                /\ i \in Nat /\ dyCoros[i] \in CoroRecs /\ dyCoros[i].m \in Messages
                /\ dyCoros[i].st \in Stages /\ dyCoros[i].int \in BOOLEAN
<1>1. dyCoros \in Seq(CoroRecs)
  BY Zenon DEF DyTypeOK, CoroRecs
<1>2. Len(dyCoros) \in Nat /\ DOMAIN dyCoros = 1 .. Len(dyCoros)
  BY <1>1
<1>3. \A i \in DOMAIN dyCoros : i \in Nat /\ dyCoros[i] \in CoroRecs
  BY <1>1, <1>2
<1>4. \A r \in CoroRecs : r.m \in Messages /\ r.st \in Stages /\ r.int \in BOOLEAN
  BY Zenon DEF CoroRecs
<1> QED
  BY Zenon, <1>1, <1>2, <1>3, <1>4

(* Counters are numbers.                                                   *)
LEMMA DyNumbers ==
    ASSUME DyTypeOK
    PROVE  /\ DyMaxChanges \in Nat /\ DyMaxConns \in Nat
           /\ dyConn.n \in Nat /\ dyWriter.conn \in Nat /\ dyWriter.v \in Nat /\ dyEntry.v \in Nat
           /\ dySink.next \in Nat /\ dySink.left \subseteq Nat
           /\ \A m \in Messages : m.v \in Nat /\ m.kind \in {"I", "U"} /\ m.conn \in 1 .. DyMaxConns
<1>1. DyMaxChanges \in Nat /\ DyMaxConns \in Nat
  BY Zenon, DyAssumption
<1>2. PICK c \in [n : 1 .. DyMaxConns, st : {"up", "closing", "down"}] : c = dyConn
  BY Zenon DEF DyTypeOK
<1>3. PICK w \in [v : 0 .. DyMaxChanges, conn : 0 .. DyMaxConns] : w = dyWriter
  BY Zenon DEF DyTypeOK
<1>4. PICK e \in [v : 0 .. DyMaxChanges, conn : 0 .. DyMaxConns] : e = dyEntry
  BY Zenon DEF DyTypeOK
<1>5. dySink.next \in Nat /\ dySink.left \subseteq Nat
  BY <1>1 DEF DyTypeOK
<1>6. c.n \in Nat /\ w.conn \in Nat /\ w.v \in Nat /\ e.v \in Nat
  BY <1>1
<1>7. \A m \in Messages : m.v \in Nat /\ m.kind \in {"I", "U"} /\ m.conn \in 1 .. DyMaxConns
  BY <1>1 DEF Messages
<1> QED
  BY Zenon, <1>1, <1>2, <1>3, <1>4, <1>5, <1>6, <1>7

(* The inductive invariant holds at the start.                             *)
LEMMA InitDyIInv == DyInit => DyIInv
<1> SUFFICES ASSUME DyInit PROVE DyIInv
  BY Zenon
<1>1. /\ dyConn = [n |-> 1, st |-> "up"] /\ dyWriter = [v |-> 0, conn |-> 0]
      /\ dyNet = {} /\ dyCoros = <<>> /\ dySink = NoSink /\ dyEntry = NoEntry /\ dyFailed = FALSE
  BY Zenon DEF DyInit
<1>2. DOMAIN dyCoros = {}
  BY <1>1
<1>3. DyTypeOK
  <2>1. 1 \in 1 .. DyMaxConns /\ 0 \in 0 .. DyMaxConns /\ 0 \in 0 .. DyMaxChanges
        /\ 0 \in 0 .. DyMaxChanges + 1
    BY DyAssumption
  <2>2. dyConn \in [n : 1 .. DyMaxConns, st : {"up", "closing", "down"}]
    BY Zenon, <1>1, <2>1
  <2>3. dySink \in [known : BOOLEAN, next : 0 .. DyMaxChanges + 1, left : SUBSET (1 .. DyMaxChanges)]
    BY Zenon, <1>1, <2>1 DEF NoSink
  <2>4. dyWriter \in [v : 0 .. DyMaxChanges, conn : 0 .. DyMaxConns]
        /\ dyEntry \in [v : 0 .. DyMaxChanges, conn : 0 .. DyMaxConns]
    BY Zenon, <1>1, <2>1 DEF NoEntry
  <2>5. dyCoros \in Seq([m : Messages, st : Stages, int : BOOLEAN])
    BY <1>1
  <2>6. dyNet \subseteq Messages /\ dyFailed \in BOOLEAN
    BY Zenon, <1>1
  <2> QED
    BY Zenon, <2>2, <2>3, <2>4, <2>5, <2>6 DEF DyTypeOK
<1>4. ~ Handled /\ \A m : ~ Live(m)
  BY Zenon, <1>1, <1>2 DEF Handled, Live
<1>5. DyFreshInv /\ FirstInv /\ DistinctInv
  BY <1>1, <1>2, <1>4 DEF DyFreshInv, FirstInv, DistinctInv
<1>6. StagesInv /\ TokensInv
  BY Zenon, <1>1, <1>2, <1>4 DEF StagesInv, TokensInv, Drains, NoSink
<1>7. InterruptsInv /\ WokenInv /\ UpInv
  BY <1>1, <1>2, <1>4 DEF InterruptsInv, WokenInv, UpInv, NoSink
<1> QED
  BY Zenon, <1>1, <1>3, <1>5, <1>6, <1>7 DEF DyIInv

(* What is left of the coroutines when one of them has ended: b tells where*)
(* each of them was.                                                       *)
LEMMA OthersAre ==
    ASSUME DyTypeOK, NEW i \in DOMAIN dyCoros, dyCoros' = Others(i)
    PROVE  /\ dyCoros' \in Seq(CoroRecs)
           /\ \E b \in [DOMAIN dyCoros' -> DOMAIN dyCoros] :
                /\ \A j \in DOMAIN dyCoros' : dyCoros'[j] = dyCoros[b[j]] /\ b[j] # i
                /\ \A j, k \in DOMAIN dyCoros' : j < k => b[j] < b[k]
                /\ \A j, k \in DOMAIN dyCoros' : b[j] < b[k] => j < k
                /\ \A k \in DOMAIN dyCoros : k # i => \E j \in DOMAIN dyCoros' : b[j] = k
<1>1. PICK n \in Nat : n = Len(dyCoros)
  BY Zenon, CoroTypes
<1>2. /\ DOMAIN dyCoros = 1 .. n /\ i \in 1 .. n
      /\ \A k \in 1 .. n : dyCoros[k] \in CoroRecs
  BY Zenon, CoroTypes, <1>1
<1> DEFINE b == [j \in 1 .. n - 1 |-> IF j < i THEN j ELSE j + 1]
<1>3. dyCoros' = [j \in 1 .. n - 1 |-> IF j < i THEN dyCoros[j] ELSE dyCoros[j + 1]]
  BY Zenon, <1>1 DEF Others, DropAt
<1>4. b \in [1 .. n - 1 -> 1 .. n] /\ n - 1 \in Nat
  BY <1>2
<1>5. \A j \in 1 .. n - 1 : dyCoros'[j] = dyCoros[b[j]] /\ b[j] # i
  BY <1>2, <1>3
<1>6. \A j, k \in 1 .. n - 1 : (j < k => b[j] < b[k]) /\ (b[j] < b[k] => j < k)
  BY <1>2
<1>7. ASSUME NEW k \in 1 .. n, k # i PROVE \E j \in 1 .. n - 1 : b[j] = k
  <2>1. CASE k < i
    BY <2>1, <1>2, k \in 1 .. n - 1
  <2>2. CASE i < k
    BY <2>2, <1>2, k - 1 \in 1 .. n - 1, b[k - 1] = k
  <2> QED
    BY <2>1, <2>2, <1>2, <1>7
<1> HIDE DEF b
<1>8. DOMAIN dyCoros' = 1 .. n - 1
  BY Zenon, <1>3
<1>9. dyCoros' \in [1 .. n - 1 -> CoroRecs]
  <2>1. \A j \in 1 .. n - 1 : dyCoros'[j] \in CoroRecs
    BY Zenon, <1>2, <1>4, <1>5
  <2>2. dyCoros' = [j \in 1 .. n - 1 |-> dyCoros'[j]]
    BY Zenon, <1>3
  <2> QED
    BY Zenon, <2>1, <2>2
<1>10. dyCoros' \in Seq(CoroRecs)
  BY <1>9, <1>4
<1> QED
  <2>1. b \in [DOMAIN dyCoros' -> DOMAIN dyCoros]
    BY Zenon, <1>2, <1>4, <1>8
  <2>2. \A j \in DOMAIN dyCoros' : dyCoros'[j] = dyCoros[b[j]] /\ b[j] # i
    BY Zenon, <1>5, <1>8
  <2>3. \A j, k \in DOMAIN dyCoros' : j < k => b[j] < b[k]
    BY Zenon, <1>6, <1>8
  <2>4. \A j, k \in DOMAIN dyCoros' : b[j] < b[k] => j < k
    BY Zenon, <1>6, <1>8
  <2>5. \A k \in DOMAIN dyCoros : k # i => \E j \in DOMAIN dyCoros' : b[j] = k
    BY Zenon, <1>2, <1>7, <1>8
  <2> QED
    BY Zenon, <2>1, <2>2, <2>3, <2>4, <2>5, <1>10

(* What the next stage of a coroutine changes.                             *)
LEMMA AtIs ==
    ASSUME DyTypeOK, NEW i \in DOMAIN dyCoros, NEW st \in Stages, dyCoros' = At(i, st)
    PROVE  /\ dyCoros' \in Seq(CoroRecs) /\ DOMAIN dyCoros' = DOMAIN dyCoros
           /\ \A j \in DOMAIN dyCoros : /\ dyCoros'[j].m = dyCoros[j].m /\ dyCoros'[j].int = dyCoros[j].int
                                        /\ j # i => dyCoros'[j].st = dyCoros[j].st
           /\ dyCoros'[i].st = st
<1>1. PICK n \in Nat : n = Len(dyCoros)
  BY Zenon, CoroTypes
<1>2. /\ DOMAIN dyCoros = 1 .. n /\ i \in 1 .. n /\ dyCoros \in [1 .. n -> CoroRecs]
  BY CoroTypes, <1>1
<1>3. dyCoros' = [dyCoros EXCEPT ![i] = [dyCoros[i] EXCEPT !.st = st]]
  BY Zenon DEF At
<1>4. PICK r \in CoroRecs : r = [dyCoros[i] EXCEPT !.st = st]
  <2>1. dyCoros[i] \in CoroRecs
    BY Zenon, <1>2
  <2> QED
    BY Zenon, <2>1 DEF CoroRecs
<1>5. r.m = dyCoros[i].m /\ r.int = dyCoros[i].int /\ r.st = st
  <2>1. PICK q \in CoroRecs : q = dyCoros[i]
    BY Zenon, <1>2
  <2>2. r = [q EXCEPT !.st = st]
    BY Zenon, <1>4, <2>1
  <2>3. r.m = q.m /\ r.int = q.int /\ r.st = st
    BY Zenon, <2>2 DEF CoroRecs
  <2> QED
    BY Zenon, <2>1, <2>3
<1>6. dyCoros' = [dyCoros EXCEPT ![i] = r]
  BY Zenon, <1>3, <1>4
<1>7. /\ dyCoros' \in [1 .. n -> CoroRecs] /\ dyCoros'[i] = r
      /\ \A j \in 1 .. n : j # i => dyCoros'[j] = dyCoros[j]
  BY Zenon, <1>2, <1>6
<1>8. dyCoros' \in Seq(CoroRecs) /\ DOMAIN dyCoros' = 1 .. n
  BY <1>7
<1> QED
  BY Zenon, <1>2, <1>5, <1>7, <1>8

(* The next token after t, of those who have not left, exists.             *)
LEMMA PassedIs ==
    ASSUME DyTypeOK, NEW t \in 1 .. DyMaxChanges, dySink' = Passed(dySink, t)
    PROVE  /\ dySink'.known = dySink.known
           /\ dySink' \in [known : BOOLEAN, next : 0 .. DyMaxChanges + 1, left : SUBSET (1 .. DyMaxChanges)]
           /\ dySink.next # t => dySink'.next = dySink.next /\ dySink'.left = dySink.left \cup {t}
           /\ dySink.next = t =>
                /\ t < dySink'.next /\ dySink'.left = {j \in dySink.left : dySink'.next < j}
                /\ \A j \in t + 1 .. dySink'.next - 1 : j \in dySink.left
                /\ dySink'.next \notin dySink.left
<1> DEFINE SinkRecs == [known : BOOLEAN, next : 0 .. DyMaxChanges + 1, left : SUBSET (1 .. DyMaxChanges)]
<1>1. PICK s \in SinkRecs : s = dySink
  BY Zenon DEF DyTypeOK
<1>2. DyMaxChanges \in Nat
  BY Zenon, DyAssumption
<1>3. CASE s.next # t
  <2>1. dySink' = [s EXCEPT !.left = s.left \cup {t}]
    BY Zenon, <1>1, <1>3 DEF Passed
  <2> QED
    BY <1>1, <1>3, <2>1
<1>4. CASE s.next = t
  <2> DEFINE T == {k \in t + 1 .. DyMaxChanges + 1 : k \notin s.left}
             Is(k) == k \notin s.left /\ \A j \in t + 1 .. k - 1 : j \in s.left
             n == CHOOSE k \in t + 1 .. DyMaxChanges + 1 : Is(k)
  <2>1. DyMaxChanges + 1 \in T /\ T \in SUBSET Nat
    BY <1>2
  <2>2. PICK k \in T : \A j \in T : k <= j
    BY Zenon, <2>1, LeastOf
  <2>3. k \in t + 1 .. DyMaxChanges + 1 /\ Is(k)
    BY <2>2, <1>2
  <2>4. n \in t + 1 .. DyMaxChanges + 1 /\ Is(n)
    BY Zenon, <2>3
  <2>5. dySink' = [s EXCEPT !.next = n, !.left = {j \in s.left : j > n}]
    BY <1>1, <1>4 DEF Passed
  <2> HIDE DEF n
  <2>6. n \in 0 .. DyMaxChanges + 1 /\ t < n
    BY <2>4, <1>2
  <2>7. dySink'.known = s.known /\ dySink'.next = n /\ dySink'.left = {j \in s.left : j > n}
        /\ dySink' \in SinkRecs
    BY Zenon, <2>5, <2>6
  <2>8. {j \in s.left : j > n} = {j \in s.left : n < j}
    BY Zenon, <2>6, <1>2
  <2> QED
    BY Zenon, <1>1, <1>4, <2>4, <2>6, <2>7, <2>8
<1> QED
  BY Zenon, <1>3, <1>4

(* There are coroutines and messages only of a connection that is there.   *)
LEMMA BusyConnection ==
    ASSUME DyIInv, dyNet # {} \/ \E i \in DOMAIN dyCoros : TRUE
    PROVE  dyConn.st # "down" /\ dyWriter.conn = dyConn.n
<1>1. dyNet # {} \/ dyCoros # <<>>
  OBVIOUS
<1> QED
  BY Zenon, <1>1 DEF DyIInv, DyFreshInv

(* What a coroutine that ends leaves as it was.                            *)
LEMMA EndFrame ==
    ASSUME DyIInv, NEW i \in DOMAIN dyCoros, dyCoros' = Others(i), UNCHANGED <<dyConn, dyWriter, dyNet>>
    PROVE  /\ dyCoros' \in Seq(CoroRecs)
           /\ \A m : Live(m)' => Live(m) /\ m # dyCoros[i].m
           /\ \A m : Live(m) /\ m # dyCoros[i].m => Live(m)'
           /\ \A j \in DOMAIN dyCoros' : \E k \in DOMAIN dyCoros : k # i /\ dyCoros'[j] = dyCoros[k]
           /\ IsFirst(i) => ~ Handled'
           /\ ~ IsFirst(i) => (Handled' <=> Handled)
           /\ DyFreshInv' /\ FirstInv' /\ DistinctInv' /\ InterruptsInv'
           /\ (~ IsFirst(i) \/ dyCoros[i].int) => WokenInv'
<1>1. DyTypeOK /\ dyCoros' \in Seq(CoroRecs)
  BY Zenon, OthersAre DEF DyIInv
<1>2. PICK b \in [DOMAIN dyCoros' -> DOMAIN dyCoros] :
         /\ \A j \in DOMAIN dyCoros' : dyCoros'[j] = dyCoros[b[j]] /\ b[j] # i
         /\ \A j, k \in DOMAIN dyCoros' : j < k => b[j] < b[k]
         /\ \A j, k \in DOMAIN dyCoros' : b[j] < b[k] => j < k
         /\ \A k \in DOMAIN dyCoros : k # i => \E j \in DOMAIN dyCoros' : b[j] = k
  BY Zenon, <1>1, OthersAre
<1>3. \A j \in DOMAIN dyCoros' : b[j] \in DOMAIN dyCoros
  BY Zenon, <1>2
<1>4. /\ \A k \in DOMAIN dyCoros : dyCoros[k].m = dyCoros[i].m => k = i
      /\ dyCoros[i].m \notin dyNet
  BY Zenon DEF DyIInv, DistinctInv
<1>5. \A m : Live(m)' => Live(m) /\ m # dyCoros[i].m
  <2> SUFFICES ASSUME NEW m, Live(m)' PROVE Live(m) /\ m # dyCoros[i].m
    BY Zenon
  <2>1. CASE m \in dyNet
    BY Zenon, <2>1, <1>4 DEF Live
  <2>2. CASE \E j \in DOMAIN dyCoros' : dyCoros'[j].m = m
    <3>1. PICK j \in DOMAIN dyCoros' : dyCoros'[j].m = m
      BY Zenon, <2>2
    <3>2. b[j] \in DOMAIN dyCoros /\ dyCoros[b[j]].m = m /\ b[j] # i
      BY Zenon, <3>1, <1>2, <1>3
    <3> QED
      BY Zenon, <3>2, <1>4 DEF Live
  <2> QED
    BY Zenon, <2>1, <2>2 DEF Live
<1>6. \A m : Live(m) /\ m # dyCoros[i].m => Live(m)'
  <2> SUFFICES ASSUME NEW m, NEW k \in DOMAIN dyCoros, dyCoros[k].m = m, m # dyCoros[i].m
               PROVE  \E j \in DOMAIN dyCoros' : dyCoros'[j].m = m
    BY Zenon DEF Live
  <2>1. PICK j \in DOMAIN dyCoros' : b[j] = k
    BY Zenon, <1>2
  <2> QED
    BY Zenon, <2>1, <1>2
<1>7. \A j \in DOMAIN dyCoros' : \E k \in DOMAIN dyCoros : k # i /\ dyCoros'[j] = dyCoros[k]
  BY <1>2, <1>3
<1>8. IsFirst(i) => ~ Handled'
  <2> SUFFICES ASSUME IsFirst(i), NEW j \in DOMAIN dyCoros', dyCoros'[j].m.kind = "I" PROVE FALSE
    BY Zenon DEF Handled, IsFirst
  <2>1. b[j] \in DOMAIN dyCoros /\ dyCoros[b[j]].m.kind = "I" /\ b[j] # i
    BY Zenon, <1>2, <1>3
  <2>2. Live(dyCoros[i].m) /\ Live(dyCoros[b[j]].m)
    BY Zenon, <2>1 DEF Live
  <2>3. dyCoros[i].m \in Messages /\ dyCoros[b[j]].m \in Messages
    BY Zenon, <2>1, <1>1, CoroTypes
  <2>4. dyCoros[b[j]].m = dyCoros[i].m
    BY Zenon, <2>1, <2>2, <2>3 DEF DyIInv, FirstInv, IsFirst
  <2> QED
    BY Zenon, <2>1, <2>4, <1>4
<1>9. ~ IsFirst(i) => (Handled' <=> Handled)
  <2>1. Handled' => Handled
    BY Zenon, <1>7 DEF Handled, IsFirst
  <2>2. ASSUME ~ IsFirst(i), NEW k \in DOMAIN dyCoros, IsFirst(k) PROVE Handled'
    <3>1. k # i
      BY Zenon, <2>2
    <3>2. PICK j \in DOMAIN dyCoros' : b[j] = k
      BY Zenon, <3>1, <1>2
    <3> QED
      BY Zenon, <3>2, <2>2, <1>2 DEF Handled, IsFirst
  <2> QED
    BY Zenon, <2>1, <2>2 DEF Handled
<1>10. DyFreshInv'
  BY Zenon, BusyConnection DEF DyIInv, DyFreshInv
<1>11. FirstInv'
  BY Zenon, <1>5 DEF DyIInv, FirstInv
<1>12. DistinctInv'
  <2>1. \A j \in DOMAIN dyCoros' : dyCoros'[j].m \notin dyNet'
    BY Zenon, <1>7 DEF DyIInv, DistinctInv
  <2>2. ASSUME NEW j \in DOMAIN dyCoros', NEW k \in DOMAIN dyCoros', dyCoros'[j].m = dyCoros'[k].m
        PROVE  j = k
    <3>0. dyCoros[b[j]].m = dyCoros[b[k]].m
      BY Zenon, <2>2, <1>2
    <3>1. b[j] = b[k]
      BY Zenon, <3>0, <1>3 DEF DyIInv, DistinctInv
    <3>2. j \in Nat /\ k \in Nat /\ b[j] \in Nat
      BY <1>1, <1>3, CoroTypes
    <3>3. ~ (j < k) /\ ~ (k < j)
      BY <3>1, <3>2, <1>2
    <3> QED
      BY <3>2, <3>3
  <2> QED
    BY Zenon, <2>1, <2>2 DEF DistinctInv
<1>13. InterruptsInv'
  BY Zenon, <1>2, <1>3 DEF DyIInv, InterruptsInv
<1>14. ASSUME ~ IsFirst(i) \/ dyCoros[i].int PROVE WokenInv'
  <2> SUFFICES ASSUME NEW j \in DOMAIN dyCoros', dyCoros'[j].st = "woken", ~ dyCoros'[j].int
               PROVE  \E q \in DOMAIN dyCoros' : j < q /\ dyCoros'[q].st = "wait"
    BY Zenon DEF WokenInv
  <2>1. b[j] \in DOMAIN dyCoros /\ dyCoros[b[j]].st = "woken" /\ ~ dyCoros[b[j]].int
    BY Zenon, <1>2, <1>3
  <2>2. PICK p \in DOMAIN dyCoros : b[j] < p /\ dyCoros[p].st = "wait"
    BY Zenon, <2>1 DEF DyIInv, WokenInv
  <2>3. p # i
    <3> SUFFICES ASSUME p = i PROVE FALSE
      BY Zenon
    <3>1. IsFirst(i)
      BY Zenon, <2>2 DEF DyIInv, StagesInv
    <3> QED
      BY Zenon, <3>1, <2>1, <2>2, <1>14 DEF DyIInv, InterruptsInv
  <2>4. PICK q \in DOMAIN dyCoros' : b[q] = p
    BY Zenon, <2>3, <1>2
  <2> QED
    BY Zenon, <2>2, <2>4, <1>2
<1> QED
  BY Zenon, <1>1, <1>5, <1>6, <1>7, <1>8, <1>9, <1>10, <1>11, <1>12, <1>13, <1>14

(* What a coroutine that goes on leaves as it was.                         *)
LEMMA StageFrame ==
    ASSUME DyIInv, NEW i \in DOMAIN dyCoros, NEW st \in Stages, dyCoros' = At(i, st),
           UNCHANGED <<dyConn, dyWriter, dyNet>>
    PROVE  /\ dyCoros' \in Seq(CoroRecs) /\ DOMAIN dyCoros' = DOMAIN dyCoros
           /\ \A j \in DOMAIN dyCoros : /\ dyCoros'[j].m = dyCoros[j].m /\ dyCoros'[j].int = dyCoros[j].int
                                        /\ j # i => dyCoros'[j].st = dyCoros[j].st
           /\ dyCoros'[i].st = st
           /\ \A m : Live(m)' <=> Live(m)
           /\ Handled' <=> Handled
           /\ DyFreshInv' /\ FirstInv' /\ DistinctInv' /\ InterruptsInv'
           /\ (st # "woken" /\ (dyCoros[i].st # "wait" \/ dyCoros[i].int)) => WokenInv'
<1>1. /\ dyCoros' \in Seq(CoroRecs) /\ DOMAIN dyCoros' = DOMAIN dyCoros
      /\ \A j \in DOMAIN dyCoros : /\ dyCoros'[j].m = dyCoros[j].m /\ dyCoros'[j].int = dyCoros[j].int
                                   /\ j # i => dyCoros'[j].st = dyCoros[j].st
      /\ dyCoros'[i].st = st
  BY Zenon, AtIs DEF DyIInv
<1>2. \A m : Live(m)' <=> Live(m)
  BY Zenon, <1>1 DEF Live
<1>3. Handled' <=> Handled
  BY Zenon, <1>1 DEF Handled, IsFirst
<1>4. DyFreshInv'
  BY Zenon, BusyConnection DEF DyIInv, DyFreshInv
<1>5. FirstInv'
  BY Zenon, <1>2 DEF DyIInv, FirstInv
<1>6. DistinctInv'
  BY <1>1 DEF DyIInv, DistinctInv
<1>7. InterruptsInv'
  BY Zenon, <1>1 DEF DyIInv, InterruptsInv
<1>8. ASSUME st # "woken", dyCoros[i].st # "wait" \/ dyCoros[i].int PROVE WokenInv'
  <2> SUFFICES ASSUME NEW j \in DOMAIN dyCoros, dyCoros'[j].st = "woken", ~ dyCoros'[j].int
               PROVE  \E q \in DOMAIN dyCoros : j < q /\ dyCoros'[q].st = "wait"
    BY <1>1 DEF WokenInv
  <2>1. dyCoros[j].st = "woken" /\ ~ dyCoros[j].int
    BY Zenon, <1>1, <1>8
  <2>2. PICK q \in DOMAIN dyCoros : j < q /\ dyCoros[q].st = "wait"
    BY Zenon, <2>1 DEF DyIInv, WokenInv
  <2>3. q # i
    BY Zenon, <2>1, <2>2, <1>8 DEF DyIInv, InterruptsInv
  <2> QED
    BY Zenon, <2>2, <2>3, <1>1
<1> QED
  BY Zenon, <1>1, <1>2, <1>3, <1>4, <1>5, <1>6, <1>7, <1>8

(* OnConnectionChange keeps the inductive invariant.                       *)
LEMMA OnConnectionChangeKeeps == ASSUME DyIInv, OnConnectionChange PROVE DyIInv'
<1> DEFINE f == [kind |-> "I", v |-> dyWriter.v, conn |-> dyConn.n]
<1>1. /\ dyConn.st = "up" /\ dyWriter' = [dyWriter EXCEPT !.conn = dyConn.n]
      /\ dyNet' = dyNet \cup {f} /\ UNCHANGED <<dyConn, dyCoros, dySink, dyEntry, dyFailed>>
      /\ dyWriter.conn # dyConn.n
  BY Zenon DEF OnConnectionChange
<1>2. dyNet = {} /\ dyCoros = <<>> /\ dySink = NoSink /\ dyEntry = NoEntry /\ ~ dyFailed
  BY Zenon, <1>1 DEF DyIInv, DyFreshInv
<1>3. /\ dyWriter' \in [v : 0 .. DyMaxChanges, conn : 0 .. DyMaxConns]
      /\ dyWriter'.v = dyWriter.v /\ dyWriter'.conn = dyConn.n /\ f \in Messages
  <2>1. PICK w \in [v : 0 .. DyMaxChanges, conn : 0 .. DyMaxConns] : w = dyWriter
    BY Zenon DEF DyIInv, DyTypeOK
  <2>2. PICK c \in 1 .. DyMaxConns : c = dyConn.n
    BY Zenon DEF DyIInv, DyTypeOK
  <2>3. dyWriter' = [w EXCEPT !.conn = c] /\ f = [kind |-> "I", v |-> w.v, conn |-> c]
    BY Zenon, <1>1, <2>1, <2>2
  <2>4. c \in 0 .. DyMaxConns
    BY <2>2, DyAssumption
  <2> QED
    BY Zenon, <2>1, <2>2, <2>3, <2>4 DEF Messages
<1>4. f.kind = "I" /\ f.v = dyWriter.v /\ f.conn = dyConn.n
  BY Zenon
<1> HIDE DEF f
<1>5. dyNet' = {f} /\ dyCoros' = <<>> /\ DOMAIN dyCoros' = {} /\ dySink' = NoSink /\ dyEntry' = NoEntry
  BY <1>1, <1>2
<1>6. ~ Handled' /\ \A m : Live(m)' <=> m = f
  BY Zenon, <1>5 DEF Handled, Live
<1>7. DyTypeOK'
  BY Zenon, <1>1, <1>2, <1>3, <1>5 DEF DyIInv, DyTypeOK
<1>8. dyConn.n \in Nat /\ dyWriter.v \in Nat
  BY Zenon, DyNumbers DEF DyIInv
<1>9. DyFreshInv'
  BY <1>1, <1>3, <1>8 DEF DyFreshInv
<1>10. FirstInv' /\ DistinctInv'
  BY <1>1, <1>3, <1>4, <1>5, <1>6, <1>8 DEF FirstInv, DistinctInv
<1>11. StagesInv' /\ TokensInv' /\ InterruptsInv' /\ WokenInv'
  BY Zenon, <1>5, <1>6 DEF StagesInv, TokensInv, InterruptsInv, WokenInv, Drains, NoSink
<1>12. UpInv'
  <2>1. dySink'.left = {}
    BY Zenon, <1>5 DEF NoSink
  <2>2. \A u \in Messages : ~ (f.v < u.v /\ u.v <= dyWriter'.v)
    BY <1>3, <1>4, <1>8, DyNumbers DEF DyIInv
  <2> QED
    BY Zenon, <2>1, <2>2, <1>3, <1>4, <1>6 DEF UpInv
<1> QED
  BY Zenon, <1>1, <1>2, <1>7, <1>9, <1>10, <1>11, <1>12 DEF DyIInv

(* OnValueChange keeps the inductive invariant.                            *)
LEMMA OnValueChangeKeeps == ASSUME DyIInv, OnValueChange PROVE DyIInv'
<1> DEFINE f == [kind |-> "U", v |-> dyWriter.v + 1, conn |-> dyConn.n]
           Sends == dyConn.st = "up" /\ dyWriter.conn = dyConn.n
<1>1. /\ dyWriter.v < DyMaxChanges /\ dyWriter' = [dyWriter EXCEPT !.v = @ + 1]
      /\ dyNet' = (IF Sends THEN dyNet \cup {f} ELSE dyNet)
      /\ UNCHANGED <<dyConn, dyCoros, dySink, dyEntry, dyFailed>>
  BY Zenon DEF OnValueChange
<1>2. /\ dyWriter' \in [v : 0 .. DyMaxChanges, conn : 0 .. DyMaxConns] /\ f \in Messages
      /\ dyWriter'.v = dyWriter.v + 1 /\ dyWriter'.conn = dyWriter.conn /\ dyWriter.v \in Nat
  <2>1. PICK w \in [v : 0 .. DyMaxChanges, conn : 0 .. DyMaxConns] : w = dyWriter
    BY Zenon DEF DyIInv, DyTypeOK
  <2>2. PICK c \in 1 .. DyMaxConns : c = dyConn.n
    BY Zenon DEF DyIInv, DyTypeOK
  <2>3. w.v + 1 \in 0 .. DyMaxChanges /\ w.v \in Nat
    BY <1>1, <2>1, DyAssumption
  <2>4. dyWriter' = [w EXCEPT !.v = w.v + 1] /\ f = [kind |-> "U", v |-> w.v + 1, conn |-> c]
    BY Zenon, <1>1, <2>1, <2>2
  <2> QED
    BY Zenon, <2>1, <2>2, <2>3, <2>4 DEF Messages
<1>3. f.kind = "U" /\ f.v = dyWriter.v + 1 /\ f.conn = dyConn.n
  BY Zenon
<1> HIDE DEF f
<1>4. \A m \in Messages : m.v \in Nat
  BY Zenon, DyNumbers DEF DyIInv
<1>5. \A m \in Messages : Live(m) => m.conn = dyConn.n /\ m.v <= dyWriter.v /\ m # f
  BY <1>2, <1>3, <1>4 DEF DyIInv, FirstInv
<1>6. /\ \A m : Live(m) => Live(m)'
      /\ \A m : Live(m)' => Live(m) \/ (Sends /\ m = f)
      /\ Sends => f \in dyNet'
      /\ Handled' <=> Handled
  <2>1. (Sends => dyNet' = dyNet \cup {f}) /\ (~ Sends => dyNet' = dyNet) /\ UNCHANGED dyCoros
    BY Zenon, <1>1
  <2> HIDE DEF Sends
  <2> QED
    BY Zenon, <2>1 DEF Live, Handled, IsFirst
<1>7. DyTypeOK'
  <2>1. dyNet' \subseteq Messages
    BY Zenon, <1>1, <1>2 DEF DyIInv, DyTypeOK
  <2> QED
    BY Zenon, <2>1, <1>1, <1>2 DEF DyIInv, DyTypeOK
<1>8. DyFreshInv'
  BY Zenon, <1>1, <1>2 DEF DyIInv, DyFreshInv
<1>9. FirstInv'
  <2>1. ASSUME NEW m \in Messages, Live(m)' PROVE m.conn = dyConn'.n /\ m.v <= dyWriter'.v
    BY <2>1, <1>1, <1>2, <1>3, <1>4, <1>5, <1>6
  <2>2. ASSUME NEW a \in Messages, NEW c \in Messages, Live(a)', Live(c)', a.kind = "I"
        PROVE  IF c.kind = "I" THEN a = c ELSE a.v < c.v
    <3>1. Live(a) /\ a.v <= dyWriter.v
      BY Zenon, <2>2, <1>3, <1>5, <1>6
    <3>2. CASE Live(c)
      BY Zenon, <3>1, <3>2, <2>2 DEF DyIInv, FirstInv
    <3>3. CASE c = f
      BY <3>1, <3>3, <1>2, <1>3, <1>4
    <3> QED
      BY Zenon, <3>2, <3>3, <2>2, <1>6
  <2> QED
    BY Zenon, <2>1, <2>2 DEF FirstInv
<1>10. DistinctInv'
  <2>1. \A i \in DOMAIN dyCoros : dyCoros[i].m # f /\ dyCoros[i].m \notin dyNet
    BY Zenon, <1>5, CoroTypes DEF DyIInv, DistinctInv, Live
  <2> QED
    BY Zenon, <2>1, <1>1 DEF DyIInv, DistinctInv
<1>11. StagesInv'
  <2>1. (\E m \in dyNet' : m.kind = "I") => \E m \in dyNet : m.kind = "I"
    BY Zenon, <1>1, <1>3
  <2> QED
    BY Zenon, <2>1, <1>1, <1>6 DEF DyIInv, StagesInv, IsFirst
<1>12. TokensInv'
  <2>1. ASSUME Handled
        PROVE  /\ dySink.next <= dyWriter.v + 2 /\ dySink.next <= f.v /\ f.v \notin dySink.left
               /\ \A t \in dySink.left : t <= dyWriter.v + 1
    BY <2>1, <1>2, <1>3, DyNumbers DEF DyIInv, TokensInv
  <2>2. ASSUME Handled
        PROVE \A m \in Messages : Live(m)' /\ m.kind = "U" => dySink.next <= m.v /\ m.v \notin dySink.left
    BY Zenon, <2>1, <2>2, <1>6 DEF DyIInv, TokensInv
  <2>3. dyWriter'.v + 1 = dyWriter.v + 2
    BY <1>2
  <2>4. Handled' =>
         /\ dyEntry'.conn = dyConn'.n /\ dyEntry'.v < dySink'.next /\ dySink'.next <= dyWriter'.v + 1
         /\ \A t \in dySink'.left : dySink'.next < t /\ t <= dyWriter'.v
    BY Zenon, <2>1, <2>3, <1>1, <1>2, <1>6 DEF DyIInv, TokensInv
  <2> QED
    BY Zenon, <2>2, <2>4, <1>1, <1>6 DEF DyIInv, TokensInv, IsFirst
<1>13. InterruptsInv' /\ WokenInv'
  BY Zenon, <1>1 DEF DyIInv, InterruptsInv, WokenInv
<1>14. UpInv'
  <2> SUFFICES ASSUME dyConn.st = "up", dyWriter.conn = dyConn.n
               PROVE  \E m \in Messages :
                        /\ m.kind = "I" /\ Live(m)'
                        /\ \A u \in Messages :
                              u.kind = "U" /\ u.conn = dyConn.n /\ m.v < u.v /\ u.v <= dyWriter.v + 1 =>
                                 Live(u)' \/ (Handled /\ u.v < dySink.next)
    BY Zenon, <1>1, <1>2, <1>6 DEF DyIInv, UpInv
  <2>1. PICK m \in Messages :
                /\ m.kind = "I" /\ Live(m)
                /\ \A u \in Messages :
                      u.kind = "U" /\ u.conn = dyConn.n /\ m.v < u.v /\ u.v <= dyWriter.v =>
                         Live(u) \/ (Handled /\ u.v < dySink.next)
    BY Zenon DEF DyIInv, UpInv
  <2>2. ASSUME NEW u \in Messages, u.kind = "U", u.conn = dyConn.n, u.v = dyWriter.v + 1 PROVE Live(u)'
    <3>1. u = f
      BY <2>2, <1>2, <1>3 DEF Messages
    <3> QED
      BY Zenon, <3>1, <1>6 DEF Live
  <2>3. \A u \in Messages : u.v <= dyWriter.v + 1 => u.v <= dyWriter.v \/ u.v = dyWriter.v + 1
    BY <1>2, <1>4
  <2> QED
    BY Zenon, <2>1, <2>2, <2>3, <1>6
<1> QED
  BY Zenon, <1>1, <1>7, <1>8, <1>9, <1>10, <1>11, <1>12, <1>13, <1>14 DEF DyIInv

(* What a message that reaches the reader leaves as it was; c are the      *)
(* coroutines before it.                                                   *)
LEMMA ArrivalFrame ==
    ASSUME DyIInv, NEW m \in dyNet, NEW x \in Stages, NEW c \in Seq(CoroRecs), Len(c) = Len(dyCoros),
           \A j \in DOMAIN dyCoros : c[j].m = dyCoros[j].m /\ c[j].int = dyCoros[j].int,
           dyCoros' = Append(c, Coro(m, x)), dyNet' = dyNet \ {m}, UNCHANGED <<dyConn, dyWriter>>
    PROVE  /\ dyCoros' \in Seq(CoroRecs) /\ dyNet' \subseteq Messages /\ m \in Messages
           /\ Len(dyCoros) \in Nat /\ DOMAIN dyCoros = 1 .. Len(dyCoros)
           /\ DOMAIN dyCoros' = 1 .. Len(dyCoros) + 1
           /\ \A j \in DOMAIN dyCoros : dyCoros'[j] = c[j]
           /\ LET k == Len(dyCoros) + 1
              IN  dyCoros'[k].m = m /\ dyCoros'[k].st = x /\ ~ dyCoros'[k].int
           /\ \A a : Live(a)' <=> Live(a)
           /\ Handled' <=> (Handled \/ m.kind = "I")
           /\ DyFreshInv' /\ FirstInv' /\ DistinctInv' /\ InterruptsInv'
<1>1. PICK n \in Nat : n = Len(dyCoros) /\ DOMAIN dyCoros = 1 .. n
  BY Zenon, CoroTypes DEF DyIInv
<1>2. m \in Messages /\ dyNet' \subseteq Messages
  BY Zenon DEF DyIInv, DyTypeOK
<1>3. /\ Coro(m, x) \in CoroRecs /\ Coro(m, x).m = m /\ Coro(m, x).st = x /\ ~ Coro(m, x).int
  BY Zenon, <1>2 DEF Coro, CoroRecs
<1>4. PICK r \in CoroRecs : r = Coro(m, x)
  BY Zenon, <1>3
<1>5. /\ dyCoros' \in Seq(CoroRecs) /\ DOMAIN dyCoros' = 1 .. n + 1 /\ dyCoros'[n + 1] = r
      /\ \A j \in 1 .. n : dyCoros'[j] = c[j]
  BY <1>1, <1>4
<1>6. /\ \A j \in 1 .. n : dyCoros'[j].m = dyCoros[j].m /\ dyCoros'[j].int = dyCoros[j].int
      /\ dyCoros'[n + 1].m = m /\ dyCoros'[n + 1].st = x /\ ~ dyCoros'[n + 1].int
  BY Zenon, <1>1, <1>3, <1>4, <1>5
<1>7. \A j \in 1 .. n + 1 : j \in 1 .. n \/ j = n + 1
  BY <1>1
<1>8. n + 1 \in 1 .. n + 1 /\ \A j \in 1 .. n : j \in 1 .. n + 1 /\ ~ (n + 1 < j)
  BY <1>1
<1>9. \A j \in 1 .. n : dyCoros[j].m \notin dyNet
  BY Zenon, <1>1 DEF DyIInv, DistinctInv
<1>10. \A a : Live(a)' <=> Live(a)
  <2> SUFFICES ASSUME NEW a PROVE Live(a)' <=> Live(a)
    BY Zenon
  <2>1. Live(a)' => Live(a)
    BY <1>1, <1>5, <1>6, <1>7 DEF Live
  <2>2. CASE a = m
    BY Zenon, <2>2, <1>5, <1>6, <1>8 DEF Live
  <2>3. CASE a # m
    BY <2>3, <1>1, <1>5, <1>6, <1>8 DEF Live
  <2> QED
    BY Zenon, <2>1, <2>2, <2>3
<1>11. Handled' <=> (Handled \/ m.kind = "I")
  BY <1>1, <1>5, <1>6, <1>7, <1>8 DEF Handled, IsFirst
<1>12. DyFreshInv'
  BY Zenon, BusyConnection DEF DyIInv, DyFreshInv
<1>13. FirstInv'
  BY Zenon, <1>10 DEF DyIInv, FirstInv
<1>14. DistinctInv'
  <2>1. \A j \in 1 .. n : dyCoros'[j].m # m
    BY Zenon, <1>6, <1>9
  <2>2. \A j, k \in 1 .. n : dyCoros'[j].m = dyCoros'[k].m => j = k
    BY <1>1, <1>6 DEF DyIInv, DistinctInv
  <2>3. \A j \in DOMAIN dyCoros' : dyCoros'[j].m \notin dyNet'
    BY Zenon, <1>5, <1>6, <1>7, <1>9
  <2>4. \A j, k \in DOMAIN dyCoros' : dyCoros'[j].m = dyCoros'[k].m => j = k
    BY <2>1, <2>2, <1>5, <1>6, <1>7
  <2> QED
    BY Zenon, <2>3, <2>4 DEF DistinctInv
<1>15. InterruptsInv'
  <2>1. \A j \in DOMAIN dyCoros' : dyCoros'[j].int => dyConn'.st = "closing"
    BY Zenon, <1>1, <1>5, <1>6, <1>7 DEF DyIInv, InterruptsInv
  <2>2. \A j, k \in DOMAIN dyCoros' : j < k /\ dyCoros'[k].int => dyCoros'[j].int
    BY <1>1, <1>5, <1>6, <1>7, <1>8 DEF DyIInv, InterruptsInv
  <2> QED
    BY Zenon, <2>1, <2>2 DEF InterruptsInv
<1> QED
  BY Zenon, <1>1, <1>2, <1>5, <1>6, <1>10, <1>11, <1>12, <1>13, <1>14, <1>15

(* PropagateUpdate keeps the inductive invariant.                          *)
LEMMA PropagateUpdateKeeps ==
    ASSUME DyIInv, NEW m \in dyNet, OnMessage(m), PropagateUpdate(m)
    PROVE  DyIInv'
<1> DEFINE k == Len(dyCoros) + 1
           y == IF dySink.known THEN Joined(m) ELSE "init"
<1>1. /\ dyNet' = dyNet \ {m} /\ UNCHANGED <<dyConn, dyWriter, dySink, dyEntry, dyFailed>> /\ m.kind = "U"
      /\ dyCoros' = Append(dyCoros, Coro(m, y))
  BY Zenon DEF OnMessage, PropagateUpdate
<1>2. PICK x \in Stages : x = y
  BY Zenon DEF Joined, Stages
<1>3. /\ x \in {"yield", "turn", "init"} /\ (x = "yield" => m.v = dySink.next)
      /\ (dySink.known <=> x # "init")
  BY Zenon, <1>2 DEF Joined
<1>4. PICK c \in Seq(CoroRecs) : c = dyCoros
  BY Zenon, CoroTypes DEF DyIInv
<1>5. dyCoros' = Append(c, Coro(m, x))
  BY Zenon, <1>1, <1>2, <1>4
<1> HIDE DEF y
<1>6. /\ dyCoros' \in Seq(CoroRecs) /\ dyNet' \subseteq Messages /\ m \in Messages
      /\ \A j \in DOMAIN dyCoros : j \in DOMAIN dyCoros' /\ dyCoros'[j] = dyCoros[j]
      /\ \A j \in DOMAIN dyCoros' : j \in DOMAIN dyCoros \/ j = k
      /\ dyCoros'[k].m = m /\ dyCoros'[k].st = x /\ ~ dyCoros'[k].int
      /\ \A a : Live(a)' <=> Live(a)
      /\ Handled' <=> Handled
      /\ DyFreshInv' /\ FirstInv' /\ DistinctInv' /\ InterruptsInv'
  BY <1>1, <1>4, <1>5, ArrivalFrame
<1> HIDE DEF k
<1>7. DyTypeOK'
  BY Zenon, <1>1, <1>6 DEF DyIInv, DyTypeOK, CoroRecs
<1>8. StagesInv'
  <2>1. \A j \in DOMAIN dyCoros' : IsFirst(j)' <=> dyCoros'[j].st \in {"wait", "drain"}
    BY <1>1, <1>3, <1>6 DEF DyIInv, StagesInv, IsFirst
  <2>2. ASSUME \E f \in dyNet' : f.kind = "I" PROVE \A j \in DOMAIN dyCoros' : dyCoros'[j].st = "init"
    <3>1. \A j \in DOMAIN dyCoros : dyCoros[j].st = "init"
      BY Zenon, <2>2, <1>1 DEF DyIInv, StagesInv
    <3>2. ~ Handled
      BY Zenon, <3>1 DEF DyIInv, StagesInv, Handled
    <3>3. x = "init"
      BY <3>2, <1>3 DEF DyIInv, StagesInv, NoSink
    <3> QED
      BY Zenon, <3>1, <3>3, <1>6
  <2>3. ASSUME ~ Handled' PROVE dySink' = NoSink /\ dyEntry' = NoEntry /\ Drains(dyCoros')
    <3>1. dySink = NoSink /\ dyEntry = NoEntry /\ Drains(dyCoros)
      BY Zenon, <2>3, <1>6 DEF DyIInv, StagesInv
    <3>2. x = "init"
      BY Zenon, <3>1, <1>3 DEF NoSink
    <3> QED
      BY Zenon, <3>1, <3>2, <1>1, <1>6 DEF Drains, UsesSink
  <2>4. /\ \A j \in DOMAIN dyCoros' : dyCoros'[j].st = "wait" => dySink'.known
        /\ \A j \in DOMAIN dyCoros' : dyCoros'[j].st = "drain" => ~ dySink'.known /\ dyCoros'[j].int
    BY <1>1, <1>3, <1>6 DEF DyIInv, StagesInv
  <2>5. dySink'.known => \A j \in DOMAIN dyCoros' : dyCoros'[j].st # "init"
    BY <1>1, <1>3, <1>6 DEF DyIInv, StagesInv
  <2> QED
    BY Zenon, <2>1, <2>2, <2>3, <2>4, <2>5 DEF StagesInv
<1>9. TokensInv'
  <2>1. \A j \in DOMAIN dyCoros' : IsFirst(j)' => dyCoros'[j].m.v < dySink'.next
    BY <1>1, <1>6 DEF DyIInv, TokensInv, IsFirst
  <2>2. \A j \in DOMAIN dyCoros' : dyCoros'[j].st = "yield" => dyCoros'[j].m.v = dySink'.next
    BY <1>1, <1>3, <1>6 DEF DyIInv, TokensInv
  <2> QED
    BY Zenon, <2>1, <2>2, <1>1, <1>6 DEF DyIInv, TokensInv
<1>10. WokenInv'
  BY <1>3, <1>6 DEF DyIInv, WokenInv
<1>11. UpInv'
  BY Zenon, <1>1, <1>6 DEF DyIInv, UpInv
<1> QED
  BY Zenon, <1>1, <1>6, <1>7, <1>8, <1>9, <1>10, <1>11 DEF DyIInv

(* HandleConnection keeps the inductive invariant.                         *)
LEMMA HandleConnectionKeeps ==
    ASSUME DyIInv, NEW m \in dyNet, OnMessage(m), HandleConnection(m)
    PROVE  DyIInv'
<1> DEFINE k == Len(dyCoros) + 1
           woken == [i \in DOMAIN dyCoros |-> IF dyCoros[i].st = "init"
                                              THEN [dyCoros[i] EXCEPT !.st = "woken"] ELSE dyCoros[i]]
<1>1. /\ dyNet' = dyNet \ {m} /\ UNCHANGED <<dyConn, dyWriter, dyFailed>> /\ m.kind = "I"
      /\ dyEntry' = [v |-> m.v, conn |-> m.conn]
      /\ dySink' = [known |-> TRUE, next |-> m.v + 1, left |-> {}]
      /\ dyCoros' = Append(woken, Coro(m, "wait"))
  BY Zenon DEF OnMessage, HandleConnection
<1>2. \A i \in DOMAIN dyCoros : dyCoros[i].st = "init" /\ dyCoros[i].m.kind = "U"
  <2>1. \A i \in DOMAIN dyCoros : dyCoros[i].st = "init" /\ ~ IsFirst(i)
    BY Zenon, <1>1 DEF DyIInv, StagesInv
  <2> QED
    BY Zenon, <2>1, CoroTypes, DyNumbers DEF DyIInv, IsFirst
<1>3. ~ Handled
  BY Zenon, <1>2 DEF Handled, IsFirst
<1>4. PICK c \in Seq(CoroRecs) :
         /\ c = woken /\ Len(c) = Len(dyCoros)
         /\ \A i \in DOMAIN dyCoros : /\ c[i].m = dyCoros[i].m /\ c[i].int = dyCoros[i].int
                                      /\ c[i].st = "woken"
  <2>1. PICK n \in Nat : n = Len(dyCoros) /\ DOMAIN dyCoros = 1 .. n
    BY Zenon, CoroTypes DEF DyIInv
  <2>3. \A i \in 1 .. n : dyCoros[i] \in CoroRecs /\ woken[i] = [dyCoros[i] EXCEPT !.st = "woken"]
    BY Zenon, <2>1, <1>2, CoroTypes DEF DyIInv
  <2>4. \A i \in 1 .. n : /\ woken[i] \in CoroRecs /\ woken[i].m = dyCoros[i].m
                          /\ woken[i].int = dyCoros[i].int /\ woken[i].st = "woken"
    <3> TAKE i \in 1 .. n
    <3>1. PICK r \in CoroRecs : r = dyCoros[i]
      BY Zenon, <2>3
    <3>2. PICK q : q = [r EXCEPT !.st = "woken"]
      BY ONLY Zenon
    <3>3. q \in CoroRecs /\ q.m = r.m /\ q.int = r.int /\ q.st = "woken"
      BY Zenon, <3>2 DEF CoroRecs, Stages
    <3>4. woken[i] = q
      BY Zenon, <2>3, <3>1, <3>2
    <3> HIDE DEF woken
    <3> QED
      BY Zenon, <3>1, <3>3, <3>4
  <2>5. woken = [i \in 1 .. n |-> woken[i]]
    BY Zenon, <2>1
  <2> HIDE DEF woken
  <2>6. woken \in Seq(CoroRecs) /\ Len(woken) = n
    BY <2>4, <2>5
  <2> QED
    BY Zenon, <2>1, <2>4, <2>6
<1>5. dyCoros' = Append(c, Coro(m, "wait")) /\ "wait" \in Stages
  BY Zenon, <1>1, <1>4 DEF Stages
<1> HIDE DEF woken
<1>6. /\ dyCoros' \in Seq(CoroRecs) /\ dyNet' \subseteq Messages /\ m \in Messages
      /\ \A j \in DOMAIN dyCoros : j \in DOMAIN dyCoros' /\ dyCoros'[j] = c[j] /\ j < k
      /\ \A j \in DOMAIN dyCoros' : j \in DOMAIN dyCoros \/ j = k
      /\ k \in DOMAIN dyCoros' /\ dyCoros'[k].m = m /\ dyCoros'[k].st = "wait" /\ ~ dyCoros'[k].int
      /\ \A a : Live(a)' <=> Live(a)
      /\ Handled'
      /\ DyFreshInv' /\ FirstInv' /\ DistinctInv' /\ InterruptsInv'
  BY <1>1, <1>4, <1>5, ArrivalFrame
<1> HIDE DEF k
<1>7. /\ dySink'.known /\ dySink'.next = m.v + 1 /\ dySink'.left = {}
      /\ dyEntry'.v = m.v /\ dyEntry'.conn = m.conn /\ m.v \in Nat
      /\ m.v \in 0 .. DyMaxChanges /\ m.conn \in 1 .. DyMaxConns
  BY Zenon, <1>1, <1>6, DyNumbers DEF DyIInv, Messages
<1>8. DyTypeOK'
  <2>1. m.v + 1 \in 0 .. DyMaxChanges + 1 /\ m.conn \in 0 .. DyMaxConns
    BY <1>7, DyAssumption
  <2>2. dySink' \in [known : BOOLEAN, next : 0 .. DyMaxChanges + 1, left : SUBSET (1 .. DyMaxChanges)]
    BY Zenon, <2>1, <1>1
  <2>3. dyEntry' \in [v : 0 .. DyMaxChanges, conn : 0 .. DyMaxConns]
    BY Zenon, <2>1, <1>1, <1>7
  <2> QED
    BY Zenon, <2>2, <2>3, <1>1, <1>6 DEF DyIInv, DyTypeOK, CoroRecs
<1>9. Live(m) /\ m.conn = dyConn.n /\ m.v <= dyWriter.v
  BY Zenon, <1>6 DEF DyIInv, FirstInv, Live
<1>10. \A j \in DOMAIN dyCoros : dyCoros'[j].st = "woken" /\ dyCoros'[j].m.kind = "U"
  <2>1. \A j \in DOMAIN dyCoros : dyCoros'[j] = c[j]
    BY Zenon, <1>6
  <2> QED
    BY Zenon, <2>1, <1>2, <1>4
<1>11. StagesInv'
  <2>1. \A j \in DOMAIN dyCoros' : IsFirst(j)' <=> dyCoros'[j].st \in {"wait", "drain"}
    BY Zenon, <1>1, <1>6, <1>10 DEF IsFirst
  <2>2. ~ \E f \in dyNet' : f.kind = "I"
    <3> SUFFICES ASSUME NEW f \in dyNet, f # m, f.kind = "I" PROVE FALSE
      BY Zenon, <1>1
    <3>1. Live(f) /\ f \in Messages
      BY Zenon DEF Live, DyIInv, DyTypeOK
    <3> QED
      BY Zenon, <3>1, <1>1, <1>6, <1>9 DEF DyIInv, FirstInv
  <2>3. \A j \in DOMAIN dyCoros' : dyCoros'[j].st \in {"woken", "wait"}
    BY Zenon, <1>6, <1>10
  <2> QED
    BY Zenon, <2>1, <2>2, <2>3, <1>6, <1>7 DEF StagesInv
<1>12. TokensInv'
  <2>1. ASSUME NEW a \in Messages, Live(a)', a.kind = "U" PROVE dySink'.next <= a.v
    <3>1. m.v < a.v /\ a.v \in Nat
      BY Zenon, <2>1, <1>1, <1>6, <1>9, DyNumbers DEF DyIInv, FirstInv
    <3> QED
      BY <3>1, <1>7
  <2>2. dyEntry'.v < dySink'.next /\ dySink'.next <= dyWriter'.v + 1 /\ dyEntry'.conn = dyConn'.n
    BY <1>1, <1>7, <1>9, DyNumbers DEF DyIInv
  <2>3. \A j \in DOMAIN dyCoros' : /\ IsFirst(j)' => dyCoros'[j].m.v < dySink'.next
                                   /\ dyCoros'[j].st # "yield"
    BY <1>6, <1>7, <1>10 DEF IsFirst
  <2> QED
    BY Zenon, <2>1, <2>2, <2>3, <1>7 DEF TokensInv
<1>13. WokenInv'
  BY Zenon, <1>6, <1>10 DEF WokenInv
<1>14. UpInv'
  <2>1. dySink'.next = dyEntry'.v + 1
    BY Zenon, <1>7
  <2> QED
    BY Zenon, <2>1, <1>1, <1>3, <1>6, <1>7 DEF DyIInv, UpInv
<1> QED
  BY Zenon, <1>1, <1>6, <1>8, <1>11, <1>12, <1>13, <1>14 DEF DyIInv

(* There is one coroutine of the first message of a connection.            *)
LEMMA OneFirst ==
    ASSUME DyIInv, NEW i \in DOMAIN dyCoros, NEW j \in DOMAIN dyCoros, IsFirst(i), IsFirst(j)
    PROVE  i = j
<1>1. /\ dyCoros[i].m \in Messages /\ dyCoros[j].m \in Messages
      /\ Live(dyCoros[i].m) /\ Live(dyCoros[j].m)
  BY Zenon, CoroTypes DEF DyIInv, Live
<1>2. dyCoros[i].m = dyCoros[j].m
  BY Zenon, <1>1 DEF DyIInv, FirstInv, IsFirst
<1> QED
  BY Zenon, <1>2 DEF DyIInv, DistinctInv

(* An update finds its connection_info, or has its turn.                   *)
LEMMA JoiningKeeps ==
    ASSUME DyIInv, NEW i \in DOMAIN dyCoros, NEW st \in {"turn", "yield"}, dyCoros' = At(i, st),
           dyCoros[i].st = "turn" \/ (dyCoros[i].st = "woken" /\ dySink.known),
           st = "yield" => dyCoros[i].m.v = dySink.next,
           UNCHANGED <<dyConn, dyWriter, dyNet, dySink, dyEntry, dyFailed>>
    PROVE  DyIInv'
<1>0. st \in Stages
  BY Zenon DEF Stages
<1>1. /\ dyCoros' \in Seq(CoroRecs) /\ DOMAIN dyCoros' = DOMAIN dyCoros
      /\ \A j \in DOMAIN dyCoros : /\ dyCoros'[j].m = dyCoros[j].m /\ dyCoros'[j].int = dyCoros[j].int
                                   /\ j # i => dyCoros'[j].st = dyCoros[j].st
      /\ dyCoros'[i].st = st
  BY Zenon, <1>0, StageFrame
<1>2. /\ \A m : Live(m)' <=> Live(m)
      /\ Handled' <=> Handled
      /\ DyFreshInv' /\ FirstInv' /\ DistinctInv' /\ InterruptsInv'
  BY Zenon, <1>0, StageFrame
<1>3. WokenInv'
  BY Zenon, <1>0, StageFrame
<1>4. DyTypeOK' /\ ~ dyFailed'
  BY Zenon, <1>1 DEF DyIInv, DyTypeOK, CoroRecs
<1>5. ~ IsFirst(i) /\ Handled /\ ~ \E m \in dyNet : m.kind = "I"
  BY DEF DyIInv, StagesInv, Drains, UsesSink, NoSink
<1>6. StagesInv'
  <2>1. \A j \in DOMAIN dyCoros' : IsFirst(j)' <=> dyCoros'[j].st \in {"wait", "drain"}
    BY <1>1, <1>5 DEF DyIInv, StagesInv, IsFirst
  <2>2. /\ \A j \in DOMAIN dyCoros' : dyCoros'[j].st = "wait" => dySink'.known
        /\ \A j \in DOMAIN dyCoros' : dyCoros'[j].st = "drain" => ~ dySink'.known /\ dyCoros'[j].int
        /\ dySink'.known => \A j \in DOMAIN dyCoros' : dyCoros'[j].st # "init"
    BY <1>1 DEF DyIInv, StagesInv
  <2> QED
    BY Zenon, <2>1, <2>2, <1>2, <1>5 DEF StagesInv
<1>7. TokensInv'
  <2>1. /\ \A j \in DOMAIN dyCoros' : IsFirst(j)' => dyCoros'[j].m.v < dySink'.next
        /\ \A j \in DOMAIN dyCoros' : dyCoros'[j].st = "yield" => dyCoros'[j].m.v = dySink'.next
    BY <1>1 DEF DyIInv, TokensInv, IsFirst
  <2> QED
    BY Zenon, <2>1, <1>2 DEF DyIInv, TokensInv
<1>8. UpInv'
  BY Zenon, <1>2 DEF DyIInv, UpInv
<1> QED
  BY Zenon, <1>2, <1>3, <1>4, <1>6, <1>7, <1>8 DEF DyIInv

(* UpdateIsWoken keeps the inductive invariant.                            *)
LEMMA UpdateIsWokenKeeps ==
    ASSUME DyIInv, NEW i \in DOMAIN dyCoros, UpdateIsWoken(i)
    PROVE  DyIInv'
<1>1. dyCoros[i].st = "woken" /\ ~ dyCoros[i].int
  BY Zenon DEF UpdateIsWoken
<1>2. dySink.known
  BY Zenon, <1>1 DEF DyIInv, WokenInv, StagesInv
<1>3. /\ dyCoros' = At(i, Joined(dyCoros[i].m))
      /\ UNCHANGED <<dyConn, dyWriter, dyNet, dySink, dyEntry, dyFailed>>
  BY Zenon, <1>2 DEF UpdateIsWoken
<1>4. PICK st \in {"turn", "yield"} : st = Joined(dyCoros[i].m)
  BY Zenon DEF Joined
<1>5. st = "yield" => dyCoros[i].m.v = dySink.next
  BY Zenon, <1>4 DEF Joined
<1>6. dyCoros' = At(i, st)
  BY Zenon, <1>3, <1>4
<1> QED
  BY Zenon, <1>1, <1>2, <1>3, <1>5, <1>6, JoiningKeeps

(* UpdateHasItsTurn keeps the inductive invariant.                         *)
LEMMA UpdateHasItsTurnKeeps ==
    ASSUME DyIInv, NEW i \in DOMAIN dyCoros, UpdateHasItsTurn(i)
    PROVE  DyIInv'
BY Zenon, JoiningKeeps DEF UpdateHasItsTurn

(* The end of a coroutine that is not of the first message.                *)
LEMMA StagesAtEnd ==
    ASSUME DyIInv, NEW i \in DOMAIN dyCoros, ~ IsFirst(i), dyCoros' = Others(i),
           UNCHANGED <<dyConn, dyWriter, dyNet>>, dySink'.known = dySink.known,
           ~ Handled => UNCHANGED <<dySink, dyEntry>>
    PROVE  StagesInv'
<1>1. /\ \A j \in DOMAIN dyCoros' : \E k \in DOMAIN dyCoros : k # i /\ dyCoros'[j] = dyCoros[k]
      /\ Handled' <=> Handled
  BY Zenon, EndFrame
<1>2. /\ \A j \in DOMAIN dyCoros' : IsFirst(j)' <=> dyCoros'[j].st \in {"wait", "drain"}
      /\ \A j \in DOMAIN dyCoros' : dyCoros'[j].st = "wait" => dySink'.known
      /\ \A j \in DOMAIN dyCoros' : dyCoros'[j].st = "drain" => ~ dySink'.known /\ dyCoros'[j].int
      /\ dySink'.known => \A j \in DOMAIN dyCoros' : dyCoros'[j].st # "init"
  BY <1>1 DEF DyIInv, StagesInv, IsFirst
<1>3. (\E m \in dyNet' : m.kind = "I") => \A j \in DOMAIN dyCoros' : dyCoros'[j].st = "init"
  BY <1>1 DEF DyIInv, StagesInv
<1>4. ~ Handled' => dySink' = NoSink /\ dyEntry' = NoEntry /\ Drains(dyCoros')
  BY Zenon, <1>1 DEF DyIInv, StagesInv, Drains
<1> QED
  BY Zenon, <1>2, <1>3, <1>4 DEF StagesInv

(* An update leaves fifo_sink, having been made or not.                    *)
LEMMA LeavingSink ==
    ASSUME DyIInv, NEW i \in DOMAIN dyCoros, dyCoros[i].st \in {"turn", "yield"}, dyCoros' = Others(i),
           dySink' = Passed(dySink, dyCoros[i].m.v), UNCHANGED <<dyConn, dyWriter, dyNet>>
    PROVE  /\ dySink' \in [known : BOOLEAN, next : 0 .. DyMaxChanges + 1, left : SUBSET (1 .. DyMaxChanges)]
           /\ ~ IsFirst(i) /\ Handled /\ dySink.next <= dySink'.next /\ dySink'.next <= dyWriter.v + 1
           /\ dySink.next <= dyCoros[i].m.v
           /\ dySink.next = dyCoros[i].m.v =>
                 dySink.next < dySink'.next /\ (dySink.left = {} => dySink'.next = dySink.next + 1)
           /\ dySink.left = {} /\ dySink.next = dyCoros[i].m.v => dySink'.left = {}
           /\ StagesInv'
           /\ \A u \in Messages : Live(u)' /\ u.kind = "U" => dySink'.next <= u.v /\ u.v \notin dySink'.left
           /\ \A t \in dySink'.left : dySink'.next < t /\ t <= dyWriter.v
           /\ \A j \in DOMAIN dyCoros' : IsFirst(j)' => dyCoros'[j].m.v < dySink'.next
           /\ \A j \in DOMAIN dyCoros' : dyCoros'[j].st = "yield" => dyCoros'[j].m.v = dySink'.next
<1>1. PICK m \in Messages : m = dyCoros[i].m
  BY Zenon, CoroTypes DEF DyIInv
<1>2. ~ IsFirst(i) /\ Handled
  BY Zenon DEF DyIInv, StagesInv, Drains, UsesSink
<1>3. Live(m) /\ m.kind = "U" /\ m.conn = dyConn.n /\ m.v <= dyWriter.v /\ dySink.next <= m.v
  <2>1. Live(m)
    BY Zenon, <1>1 DEF Live
  <2>2. m.kind = "U"
    BY Zenon, <1>1, <1>2 DEF IsFirst, Messages
  <2> QED
    BY Zenon, <2>1, <2>2, <1>2 DEF DyIInv, FirstInv, TokensInv
<1>4. /\ dySink.next \in Nat /\ dyWriter.v \in Nat /\ DyMaxChanges \in Nat
      /\ dySink.left \subseteq 1 .. DyMaxChanges /\ \A u \in Messages : u.v \in Nat
  BY Zenon, DyNumbers, DyAssumption DEF DyIInv, DyTypeOK
<1>5. PICK t \in 1 .. DyMaxChanges : t = m.v
  <2>1. PICK f \in DOMAIN dyCoros : IsFirst(f)
    BY Zenon, <1>2 DEF Handled
  <2>2. dyCoros[f].m.v < dySink.next /\ dyCoros[f].m.v \in Nat
    BY Zenon, <2>1, <1>4, CoroTypes DEF DyIInv, TokensInv
  <2>3. m.v \in 0 .. DyMaxChanges
    BY Zenon DEF Messages
  <2> QED
    BY <2>2, <2>3, <1>3, <1>4
<1>6. /\ dySink'.known = dySink.known
      /\ dySink' \in [known : BOOLEAN, next : 0 .. DyMaxChanges + 1, left : SUBSET (1 .. DyMaxChanges)]
      /\ dySink.next # t => dySink'.next = dySink.next /\ dySink'.left = dySink.left \cup {t}
      /\ dySink.next = t =>
           /\ t < dySink'.next /\ dySink'.left = {j \in dySink.left : dySink'.next < j}
           /\ \A j \in t + 1 .. dySink'.next - 1 : j \in dySink.left
  <2>1. dySink' = Passed(dySink, t)
    BY Zenon, <1>1, <1>5
  <2> QED
    BY Zenon, <2>1, PassedIs DEF DyIInv
<1>7. PICK next \in Nat : next = dySink.next
  BY Zenon, <1>4
<1>8. PICK new \in Nat : new = dySink'.next
  BY <1>4, <1>6
<1>9. PICK left \in SUBSET (1 .. DyMaxChanges) : left = dySink.left
  BY Zenon, <1>4
<1>10. \A s \in left : next < s /\ s <= dyWriter.v /\ s \in Nat
  BY <1>2, <1>4, <1>7, <1>9 DEF DyIInv, TokensInv
<1>11. /\ next <= t /\ t <= dyWriter.v
       /\ next # t => new = next /\ dySink'.left = left \cup {t}
       /\ next = t => /\ t < new /\ dySink'.left = {j \in left : new < j}
                      /\ \A j \in t + 1 .. new - 1 : j \in left
  BY Zenon, <1>3, <1>5, <1>6, <1>7, <1>8, <1>9
<1>12. next <= new /\ new <= dyWriter.v + 1
  <2>1. CASE next # t
    BY <2>1, <1>4, <1>11
  <2>2. CASE next = t
    <3>1. new = t + 1 \/ new - 1 \in t + 1 .. new - 1
      BY <2>2, <1>11
    <3> QED
      BY <3>1, <2>2, <1>4, <1>10, <1>11
  <2> QED
    BY Zenon, <2>1, <2>2
<1>13. next = t => next < new /\ (left = {} => new = next + 1 /\ dySink'.left = {})
  <2> SUFFICES ASSUME next = t, left = {} PROVE new = next + 1 /\ dySink'.left = {}
    BY Zenon, <1>11
  <2>1. ~ (t + 1 \in t + 1 .. new - 1)
    BY Zenon, <1>11
  <2> QED
    BY <2>1, <1>11
<1>14. \A s \in dySink'.left : new < s /\ s <= dyWriter.v
  <2>1. CASE next # t
    <3>1. next < t
      BY <2>1, <1>11
    <3> QED
      BY Zenon, <3>1, <2>1, <1>10, <1>11
  <2>2. CASE next = t
    BY Zenon, <2>2, <1>10, <1>11
  <2> QED
    BY Zenon, <2>1, <2>2
<1>15. StagesInv'
  BY Zenon, <1>2, <1>6, StagesAtEnd
<1>16. \A u \in Messages : Live(u) /\ u.kind = "U" /\ u.v = t => u = m
  <2> SUFFICES ASSUME NEW u \in Messages, Live(u), u.kind = "U", u.v = t PROVE u = m
    BY Zenon
  <2>1. u.conn = dyConn.n
    BY Zenon DEF DyIInv, FirstInv
  <2> QED
    BY <2>1, <1>3, <1>5 DEF Messages
<1>17. ASSUME NEW u \in Messages, Live(u)', u.kind = "U" PROVE new <= u.v /\ u.v \notin dySink'.left
  <2>1. Live(u) /\ u # m
    BY Zenon, <1>17, <1>1, EndFrame
  <2>2. next <= u.v /\ u.v \notin left /\ u.v \in Nat /\ u.v # t
    BY Zenon, <2>1, <1>2, <1>4, <1>7, <1>9, <1>16, <1>17 DEF DyIInv, TokensInv
  <2> QED
    BY <2>2, <1>11
<1>18. ASSUME NEW j \in DOMAIN dyCoros'
       PROVE  /\ IsFirst(j)' => dyCoros'[j].m.v < new
              /\ dyCoros'[j].st = "yield" => dyCoros'[j].m.v = new
  <2>1. PICK k \in DOMAIN dyCoros : k # i /\ dyCoros'[j] = dyCoros[k]
    BY Zenon, EndFrame
  <2>2. dyCoros[k].m \in Messages /\ Live(dyCoros[k].m) /\ dyCoros[k].m # m
    BY Zenon, <2>1, <1>1, CoroTypes DEF DyIInv, Live, DistinctInv
  <2>3. IsFirst(j)' => dyCoros'[j].m.v < new
    <3>1. IsFirst(k) => dyCoros[k].m.v < next
      BY Zenon, <1>7 DEF DyIInv, TokensInv
    <3> QED
      BY <3>1, <2>1, <2>2, <1>4, <1>12 DEF IsFirst
  <2>4. ASSUME dyCoros'[j].st = "yield" PROVE dyCoros'[j].m.v = new
    <3>1. dyCoros[k].m.v = next /\ dyCoros[k].m.kind = "U"
      BY <2>1, <2>2, <2>4, <1>7 DEF DyIInv, TokensInv, StagesInv, IsFirst, Messages
    <3>2. next # t
      BY Zenon, <3>1, <2>2, <1>16
    <3> QED
      BY Zenon, <3>1, <3>2, <2>1, <1>11
  <2> QED
    BY Zenon, <2>3, <2>4
<1> QED
  BY Zenon, <1>1, <1>2, <1>3, <1>5, <1>6, <1>7, <1>8, <1>9, <1>12, <1>13, <1>14, <1>15, <1>17, <1>18

(* UpdateIsMade keeps the inductive invariant.                             *)
LEMMA UpdateIsMadeKeeps ==
    ASSUME DyIInv, NEW i \in DOMAIN dyCoros, UpdateIsMade(i)
    PROVE  DyIInv' /\ dyEntry.v < dyEntry'.v
<1>1. /\ dyCoros[i].st = "yield" /\ dyEntry' = [v |-> dyCoros[i].m.v, conn |-> dyCoros[i].m.conn]
      /\ dySink' = Passed(dySink, dyCoros[i].m.v) /\ dyCoros' = Others(i)
      /\ UNCHANGED <<dyConn, dyWriter, dyNet, dyFailed>>
  BY Zenon DEF UpdateIsMade
<1>2. PICK m \in Messages : m = dyCoros[i].m
  BY Zenon, CoroTypes DEF DyIInv
<1>3. Live(m) /\ m.conn = dyConn.n /\ m.v = dySink.next /\ dySink.next \in Nat
  <2>1. Live(m)
    BY Zenon, <1>2 DEF Live
  <2>2. m.v = dySink.next
    BY Zenon, <1>1, <1>2 DEF DyIInv, TokensInv
  <2> QED
    BY Zenon, <2>1, <2>2, DyNumbers DEF DyIInv, FirstInv
<1>4. /\ dySink' \in [known : BOOLEAN, next : 0 .. DyMaxChanges + 1, left : SUBSET (1 .. DyMaxChanges)]
      /\ ~ IsFirst(i) /\ Handled /\ dySink'.next <= dyWriter.v + 1
      /\ dySink.next < dySink'.next /\ (dySink.left = {} => dySink'.next = dySink.next + 1 /\ dySink'.left = {})
      /\ StagesInv'
      /\ \A u \in Messages : Live(u)' /\ u.kind = "U" => dySink'.next <= u.v /\ u.v \notin dySink'.left
      /\ \A t \in dySink'.left : dySink'.next < t /\ t <= dyWriter.v
      /\ \A j \in DOMAIN dyCoros' : IsFirst(j)' => dyCoros'[j].m.v < dySink'.next
      /\ \A j \in DOMAIN dyCoros' : dyCoros'[j].st = "yield" => dyCoros'[j].m.v = dySink'.next
  BY Zenon, <1>1, <1>2, <1>3, LeavingSink
<1>5. /\ dyCoros' \in Seq(CoroRecs) /\ (Handled' <=> Handled)
      /\ \A a : Live(a) /\ a # m => Live(a)'
      /\ DyFreshInv' /\ FirstInv' /\ DistinctInv' /\ InterruptsInv' /\ WokenInv'
  BY Zenon, <1>1, <1>2, <1>4, EndFrame
<1>6. dyEntry'.v = m.v /\ dyEntry'.conn = dyConn.n /\ dyEntry' \in [v : 0 .. DyMaxChanges, conn : 0 .. DyMaxConns]
  <2>1. m.v \in 0 .. DyMaxChanges /\ m.conn \in 0 .. DyMaxConns
    BY DyAssumption DEF Messages
  <2> QED
    BY Zenon, <2>1, <1>1, <1>2, <1>3
<1>7. DyTypeOK' /\ ~ dyFailed'
  BY Zenon, <1>1, <1>4, <1>5, <1>6 DEF DyIInv, DyTypeOK, CoroRecs
<1>8. TokensInv'
  <2>1. dyEntry'.v < dySink'.next
    BY Zenon, <1>3, <1>4, <1>6
  <2> QED
    BY Zenon, <2>1, <1>1, <1>4, <1>6 DEF TokensInv
<1>9. UpInv'
  <2> SUFFICES ASSUME dyConn.st = "up" PROVE UpInv'
    BY Zenon, <1>1 DEF UpInv
  <2>1. dySink'.left = {} /\ dySink'.next = dyEntry'.v + 1
    BY Zenon, <1>3, <1>4, <1>6 DEF DyIInv, UpInv
  <2>2. ASSUME dyWriter.conn = dyConn.n
        PROVE  \E f \in Messages :
                 /\ f.kind = "I" /\ Live(f)'
                 /\ \A u \in Messages : u.kind = "U" /\ u.conn = dyConn.n /\ f.v < u.v /\ u.v <= dyWriter.v =>
                       Live(u)' \/ u.v < dySink'.next
    <3>1. PICK f \in Messages :
            /\ f.kind = "I" /\ Live(f)
            /\ \A u \in Messages : u.kind = "U" /\ u.conn = dyConn.n /\ f.v < u.v /\ u.v <= dyWriter.v =>
                  Live(u) \/ u.v < dySink.next
      BY Zenon, <2>2 DEF DyIInv, UpInv
    <3>2. Live(f)'
      BY Zenon, <3>1, <1>2, <1>4, <1>5 DEF IsFirst
    <3>3. ASSUME NEW u \in Messages, u.kind = "U", u.conn = dyConn.n, f.v < u.v, u.v <= dyWriter.v
          PROVE  Live(u)' \/ u.v < dySink'.next
      <4>1. CASE Live(u) /\ u # m
        BY Zenon, <4>1, <1>5
      <4>2. CASE u = m
        BY Zenon, <4>2, <1>3, <1>4
      <4>3. CASE u.v < dySink.next
        BY <4>3, <1>3, <1>4, DyNumbers DEF DyIInv
      <4> QED
        BY Zenon, <4>1, <4>2, <4>3, <3>1, <3>3
    <3> QED
      BY Zenon, <3>1, <3>2, <3>3
  <2> QED
    BY Zenon, <2>1, <2>2, <1>1, <1>4, <1>5 DEF UpInv
<1>10. dyEntry.v < dyEntry'.v
  BY Zenon, <1>3, <1>4, <1>6 DEF DyIInv, TokensInv
<1> QED
  BY Zenon, <1>4, <1>5, <1>7, <1>8, <1>9, <1>10 DEF DyIInv

(* UpdateIsInterrupted keeps the inductive invariant.                      *)
LEMMA UpdateIsInterruptedKeeps ==
    ASSUME DyIInv, NEW i \in DOMAIN dyCoros, UpdateIsInterrupted(i)
    PROVE  DyIInv'
<1>1. /\ dyCoros[i].int /\ dyCoros[i].st \in {"init", "woken", "turn"}
      /\ dySink' = (IF dyCoros[i].st = "turn" THEN Passed(dySink, dyCoros[i].m.v) ELSE dySink)
      /\ dyCoros' = Others(i) /\ UNCHANGED <<dyConn, dyWriter, dyNet, dyEntry, dyFailed>>
  BY Zenon DEF UpdateIsInterrupted
<1>2. ~ IsFirst(i)
  BY Zenon, <1>1 DEF DyIInv, StagesInv
<1>3. /\ dyCoros' \in Seq(CoroRecs) /\ (Handled' <=> Handled)
      /\ \A a : Live(a)' => Live(a)
      /\ \A j \in DOMAIN dyCoros' : \E k \in DOMAIN dyCoros : k # i /\ dyCoros'[j] = dyCoros[k]
      /\ DyFreshInv' /\ FirstInv' /\ DistinctInv' /\ InterruptsInv' /\ WokenInv'
  BY Zenon, <1>1, <1>2, EndFrame
<1>4. UpInv'
  <2>1. dyConn.st = "closing"
    BY Zenon, <1>1 DEF DyIInv, InterruptsInv
  <2> QED
    BY Zenon, <2>1, <1>1 DEF UpInv
<1>5. CASE dyCoros[i].st = "turn"
  <2>1. dySink' = Passed(dySink, dyCoros[i].m.v)
    BY Zenon, <1>1, <1>5
  <2>2. /\ dySink' \in [known : BOOLEAN, next : 0 .. DyMaxChanges + 1, left : SUBSET (1 .. DyMaxChanges)]
        /\ Handled /\ dySink.next <= dySink'.next /\ dySink'.next <= dyWriter.v + 1
        /\ StagesInv'
        /\ \A u \in Messages : Live(u)' /\ u.kind = "U" => dySink'.next <= u.v /\ u.v \notin dySink'.left
        /\ \A t \in dySink'.left : dySink'.next < t /\ t <= dyWriter.v
        /\ \A j \in DOMAIN dyCoros' : IsFirst(j)' => dyCoros'[j].m.v < dySink'.next
        /\ \A j \in DOMAIN dyCoros' : dyCoros'[j].st = "yield" => dyCoros'[j].m.v = dySink'.next
    BY Zenon, <1>1, <1>5, <2>1, LeavingSink
  <2>3. DyTypeOK' /\ ~ dyFailed'
    BY Zenon, <1>1, <1>3, <2>2 DEF DyIInv, DyTypeOK, CoroRecs
  <2>4. dyEntry.v < dySink'.next /\ dyEntry.conn = dyConn.n
    <3>1. dyEntry.v < dySink.next /\ dyEntry.conn = dyConn.n
      BY Zenon, <2>2 DEF DyIInv, TokensInv
    <3>2. dyEntry.v \in Nat /\ dySink.next \in Nat /\ dySink'.next \in Nat
      BY <2>2, DyAssumption, DyNumbers DEF DyIInv, DyTypeOK
    <3> QED
      BY <3>1, <3>2, <2>2
  <2>5. TokensInv'
    BY Zenon, <1>1, <2>2, <2>4 DEF TokensInv
  <2> QED
    BY Zenon, <1>3, <1>4, <2>2, <2>3, <2>5 DEF DyIInv
<1>6. CASE dyCoros[i].st # "turn"
  <2>1. dySink' = dySink
    BY Zenon, <1>1, <1>6
  <2>2. StagesInv'
    BY Zenon, <1>1, <1>2, <2>1, StagesAtEnd
  <2>3. DyTypeOK' /\ ~ dyFailed'
    BY Zenon, <1>1, <1>3, <2>1 DEF DyIInv, DyTypeOK, CoroRecs
  <2>4. \A j \in DOMAIN dyCoros' : /\ IsFirst(j)' => dyCoros'[j].m.v < dySink.next
                                   /\ dyCoros'[j].st = "yield" => dyCoros'[j].m.v = dySink.next
    BY <1>3 DEF DyIInv, TokensInv, IsFirst
  <2>5. TokensInv'
    BY Zenon, <1>1, <1>3, <2>1, <2>4 DEF DyIInv, TokensInv
  <2> QED
    BY Zenon, <1>3, <1>4, <2>2, <2>3, <2>5 DEF DyIInv
<1> QED
  BY Zenon, <1>5, <1>6

(* handle_connection() deletes the entry and ends.                         *)
LEMMA DeletingKeeps ==
    ASSUME DyIInv, NEW i \in DOMAIN dyCoros, dyCoros[i].st \in {"wait", "drain"}, dyCoros[i].int,
           Drains(dyCoros), dySink' = NoSink, dyEntry' = NoEntry, dyCoros' = Others(i),
           UNCHANGED <<dyConn, dyWriter, dyNet, dyFailed>>
    PROVE  DyIInv'
<1>1. IsFirst(i) /\ ~ \E m \in dyNet : m.kind = "I"
  BY Zenon DEF DyIInv, StagesInv
<1>2. /\ dyCoros' \in Seq(CoroRecs) /\ ~ Handled'
      /\ \A j \in DOMAIN dyCoros' : \E k \in DOMAIN dyCoros : k # i /\ dyCoros'[j] = dyCoros[k]
      /\ DyFreshInv' /\ FirstInv' /\ DistinctInv' /\ InterruptsInv' /\ WokenInv'
  BY Zenon, <1>1, EndFrame
<1>3. DyTypeOK' /\ ~ dyFailed'
  <2>1. /\ NoSink \in [known : BOOLEAN, next : 0 .. DyMaxChanges + 1, left : SUBSET (1 .. DyMaxChanges)]
        /\ NoEntry \in [v : 0 .. DyMaxChanges, conn : 0 .. DyMaxConns]
    BY DyAssumption DEF NoSink, NoEntry
  <2> QED
    BY Zenon, <2>1, <1>2 DEF DyIInv, DyTypeOK, CoroRecs
<1>4. \A j \in DOMAIN dyCoros' : /\ ~ IsFirst(j)' /\ dyCoros'[j].st \notin {"wait", "drain", "turn", "yield"}
  BY <1>2 DEF DyIInv, StagesInv, Handled, IsFirst, Drains, UsesSink
<1>5. StagesInv' /\ TokensInv'
  <2>1. ~ dySink'.known
    BY Zenon DEF NoSink
  <2> QED
    BY Zenon, <2>1, <1>1, <1>2, <1>4 DEF StagesInv, TokensInv, Drains, UsesSink
<1>6. UpInv'
  BY Zenon DEF DyIInv, InterruptsInv, UpInv
<1> QED
  BY Zenon, <1>2, <1>3, <1>5, <1>6 DEF DyIInv

(* EntryIsDeleted keeps the inductive invariant.                           *)
LEMMA EntryIsDeletedKeeps ==
    ASSUME DyIInv, NEW i \in DOMAIN dyCoros, EntryIsDeleted(i)
    PROVE  DyIInv'
<1>1. dyCoros[i].st = "drain" /\ dyCoros[i].int
  BY Zenon DEF EntryIsDeleted, DyIInv, StagesInv
<1> QED
  BY Zenon, <1>1, DeletingKeeps DEF EntryIsDeleted

(* ConnectionEnds keeps the inductive invariant.                           *)
LEMMA ConnectionEndsKeeps ==
    ASSUME DyIInv, NEW i \in DOMAIN dyCoros, ConnectionEnds(i)
    PROVE  DyIInv'
<1>1. /\ dyCoros[i].st = "wait" /\ dyCoros[i].int /\ UNCHANGED <<dyConn, dyWriter, dyNet, dyFailed>>
  BY Zenon DEF ConnectionEnds
<1>2. CASE Drains(dyCoros)
  BY Zenon, <1>1, <1>2, DeletingKeeps DEF ConnectionEnds
<1>3. CASE ~ Drains(dyCoros)
  <2>1. dySink' = [dySink EXCEPT !.known = FALSE] /\ dyCoros' = At(i, "drain") /\ UNCHANGED dyEntry
    BY Zenon, <1>3 DEF ConnectionEnds
  <2>2. /\ dySink' \in [known : BOOLEAN, next : 0 .. DyMaxChanges + 1, left : SUBSET (1 .. DyMaxChanges)]
        /\ ~ dySink'.known /\ dySink'.next = dySink.next /\ dySink'.left = dySink.left
    <3>1. PICK s \in [known : BOOLEAN, next : 0 .. DyMaxChanges + 1, left : SUBSET (1 .. DyMaxChanges)] :
             s = dySink
      BY Zenon DEF DyIInv, DyTypeOK
    <3>2. dySink' = [s EXCEPT !.known = FALSE]
      BY Zenon, <2>1, <3>1
    <3> QED
      BY Zenon, <3>1, <3>2
  <2>3. /\ dyCoros' \in Seq(CoroRecs) /\ DOMAIN dyCoros' = DOMAIN dyCoros
        /\ \A j \in DOMAIN dyCoros : /\ dyCoros'[j].m = dyCoros[j].m /\ dyCoros'[j].int = dyCoros[j].int
                                     /\ j # i => dyCoros'[j].st = dyCoros[j].st
        /\ dyCoros'[i].st = "drain"
        /\ \A m : Live(m)' <=> Live(m)
        /\ Handled' <=> Handled
        /\ DyFreshInv' /\ FirstInv' /\ DistinctInv' /\ InterruptsInv' /\ WokenInv'
    <3>1. "drain" \in Stages
      BY Zenon DEF Stages
    <3> QED
      BY Zenon, <1>1, <2>1, <3>1, StageFrame
  <2>4. DyTypeOK' /\ ~ dyFailed'
    BY Zenon, <1>1, <2>1, <2>2, <2>3 DEF DyIInv, DyTypeOK, CoroRecs
  <2>5. IsFirst(i) /\ Handled /\ ~ \E m \in dyNet : m.kind = "I"
    BY Zenon, <1>1 DEF DyIInv, StagesInv, Handled
  <2>6. StagesInv'
    <3>1. \A j \in DOMAIN dyCoros' : IsFirst(j)' <=> dyCoros'[j].st \in {"wait", "drain"}
      BY <2>3, <2>5 DEF DyIInv, StagesInv, IsFirst
    <3>2. \A j \in DOMAIN dyCoros' : dyCoros'[j].st # "wait"
      <4> SUFFICES ASSUME NEW j \in DOMAIN dyCoros, dyCoros'[j].st = "wait" PROVE FALSE
        BY Zenon, <2>3
      <4>1. j # i /\ dyCoros[j].st = "wait"
        BY Zenon, <2>3
      <4>2. IsFirst(j)
        BY Zenon, <4>1 DEF DyIInv, StagesInv
      <4> QED
        BY Zenon, <4>1, <4>2, <2>5, OneFirst
    <3>3. \A j \in DOMAIN dyCoros' : dyCoros'[j].st = "drain" => dyCoros'[j].int
      BY Zenon, <1>1, <2>3 DEF DyIInv, StagesInv
    <3> QED
      BY Zenon, <3>1, <3>2, <3>3, <1>1, <2>2, <2>3, <2>5 DEF StagesInv
  <2>7. TokensInv'
    <3>1. \A j \in DOMAIN dyCoros' : /\ IsFirst(j)' => dyCoros'[j].m.v < dySink'.next
                                     /\ dyCoros'[j].st = "yield" => dyCoros'[j].m.v = dySink'.next
      BY <2>2, <2>3 DEF DyIInv, TokensInv, IsFirst
    <3> QED
      BY Zenon, <3>1, <1>1, <2>1, <2>2, <2>3 DEF DyIInv, TokensInv
  <2>8. UpInv'
    BY Zenon, <1>1 DEF DyIInv, InterruptsInv, UpInv
  <2> QED
    BY Zenon, <2>3, <2>4, <2>6, <2>7, <2>8 DEF DyIInv
<1> QED
  BY Zenon, <1>2, <1>3

(* InterruptorPulsed keeps the inductive invariant.                        *)
LEMMA InterruptorPulsedKeeps ==
    ASSUME DyIInv, NEW i \in DOMAIN dyCoros, InterruptorPulsed(i)
    PROVE  DyIInv'
<1>1. /\ dyConn.st = "closing" /\ \A j \in 1 .. i - 1 : dyCoros[j].int
      /\ dyCoros' = [dyCoros EXCEPT ![i] = [dyCoros[i] EXCEPT !.int = TRUE]]
      /\ UNCHANGED <<dyConn, dyWriter, dyNet, dySink, dyEntry, dyFailed>>
  BY Zenon DEF InterruptorPulsed
<1>2. PICK n \in Nat : DOMAIN dyCoros = 1 .. n /\ dyCoros \in [1 .. n -> CoroRecs] /\ i \in 1 .. n
  BY CoroTypes DEF DyIInv
<1>3. PICK q \in CoroRecs : q = dyCoros[i]
  BY Zenon, <1>2
<1>4. PICK r : r = [q EXCEPT !.int = TRUE]
  BY ONLY Zenon
<1>5. r \in CoroRecs /\ r.m = q.m /\ r.st = q.st /\ r.int
  BY Zenon, <1>4 DEF CoroRecs
<1>6. dyCoros' = [dyCoros EXCEPT ![i] = r]
  BY Zenon, <1>1, <1>3, <1>4
<1>7. /\ dyCoros' \in [1 .. n -> CoroRecs] /\ dyCoros'[i] = r
      /\ \A j \in 1 .. n : j # i => dyCoros'[j] = dyCoros[j]
  BY Zenon, <1>2, <1>5, <1>6
<1>8. /\ dyCoros' \in Seq(CoroRecs) /\ DOMAIN dyCoros' = 1 .. n
      /\ \A j \in 1 .. n : /\ dyCoros'[j].m = dyCoros[j].m /\ dyCoros'[j].st = dyCoros[j].st
                           /\ dyCoros[j].int => dyCoros'[j].int
                           /\ j # i => dyCoros'[j].int = dyCoros[j].int
      /\ dyCoros'[i].int
  BY <1>3, <1>5, <1>7
<1>9. (\A m : Live(m)' <=> Live(m)) /\ (Handled' <=> Handled)
  <2>1. DOMAIN dyCoros' = DOMAIN dyCoros /\ \A j \in DOMAIN dyCoros : dyCoros'[j].m = dyCoros[j].m
    BY Zenon, <1>2, <1>8
  <2> QED
    BY Zenon, <2>1, <1>1 DEF Live, Handled, IsFirst
<1>10. DyTypeOK' /\ ~ dyFailed'
  BY Zenon, <1>1, <1>8 DEF DyIInv, DyTypeOK, CoroRecs
<1>11. DyFreshInv'
  <2>1. dyConn.st # "down" /\ dyWriter.conn = dyConn.n
    BY Zenon, BusyConnection
  <2> QED
    BY Zenon, <2>1, <1>1 DEF DyIInv, DyFreshInv
<1>12. FirstInv' /\ DistinctInv'
  <2>1. FirstInv'
    BY Zenon, <1>1, <1>9 DEF DyIInv, FirstInv
  <2>2. DOMAIN dyCoros' = DOMAIN dyCoros /\ \A j \in DOMAIN dyCoros : dyCoros'[j].m = dyCoros[j].m
    BY Zenon, <1>2, <1>8
  <2>3. DistinctInv'
    BY <2>2, <1>1 DEF DyIInv, DistinctInv
  <2> QED
    BY Zenon, <2>1, <2>3
<1>13. StagesInv'
  <2>1. \A j \in 1 .. n : IsFirst(j)' <=> dyCoros'[j].st \in {"wait", "drain"}
    BY <1>2, <1>8 DEF DyIInv, StagesInv, IsFirst
  <2>2. (\E m \in dyNet' : m.kind = "I") => \A j \in 1 .. n : dyCoros'[j].st = "init"
    BY Zenon, <1>1, <1>2, <1>8 DEF DyIInv, StagesInv
  <2>3. ~ Handled' => dySink' = NoSink /\ dyEntry' = NoEntry /\ Drains(dyCoros')
    BY Zenon, <1>1, <1>2, <1>8, <1>9 DEF DyIInv, StagesInv, Drains, UsesSink
  <2>4. \A j \in 1 .. n : /\ dyCoros'[j].st = "wait" => dySink'.known
                          /\ dyCoros'[j].st = "drain" => ~ dySink'.known /\ dyCoros'[j].int
                          /\ dySink'.known => dyCoros'[j].st # "init"
    BY <1>1, <1>2, <1>8 DEF DyIInv, StagesInv
  <2> QED
    BY Zenon, <2>1, <2>2, <2>3, <2>4, <1>8 DEF StagesInv
<1>14. TokensInv'
  <2>1. \A j \in 1 .. n : /\ IsFirst(j)' => dyCoros'[j].m.v < dySink'.next
                          /\ dyCoros'[j].st = "yield" => dyCoros'[j].m.v = dySink'.next
    BY <1>1, <1>2, <1>8 DEF DyIInv, TokensInv, IsFirst
  <2> QED
    BY Zenon, <2>1, <1>1, <1>8, <1>9 DEF DyIInv, TokensInv
<1>15. InterruptsInv'
  <2>1. \A j, k \in 1 .. n : j < k /\ dyCoros'[k].int => dyCoros'[j].int
    BY <1>1, <1>2, <1>8 DEF DyIInv, InterruptsInv
  <2> QED
    BY <2>1, <1>1, <1>8 DEF InterruptsInv
<1>16. WokenInv'
  BY <1>2, <1>8 DEF DyIInv, WokenInv
<1>17. UpInv'
  BY Zenon, <1>1 DEF UpInv
<1> QED
  BY Zenon, <1>10, <1>11, <1>12, <1>13, <1>14, <1>15, <1>16, <1>17 DEF DyIInv

(* ConnectionIsLost keeps the inductive invariant.                         *)
LEMMA ConnectionIsLostKeeps == ASSUME DyIInv, ConnectionIsLost PROVE DyIInv'
<1>1. /\ dyConn.st = "up" /\ dyConn' = [dyConn EXCEPT !.st = "closing"] /\ dyNet' \subseteq dyNet
      /\ UNCHANGED <<dyWriter, dyCoros, dySink, dyEntry, dyFailed>>
  BY Zenon DEF ConnectionIsLost
<1>2. /\ dyConn' \in [n : 1 .. DyMaxConns, st : {"up", "closing", "down"}]
      /\ dyConn'.n = dyConn.n /\ dyConn'.st = "closing"
  <2>1. PICK c \in [n : 1 .. DyMaxConns, st : {"up", "closing", "down"}] : c = dyConn
    BY Zenon DEF DyIInv, DyTypeOK
  <2>2. dyConn' = [c EXCEPT !.st = "closing"]
    BY Zenon, <1>1, <2>1
  <2> QED
    BY Zenon, <2>1, <2>2
<1>3. (\A m : Live(m)' => Live(m)) /\ (Handled' <=> Handled)
  BY Zenon, <1>1 DEF Live, Handled, IsFirst
<1>4. DyTypeOK' /\ ~ dyFailed'
  <2>1. dyNet' \subseteq Messages
    BY Zenon, <1>1 DEF DyIInv, DyTypeOK
  <2> QED
    BY Zenon, <2>1, <1>1, <1>2 DEF DyIInv, DyTypeOK
<1>5. DyFreshInv'
  BY Zenon, <1>1, <1>2 DEF DyIInv, DyFreshInv
<1>6. FirstInv'
  BY Zenon, <1>1, <1>2, <1>3 DEF DyIInv, FirstInv
<1>7. DistinctInv'
  BY Zenon, <1>1 DEF DyIInv, DistinctInv
<1>8. StagesInv'
  BY Zenon, <1>1, <1>3 DEF DyIInv, StagesInv, IsFirst
<1>9. TokensInv'
  BY Zenon, <1>1, <1>2, <1>3 DEF DyIInv, TokensInv, IsFirst
<1>10. InterruptsInv' /\ WokenInv' /\ UpInv'
  BY <1>1, <1>2 DEF DyIInv, InterruptsInv, WokenInv, UpInv
<1> QED
  BY Zenon, <1>4, <1>5, <1>6, <1>7, <1>8, <1>9, <1>10 DEF DyIInv

(* A connection goes away, or another one is made, when nothing is left    *)
(* of the old one.                                                         *)
LEMMA EmptyKeeps ==
    ASSUME DyIInv, dyNet = {}, dyCoros = <<>>, dySink = NoSink, dyEntry = NoEntry,
           dyConn' \in [n : 1 .. DyMaxConns, st : {"up", "closing", "down"}],
           dyConn'.st = "down" \/ dyWriter.conn # dyConn'.n, dyWriter.conn <= dyConn'.n,
           UNCHANGED <<dyWriter, dyNet, dyCoros, dySink, dyEntry, dyFailed>>
    PROVE  DyIInv'
<1>1. (\A m : ~ Live(m)') /\ ~ Handled' /\ DOMAIN dyCoros' = {}
  BY DEF Live, Handled
<1>2. DyTypeOK' /\ ~ dyFailed'
  BY Zenon DEF DyIInv, DyTypeOK
<1>3. DyFreshInv' /\ FirstInv' /\ DistinctInv' /\ StagesInv' /\ TokensInv' /\ InterruptsInv' /\ WokenInv'
  BY Zenon, <1>1 DEF DyFreshInv, FirstInv, DistinctInv, StagesInv, TokensInv, InterruptsInv, WokenInv,
              Drains, NoSink
<1>4. UpInv'
  BY Zenon, <1>1 DEF UpInv, NoSink
<1> QED
  BY Zenon, <1>2, <1>3, <1>4 DEF DyIInv

(* ConnectionGoesAway keeps the inductive invariant.                       *)
LEMMA ConnectionGoesAwayKeeps == ASSUME DyIInv, ConnectionGoesAway PROVE DyIInv'
<1>1. dySink = NoSink /\ dyEntry = NoEntry
  BY DEF ConnectionGoesAway, DyIInv, StagesInv, Handled
<1>2. /\ dyConn' \in [n : 1 .. DyMaxConns, st : {"up", "closing", "down"}]
      /\ dyConn'.n = dyConn.n /\ dyConn'.st = "down"
  <2>1. PICK c \in [n : 1 .. DyMaxConns, st : {"up", "closing", "down"}] : c = dyConn
    BY Zenon DEF DyIInv, DyTypeOK
  <2>2. dyConn' = [c EXCEPT !.st = "down"]
    BY Zenon, <2>1 DEF ConnectionGoesAway
  <2> QED
    BY Zenon, <2>1, <2>2
<1>3. dyWriter.conn <= dyConn'.n
  BY Zenon, <1>2 DEF DyIInv, DyFreshInv
<1> QED
  BY Zenon, <1>1, <1>2, <1>3, EmptyKeeps DEF ConnectionGoesAway

(* NewConnection keeps the inductive invariant.                            *)
LEMMA NewConnectionKeeps == ASSUME DyIInv, NewConnection PROVE DyIInv'
<1>1. dyNet = {} /\ dyCoros = <<>> /\ dySink = NoSink /\ dyEntry = NoEntry
  BY Zenon DEF NewConnection, DyIInv, DyFreshInv
<1>2. /\ dyConn' \in [n : 1 .. DyMaxConns, st : {"up", "closing", "down"}]
      /\ dyWriter.conn # dyConn'.n /\ dyWriter.conn <= dyConn'.n
  <2>1. PICK n \in 1 .. DyMaxConns : n = dyConn.n
    BY Zenon DEF DyIInv, DyTypeOK
  <2>2. PICK w \in Nat : w = dyWriter.conn
    BY Zenon, DyNumbers, DyAssumption DEF DyIInv, DyTypeOK
  <2>3. w <= n /\ n < DyMaxConns /\ DyMaxConns \in Nat
    BY Zenon, <2>1, <2>2, DyAssumption DEF DyIInv, DyFreshInv, NewConnection
  <2>4. dyConn' = [n |-> n + 1, st |-> "up"] /\ n + 1 \in 1 .. DyMaxConns
    BY <2>1, <2>3 DEF NewConnection
  <2> QED
    BY <2>2, <2>3, <2>4
<1> QED
  BY Zenon, <1>1, <1>2, EmptyKeeps DEF NewConnection

(* Every step keeps the inductive invariant.                               *)
LEMMA StepDyIInv == ASSUME DyIInv, [DyNext]_dyVars PROVE DyIInv'
<1>1. CASE DyNext
  <2>1. CASE OnConnectionChange \/ OnValueChange
    BY Zenon, <2>1, OnConnectionChangeKeeps, OnValueChangeKeeps
  <2>2. CASE \E m \in dyNet : OnMessage(m)
    <3>1. PICK m \in dyNet : OnMessage(m)
      BY Zenon, <2>2
    <3>2. HandleConnection(m) \/ PropagateUpdate(m)
      BY Zenon, <3>1 DEF OnMessage
    <3> QED
      BY Zenon, <3>1, <3>2, HandleConnectionKeeps, PropagateUpdateKeeps
  <2>3. CASE \E i \in DOMAIN dyCoros :
               \/ UpdateIsWoken(i) \/ UpdateHasItsTurn(i) \/ UpdateIsMade(i) \/ UpdateIsInterrupted(i)
               \/ ConnectionEnds(i) \/ EntryIsDeleted(i) \/ InterruptorPulsed(i)
    BY Zenon, <2>3, UpdateIsWokenKeeps, UpdateHasItsTurnKeeps, UpdateIsMadeKeeps, UpdateIsInterruptedKeeps,
       ConnectionEndsKeeps, EntryIsDeletedKeeps, InterruptorPulsedKeeps
  <2>4. CASE ConnectionIsLost \/ ConnectionGoesAway \/ NewConnection
    BY Zenon, <2>4, ConnectionIsLostKeeps, ConnectionGoesAwayKeeps, NewConnectionKeeps
  <2> QED
    BY Zenon, <1>1, <2>1, <2>2, <2>3, <2>4 DEF DyNext
<1>2. CASE UNCHANGED dyVars
  <2>1. (\A m : Live(m)' <=> Live(m)) /\ (Handled' <=> Handled)
    BY Zenon, <1>2 DEF dyVars, Live, Handled, IsFirst
  <2>2. DyTypeOK' /\ ~ dyFailed' /\ DyFreshInv' /\ DistinctInv' /\ InterruptsInv' /\ WokenInv'
    BY Zenon, <1>2 DEF dyVars, DyIInv, DyTypeOK, DyFreshInv, DistinctInv, InterruptsInv, WokenInv
  <2>3. FirstInv' /\ UpInv'
    BY Zenon, <1>2, <2>1 DEF dyVars, DyIInv, FirstInv, UpInv
  <2>4. StagesInv' /\ TokensInv'
    BY Zenon, <1>2, <2>1 DEF dyVars, DyIInv, StagesInv, TokensInv, IsFirst, Drains
  <2> QED
    BY Zenon, <2>2, <2>3, <2>4 DEF DyIInv
<1> QED
  BY Zenon, <1>1, <1>2

(* At rest the entry shows the writer's value: were there an update to     *)
(* come, the one whose turn it is would be there too.                      *)
LEMMA UpToDateFromDyIInv == ASSUME DyIInv PROVE DirectoryIsUpToDate
<1> SUFFICES ASSUME dyConn.st = "up", DyQuiet
             PROVE  dyEntry = [v |-> dyWriter.v, conn |-> dyConn.n] /\ Len(dyCoros) = 1
  BY Zenon DEF DirectoryIsUpToDate
<1>1. dyNet = {} /\ dyWriter.conn = dyConn.n
  BY Zenon DEF DyQuiet
<1>2. PICK m \in Messages :
        /\ m.kind = "I" /\ Live(m)
        /\ \A u \in Messages : u.kind = "U" /\ u.conn = dyConn.n /\ m.v < u.v /\ u.v <= dyWriter.v =>
              Live(u) \/ (Handled /\ u.v < dySink.next)
  BY Zenon, <1>1 DEF DyIInv, UpInv
<1>3. PICK f \in DOMAIN dyCoros : dyCoros[f].m = m /\ IsFirst(f)
  BY Zenon, <1>1, <1>2 DEF Live, IsFirst
<1>4. Handled /\ dySink.known
  BY Zenon, <1>3 DEF DyIInv, StagesInv, InterruptsInv, Handled
<1>5. PICK next \in Nat : next = dySink.next
  BY Zenon, DyNumbers DEF DyIInv
<1>6. PICK w \in Nat : w = dyWriter.v
  BY Zenon, DyNumbers DEF DyIInv
<1>7. /\ next = dyEntry.v + 1 /\ next <= w + 1 /\ m.v < next /\ dyEntry.conn = dyConn.n
      /\ dyEntry.v \in Nat /\ m.v \in Nat
  BY Zenon, <1>3, <1>4, <1>5, <1>6, DyNumbers DEF DyIInv, UpInv, TokensInv
<1>8. \A j \in DOMAIN dyCoros : j # f => /\ dyCoros[j].st = "turn" /\ dyCoros[j].m.v # next
                                         /\ dyCoros[j].m.kind = "U"
  <2> SUFFICES ASSUME NEW j \in DOMAIN dyCoros, j # f
               PROVE  dyCoros[j].st = "turn" /\ dyCoros[j].m.v # next /\ dyCoros[j].m.kind = "U"
    BY Zenon
  <2>1. ~ IsFirst(j)
    BY Zenon, <1>3, OneFirst
  <2>2. dyCoros[j].st \notin {"wait", "init"}
    BY Zenon, <2>1, <1>4 DEF DyIInv, StagesInv
  <2>3. dyCoros[j].m.kind = "U"
    BY Zenon, <2>1, CoroTypes DEF DyIInv, IsFirst, Messages
  <2> QED
    BY Zenon, <2>2, <2>3, <1>5 DEF DyQuiet
<1>9. ASSUME next <= w PROVE FALSE
  <2>1. PICK n \in 1 .. DyMaxConns : n = dyConn.n
    BY Zenon DEF DyIInv, DyTypeOK
  <2>2. next \in 0 .. DyMaxChanges
    BY <1>6, <1>9, DyAssumption DEF DyIInv, DyTypeOK
  <2>3. PICK u \in Messages : u.kind = "U" /\ u.v = next /\ u.conn = n
    <3>1. [kind |-> "U", v |-> next, conn |-> n] \in Messages
      BY Zenon, <2>2 DEF Messages
    <3> QED
      BY Zenon, <3>1
  <2>4. Live(u)
    BY <2>1, <2>3, <1>2, <1>5, <1>6, <1>7, <1>9
  <2>5. PICK j \in DOMAIN dyCoros : dyCoros[j].m = u
    BY Zenon, <2>4, <1>1 DEF Live
  <2>6. j # f
    BY Zenon, <2>3, <2>5, <1>2, <1>3
  <2> QED
    BY Zenon, <2>3, <2>5, <2>6, <1>8
<1>10. dyEntry = [v |-> dyWriter.v, conn |-> dyConn.n]
  <2>1. dyEntry.v = dyWriter.v
    BY <1>6, <1>7, <1>9
  <2>2. dyEntry \in [v : 0 .. DyMaxChanges, conn : 0 .. DyMaxConns]
    BY Zenon DEF DyIInv, DyTypeOK
  <2> QED
    BY Zenon, <2>1, <2>2, <1>7
<1>11. \A j \in DOMAIN dyCoros : j = f
  <2> SUFFICES ASSUME NEW j \in DOMAIN dyCoros, j # f PROVE FALSE
    BY Zenon
  <2>1. PICK u \in Messages : u = dyCoros[j].m
    BY Zenon, CoroTypes DEF DyIInv
  <2>2. Live(u) /\ u.kind = "U" /\ u.v # next
    BY Zenon, <2>1, <1>8 DEF Live
  <2>3. next <= u.v /\ u.v <= w /\ u.v \in Nat
    BY Zenon, <2>2, <1>4, <1>5, <1>6, DyNumbers DEF DyIInv, TokensInv, FirstInv
  <2> QED
    BY <2>3, <1>9
<1>12. Len(dyCoros) = 1
  <2>1. PICK k \in Nat : k = Len(dyCoros) /\ DOMAIN dyCoros = 1 .. k
    BY Zenon, CoroTypes DEF DyIInv
  <2>2. 1 \in DOMAIN dyCoros /\ k \in DOMAIN dyCoros
    BY <2>1, <1>3
  <2> QED
    BY Zenon, <2>1, <2>2, <1>11
<1> QED
  BY Zenon, <1>10, <1>12

(* The inductive invariant implies DyInv.                                  *)
LEMMA DyInvFromDyIInv == ASSUME DyIInv PROVE DyInv
<1>1. EntryMeansConnected
  <2> SUFFICES ASSUME dyEntry # NoEntry PROVE dyEntry.conn = dyConn.n /\ dyConn.st # "down"
    BY Zenon DEF EntryMeansConnected
  <2>1. Handled
    BY Zenon DEF DyIInv, StagesInv
  <2> QED
    BY Zenon, <2>1 DEF DyIInv, TokensInv, DyFreshInv
<1> QED
  BY Zenon, <1>1, UpToDateFromDyIInv DEF DyInv, DyIInv, WokenFindTheirConnection

(* Another server's entry in the directory is of a connected peer; once    *)
(* its messages have come to rest it shows the peer's newest value; and    *)
(* propagate_update() always finds the connection it waited for: whatever  *)
(* the order in which read_manager.tcc gets the messages and the news that *)
(* the connection is lost, for any number of connections and changes.      *)
THEOREM DirectoryIsRight == DySpec => []DyInv
<1>1. DyInit => DyIInv
  BY Zenon, InitDyIInv
<1>2. DyIInv /\ [DyNext]_dyVars => DyIInv'
  BY Zenon, StepDyIInv
<1>3. DyIInv => DyInv
  BY Zenon, DyInvFromDyIInv
<1> QED
  BY <1>1, <1>2, <1>3, PTL DEF DySpec

(* The directory never goes from a newer value of a peer to an older one.  *)
THEOREM DirectoryKeepsTheNewest == DySpec => DirectoryNeverGoesBack
<1> DEFINE Forward == (dyEntry # NoEntry /\ dyEntry' # NoEntry) => dyEntry'.v >= dyEntry.v
<1>1. DyInit => DyIInv
  BY Zenon, InitDyIInv
<1>2. DyIInv /\ [DyNext]_dyVars => DyIInv'
  BY Zenon, StepDyIInv
<1>3. ASSUME DyIInv, [DyNext]_dyVars PROVE [Forward]_dyVars
  <2> SUFFICES ASSUME DyNext, dyEntry # NoEntry, dyEntry' # NoEntry, dyEntry' # dyEntry
               PROVE  dyEntry'.v >= dyEntry.v
    BY <1>3, DyNumbers DEF DyIInv
  <2>1. Handled
    BY Zenon, <1>3 DEF DyIInv, StagesInv
  <2>2. ASSUME NEW m \in dyNet, OnMessage(m) PROVE FALSE
    <3>1. PICK f \in DOMAIN dyCoros : IsFirst(f)
      BY Zenon, <2>1 DEF Handled
    <3>2. dyCoros[f].st # "init"
      BY Zenon, <3>1, <1>3 DEF DyIInv, StagesInv
    <3>3. m.kind # "I"
      BY Zenon, <3>2, <1>3 DEF DyIInv, StagesInv
    <3> QED
      BY Zenon, <2>2, <3>3 DEF OnMessage, HandleConnection, PropagateUpdate
  <2>3. PICK i \in DOMAIN dyCoros : UpdateIsMade(i)
    BY Zenon, <2>2 DEF DyNext, OnConnectionChange, OnValueChange, UpdateIsWoken, UpdateHasItsTurn,
       UpdateIsInterrupted, ConnectionEnds, EntryIsDeleted, InterruptorPulsed, ConnectionIsLost,
       ConnectionGoesAway, NewConnection
  <2>4. dyEntry.v < dyEntry'.v /\ dyEntry.v \in Nat /\ dyEntry'.v \in Nat
    BY <2>3, <1>2, <1>3, UpdateIsMadeKeeps, DyNumbers DEF DyIInv, DyTypeOK
  <2> QED
    BY <2>4
<1> QED
  BY <1>1, <1>2, <1>3, PTL DEF DySpec, DirectoryNeverGoesBack
================================================================================
